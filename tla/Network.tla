------------------------------- MODULE Network ------------------------------
(***************************************************************************)
(* Whose jobs the miner gets: net/Network.cpp between the strategy of the  *)
(* user's pools and the donation, net/strategies/DonateStrategy.cpp, which *)
(* has a strategy of its own, or a client that asks the user's pool to     *)
(* pass the donation on (m_proxy).  The donation's strategy is a Strategy. *)
(* So is the user's, of which only two statuses are met here, for it is    *)
(* stopped only to be replaced.  Of the miner job and active are left.     *)
(*                                                                         *)
(* All of it runs on the event loop: every action is one callback of a     *)
(* client or a timer, with the calls it makes up to Network and from there *)
(* into the other strategy and the miner.                                  *)
(*                                                                         *)
(* Of the timers only the order is kept: the donation's timer runs while   *)
(* it is idle or active, and a tick ends the wait.  The program is built   *)
(* with TLS, where the donation has two pools and a FailoverStrategy.      *)
(***************************************************************************)
EXTENDS Naturals

CONSTANTS UserJobs,   \* the jobs of the user's pools
          None,
          ProxyDonate \* "donate-over-proxy": "none", "auto" or "always"

ASSUME NetworkAssumption ==
  /\ UserJobs # {} /\ None \notin UserJobs \cup {"donation"} /\ "donation" \notin UserJobs
  /\ ProxyDonate \in {"none", "auto", "always"}

VARIABLES
  user,     \* the status of m_strategy: "Trying" or "Active"
  single,   \* it is a SinglePoolStrategy, not a FailoverStrategy
  offered,  \* client()->job(), the last job of its client
  state,    \* DonateStrategy::m_state
  inner,    \* the status of the donation's own m_strategy
  wanted,   \* which has been connected, and not stopped since
  proxy,    \* m_proxy: None, "Trying" or "Online"
  failures, \* its m_failures
  job,      \* MinerPrivate::job
  active    \* MinerPrivate::active: the miner mines job

userVars   == <<user, single, offered>>
innerVars  == <<inner, wanted>>
donateVars == <<state, innerVars, proxy, failures>>
minerVars  == <<job, active>>
vars == <<userVars, donateVars, minerVars>>

Inner == INSTANCE Strategy WITH status <- inner

TypeOK ==
  /\ user \in {"Trying", "Active"} /\ inner \in Inner!Statuses
  /\ single \in BOOLEAN /\ wanted \in BOOLEAN /\ active \in BOOLEAN
  /\ offered \in UserJobs \cup {None}
  /\ state \in {"Idle", "Connect", "Active", "Wait"}
  /\ proxy \in {None, "Trying", "Online"} /\ failures \in 0..2
  /\ job \in UserJobs \cup {"donation", None}

(* Network::connect() has been called; the donation's timer is running.    *)
Init ==
  /\ user = "Trying" /\ single \in BOOLEAN /\ offered = None
  /\ state = "Idle" /\ Inner!Init /\ proxy = None /\ failures = 0
  /\ job = None /\ active = FALSE

-----------------------------------------------------------------------------
(* The calls into the miner: setJob() and pause().                         *)
SetJob(j)  == job' = j /\ active' = TRUE
PauseMiner == active' = FALSE /\ UNCHANGED job

(* Network::onJob(): the user's jobs are dropped during the donation.      *)
DropsNothing == FALSE
DropsUnlessIdle == state # "Idle"
DropsUserJobs == state = "Active"

OnUserJob(j) ==
  IF DropsUserJobs THEN UNCHANGED minerVars ELSE SetJob(j)

-----------------------------------------------------------------------------
(* The user's strategy.                                                    *)

(* onActive(), and in the same callback the job that came with the login.  *)
(* A FailoverStrategy also turns from one pool to one it prefers.          *)
UserLogin(j) ==
  /\ single => user # "Active"
  /\ user' = "Active"
  /\ offered' = j
  /\ OnUserJob(j)
  /\ UNCHANGED <<single, donateVars>>

(* A client does not report the same job twice.  A SinglePoolStrategy      *)
(* hands every job on, also one that comes before the login is answered.   *)
UserJob(j) ==
  /\ single \/ user = "Active"
  /\ j # offered
  /\ offered' = j
  /\ OnUserJob(j)
  /\ UNCHANGED <<user, single, donateVars>>

(* onPause(), during a donation too.                                       *)
UserLost ==
  /\ user = "Active" /\ user' = "Trying"
  /\ PauseMiner
  /\ UNCHANGED <<single, offered, donateVars>>

(* onConfigChanged(): the strategy is stopped, deleted and replaced, and   *)
(* only a FailoverStrategy calls onPause() when it is stopped.  The        *)
(* clients of the old one are deleted with it: none of them is late.       *)
PoolsReplaced ==
  /\ user' = "Trying" /\ single' \in BOOLEAN /\ offered' = None
  /\ IF single THEN UNCHANGED minerVars ELSE PauseMiner
  /\ UNCHANGED donateVars

-----------------------------------------------------------------------------
(* The donation.                                                           *)

(* setState(STATE_ACTIVE), unless it is, whatever the state was; the job   *)
(* comes with the login.                                                   *)
Donates == state' = "Active" /\ SetJob("donation")

(* createProxy() wants the user's pool to be active and to offer the       *)
(* extension "connect", as some do.                                        *)
MayUseProxy == user = "Active" /\ ProxyDonate # "none"

(* onTimer() of an idle donation: setState(STATE_CONNECT).                 *)
DonationConnects ==
  /\ state = "Idle"
  /\ state' = "Connect"
  /\ \/ /\ MayUseProxy
        /\ proxy' = "Trying" /\ failures' = 0
        /\ UNCHANGED innerVars
     \/ Inner!Connect /\ UNCHANGED <<proxy, failures>>
  /\ UNCHANGED <<userVars, minerVars>>

(* onTimer() of an active one: setState(STATE_WAIT), and onPause(), where  *)
(* Network resumes the user's strategy, or has no pool to mine for.        *)
ResumesNothing == UNCHANGED minerVars
ResumesOnly == IF user = "Active" THEN SetJob(offered) ELSE UNCHANGED minerVars
ResumesUser == IF user = "Active" THEN SetJob(offered) ELSE PauseMiner

DonationPauses ==
  /\ state = "Active"
  /\ state' = "Wait"
  /\ ResumesUser
  /\ UNCHANGED <<userVars, innerVars, proxy, failures>>

(* tick(), three seconds later: setState(STATE_IDLE).                      *)
DonationEnds ==
  /\ state = "Wait"
  /\ state' = "Idle"
  /\ Inner!Stop
  /\ proxy' = None
  /\ UNCHANGED <<userVars, failures, minerVars>>

(* The donation's own strategy.  A login makes the donation active, also   *)
(* one that comes during the wait, or after stop().                        *)
InnerLogin ==
  /\ Inner!Login
  /\ Donates
  /\ UNCHANGED <<userVars, proxy, failures>>

InnerLost ==
  /\ Inner!Lose \/ Inner!Fade
  /\ UNCHANGED <<userVars, state, proxy, failures, minerVars>>

(* The client through the user's pool.                                     *)
ProxyLogin ==
  /\ proxy = "Trying"
  /\ proxy' = "Online" /\ failures' = 0
  /\ Donates
  /\ UNCHANGED <<userVars, innerVars>>

(* onClose(): the second failure in a row is the last, and then the        *)
(* strategy takes over.  Bound: it is not connected already, as it could   *)
(* be by a late login.                                                     *)
ProxyFails ==
  /\ proxy # None
  /\ failures' = (IF failures = 2 THEN 2 ELSE failures + 1)
  /\ IF failures' = 2 /\ ProxyDonate = "auto"
     THEN Inner!Connect /\ proxy' = None
     ELSE proxy' = "Trying" /\ UNCHANGED innerVars
  /\ UNCHANGED <<userVars, state, minerVars>>

(* setJob(): another job of the donation's pool, dropped unless active.    *)
DonationJob ==
  /\ inner = "Active" \/ proxy = "Online"
  /\ state = "Active"
  /\ SetJob("donation")
  /\ UNCHANGED <<userVars, donateVars>>

-----------------------------------------------------------------------------
Timer == DonationConnects \/ DonationPauses \/ DonationEnds

Next ==
  \/ \E j \in UserJobs : UserLogin(j) \/ UserJob(j)
  \/ UserLost
  \/ PoolsReplaced
  \/ Timer
  \/ InnerLogin \/ InnerLost
  \/ ProxyLogin \/ ProxyFails
  \/ DonationJob

Spec == Init /\ [][Next]_vars

(* The event loop runs the timer of the donation and the ticks.            *)
FairSpec == Spec /\ WF_vars(Timer)
-----------------------------------------------------------------------------
(* Outside a donation the miner has the newest job of the user's pool, and *)
(* mines it, although those that came during the donation were dropped.    *)
(* doc/CHANGELOG_OLD.md: "Fixed user job recovery after donation round".   *)
UserJobIsMined ==
  user = "Active" /\ state # "Active" => active /\ job = offered

(* Without a pool nothing is mined: "no active pools, stop mining".  The   *)
(* exceptions are of a single pool: its job is mined on when it is         *)
(* replaced in the configuration, for no onPause() tells of it, until a    *)
(* new pool gives one; and so is a job it sends before it answers the      *)
(* login, which must be its newest then, and none of before it was lost.   *)
NoPoolNoMining ==
  user # "Active" /\ state # "Active" /\ active
    => job \in UserJobs /\ (offered = None \/ (single /\ job = offered))

(* During a donation no job of the user's pool slips through, so that its  *)
(* nonces are not counted with the wrong index.                            *)
DonationIsExclusive == state = "Active" /\ active => job = "donation"

(* However often the donation's pools are lost and log in again, also in   *)
(* the wait and after the end, the user's job is mined again and again.    *)
UserIsServed ==
  <>[](user = "Active") => []<>(active /\ job = offered)
=============================================================================
