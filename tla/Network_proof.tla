---------------------------- MODULE Network_proof ---------------------------
(***************************************************************************)
(* The safety of Network, for any jobs and each way to donate.             *)
(***************************************************************************)
EXTENDS Network, TLAPS

(* The inductive invariant: an active strategy has a job to offer when the *)
(* donation is over, and outside of the donation only the user's jobs are  *)
(* mined.                                                                  *)
HasOffer == user = "Active" => offered \in UserJobs

IInv ==
  /\ TypeOK
  /\ HasOffer
  /\ UserJobIsMined
  /\ NoPoolNoMining
  /\ DonationIsExclusive

LEMMA InitIInv == Init => IInv
<1> SUFFICES ASSUME Init PROVE IInv
  OBVIOUS
<1>1. user \in {"Trying", "Active"} /\ inner \in Inner!Statuses
  BY DEF Init, Inner!Statuses, Inner!Init
<1>2. /\ user = "Trying" /\ state = "Idle" /\ job = None /\ active = FALSE
      /\ offered = None /\ single \in BOOLEAN /\ proxy = None /\ failures = 0
      /\ wanted = FALSE
  BY DEF Init, Inner!Init
<1>3. offered \in UserJobs \cup {None} /\ job \in UserJobs \cup {"donation", None}
  BY <1>2
<1>4. /\ state \in {"Idle", "Connect", "Active", "Wait"}
      /\ proxy \in {None, "Trying", "Online"} /\ active \in BOOLEAN
      /\ wanted \in BOOLEAN
  BY <1>2
<1>5. failures \in 0..2
  BY <1>2
<1>6. TypeOK
  BY <1>1, <1>2, <1>3, <1>4, <1>5, Zenon DEF TypeOK
<1> QED
  BY <1>2, <1>6 DEF IInv, HasOffer, UserJobIsMined, NoPoolNoMining, DonationIsExclusive

(* The donation's clients, whose logins reach the miner.                   *)
LEMMA DonationStep ==
  ASSUME IInv, InnerLogin \/ ProxyLogin \/ DonationJob
  PROVE  IInv'
<1>1. /\ user' = user /\ single' = single /\ offered' = offered
      /\ state' = "Active" /\ job' = "donation" /\ active' = TRUE
  BY DEF InnerLogin, ProxyLogin, DonationJob, Donates, SetJob, userVars, donateVars, innerVars
<1>2. /\ inner' \in Inner!Statuses /\ wanted' \in BOOLEAN
      /\ proxy' \in {None, "Trying", "Online"} /\ failures' \in 0..2
  BY DEF InnerLogin, ProxyLogin, DonationJob, donateVars, innerVars, IInv, TypeOK,
         Inner!Login, Inner!Statuses
<1>3. TypeOK'
  BY <1>1, <1>2 DEF IInv, TypeOK
<1> QED
  BY <1>1, <1>3 DEF IInv, HasOffer, UserJobIsMined, NoPoolNoMining, DonationIsExclusive

(* What the user's pools send.                                             *)
LEMMA UserStep ==
  ASSUME IInv, NEW j \in UserJobs, UserLogin(j) \/ UserJob(j)
  PROVE  IInv'
<1>1. /\ offered' = j /\ single' = single /\ user' \in {"Trying", "Active"}
      /\ user' = "Active" \/ single
      /\ state' = state /\ inner' = inner /\ wanted' = wanted /\ proxy' = proxy /\ failures' = failures
  BY DEF UserLogin, UserJob, donateVars, innerVars, IInv, TypeOK
<1>2. OnUserJob(j)
  BY DEF UserLogin, UserJob
<1>3. CASE state = "Active"
  <2>1. job' = job /\ active' = active
    BY <1>2, <1>3 DEF OnUserJob, DropsUserJobs, minerVars
  <2>2. TypeOK'
    BY <1>1, <2>1 DEF IInv, TypeOK
  <2> QED
    BY <1>1, <1>3, <2>1, <2>2
    DEF IInv, HasOffer, UserJobIsMined, NoPoolNoMining, DonationIsExclusive
<1>4. CASE state # "Active"
  <2>1. job' = j /\ active' = TRUE
    BY <1>2, <1>4 DEF OnUserJob, DropsUserJobs, SetJob
  <2>2. TypeOK'
    BY <1>1, <2>1 DEF IInv, TypeOK
  <2> QED
    BY <1>1, <1>4, <2>1, <2>2
    DEF IInv, HasOffer, UserJobIsMined, NoPoolNoMining, DonationIsExclusive
<1> QED
  BY <1>3, <1>4

(* The user's strategy is lost or replaced.                                *)
LEMMA UserGone ==
  ASSUME IInv, UserLost \/ PoolsReplaced
  PROVE  IInv'
<1>1. state' = state /\ inner' = inner /\ wanted' = wanted /\ proxy' = proxy /\ failures' = failures
  BY DEF UserLost, PoolsReplaced, donateVars, innerVars
<1>2. user' = "Trying" /\ job' = job
  BY DEF UserLost, PoolsReplaced, PauseMiner, minerVars
<1>3. active' \in {FALSE, active} /\ offered' \in {offered, None} /\ single' \in BOOLEAN
  BY DEF UserLost, PoolsReplaced, PauseMiner, minerVars, IInv, TypeOK
<1>4. active' = FALSE \/ (active' = active /\ offered' = None)
  BY DEF UserLost, PoolsReplaced, PauseMiner, minerVars
<1>5. TypeOK'
  BY <1>1, <1>2, <1>3 DEF IInv, TypeOK
<1>6. state # "Active" /\ active => job \in UserJobs
  BY DEF IInv, HasOffer, UserJobIsMined, NoPoolNoMining
<1>7. NoPoolNoMining'
  BY <1>1, <1>2, <1>4, <1>6 DEF NoPoolNoMining
<1>8. DonationIsExclusive'
  BY <1>1, <1>2, <1>4 DEF IInv, DonationIsExclusive
<1> QED
  BY <1>2, <1>5, <1>7, <1>8 DEF IInv, HasOffer, UserJobIsMined

(* The steps of the donation that do not give the miner a job of its own.  *)
LEMMA QuietStep ==
  ASSUME IInv, DonationConnects \/ DonationEnds \/ InnerLost \/ ProxyFails
  PROVE  IInv'
<1>1. /\ user' = user /\ single' = single /\ offered' = offered
      /\ job' = job /\ active' = active
  BY DEF DonationConnects, DonationEnds, InnerLost, ProxyFails, userVars, minerVars
<1>2. state' = state \/ (state # "Active" /\ state' \in {"Connect", "Idle"})
  BY DEF DonationConnects, DonationEnds, InnerLost, ProxyFails
<1>3. inner' \in Inner!Statuses /\ wanted' \in BOOLEAN
  BY DEF DonationConnects, DonationEnds, InnerLost, ProxyFails, innerVars, IInv, TypeOK,
         Inner!Statuses, Inner!Connect, Inner!Stop, Inner!Lose, Inner!Fade
<1>4. proxy' \in {None, "Trying", "Online"} /\ failures' \in 0..2
  BY DEF DonationConnects, DonationEnds, InnerLost, ProxyFails, IInv, TypeOK
<1>5. TypeOK'
  BY <1>1, <1>2, <1>3, <1>4 DEF IInv, TypeOK
<1> QED
  BY <1>1, <1>2, <1>5
  DEF IInv, HasOffer, UserJobIsMined, NoPoolNoMining, DonationIsExclusive

(* The end of the donation, where the user's job is taken up.              *)
LEMMA PauseStep ==
  ASSUME IInv, DonationPauses
  PROVE  IInv'
<1>1. /\ user' = user /\ single' = single /\ offered' = offered
      /\ inner' = inner /\ wanted' = wanted /\ proxy' = proxy /\ failures' = failures /\ state' = "Wait"
  BY DEF DonationPauses, userVars, innerVars
<1>2. CASE user = "Active"
  <2>1. job' = offered /\ active' = TRUE /\ offered \in UserJobs
    BY <1>2 DEF DonationPauses, ResumesUser, SetJob, IInv, HasOffer
  <2>2. TypeOK'
    BY <1>1, <2>1 DEF IInv, TypeOK
  <2> QED
    BY <1>1, <1>2, <2>1, <2>2
    DEF IInv, HasOffer, UserJobIsMined, NoPoolNoMining, DonationIsExclusive
<1>3. CASE user # "Active"
  <2>1. job' = job /\ active' = FALSE
    BY <1>3 DEF DonationPauses, ResumesUser, PauseMiner
  <2>2. TypeOK'
    BY <1>1, <2>1 DEF IInv, TypeOK
  <2> QED
    BY <1>1, <1>3, <2>1, <2>2
    DEF IInv, HasOffer, UserJobIsMined, NoPoolNoMining, DonationIsExclusive
<1> QED
  BY <1>2, <1>3

LEMMA NextIInv == IInv /\ [Next]_vars => IInv'
<1> SUFFICES ASSUME IInv, [Next]_vars PROVE IInv'
  OBVIOUS
<1>1. CASE UNCHANGED vars
  BY <1>1 DEF vars, userVars, donateVars, innerVars, minerVars, IInv, TypeOK, HasOffer,
              UserJobIsMined, NoPoolNoMining, DonationIsExclusive
<1> QED
  BY <1>1, DonationStep, UserStep, UserGone, QuietStep, PauseStep DEF Next, Timer

LEMMA Inductive == Spec => []IInv
  BY InitIInv, NextIInv, PTL DEF Spec

(* Every variable of the network keeps its type: in particular the two     *)
(* strategies are only used as Strategy says they may be.                  *)
THEOREM TypeCorrect == Spec => []TypeOK
  BY Inductive, PTL DEF IInv

(* Whatever was dropped during a donation, outside of one the miner mines  *)
(* the newest job of the user's pool.                                      *)
THEOREM UserJobIsRecovered == Spec => []UserJobIsMined
  BY Inductive, PTL DEF IInv

(* Without a pool and a donation nothing is mined, except for the job of a *)
(* single pool that was replaced, or its newest if that has not logged in. *)
THEOREM PausedWithoutPool == Spec => []NoPoolNoMining
  BY Inductive, PTL DEF IInv

(* While the donation is active nothing but the donation is mined.         *)
THEOREM DonationIsKeptApart == Spec => []DonationIsExclusive
  BY Inductive, PTL DEF IInv
=============================================================================
