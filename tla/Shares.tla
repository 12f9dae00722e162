------------------------------- MODULE Shares -------------------------------
(***************************************************************************)
(* What the workers find, on its way to the pool and back: the list of     *)
(* net/JobResults.cpp, filled by the workers under a mutex and emptied by  *)
(* the event loop when the asynchronous call m_async tells it to; the      *)
(* client's requests, numbered, and the answers that NetworkState counts.  *)
(*                                                                         *)
(* One client stands for the strategy's: to turn to another pool is to     *)
(* start another session, and the numbers go on, m_sequence being static.  *)
(* Every login is answered with an id of its own, m_rpcId, and each job,   *)
(* and what is found for it, carries the id of the session it came with.   *)
(* A session is named by the number of its login.                          *)
(*                                                                         *)
(* Left out: the results of a GPU, which the thread pool checks first, the *)
(* extra round trips of TLS, and refused logins, which end like Lost.      *)
(***************************************************************************)
EXTENDS Naturals, Sequences

CONSTANTS Workers,
          Found,       \* the shares that will be found
          Done,        \* JobResults::done(): a job ran out of nonces
          None,
          MaxSessions, \* bound: logins
          MaxPings     \* bound: no ping once this number has been used

Results == Found \cup Done
Sessions == 1..MaxSessions

ASSUME SharesAssumption ==
  /\ Found \cap Done = {}
  /\ None \notin Results \cup {"accepted", "rejected"}
  /\ MaxSessions \in Nat /\ MaxPings \in Nat

VARIABLES
  mines,      \* of each worker: the session of its job, 0 before the first
  clientId,   \* of each result: the session it was found in, 0 until then
  list,       \* JobResultsPrivate::m_results
  signalled,  \* m_async has been sent and not been read
  woken,      \* the event loop is in onAsync(), before it takes the list
  delivering, \* the local list in submit()
  single,     \* the strategy is a SinglePoolStrategy
  active,     \* the strategy is active
  conn,       \* the client's m_state: "Closed", "Connected" or "Closing"
  rpcId,      \* Client::m_rpcId, 0 before the first login
  logins,     \* how often the client has connected and asked to log in
  sequence,   \* BaseClient::m_sequence
  inFlight,   \* BaseClient::m_results: the shares by their numbers
  requests,   \* what the pool has not answered
  answers,    \* what the client has not read
  said,       \* what the pool has answered of which share
  counted     \* of each share: what NetworkState::add() was told of it

queue == <<list, signalled, woken, delivering>>
peer  == <<requests, answers, said>>
login == <<single, active, rpcId, logins>>
vars == <<mines, clientId, queue, login, conn, sequence, inFlight, peer, counted>>

Verdicts == {"accepted", "rejected"}
Request  == [id: Nat, share: Found \cup {None}]
Answer   == [id: Nat, verdict: Verdicts]

TypeOK ==
  /\ mines \in [Workers -> Sessions \cup {0}]
  /\ clientId \in [Results -> Sessions \cup {0}]
  /\ list \in Seq(Results) /\ delivering \in Seq(Results)
  /\ signalled \in BOOLEAN /\ woken \in BOOLEAN
  /\ single \in BOOLEAN /\ active \in BOOLEAN
  /\ conn \in {"Closed", "Connected", "Closing"}
  /\ rpcId \in Sessions \cup {0} /\ logins \in Sessions \cup {0}
  /\ sequence \in Nat \ {0}
  /\ inFlight \subseteq [id: Nat, share: Found]
  /\ requests \subseteq Request /\ answers \subseteq Answer
  /\ said \subseteq Found \X Verdicts
  /\ counted \in [Found -> Verdicts \cup {None}]

Init ==
  /\ mines = [w \in Workers |-> 0]
  /\ clientId = [r \in Results |-> 0]
  /\ list = <<>> /\ signalled = FALSE /\ woken = FALSE /\ delivering = <<>>
  /\ single \in BOOLEAN /\ active = FALSE
  /\ conn = "Closed" /\ rpcId = 0 /\ logins = 0
  /\ sequence = 1 /\ inFlight = {}
  /\ requests = {} /\ answers = {}
  /\ said = {} /\ counted = [s \in Found |-> None]

-----------------------------------------------------------------------------
(* The workers.  A worker takes the miner's job, which came with the last  *)
(* login, when it notices; until then it works on the job it has.          *)
TakeJob(w) ==
  /\ mines[w] # rpcId
  /\ mines' = [mines EXCEPT ![w] = rpcId]
  /\ UNCHANGED <<clientId, queue, login, conn, sequence, inFlight, peer, counted>>

(* JobResults::submit() and done(), with the mutex: push_back() and send().*)
Submits(w, r) ==
  /\ mines[w] # 0 /\ clientId[r] = 0
  /\ clientId' = [clientId EXCEPT ![r] = mines[w]]
  /\ list' = Append(list, r)
  /\ signalled' = TRUE
  /\ UNCHANGED <<mines, woken, delivering, login, conn, sequence, inFlight, peer, counted>>

-----------------------------------------------------------------------------
(* The event loop runs one callback at a time.                             *)
LoopIsFree == ~woken /\ delivering = <<>>

(* on_schedule() reads all that was sent and calls onAsync().              *)
OnSchedule ==
  /\ LoopIsFree /\ signalled
  /\ signalled' = FALSE
  /\ woken' = TRUE
  /\ UNCHANGED <<mines, clientId, list, delivering, login, conn, sequence, inFlight, peer, counted>>

(* submit(): the lists are swapped with the mutex, ...                     *)
TakesFirst ==
  /\ delivering' = SubSeq(list, 1, 1)
  /\ list' = SubSeq(list, 2, Len(list))
TakesList ==
  /\ delivering' = list
  /\ list' = <<>>

Take ==
  /\ woken
  /\ woken' = FALSE
  /\ TakesList
  /\ UNCHANGED <<mines, clientId, signalled, login, conn, sequence, inFlight, peer, counted>>

-----------------------------------------------------------------------------
(* close(), of a connection that is neither closing nor closed.            *)
Closes == conn' = IF conn = "Connected" THEN "Closing" ELSE conn
StaysOpen == UNCHANGED conn

(* Client::send(): the number is used up when the request is written; when *)
(* write() fails the connection is closed.  That send() finds it neither   *)
(* connected nor writable, and returns without closing it, is left out: a  *)
(* request is made in the connected state only, and a stream is writable   *)
(* until it is closed.                                                     *)
SendsWithoutNumber(request) ==
  /\ requests' = requests \cup {request}
  /\ UNCHANGED <<sequence, answers, said>>
Sends(request) ==
  /\ requests' = requests \cup {request}
  /\ sequence' = sequence + 1
  /\ UNCHANGED <<answers, said>>

CannotSendAndGoesOn == UNCHANGED <<conn, peer, sequence>>
CannotSend == Closes /\ UNCHANGED <<peer, sequence>>

(* A FailoverStrategy drops what comes while no pool is active, a          *)
(* SinglePoolStrategy asks its client; and that drops the results of other *)
(* sessions.                                                               *)
PassesAll == TRUE
Passes == single \/ active

MaySubmitAny(r) == Passes /\ conn = "Connected"
MaySubmit(r) ==
  /\ Passes
  /\ clientId[r] = rpcId
  /\ conn = "Connected"

(* Client::submit() of one result after the other.                         *)
DropResult(r) ==
  /\ ~MaySubmit(r)
  /\ UNCHANGED <<conn, sequence, inFlight, peer>>

EndSession(r) ==
  /\ r \in Done /\ MaySubmit(r)
  /\ Closes
  /\ UNCHANGED <<sequence, inFlight, peer>>

SendShare(r) ==
  /\ r \in Found /\ MaySubmit(r)
  /\ inFlight' = {f \in inFlight : f.id # sequence} \cup {[id |-> sequence, share |-> r]}
  /\ \/ Sends([id |-> sequence, share |-> r]) /\ UNCHANGED conn
     \/ CannotSend

Deliver ==
  /\ delivering # <<>>
  /\ LET r == Head(delivering) IN DropResult(r) \/ EndSession(r) \/ SendShare(r)
  /\ delivering' = Tail(delivering)
  /\ UNCHANGED <<mines, clientId, list, signalled, woken, login, counted>>

-----------------------------------------------------------------------------
(* The connection.  onConnect() and login(), whose number is 1, although   *)
(* it uses one up.  Nothing of an older connection is still under way.     *)
Forgets == inFlight' = {}

Login ==
  /\ LoopIsFree /\ conn = "Closed" /\ logins < MaxSessions
  /\ conn' = "Connected"
  /\ logins' = logins + 1
  /\ Forgets
  /\ Sends([id |-> 1, share |-> None])
  /\ UNCHANGED <<mines, clientId, queue, single, active, rpcId, counted>>

(* ping(), of a client that is logged in.                                  *)
Ping ==
  /\ LoopIsFree /\ conn = "Connected" /\ active /\ sequence < MaxPings
  /\ Sends([id |-> sequence, share |-> None])
  /\ UNCHANGED <<mines, clientId, queue, login, conn, inFlight, counted>>

(* read() of an error, the timeout of a response, a refused login.         *)
Lost ==
  /\ LoopIsFree /\ conn = "Connected"
  /\ Closes
  /\ UNCHANGED <<mines, clientId, queue, login, sequence, inFlight, peer, counted>>

(* onClose(), and the strategy's, that is not active any more.             *)
Closed ==
  /\ LoopIsFree /\ conn = "Closing"
  /\ conn' = "Closed"
  /\ active' = FALSE
  /\ requests' = {} /\ answers' = {}
  /\ UNCHANGED <<mines, clientId, queue, single, rpcId, logins, sequence, inFlight, said, counted>>

(* The pool answers in any order, and rejects what is not of the session.  *)
PoolAnswers(request) ==
  /\ request \in requests
  /\ requests' = requests \ {request}
  /\ LET s == request.share IN
     \E v \in Verdicts :
       /\ s = None => v = "accepted"
       /\ s # None /\ clientId[s] # logins => v = "rejected"
       /\ answers' = answers \cup {[id |-> request.id, verdict |-> v]}
       /\ said' = IF s = None THEN said ELSE said \cup {<<s, v>>}
  /\ UNCHANGED <<mines, clientId, queue, login, conn, sequence, inFlight, counted>>

(* parseResponse(), also of lines that came together with one that made    *)
(* the client close.  The answer to the login, ...                         *)
TakesAnyId == rpcId' \in {logins, None}
TakesId == rpcId' = logins

LoggedIn(answer) ==
  /\ answer.id = 1
  /\ TakesId
  /\ active' = TRUE
  /\ UNCHANGED <<single, logins, conn, inFlight, counted>>

(* ... and handleSubmitResponse(); the connection is closed by a critical  *)
(* error, or by any when the client is the second of its strategy.         *)
Answered(answer) ==
  /\ answer.id # 1
  /\ counted' = [s \in Found |-> IF [id |-> answer.id, share |-> s] \in inFlight
                                 THEN answer.verdict ELSE counted[s]]
  /\ inFlight' = {f \in inFlight : f.id # answer.id}
  /\ \/ StaysOpen
     \/ answer.verdict = "rejected" /\ Closes
  /\ UNCHANGED login

Read(answer) ==
  /\ LoopIsFree /\ answer \in answers /\ conn # "Closed"
  /\ answers' = answers \ {answer}
  /\ LoggedIn(answer) \/ Answered(answer)
  /\ UNCHANGED <<mines, clientId, queue, sequence, requests, said>>

-----------------------------------------------------------------------------
Reading == \E answer \in answers : Read(answer)
Pool    == \E request \in requests : PoolAnswers(request)

Next ==
  \/ \E w \in Workers : TakeJob(w) \/ \E r \in Results : Submits(w, r)
  \/ OnSchedule \/ Take \/ Deliver
  \/ Login \/ Ping \/ Lost \/ Closed
  \/ Pool \/ Reading

Spec == Init /\ [][Next]_vars

(* The event loop runs the callbacks that are due, and a pool answers, in  *)
(* some order, as long as the connection lasts.                            *)
FairSpec ==
  /\ Spec
  /\ WF_vars(OnSchedule) /\ WF_vars(Take) /\ WF_vars(Deliver)
  /\ WF_vars(Closed) /\ WF_vars(Pool) /\ WF_vars(Reading)
-----------------------------------------------------------------------------
(* What is counted of a share is what the pool said of that share, whatever*)
(* pings, closed connections and unsent requests share its numbers.        *)
CountedAsAnswered ==
  \A s \in Found : counted[s] # None => <<s, counted[s]>> \in said

(* A FailoverStrategy never troubles a pool with a share of another        *)
(* session, which most answer by closing the connection.  (With one pool,  *)
(* a late share may be sent while the client is logging in again.)         *)
NoForeignShare ==
  ~single => \A q \in requests : q.share # None => clientId[q.share] = logins

(* Each result is seen to: a share is counted and a job without nonces     *)
(* ends the session, unless the session is over before.                    *)
IsSettled(r) ==
  \/ clientId[r] # rpcId \/ ~active
  \/ r \in Found /\ counted[r] # None

EveryResultIsSettled ==
  \A r \in Results : clientId[r] # 0 ~> IsSettled(r)
=============================================================================
