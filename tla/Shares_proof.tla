---------------------------- MODULE Shares_proof ----------------------------
(***************************************************************************)
(* What is counted of a share is the answer to it, and a FailoverStrategy  *)
(* sends no share into another session: for any workers, results, sessions *)
(* and pings.                                                              *)
(***************************************************************************)
EXTENDS Shares, TLAPS

(* Numbers are used up in order; only the last share of a connection that  *)
(* is being closed may have one that was not.                              *)
NumbersGoOn ==
  /\ \A q \in requests : q.id < sequence
  /\ \A a \in answers : a.id < sequence
  /\ \A f \in inFlight : f.id <= sequence /\ (conn = "Connected" => f.id < sequence)

(* So a request or an answer with the number of a share is of that share.  *)
NumbersMatch ==
  /\ \A q \in requests, f \in inFlight : q.id = f.id => q.share = f.share
  /\ \A a \in answers, f \in inFlight : a.id = f.id => <<f.share, a.verdict>> \in said

(* A strategy is only active in the session of the last login.             *)
SessionIsLast ==
  /\ active => rpcId = logins
  /\ conn = "Closed" => ~active /\ requests = {}
  /\ conn # "Closed" => logins # 0

IInv ==
  /\ TypeOK
  /\ NumbersGoOn
  /\ NumbersMatch
  /\ CountedAsAnswered
  /\ SessionIsLast
  /\ NoForeignShare

USE SharesAssumption DEF Verdicts, Request, Answer, Results, Sessions

LEMMA InitIInv == Init => IInv
<1> SUFFICES ASSUME Init PROVE IInv
  OBVIOUS
<1>1. TypeOK
  <2>1. list \in Seq(Results) /\ delivering \in Seq(Results)
    BY DEF Init
  <2>2. signalled \in BOOLEAN /\ woken \in BOOLEAN /\ single \in BOOLEAN /\ active \in BOOLEAN
    BY DEF Init
  <2>3. conn \in {"Closed", "Connected", "Closing"} /\ sequence \in Nat \ {0}
        /\ rpcId \in Sessions \cup {0} /\ logins \in Sessions \cup {0}
    BY DEF Init
  <2>4. mines \in [Workers -> Sessions \cup {0}] /\ clientId \in [Results -> Sessions \cup {0}]
        /\ counted \in [Found -> Verdicts \cup {None}]
    BY DEF Init
  <2>5. inFlight = {} /\ requests = {} /\ answers = {} /\ said = {}
    BY DEF Init
  <2> QED
    BY <2>1, <2>2, <2>3, <2>4, <2>5 DEF TypeOK
<1>2. NumbersGoOn /\ NumbersMatch
  BY DEF Init, NumbersGoOn, NumbersMatch
<1>3. CountedAsAnswered /\ SessionIsLast /\ NoForeignShare
  BY DEF Init, CountedAsAnswered, SessionIsLast, NoForeignShare
<1> QED
  BY <1>1, <1>2, <1>3 DEF IInv

(* The parts of the invariant that are not about types have nothing to do  *)
(* with the list of the results.                                           *)
LEMMA ListOnly ==
  ASSUME IInv, TypeOK', UNCHANGED <<clientId, login, conn, sequence, inFlight, peer, counted>>
  PROVE  IInv'
BY DEF IInv, NumbersGoOn, NumbersMatch, CountedAsAnswered, SessionIsLast, NoForeignShare,
       login, peer

LEMMA WorkerStep ==
  ASSUME IInv, NEW w \in Workers, TakeJob(w) \/ \E r \in Results : Submits(w, r)
  PROVE  IInv'
<1>1. CASE TakeJob(w)
  <2>1. TypeOK'
    BY <1>1 DEF TakeJob, IInv, TypeOK, queue, login, peer
  <2> QED
    BY <1>1, <2>1, ListOnly DEF TakeJob
<1>2. ASSUME NEW r \in Results, Submits(w, r)
      PROVE  IInv'
  <2>1. TypeOK'
    BY <1>2 DEF Submits, IInv, TypeOK, login, peer
  <2>2. NumbersGoOn' /\ NumbersMatch' /\ CountedAsAnswered' /\ SessionIsLast'
    BY <1>2 DEF Submits, IInv, NumbersGoOn, NumbersMatch, CountedAsAnswered, SessionIsLast,
                login, peer
  <2>3. ASSUME ~single, NEW q \in requests, q.share # None
        PROVE  clientId'[q.share] = logins
    <3>1. clientId[q.share] = logins /\ logins # 0 /\ q.share \in Results
      BY <2>3 DEF IInv, TypeOK, NoForeignShare, SessionIsLast
    <3>2. q.share # r
      BY <1>2, <3>1 DEF Submits
    <3> QED
      BY <1>2, <3>1, <3>2 DEF Submits, IInv, TypeOK
  <2>4. NoForeignShare'
    BY <1>2, <2>3 DEF Submits, NoForeignShare, login, peer
  <2> QED
    BY <2>1, <2>2, <2>4 DEF IInv
<1> QED
  BY <1>1, <1>2

LEMMA ListStep ==
  ASSUME IInv, OnSchedule \/ Take
  PROVE  IInv'
<1>1. UNCHANGED <<mines, clientId, login, conn, sequence, inFlight, peer, counted>>
  BY DEF OnSchedule, Take
<1>2. list' \in Seq(Results) /\ delivering' \in Seq(Results)
  <2>1. <<>> \in Seq(Results)
    OBVIOUS
  <2>2. \/ list' = list /\ delivering' = delivering
        \/ list' = <<>> /\ delivering' = list
    BY DEF OnSchedule, Take, TakesList
  <2>3. list \in Seq(Results) /\ delivering \in Seq(Results)
    BY DEF IInv, TypeOK
  <2> QED
    BY <2>1, <2>2, <2>3
<1>3. signalled' \in BOOLEAN /\ woken' \in BOOLEAN
  BY DEF OnSchedule, Take, IInv, TypeOK
<1>4. TypeOK'
  BY <1>1, <1>2, <1>3 DEF IInv, TypeOK, login, peer
<1> QED
  BY <1>1, <1>4, ListOnly

(* One result is dropped, ends the session or is sent.                     *)
LEMMA DeliverStep ==
  ASSUME IInv, Deliver
  PROVE  IInv'
<1> DEFINE r == Head(delivering)
<1>1. /\ delivering # <<>> /\ r \in Results /\ delivering' \in Seq(Results)
      /\ UNCHANGED <<mines, clientId, list, signalled, woken, login, counted>>
  BY DEF Deliver, IInv, TypeOK
<1> HIDE DEF r
<1>2. CASE DropResult(r) \/ EndSession(r)
  <2>1. conn' \in {conn, "Closing"} /\ (conn' # conn => conn = "Connected")
        /\ UNCHANGED <<sequence, inFlight, peer>>
    BY <1>2 DEF DropResult, EndSession, Closes
  <2>2. TypeOK'
    BY <1>1, <2>1 DEF IInv, TypeOK, login, peer
  <2>3. NumbersGoOn' /\ NumbersMatch' /\ CountedAsAnswered'
    BY <1>1, <2>1 DEF IInv, NumbersGoOn, NumbersMatch, CountedAsAnswered, peer
  <2>4. SessionIsLast' /\ NoForeignShare'
    BY <1>1, <2>1 DEF IInv, SessionIsLast, NoForeignShare, login, peer
  <2> QED
    BY <2>2, <2>3, <2>4 DEF IInv
<1>3. CASE SendShare(r)
  <2> DEFINE new == [id |-> sequence, share |-> r]
  <2>1. r \in Found /\ MaySubmit(r) /\ conn = "Connected"
        /\ inFlight' = {f \in inFlight : f.id # sequence} \cup {new}
    BY <1>3 DEF SendShare, MaySubmit
  <2>2. \A f \in inFlight' : f \in inFlight \/ f = new
    BY <2>1
  <2>3. sequence \in Nat /\ sequence # 0
    BY DEF IInv, TypeOK
  <2>4. \A f \in inFlight : f.id < sequence
    BY <2>1 DEF IInv, NumbersGoOn
  <2>5. CASE Sends(new) /\ UNCHANGED conn
    <3>1. requests' = requests \cup {new} /\ sequence' = sequence + 1
          /\ answers' = answers /\ said' = said /\ conn' = conn
      BY <2>5 DEF Sends
    <3>2. TypeOK'
      BY <1>1, <2>1, <2>3, <3>1 DEF IInv, TypeOK, login
    <3>3. NumbersGoOn'
      BY <2>2, <2>3, <2>4, <3>1 DEF IInv, TypeOK, NumbersGoOn
    <3>4. NumbersMatch'
      <4>1. ASSUME NEW q \in requests', NEW f \in inFlight', q.id = f.id
            PROVE  q.share = f.share
        BY <4>1, <2>2, <2>3, <2>4, <3>1 DEF IInv, TypeOK, NumbersGoOn, NumbersMatch
      <4>2. ASSUME NEW a \in answers', NEW f \in inFlight', a.id = f.id
            PROVE  <<f.share, a.verdict>> \in said'
        BY <4>2, <2>2, <2>3, <3>1 DEF IInv, TypeOK, NumbersGoOn, NumbersMatch
      <4> QED
        BY <4>1, <4>2 DEF NumbersMatch
    <3>5. CountedAsAnswered' /\ SessionIsLast'
      BY <1>1, <2>1, <3>1 DEF IInv, CountedAsAnswered, SessionIsLast, login
    <3>6. NoForeignShare'
      <4>1. ~single => clientId[r] = logins
        BY <2>1 DEF MaySubmit, Passes, IInv, SessionIsLast
      <4> QED
        BY <1>1, <3>1, <4>1 DEF IInv, NoForeignShare, login
    <3> QED
      BY <3>2, <3>3, <3>4, <3>5, <3>6 DEF IInv
  <2>6. CASE CannotSend
    <3>1. conn' = "Closing" /\ UNCHANGED <<requests, answers, said, sequence>>
      BY <2>1, <2>6 DEF CannotSend, Closes, peer
    <3>2. TypeOK'
      BY <1>1, <2>1, <2>3, <3>1 DEF IInv, TypeOK, login
    <3>3. NumbersGoOn'
      BY <2>2, <2>3, <2>4, <3>1 DEF IInv, TypeOK, NumbersGoOn
    <3>4. NumbersMatch'
      BY <2>2, <2>3, <3>1 DEF IInv, TypeOK, NumbersGoOn, NumbersMatch
    <3>5. CountedAsAnswered' /\ SessionIsLast' /\ NoForeignShare'
      BY <1>1, <2>1, <3>1 DEF IInv, CountedAsAnswered, SessionIsLast, NoForeignShare, login
    <3> QED
      BY <3>2, <3>3, <3>4, <3>5 DEF IInv
  <2> QED
    BY <1>3, <2>5, <2>6 DEF SendShare
<1> QED
  BY <1>2, <1>3 DEF Deliver, r

(* The connection: a login, a ping, its loss and its end.                  *)
LEMMA LoginStep ==
  ASSUME IInv, Login
  PROVE  IInv'
<1>1. /\ conn = "Closed" /\ conn' = "Connected" /\ logins < MaxSessions
      /\ logins' = logins + 1 /\ inFlight' = {} /\ sequence' = sequence + 1
      /\ requests' = requests \cup {[id |-> 1, share |-> None]}
      /\ answers' = answers /\ said' = said /\ active' = active /\ single' = single
      /\ clientId' = clientId /\ counted' = counted
  BY DEF Login, Forgets, Sends
<1>2. /\ mines' = mines /\ list' = list /\ signalled' = signalled /\ woken' = woken
      /\ delivering' = delivering /\ rpcId' = rpcId
  BY DEF Login, queue
<1>3. sequence \in Nat /\ sequence # 0 /\ logins \in Nat /\ logins + 1 \in Sessions
  BY <1>1 DEF IInv, TypeOK
<1>4. TypeOK'
  BY <1>1, <1>2, <1>3 DEF IInv, TypeOK
<1>5. NumbersGoOn' /\ NumbersMatch'
  BY <1>1, <1>3 DEF IInv, TypeOK, NumbersGoOn, NumbersMatch
<1>6. CountedAsAnswered' /\ SessionIsLast' /\ NoForeignShare'
  BY <1>1, <1>3 DEF IInv, CountedAsAnswered, SessionIsLast, NoForeignShare
<1> QED
  BY <1>4, <1>5, <1>6 DEF IInv

LEMMA PingStep ==
  ASSUME IInv, Ping
  PROVE  IInv'
<1> DEFINE new == [id |-> sequence, share |-> None]
<1>1. /\ conn = "Connected" /\ requests' = requests \cup {new} /\ sequence' = sequence + 1
      /\ answers' = answers /\ said' = said
      /\ UNCHANGED <<mines, clientId, queue, login, conn, inFlight, counted>>
  BY DEF Ping, Sends
<1>2. sequence \in Nat /\ sequence # 0
  BY DEF IInv, TypeOK
<1>3. TypeOK'
  BY <1>1, <1>2 DEF IInv, TypeOK, queue, login
<1>4. NumbersGoOn' /\ NumbersMatch'
  BY <1>1, <1>2 DEF IInv, TypeOK, NumbersGoOn, NumbersMatch
<1>5. CountedAsAnswered' /\ SessionIsLast' /\ NoForeignShare'
  BY <1>1 DEF IInv, CountedAsAnswered, SessionIsLast, NoForeignShare, login
<1> QED
  BY <1>3, <1>4, <1>5 DEF IInv

LEMMA LossStep ==
  ASSUME IInv, Lost \/ Closed
  PROVE  IInv'
<1>1. /\ conn # "Closed" /\ conn' \in {"Closing", "Closed"}
      /\ requests' \subseteq requests /\ answers' \subseteq answers
      /\ (conn' = "Closed" => requests' = {})
      /\ UNCHANGED <<mines, clientId, queue, single, rpcId, logins, sequence, inFlight, said, counted>>
  BY DEF Lost, Closed, Closes, login, peer
<1>2. \/ active' = active /\ conn' # "Closed"
      \/ active' = FALSE
  BY DEF Lost, Closed, Closes, login
<1>3. active \in BOOLEAN
  BY DEF IInv, TypeOK
<1>4. active' \in BOOLEAN
  BY <1>2, <1>3, Zenon
<1>5. active' => active /\ conn' # "Closed"
  BY <1>2, Zenon
<1>6. TypeOK'
  BY <1>1, <1>4 DEF IInv, TypeOK, queue
<1>7. NumbersGoOn' /\ NumbersMatch' /\ CountedAsAnswered'
  BY <1>1 DEF IInv, NumbersGoOn, NumbersMatch, CountedAsAnswered
<1>8. SessionIsLast' /\ NoForeignShare'
  BY <1>1, <1>5 DEF IInv, SessionIsLast, NoForeignShare
<1> QED
  BY <1>6, <1>7, <1>8 DEF IInv

(* The pool answers, and the client reads the answer.                      *)
LEMMA PoolStep ==
  ASSUME IInv, NEW q \in requests, PoolAnswers(q)
  PROVE  IInv'
<1>1. PICK v \in Verdicts :
        /\ answers' = answers \cup {[id |-> q.id, verdict |-> v]}
        /\ said' = IF q.share = None THEN said ELSE said \cup {<<q.share, v>>}
  BY DEF PoolAnswers
<1>2. /\ requests' = requests \ {q}
      /\ UNCHANGED <<mines, clientId, queue, login, conn, sequence, inFlight, counted>>
  BY DEF PoolAnswers
<1>3. q.id \in Nat /\ q.share \in Found \cup {None} /\ said \subseteq said'
  BY <1>1 DEF IInv, TypeOK
<1>4. TypeOK'
  BY <1>1, <1>2, <1>3 DEF IInv, TypeOK, queue, login
<1>5. NumbersGoOn'
  BY <1>1, <1>2 DEF IInv, NumbersGoOn
<1>6. NumbersMatch'
  <2>1. ASSUME NEW a \in answers', NEW f \in inFlight, a.id = f.id
        PROVE  <<f.share, a.verdict>> \in said'
    <3>1. CASE a \in answers
      BY <2>1, <3>1, <1>3 DEF IInv, NumbersMatch
    <3>2. CASE a = [id |-> q.id, verdict |-> v]
      <4>1. q.share = f.share /\ f.share \in Found
        BY <2>1, <3>2 DEF IInv, TypeOK, NumbersMatch
      <4> QED
        BY <1>1, <3>2, <4>1
    <3> QED
      BY <1>1, <3>1, <3>2
  <2> QED
    BY <1>2, <2>1 DEF IInv, NumbersMatch
<1>7. CountedAsAnswered' /\ SessionIsLast' /\ NoForeignShare'
  BY <1>2, <1>3 DEF IInv, CountedAsAnswered, SessionIsLast, NoForeignShare, login
<1> QED
  BY <1>4, <1>5, <1>6, <1>7 DEF IInv

LEMMA ReadStep ==
  ASSUME IInv, NEW a \in answers, Read(a)
  PROVE  IInv'
<1>1. /\ conn # "Closed" /\ answers' = answers \ {a}
      /\ UNCHANGED <<mines, clientId, queue, sequence, requests, said>>
  BY DEF Read
<1>2. CASE LoggedIn(a)
  <2>1. rpcId' = logins /\ active' = TRUE
        /\ UNCHANGED <<single, logins, conn, inFlight, counted>>
    BY <1>2 DEF LoggedIn, TakesId
  <2>2. TypeOK'
    BY <1>1, <2>1 DEF IInv, TypeOK, queue
  <2>3. NumbersGoOn' /\ NumbersMatch' /\ CountedAsAnswered'
    BY <1>1, <2>1 DEF IInv, NumbersGoOn, NumbersMatch, CountedAsAnswered
  <2>4. SessionIsLast' /\ NoForeignShare'
    BY <1>1, <2>1 DEF IInv, SessionIsLast, NoForeignShare
  <2> QED
    BY <2>2, <2>3, <2>4 DEF IInv
<1>3. CASE Answered(a)
  <2>1. /\ inFlight' = {f \in inFlight : f.id # a.id}
        /\ counted' = [s \in Found |-> IF [id |-> a.id, share |-> s] \in inFlight
                                       THEN a.verdict ELSE counted[s]]
        /\ conn' \in {conn, "Closing"} /\ UNCHANGED login
    BY <1>3 DEF Answered, StaysOpen, Closes
  <2>2. TypeOK'
    BY <1>1, <2>1 DEF IInv, TypeOK, queue, login
  <2>3. NumbersGoOn' /\ NumbersMatch'
    BY <1>1, <2>1 DEF IInv, NumbersGoOn, NumbersMatch
  <2>4. ASSUME NEW s \in Found, counted'[s] # None
        PROVE  <<s, counted'[s]>> \in said
    <3>1. CASE [id |-> a.id, share |-> s] \in inFlight
      BY <2>1, <3>1 DEF IInv, NumbersMatch
    <3>2. CASE [id |-> a.id, share |-> s] \notin inFlight
      BY <2>1, <2>4, <3>2 DEF IInv, CountedAsAnswered
    <3> QED
      BY <3>1, <3>2
  <2>5. CountedAsAnswered'
    BY <1>1, <2>4 DEF CountedAsAnswered
  <2>6. SessionIsLast' /\ NoForeignShare'
    BY <1>1, <2>1 DEF IInv, SessionIsLast, NoForeignShare, login
  <2> QED
    BY <2>2, <2>3, <2>5, <2>6 DEF IInv
<1> QED
  BY <1>2, <1>3 DEF Read

LEMMA NextIInv == IInv /\ [Next]_vars => IInv'
<1> SUFFICES ASSUME IInv, [Next]_vars PROVE IInv'
  OBVIOUS
<1>1. CASE \E w \in Workers : TakeJob(w) \/ \E r \in Results : Submits(w, r)
  BY <1>1, WorkerStep
<1>2. CASE OnSchedule \/ Take
  BY <1>2, ListStep
<1>3. CASE Deliver
  BY <1>3, DeliverStep
<1>4. CASE Login
  BY <1>4, LoginStep
<1>5. CASE Ping
  BY <1>5, PingStep
<1>6. CASE Lost \/ Closed
  BY <1>6, LossStep
<1>7. CASE Pool
  BY <1>7, PoolStep DEF Pool
<1>8. CASE Reading
  BY <1>8, ReadStep DEF Reading
<1>9. CASE UNCHANGED vars
  <2>1. TypeOK'
    BY <1>9 DEF vars, queue, login, peer, IInv, TypeOK
  <2> QED
    BY <1>9, <2>1, ListOnly DEF vars
<1> QED
  BY <1>1, <1>2, <1>3, <1>4, <1>5, <1>6, <1>7, <1>8, <1>9 DEF Next

LEMMA Invariance == Spec => []IInv
  BY InitIInv, NextIInv, PTL DEF Spec

(* The lists, the numbers and the ledger of the model keep their types.    *)
THEOREM TypeCorrect == Spec => []TypeOK
<1>1. IInv => TypeOK
  BY DEF IInv
<1> QED
  BY <1>1, Invariance, PTL

(* Client::submit(), parseResponse() and handleSubmitResponse(): what is   *)
(* counted of a share is what the pool said of that share.                 *)
THEOREM AnswersAreMatched == Spec => []CountedAsAnswered
<1>1. IInv => CountedAsAnswered
  BY DEF IInv
<1> QED
  BY <1>1, Invariance, PTL

(* FailoverStrategy::submit() and Client::submit(): no share is sent into  *)
(* a session that its job is not of.                                       *)
THEOREM SharesStayInSession == Spec => []NoForeignShare
<1>1. IInv => NoForeignShare
  BY DEF IInv
<1> QED
  BY <1>1, Invariance, PTL
=============================================================================
