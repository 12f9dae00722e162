---------------------------- MODULE Miner_proof -----------------------------
(***************************************************************************)
(* The safety of Miner, for any workers, jobs and configurations.          *)
(***************************************************************************)
EXTENDS Miner, FiniteSetTheorems, SequenceTheorems, TLAPS

-----------------------------------------------------------------------------
(* The inductive invariant.                                                *)
Threaded == {<<c.profile, L3(j)>> : c \in Configs, j \in Jobs}

Items == [write : {"Pause", "Unpause", "Zero", "Touch", "Join"}, arg : {None}]
           \cup [write : {"Launch"}, arg : Threaded]
           \cup [write : {"Install"}, arg : Jobs]

Types ==
  /\ job \in Jobs \cup {None}
  /\ active \in BOOLEAN /\ enabled \in BOOLEAN /\ ticking \in BOOLEAN
  /\ battery \in BOOLEAN /\ userActive \in BOOLEAN
  /\ paused \in BOOLEAN /\ notified \in BOOLEAN
  /\ autoPause \in Nat
  /\ config \in Configs
  /\ todo \in Seq(Items)
  /\ sequence \in Nat
  /\ wanted \in Seeds \cup {None} /\ served \in Seeds \cup {None}
  /\ pc \in [Workers -> WorkerPCs]
  /\ return \in [Workers -> {"Inner", "Outer"}]
  /\ copy \in [Workers -> Jobs \cup {None}]
  /\ mjob \in [Workers -> Jobs \cup {None}]
  /\ mseq \in [Workers -> Nat]
  /\ vm \in [Workers -> BOOLEAN]

(* autoPause counts the reasons to pause that hold.                        *)
CountsReasons ==
  autoPause = (IF battery THEN 1 ELSE 0) + (IF userActive THEN 1 ELSE 0)

(* Where the n-th write of t is done, the workers are gone.                *)
WorkersGone(t, n) == launched = None \/ \E k \in 1..(n - 1) : t[k].write = "Join"

(* Workers are started once in a handler, and replace none; a job is       *)
(* installed at the end of one, for a dataset to be built without workers. *)
LaunchesOnce(t) ==
  \A n \in 1..Len(t) : t[n].write = "Launch" =>
    WorkersGone(t, n) /\ \A k \in 1..Len(t) : t[k].write = "Launch" => k = n

InstallsLast(t) ==
  \A n \in 1..Len(t) : t[n].write = "Install" =>
    /\ n = Len(t)
    /\ \A k \in 1..Len(t) : t[k].write # "Launch"
    /\ StopForDataset(t[n].arg) => WorkersGone(t, n)

(* Without threads no worker runs, and one that is gone has left nothing.  *)
GoneWorkers ==
  \A w \in Workers : pc[w] = "None" \/ launched # None

NewWorkers ==
  \A w \in Workers : pc[w] = "None" => mseq[w] = 0

(* A worker that is up to date has taken its dataset, wherever it is but   *)
(* on the way through allocateRandomX_VM().                                *)
Allocating == {"SaveLast", "Dataset", "NoDataset"}

UpToDate ==
  \A w \in Workers :
    pc[w] \notin Allocating /\ mjob[w] # None /\ IsRandomX(mjob[w])
      /\ mseq[w] # 0 /\ mseq[w] = sequence => vm[w] /\ RxReady(mjob[w])

HashesSomeJob ==
  \A w \in Workers : pc[w] \in {"Hash", "LastRange"} => mjob[w] # None

IInv ==
  /\ Types
  /\ CountsReasons
  /\ LaunchesOnce(todo) /\ InstallsLast(todo)
  /\ GoneWorkers /\ NewWorkers
  /\ UpToDate /\ HashesSomeJob
  /\ HashesOnItsDataset
  /\ PausedOnBattery

(* Some write of that name is among those of t.                            *)
Has(t, name) == \E n \in 1..Len(t) : t[n].write = name

(* The flag is, or will be, left as asked for: the last write of it says.  *)
Flag(on) == IF on THEN "Pause" ELSE "Unpause"

Leaves(t, on) ==
  \/ paused = on /\ ~Has(t, Flag(~on))
  \/ \E n \in 1..Len(t) : /\ t[n].write = Flag(on)
                          /\ \A k \in n..Len(t) : t[k].write # Flag(~on)

(* An active miner that is enabled is left running, and a job that has to  *)
(* wait for its dataset leaves the workers unpaused.                       *)
LeftRunning ==
  /\ active /\ enabled => Leaves(todo, FALSE)
  /\ \A n \in 1..Len(todo) :
       todo[n].write = "Install" /\ StopForDataset(todo[n].arg) => Leaves(todo, FALSE)

NoLastRange == \A w \in Workers : pc[w] \notin {"LastRange", "SaveLast"}

(* Without a pool, or paused by the user, the workers are left paused, or  *)
(* there are none.                                                         *)
LeftPaused ==
  /\ ~active => Leaves(todo, TRUE) \/ Has(todo, "Install")
  /\ active /\ ~enabled =>
       \/ Leaves(todo, TRUE) \/ Has(todo, "Install")
       \/ launched = None /\ ~Has(todo, "Launch")

(* A pause, a zero and a launch have the workers touched after them, or    *)
(* the job change that Install ends with.                                  *)
Touches(t) == \E n \in 1..Len(t) : t[n].write \in {"Touch", "Install"}

Touching(t) ==
  \A n \in 1..Len(t) : t[n].write \in {"Pause", "Zero", "Launch"} =>
    \E k \in n..Len(t) : t[k].write \in {"Touch", "Install"}

(* A worker the test of the flag let into the mining loop, up to date: the *)
(* miner runs, or the worker is about to be touched.                       *)
LetIn(w) ==
  pc[w] \in {"Inner", "Hash", "LastRange"} /\ return[w] = "Outer" /\ ~Outdated(w)

HeldOut ==
  /\ \A w \in Workers : LetIn(w) => (active /\ enabled) \/ Touches(todo)
  /\ sequence = 0 => launched = None \/ Touches(todo)
  /\ Touching(todo)

-----------------------------------------------------------------------------
(* What the handlers leave to be written.                                  *)
LEMMA HasConcat ==
  ASSUME NEW s \in Seq(Items), NEW t \in Seq(Items), NEW name
  PROVE  /\ s \o t \in Seq(Items)
         /\ Has(s \o t, name) <=> Has(s, name) \/ Has(t, name)
<1> DEFINE c == s \o t
<1>1. /\ c \in Seq(Items) /\ Len(c) = Len(s) + Len(t)
      /\ \A i \in 1..(Len(s) + Len(t)) : c[i] = IF i <= Len(s) THEN s[i] ELSE t[i - Len(s)]
  BY ConcatProperties
<1>2. Len(s) \in Nat /\ Len(t) \in Nat
  OBVIOUS
<1> HIDE DEF c
<1>3. ASSUME Has(c, name) PROVE Has(s, name) \/ Has(t, name)
  <2>1. PICK n \in 1..Len(c) : c[n].write = name
    BY <1>3 DEF Has
  <2>2. CASE n <= Len(s)
    BY <1>1, <1>2, <2>1, <2>2 DEF Has
  <2>3. CASE ~(n <= Len(s))
    <3>1. n - Len(s) \in 1..Len(t) /\ t[n - Len(s)].write = name
      BY <1>1, <1>2, <2>1, <2>3
    <3> QED
      BY <3>1 DEF Has
  <2> QED
    BY <2>2, <2>3
<1>4. ASSUME Has(s, name) PROVE Has(c, name)
  BY <1>1, <1>2, <1>4 DEF Has
<1>5. ASSUME Has(t, name) PROVE Has(c, name)
  <2>1. PICK n \in 1..Len(t) : t[n].write = name
    BY <1>5 DEF Has
  <2>2. n + Len(s) \in 1..Len(c) /\ c[n + Len(s)] = t[n]
    BY <1>1, <1>2
  <2> QED
    BY <2>1, <2>2 DEF Has
<1> QED
  BY <1>1, <1>3, <1>4, <1>5 DEF c

LEMMA HasWrite ==
  ASSUME NEW name, NEW x, NEW other, [write |-> name, arg |-> x] \in Items
  PROVE  /\ WriteOf(name, x) \in Seq(Items) /\ Len(WriteOf(name, x)) = 1
         /\ WriteOf(name, x)[1] = [write |-> name, arg |-> x]
         /\ Has(WriteOf(name, x), other) <=> name = other
  BY DEF WriteOf, Has

LEMMA HasPlainWrite ==
  ASSUME NEW name \in {"Pause", "Unpause", "Zero", "Touch", "Join"}, NEW other
  PROVE  /\ Write(name) \in Seq(Items)
         /\ Has(Write(name), other) <=> name = other
<1>1. [write |-> name, arg |-> None] \in Items
  BY DEF Items
<1> QED
  BY <1>1, HasWrite DEF Write, WriteOf

LEMMA HasNone ==
  ASSUME NEW name
  PROVE  << >> \in Seq(Items) /\ ~Has(<< >>, name)
  BY DEF Has

(* Neither what is written before a launch nor what is written after it    *)
(* spoils it, as long as it is the only one.                               *)
LEMMA LaunchAfter ==
  ASSUME NEW s \in Seq(Items), NEW t \in Seq(Items),
         ~Has(s, "Launch"), LaunchesOnce(t)
  PROVE  LaunchesOnce(s \o t)
<1> DEFINE c == s \o t
<1>1. /\ Len(c) = Len(s) + Len(t)
      /\ \A i \in 1..(Len(s) + Len(t)) : c[i] = IF i <= Len(s) THEN s[i] ELSE t[i - Len(s)]
  BY ConcatProperties
<1>2. Len(s) \in Nat /\ Len(t) \in Nat
  OBVIOUS
<1> HIDE DEF c
<1>3. ASSUME NEW n \in 1..Len(c), c[n].write = "Launch"
      PROVE  n - Len(s) \in 1..Len(t) /\ t[n - Len(s)] = c[n]
  <2>1. ~(n <= Len(s))
    BY <1>1, <1>2, <1>3 DEF Has
  <2> QED
    BY <1>1, <1>2, <2>1
<1>4. ASSUME NEW n \in 1..Len(c), c[n].write = "Launch"
      PROVE  WorkersGone(c, n)
  <2>1. WorkersGone(t, n - Len(s))
    BY <1>3, <1>4 DEF LaunchesOnce
  <2>2. CASE launched # None
    <3>1. PICK k \in 1..(n - Len(s) - 1) : t[k].write = "Join"
      BY <2>1, <2>2 DEF WorkersGone
    <3>2. n \in Nat /\ n - Len(s) \in 1..Len(t)
      BY <1>3, <1>4
    <3>3. k \in 1..Len(t) /\ k + Len(s) \in 1..(n - 1)
      BY <1>2, <3>2
    <3>4. c[k + Len(s)] = t[k]
      BY <1>1, <1>2, <3>3
    <3> QED
      BY <3>1, <3>3, <3>4 DEF WorkersGone
  <2> QED
    BY <2>2 DEF WorkersGone
<1>5. ASSUME NEW n \in 1..Len(c), c[n].write = "Launch",
             NEW k \in 1..Len(c), c[k].write = "Launch"
      PROVE  k = n
  <2>1. k - Len(s) = n - Len(s)
    BY <1>3, <1>5 DEF LaunchesOnce
  <2> QED
    BY <1>1, <1>2, <2>1
<1> QED
  BY <1>4, <1>5 DEF LaunchesOnce, c

LEMMA LaunchBefore ==
  ASSUME NEW s \in Seq(Items), NEW t \in Seq(Items),
         LaunchesOnce(s), ~Has(t, "Launch")
  PROVE  LaunchesOnce(s \o t)
<1> DEFINE c == s \o t
<1>1. /\ Len(c) = Len(s) + Len(t)
      /\ \A i \in 1..(Len(s) + Len(t)) : c[i] = IF i <= Len(s) THEN s[i] ELSE t[i - Len(s)]
  BY ConcatProperties
<1>2. Len(s) \in Nat /\ Len(t) \in Nat
  OBVIOUS
<1> HIDE DEF c
<1>3. ASSUME NEW n \in 1..Len(c), c[n].write = "Launch"
      PROVE  n \in 1..Len(s) /\ s[n] = c[n]
  <2>1. CASE ~(n <= Len(s))
    <3>1. n - Len(s) \in 1..Len(t) /\ t[n - Len(s)] = c[n]
      BY <1>1, <1>2, <2>1
    <3> QED
      BY <1>3, <3>1 DEF Has
  <2> QED
    BY <1>1, <1>2, <2>1
<1>4. ASSUME NEW n \in 1..Len(c), c[n].write = "Launch"
      PROVE  WorkersGone(c, n)
  <2>1. WorkersGone(s, n)
    BY <1>3, <1>4 DEF LaunchesOnce
  <2>2. CASE launched # None
    <3>1. PICK k \in 1..(n - 1) : s[k].write = "Join"
      BY <2>1, <2>2 DEF WorkersGone
    <3>2. c[k] = s[k]
      BY <1>1, <1>2, <1>3, <1>4
    <3> QED
      BY <3>1, <3>2 DEF WorkersGone
  <2> QED
    BY <2>2 DEF WorkersGone
<1>5. ASSUME NEW n \in 1..Len(c), c[n].write = "Launch",
             NEW k \in 1..Len(c), c[k].write = "Launch"
      PROVE  k = n
  BY <1>3, <1>5 DEF LaunchesOnce
<1> QED
  BY <1>4, <1>5 DEF LaunchesOnce, c

(* Stopping the backend joins the workers, if there are any.               *)
LEMMA StopBackendWrites ==
  /\ StopBackend \in Seq(Items)
  /\ \A name : Has(StopBackend, name) => name \in {"Zero", "Join", "Touch"}
  /\ launched # None => Has(StopBackend, "Join")
<1>1. CASE launched = None
  BY <1>1, HasNone, Zenon DEF StopBackend
<1>2. CASE launched # None
  <2> DEFINE zero == Write("Zero")
             join == Write("Join")
             touch == Write("Touch")
  <2>1. StopBackend = (zero \o join) \o touch
    BY <1>2 DEF StopBackend
  <2>2. \A name : /\ zero \in Seq(Items) /\ join \in Seq(Items) /\ touch \in Seq(Items)
                  /\ Has(zero, name) <=> name = "Zero"
                  /\ Has(join, name) <=> name = "Join"
                  /\ Has(touch, name) <=> name = "Touch"
    BY HasPlainWrite, Zenon
  <2> HIDE DEF zero, join, touch
  <2>3. zero \o join \in Seq(Items)
    BY <2>2, HasConcat
  <2>4. \A name : Has(zero \o join, name) <=> name \in {"Zero", "Join"}
    BY <2>2, HasConcat
  <2>5. StopBackend \in Seq(Items)
    BY <2>1, <2>2, <2>3, HasConcat
  <2>6. \A name : Has(StopBackend, name) <=> name \in {"Zero", "Join", "Touch"}
    BY <2>1, <2>2, <2>3, <2>4, HasConcat
  <2> QED
    BY <2>5, <2>6
<1> QED
  BY <1>1, <1>2

LEMMA StopMinerWrites ==
  /\ StopMiner \in Seq(Items)
  /\ Has(StopMiner, "Unpause")
  /\ \A name : Has(StopMiner, name) => name \in {"Unpause", "Zero", "Join", "Touch"}
  /\ launched # None => Has(StopMiner, "Join")
<1> DEFINE unpause == Write("Unpause")
           zero == Write("Zero")
<1>1. \A name : /\ unpause \in Seq(Items) /\ zero \in Seq(Items)
                /\ Has(unpause, name) <=> name = "Unpause"
                /\ Has(zero, name) <=> name = "Zero"
  BY HasPlainWrite, Zenon
<1>2. StopMiner = (unpause \o zero) \o StopBackend
  BY <1>1, StopBackendWrites DEF StopMiner
<1> HIDE DEF unpause, zero
<1>3. unpause \o zero \in Seq(Items)
  BY <1>1, HasConcat
<1>4. \A name : Has(unpause \o zero, name) <=> name \in {"Unpause", "Zero"}
  BY <1>1, HasConcat
<1>5. \A name : Has(StopMiner, name) <=> Has(unpause \o zero, name) \/ Has(StopBackend, name)
  BY <1>2, <1>3, StopBackendWrites, HasConcat
<1>6. StopMiner \in Seq(Items)
  BY <1>2, <1>3, StopBackendWrites, HasConcat
<1> QED
  BY <1>4, <1>5, <1>6, StopBackendWrites

LEMMA NoLaunch ==
  ASSUME NEW t \in Seq(Items), ~Has(t, "Launch")
  PROVE  LaunchesOnce(t)
  BY DEF Has, LaunchesOnce

(* The backend starts workers once it has none.                            *)
LEMMA SetBackendJobWrites ==
  ASSUME NEW c \in Configs, NEW j \in Jobs \cup {None}
  PROVE  /\ SetBackendJob(c, j) \in Seq(Items)
         /\ LaunchesOnce(SetBackendJob(c, j))
         /\ \A name : Has(SetBackendJob(c, j), name)
                        => name \in {"Zero", "Join", "Touch", "Launch"}
<1>1. CASE Threads(c, j) = None
  BY <1>1, StopBackendWrites, NoLaunch DEF SetBackendJob
<1>2. CASE KeepsThreads(c, j)
  <2>1. SetBackendJob(c, j) = << >>
    BY <1>2 DEF SetBackendJob, KeepsThreads
  <2> QED
    BY <2>1, HasNone, NoLaunch, Zenon
<1>3. CASE Threads(c, j) # None /\ ~KeepsThreads(c, j)
  <2> DEFINE touch == Write("Touch")
             launch == WriteOf("Launch", Threads(c, j))
             before == StopBackend \o touch
  <2>1. [write |-> "Launch", arg |-> Threads(c, j)] \in Items
    <3>1. Threads(c, j) \in Threaded
      BY <1>3 DEF Threads, Threaded
    <3> QED
      BY <3>1 DEF Items
  <2>2. /\ launch \in Seq(Items) /\ Len(launch) = 1
        /\ \A name : Has(launch, name) <=> name = "Launch"
    BY <2>1, HasWrite, Zenon
  <2>3. touch \in Seq(Items) /\ \A name : Has(touch, name) <=> name = "Touch"
    BY HasPlainWrite, Zenon
  <2>4. SetBackendJob(c, j) = before \o launch
    BY <1>3, <2>2, <2>3, StopBackendWrites DEF SetBackendJob
  <2> HIDE DEF touch, launch
  <2>5. before \in Seq(Items) /\ \A name : Has(before, name) <=> Has(StopBackend, name) \/ name = "Touch"
    BY <2>3, StopBackendWrites, HasConcat
  <2> HIDE DEF before
  <2>6. /\ SetBackendJob(c, j) \in Seq(Items)
        /\ \A name : Has(SetBackendJob(c, j), name) <=> Has(before, name) \/ name = "Launch"
    BY <2>2, <2>4, <2>5, HasConcat
  <2>7. /\ Len(SetBackendJob(c, j)) = Len(before) + 1 /\ Len(before) \in Nat
        /\ \A i \in 1..Len(before) : SetBackendJob(c, j)[i] = before[i]
    <3>1. /\ Len(before \o launch) = Len(before) + Len(launch)
          /\ \A i \in 1..(Len(before) + Len(launch)) :
               (before \o launch)[i] = IF i <= Len(before) THEN before[i]
                                       ELSE launch[i - Len(before)]
      BY <2>2, <2>5, ConcatProperties
    <3>2. Len(before) \in Nat
      BY <2>5
    <3> QED
      BY <2>2, <2>4, <3>1, <3>2
  <2>8. ASSUME NEW n \in 1..Len(SetBackendJob(c, j)), SetBackendJob(c, j)[n].write = "Launch"
        PROVE  n = Len(before) + 1
    <3>1. ~Has(before, "Launch")
      BY <2>5, StopBackendWrites
    <3> QED
      BY <2>7, <2>8, <3>1 DEF Has
  <2>9. WorkersGone(SetBackendJob(c, j), Len(before) + 1)
    <3>1. CASE launched # None
      <4>1. PICK k \in 1..Len(before) : before[k].write = "Join"
        BY <2>5, <3>1, StopBackendWrites DEF Has
      <4>2. k \in 1..((Len(before) + 1) - 1) /\ SetBackendJob(c, j)[k].write = "Join"
        BY <2>7, <4>1
      <4> QED
        BY <4>2 DEF WorkersGone
    <3> QED
      BY <3>1 DEF WorkersGone
  <2>10. LaunchesOnce(SetBackendJob(c, j))
    BY <2>8, <2>9 DEF LaunchesOnce
  <2> QED
    BY <2>5, <2>6, <2>10, StopBackendWrites
<1> QED
  BY <1>1, <1>2, <1>3

(* handleJobChange() pauses first if it is to leave the workers paused,    *)
(* and resumes last.                                                       *)
LEMMA JobChangeWrites ==
  ASSUME Types, NEW j \in Jobs \cup {None}, NEW isActive \in BOOLEAN
  PROVE  /\ JobChange(j, isActive) \in Seq(Items)
         /\ LaunchesOnce(JobChange(j, isActive))
         /\ ~Has(JobChange(j, isActive), "Install")
         /\ Has(JobChange(j, isActive), "Pause") <=> ~enabled
         /\ Has(JobChange(j, isActive), "Unpause") <=> isActive /\ enabled
<1> DEFINE pause == IF enabled THEN << >> ELSE Write("Pause")
           backend == SetBackendJob(config, j)
           touch == Write("Touch")
           unpause == IF isActive /\ enabled THEN Write("Unpause") ELSE << >>
           started == pause \o backend
           touched == started \o touch
           change == JobChange(j, isActive)
<1>1. /\ backend \in Seq(Items) /\ LaunchesOnce(backend)
      /\ \A name : Has(backend, name) => name \in {"Zero", "Join", "Touch", "Launch"}
  BY SetBackendJobWrites DEF Types
<1>2. pause \in Seq(Items) /\ \A name : Has(pause, name) <=> ~enabled /\ name = "Pause"
  BY HasNone, HasPlainWrite, Zenon
<1>3. touch \in Seq(Items) /\ \A name : Has(touch, name) <=> name = "Touch"
  BY HasPlainWrite, Zenon
<1>4. /\ unpause \in Seq(Items)
      /\ \A name : Has(unpause, name) <=> isActive /\ enabled /\ name = "Unpause"
  BY HasNone, HasPlainWrite, Zenon
<1>5. change = touched \o unpause
  BY <1>1, <1>2, <1>3, <1>4 DEF JobChange
<1> HIDE DEF pause, backend, touch, unpause, change
<1>6. /\ started \in Seq(Items) /\ LaunchesOnce(started)
      /\ \A name : Has(started, name) <=> Has(pause, name) \/ Has(backend, name)
  BY <1>1, <1>2, HasConcat, LaunchAfter
<1> HIDE DEF started
<1>7. /\ touched \in Seq(Items) /\ LaunchesOnce(touched)
      /\ \A name : Has(touched, name) <=> Has(started, name) \/ name = "Touch"
  BY <1>3, <1>6, HasConcat, LaunchBefore
<1> HIDE DEF touched
<1>8. /\ change \in Seq(Items) /\ LaunchesOnce(change)
      /\ \A name : Has(change, name) <=> Has(touched, name) \/ Has(unpause, name)
  BY <1>4, <1>5, <1>7, HasConcat, LaunchBefore
<1>9. \A name : Has(change, name) <=>
        \/ ~enabled /\ name = "Pause"
        \/ Has(backend, name)
        \/ name = "Touch"
        \/ isActive /\ enabled /\ name = "Unpause"
  BY <1>2, <1>4, <1>6, <1>7, <1>8
<1>10. ~Has(backend, "Install") /\ ~Has(backend, "Pause") /\ ~Has(backend, "Unpause")
  BY <1>1
<1>11. ~Has(change, "Install") /\ (Has(change, "Pause") <=> ~enabled)
  BY <1>9, <1>10
<1>12. Has(change, "Unpause") <=> isActive /\ enabled
  BY <1>9, <1>10
<1> QED
  BY <1>8, <1>11, <1>12 DEF change

LEMMA NoInstall ==
  ASSUME NEW t \in Seq(Items), ~Has(t, "Install")
  PROVE  InstallsLast(t)
  BY DEF Has, InstallsLast

(* Nonce::touch() is never at a loss: the workers hold at most as many     *)
(* sequences as there are workers.                                         *)
LEMMA TouchedIsFresh ==
  ASSUME Types
  PROVE  /\ Touched \in Nat \ {0}
         /\ Touched # sequence
         /\ \A w \in Workers : mseq[w] # Touched
<1> DEFINE N == Cardinality(Workers)
           S == (1..(N + 2)) \ {sequence}
<1>1. N \in Nat /\ IsFiniteSet(Workers)
  BY JobAssumption, FS_CardinalityType
<1>2. IsFiniteSet(1..(N + 2)) /\ Cardinality(1..(N + 2)) = N + 2
  <2>1. 1 \in Int /\ N + 2 \in Int /\ ~(1 > N + 2) /\ (N + 2) - 1 + 1 = N + 2
    BY <1>1
  <2> HIDE DEF N
  <2> QED
    BY <2>1, FS_Interval
<1>3. IsFiniteSet(S) /\ Cardinality(S) \in {N + 1, N + 2}
  <2>1. /\ IsFiniteSet(S)
        /\ Cardinality(S) = IF sequence \in 1..(N + 2) THEN (N + 2) - 1 ELSE N + 2
    BY <1>2, FS_RemoveElement
  <2> HIDE DEF N, S
  <2> QED
    BY <1>1, <2>1
<1>4. \E n \in S : \A w \in Workers : mseq[w] # n
  <2> SUFFICES ASSUME \A n \in S : \E w \in Workers : mseq[w] = n
               PROVE  FALSE
    BY Zenon
  <2> DEFINE f == [n \in S |-> CHOOSE w \in Workers : mseq[w] = n]
  <2>1. \A n \in S : f[n] \in Workers /\ mseq[f[n]] = n
    BY Zenon
  <2>2. f \in [S -> Workers]
    BY <2>1
  <2> HIDE DEF f
  <2>3. Cardinality(Workers) < Cardinality(S)
    BY <1>1, <1>3 DEF N
  <2>4. \E x, y \in S : x # y /\ f[x] = f[y]
    <3> HIDE DEF N, S
    <3> QED
      BY <1>1, <1>3, <2>2, <2>3, FS_PigeonHole
  <2> QED
    BY <2>1, <2>4, Zenon
<1>5. \E n \in 1..(N + 2) : n # sequence /\ \A w \in Workers : mseq[w] # n
  BY <1>4, Zenon
<1>6. /\ Touched \in 1..(N + 2)
      /\ Touched # sequence /\ \A w \in Workers : mseq[w] # Touched
  BY <1>5, Zenon DEF Touched
<1>7. \A n \in 1..(N + 2) : n \in Nat \ {0}
  BY <1>1
<1> QED
  BY <1>6, <1>7, Zenon

-----------------------------------------------------------------------------
(* The inductive invariant holds initially.                                *)
LEMMA InitIInv == Init => IInv
<1> SUFFICES ASSUME Init PROVE IInv
  OBVIOUS
<1>1. Types
  <2>1. /\ pc \in [Workers -> WorkerPCs] /\ return \in [Workers -> {"Inner", "Outer"}]
        /\ mseq \in [Workers -> Nat] /\ vm \in [Workers -> BOOLEAN]
    BY DEF Init, WorkerPCs
  <2>2. copy \in [Workers -> Jobs \cup {None}] /\ mjob \in [Workers -> Jobs \cup {None}]
    BY DEF Init
  <2>3. todo \in Seq(Items)
    BY HasNone DEF Init
  <2>4. config \in Configs
    BY ConfigAssumption DEF Init
  <2> QED
    BY <2>1, <2>2, <2>3, <2>4 DEF Init, Types
<1>2. LaunchesOnce(todo) /\ InstallsLast(todo)
  BY DEF Init, LaunchesOnce, InstallsLast
<1>3. CountsReasons /\ PausedOnBattery
  BY DEF Init, CountsReasons, PausedOnBattery
<1>4. GoneWorkers /\ NewWorkers /\ UpToDate /\ HashesSomeJob /\ HashesOnItsDataset
  BY DEF Init, GoneWorkers, NewWorkers, UpToDate, HashesSomeJob, HashesOnItsDataset, Hashes
<1> QED
  BY <1>1, <1>2, <1>3, <1>4 DEF IInv

(* A handler starts.                                                       *)
LEMMA HandlerStarts ==
  ASSUME IInv, Types', CountsReasons', PausedOnBattery',
         LaunchesOnce(todo'), InstallsLast(todo'),
         UNCHANGED <<launched, sequence, served, workerVars>>
  PROVE  IInv'
<1>1. LaunchesOnce(todo)'
  BY DEF LaunchesOnce, WorkersGone
<1>2. InstallsLast(todo)'
  BY DEF InstallsLast, WorkersGone, StopForDataset, RxReady
<1>3. GoneWorkers' /\ NewWorkers'
  BY DEF IInv, GoneWorkers, NewWorkers, workerVars
<1>4. UpToDate' /\ HashesSomeJob' /\ HashesOnItsDataset'
  BY DEF IInv, UpToDate, HashesSomeJob, HashesOnItsDataset, Hashes, RxReady, workerVars
<1> QED
  BY <1>1, <1>2, <1>3, <1>4 DEF IInv

LEMMA SetJobStep ==
  ASSUME IInv, NEW j \in Jobs, SetJob(j)
  PROVE  IInv'
<1> DEFINE stop == IF StopForDataset(j) THEN StopMiner ELSE << >>
           install == WriteOf("Install", j)
<1>1. /\ todo' = stop \o install
      /\ UNCHANGED <<job, userVars, launched, paused, sequence, datasetVars, workerVars>>
  BY DEF SetJob
<1>2. /\ stop \in Seq(Items)
      /\ \A name : Has(stop, name) => name \in {"Unpause", "Zero", "Join", "Touch"}
      /\ StopForDataset(j) /\ launched # None => Has(stop, "Join")
  BY StopMinerWrites, HasNone
<1>3. [write |-> "Install", arg |-> j] \in Items
  BY DEF Items
<1>4. /\ install \in Seq(Items) /\ Len(install) = 1
      /\ install[1] = [write |-> "Install", arg |-> j]
      /\ \A name : Has(install, name) <=> name = "Install"
  BY <1>3, HasWrite, Zenon
<1> HIDE DEF stop, install
<1>5. /\ todo' \in Seq(Items)
      /\ \A name : Has(todo', name) <=> Has(stop, name) \/ name = "Install"
  BY <1>1, <1>2, <1>4, HasConcat
<1>6. /\ Len(todo') = Len(stop) + 1 /\ Len(stop) \in Nat
      /\ \A i \in 1..Len(stop) : todo'[i] = stop[i]
      /\ todo'[Len(stop) + 1] = install[1]
  <2>1. /\ Len(stop \o install) = Len(stop) + Len(install)
        /\ \A i \in 1..(Len(stop) + Len(install)) :
             (stop \o install)[i] = IF i <= Len(stop) THEN stop[i] ELSE install[i - Len(stop)]
    BY <1>2, <1>4, ConcatProperties
  <2>2. Len(stop) \in Nat
    BY <1>2
  <2> QED
    BY <1>1, <1>4, <2>1, <2>2
<1>7. LaunchesOnce(todo')
  <2>1. ~Has(todo', "Launch")
    BY <1>2, <1>5
  <2> QED
    BY <1>5, <2>1, NoLaunch
<1>8. InstallsLast(todo')
  <2> SUFFICES ASSUME NEW n \in 1..Len(todo'), todo'[n].write = "Install"
               PROVE  /\ n = Len(todo')
                      /\ \A k \in 1..Len(todo') : todo'[k].write # "Launch"
                      /\ StopForDataset(todo'[n].arg) => WorkersGone(todo', n)
    BY DEF InstallsLast
  <2>1. n = Len(stop) + 1
    <3>1. ~Has(stop, "Install")
      BY <1>2
    <3> QED
      BY <1>6, <3>1 DEF Has
  <2>2. \A k \in 1..Len(todo') : todo'[k].write # "Launch"
    <3>1. ~Has(todo', "Launch")
      BY <1>2, <1>5
    <3> QED
      BY <3>1 DEF Has
  <2>3. ASSUME StopForDataset(j), launched # None
        PROVE  WorkersGone(todo', n)
    <3>1. PICK k \in 1..Len(stop) : stop[k].write = "Join"
      BY <1>2, <2>3 DEF Has
    <3>2. k \in 1..(n - 1) /\ todo'[k].write = "Join"
      BY <1>6, <2>1, <3>1
    <3> QED
      BY <3>2 DEF WorkersGone
  <2>4. todo'[n].arg = j
    BY <1>4, <1>6, <2>1
  <2> QED
    BY <1>6, <2>1, <2>2, <2>3, <2>4 DEF WorkersGone
<1>9. Types' /\ CountsReasons' /\ PausedOnBattery'
  BY <1>1, <1>5 DEF IInv, Types, CountsReasons, PausedOnBattery, userVars, datasetVars, workerVars
<1> QED
  BY <1>1, <1>7, <1>8, <1>9, HandlerStarts DEF datasetVars

LEMMA OnDatasetReadyStep ==
  ASSUME IInv, OnDatasetReady
  PROVE  IInv'
<1>1. /\ Idle /\ notified' = FALSE
      /\ UNCHANGED <<job, active, enabled, battery, userActive, autoPause, config,
                     launched, paused, sequence, wanted, served, workerVars>>
  BY DEF OnDatasetReady
<1>2. /\ todo' \in Seq(Items) /\ LaunchesOnce(todo') /\ ~Has(todo', "Install")
      /\ ticking' \in BOOLEAN
  <2>1. CASE RxReady(job)
    <3>1. todo' = JobChange(job, active) /\ ticking' = TRUE
      BY <2>1 DEF OnDatasetReady
    <3>2. Types /\ job \in Jobs \cup {None} /\ active \in BOOLEAN
      BY DEF IInv, Types
    <3> QED
      BY <3>1, <3>2, JobChangeWrites
  <2>2. CASE ~RxReady(job)
    <3>1. todo' = << >> /\ ticking' = ticking
      BY <1>1, <2>2 DEF OnDatasetReady, Idle
    <3> QED
      BY <3>1, HasNone, NoLaunch DEF IInv, Types
  <2> QED
    BY <2>1, <2>2
<1>3. Types' /\ CountsReasons' /\ PausedOnBattery'
  BY <1>1, <1>2 DEF IInv, Types, CountsReasons, PausedOnBattery, workerVars
<1> QED
  BY <1>1, <1>2, <1>3, NoInstall, HandlerStarts

(* Miner::setEnabled() does nothing, or what it is asked to.               *)
LEMMA SetEnabledWrites ==
  ASSUME Types, Idle, NEW e \in BOOLEAN, NEW b \in BOOLEAN, SetEnabled(e, b)
  PROVE  /\ \/ enabled' = enabled /\ todo' = << >> /\ (e = enabled \/ (b /\ e))
            \/ enabled' = e /\ e # enabled /\ ~(b /\ e)
         /\ todo' \in Seq(Items)
         /\ ~Has(todo', "Launch") /\ ~Has(todo', "Install")
         /\ enabled' # enabled /\ active => Has(todo', IF e THEN "Unpause" ELSE "Pause")
         /\ Has(todo', "Unpause") => e /\ enabled'
         /\ Has(todo', "Pause") => ~e /\ ~enabled'
         /\ ~active => todo' = << >>
<1>1. CASE e = enabled \/ RefusesToResume(e, b)
  <2>1. enabled' = enabled /\ todo' = << >>
    BY <1>1, Zenon DEF SetEnabled, Idle
  <2> QED
    BY <1>1, <2>1, HasNone DEF RefusesToResume
<1>2. CASE ~(e = enabled \/ RefusesToResume(e, b))
  <2>1. /\ enabled' = e
        /\ todo' = IF active THEN Write(IF e THEN "Unpause" ELSE "Pause") \o Write("Touch")
                             ELSE << >>
    BY <1>2, Zenon DEF SetEnabled, TellWorkers
  <2>2. e # enabled /\ ~(b /\ e)
    BY <1>2 DEF RefusesToResume
  <2> DEFINE flag == IF e THEN "Unpause" ELSE "Pause"
  <2>3. /\ Write(flag) \in Seq(Items) /\ Write("Touch") \in Seq(Items)
        /\ \A name : /\ Has(Write(flag), name) <=> name = flag
                     /\ Has(Write("Touch"), name) <=> name = "Touch"
    BY HasPlainWrite
  <2>4. CASE active
    <3>1. /\ todo' \in Seq(Items)
          /\ \A name : Has(todo', name) <=> name = flag \/ name = "Touch"
      BY <2>1, <2>3, <2>4, HasConcat
    <3> QED
      BY <2>1, <2>2, <2>4, <3>1
  <2>5. CASE ~active
    BY <2>1, <2>2, <2>5, HasNone
  <2> QED
    BY <2>4, <2>5
<1> QED
  BY <1>1, <1>2

(* The handlers that write no more than the flag and the sequence.         *)
LEMMA FlagHandler ==
  ASSUME IInv,
         todo' \in Seq(Items), ~Has(todo', "Launch"), ~Has(todo', "Install"),
         enabled' \in BOOLEAN, active' \in BOOLEAN,
         battery' \in BOOLEAN, userActive' \in BOOLEAN, CountsReasons', PausedOnBattery',
         UNCHANGED <<job, ticking, config, launched, paused, sequence, datasetVars, workerVars>>
  PROVE  IInv'
<1>1. autoPause' \in Nat
  BY DEF CountsReasons
<1>2. Types'
  BY <1>1 DEF IInv, Types, datasetVars, workerVars
<1> QED
  BY <1>2, NoLaunch, NoInstall, HandlerStarts DEF datasetVars

LEMMA PoolLostStep ==
  ASSUME IInv, PoolLost
  PROVE  IInv'
<1>1. /\ todo' = Write("Pause") \o Write("Touch") /\ active' = FALSE
      /\ UNCHANGED <<job, enabled, battery, userActive, autoPause, ticking, config,
                     launched, paused, sequence, datasetVars, workerVars>>
  BY DEF PoolLost
<1>2. /\ Write("Pause") \in Seq(Items) /\ Write("Touch") \in Seq(Items)
      /\ \A name : /\ Has(Write("Pause"), name) <=> name = "Pause"
                   /\ Has(Write("Touch"), name) <=> name = "Touch"
  BY HasPlainWrite
<1>3. todo' \in Seq(Items) /\ \A name : Has(todo', name) <=> name \in {"Pause", "Touch"}
  BY <1>1, <1>2, HasConcat
<1>4. ~Has(todo', "Launch") /\ ~Has(todo', "Install")
  BY <1>3
<1>5. CountsReasons' /\ PausedOnBattery'
  BY <1>1 DEF IInv, CountsReasons, PausedOnBattery
<1>6. /\ enabled' \in BOOLEAN /\ active' \in BOOLEAN
      /\ battery' \in BOOLEAN /\ userActive' \in BOOLEAN
  BY <1>1 DEF IInv, Types
<1> QED
  BY <1>1, <1>3, <1>4, <1>5, <1>6, FlagHandler

LEMMA UserPauseStep ==
  ASSUME IInv, NEW e \in BOOLEAN, UserPause(e)
  PROVE  IInv'
<1>1. /\ Idle /\ SetEnabled(e, battery)
      /\ UNCHANGED <<job, active, battery, userActive, autoPause, ticking, config,
                     launched, paused, sequence, datasetVars, workerVars>>
  BY DEF UserPause
<1>2. Types /\ battery \in BOOLEAN
  BY DEF IInv, Types
<1>3. /\ \/ enabled' = enabled
         \/ enabled' = e /\ ~(battery /\ e)
      /\ todo' \in Seq(Items) /\ ~Has(todo', "Launch") /\ ~Has(todo', "Install")
  BY <1>1, <1>2, SetEnabledWrites
<1>4. CountsReasons' /\ PausedOnBattery'
  BY <1>1, <1>3 DEF IInv, CountsReasons, PausedOnBattery
<1>5. /\ enabled' \in BOOLEAN /\ active' \in BOOLEAN
      /\ battery' \in BOOLEAN /\ userActive' \in BOOLEAN
  BY <1>1, <1>3 DEF IInv, Types
<1> QED
  BY <1>1, <1>3, <1>4, <1>5, FlagHandler

(* The two automatic pauses: whoever resumes has counted no reason left.   *)
LEMMA OnBatteryStep ==
  ASSUME IInv, NEW b \in BOOLEAN, OnBattery(b)
  PROVE  IInv' /\ (enabled' /\ ~enabled => ~battery' /\ ~userActive')
<1>1. /\ Idle /\ b # battery /\ battery' = b /\ userActive' = userActive
      /\ autoPause' = Counted(autoPause, b)
      /\ SetEnabled(autoPause' = 0, b)
      /\ UNCHANGED <<job, active, userActive, ticking, config, launched, paused,
                     sequence, datasetVars, workerVars>>
  BY DEF OnBattery
<1>2. Types /\ battery \in BOOLEAN /\ userActive \in BOOLEAN /\ enabled \in BOOLEAN
      /\ (autoPause' = 0) \in BOOLEAN
  BY DEF IInv, Types
<1>3. CountsReasons'
  BY <1>1, <1>2 DEF IInv, CountsReasons, Counted
<1>4. /\ \/ enabled' = enabled /\ ((autoPause' = 0) = enabled \/ (b /\ autoPause' = 0))
         \/ enabled' = (autoPause' = 0) /\ ~(b /\ autoPause' = 0)
      /\ todo' \in Seq(Items) /\ ~Has(todo', "Launch") /\ ~Has(todo', "Install")
  BY <1>1, <1>2, SetEnabledWrites
<1>5. b => autoPause' # 0
  BY <1>1, <1>2, <1>3 DEF CountsReasons
<1>6. PausedOnBattery'
  BY <1>1, <1>2, <1>4, <1>5 DEF PausedOnBattery
<1>7. /\ enabled' \in BOOLEAN /\ active' \in BOOLEAN
      /\ battery' \in BOOLEAN /\ userActive' \in BOOLEAN
  BY <1>1, <1>2, <1>4 DEF Types
<1>8. autoPause' = 0 => ~battery' /\ ~userActive'
  BY <1>1, <1>2, <1>3 DEF CountsReasons
<1> QED
  BY <1>1, <1>3, <1>4, <1>6, <1>7, <1>8, FlagHandler

LEMMA OnUserActiveStep ==
  ASSUME IInv, NEW u \in BOOLEAN, OnUserActive(u)
  PROVE  IInv' /\ (enabled' /\ ~enabled => ~battery' /\ ~userActive')
<1>1. /\ Idle /\ u # userActive /\ userActive' = u /\ battery' = battery
      /\ autoPause' = Counted(autoPause, u)
      /\ SetEnabled(autoPause' = 0, battery)
      /\ UNCHANGED <<job, active, battery, ticking, config, launched, paused,
                     sequence, datasetVars, workerVars>>
  BY DEF OnUserActive
<1>2. Types /\ battery \in BOOLEAN /\ userActive \in BOOLEAN /\ enabled \in BOOLEAN
      /\ (autoPause' = 0) \in BOOLEAN
  BY DEF IInv, Types
<1>3. CountsReasons'
  BY <1>1, <1>2 DEF IInv, CountsReasons, Counted
<1>4. /\ \/ enabled' = enabled
         \/ enabled' = (autoPause' = 0) /\ ~(battery /\ autoPause' = 0)
      /\ todo' \in Seq(Items) /\ ~Has(todo', "Launch") /\ ~Has(todo', "Install")
  BY <1>1, <1>2, SetEnabledWrites
<1>5. autoPause' = 0 => ~battery' /\ ~userActive'
  BY <1>1, <1>2, <1>3 DEF CountsReasons
<1>6. PausedOnBattery'
  BY <1>1, <1>2, <1>4, <1>5 DEF IInv, PausedOnBattery
<1>7. /\ enabled' \in BOOLEAN /\ active' \in BOOLEAN
      /\ battery' \in BOOLEAN /\ userActive' \in BOOLEAN
  BY <1>1, <1>2, <1>4 DEF Types
<1> QED
  BY <1>1, <1>3, <1>4, <1>5, <1>6, <1>7, FlagHandler

LEMMA RpcStopStep ==
  ASSUME IInv, RpcStop
  PROVE  IInv'
<1>1. /\ todo' = StopMiner
      /\ UNCHANGED <<job, userVars, launched, paused, sequence, datasetVars, workerVars>>
  BY DEF RpcStop
<1>2. todo' \in Seq(Items) /\ ~Has(todo', "Launch") /\ ~Has(todo', "Install")
  BY <1>1, StopMinerWrites
<1>3. CountsReasons' /\ PausedOnBattery'
  BY <1>1 DEF IInv, CountsReasons, PausedOnBattery, userVars
<1>4. /\ enabled' \in BOOLEAN /\ active' \in BOOLEAN
      /\ battery' \in BOOLEAN /\ userActive' \in BOOLEAN
  BY <1>1 DEF IInv, Types, userVars
<1> QED
  BY <1>1, <1>2, <1>3, <1>4, FlagHandler DEF userVars

LEMMA ConfigChangedStep ==
  ASSUME IInv, NEW c \in Configs, ConfigChanged(c)
  PROVE  IInv'
<1>1. /\ Idle /\ config' = c
      /\ todo' = SetBackendJob(c, job) \/ todo' = todo
      /\ UNCHANGED <<job, active, enabled, battery, userActive, autoPause, ticking,
                     launched, paused, sequence, datasetVars, workerVars>>
  BY DEF ConfigChanged
<1>2. /\ SetBackendJob(c, job) \in Seq(Items)
      /\ LaunchesOnce(SetBackendJob(c, job))
      /\ ~Has(SetBackendJob(c, job), "Install")
  <2>1. job \in Jobs \cup {None}
    BY DEF IInv, Types
  <2> QED
    BY <2>1, SetBackendJobWrites
<1>3. todo' \in Seq(Items) /\ LaunchesOnce(todo') /\ InstallsLast(todo')
  BY <1>1, <1>2, NoInstall DEF IInv, Types
<1>4. Types' /\ CountsReasons' /\ PausedOnBattery'
  BY <1>1, <1>3 DEF IInv, Types, CountsReasons, PausedOnBattery, datasetVars, workerVars
<1> QED
  BY <1>1, <1>3, <1>4, HandlerStarts DEF datasetVars

(* A dataset gets ready, at any time.                                      *)
LEMMA DatasetBuiltStep ==
  ASSUME IInv, DatasetBuilt
  PROVE  IInv'
<1>1. /\ served = None /\ served' = wanted /\ wanted' = wanted /\ notified' = TRUE
      /\ UNCHANGED <<job, userVars, launched, todo, paused, sequence, workerVars>>
  BY DEF DatasetBuilt, Dataset!Grant
<1>2. Types'
  BY <1>1 DEF IInv, Types, userVars, workerVars
<1>3. \A j : ~RxReady(j)
  BY <1>1 DEF RxReady, IsRandomX
<1>4. InstallsLast(todo)'
  BY <1>1, <1>3 DEF IInv, InstallsLast, WorkersGone, StopForDataset
<1>5. LaunchesOnce(todo)'
  BY <1>1 DEF IInv, LaunchesOnce, WorkersGone
<1>6. CountsReasons' /\ PausedOnBattery'
  BY <1>1 DEF IInv, CountsReasons, PausedOnBattery, userVars
<1>7. GoneWorkers' /\ NewWorkers' /\ HashesSomeJob'
  BY <1>1 DEF IInv, GoneWorkers, NewWorkers, HashesSomeJob, workerVars
<1>8. UpToDate' /\ HashesOnItsDataset'
  BY <1>1, <1>3 DEF IInv, UpToDate, HashesOnItsDataset, Hashes, workerVars
<1> QED
  BY <1>2, <1>4, <1>5, <1>6, <1>7, <1>8 DEF IInv

-----------------------------------------------------------------------------
(* The writes of the event loop.                                           *)
LEMMA TailWrites ==
  ASSUME IInv, ~Idle, todo' = Tail(todo)
  PROVE  /\ Head(todo) = todo[1] /\ Head(todo) \in Items
         /\ todo' \in Seq(Items) /\ Len(todo) \in Nat \ {0}
         /\ Len(todo') = Len(todo) - 1
         /\ \A n \in 1..Len(todo') : todo'[n] = todo[n + 1] /\ n + 1 \in 1..Len(todo)
<1>1. todo \in Seq(Items) /\ todo # << >>
  BY DEF IInv, Types, Idle
<1>2. Head(todo) = todo[1] /\ Len(todo) \in Nat \ {0}
  BY <1>1
<1>3. /\ Head(todo) \in Items /\ todo' \in Seq(Items) /\ Len(todo') = Len(todo) - 1
      /\ \A n \in 1..Len(todo') : todo'[n] = todo[n + 1]
  BY <1>1, HeadTailProperties
<1> QED
  BY <1>2, <1>3

(* What was to be written after a write is still to be written as it was.  *)
LEMMA TailKeeps ==
  ASSUME IInv, ~Idle, todo' = Tail(todo), served' = served,
         \/ launched' = launched /\ Head(todo).write \notin {"Join", "Launch"}
         \/ launched' = None /\ Head(todo).write = "Join"
         \/ Head(todo).write = "Launch"
  PROVE  LaunchesOnce(todo)' /\ InstallsLast(todo)'
<1>1. /\ Head(todo) = todo[1] /\ 1 \in 1..Len(todo)
      /\ Len(todo) \in Nat \ {0} /\ Len(todo') = Len(todo) - 1
      /\ \A n \in 1..Len(todo') : todo'[n] = todo[n + 1] /\ n + 1 \in 1..Len(todo)
  BY TailWrites
<1>2. CASE Head(todo).write = "Launch"
  <2>1. \A n \in 1..Len(todo) : todo[n].write = "Launch" => n = 1
    BY <1>1, <1>2 DEF IInv, LaunchesOnce
  <2>2. \A n \in 1..Len(todo) : todo[n].write # "Install"
    BY <1>1, <1>2 DEF IInv, InstallsLast
  <2>3. \A n \in 1..Len(todo') : todo'[n].write \notin {"Launch", "Install"}
    BY <1>1, <2>1, <2>2
  <2> QED
    BY <2>3 DEF LaunchesOnce, InstallsLast
<1>3. CASE Head(todo).write # "Launch"
  <2>1. ASSUME NEW n \in 1..Len(todo'), WorkersGone(todo, n + 1)
        PROVE  WorkersGone(todo, n)'
    <3>1. CASE launched' = launched /\ launched # None
      <4>1. Head(todo).write # "Join"
        BY <1>3, <3>1
      <4>2. PICK k \in 1..((n + 1) - 1) : todo[k].write = "Join"
        BY <2>1, <3>1 DEF WorkersGone
      <4>3. k # 1
        BY <1>1, <4>1, <4>2
      <4>4. k - 1 \in 1..(n - 1) /\ k - 1 \in 1..Len(todo') /\ (k - 1) + 1 = k
        BY <1>1, <4>2, <4>3
      <4>5. todo'[k - 1].write = "Join"
        BY <1>1, <4>2, <4>4
      <4> QED
        BY <4>4, <4>5 DEF WorkersGone
    <3>2. CASE launched' = None
      BY <3>2 DEF WorkersGone
    <3> QED
      BY <1>3, <3>1, <3>2
  <2>2. LaunchesOnce(todo)'
    <3>1. ASSUME NEW n \in 1..Len(todo'), todo'[n].write = "Launch"
          PROVE  WorkersGone(todo, n)'
      <4>1. n + 1 \in 1..Len(todo) /\ todo[n + 1].write = "Launch"
        BY <1>1, <3>1
      <4> QED
        BY <2>1, <4>1 DEF IInv, LaunchesOnce
    <3>2. ASSUME NEW n \in 1..Len(todo'), todo'[n].write = "Launch",
                 NEW k \in 1..Len(todo'), todo'[k].write = "Launch"
          PROVE  k = n
      <4>1. k + 1 = n + 1
        BY <1>1, <3>2 DEF IInv, LaunchesOnce
      <4> QED
        BY <1>1, <4>1
    <3> QED
      BY <3>1, <3>2 DEF LaunchesOnce
  <2>3. InstallsLast(todo)'
    <3> SUFFICES ASSUME NEW n \in 1..Len(todo'), todo'[n].write = "Install"
                 PROVE  /\ n = Len(todo')
                        /\ \A k \in 1..Len(todo') : todo'[k].write # "Launch"
                        /\ StopForDataset(todo[n].arg)' => WorkersGone(todo, n)'
      BY DEF InstallsLast
    <3>1. n + 1 \in 1..Len(todo) /\ todo[n + 1].write = "Install" /\ todo'[n] = todo[n + 1]
      BY <1>1
    <3>2. /\ n + 1 = Len(todo)
          /\ \A k \in 1..Len(todo) : todo[k].write # "Launch"
          /\ StopForDataset(todo[n + 1].arg) => WorkersGone(todo, n + 1)
      BY <3>1 DEF IInv, InstallsLast
    <3>3. StopForDataset(todo[n].arg)' => StopForDataset(todo[n + 1].arg)
      BY <3>1 DEF StopForDataset, RxReady
    <3>4. n = Len(todo')
      BY <1>1, <3>2
    <3>5. \A k \in 1..Len(todo') : todo'[k].write # "Launch"
      BY <1>1, <3>2
    <3> QED
      BY <2>1, <3>2, <3>3, <3>4, <3>5
  <2> QED
    BY <2>2, <2>3
<1> QED
  BY <1>2, <1>3

LEMMA PauseWrite ==
  ASSUME IInv, ~Idle, NEW on \in BOOLEAN,
         Head(todo).write \in {"Pause", "Unpause"}, DoPause(on)
  PROVE  IInv'
<1>1. /\ paused' = on /\ todo' = Tail(todo)
      /\ UNCHANGED <<job, userVars, launched, sequence, datasetVars, workerVars>>
  BY DEF DoPause
<1>2. todo' \in Seq(Items)
  BY <1>1, TailWrites
<1>3. LaunchesOnce(todo)' /\ InstallsLast(todo)'
  BY <1>1, TailKeeps DEF datasetVars
<1>4. Types' /\ CountsReasons' /\ PausedOnBattery'
  BY <1>1, <1>2 DEF IInv, Types, CountsReasons, PausedOnBattery, userVars, datasetVars, workerVars
<1>5. GoneWorkers' /\ NewWorkers'
  BY <1>1 DEF IInv, GoneWorkers, NewWorkers, workerVars
<1>6. UpToDate' /\ HashesSomeJob' /\ HashesOnItsDataset'
  BY <1>1 DEF IInv, UpToDate, HashesSomeJob, HashesOnItsDataset, Hashes, RxReady,
              workerVars, datasetVars
<1> QED
  BY <1>3, <1>4, <1>5, <1>6 DEF IInv

(* A sequence no worker is at makes all of them outdated.                  *)
LEMMA SequenceWrite ==
  ASSUME IInv, ~Idle, NEW s \in Nat, \A w \in Workers : mseq[w] # 0 => mseq[w] # s,
         Head(todo).write \in {"Zero", "Touch"}, DoSequence(s)
  PROVE  IInv'
<1>1. /\ sequence' = s /\ todo' = Tail(todo)
      /\ UNCHANGED <<job, userVars, launched, paused, datasetVars, workerVars>>
  BY DEF DoSequence
<1>2. todo' \in Seq(Items)
  BY <1>1, TailWrites
<1>3. LaunchesOnce(todo)' /\ InstallsLast(todo)'
  BY <1>1, TailKeeps DEF datasetVars
<1>4. Types' /\ CountsReasons' /\ PausedOnBattery'
  BY <1>1, <1>2 DEF IInv, Types, CountsReasons, PausedOnBattery, userVars, datasetVars, workerVars
<1>5. GoneWorkers' /\ NewWorkers'
  BY <1>1 DEF IInv, GoneWorkers, NewWorkers, workerVars
<1>6. UpToDate'
  BY <1>1 DEF UpToDate, workerVars
<1>7. HashesSomeJob' /\ HashesOnItsDataset'
  BY <1>1 DEF IInv, HashesSomeJob, HashesOnItsDataset, Hashes, RxReady,
              workerVars, datasetVars
<1> QED
  BY <1>3, <1>4, <1>5, <1>6, <1>7 DEF IInv

LEMMA JoinWrite ==
  ASSUME IInv, ~Idle, Head(todo).write = "Join", DoJoin
  PROVE  IInv'
<1>1. /\ pc' = [w \in Workers |-> "None"] /\ vm' = [w \in Workers |-> FALSE]
      /\ copy' = [w \in Workers |-> None] /\ mjob' = [w \in Workers |-> None]
      /\ mseq' = [w \in Workers |-> 0] /\ return' = [w \in Workers |-> "Outer"]
      /\ launched' = None /\ todo' = Tail(todo)
      /\ UNCHANGED <<job, userVars, paused, sequence, datasetVars>>
  BY DEF DoJoin
<1>2. todo' \in Seq(Items)
  BY <1>1, TailWrites
<1>3. LaunchesOnce(todo)' /\ InstallsLast(todo)'
  BY <1>1, TailKeeps DEF datasetVars
<1>4. Types'
  <2>1. /\ pc' \in [Workers -> WorkerPCs] /\ return' \in [Workers -> {"Inner", "Outer"}]
        /\ mseq' \in [Workers -> Nat] /\ vm' \in [Workers -> BOOLEAN]
    BY <1>1 DEF WorkerPCs
  <2>2. copy' \in [Workers -> Jobs \cup {None}] /\ mjob' \in [Workers -> Jobs \cup {None}]
    BY <1>1
  <2> QED
    BY <1>1, <1>2, <2>1, <2>2 DEF IInv, Types, userVars, datasetVars
<1>5. CountsReasons' /\ PausedOnBattery'
  BY <1>1 DEF IInv, CountsReasons, PausedOnBattery, userVars
<1>6. GoneWorkers' /\ NewWorkers'
  BY <1>1 DEF GoneWorkers, NewWorkers
<1>7. UpToDate' /\ HashesSomeJob' /\ HashesOnItsDataset'
  BY <1>1 DEF UpToDate, HashesSomeJob, HashesOnItsDataset, Hashes
<1> QED
  BY <1>3, <1>4, <1>5, <1>6, <1>7 DEF IInv

LEMMA LaunchWrite ==
  ASSUME IInv, ~Idle, Head(todo).write = "Launch", DoLaunch(Head(todo).arg)
  PROVE  IInv'
<1>1. /\ pc' = [w \in Workers |-> "Outer"] /\ launched' = Head(todo).arg
      /\ todo' = Tail(todo)
      /\ UNCHANGED <<job, userVars, paused, sequence, datasetVars,
                     return, copy, mjob, mseq, vm>>
  BY DEF DoLaunch
<1>2. /\ todo' \in Seq(Items) /\ Head(todo) \in Items /\ Head(todo) = todo[1]
      /\ 1 \in 1..Len(todo)
  BY <1>1, TailWrites
<1>3. LaunchesOnce(todo)' /\ InstallsLast(todo)'
  BY <1>1, TailKeeps DEF datasetVars
<1>4. launched' # None
  <2>1. Head(todo).arg \in Threaded
    BY <1>2 DEF Items
  <2> QED
    BY <1>1, <2>1, JobAssumption DEF Threaded, L3
<1>5. \A w \in Workers : mseq[w] = 0
  <2>1. WorkersGone(todo, 1)
    BY <1>2 DEF IInv, LaunchesOnce
  <2>2. launched = None
    BY <2>1 DEF WorkersGone
  <2> QED
    BY <2>2 DEF IInv, GoneWorkers, NewWorkers
<1>6. Types' /\ CountsReasons' /\ PausedOnBattery'
  <2>1. pc' \in [Workers -> WorkerPCs]
    BY <1>1 DEF WorkerPCs
  <2> QED
    BY <1>1, <1>2, <2>1 DEF IInv, Types, CountsReasons, PausedOnBattery, userVars, datasetVars
<1>7. GoneWorkers' /\ NewWorkers'
  BY <1>1, <1>4 DEF GoneWorkers, NewWorkers
<1>8. UpToDate' /\ HashesSomeJob' /\ HashesOnItsDataset'
  BY <1>1, <1>5 DEF UpToDate, HashesSomeJob, HashesOnItsDataset, Hashes
<1> QED
  BY <1>3, <1>6, <1>7, <1>8 DEF IInv

LEMMA InstallAlone ==
  ASSUME IInv, ~Idle, Head(todo).write = "Install"
  PROVE  /\ Len(todo) = 1 /\ todo[1] = Head(todo) /\ Tail(todo) = << >>
         /\ Head(todo).arg \in Jobs
         /\ StopForDataset(Head(todo).arg) => launched = None
<1>1. todo \in Seq(Items) /\ todo # << >>
  BY DEF IInv, Types, Idle
<1>2. /\ Head(todo) \in Items /\ Head(todo) = todo[1] /\ 1 \in 1..Len(todo)
      /\ Len(todo) \in Nat
  BY <1>1
<1>3. 1 = Len(todo) /\ (StopForDataset(todo[1].arg) => WorkersGone(todo, 1))
  BY <1>2, Zenon DEF IInv, InstallsLast
<1>4. ~\E k \in 1..(1 - 1) : todo[k].write = "Join"
  OBVIOUS
<1>5. StopForDataset(todo[1].arg) => launched = None
  BY <1>3, <1>4, Zenon DEF WorkersGone
<1>6. Tail(todo) = << >>
  <2>1. Tail(todo) \in Seq(Items) /\ Len(Tail(todo)) = 0
    BY <1>1, <1>3, HeadTailProperties
  <2> QED
    BY <2>1, EmptySeq
<1>7. Head(todo).arg \in Jobs
  BY <1>2 DEF Items
<1> QED
  BY <1>2, <1>3, <1>5, <1>6, <1>7

(* A dataset is asked for only when no worker can be reading the last one. *)
LEMMA InstallWrite ==
  ASSUME IInv, ~Idle, Head(todo).write = "Install", Install(Head(todo).arg)
  PROVE  IInv'
<1> DEFINE j == Head(todo).arg
<1>1. /\ job' = j /\ active' = TRUE
      /\ UNCHANGED <<enabled, battery, userActive, autoPause, config, launched,
                     paused, sequence, workerVars>>
      /\ notified' \in BOOLEAN
  BY DEF Install, IInv, Types, datasetVars
<1>2. /\ j \in Jobs /\ Tail(todo) = << >>
      /\ StopForDataset(j) => launched = None
  BY InstallAlone
<1> HIDE DEF j
<1>3. CountsReasons' /\ PausedOnBattery'
  BY <1>1 DEF IInv, CountsReasons, PausedOnBattery
<1>4. GoneWorkers' /\ NewWorkers' /\ HashesSomeJob'
  BY <1>1 DEF IInv, GoneWorkers, NewWorkers, HashesSomeJob, workerVars
<1>5. CASE IsRandomX(j) /\ ~RxReady(j)
  <2>1. wanted' = SeedOf[j] /\ served' = None /\ todo' = << >> /\ ticking' = ticking
    BY <1>2, <1>5 DEF Install, Dataset!Want, j
  <2>2. SeedOf[j] \in Seeds \cup {None}
    BY <1>2, JobAssumption
  <2>3. Types'
    BY <1>1, <1>2, <2>1, <2>2, HasNone DEF IInv, Types, workerVars
  <2>4. LaunchesOnce(todo)' /\ InstallsLast(todo)'
    BY <2>1 DEF LaunchesOnce, InstallsLast
  <2>5. \A w \in Workers : pc[w] = "None" /\ mseq[w] = 0
    BY <1>2, <1>5 DEF IInv, GoneWorkers, NewWorkers, StopForDataset
  <2>6. UpToDate' /\ HashesOnItsDataset'
    BY <1>1, <2>5 DEF UpToDate, HashesOnItsDataset, Hashes, workerVars
  <2> QED
    BY <1>3, <1>4, <2>3, <2>4, <2>6 DEF IInv
<1>6. CASE ~IsRandomX(j) \/ RxReady(j)
  <2>1. /\ todo' = << >> \o JobChange(j, TRUE) /\ ticking' = TRUE
        /\ wanted' = wanted /\ served' = served
    BY <1>2, <1>6 DEF Install, j, datasetVars
  <2>2. /\ JobChange(j, TRUE) \in Seq(Items) /\ LaunchesOnce(JobChange(j, TRUE))
        /\ ~Has(JobChange(j, TRUE), "Install")
    BY <1>2, JobChangeWrites DEF IInv
  <2>3. todo' = JobChange(j, TRUE)
    BY <2>1, <2>2
  <2>4. todo' \in Seq(Items) /\ LaunchesOnce(todo') /\ InstallsLast(todo')
    BY <2>2, <2>3, NoInstall
  <2>5. Types'
    BY <1>1, <1>2, <2>1, <2>4 DEF IInv, Types, workerVars
  <2>6. UNCHANGED <<launched, sequence, served, workerVars>>
    BY <1>1, <2>1
  <2> QED
    BY <1>3, <2>4, <2>5, <2>6, HandlerStarts
<1> QED
  BY <1>5, <1>6

LEMMA EventLoopStep ==
  ASSUME IInv, EventLoop
  PROVE  IInv'
<1>1. ~Idle
  BY DEF EventLoop
<1>2. CASE Head(todo).write = "Pause" /\ DoPause(TRUE)
  BY <1>1, <1>2, PauseWrite
<1>3. CASE Head(todo).write = "Unpause" /\ DoPause(FALSE)
  BY <1>1, <1>3, PauseWrite
<1>4. CASE Head(todo).write = "Zero" /\ DoSequence(0)
  <2>1. 0 \in Nat /\ \A w \in Workers : mseq[w] # 0 => mseq[w] # 0
    OBVIOUS
  <2> QED
    BY <1>1, <1>4, <2>1, SequenceWrite
<1>5. CASE Head(todo).write = "Touch" /\ DoSequence(Touched)
  <2>1. Touched \in Nat /\ \A w \in Workers : mseq[w] # Touched
    BY TouchedIsFresh DEF IInv
  <2> QED
    BY <1>1, <1>5, <2>1, SequenceWrite
<1>6. CASE Head(todo).write = "Join" /\ DoJoin
  BY <1>1, <1>6, JoinWrite
<1>7. CASE Head(todo).write = "Launch" /\ DoLaunch(Head(todo).arg)
  BY <1>1, <1>7, LaunchWrite
<1>8. CASE Head(todo).write = "Install" /\ Install(Head(todo).arg)
  BY <1>1, <1>8, InstallWrite
<1> QED
  BY <1>2, <1>3, <1>4, <1>5, <1>6, <1>7, <1>8 DEF EventLoop

-----------------------------------------------------------------------------
(* The steps of a worker.  Most move it on and leave alone what it took    *)
(* from consumeJob().                                                      *)
LEMMA Moved ==
  ASSUME IInv, NEW w \in Workers, NEW label \in WorkerPCs \ {"None"},
         pc[w] # "None", pc' = [pc EXCEPT ![w] = label],
         paused' \in BOOLEAN, return' \in [Workers -> {"Inner", "Outer"}],
         copy' \in [Workers -> Jobs \cup {None}],
         UNCHANGED <<mainVars, sequence, mjob, mseq, vm>>,
         pc[w] \in Allocating /\ label \notin Allocating
           => sequence = 0 \/ ~IsRandomX(mjob[w]),
         label \in {"Hash", "LastRange"} =>
           /\ mjob[w] # None
           /\ IsRandomX(mjob[w]) /\ mseq[w] # 0 => vm[w] /\ RxReady(mjob[w])
  PROVE  IInv'
<1>1. /\ pc' \in [Workers -> WorkerPCs] /\ pc'[w] = label
      /\ \A v \in Workers : v # w => pc'[v] = pc[v]
  BY DEF IInv, Types
<1>2. Types' /\ CountsReasons' /\ PausedOnBattery'
  BY <1>1 DEF IInv, Types, CountsReasons, PausedOnBattery, mainVars, userVars, datasetVars
<1>3. LaunchesOnce(todo)' /\ InstallsLast(todo)'
  BY DEF IInv, LaunchesOnce, InstallsLast, WorkersGone, StopForDataset, RxReady,
         mainVars, datasetVars
<1>4. GoneWorkers' /\ NewWorkers'
  BY <1>1 DEF IInv, GoneWorkers, NewWorkers, mainVars
<1>5. \A j : RxReady(j)' <=> RxReady(j)
  BY DEF RxReady, mainVars, datasetVars
<1>6. UpToDate'
  BY <1>1, <1>5 DEF IInv, UpToDate
<1>7. HashesSomeJob' /\ HashesOnItsDataset'
  BY <1>1, <1>5 DEF IInv, HashesSomeJob, HashesOnItsDataset, Hashes
<1> QED
  BY <1>2, <1>3, <1>4, <1>6, <1>7 DEF IInv

(* consumeJob() takes the job, and the sequence it is up to date with.     *)
LEMMA AddJobStep ==
  ASSUME IInv, NEW w \in Workers, AddJob(w)
  PROVE  IInv'
<1>0. PICK label \in {AfterAdd(w, copy[w]), "SaveLast"} : pc' = [pc EXCEPT ![w] = label]
  BY DEF AddJob, GoTo
<1>1. /\ pc[w] = "Add" /\ pc' = [pc EXCEPT ![w] = label]
      /\ mseq' = [mseq EXCEPT ![w] = sequence]
      /\ mjob' = [mjob EXCEPT ![w] = copy[w]]
      /\ UNCHANGED <<mainVars, paused, sequence, return, copy, vm>>
  BY <1>0 DEF AddJob
<1>2. /\ label \in {"SaveLast", "Dataset", "Inner", "Outer"}
      /\ label \notin Allocating => ~IsRandomX(copy[w])
  BY DEF IInv, Types, AfterAdd, Allocating
<1>3. /\ pc' \in [Workers -> WorkerPCs] /\ pc'[w] = label
      /\ mseq' \in [Workers -> Nat] /\ mseq'[w] = sequence
      /\ mjob' \in [Workers -> Jobs \cup {None}] /\ mjob'[w] = copy[w]
      /\ \A v \in Workers : v # w => pc'[v] = pc[v] /\ mseq'[v] = mseq[v] /\ mjob'[v] = mjob[v]
  BY <1>1, <1>2 DEF IInv, Types, WorkerPCs
<1>4. Types' /\ CountsReasons' /\ PausedOnBattery'
  BY <1>1, <1>3 DEF IInv, Types, CountsReasons, PausedOnBattery, mainVars, userVars, datasetVars
<1>5. LaunchesOnce(todo)' /\ InstallsLast(todo)'
  BY <1>1 DEF IInv, LaunchesOnce, InstallsLast, WorkersGone, StopForDataset, RxReady,
              mainVars, datasetVars
<1>6. GoneWorkers' /\ NewWorkers'
  BY <1>1, <1>2, <1>3 DEF IInv, GoneWorkers, NewWorkers, mainVars
<1>7. \A j : RxReady(j)' <=> RxReady(j)
  BY <1>1 DEF RxReady, mainVars, datasetVars
<1>8. UpToDate'
  BY <1>1, <1>2, <1>3, <1>7 DEF IInv, UpToDate
<1>9. HashesSomeJob' /\ HashesOnItsDataset'
  BY <1>1, <1>2, <1>3, <1>7 DEF IInv, HashesSomeJob, HashesOnItsDataset, Hashes
<1> QED
  BY <1>4, <1>5, <1>6, <1>8, <1>9 DEF IInv

(* allocateRandomX_VM() returns with the dataset of the job.               *)
LEMMA AllocatedStep ==
  ASSUME IInv, NEW w \in Workers, pc[w] = "Dataset", RxReady(mjob[w]),
         vm' = [vm EXCEPT ![w] = TRUE], GoTo(w, return[w]),
         UNCHANGED <<mainVars, paused, sequence, return, copy, mjob, mseq>>
  PROVE  IInv'
<1>1. /\ pc' \in [Workers -> WorkerPCs] /\ pc'[w] \in {"Inner", "Outer"}
      /\ vm' \in [Workers -> BOOLEAN] /\ vm'[w] = TRUE
      /\ \A v \in Workers : v # w => pc'[v] = pc[v] /\ vm'[v] = vm[v]
  BY DEF IInv, Types, WorkerPCs, GoTo
<1>2. Types' /\ CountsReasons' /\ PausedOnBattery'
  BY <1>1 DEF IInv, Types, CountsReasons, PausedOnBattery, mainVars, userVars, datasetVars
<1>3. LaunchesOnce(todo)' /\ InstallsLast(todo)'
  BY DEF IInv, LaunchesOnce, InstallsLast, WorkersGone, StopForDataset, RxReady,
         mainVars, datasetVars
<1>4. GoneWorkers' /\ NewWorkers'
  BY <1>1 DEF IInv, GoneWorkers, NewWorkers, mainVars
<1>5. \A j : RxReady(j)' <=> RxReady(j)
  BY DEF RxReady, mainVars, datasetVars
<1>6. UpToDate'
  BY <1>1, <1>5 DEF IInv, UpToDate
<1>7. HashesSomeJob' /\ HashesOnItsDataset'
  BY <1>1, <1>5 DEF IInv, HashesSomeJob, HashesOnItsDataset, Hashes
<1> QED
  BY <1>2, <1>3, <1>4, <1>6, <1>7 DEF IInv

LEMMA WorkerStep ==
  ASSUME IInv, NEW w \in Workers, Worker(w)
  PROVE  IInv'
<1> USE DEF GoTo, Allocating
<1>0. /\ paused \in BOOLEAN /\ return \in [Workers -> {"Inner", "Outer"}]
      /\ copy \in [Workers -> Jobs \cup {None}] /\ job \in Jobs \cup {None}
      /\ return[w] \in {"Inner", "Outer"}
  BY DEF IInv, Types
<1>1. CASE Outer(w)
  <2>1. PICK label \in {"Paused?", "Exited"} : pc[w] = "Outer" /\ Moves(w, label)
    BY <1>1 DEF Outer
  <2> QED
    BY <1>0, <2>1, Moved DEF Moves, WorkerPCs
<1>2. CASE IsPaused(w)
  <2>1. PICK label \in {"Asleep", "Inner"} : pc[w] = "Paused?" /\ Moves(w, label)
    BY <1>2 DEF IsPaused
  <2> QED
    BY <1>0, <2>1, Moved DEF Moves, WorkerPCs
<1>3. CASE Sleep(w)
  BY <1>0, <1>3, Moved DEF Sleep, Moves, WorkerPCs
<1>4. CASE Wake(w)
  <2>1. CASE Moves(w, "Exited")
    BY <1>0, <1>4, <2>1, Moved DEF Wake, Moves, WorkerPCs
  <2>2. CASE Calls(w, "Inner")
    <3>1. return' \in [Workers -> {"Inner", "Outer"}]
      BY <1>0, <2>2 DEF Calls
    <3> QED
      BY <1>0, <1>4, <2>2, <3>1, Moved DEF Wake, Calls, WorkerPCs
  <2> QED
    BY <1>4, <2>1, <2>2 DEF Wake
<1>5. CASE Consume(w)
  <2>1. PICK label \in {"Inner", "Outer", "Copy"} : pc[w] = "Consume" /\ Moves(w, label)
    BY <1>0, <1>5 DEF Consume
  <2> QED
    BY <1>0, <2>1, Moved DEF Moves, WorkerPCs
<1>6. CASE CopyJob(w)
  <2>1. copy' \in [Workers -> Jobs \cup {None}]
    BY <1>0, <1>6 DEF CopyJob
  <2> QED
    BY <1>0, <1>6, <2>1, Moved DEF CopyJob, WorkerPCs
<1>7. CASE AddJob(w)
  BY <1>7, AddJobStep
<1>13. CASE SaveLast(w)
  <2>1. PICK label \in {"Dataset", "Inner", "Outer"} :
          /\ pc' = [pc EXCEPT ![w] = label]
          /\ label # "Dataset" => ~IsRandomX(mjob[w])
    BY <1>0, <1>13 DEF SaveLast, AfterAdd
  <2>2. /\ pc[w] = "SaveLast" /\ paused' = TRUE
        /\ UNCHANGED <<mainVars, sequence, return, copy, mjob, mseq, vm>>
    BY <1>13 DEF SaveLast
  <2> QED
    BY <1>0, <2>1, <2>2, Moved DEF WorkerPCs, Allocating
<1>8. CASE AskDataset(w)
  <2>1. CASE Moves(w, "NoDataset")
    BY <1>0, <1>8, <2>1, Moved DEF AskDataset, Moves, WorkerPCs
  <2> QED
    BY <1>8, <2>1, AllocatedStep DEF AskDataset
<1>9. CASE AwaitDataset(w)
  <2>1. PICK label \in {"Inner", "Outer", "Dataset"} :
          /\ pc[w] = "NoDataset" /\ Moves(w, label)
          /\ label # "Dataset" => sequence = 0
    BY <1>0, <1>9 DEF AwaitDataset
  <2> QED
    BY <1>0, <2>1, Moved DEF Moves, WorkerPCs
<1>10. CASE Inner(w)
  <2>1. CASE Calls(w, "Outer")
    <3>1. return' \in [Workers -> {"Inner", "Outer"}]
      BY <1>0, <2>1 DEF Calls
    <3> QED
      BY <1>0, <1>10, <2>1, <3>1, Moved DEF Inner, Calls, WorkerPCs
  <2>2. CASE ~Outdated(w) /\ Fits(w) /\ Moves(w, "Hash")
    <3>1. pc[w] = "Inner" /\ mjob[w] # None /\ mseq[w] = sequence
      BY <1>10, <2>2 DEF Inner, Outdated, Fits
    <3>2. IsRandomX(mjob[w]) /\ mseq[w] # 0 => vm[w] /\ RxReady(mjob[w])
      BY <3>1 DEF IInv, UpToDate
    <3> QED
      BY <1>0, <2>2, <3>1, <3>2, Moved DEF Moves, WorkerPCs
  <2> QED
    BY <1>10, <2>1, <2>2 DEF Inner
<1>11. CASE Hash(w)
  <2>1. mjob[w] # None /\ (IsRandomX(mjob[w]) /\ mseq[w] # 0 => vm[w] /\ RxReady(mjob[w]))
    BY <1>11 DEF Hash, IInv, HashesSomeJob, HashesOnItsDataset, Hashes
  <2>2. CASE Calls(w, "Outer")
    <3>1. return' \in [Workers -> {"Inner", "Outer"}]
      BY <1>0, <2>2 DEF Calls
    <3> QED
      BY <1>0, <1>11, <2>2, <3>1, Moved DEF Hash, Calls, WorkerPCs
  <2>3. CASE Moves(w, "Inner")
    BY <1>0, <1>11, <2>3, Moved DEF Hash, Moves, WorkerPCs
  <2>4. CASE Moves(w, "LastRange")
    BY <1>0, <1>11, <2>1, <2>4, Moved DEF Hash, Moves, WorkerPCs
  <2> QED
    BY <1>11, <2>2, <2>3, <2>4 DEF Hash
<1>12. CASE LastRange(w)
  <2>1. PICK label \in {"Inner", "Consume"} : pc' = [pc EXCEPT ![w] = label]
    BY <1>12 DEF LastRange
  <2>2. return' \in [Workers -> {"Inner", "Outer"}]
    BY <1>0, <1>12 DEF LastRange
  <2>3. /\ pc[w] = "LastRange" /\ paused' = TRUE
        /\ UNCHANGED <<mainVars, sequence, copy, mjob, mseq, vm>>
    BY <1>12 DEF LastRange
  <2> QED
    BY <1>0, <2>1, <2>2, <2>3, Moved DEF WorkerPCs
<1> QED
  BY <1>1, <1>2, <1>3, <1>4, <1>5, <1>6, <1>7, <1>8, <1>9, <1>10, <1>11, <1>12, <1>13
  DEF Worker

LEMMA NextIInv ==
  ASSUME IInv, [Next]_vars
  PROVE  IInv'
<1>1. ASSUME NEW j \in Jobs, SetJob(j) PROVE IInv'
  BY <1>1, SetJobStep
<1>2. CASE DatasetBuilt
  BY <1>2, DatasetBuiltStep
<1>3. CASE OnDatasetReady
  BY <1>3, OnDatasetReadyStep
<1>4. CASE PoolLost
  BY <1>4, PoolLostStep
<1>5. CASE RpcStop
  BY <1>5, RpcStopStep
<1>6. ASSUME NEW e \in BOOLEAN, UserPause(e) \/ OnBattery(e) \/ OnUserActive(e) PROVE IInv'
  BY <1>6, UserPauseStep, OnBatteryStep, OnUserActiveStep
<1>7. ASSUME NEW c \in Configs, ConfigChanged(c) PROVE IInv'
  BY <1>7, ConfigChangedStep
<1>8. CASE EventLoop
  BY <1>8, EventLoopStep
<1>9. ASSUME NEW w \in Workers, Worker(w) PROVE IInv'
  BY <1>9, WorkerStep
<1>10. CASE UNCHANGED vars
  <2> USE <1>10 DEF vars, userVars, datasetVars, workerVars, IInv
  <2>1. Types' /\ CountsReasons' /\ PausedOnBattery'
    BY DEF Types, CountsReasons, PausedOnBattery
  <2>2. LaunchesOnce(todo)' /\ InstallsLast(todo)'
    BY DEF LaunchesOnce, InstallsLast, WorkersGone, StopForDataset, RxReady
  <2>3. GoneWorkers' /\ NewWorkers' /\ HashesSomeJob'
    BY DEF GoneWorkers, NewWorkers, HashesSomeJob
  <2>4. UpToDate' /\ HashesOnItsDataset'
    BY DEF UpToDate, HashesOnItsDataset, Hashes, RxReady
  <2> QED
    BY <2>1, <2>2, <2>3, <2>4
<1> QED
  BY <1>1, <1>2, <1>3, <1>4, <1>5, <1>6, <1>7, <1>8, <1>9, <1>10 DEF Next

(* Every handler, write and worker step keeps the invariant.               *)
LEMMA SpecIInv == Spec => []IInv
<1>1. Init => IInv
  BY InitIInv
<1>2. IInv /\ [Next]_vars => IInv'
  BY NextIInv
<1> QED
  BY <1>1, <1>2, PTL DEF Spec

-----------------------------------------------------------------------------
(* Every variable keeps its type; no more than the two reasons to pause    *)
(* are ever counted by Miner::onTimer().                                   *)
THEOREM TypeCorrect == Spec => []TypeOK
<1>1. IInv => TypeOK
  <2> SUFFICES ASSUME IInv PROVE TypeOK
    OBVIOUS
  <2>1. Types /\ CountsReasons
    BY DEF IInv
  <2>2. autoPause \in 0..2
    BY <2>1 DEF Types, CountsReasons
  <2>3. \A i \in DOMAIN todo : todo[i].write \in Writes
    <3>1. \A i \in 1..Len(todo) : todo[i] \in Items
      BY <2>1, ElementOfSeq DEF Types
    <3>2. \A x \in Items : x.write \in Writes
      BY DEF Items, Writes
    <3>3. DOMAIN todo = 1..Len(todo)
      BY <2>1 DEF Types
    <3> QED
      BY <3>1, <3>2, <3>3
  <2>4. {active, enabled, battery, userActive, ticking, paused, notified} \subseteq BOOLEAN
    BY <2>1 DEF Types
  <2> QED
    BY <2>1, <2>2, <2>3, <2>4 DEF Types, TypeOK
<1> QED
  BY <1>1, SpecIInv, PTL

(* The dataset a worker of CpuWorker::start() hashes on is never built     *)
(* anew under it by initRX(): Miner::setJob() has the workers gone before. *)
THEOREM DatasetsAreKept == Spec => []HashesOnItsDataset
<1>1. IInv => HashesOnItsDataset
  BY DEF IInv
<1> QED
  BY <1>1, SpecIInv, PTL

(* On battery Miner::setEnabled() lets nobody resume.                      *)
THEOREM BatteryIsSaved == Spec => []PausedOnBattery
<1>1. IInv => PausedOnBattery
  BY DEF IInv
<1> QED
  BY <1>1, SpecIInv, PTL

(* Only Miner::onTimer() changes what it has seen of battery and user.     *)
LEMMA PowerUnseen ==
  ASSUME [Next]_vars, ~\E e \in BOOLEAN : OnBattery(e) \/ OnUserActive(e)
  PROVE  battery' = battery /\ userActive' = userActive
<1>1. ASSUME NEW j \in Jobs, SetJob(j) PROVE battery' = battery /\ userActive' = userActive
  BY <1>1 DEF SetJob, userVars
<1>2. CASE DatasetBuilt \/ OnDatasetReady \/ PoolLost \/ RpcStop
  BY <1>2 DEF DatasetBuilt, OnDatasetReady, PoolLost, RpcStop, userVars
<1>3. ASSUME NEW e \in BOOLEAN, UserPause(e) PROVE battery' = battery /\ userActive' = userActive
  BY <1>3 DEF UserPause
<1>4. ASSUME NEW c \in Configs, ConfigChanged(c)
      PROVE  battery' = battery /\ userActive' = userActive
  BY <1>4 DEF ConfigChanged
<1>5. CASE EventLoop
  BY <1>5 DEF EventLoop, DoPause, DoSequence, DoJoin, DoLaunch, Install, userVars
<1>6. ASSUME NEW w \in Workers, Worker(w) PROVE battery' = battery /\ userActive' = userActive
  BY <1>6 DEF Worker, Outer, IsPaused, Sleep, Wake, Consume, CopyJob, AddJob, SaveLast, AskDataset,
     AwaitDataset, Inner, Hash, LastRange, Moves, Calls, mainVars, userVars
<1>7. CASE UNCHANGED vars
  BY <1>7 DEF vars, userVars
<1> QED
  BY <1>1, <1>2, <1>3, <1>4, <1>5, <1>6, <1>7 DEF Next

(* The timer resumes the miner when neither reason to pause is left.       *)
THEOREM ResumesWait == Spec => AutomaticResumeWaits
<1>1. IInv /\ [Next]_vars =>
        [enabled' /\ ~enabled /\ <<battery, userActive>>' # <<battery, userActive>>
           => ~battery' /\ ~userActive']_vars
  <2> SUFFICES ASSUME IInv, [Next]_vars, enabled', ~enabled,
                      <<battery, userActive>>' # <<battery, userActive>>
               PROVE  ~battery' /\ ~userActive'
    OBVIOUS
  <2>1. \E e \in BOOLEAN : OnBattery(e) \/ OnUserActive(e)
    BY PowerUnseen
  <2> QED
    BY <2>1, OnBatteryStep, OnUserActiveStep
<1> QED
  BY <1>1, SpecIInv, PTL DEF Spec, AutomaticResumeWaits

-----------------------------------------------------------------------------
(* What happens to the flag the handlers leave behind.                     *)
LEMMA LastWordLeaves ==
  ASSUME NEW on \in BOOLEAN, Has(todo', Flag(on)), ~Has(todo', Flag(~on)),
         todo' \in Seq(Items)
  PROVE  Leaves(todo, on)'
<1>1. PICK n \in 1..Len(todo') : todo'[n].write = Flag(on)
  BY DEF Has
<1>2. \A k \in n..Len(todo') : k \in 1..Len(todo')
  BY <1>1
<1>3. \A k \in n..Len(todo') : todo'[k].write # Flag(~on)
  BY <1>2 DEF Has
<1> QED
  BY <1>1, <1>3, Zenon DEF Leaves, Flag

LEMMA IdleLeaves ==
  ASSUME Idle, NEW on \in BOOLEAN
  PROVE  (Leaves(todo, on) <=> paused = on) /\ ~Has(todo, "Install")
  BY HasNone DEF Leaves, Idle, Has

LEMMA SilentHandler ==
  ASSUME Idle, NEW on \in BOOLEAN, Leaves(todo, on), paused' = paused,
         ~Has(todo', Flag(~on))
  PROVE  Leaves(todo, on)'
<1>1. paused = on
  BY IdleLeaves
<1> QED
  BY <1>1 DEF Leaves, Has, Flag

LEMMA TailLeaves ==
  ASSUME IInv, ~Idle, todo' = Tail(todo), NEW on \in BOOLEAN, Leaves(todo, on),
         paused' = IF Head(todo).write = "Pause" THEN TRUE
                   ELSE IF Head(todo).write = "Unpause" THEN FALSE ELSE paused
  PROVE  Leaves(todo, on)'
<1>1. /\ Head(todo) = todo[1] /\ 1 \in 1..Len(todo) /\ Len(todo) \in Nat \ {0}
      /\ Len(todo') = Len(todo) - 1
      /\ \A n \in 1..Len(todo') : todo'[n] = todo[n + 1] /\ n + 1 \in 1..Len(todo)
  BY TailWrites
<1>2. CASE paused = on /\ ~Has(todo, Flag(~on))
  <2>1. Head(todo).write # Flag(~on)
    BY <1>1, <1>2 DEF Has
  <2>2. paused' = on
    BY <1>2, <2>1 DEF Flag
  <2>3. ~Has(todo', Flag(~on))
    BY <1>1, <1>2 DEF Has
  <2> QED
    BY <2>2, <2>3 DEF Leaves, Has, Flag
<1>3. ASSUME NEW n \in 1..Len(todo), todo[n].write = Flag(on),
             \A k \in n..Len(todo) : todo[k].write # Flag(~on)
      PROVE  Leaves(todo, on)'
  <2>1. CASE n = 1
    <3>1. paused' = on
      BY <1>1, <1>3, <2>1 DEF Flag
    <3>2. \A k \in 1..Len(todo') : todo'[k].write # Flag(~on)
      <4> SUFFICES ASSUME NEW k \in 1..Len(todo') PROVE todo'[k].write # Flag(~on)
        OBVIOUS
      <4>1. k + 1 \in n..Len(todo)
        BY <1>1, <2>1
      <4> QED
        BY <1>1, <1>3, <4>1
    <3> QED
      BY <3>1, <3>2 DEF Leaves, Has, Flag
  <2>2. CASE n # 1
    <3>1. n - 1 \in 1..Len(todo') /\ todo'[n - 1] = todo[n]
      BY <1>1, <2>2
    <3>2. ASSUME NEW k \in (n - 1)..Len(todo')
          PROVE  todo'[k].write # Flag(~on)
      <4>1. k \in 1..Len(todo') /\ k + 1 \in n..Len(todo)
        BY <1>1, <3>1
      <4> QED
        BY <1>1, <1>3, <4>1
    <3> QED
      BY <1>3, <3>1, <3>2 DEF Leaves, Flag
  <2> QED
    BY <2>1, <2>2
<1> QED
  BY <1>2, <1>3 DEF Leaves

(* The writes of the event loop other than a new job.                      *)
LEMMA OtherWrites ==
  ASSUME EventLoop, Head(todo).write # "Install"
  PROVE  /\ ~Idle /\ todo' = Tail(todo)
         /\ UNCHANGED <<job, userVars, datasetVars>>
         /\ paused' = IF Head(todo).write = "Pause" THEN TRUE
                      ELSE IF Head(todo).write = "Unpause" THEN FALSE ELSE paused
         /\ \/ launched' = launched /\ Head(todo).write \notin {"Join", "Launch"}
            \/ launched' = None /\ Head(todo).write = "Join"
            \/ Head(todo).write = "Launch"
         /\ \A w \in Workers : pc'[w] \in {pc[w], "None", "Outer"}
<1>1. ~Idle
  BY DEF EventLoop
<1>2. CASE Head(todo).write = "Pause" /\ DoPause(TRUE)
  BY <1>1, <1>2 DEF DoPause, workerVars
<1>3. CASE Head(todo).write = "Unpause" /\ DoPause(FALSE)
  BY <1>1, <1>3 DEF DoPause, workerVars
<1>4. CASE Head(todo).write = "Zero" /\ DoSequence(0)
  BY <1>1, <1>4 DEF DoSequence, workerVars
<1>5. CASE Head(todo).write = "Touch" /\ DoSequence(Touched)
  BY <1>1, <1>5 DEF DoSequence, workerVars
<1>6. CASE Head(todo).write = "Join" /\ DoJoin
  BY <1>1, <1>6 DEF DoJoin
<1>7. CASE Head(todo).write = "Launch" /\ DoLaunch(Head(todo).arg)
  BY <1>1, <1>7 DEF DoLaunch
<1> QED
  BY <1>2, <1>3, <1>4, <1>5, <1>6, <1>7 DEF EventLoop

(* A worker pauses the miner only when it is given a job's last nonces.    *)
LEMMA WorkerFlag ==
  ASSUME IInv, NoLastRange, ~Exhaustible, NEW w \in Workers, Worker(w)
  PROVE  paused' = paused /\ NoLastRange'
<1>1. /\ pc \in [Workers -> WorkerPCs] /\ return[w] \in {"Inner", "Outer"}
      /\ pc[w] \notin {"LastRange", "SaveLast"}
  BY DEF IInv, Types, NoLastRange
<1>2. CASE AddJob(w) \/ AskDataset(w) \/ AwaitDataset(w)
  BY <1>1, <1>2 DEF AddJob, AfterAdd, AskDataset, AwaitDataset, Moves, GoTo, NoLastRange
<1>3. CASE Outer(w) \/ IsPaused(w) \/ Sleep(w) \/ Wake(w) \/ Consume(w) \/ CopyJob(w)
  BY <1>1, <1>3
  DEF Outer, IsPaused, Sleep, Wake, Consume, CopyJob, Moves, Calls, GoTo, NoLastRange
<1>4. CASE Inner(w) \/ Hash(w)
  BY <1>1, <1>4 DEF Inner, Hash, Moves, Calls, GoTo, NoLastRange
<1>5. ~LastRange(w) /\ ~SaveLast(w)
  BY <1>1 DEF LastRange, SaveLast
<1> QED
  BY <1>2, <1>3, <1>4, <1>5 DEF Worker

LEMMA WorkerFrame ==
  ASSUME NEW w \in Workers, Worker(w)
  PROVE  UNCHANGED mainVars /\ paused' \in {paused, TRUE}
  BY DEF Worker, Outer, IsPaused, Sleep, Wake, Consume, CopyJob, AddJob, SaveLast, AskDataset,
         AwaitDataset, Inner, Hash, LastRange, Moves, Calls, mainVars

LEMMA RunningAfterHandler ==
  ASSUME IInv, LeftRunning, UNCHANGED <<paused, served>>, todo' \in Seq(Items),
         ~Has(todo', "Install"),
         active' /\ enabled' =>
           \/ Has(todo', "Unpause") /\ ~Has(todo', "Pause")
           \/ Idle /\ active /\ enabled /\ ~Has(todo', "Pause")
  PROVE  LeftRunning'
<1>1. Flag(FALSE) = "Unpause" /\ Flag(~FALSE) = "Pause" /\ FALSE \in BOOLEAN
  BY DEF Flag
<1>2. ASSUME active', enabled' PROVE Leaves(todo, FALSE)'
  <2>1. CASE Has(todo', "Unpause") /\ ~Has(todo', "Pause")
    BY <1>1, <2>1, LastWordLeaves
  <2>2. CASE Idle /\ active /\ enabled /\ ~Has(todo', "Pause")
    BY <1>1, <2>2, SilentHandler DEF LeftRunning
  <2> QED
    BY <1>2, <2>1, <2>2
<1>3. \A n \in 1..Len(todo') : todo'[n].write # "Install"
  BY DEF Has
<1> QED
  BY <1>2, <1>3 DEF LeftRunning

LEMMA RunningHandlers ==
  ASSUME IInv, LeftRunning,
         \/ OnDatasetReady \/ PoolLost \/ RpcStop
         \/ \E e \in BOOLEAN : UserPause(e) \/ OnBattery(e) \/ OnUserActive(e)
         \/ \E c \in Configs : ConfigChanged(c)
  PROVE  LeftRunning'
<1>1. Types /\ active \in BOOLEAN /\ enabled \in BOOLEAN /\ battery \in BOOLEAN
      /\ job \in Jobs \cup {None}
  BY DEF IInv, Types
<1>2. CASE OnDatasetReady
  <2>1. Idle /\ UNCHANGED <<active, enabled, paused, served>>
    BY <1>2 DEF OnDatasetReady
  <2>2. CASE RxReady(job)
    <3>1. todo' = JobChange(job, active)
      BY <1>2, <2>2 DEF OnDatasetReady
    <3> QED
      BY <1>1, <2>1, <3>1, JobChangeWrites, RunningAfterHandler
  <2>3. CASE ~RxReady(job)
    <3>1. todo' = << >>
      BY <1>2, <2>1, <2>3 DEF OnDatasetReady, Idle
    <3> QED
      BY <2>1, <3>1, HasNone, RunningAfterHandler
  <2> QED
    BY <2>2, <2>3
<1>3. CASE PoolLost
  <2>1. /\ Idle /\ active' = FALSE /\ UNCHANGED <<paused, served>>
        /\ todo' = Write("Pause") \o Write("Touch")
    BY <1>3 DEF PoolLost, datasetVars
  <2>2. todo' \in Seq(Items) /\ ~Has(todo', "Install")
    BY <2>1, HasPlainWrite, HasConcat
  <2> QED
    BY <2>1, <2>2, RunningAfterHandler
<1>4. CASE RpcStop
  <2>1. UNCHANGED <<paused, served>> /\ todo' = StopMiner
    BY <1>4 DEF RpcStop, datasetVars
  <2>2. todo' \in Seq(Items) /\ ~Has(todo', "Install") /\ ~Has(todo', "Pause")
        /\ Has(todo', "Unpause")
    BY <2>1, StopMinerWrites
  <2> QED
    BY <2>1, <2>2, RunningAfterHandler
<1>5. ASSUME NEW e \in BOOLEAN, UserPause(e) \/ OnBattery(e) \/ OnUserActive(e)
      PROVE  LeftRunning'
  <2>1. PICK s \in BOOLEAN, b \in BOOLEAN : Idle /\ SetEnabled(s, b)
    BY <1>1, <1>5 DEF UserPause, OnBattery, OnUserActive
  <2>2. UNCHANGED <<active, paused, served>>
    BY <1>5 DEF UserPause, OnBattery, OnUserActive, datasetVars
  <2>3. /\ \/ enabled' = enabled /\ todo' = << >>
           \/ enabled' = s /\ s # enabled
        /\ todo' \in Seq(Items) /\ ~Has(todo', "Install")
        /\ enabled' # enabled /\ active => Has(todo', IF s THEN "Unpause" ELSE "Pause")
        /\ Has(todo', "Pause") => ~enabled'
    BY <1>1, <2>1, SetEnabledWrites
  <2> QED
    BY <1>1, <2>1, <2>2, <2>3, RunningAfterHandler
<1>6. ASSUME NEW c \in Configs, ConfigChanged(c)
      PROVE  LeftRunning'
  <2>1. /\ Idle /\ UNCHANGED <<active, enabled, paused, served>>
        /\ todo' = SetBackendJob(c, job) \/ todo' = << >>
    BY <1>6 DEF ConfigChanged, datasetVars, Idle
  <2>2. /\ SetBackendJob(c, job) \in Seq(Items)
        /\ ~Has(SetBackendJob(c, job), "Install") /\ ~Has(SetBackendJob(c, job), "Pause")
    <3>1. \A name : Has(SetBackendJob(c, job), name) => name \in {"Zero", "Join", "Touch", "Launch"}
      BY <1>1, SetBackendJobWrites
    <3>2. SetBackendJob(c, job) \in Seq(Items)
      BY <1>1, SetBackendJobWrites
    <3> QED
      BY <3>1, <3>2
  <2>3. todo' \in Seq(Items) /\ ~Has(todo', "Install") /\ ~Has(todo', "Pause")
    BY <2>1, <2>2, HasNone, Zenon
  <2> QED
    BY <2>1, <2>3, RunningAfterHandler
<1> QED
  BY <1>2, <1>3, <1>4, <1>5, <1>6

LEMMA RunningSetJob ==
  ASSUME IInv, LeftRunning, NEW j \in Jobs, SetJob(j)
  PROVE  LeftRunning'
<1> DEFINE stop == IF StopForDataset(j) THEN StopMiner ELSE << >>
           install == WriteOf("Install", j)
<1>1. /\ Idle /\ todo' = stop \o install
      /\ UNCHANGED <<job, userVars, launched, paused, sequence, datasetVars, workerVars>>
  BY DEF SetJob
<1>2. /\ stop \in Seq(Items) /\ ~Has(stop, "Pause") /\ ~Has(stop, "Install")
      /\ StopForDataset(j) => Has(stop, "Unpause")
  BY StopMinerWrites, HasNone
<1>3. [write |-> "Install", arg |-> j] \in Items
  BY DEF Items
<1>4. /\ install \in Seq(Items) /\ Len(install) = 1 /\ install[1].arg = j
      /\ \A name : Has(install, name) <=> name = "Install"
  BY <1>3, HasWrite
<1> HIDE DEF stop, install
<1>5. /\ todo' \in Seq(Items) /\ ~Has(todo', "Pause")
      /\ StopForDataset(j) => Has(todo', "Unpause")
  BY <1>1, <1>2, <1>4, HasConcat
<1>6. ASSUME Has(todo', "Unpause")
      PROVE  Leaves(todo, FALSE)'
  <2>1. Flag(FALSE) = "Unpause" /\ Flag(~FALSE) = "Pause" /\ FALSE \in BOOLEAN
    BY DEF Flag
  <2> QED
    BY <1>5, <1>6, <2>1, LastWordLeaves
<1>7. ASSUME active', enabled'
      PROVE  Leaves(todo, FALSE)'
  <2>1. Leaves(todo, FALSE) /\ paused' = paused /\ ~Has(todo', Flag(~FALSE))
    BY <1>1, <1>5, <1>7 DEF LeftRunning, userVars, Flag
  <2> QED
    BY <1>1, <2>1, SilentHandler
<1>8. ASSUME NEW n \in 1..Len(todo'), todo'[n].write = "Install", StopForDataset(todo[n].arg)'
      PROVE  Leaves(todo, FALSE)'
  <2>1. n = Len(stop) + 1 /\ todo'[n].arg = j
    <3>1. /\ Len(stop \o install) = Len(stop) + Len(install)
          /\ \A i \in 1..(Len(stop) + Len(install)) :
               (stop \o install)[i] = IF i <= Len(stop) THEN stop[i] ELSE install[i - Len(stop)]
      BY <1>2, <1>4, ConcatProperties
    <3>2. Len(stop) \in Nat
      BY <1>2
    <3>3. ~(n <= Len(stop))
      BY <1>1, <1>2, <1>4, <1>8, <3>1, <3>2 DEF Has
    <3> QED
      BY <1>1, <1>4, <1>8, <3>1, <3>2, <3>3
  <2>2. StopForDataset(j)
    BY <1>1, <1>8, <2>1 DEF StopForDataset, RxReady, datasetVars
  <2> QED
    BY <1>5, <1>6, <2>2
<1> QED
  BY <1>7, <1>8 DEF LeftRunning

LEMMA RunningInstall ==
  ASSUME IInv, LeftRunning, ~Idle, Head(todo).write = "Install", Install(Head(todo).arg)
  PROVE  LeftRunning'
<1> DEFINE j == Head(todo).arg
<1>1. active' = TRUE /\ enabled' = enabled /\ paused' = paused
  BY DEF Install
<1>2. /\ Len(todo) = 1 /\ todo[1] = Head(todo) /\ Tail(todo) = << >> /\ j \in Jobs
  BY InstallAlone
<1> HIDE DEF j
<1>3. CASE IsRandomX(j) /\ ~RxReady(j)
  <2>1. todo' = << >>
    BY <1>2, <1>3 DEF Install, j, datasetVars
  <2>2. Leaves(todo, FALSE)
    <3>1. /\ 1 \in 1..Len(todo) /\ todo[1].write = "Install"
          /\ StopForDataset(todo[1].arg)
      BY <1>2, <1>3 DEF StopForDataset, j
    <3> QED
      BY <3>1 DEF LeftRunning
  <2>3. paused = FALSE
    BY <1>2, <2>2 DEF Leaves, Flag
  <2> QED
    BY <1>1, <2>1, <2>3 DEF LeftRunning, Leaves, Has
<1>4. CASE ~IsRandomX(j) \/ RxReady(j)
  <2>1. todo' = << >> \o JobChange(j, TRUE) /\ served' = served
    BY <1>2, <1>4 DEF Install, j, datasetVars
  <2>2. /\ JobChange(j, TRUE) \in Seq(Items)
        /\ ~Has(JobChange(j, TRUE), "Install")
        /\ enabled => Has(JobChange(j, TRUE), "Unpause") /\ ~Has(JobChange(j, TRUE), "Pause")
    <3>1. Types /\ j \in Jobs \cup {None} /\ TRUE \in BOOLEAN
      BY <1>2 DEF IInv
    <3> QED
      BY <3>1, JobChangeWrites
  <2>3. todo' = JobChange(j, TRUE)
    BY <2>1, <2>2
  <2> QED
    BY <1>1, <2>1, <2>2, <2>3, RunningAfterHandler
<1> QED
  BY <1>3, <1>4

LEMMA RunningOtherWrites ==
  ASSUME IInv, LeftRunning, EventLoop, Head(todo).write # "Install"
  PROVE  LeftRunning'
<1>1. /\ ~Idle /\ todo' = Tail(todo) /\ UNCHANGED <<job, userVars, datasetVars>>
      /\ paused' = IF Head(todo).write = "Pause" THEN TRUE
                   ELSE IF Head(todo).write = "Unpause" THEN FALSE ELSE paused
  BY OtherWrites
<1>2. Leaves(todo, FALSE) => Leaves(todo, FALSE)'
  BY <1>1, TailLeaves
<1>3. \A n \in 1..Len(todo') : todo'[n] = todo[n + 1] /\ n + 1 \in 1..Len(todo)
  BY <1>1, TailWrites
<1>4. ASSUME NEW n \in 1..Len(todo'), todo'[n].write = "Install", StopForDataset(todo[n].arg)'
      PROVE  Leaves(todo, FALSE)
  <2>1. StopForDataset(todo[n + 1].arg)
    BY <1>1, <1>3, <1>4 DEF StopForDataset, RxReady, datasetVars
  <2> QED
    BY <1>3, <1>4, <2>1 DEF LeftRunning
<1> QED
  BY <1>1, <1>2, <1>4 DEF LeftRunning, userVars

LEMMA NextLeftRunning ==
  ASSUME IInv, LeftRunning, NoLastRange, ~Exhaustible, [Next]_vars
  PROVE  LeftRunning' /\ NoLastRange'
<1>1. ASSUME pc' = pc PROVE NoLastRange'
  BY <1>1 DEF NoLastRange
<1>2. ASSUME NEW j \in Jobs, SetJob(j) PROVE LeftRunning' /\ NoLastRange'
  BY <1>1, <1>2, RunningSetJob DEF SetJob, workerVars
<1>3. CASE DatasetBuilt
  <2>1. served = None /\ UNCHANGED <<active, enabled, todo, paused, pc>>
    BY <1>3 DEF DatasetBuilt, Dataset!Grant, userVars, workerVars
  <2>2. \A j : StopForDataset(j)' => StopForDataset(j)
    BY <2>1 DEF StopForDataset, RxReady, IsRandomX
  <2>3. Leaves(todo, FALSE)' <=> Leaves(todo, FALSE)
    BY <2>1 DEF Leaves, Has
  <2> QED
    BY <1>1, <2>1, <2>2, <2>3 DEF LeftRunning
<1>4. CASE OnDatasetReady \/ PoolLost \/ RpcStop
  BY <1>1, <1>4, RunningHandlers DEF OnDatasetReady, PoolLost, RpcStop, workerVars
<1>5. ASSUME NEW e \in BOOLEAN, UserPause(e) \/ OnBattery(e) \/ OnUserActive(e)
      PROVE  LeftRunning' /\ NoLastRange'
  BY <1>1, <1>5, RunningHandlers DEF UserPause, OnBattery, OnUserActive, workerVars
<1>6. ASSUME NEW c \in Configs, ConfigChanged(c) PROVE LeftRunning' /\ NoLastRange'
  BY <1>1, <1>6, RunningHandlers DEF ConfigChanged, workerVars
<1>7. CASE EventLoop
  <2>1. CASE Head(todo).write = "Install"
    <3>1. ~Idle /\ Install(Head(todo).arg)
      BY <1>7, <2>1 DEF EventLoop
    <3> QED
      BY <1>1, <2>1, <3>1, RunningInstall DEF Install, workerVars
  <2>2. CASE Head(todo).write # "Install"
    <3>1. \A w \in Workers : pc'[w] \in {pc[w], "None", "Outer"}
      BY <1>7, <2>2, OtherWrites
    <3>2. NoLastRange'
      BY <3>1 DEF NoLastRange
    <3> QED
      BY <1>7, <2>2, <3>2, RunningOtherWrites
  <2> QED
    BY <2>1, <2>2
<1>8. ASSUME NEW w \in Workers, Worker(w) PROVE LeftRunning' /\ NoLastRange'
  <2>1. UNCHANGED mainVars /\ paused' = paused /\ NoLastRange'
    BY <1>8, WorkerFrame, WorkerFlag
  <2> QED
    BY <2>1 DEF LeftRunning, Leaves, Has, StopForDataset, RxReady, mainVars, userVars, datasetVars
<1>9. CASE UNCHANGED vars
  BY <1>1, <1>9 DEF LeftRunning, Leaves, Has, StopForDataset, RxReady,
     vars, userVars, datasetVars, workerVars
<1> QED
  BY <1>2, <1>3, <1>4, <1>5, <1>6, <1>7, <1>8, <1>9 DEF Next

(* With a pool and not paused by the user, the workers are not held back   *)
(* by Nonce::pause() between two handlers, whatever came before; unless a  *)
(* worker drew the last nonces of a job, which pauses too.                 *)
THEOREM WantedRuns == ~Exhaustible => (Spec => []RunsWhenWanted)
<1> SUFFICES ASSUME ~Exhaustible PROVE Spec => []RunsWhenWanted
  OBVIOUS
<1>1. Init => LeftRunning /\ NoLastRange
  <2> SUFFICES ASSUME Init PROVE LeftRunning /\ NoLastRange
    OBVIOUS
  <2>1. active = FALSE /\ Len(todo) = 0
    BY DEF Init
  <2>2. NoLastRange
    BY DEF Init, NoLastRange
  <2>3. \A n \in 1..Len(todo) : FALSE
    BY <2>1
  <2> QED
    BY <2>1, <2>2, <2>3, Zenon DEF LeftRunning
<1>2. IInv /\ (LeftRunning /\ NoLastRange) /\ [Next]_vars => (LeftRunning /\ NoLastRange)'
  BY NextLeftRunning
<1>3. LeftRunning => RunsWhenWanted
  <2> SUFFICES ASSUME LeftRunning, Idle, active, enabled PROVE ~paused
    BY DEF RunsWhenWanted
  <2> QED
    BY IdleLeaves DEF LeftRunning
<1> QED
  BY <1>1, <1>2, <1>3, SpecIInv, PTL DEF Spec

-----------------------------------------------------------------------------
(* The other way round, as long as neither the configuration is changed    *)
(* nor the miner stopped by the JSON-RPC interface.                        *)
LEMMA PausedAfterHandler ==
  ASSUME IInv', LeftPaused, Idle, UNCHANGED <<paused, launched>>,
         ~active' => \/ Has(todo', "Pause") /\ ~Has(todo', "Unpause")
                     \/ ~active /\ ~Has(todo', "Unpause"),
         active' /\ ~enabled' =>
           \/ Has(todo', "Pause") /\ ~Has(todo', "Unpause")
           \/ active /\ ~enabled /\ ~Has(todo', "Unpause") /\ ~Has(todo', "Launch")
  PROVE  LeftPaused'
<1>1. /\ Flag(TRUE) = "Pause" /\ Flag(~TRUE) = "Unpause" /\ TRUE \in BOOLEAN
      /\ todo' \in Seq(Items)
  BY DEF Flag, IInv, Types
<1>2. ASSUME Has(todo', "Pause"), ~Has(todo', "Unpause") PROVE Leaves(todo, TRUE)'
  BY <1>1, <1>2, LastWordLeaves
<1>3. ~Has(todo, "Install") /\ (Leaves(todo, TRUE) <=> paused = TRUE)
  BY <1>1, IdleLeaves
<1>4. ASSUME ~active' PROVE Leaves(todo, TRUE)'
  <2>1. CASE ~active /\ ~Has(todo', "Unpause")
    <3>1. Leaves(todo, TRUE)
      BY <1>3, <2>1 DEF LeftPaused
    <3> QED
      BY <1>1, <2>1, <3>1, SilentHandler
  <2> QED
    BY <1>2, <1>4, <2>1
<1>5. ASSUME active', ~enabled'
      PROVE  Leaves(todo, TRUE)' \/ (launched' = None /\ ~Has(todo', "Launch"))
  <2>1. CASE active /\ ~enabled /\ ~Has(todo', "Unpause") /\ ~Has(todo', "Launch")
    <3>1. Leaves(todo, TRUE) \/ launched = None
      BY <1>3, <2>1 DEF LeftPaused
    <3> QED
      BY <1>1, <2>1, <3>1, SilentHandler
  <2> QED
    BY <1>2, <1>5, <2>1
<1>6. ~Has(todo', "Launch") => ~Has(todo, "Launch")'
  BY DEF Has
<1> QED
  BY <1>4, <1>5, <1>6 DEF LeftPaused

LEMMA PausedHandlers ==
  ASSUME IInv, IInv', LeftPaused,
         \/ OnDatasetReady \/ PoolLost
         \/ \E e \in BOOLEAN : UserPause(e) \/ OnBattery(e) \/ OnUserActive(e)
  PROVE  LeftPaused'
<1>1. Types /\ active \in BOOLEAN /\ enabled \in BOOLEAN /\ battery \in BOOLEAN
      /\ job \in Jobs \cup {None}
  BY DEF IInv, Types
<1>2. CASE OnDatasetReady
  <2>1. Idle /\ UNCHANGED <<active, enabled, paused, launched>>
    BY <1>2 DEF OnDatasetReady
  <2>2. CASE RxReady(job)
    <3>1. todo' = JobChange(job, active)
      BY <1>2, <2>2 DEF OnDatasetReady
    <3>2. /\ Has(todo', "Pause") <=> ~enabled
          /\ Has(todo', "Unpause") <=> active /\ enabled
      BY <1>1, <3>1, JobChangeWrites
    <3> QED
      BY <2>1, <3>2, PausedAfterHandler
  <2>3. CASE ~RxReady(job)
    <3>1. todo' = << >>
      BY <1>2, <2>1, <2>3 DEF OnDatasetReady, Idle
    <3> QED
      BY <2>1, <3>1, HasNone, PausedAfterHandler
  <2> QED
    BY <2>2, <2>3
<1>3. CASE PoolLost
  <2>1. /\ Idle /\ active' = FALSE /\ UNCHANGED <<paused, launched>>
        /\ todo' = Write("Pause") \o Write("Touch")
    BY <1>3 DEF PoolLost
  <2>2. Has(todo', "Pause") /\ ~Has(todo', "Unpause")
    BY <2>1, HasPlainWrite, HasConcat
  <2> QED
    BY <2>1, <2>2, PausedAfterHandler
<1>4. ASSUME NEW e \in BOOLEAN, UserPause(e) \/ OnBattery(e) \/ OnUserActive(e)
      PROVE  LeftPaused'
  <2>1. PICK s \in BOOLEAN, b \in BOOLEAN : Idle /\ SetEnabled(s, b)
    BY <1>1, <1>4 DEF UserPause, OnBattery, OnUserActive
  <2>2. UNCHANGED <<active, paused, launched>>
    BY <1>4 DEF UserPause, OnBattery, OnUserActive
  <2>3. /\ \/ enabled' = enabled /\ todo' = << >>
           \/ enabled' = s /\ s # enabled
        /\ ~Has(todo', "Launch")
        /\ enabled' # enabled /\ active => Has(todo', IF s THEN "Unpause" ELSE "Pause")
        /\ Has(todo', "Unpause") => enabled'
        /\ ~active => todo' = << >>
    BY <1>1, <2>1, SetEnabledWrites
  <2>4. ASSUME ~active' PROVE ~active /\ ~Has(todo', "Unpause")
    BY <2>2, <2>3, <2>4, HasNone
  <2>5. ASSUME active', ~enabled'
        PROVE  \/ Has(todo', "Pause") /\ ~Has(todo', "Unpause")
               \/ active /\ ~enabled /\ ~Has(todo', "Unpause") /\ ~Has(todo', "Launch")
    BY <1>1, <2>2, <2>3, <2>5, HasNone
  <2> QED
    BY <2>1, <2>2, <2>4, <2>5, PausedAfterHandler
<1> QED
  BY <1>2, <1>3, <1>4

LEMMA PausedSetJob ==
  ASSUME IInv, NEW j \in Jobs, SetJob(j)
  PROVE  LeftPaused'
<1> DEFINE stop == IF StopForDataset(j) THEN StopMiner ELSE << >>
           install == WriteOf("Install", j)
<1>1. todo' = stop \o install
  BY DEF SetJob
<1>2. stop \in Seq(Items)
  BY StopMinerWrites, HasNone
<1>3. [write |-> "Install", arg |-> j] \in Items
  BY DEF Items
<1>4. install \in Seq(Items) /\ Has(install, "Install")
  BY <1>3, HasWrite
<1> HIDE DEF stop, install
<1>5. Has(todo', "Install")
  BY <1>1, <1>2, <1>4, HasConcat
<1>6. Has(todo, "Install")'
  BY <1>5 DEF Has
<1> QED
  BY <1>6 DEF LeftPaused

LEMMA PausedInstall ==
  ASSUME IInv, ~Idle, Head(todo).write = "Install", Install(Head(todo).arg)
  PROVE  LeftPaused'
<1> DEFINE j == Head(todo).arg
<1>1. /\ active' = TRUE /\ enabled' = enabled /\ paused' = paused /\ launched' = launched
      /\ enabled \in BOOLEAN
  BY DEF Install, IInv, Types
<1>2. /\ Tail(todo) = << >> /\ j \in Jobs
      /\ StopForDataset(j) => launched = None
  BY InstallAlone
<1> HIDE DEF j
<1>3. CASE IsRandomX(j) /\ ~RxReady(j)
  <2>1. todo' = << >> /\ launched = None
    BY <1>2, <1>3 DEF Install, j, StopForDataset
  <2> QED
    BY <1>1, <2>1 DEF LeftPaused, Has
<1>4. CASE ~IsRandomX(j) \/ RxReady(j)
  <2>1. todo' = << >> \o JobChange(j, TRUE)
    BY <1>2, <1>4 DEF Install, j
  <2>2. /\ JobChange(j, TRUE) \in Seq(Items)
        /\ ~enabled => Has(JobChange(j, TRUE), "Pause") /\ ~Has(JobChange(j, TRUE), "Unpause")
    <3>1. Types /\ j \in Jobs \cup {None} /\ TRUE \in BOOLEAN
      BY <1>2 DEF IInv
    <3> QED
      BY <3>1, JobChangeWrites
  <2>3. todo' = JobChange(j, TRUE)
    BY <2>1, <2>2
  <2>4. ASSUME ~enabled PROVE Leaves(todo, TRUE)'
    <3>1. Flag(TRUE) = "Pause" /\ Flag(~TRUE) = "Unpause" /\ TRUE \in BOOLEAN
      BY DEF Flag
    <3>2. todo' \in Seq(Items)
      BY <2>2, <2>3
    <3> QED
      BY <2>2, <2>3, <2>4, <3>1, <3>2, LastWordLeaves
  <2> QED
    BY <1>1, <2>4 DEF LeftPaused
<1> QED
  BY <1>3, <1>4

LEMMA PausedOtherWrites ==
  ASSUME IInv, LeftPaused, EventLoop, Head(todo).write # "Install"
  PROVE  LeftPaused'
<1>1. /\ ~Idle /\ todo' = Tail(todo) /\ UNCHANGED userVars
      /\ paused' = IF Head(todo).write = "Pause" THEN TRUE
                   ELSE IF Head(todo).write = "Unpause" THEN FALSE ELSE paused
      /\ \/ launched' = launched
         \/ launched' = None
         \/ Head(todo).write = "Launch"
  BY OtherWrites
<1>2. Leaves(todo, TRUE) => Leaves(todo, TRUE)'
  BY <1>1, TailLeaves
<1>3. /\ Head(todo) = todo[1] /\ 1 \in 1..Len(todo) /\ Len(todo) \in Nat \ {0}
      /\ Len(todo') = Len(todo) - 1
      /\ \A n \in 1..Len(todo') : todo'[n] = todo[n + 1] /\ n + 1 \in 1..Len(todo)
  BY <1>1, TailWrites
<1>4. ASSUME Has(todo, "Install") PROVE Has(todo, "Install")'
  <2>1. PICK n \in 1..Len(todo) : todo[n].write = "Install"
    BY <1>4 DEF Has
  <2>2. n # 1
    BY <1>3, <2>1
  <2>3. n - 1 \in 1..Len(todo') /\ todo'[n - 1] = todo[n]
    BY <1>3, <2>2
  <2> QED
    BY <2>1, <2>3 DEF Has
<1>5. ASSUME launched = None, ~Has(todo, "Launch")
      PROVE  launched' = None /\ ~Has(todo, "Launch")'
  <2>1. Head(todo).write # "Launch"
    BY <1>3, <1>5 DEF Has
  <2> QED
    BY <1>1, <1>3, <1>5, <2>1 DEF Has
<1> QED
  BY <1>1, <1>2, <1>4, <1>5 DEF LeftPaused, userVars

LEMMA NextLeftPaused ==
  ASSUME IInv, IInv', LeftPaused, {"config", "rpc stop"} \cap Inputs = {}, [Next]_vars
  PROVE  LeftPaused'
<1>1. ASSUME NEW j \in Jobs, SetJob(j) PROVE LeftPaused'
  BY <1>1, PausedSetJob
<1>2. CASE DatasetBuilt
  BY <1>2 DEF DatasetBuilt, LeftPaused, Leaves, Has, userVars
<1>3. CASE OnDatasetReady \/ PoolLost
  BY <1>3, PausedHandlers
<1>4. ASSUME NEW e \in BOOLEAN, UserPause(e) \/ OnBattery(e) \/ OnUserActive(e)
      PROVE  LeftPaused'
  BY <1>4, PausedHandlers
<1>5. CASE EventLoop
  <2>1. CASE Head(todo).write = "Install"
    <3>1. ~Idle /\ Install(Head(todo).arg)
      BY <1>5, <2>1 DEF EventLoop
    <3> QED
      BY <2>1, <3>1, PausedInstall
  <2> QED
    BY <1>5, <2>1, PausedOtherWrites
<1>6. ASSUME NEW w \in Workers, Worker(w) PROVE LeftPaused'
  <2>1. UNCHANGED mainVars /\ paused' \in {paused, TRUE}
    BY <1>6, WorkerFrame
  <2>2. Leaves(todo, TRUE) => Leaves(todo, TRUE)'
    BY <2>1 DEF Leaves, Has, mainVars, Flag
  <2> QED
    BY <2>1, <2>2 DEF LeftPaused, Has, mainVars, userVars
<1>7. CASE UNCHANGED vars
  BY <1>7 DEF LeftPaused, Leaves, Has, vars, userVars
<1>8. ~RpcStop /\ ~\E c \in Configs : ConfigChanged(c)
  BY DEF RpcStop, ConfigChanged
<1> QED
  BY <1>1, <1>2, <1>3, <1>4, <1>5, <1>6, <1>7, <1>8 DEF Next

-----------------------------------------------------------------------------
(* A touch at the end is one for all that comes before it.                 *)
LEMMA TouchedLast ==
  ASSUME NEW s \in Seq(Items), NEW t \in Seq(Items), Touches(t), Touching(t)
  PROVE  Touches(s \o t) /\ Touching(s \o t)
<1> DEFINE c == s \o t
<1>1. /\ Len(c) = Len(s) + Len(t) /\ Len(s) \in Nat /\ Len(t) \in Nat
      /\ \A i \in 1..(Len(s) + Len(t)) : c[i] = IF i <= Len(s) THEN s[i] ELSE t[i - Len(s)]
  BY ConcatProperties
<1> HIDE DEF c
<1>2. ASSUME NEW k \in 1..Len(t)
      PROVE  k + Len(s) \in 1..Len(c) /\ c[k + Len(s)] = t[k]
  BY <1>1
<1>3. PICK m \in 1..Len(t) : t[m].write \in {"Touch", "Install"}
  BY DEF Touches
<1>4. m + Len(s) \in 1..Len(c) /\ c[m + Len(s)].write \in {"Touch", "Install"}
  BY <1>2, <1>3
<1>5. ASSUME NEW n \in 1..Len(c), c[n].write \in {"Pause", "Zero", "Launch"}
      PROVE  \E k \in n..Len(c) : c[k].write \in {"Touch", "Install"}
  <2>1. CASE n <= Len(s)
    <3>1. m + Len(s) \in n..Len(c)
      BY <1>1, <1>4, <2>1
    <3> QED
      BY <1>4, <3>1
  <2>2. CASE ~(n <= Len(s))
    <3>1. n - Len(s) \in 1..Len(t) /\ t[n - Len(s)] = c[n]
      BY <1>1, <2>2
    <3>2. PICK k \in (n - Len(s))..Len(t) : t[k].write \in {"Touch", "Install"}
      BY <1>5, <3>1 DEF Touching
    <3>3. k \in 1..Len(t) /\ k + Len(s) \in n..Len(c)
      BY <1>1, <3>1
    <3> QED
      BY <1>2, <3>2, <3>3
  <2> QED
    BY <2>1, <2>2
<1> QED
  BY <1>4, <1>5 DEF Touches, Touching, c

(* What calls for no touch may follow it.                                  *)
LEMMA TouchedFirst ==
  ASSUME NEW s \in Seq(Items), NEW t \in Seq(Items), Touches(s), Touching(s),
         ~Has(t, "Pause"), ~Has(t, "Zero"), ~Has(t, "Launch")
  PROVE  Touches(s \o t) /\ Touching(s \o t)
<1> DEFINE c == s \o t
<1>1. /\ Len(c) = Len(s) + Len(t) /\ Len(s) \in Nat /\ Len(t) \in Nat
      /\ \A i \in 1..(Len(s) + Len(t)) : c[i] = IF i <= Len(s) THEN s[i] ELSE t[i - Len(s)]
  BY ConcatProperties
<1> HIDE DEF c
<1>2. ASSUME NEW k \in 1..Len(s) PROVE k \in 1..Len(c) /\ c[k] = s[k]
  BY <1>1
<1>3. ASSUME NEW n \in 1..Len(c), c[n].write \in {"Pause", "Zero", "Launch"}
      PROVE  \E k \in n..Len(c) : c[k].write \in {"Touch", "Install"}
  <2>1. n \in 1..Len(s)
    <3>1. CASE ~(n <= Len(s))
      <4>1. n - Len(s) \in 1..Len(t) /\ t[n - Len(s)] = c[n]
        BY <1>1, <3>1
      <4> QED
        BY <1>3, <4>1 DEF Has
    <3> QED
      BY <1>1, <3>1
  <2>2. PICK k \in n..Len(s) : s[k].write \in {"Touch", "Install"}
    BY <1>2, <1>3, <2>1 DEF Touching
  <2>3. k \in 1..Len(s) /\ k \in n..Len(c)
    BY <1>1, <2>1
  <2> QED
    BY <1>2, <2>2, <2>3
<1>4. Touches(c)
  BY <1>2 DEF Touches
<1> QED
  BY <1>3, <1>4 DEF Touching, c

LEMMA TouchedAlone ==
  ASSUME NEW name \in {"Touch", "Install"}, NEW x, [write |-> name, arg |-> x] \in Items
  PROVE  Touches(WriteOf(name, x)) /\ Touching(WriteOf(name, x))
  BY HasWrite DEF Touches, Touching

LEMMA TouchAlone == Touches(Write("Touch")) /\ Touching(Write("Touch"))
<1>1. [write |-> "Touch", arg |-> None] \in Items
  BY DEF Items
<1> QED
  BY <1>1, TouchedAlone DEF Write, WriteOf

LEMMA NoneTouches == ~Touches(<< >>) /\ Touching(<< >>)
  BY DEF Touches, Touching

(* handleJobChange() touches the workers after it started them.            *)
LEMMA JobChangeTouches ==
  ASSUME Types, NEW j \in Jobs \cup {None}, NEW isActive \in BOOLEAN
  PROVE  Touches(JobChange(j, isActive)) /\ Touching(JobChange(j, isActive))
<1> DEFINE pause == IF enabled THEN << >> ELSE Write("Pause")
           backend == SetBackendJob(config, j)
           touch == Write("Touch")
           unpause == IF isActive /\ enabled THEN Write("Unpause") ELSE << >>
           started == pause \o backend
           touched == started \o touch
           change == JobChange(j, isActive)
<1>1. backend \in Seq(Items)
  BY SetBackendJobWrites DEF Types
<1>2. pause \in Seq(Items)
  BY HasNone, HasPlainWrite, Zenon
<1>3. touch \in Seq(Items) /\ Touches(touch) /\ Touching(touch)
  BY HasPlainWrite, TouchAlone, Zenon
<1>4. unpause \in Seq(Items) /\ \A name : Has(unpause, name) => name = "Unpause"
  BY HasNone, HasPlainWrite, Zenon
<1>5. change = touched \o unpause
  BY <1>1, <1>2, <1>3, <1>4 DEF JobChange
<1> HIDE DEF pause, backend, touch, unpause, change
<1>6. started \in Seq(Items)
  BY <1>1, <1>2, HasConcat
<1> HIDE DEF started
<1>7. touched \in Seq(Items) /\ Touches(touched) /\ Touching(touched)
  BY <1>3, <1>6, HasConcat, TouchedLast
<1> HIDE DEF touched
<1>8. Touches(change) /\ Touching(change)
  BY <1>4, <1>5, <1>7, TouchedFirst
<1> QED
  BY <1>8 DEF change

(* setEnabled() touches the workers after it set the flag.                 *)
LEMMA SetEnabledTouches ==
  ASSUME Types, Idle, NEW e \in BOOLEAN, NEW b \in BOOLEAN, SetEnabled(e, b)
  PROVE  /\ Touching(todo')
         /\ enabled' # enabled /\ active => Touches(todo')
<1>1. CASE todo' = << >> /\ ~(enabled' # enabled /\ active)
  BY <1>1, NoneTouches
<1>2. CASE todo' = TellWorkers(e)
  <2> DEFINE flag == Write(IF e THEN "Unpause" ELSE "Pause")
             touch == Write("Touch")
  <2>1. flag \in Seq(Items) /\ touch \in Seq(Items)
    BY HasPlainWrite
  <2>2. Touches(touch) /\ Touching(touch)
    BY TouchAlone
  <2>3. todo' = flag \o touch
    BY <1>2 DEF TellWorkers
  <2> HIDE DEF flag, touch
  <2> QED
    BY <2>1, <2>2, <2>3, TouchedLast
<1> QED
  BY <1>1, <1>2 DEF SetEnabled, Idle

-----------------------------------------------------------------------------
(* No step lets a worker in while the miner is paused.                     *)
LEMMA HeldOutHandler ==
  ASSUME HeldOut, Idle, Touching(todo'), UNCHANGED <<launched, sequence, workerVars>>,
         active /\ enabled => (active' /\ enabled') \/ Touches(todo')
  PROVE  HeldOut'
<1>1. ~Touches(todo)
  BY NoneTouches DEF Idle
<1>2. \A w \in Workers : LetIn(w)' <=> LetIn(w)
  BY DEF LetIn, Outdated, workerVars
<1> QED
  BY <1>1, <1>2 DEF HeldOut

LEMMA HeldOutHandlers ==
  ASSUME IInv, HeldOut,
         \/ OnDatasetReady \/ PoolLost
         \/ \E e \in BOOLEAN : UserPause(e) \/ OnBattery(e) \/ OnUserActive(e)
         \/ \E j \in Jobs : SetJob(j)
  PROVE  HeldOut'
<1>1. Types /\ active \in BOOLEAN /\ enabled \in BOOLEAN /\ battery \in BOOLEAN
      /\ job \in Jobs \cup {None}
  BY DEF IInv, Types
<1>2. CASE OnDatasetReady
  <2>1. Idle /\ UNCHANGED <<active, enabled, launched, sequence, workerVars>>
    BY <1>2 DEF OnDatasetReady
  <2>2. todo' = JobChange(job, active) \/ todo' = << >>
    BY <1>2, <2>1 DEF OnDatasetReady, Idle
  <2>3. Touching(todo')
    BY <1>1, <2>2, JobChangeTouches, NoneTouches
  <2> QED
    BY <2>1, <2>3, HeldOutHandler
<1>3. CASE PoolLost
  <2>1. /\ Idle /\ UNCHANGED <<launched, sequence, workerVars>>
        /\ todo' = Write("Pause") \o Write("Touch")
    BY <1>3 DEF PoolLost
  <2>2. Touches(todo') /\ Touching(todo')
    BY <2>1, HasPlainWrite, TouchAlone, TouchedLast
  <2> QED
    BY <2>1, <2>2, HeldOutHandler
<1>4. ASSUME NEW e \in BOOLEAN, UserPause(e) \/ OnBattery(e) \/ OnUserActive(e)
      PROVE  HeldOut'
  <2>1. PICK s \in BOOLEAN, b \in BOOLEAN : Idle /\ SetEnabled(s, b)
    BY <1>1, <1>4 DEF UserPause, OnBattery, OnUserActive
  <2>2. UNCHANGED <<active, launched, sequence, workerVars>>
    BY <1>4 DEF UserPause, OnBattery, OnUserActive
  <2>3. Touching(todo') /\ (enabled' # enabled /\ active => Touches(todo'))
    BY <1>1, <2>1, SetEnabledTouches
  <2> QED
    BY <2>1, <2>2, <2>3, HeldOutHandler
<1>5. ASSUME NEW j \in Jobs, SetJob(j) PROVE HeldOut'
  <2> DEFINE stop == IF StopForDataset(j) THEN StopMiner ELSE << >>
             install == WriteOf("Install", j)
  <2>1. Idle /\ todo' = stop \o install /\ UNCHANGED <<userVars, launched, sequence, workerVars>>
    BY <1>5 DEF SetJob
  <2>2. stop \in Seq(Items)
    BY StopMinerWrites, HasNone
  <2>3. [write |-> "Install", arg |-> j] \in Items
    BY DEF Items
  <2>4. install \in Seq(Items) /\ Touches(install) /\ Touching(install)
    BY <2>3, HasWrite, TouchedAlone
  <2> HIDE DEF stop, install
  <2>5. Touches(todo') /\ Touching(todo')
    BY <2>1, <2>2, <2>4, TouchedLast
  <2> QED
    BY <2>1, <2>5, HeldOutHandler
<1> QED
  BY <1>2, <1>3, <1>4, <1>5

LEMMA HeldOutInstall ==
  ASSUME IInv, HeldOut, ~Idle, Head(todo).write = "Install", Install(Head(todo).arg)
  PROVE  HeldOut'
<1> DEFINE j == Head(todo).arg
<1>1. UNCHANGED <<launched, sequence, workerVars>>
  BY DEF Install
<1>2. /\ Tail(todo) = << >> /\ j \in Jobs
      /\ StopForDataset(j) => launched = None
  BY InstallAlone
<1> HIDE DEF j
<1>3. CASE IsRandomX(j) /\ ~RxReady(j)
  <2>1. todo' = << >> /\ launched = None
    BY <1>2, <1>3 DEF Install, j, StopForDataset
  <2>2. \A w \in Workers : pc[w] = "None"
    BY <2>1 DEF IInv, GoneWorkers
  <2> QED
    BY <1>1, <2>1, <2>2, NoneTouches DEF HeldOut, LetIn, workerVars
<1>4. CASE ~IsRandomX(j) \/ RxReady(j)
  <2>1. todo' = << >> \o JobChange(j, TRUE)
    BY <1>2, <1>4 DEF Install, j
  <2>2. Types /\ j \in Jobs \cup {None} /\ TRUE \in BOOLEAN
    BY <1>2 DEF IInv
  <2>3. JobChange(j, TRUE) \in Seq(Items)
    BY <2>2, JobChangeWrites
  <2>4. Touches(JobChange(j, TRUE)) /\ Touching(JobChange(j, TRUE))
    BY <2>2, JobChangeTouches
  <2>5. todo' = JobChange(j, TRUE)
    BY <2>1, <2>3
  <2> QED
    BY <2>4, <2>5 DEF HeldOut
<1> QED
  BY <1>3, <1>4

LEMMA HeldOutOtherWrites ==
  ASSUME IInv, HeldOut, EventLoop, Head(todo).write # "Install"
  PROVE  HeldOut'
<1>1. ~Idle /\ todo' = Tail(todo) /\ UNCHANGED userVars
  BY OtherWrites
<1>2. /\ Head(todo) = todo[1] /\ 1 \in 1..Len(todo) /\ Len(todo) \in Nat \ {0}
      /\ Len(todo') = Len(todo) - 1
      /\ \A n \in 1..Len(todo') : todo'[n] = todo[n + 1] /\ n + 1 \in 1..Len(todo)
  BY <1>1, TailWrites
<1>3. ASSUME NEW k \in 1..Len(todo), k # 1
      PROVE  k - 1 \in 1..Len(todo') /\ todo'[k - 1] = todo[k]
  BY <1>2, <1>3
<1>4. Touching(todo')
  <2> SUFFICES ASSUME NEW n \in 1..Len(todo'), todo'[n].write \in {"Pause", "Zero", "Launch"}
               PROVE  \E k \in n..Len(todo') : todo'[k].write \in {"Touch", "Install"}
    BY DEF Touching
  <2>1. PICK k \in (n + 1)..Len(todo) : todo[k].write \in {"Touch", "Install"}
    BY <1>2 DEF HeldOut, Touching
  <2>2. k \in 1..Len(todo) /\ k # 1 /\ k - 1 \in n..Len(todo')
    BY <1>2
  <2> QED
    BY <1>3, <2>1, <2>2
<1>5. ASSUME Touches(todo), Head(todo).write # "Touch" PROVE Touches(todo')
  <2>1. PICK k \in 1..Len(todo) : todo[k].write \in {"Touch", "Install"}
    BY <1>5 DEF Touches
  <2>2. k # 1
    BY <1>2, <1>5, <2>1
  <2> QED
    BY <1>3, <2>1, <2>2 DEF Touches
<1>6. ASSUME Head(todo).write \in {"Zero", "Launch"} PROVE Touches(todo')
  <2>1. \E k \in 1..Len(todo) : todo[k].write \in {"Touch", "Install"}
    BY <1>2, <1>6 DEF HeldOut, Touching
  <2> QED
    BY <1>5, <1>6, <2>1 DEF Touches
<1>7. CASE Head(todo).write = "Touch" /\ DoSequence(Touched)
  <2>1. sequence' = Touched /\ sequence' # 0 /\ \A w \in Workers : mseq[w] # sequence'
    BY <1>7, TouchedIsFresh DEF DoSequence, IInv
  <2>2. \A w \in Workers : ~LetIn(w)'
    BY <1>7, <2>1 DEF DoSequence, LetIn, Outdated, workerVars
  <2> QED
    BY <1>4, <2>1, <2>2 DEF HeldOut
<1>8. CASE Head(todo).write = "Join" /\ DoJoin
  <2>1. launched' = None /\ \A w \in Workers : pc'[w] = "None"
    BY <1>8 DEF DoJoin
  <2> QED
    BY <1>4, <2>1 DEF HeldOut, LetIn
<1>9. CASE Head(todo).write \in {"Zero", "Launch"}
  BY <1>4, <1>6, <1>9 DEF HeldOut
<1>10. CASE \E on \in BOOLEAN : Head(todo).write # "Touch" /\ DoPause(on)
  <2>1. UNCHANGED <<launched, sequence, workerVars>>
    BY <1>10 DEF DoPause
  <2>2. \A w \in Workers : LetIn(w)' <=> LetIn(w)
    BY <2>1 DEF LetIn, Outdated, workerVars
  <2> QED
    BY <1>1, <1>4, <1>5, <1>10, <2>1, <2>2 DEF HeldOut, userVars
<1> QED
  BY <1>7, <1>8, <1>9, <1>10 DEF EventLoop

(* A worker comes in by the test of the flag, or it was in.                *)
LEMMA ComesIn ==
  ASSUME IInv, NEW w \in Workers, NEW v \in Workers, Worker(w), LetIn(v)'
  PROVE  LetIn(v) \/ (w = v /\ IsPaused(w) /\ paused = FALSE)
<1> USE DEF GoTo, Moves, Calls, LetIn, Outdated
<1>1. /\ pc \in [Workers -> WorkerPCs] /\ return \in [Workers -> {"Inner", "Outer"}]
      /\ mseq \in [Workers -> Nat] /\ paused \in BOOLEAN
  BY DEF IInv, Types
<1>2. CASE v # w
  BY <1>1, <1>2
  DEF Worker, Outer, IsPaused, Sleep, Wake, Consume, CopyJob, AddJob, SaveLast, AskDataset,
      AwaitDataset, Inner, Hash, LastRange
<1>3. CASE v = w
  <2>1. CASE Outer(w) \/ Sleep(w) \/ Wake(w) \/ CopyJob(w)
    BY <1>1, <1>3, <2>1 DEF Outer, Sleep, Wake, CopyJob
  <2>2. CASE IsPaused(w)
    BY <1>1, <1>3, <2>2 DEF IsPaused
  <2>3. CASE Consume(w) \/ AwaitDataset(w)
    BY <1>1, <1>3, <2>3 DEF Consume, AwaitDataset
  <2>4. CASE AddJob(w) \/ SaveLast(w) \/ AskDataset(w)
    BY <1>1, <1>3, <2>4 DEF AddJob, AfterAdd, SaveLast, AskDataset
  <2>5. CASE Inner(w) \/ Hash(w) \/ LastRange(w)
    BY <1>1, <1>3, <2>5 DEF Inner, Hash, LastRange
  <2> QED
    BY <2>1, <2>2, <2>3, <2>4, <2>5 DEF Worker
<1> QED
  BY <1>2, <1>3

LEMMA HeldOutWorker ==
  ASSUME IInv, LeftPaused, HeldOut, NEW w \in Workers, Worker(w)
  PROVE  HeldOut'
<1>1. UNCHANGED mainVars
  BY WorkerFrame
<1>2. sequence' = sequence
  BY DEF Worker, Outer, IsPaused, Sleep, Wake, Consume, CopyJob, AddJob, SaveLast, AskDataset,
         AwaitDataset, Inner, Hash, LastRange, Moves, Calls
<1>3. ASSUME IsPaused(w), paused = FALSE PROVE (active /\ enabled) \/ Touches(todo)
  <2>1. launched # None /\ active \in BOOLEAN /\ enabled \in BOOLEAN
    BY <1>3 DEF IsPaused, IInv, GoneWorkers, Types
  <2>2. ASSUME Has(todo, "Install") PROVE Touches(todo)
    BY <2>2 DEF Has, Touches
  <2>3. ASSUME Leaves(todo, TRUE) PROVE Touches(todo)
    <3>1. PICK n \in 1..Len(todo) : todo[n].write = "Pause"
      BY <1>3, <2>3 DEF Leaves, Flag
    <3>2. PICK k \in n..Len(todo) : todo[k].write \in {"Touch", "Install"}
      BY <3>1 DEF HeldOut, Touching
    <3> QED
      BY <3>2 DEF Touches
  <2> QED
    BY <2>1, <2>2, <2>3 DEF LeftPaused
<1>4. ASSUME NEW v \in Workers, LetIn(v)' PROVE (active /\ enabled) \/ Touches(todo)
  BY <1>3, <1>4, ComesIn DEF HeldOut
<1> QED
  BY <1>1, <1>2, <1>4 DEF HeldOut, mainVars, userVars

LEMMA NextHeldOut ==
  ASSUME IInv, LeftPaused, HeldOut, {"config", "rpc stop"} \cap Inputs = {}, [Next]_vars
  PROVE  HeldOut'
<1>1. ASSUME NEW j \in Jobs, SetJob(j) PROVE HeldOut'
  BY <1>1, HeldOutHandlers
<1>2. CASE DatasetBuilt \/ UNCHANGED vars
  <2>1. UNCHANGED <<userVars, launched, todo, sequence, workerVars>>
    BY <1>2 DEF DatasetBuilt, vars
  <2>2. /\ (Touches(todo)' <=> Touches(todo)) /\ (Touching(todo)' <=> Touching(todo))
        /\ \A w \in Workers : LetIn(w)' <=> LetIn(w)
    BY <2>1 DEF LetIn, Outdated, Touches, Touching, workerVars
  <2> QED
    BY <2>1, <2>2 DEF HeldOut, userVars
<1>3. CASE OnDatasetReady \/ PoolLost
  BY <1>3, HeldOutHandlers
<1>4. ASSUME NEW e \in BOOLEAN, UserPause(e) \/ OnBattery(e) \/ OnUserActive(e)
      PROVE  HeldOut'
  BY <1>4, HeldOutHandlers
<1>5. CASE EventLoop
  <2>1. CASE Head(todo).write = "Install"
    <3>1. ~Idle /\ Install(Head(todo).arg)
      BY <1>5, <2>1 DEF EventLoop
    <3> QED
      BY <2>1, <3>1, HeldOutInstall
  <2> QED
    BY <1>5, <2>1, HeldOutOtherWrites
<1>6. ASSUME NEW w \in Workers, Worker(w) PROVE HeldOut'
  BY <1>6, HeldOutWorker
<1>7. ~RpcStop /\ ~\E c \in Configs : ConfigChanged(c)
  BY DEF RpcStop, ConfigChanged
<1> QED
  BY <1>1, <1>2, <1>3, <1>4, <1>5, <1>6, <1>7 DEF Next

(* While the miner is held nothing wakes a worker that waits in start().   *)
LEMMA WaitsOn ==
  ASSUME IInv, LeftPaused, HeldOut, Next, NEW w \in Workers,
         Held, pc[w] \in {"Paused?", "Asleep"}
  PROVE  pc'[w] \in {"Paused?", "Asleep"}
<1>1. pc \in [Workers -> WorkerPCs] /\ active \in BOOLEAN /\ enabled \in BOOLEAN
  BY DEF IInv, Types
<1>2. launched # None /\ Idle
  BY DEF IInv, GoneWorkers, Held
<1>3. paused = TRUE
  BY <1>1, <1>2, IdleLeaves DEF LeftPaused, Held
<1>4. sequence # 0
  BY <1>2, NoneTouches DEF HeldOut, Idle
<1>5. ASSUME NEW v \in Workers, Worker(v) PROVE pc'[w] \in {"Paused?", "Asleep"}
  <2>1. CASE v = w
    <3>1. IsPaused(w) \/ Sleep(w)
      BY <1>5, <2>1 DEF Worker, Outer, Wake, Consume, CopyJob, AddJob, SaveLast, AskDataset,
         AwaitDataset, Inner, Hash, LastRange
    <3> QED
      BY <1>1, <1>3, <1>4, <3>1 DEF IsPaused, Sleep, Moves, GoTo
  <2>2. CASE v # w
    <3>1. pc'[w] = pc[w]
      BY <1>1, <1>5, <2>2
      DEF Worker, Outer, IsPaused, Sleep, Wake, Consume, CopyJob, AddJob, SaveLast, AskDataset,
          AwaitDataset, Inner, Hash, LastRange, Moves, Calls, GoTo
    <3> QED
      BY <3>1
  <2> QED
    BY <2>1, <2>2
<1>6. ~EventLoop
  BY <1>2 DEF EventLoop
<1>7. pc' = pc \/ \E v \in Workers : Worker(v)
  BY <1>6 DEF Next, SetJob, DatasetBuilt, OnDatasetReady, PoolLost, RpcStop, UserPause,
     OnBattery, OnUserActive, ConfigChanged, workerVars
<1> QED
  BY <1>5, <1>7

(* Without a pool, or paused by the user, no worker mines but one that     *)
(* CpuWorker::start() had woken before, and none is woken.                 *)
THEOREM PausedStays == {"config", "rpc stop"} \cap Inputs = {} => (Spec => StaysPaused)
<1> SUFFICES ASSUME {"config", "rpc stop"} \cap Inputs = {} PROVE Spec => StaysPaused
  OBVIOUS
<1>1. Init => LeftPaused /\ HeldOut
  <2> SUFFICES ASSUME Init PROVE LeftPaused /\ HeldOut
    OBVIOUS
  <2>1. active = FALSE /\ Idle /\ paused = TRUE
    BY DEF Init, Idle
  <2>2. Leaves(todo, TRUE)
    BY <2>1, IdleLeaves
  <2>3. HeldOut
    BY NoneTouches DEF Init, HeldOut, LetIn
  <2> QED
    BY <2>1, <2>2, <2>3 DEF LeftPaused
<1>2. IInv /\ IInv' /\ (LeftPaused /\ HeldOut) /\ [Next]_vars => (LeftPaused /\ HeldOut)'
  BY NextLeftPaused, NextHeldOut
<1>3. IInv /\ HeldOut => \A w \in Workers : Held /\ Mines(w) => JustWoken(w)
  BY NoneTouches DEF HeldOut, Held, Idle, Mines, LetIn, JustWoken, IInv, Types
<1>4. IInv /\ (LeftPaused /\ HeldOut) /\ [Next]_vars =>
        [\A w \in Workers :
           Held /\ pc[w] \in {"Paused?", "Asleep"} => pc'[w] \in {"Paused?", "Asleep"}]_vars
  BY WaitsOn
<1> QED
  BY <1>1, <1>2, <1>3, <1>4, SpecIInv, PTL DEF Spec, StaysPaused
=============================================================================
