---------------------------- MODULE RxQueue_proof ----------------------------
(***************************************************************************)
(* Proofs about RxQueue, for every set of seeds and every queue bound: the *)
(* four invariants its run checks, from one inductive invariant, and that  *)
(* every step of the queue is a step or a stutter of DatasetService.       *)
(***************************************************************************)
EXTENDS RxQueue, SequenceTheorems, TLAPS

(* The background thread works on one request from SetSeed to Publish; the *)
(* queue is not idle then, and the storage carries that request's seed as  *)
(* soon as setSeed() is done.                                              *)
BusyInv ==
  /\ Initialising \/ bg = "Publish" => item \in Seeds /\ state # "IDLE"
  /\ bg \in {"Create", "Cache", "Fill", "Copy", "Publish"} => stSeed = item

(* The storage, step by step through its init().                           *)
Copying ==
  /\ datasets[Front] = item
  /\ \A n \in Nodes : datasets[n] \in {item, Partial, Absent}

StorageInv ==
  /\ bg = "Create" => ~allocated
  /\ bg \in {"Cache", "Fill", "Copy"} => allocated
  /\ bg = "Fill" => cacheFor = item
  /\ bg = "Copy" => Copying

(* Outside init() a storage with datasets is ready, and each is built for  *)
(* its seed: init() never leaves a dataset half done behind.               *)
Settled ==
  /\ stReady
  /\ datasets[Front] = stSeed
  /\ \A n \in Nodes : datasets[n] \in {stSeed, Absent}

SettledInv == ~Initialising /\ allocated => Settled

(* Only the destructor shuts the queue down, and main stays in it.         *)
ShutdownInv == state = "SHUTDOWN" <=> main \in {"DtorNotify", "Join", "Done"}

IInv ==
  /\ TypeOK
  /\ LastRequestKept
  /\ IdleIsQuiet
  /\ BusyInv
  /\ StorageInv
  /\ SettledInv
  /\ ShutdownInv

-----------------------------------------------------------------------------
(* The initial state satisfies the inductive invariant.                    *)
LEMMA InitIInv == Init => IInv
<1> SUFFICES ASSUME Init PROVE IInv
  OBVIOUS
<1>1. TypeOK
  BY EmptySeq DEF Init, InitialState, TypeOK, MainPCs, BgPCs
<1>2. LastRequestKept /\ IdleIsQuiet /\ BusyInv
  BY DEF Init, InitialState, LastRequestKept, IdleIsQuiet, BusyInv, Initialising
<1>3. StorageInv /\ SettledInv /\ ShutdownInv
  BY DEF Init, InitialState, StorageInv, Copying, SettledInv, Settled, ShutdownInv
<1>4. QED
  BY <1>1, <1>2, <1>3 DEF IInv

(* What emplace_back() does to m_queue: the new request is the last one.   *)
LEMMA AppendedIsNewest ==
  ASSUME NEW q \in Seq(Seeds), NEW s \in Seeds
  PROVE  /\ Append(q, s) \in Seq(Seeds)
         /\ Append(q, s) # << >>
         /\ Append(q, s)[Len(Append(q, s))] = s
  OBVIOUS

(* Every step of the two threads keeps the inductive invariant.            *)
LEMMA NextIInv == IInv /\ [Next]_vars => IInv'
<1> SUFFICES ASSUME IInv, [Next]_vars PROVE IInv'
  OBVIOUS
<1> USE DEF IInv, mainVars
<1>0. ASSUME NEW s \in Seeds, RxInit(s) PROVE IInv'
  BY <1>0
  DEF RxInit, TypeOK, MainPCs, BgPCs, LastRequestKept, IdleIsQuiet, BusyInv, StorageInv,
      Copying, SettledInv, Settled, ShutdownInv, Initialising, queueVars, storageVars
<1>1. CASE Enqueue
  <2>1. CASE Repeats(asked)
    BY <1>1, <2>1
    DEF Enqueue, TypeOK, MainPCs, BgPCs, LastRequestKept, IdleIsQuiet,
        BusyInv, StorageInv, Copying, SettledInv, Settled, ShutdownInv, Initialising, storageVars
  <2>2. CASE ~Repeats(asked)
    <3>1. /\ queue' = Append(queue, asked)
          /\ seed' = asked
          /\ state' = "PENDING"
          /\ main = "Enqueue" /\ asked \in Seeds
          /\ main' = "Notify"
          /\ storage' \in {None, "Basic", "NUMA"}
          /\ UNCHANGED <<bg, async, item, allocated, stSeed, stReady, cacheFor, datasets>>
      BY <1>1, <2>2 DEF Enqueue, storageVars, TypeOK
    <3>2. /\ queue' \in Seq(Seeds)
          /\ queue' # << >>
          /\ queue'[Len(queue')] = asked
      BY <3>1, AppendedIsNewest DEF TypeOK
    <3>3. asked' = None
      BY <1>1 DEF Enqueue
    <3>4. TypeOK'
      BY <3>1, <3>2, <3>3 DEF TypeOK, MainPCs
    <3>5. LastRequestKept' /\ IdleIsQuiet'
      BY <3>1, <3>2 DEF LastRequestKept, IdleIsQuiet
    <3>6. QED
      BY <3>1, <3>4, <3>5
      DEF BusyInv, StorageInv, Copying, SettledInv, Settled, ShutdownInv, Initialising
  <2>3. QED
    BY <2>1, <2>2
<1>2. CASE EnqueueNotify
  BY <1>2
  DEF EnqueueNotify, WakeBackground, TypeOK, MainPCs, BgPCs, LastRequestKept,
      IdleIsQuiet, BusyInv, StorageInv, Copying, SettledInv, Settled, ShutdownInv, Initialising,
      queueVars, storageVars
<1>3. CASE Destroy
  BY <1>3
  DEF Destroy, TypeOK, MainPCs, BgPCs, LastRequestKept, IdleIsQuiet,
      BusyInv, StorageInv, Copying, SettledInv, Settled, ShutdownInv, Initialising, storageVars
<1>4. CASE DestroyNotify
  BY <1>4
  DEF DestroyNotify, WakeBackground, TypeOK, MainPCs, BgPCs, LastRequestKept,
      IdleIsQuiet, BusyInv, StorageInv, Copying, SettledInv, Settled, ShutdownInv, Initialising,
      queueVars, storageVars
<1>5. CASE DestroyJoin
  BY <1>5
  DEF DestroyJoin, TypeOK, MainPCs, BgPCs, LastRequestKept, IdleIsQuiet,
      BusyInv, StorageInv, Copying, SettledInv, Settled, ShutdownInv, Initialising
<1>6. CASE OnReady
  <2>1. TypeOK'
    BY <1>6 DEF OnReady, TypeOK, queueVars, storageVars
  <2>2. QED
    BY <1>6, <2>1
    DEF OnReady, LastRequestKept, IdleIsQuiet, BusyInv, StorageInv, Copying, SettledInv, Settled,
        ShutdownInv, Initialising, queueVars, storageVars
<1>7. CASE BgCheck
  BY <1>7
  DEF BgCheck, TypeOK, MainPCs, BgPCs, LastRequestKept, IdleIsQuiet,
      BusyInv, StorageInv, Copying, SettledInv, Settled, ShutdownInv, Initialising,
      queueVars, storageVars
<1>8. CASE BgTake
  <2>1. CASE state # "PENDING"
    BY <1>8, <2>1
    DEF BgTake, TypeOK, MainPCs, BgPCs, LastRequestKept, IdleIsQuiet,
        BusyInv, StorageInv, Copying, SettledInv, Settled, ShutdownInv, Initialising, storageVars
  <2>2. CASE state = "PENDING"
    <3>1. queue # << >> /\ queue[Len(queue)] = seed
      BY <1>8, <2>2 DEF BgTake, LastRequestKept, Initialising
    <3>2. seed \in Seeds
      BY <3>1 DEF TypeOK
    <3>3. item' = seed /\ queue' = << >> /\ bg' = "SetSeed"
      BY <1>8, <2>2, <3>1 DEF BgTake, NewestRequest, QueueCleared
    <3>4. QED
      BY <1>8, <2>2, <3>2, <3>3
      DEF BgTake, TypeOK, MainPCs, BgPCs, LastRequestKept, IdleIsQuiet,
          BusyInv, StorageInv, Copying, SettledInv, Settled, ShutdownInv, Initialising, storageVars
  <2>3. QED
    BY <2>1, <2>2
<1>9. CASE SpuriousWake
  BY <1>9
  DEF SpuriousWake, TypeOK, MainPCs, BgPCs, LastRequestKept, IdleIsQuiet,
      BusyInv, StorageInv, Copying, SettledInv, Settled, ShutdownInv, Initialising,
      queueVars, storageVars
<1>10. CASE BgSetSeed
  BY <1>10
  DEF BgSetSeed, TypeOK, MainPCs, BgPCs, LastRequestKept, IdleIsQuiet,
      BusyInv, StorageInv, Copying, SettledInv, Settled, ShutdownInv, Initialising, queueVars
<1>11. CASE BgCreate
  <2>1. datasets' \in [Nodes -> Seeds \cup {None, Partial, Absent}]
    <3>1. \A owners : HeldBy(owners) \in [Nodes -> Seeds \cup {None, Partial, Absent}]
      BY DEF HeldBy
    <3>2. \E owners : datasets' = HeldBy(owners)
      BY <1>11 DEF BgCreate
    <3>3. QED
      BY <3>1, <3>2
  <2>2. TypeOK'
    BY <1>11, <2>1 DEF BgCreate, TypeOK, BgPCs, queueVars
  <2>3. QED
    BY <1>11, <2>2
    DEF BgCreate, LastRequestKept, IdleIsQuiet, BusyInv, StorageInv, Copying, SettledInv, Settled,
        ShutdownInv, Initialising, queueVars
<1>12. CASE BgCache
  <2>1. item \in Seeds /\ cacheFor' = item
    BY <1>12, DataAssumption, NodesAssumption
    DEF BgCache, CacheIsFor, BusyInv, Initialising, TypeOK
  <2>2. QED
    BY <1>12, <2>1
    DEF BgCache, TypeOK, MainPCs, BgPCs, LastRequestKept, IdleIsQuiet,
        BusyInv, StorageInv, Copying, SettledInv, Settled, ShutdownInv, Initialising, queueVars
<1>13. CASE BgFill
  <2>1. /\ item \in Seeds /\ cacheFor = item
        /\ datasets'[Front] = item
        /\ \A n \in Nodes : datasets'[n] \in {item, Partial, Absent}
    BY <1>13, NodesAssumption DEF BgFill, Copies, StorageInv, BusyInv, Initialising
  <2>2. datasets' \in [Nodes -> Seeds \cup {None, Partial, Absent}]
    BY <1>13 DEF BgFill, TypeOK
  <2> QED
    BY <1>13, <2>1, <2>2
    DEF BgFill, TypeOK, MainPCs, BgPCs, LastRequestKept, IdleIsQuiet,
        BusyInv, StorageInv, Copying, SettledInv, Settled, ShutdownInv, Initialising, queueVars
<1>17. ASSUME NEW n \in Nodes, CopyDataset(n) PROVE IInv'
  <2>1. /\ item \in Seeds /\ datasets'[Front] = item
        /\ \A m \in Nodes : datasets'[m] \in {item, Partial, Absent}
        /\ datasets' \in [Nodes -> Seeds \cup {None, Partial, Absent}]
    BY <1>17, NodesAssumption DEF CopyDataset, StorageInv, Copying, BusyInv, Initialising, TypeOK
  <2> QED
    BY <1>17, <2>1
    DEF CopyDataset, TypeOK, MainPCs, BgPCs, LastRequestKept, IdleIsQuiet,
        BusyInv, StorageInv, Copying, SettledInv, Settled, ShutdownInv, Initialising, queueVars
<1>18. CASE BgJoin
  <2>1. Settled'
    BY <1>18, NodesAssumption DEF BgJoin, Joined, Settled, StorageInv, Copying, BusyInv
  <2> QED
    BY <1>18, <2>1
    DEF BgJoin, TypeOK, MainPCs, BgPCs, LastRequestKept, IdleIsQuiet,
        BusyInv, StorageInv, Copying, SettledInv, ShutdownInv, Initialising, queueVars
<1>14. CASE BgPublish
  <2>1. TypeOK'
    BY <1>14 DEF BgPublish, TypeOK, BgPCs, storageVars
  <2>2. LastRequestKept' /\ IdleIsQuiet'
    BY <1>14
    DEF BgPublish, Overtaken, TypeOK, LastRequestKept, IdleIsQuiet, BusyInv, Initialising,
        storageVars
  <2>3. QED
    BY <1>14, <2>1, <2>2
    DEF BgPublish, Overtaken,
        BusyInv, StorageInv, Copying, SettledInv, Settled, ShutdownInv, Initialising, storageVars
<1>15. CASE UNCHANGED vars
  BY <1>15
  DEF vars, TypeOK, MainPCs, BgPCs, LastRequestKept, IdleIsQuiet,
      BusyInv, StorageInv, Copying, SettledInv, Settled, ShutdownInv, Initialising
<1>16. QED
  BY <1>0, <1>1, <1>2, <1>3, <1>4, <1>5, <1>6, <1>7, <1>8, <1>9, <1>10, <1>11,
     <1>12, <1>13, <1>14, <1>15, <1>17, <1>18
  DEF Next, Background, Terminated

(* The inductive invariant holds in every reachable state.                 *)
THEOREM Inductive == Spec => []IInv
  BY InitIInv, NextIInv, PTL DEF Spec

-----------------------------------------------------------------------------
(* What the invariant says of an idle queue that serves s: the storage was *)
(* set up for s and its dataset was filled for s.                          *)
LEMMA ReadyIsBuilt ==
  ASSUME IInv, NEW s \in Seeds, IsReady(s)
  PROVE  /\ HasDataset(s) /\ datasets[Front] = s
         /\ \A n \in Nodes : datasets[DatasetOf(n)] = s
  BY DEF IInv, IsReady, HasDataset, DatasetOf, IdleIsQuiet, SettledInv, Settled

(* Every variable of the queue keeps its type.                             *)
THEOREM TypeCorrect == Spec => []TypeOK
  BY Inductive, PTL DEF IInv

(* dataset() hands a worker only a complete dataset, built for its seed.   *)
THEOREM GrantsAreBuilt == Spec => []GrantedIsBuilt
<1>1. IInv => GrantedIsBuilt
  BY ReadyIsBuilt DEF GrantedIsBuilt, HasDataset
<1>2. QED
  BY <1>1, Inductive, PTL

(* isReady() and dataset() never disagree, so no worker that isReady() let *)
(* start is left spinning for a dataset.                                   *)
THEOREM ReadyIsGranted == Spec => []ReadyMeansGranted
<1>1. IInv => ReadyMeansGranted
  BY ReadyIsBuilt DEF ReadyMeansGranted
<1>2. QED
  BY <1>1, Inductive, PTL

(* enqueue() and backgroundInit() never lose the last request between them *)
(* and an idle queue is a finished one.                                    *)
THEOREM RequestsAreKept == Spec => [](LastRequestKept /\ IdleIsQuiet)
  BY Inductive, PTL DEF IInv

-----------------------------------------------------------------------------
(* What the service sees of the queue in a state of the invariant, without *)
(* the storage's own variables.                                            *)
ServedSeed ==
  IF storage # None /\ allocated /\ state = "IDLE" /\ seed \in Seeds THEN seed ELSE None

LEMMA ServedIsServedSeed == IInv => Served = ServedSeed
<1> SUFFICES ASSUME IInv PROVE Served = ServedSeed
  OBVIOUS
<1>1. CASE storage # None /\ allocated /\ state = "IDLE" /\ seed \in Seeds
  <2>1. IsReady(seed)
    BY <1>1 DEF IsReady
  <2>2. HasDataset(seed) /\ datasets[Front] = seed
    BY <1>1, <2>1, ReadyIsBuilt
  <2>3. QED
    BY <1>1, <2>2 DEF Served, ServedSeed
<1>2. CASE ~(storage # None /\ allocated /\ state = "IDLE" /\ seed \in Seeds)
  <2>1. ~\E s \in Seeds : HasDataset(s)
    BY <1>2 DEF HasDataset, IsReady
  <2>2. QED
    BY <1>2, <2>1 DEF Served, ServedSeed
<1>3. QED
  BY <1>1, <1>2

(* A step of the queue is a step of the service or leaves it alone: a      *)
(* request withdraws what was served, publishing serves, the destructor    *)
(* closes, and the rest is invisible.                                      *)
LEMMA NextImplements ==
  IInv /\ IInv' /\ [Next]_vars => [Service!Next]_(Service!vars)
<1> SUFFICES ASSUME IInv, IInv', [Next]_vars
             PROVE  [Service!Next]_(Service!vars)
  OBVIOUS
<1>1. Served = ServedSeed
  BY ServedIsServedSeed
<1>2. (IInv => Served = ServedSeed)'
  BY ServedIsServedSeed, PTL
<1>3. Served' = ServedSeed'
  BY <1>2
<1>4. CASE Enqueue
  <2>1. CASE Repeats(asked)
    <3>1. state = "PENDING" /\ UNCHANGED <<state, seed>>
      BY <1>4, <2>1 DEF Enqueue, Repeats
    <3>2. QED
      BY <1>1, <1>3, <3>1 DEF ServedSeed, Service!vars
  <2>2. CASE ~Repeats(asked)
    <3>1. /\ seed' = asked /\ state' = "PENDING"
          /\ main = "Enqueue" /\ asked \in Seeds
      BY <1>4, <2>2 DEF Enqueue, IInv, TypeOK
    <3>2. state # "SHUTDOWN" /\ Served' = None
      BY <1>3, <3>1 DEF ServedSeed, IInv, ShutdownInv
    <3>3. Service!Request(asked)
      BY <3>1, <3>2 DEF Service!Request, Service!Want
    <3>4. QED
      BY <3>1, <3>3 DEF Service!Next
  <2>3. QED
    BY <2>1, <2>2
<1>5. CASE Destroy
  <2>1. state # "SHUTDOWN" /\ state' = "SHUTDOWN" /\ seed' = seed
    BY <1>5 DEF Destroy, IInv, ShutdownInv
  <2>2. Served' = None
    BY <1>3, <2>1 DEF ServedSeed
  <2>3. QED
    BY <2>1, <2>2 DEF Service!Next, Service!Close
<1>6. CASE BgPublish
  <2>1. CASE Overtaken
    BY <1>1, <1>3, <1>6, <2>1
    DEF BgPublish, ServedSeed, storageVars, Service!vars
  <2>2. CASE ~Overtaken
    <3>1. /\ state \notin {"IDLE", "SHUTDOWN"}
          /\ state' = "IDLE"
          /\ UNCHANGED <<seed, storage, allocated>>
      BY <1>6, <2>2
      DEF BgPublish, Overtaken, storageVars, IInv, BusyInv
    <3>2. Served = None
      BY <1>1, <3>1 DEF ServedSeed
    <3>3. seed # None
      BY <1>6, <2>2, <3>1, NoneAssumption
      DEF BgPublish, Overtaken, IInv, TypeOK, BusyInv, LastRequestKept
    <3>4. Served' \in {None, seed}
      BY <1>3, <3>1 DEF ServedSeed
    <3>5. QED
      BY <3>1, <3>2, <3>3, <3>4
      DEF Service!Next, Service!Serve, Service!Grant, Service!vars
  <2>3. QED
    BY <2>1, <2>2
<1>7. CASE BgCreate
  <2>1. state # "IDLE" /\ UNCHANGED <<state, seed>>
    BY <1>7 DEF BgCreate, queueVars, IInv, BusyInv, Initialising
  <2>2. QED
    BY <1>1, <1>3, <2>1 DEF ServedSeed, Service!vars
<1>8. CASE DestroyJoin
  <2>1. state = "SHUTDOWN" /\ UNCHANGED <<state, seed>>
    BY <1>8 DEF DestroyJoin, IInv, ShutdownInv
  <2>2. QED
    BY <1>1, <1>3, <2>1 DEF ServedSeed, Service!vars
<1>9. CASE \/ (\E s \in Seeds : RxInit(s)) \/ EnqueueNotify \/ DestroyNotify \/ OnReady \/ BgCheck \/ BgTake
           \/ SpuriousWake \/ BgSetSeed \/ BgCache \/ BgFill
           \/ (\E n \in Nodes : CopyDataset(n)) \/ BgJoin \/ UNCHANGED vars
  <2>1. UNCHANGED <<state, seed, storage, allocated>>
    BY <1>9
    DEF RxInit, EnqueueNotify, DestroyNotify, OnReady, BgCheck, BgTake, SpuriousWake,
        BgSetSeed, BgCache, BgFill, CopyDataset, BgJoin, queueVars, storageVars, vars
  <2>2. QED
    BY <1>1, <1>3, <2>1 DEF ServedSeed, Service!vars
<1>10. QED
  BY <1>4, <1>5, <1>6, <1>7, <1>8, <1>9 DEF Next, Background, Terminated

(* The queue implements the dataset service: only the seed asked for last  *)
(* is ever served, and a new request withdraws what was served before.     *)
THEOREM QueueImplementsService == Spec => ImplementsService
<1>1. Init => Service!Init
  BY DEF Init, InitialState, Service!Init, Served, HasDataset, IsReady
<1>2. QED
  BY <1>1, Inductive, NextImplements, PTL DEF Spec, ImplementsService, Service!Spec
=============================================================================
