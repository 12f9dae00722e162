------------------------------ MODULE RxQueue -------------------------------
(***************************************************************************)
(* The queue that initialises RandomX datasets in the background:          *)
(* crypto/rx/RxQueue.cpp with the storage it drives, for one dataset       *)
(* (crypto/rx/RxBasicStorage.cpp) or one on each NUMA node                 *)
(* (RxNUMAStorage.cpp), RxDataset.cpp, RxCache.cpp, and the entry points   *)
(* of crypto/rx/Rx.cpp.                                                    *)
(*                                                                         *)
(* Two threads meet here.  The main thread (the event loop) asks for seeds *)
(* and destroys the queue; the background thread takes the last request,   *)
(* initialises the storage WITHOUT the mutex, and publishes the result.    *)
(* A region the code runs under m_mutex is one action; the initialisation, *)
(* which holds no lock, is one action per write other threads can see.     *)
(*                                                                         *)
(* A dataset without memory ("slow mode") counts as one that is computed   *)
(* when it is used.  One-gigabyte pages, whose datasets have a cache each, *)
(* are left out.                                                           *)
(***************************************************************************)
EXTENDS Sequences, Naturals

CONSTANTS Seeds,    \* RxSeed values: algorithm and seed hash
          DataOf,   \* the seed hash of each seed, all that RxCache compares
          None,     \* no seed: a default-constructed RxSeed, an empty cache
          Partial,  \* what a dataset under construction holds
          Absent,   \* a node without a dataset
          Nodes,    \* m_nodeset
          Front,    \* m_nodeset.front()
          MaxQueue  \* bound on the requests waiting in m_queue

ASSUME NoneAssumption ==
  /\ Seeds \cap {None, Partial, Absent} = {}
  /\ None # Partial /\ None # Absent /\ Partial # Absent

ASSUME NodesAssumption == Front \in Nodes

(* RxCache::init tells two caches apart by the seed hash alone.  Seeds of  *)
(* two algorithms with one hash would share a cache built for only one of  *)
(* them; chains do not publish each other's seed hashes.                   *)
ASSUME DataAssumption == \A s, t \in Seeds : DataOf[s] = DataOf[t] => s = t

ASSUME BoundAssumption == MaxQueue \in Nat \ {0}

VARIABLES
  main,      \* where the main thread is in Rx::init() or the destructor
  asked,     \* Rx::init's argument, once it was found not to be ready
  bg,        \* where the background thread is in backgroundInit()
  state,     \* m_state
  seed,      \* m_seed, the seed asked for last
  queue,     \* m_queue, the seeds of the items in it
  storage,   \* m_storage: None, "Basic" or "NUMA"
  async,     \* m_async has been sent and not yet handled
  item,      \* backgroundInit's local: the request being served
  allocated, \* m_storage->isAllocated(): its datasets and their cache
  stSeed,    \* the storage's m_seed
  stReady,   \* its m_ready
  cacheFor,  \* the seed the cache was last initialised for
  datasets   \* m_datasets: the seed whose items each of them holds, Partial
             \* in between; a basic storage has one, here at Front

mainVars    == <<main, asked>>
queueVars   == <<state, seed, queue, storage>>
storageVars == <<allocated, stSeed, stReady, cacheFor, datasets>>
vars == <<main, asked, bg, state, seed, queue, storage, async, item,
          allocated, stSeed, stReady, cacheFor, datasets>>

MainPCs == {"Idle", "Enqueue", "Notify", "DtorNotify", "Join", "Done"}
BgPCs   == {"Check", "Lock", "Blocked", "Woken", "SetSeed", "Create",
            "Cache", "Fill", "Copy", "Publish", "Exited"}

(* The points at which the background thread is inside m_storage->init().  *)
Initialising == bg \in {"SetSeed", "Create", "Cache", "Fill", "Copy"}

TypeOK ==
  /\ main \in MainPCs
  /\ asked \in Seeds \cup {None}
  /\ main = "Enqueue" => asked \in Seeds
  /\ bg \in BgPCs
  /\ state \in {"IDLE", "PENDING", "SHUTDOWN"}
  /\ seed \in Seeds \cup {None}
  /\ queue \in Seq(Seeds)
  /\ storage \in {None, "Basic", "NUMA"}
  /\ async \in BOOLEAN
  /\ item \in Seeds \cup {None}
  /\ allocated \in BOOLEAN
  /\ stSeed \in Seeds \cup {None}
  /\ stReady \in BOOLEAN
  /\ cacheFor \in Seeds \cup {None}
  /\ datasets \in [Nodes -> Seeds \cup {None, Partial, Absent}]

(* m_state's initialiser.                                                  *)
InitialState == "IDLE"

Init ==
  /\ main = "Idle"
  /\ asked = None
  /\ bg = "Check"
  /\ state = InitialState
  /\ seed = None
  /\ queue = << >>
  /\ storage = None
  /\ async = FALSE
  /\ item = None
  /\ allocated = FALSE
  /\ stSeed = None
  /\ stReady = FALSE
  /\ cacheFor = None
  /\ datasets = [n \in Nodes |-> Absent]

-----------------------------------------------------------------------------
(* isReadyUnsafe: what isReady() answers for a seed or a job.              *)
IsReadyInAnyState(s) == storage # None /\ allocated /\ seed = s
IsReady(s) == storage # None /\ allocated /\ state = "IDLE" /\ seed = s

(* dataset(): the pointer a worker gets for its job is not null.           *)
HasDataset(s) == IsReady(s) /\ stReady /\ stSeed = s

(* Whose dataset it is: that of the worker's node, or the first one's.     *)
DatasetOf(n) == IF datasets[n] = Absent THEN Front ELSE n

(* Rx::init(): isReady() takes the mutex once, enqueue() takes it again,   *)
(* and the background thread may publish in between.  Nothing happens to a *)
(* seed that is ready.                                                     *)
(* Bound: a request that would make the queue longer is not begun.         *)
Repeats(s) == state = "PENDING" /\ seed = s

RxInit(s) ==
  /\ main = "Idle"
  /\ ~IsReady(s)
  /\ Len(queue) < MaxQueue \/ Repeats(s)
  /\ main' = "Enqueue"
  /\ asked' = s
  /\ UNCHANGED <<bg, async, item>> /\ UNCHANGED queueVars /\ UNCHANGED storageVars

(* enqueue(): the same seed asked for again while it is pending is dropped *)
(* and any other request is queued, one for the seed that was published    *)
(* since too.  The first brings the storage, of the configuration's kind.  *)
Enqueue ==
  /\ main = "Enqueue"
  /\ storage' \in IF storage = None THEN {"Basic", "NUMA"} ELSE {storage}
  /\ \/ /\ Repeats(asked)
        /\ main' = "Idle"
        /\ UNCHANGED <<state, seed, queue>>
     \/ /\ ~Repeats(asked)
        /\ queue' = Append(queue, asked)
        /\ seed' = asked
        /\ state' = "PENDING"
        /\ main' = "Notify"
  /\ asked' = None
  /\ UNCHANGED <<bg, async, item>> /\ UNCHANGED storageVars

(* m_cv.notify_one(), after the unlock: wakes the thread if it is blocked. *)
WakeNobody == bg' = bg
WakeBackground == bg' = IF bg = "Blocked" THEN "Woken" ELSE bg

EnqueueNotify ==
  /\ main = "Notify"
  /\ main' = "Idle"
  /\ WakeBackground
  /\ UNCHANGED <<asked, async, item>> /\ UNCHANGED queueVars /\ UNCHANGED storageVars

(* ~RxQueue: the state under the mutex, the notification, then the join.   *)
Destroy ==
  /\ main = "Idle"
  /\ state' = "SHUTDOWN"
  /\ main' = "DtorNotify"
  /\ UNCHANGED <<asked, bg, seed, queue, storage, async, item>>
  /\ UNCHANGED storageVars

DestroyNotify ==
  /\ main = "DtorNotify"
  /\ main' = "Join"
  /\ WakeBackground
  /\ UNCHANGED <<asked, async, item>> /\ UNCHANGED queueVars /\ UNCHANGED storageVars

DestroyJoin ==
  /\ main = "Join"
  /\ bg = "Exited"
  /\ main' = "Done"
  /\ storage' = None
  /\ allocated' = FALSE
  /\ UNCHANGED <<asked, bg, state, seed, queue, async, item,
                 stSeed, stReady, cacheFor, datasets>>

(* onReady(), on the event loop: the listener hears of it when no request  *)
(* came in since.                                                          *)
Announces == async /\ state = "IDLE"

OnReady ==
  /\ main = "Idle"
  /\ async
  /\ async' = FALSE
  /\ UNCHANGED <<mainVars, bg, item>> /\ UNCHANGED queueVars /\ UNCHANGED storageVars

-----------------------------------------------------------------------------
(* backgroundInit's loop condition, read without the mutex.                *)
BgCheck ==
  /\ bg = "Check"
  /\ bg' = IF state = "SHUTDOWN" THEN "Exited" ELSE "Lock"
  /\ UNCHANGED <<mainVars, async, item>> /\ UNCHANGED queueVars /\ UNCHANGED storageVars

(* The request taken, and what is left behind: back(), then clear().       *)
OldestRequest == queue[1]
NewestRequest == queue[Len(queue)]
QueueKept == queue
QueueCleared == << >>

(* Under the mutex, on entry and after each wake-up: sleep while idle, go  *)
(* round again on shutdown, else take the last request and drop the rest.  *)
BgTake ==
  /\ bg \in {"Lock", "Woken"}
  /\ \/ /\ state = "IDLE"
        /\ bg' = "Blocked"
        /\ UNCHANGED <<queue, item>>
     \/ /\ state = "SHUTDOWN"
        /\ bg' = "Check"
        /\ UNCHANGED <<queue, item>>
     \/ /\ state = "PENDING"
        /\ item' = NewestRequest
        /\ queue' = QueueCleared
        /\ bg' = "SetSeed"
  /\ UNCHANGED <<mainVars, state, seed, storage, async>> /\ UNCHANGED storageVars

(* A wake-up the condition variable may give without a notification.       *)
SpuriousWake ==
  /\ bg = "Blocked"
  /\ bg' = "Woken"
  /\ UNCHANGED <<mainVars, async, item>> /\ UNCHANGED queueVars /\ UNCHANGED storageVars

(* setSeed().                                                              *)
BgSetSeed ==
  /\ bg = "SetSeed"
  /\ stReady' = FALSE
  /\ stSeed' = item
  /\ bg' = IF allocated THEN "Cache" ELSE "Create"
  /\ UNCHANGED <<mainVars, async, item, allocated, cacheFor, datasets>>
  /\ UNCHANGED queueVars

(* createDataset() of a basic storage, createDatasets() of the other: the  *)
(* nodes where memory was found join those of an earlier attempt.  Without *)
(* memory for the cache all of it fails, but m_datasets stays.  Where no   *)
(* node has a dataset, the first gets one without memory.                  *)
(* Bound: the first node has one if any has.  Otherwise m_datasets.at()    *)
(* throws in this thread, and ends the program.                            *)
Owners(found) == {n \in Nodes : datasets[n] # Absent} \cup found

HeldBy(owners) == [n \in Nodes |-> IF n \in owners THEN None ELSE Absent]

BgCreate ==
  /\ bg = "Create"
  /\ \E found \in IF storage = "NUMA" THEN SUBSET Nodes ELSE {{}} :
       LET owners == Owners(found) IN
       /\ owners = {} \/ Front \in owners
       /\ \/ /\ allocated' = TRUE
             /\ cacheFor' = None
             /\ datasets' = HeldBy(owners \cup {Front})
             /\ bg' = "Cache"
          \/ /\ datasets' = HeldBy(owners)
             /\ bg' = "Publish"
             /\ UNCHANGED <<allocated, cacheFor>>
  /\ UNCHANGED <<mainVars, async, item, stSeed, stReady>> /\ UNCHANGED queueVars

(* RxCache::init(): keeps a cache whose seed hash is the requested one.    *)
CacheIsFor(s) == cacheFor # None /\ DataOf[cacheFor] = DataOf[s]

BgCache ==
  /\ bg = "Cache"
  /\ cacheFor' = IF CacheIsFor(item) THEN cacheFor ELSE item
  /\ datasets' = [datasets EXCEPT ![Front] = Partial]
  /\ bg' = "Fill"
  /\ UNCHANGED <<mainVars, async, item, allocated, stSeed, stReady>>
  /\ UNCHANGED queueVars

(* The threads that fill the first dataset are joined: every item has been *)
(* computed from the cache.  Those that copy it to the other nodes start.  *)
Copies == {n \in Nodes \ {Front} : datasets[n] # Absent}

BgFill ==
  /\ bg = "Fill"
  /\ datasets' = [n \in Nodes |-> IF n = Front THEN cacheFor
                                  ELSE IF n \in Copies THEN Partial ELSE datasets[n]]
  /\ bg' = "Copy"
  /\ UNCHANGED <<mainVars, async, item, allocated, stSeed, stReady, cacheFor>>
  /\ UNCHANGED queueVars

(* copyDataset(), in a thread of its own for each node.                    *)
CopyDataset(n) ==
  /\ bg = "Copy"
  /\ n # Front /\ datasets[n] = Partial
  /\ datasets' = [datasets EXCEPT ![n] = datasets[Front]]
  /\ UNCHANGED <<mainVars, bg, async, item, allocated, stSeed, stReady, cacheFor>>
  /\ UNCHANGED queueVars

(* They are joined, and the storage is ready.                              *)
JoinsNobody == TRUE
Joined == \A n \in Nodes : datasets[n] # Partial

BgJoin ==
  /\ bg = "Copy"
  /\ Joined
  /\ stReady' = TRUE
  /\ bg' = "Publish"
  /\ UNCHANGED <<mainVars, async, item, allocated, stSeed, cacheFor, datasets>>
  /\ UNCHANGED queueVars

(* Back under the mutex: a request that came in meanwhile, or a shutdown,  *)
(* sends the thread round again; otherwise the queue is idle and says so.  *)
OvertakenByShutdown == state = "SHUTDOWN"
OvertakenByRequest == queue # << >>
Overtaken == state = "SHUTDOWN" \/ queue # << >>

BgPublish ==
  /\ bg = "Publish"
  /\ bg' = "Check"
  /\ \/ /\ Overtaken
        /\ UNCHANGED <<state, async>>
     \/ /\ ~Overtaken
        /\ state' = "IDLE"
        /\ async' = TRUE
  /\ UNCHANGED <<mainVars, seed, queue, storage, item>> /\ UNCHANGED storageVars

-----------------------------------------------------------------------------
Background ==
  \/ BgCheck \/ BgTake \/ BgSetSeed \/ BgCreate \/ BgCache \/ BgFill
  \/ \E n \in Nodes : CopyDataset(n)
  \/ BgJoin \/ BgPublish

(* After the destructor nothing runs any more.                             *)
Terminated == main = "Done" /\ UNCHANGED vars

Next ==
  \/ \E s \in Seeds : RxInit(s)
  \/ Enqueue \/ EnqueueNotify
  \/ Destroy \/ DestroyNotify \/ DestroyJoin
  \/ OnReady
  \/ Background
  \/ SpuriousWake
  \/ Terminated

(* The background thread is scheduled; the main thread finishes the calls  *)
(* it began and its event loop handles a pending async.  Nothing obliges   *)
(* it to ask for a seed or to shut down.                                   *)
Fairness ==
  /\ WF_vars(Background)
  /\ WF_vars(Enqueue) /\ WF_vars(EnqueueNotify)
  /\ WF_vars(DestroyNotify) /\ WF_vars(DestroyJoin)
  /\ WF_vars(OnReady)

Spec == Init /\ [][Next]_vars

FairSpec == Spec /\ Fairness
-----------------------------------------------------------------------------
(* A dataset handed to a worker was built for the worker's seed, complete, *)
(* whichever node the worker runs on.  The pointer is handed out under the *)
(* mutex while the threads that write the datasets hold none: m_state is   *)
(* all that keeps them apart.                                              *)
GrantedIsBuilt ==
  \A s \in Seeds, n \in Nodes : HasDataset(s) => datasets[DatasetOf(n)] = s

(* isReady() asks the queue and dataset() asks the storage as well.  When  *)
(* isReady() says yes the miner starts its workers, and they spin in       *)
(* allocateRandomX_VM until dataset() agrees: the two must not differ.     *)
ReadyMeansGranted == \A s \in Seeds : IsReady(s) => HasDataset(s)

(* No request is lost between the two threads: while one is pending, the   *)
(* seed asked for last is the newest in the queue, or the one being served *)
(* with nothing queued behind it.  backgroundInit takes back() and clears  *)
(* the queue, enqueue() drops a request it takes for a repetition.         *)
LastRequestKept ==
  state = "PENDING" =>
    \/ queue # << >> /\ queue[Len(queue)] = seed
    \/ queue = << >> /\ item = seed /\ (Initialising \/ bg = "Publish")

(* While idle, the storage was last set up for the seed the queue reports, *)
(* and the background thread is not touching it.                           *)
IdleIsQuiet ==
  state = "IDLE" =>
    /\ queue = << >>
    /\ ~Initialising /\ bg # "Publish"
    /\ stSeed = seed

(* Every request is answered: the listener is called while that seed is    *)
(* the current one, unless another seed or a shutdown overtakes it.        *)
RequestAnswered ==
  \A s \in Seeds :
    (state = "PENDING" /\ seed = s) ~>
      ((Announces /\ seed = s) \/ seed # s \/ state = "SHUTDOWN")

(* Once the main thread asks for nothing more, the queue comes to rest,    *)
(* with the notification delivered.                                        *)
SettlesWhenLeftAlone ==
  <>[](main = "Idle") => <>[](state = "IDLE" /\ ~async)

(* The destructor's join returns: a shutdown is never overwritten by the   *)
(* thread it is meant for, and never slept through.                        *)
DestructorReturns == state = "SHUTDOWN" ~> main = "Done"

(* The queue implements the service: a seed is withdrawn the moment        *)
(* another is asked for, and only the seed asked for last is ever served.  *)
Served == IF \E s \in Seeds : HasDataset(s) THEN datasets[Front] ELSE None

Service == INSTANCE DatasetService
             WITH wanted <- seed, served <- Served, open <- state # "SHUTDOWN"

ImplementsService == Service!Spec
=============================================================================
