------------------------------- MODULE Miner --------------------------------
(***************************************************************************)
(* The miner: core/Miner.cpp on the event loop, the CPU backend it starts  *)
(* and stops (backend/cpu/CpuBackend.cpp, backend/common/Workers.cpp), the *)
(* worker threads (backend/cpu/CpuWorker.cpp) and the two atomics of       *)
(* crypto/common/Nonce.cpp they communicate through.  The dataset queue    *)
(* appears as DatasetService, the specification RxQueue implements.        *)
(*                                                                         *)
(* Handlers of the event loop never overlap, but the workers run between   *)
(* any two of their writes.  A handler is therefore an action that decides *)
(* what to do, from variables only the event loop writes, and leaves the   *)
(* writes to shared state in todo; each of those is an action of its own.  *)
(*                                                                         *)
(* Which nonces a round hashes is NonceRanges' subject: here a round       *)
(* succeeds, or finds the nonces of its job exhausted.                     *)
(***************************************************************************)
EXTENDS Naturals, Sequences, FiniteSets

CONSTANTS Workers,     \* the threads of the CPU backend
          Jobs,        \* the jobs pools send
          AlgoOf,      \* the algorithm of each job
          SeedOf,      \* the RandomX seed of each job, None for other algorithms
          L3Of,        \* the scratchpad size of each algorithm
          Seeds, None,
          Configs,     \* configurations, a record each: see TypeOK
          FirstConfig, \* the one the miner starts with
          Inputs,      \* which of InputNames the environment gives
          Exhaustible  \* a job may run out of nonces

InputNames == {"pool lost", "user", "rpc stop", "config", "power"}

ASSUME ConfigAssumption == FirstConfig \in Configs /\ Inputs \subseteq InputNames

ASSUME JobAssumption ==
  /\ IsFiniteSet(Workers)
  /\ \A j \in Jobs : SeedOf[j] \in Seeds \cup {None}
  /\ \A c \in Configs, j \in Jobs : <<c.profile, L3Of[AlgoOf[j]]>> # None

VARIABLES
  job,        \* MinerPrivate::job
  active,     \* MinerPrivate::active: some pool gives jobs
  enabled,    \* MinerPrivate::enabled: not paused by the user
  battery,    \* MinerPrivate::battery_power
  userActive, \* MinerPrivate::user_active
  autoPause,  \* MinerPrivate::auto_pause
  ticking,    \* MinerPrivate::ticks # 0: the timer runs
  config,     \* Controller::config()
  launched,   \* CpuBackendPrivate::threads: what the workers were started for
  todo,       \* the writes the running handler has still to do
  paused,     \* Nonce::m_paused
  sequence,   \* Nonce::m_sequence[CPU]
  wanted,     \* the dataset service
  served,
  notified,   \* a "dataset ready" callback is on its way to the event loop
  pc,         \* where each worker is
  return,     \* where its consumeJob() call returns to
  copy,       \* consumeJob's local job
  mjob,       \* m_job.currentJob()
  mseq,       \* m_job.sequence()
  vm          \* m_vm # nullptr

userVars    == <<active, enabled, battery, userActive, autoPause, ticking, config>>
datasetVars == <<wanted, served, notified>>
workerVars  == <<pc, return, copy, mjob, mseq, vm>>
vars == <<job, userVars, launched, todo, paused, sequence, datasetVars, workerVars>>

Dataset == INSTANCE DatasetService WITH open <- TRUE

WorkerPCs == {"None", "Outer", "Paused?", "Asleep", "Awake", "Consume", "Copy",
              "Add", "SaveLast", "Dataset", "NoDataset", "Inner", "Hash",
              "LastRange", "Exited"}
Writes    == {"Pause", "Unpause", "Zero", "Touch", "Join", "Launch", "Install"}

TypeOK ==
  /\ job \in Jobs \cup {None}
  /\ {active, enabled, battery, userActive, ticking, paused, notified} \subseteq BOOLEAN
  /\ autoPause \in 0..2
  /\ config \in Configs
  /\ \A i \in DOMAIN todo : todo[i].write \in Writes
  /\ sequence \in Nat
  /\ wanted \in Seeds \cup {None} /\ served \in Seeds \cup {None}
  /\ pc \in [Workers -> WorkerPCs]
  /\ return \in [Workers -> {"Inner", "Outer"}]
  /\ copy \in [Workers -> Jobs \cup {None}]
  /\ mjob \in [Workers -> Jobs \cup {None}]
  /\ mseq \in [Workers -> Nat]
  /\ vm \in [Workers -> BOOLEAN]

Init ==
  /\ job = None
  /\ active = FALSE /\ enabled = TRUE
  /\ battery = FALSE /\ userActive = FALSE /\ autoPause = 0
  /\ ticking = FALSE
  /\ config = FirstConfig
  /\ launched = None
  /\ todo = << >>
  /\ paused = TRUE
  /\ sequence = 1
  /\ wanted = None /\ served = None /\ notified = FALSE
  /\ pc = [w \in Workers |-> "None"]
  /\ return = [w \in Workers |-> "Outer"]
  /\ copy = [w \in Workers |-> None]
  /\ mjob = [w \in Workers |-> None]
  /\ mseq = [w \in Workers |-> 0]
  /\ vm = [w \in Workers |-> FALSE]

-----------------------------------------------------------------------------
(* The writes of a handler, in the order of the code.                      *)
Write(name)         == <<[write |-> name, arg |-> None]>>
WriteOf(name, x)    == <<[write |-> name, arg |-> x]>>

IsRandomX(j) == SeedOf[j] # None

(* Rx::isReady(job): the seed of the job is the one the queue serves.      *)
RxReady(j) == j # None /\ IsRandomX(j) /\ served = SeedOf[j]

(* What CpuConfig::get() gives for an algorithm: None is no threads.  Of   *)
(* the algorithm only the scratchpad size makes two sets of threads differ *)
(* (CpuLaunchData::isEqual).                                               *)
L3(j) == L3Of[AlgoOf[j]]
Threads(c, j) == IF j # None /\ c.cpu THEN <<c.profile, L3(j)>> ELSE None

(* CpuBackend::stop() and Workers::stop(): nothing without threads.        *)
StopBackend == IF launched = None THEN << >>
               ELSE Write("Zero") \o Write("Join") \o Write("Touch")

(* Miner::stop(): Nonce::stop() unpauses before it zeroes the sequences.   *)
StopMiner == Write("Unpause") \o Write("Zero") \o StopBackend

(* CpuBackend::setJob(): threads that fit are kept.                        *)
KeepsThreads(c, j) == launched # None /\ launched = Threads(c, j)

StartsUntouched(c, j) ==
  IF Threads(c, j) = None THEN StopBackend
  ELSE IF KeepsThreads(c, j) THEN << >>
  ELSE StopBackend \o WriteOf("Launch", Threads(c, j))

SetBackendJob(c, j) ==
  IF Threads(c, j) = None THEN StopBackend
  ELSE IF KeepsThreads(c, j) THEN << >>
  ELSE StopBackend \o Write("Touch") \o WriteOf("Launch", Threads(c, j))

(* handleJobChange().                                                      *)
ResumesAlways(j, isActive) ==
  (IF enabled THEN << >> ELSE Write("Pause"))
    \o SetBackendJob(config, j) \o Write("Touch") \o Write("Unpause")

ResumesIfActiveBefore(j, isActive) ==
  (IF enabled THEN << >> ELSE Write("Pause"))
    \o SetBackendJob(config, j)
    \o Write("Touch")
    \o (IF active /\ enabled THEN Write("Unpause") ELSE << >>)

JobChange(j, isActive) ==
  (IF enabled THEN << >> ELSE Write("Pause"))
    \o SetBackendJob(config, j)
    \o Write("Touch")
    \o (IF isActive /\ enabled THEN Write("Unpause") ELSE << >>)

(* A handler starts: the event loop runs nothing else.                     *)
Idle == todo = << >>

-----------------------------------------------------------------------------
(* Miner::setJob(): the workers are stopped before a dataset they may be   *)
(* reading is initialised again; the rest, under the mutex, is Install.    *)
(* Between isReady() and enqueue() in Rx::init the queue may still publish *)
(* what was asked for before; the request withdraws it at once, and only   *)
(* its notification stays.                                                 *)
StopsForNoDataset(j) == FALSE
StopForDataset(j) == IsRandomX(j) /\ ~RxReady(j)

SetJob(j) ==
  /\ Idle
  /\ todo' = (IF StopForDataset(j) THEN StopMiner ELSE << >>)
               \o WriteOf("Install", j)
  /\ UNCHANGED <<job, userVars, launched, paused, sequence, datasetVars, workerVars>>

Install(j) ==
  /\ job' = j
  /\ active' = TRUE
  /\ \/ /\ IsRandomX(j) /\ ~RxReady(j)
        /\ Dataset!Want(SeedOf[j])
        /\ \/ UNCHANGED notified
           \/ wanted # None /\ served = None /\ notified' = TRUE
        /\ todo' = Tail(todo)
        /\ UNCHANGED ticking
     \/ /\ ~IsRandomX(j) \/ RxReady(j)
        /\ todo' = Tail(todo) \o JobChange(j, TRUE)
        /\ ticking' = TRUE
        /\ UNCHANGED datasetVars
  /\ UNCHANGED <<enabled, battery, userActive, autoPause, config, launched,
                 paused, sequence, workerVars>>

(* The background thread finishes the dataset and sends its async.         *)
DatasetBuilt ==
  /\ Dataset!Grant
  /\ notified' = TRUE
  /\ UNCHANGED <<job, userVars, launched, todo, paused, sequence, workerVars>>

(* RxQueue::onReady() and Miner::onDatasetReady().                         *)
OnDatasetReady ==
  /\ Idle
  /\ notified
  /\ notified' = FALSE
  /\ IF RxReady(job) THEN todo' = JobChange(job, active) /\ ticking' = TRUE
                     ELSE UNCHANGED <<todo, ticking>>
  /\ UNCHANGED <<job, active, enabled, battery, userActive, autoPause, config,
                 launched, paused, sequence, wanted, served, workerVars>>

(* Miner::pause(): no pool is left.                                        *)
PoolLost ==
  /\ "pool lost" \in Inputs
  /\ Idle
  /\ active' = FALSE
  /\ todo' = Write("Pause") \o Write("Touch")
  /\ UNCHANGED <<job, enabled, battery, userActive, autoPause, ticking, config,
                 launched, paused, sequence, datasetVars, workerVars>>

(* Miner::setEnabled(e), with battery_power as b.  The workers are told to *)
(* stop or go on first, and then sent to look.                             *)
TouchesFirst(e) == Write("Touch") \o Write(IF e THEN "Unpause" ELSE "Pause")
TellWorkers(e) == Write(IF e THEN "Unpause" ELSE "Pause") \o Write("Touch")

RefusesNothing(e, b) == FALSE
RefusesToResume(e, b) == b /\ e
SetEnabled(e, b) ==
  IF e = enabled \/ RefusesToResume(e, b) THEN UNCHANGED <<enabled, todo>>
  ELSE /\ enabled' = e
       /\ todo' = IF active THEN TellWorkers(e) ELSE << >>

UserPause(e) ==
  /\ "user" \in Inputs
  /\ Idle
  /\ SetEnabled(e, battery)
  /\ UNCHANGED <<job, active, battery, userActive, autoPause, ticking, config,
                 launched, paused, sequence, datasetVars, workerVars>>

(* autoPause() in Miner::onTimer(), for the battery and for the user.      *)
CountedUp(c, state) == c + 1
CountedOnce(c, state) == IF state THEN 1 ELSE 0
Counted(c, state) == IF state THEN c + 1 ELSE c - 1

OnBattery(b) ==
  /\ "power" \in Inputs
  /\ Idle /\ ticking /\ config.pauseOnBattery
  /\ b # battery
  /\ battery' = b
  /\ autoPause' = Counted(autoPause, b)
  /\ SetEnabled(autoPause' = 0, b)
  /\ UNCHANGED <<job, active, userActive, ticking, config, launched, paused,
                 sequence, datasetVars, workerVars>>

OnUserActive(u) ==
  /\ "power" \in Inputs
  /\ Idle /\ ticking /\ config.pauseOnActive
  /\ u # userActive
  /\ userActive' = u
  /\ autoPause' = Counted(autoPause, u)
  /\ SetEnabled(autoPause' = 0, battery)
  /\ UNCHANGED <<job, active, battery, ticking, config, launched, paused,
                 sequence, datasetVars, workerVars>>

(* The stop method of the JSON-RPC interface.                              *)
RpcStop ==
  /\ "rpc stop" \in Inputs
  /\ Idle
  /\ todo' = StopMiner
  /\ UNCHANGED <<job, userVars, launched, paused, sequence, datasetVars, workerVars>>

(* Miner::onConfigChanged(): with new pools the backends wait for a job.   *)
ConfigChanged(c) ==
  /\ "config" \in Inputs
  /\ Idle
  /\ c # config
  /\ config' = c
  /\ \/ todo' = SetBackendJob(c, job)
     \/ UNCHANGED todo
  /\ UNCHANGED <<job, active, enabled, battery, userActive, autoPause, ticking,
                 launched, paused, sequence, datasetVars, workerVars>>

-----------------------------------------------------------------------------
(* One write of the running handler.                                       *)
DoPause(on) ==
  /\ paused' = on
  /\ todo' = Tail(todo)
  /\ UNCHANGED <<job, userVars, launched, sequence, datasetVars, workerVars>>

(* Nonce::touch(): a sequence no worker has seen.  The code counts up, in  *)
(* 64 bits; all that is ever asked is whether two sequences are equal.     *)
Touched ==
  CHOOSE n \in 1..(Cardinality(Workers) + 2) :
    n # sequence /\ \A w \in Workers : mseq[w] # n

DoSequence(s) ==
  /\ sequence' = s
  /\ todo' = Tail(todo)
  /\ UNCHANGED <<job, userVars, launched, paused, datasetVars, workerVars>>

(* Workers::stop() joins and deletes the workers, one after the other.     *)
DoJoin ==
  /\ \A w \in Workers : pc[w] = "Exited"
  /\ pc' = [w \in Workers |-> "None"]
  /\ vm' = [w \in Workers |-> FALSE]
  /\ copy' = [w \in Workers |-> None]
  /\ mjob' = [w \in Workers |-> None]
  /\ mseq' = [w \in Workers |-> 0]
  /\ return' = [w \in Workers |-> "Outer"]
  /\ launched' = None
  /\ todo' = Tail(todo)
  /\ UNCHANGED <<job, userVars, paused, sequence, datasetVars>>

(* Workers::start(): new workers, with a WorkerJob of their own.           *)
DoLaunch(threads) ==
  /\ pc' = [w \in Workers |-> "Outer"]
  /\ launched' = threads
  /\ todo' = Tail(todo)
  /\ UNCHANGED <<job, userVars, paused, sequence, datasetVars,
                 return, copy, mjob, mseq, vm>>

EventLoop ==
  /\ ~Idle
  /\ LET next == Head(todo) IN
       \/ next.write = "Pause"   /\ DoPause(TRUE)
       \/ next.write = "Unpause" /\ DoPause(FALSE)
       \/ next.write = "Zero"    /\ DoSequence(0)
       \/ next.write = "Touch"   /\ DoSequence(Touched)
       \/ next.write = "Join"    /\ DoJoin
       \/ next.write = "Launch"  /\ DoLaunch(next.arg)
       \/ next.write = "Install" /\ Install(next.arg)

-----------------------------------------------------------------------------
(* CpuWorker::start() and consumeJob(), one shared read or write a step.   *)
mainVars == <<job, userVars, launched, todo, datasetVars>>

GoTo(w, label) == pc' = [pc EXCEPT ![w] = label]

(* The step only reads shared state and moves on.                          *)
Moves(w, label) ==
  /\ GoTo(w, label)
  /\ UNCHANGED <<mainVars, paused, sequence, return, copy, mjob, mseq, vm>>

Calls(w, back) ==
  /\ GoTo(w, "Consume")
  /\ return' = [return EXCEPT ![w] = back]
  /\ UNCHANGED <<mainVars, paused, sequence, copy, mjob, mseq, vm>>

Outer(w) == pc[w] = "Outer" /\ Moves(w, IF sequence > 0 THEN "Paused?" ELSE "Exited")

IsPaused(w) == pc[w] = "Paused?" /\ Moves(w, IF paused THEN "Asleep" ELSE "Inner")

(* The 200 ms loop ends when mining resumes or the miner stops.            *)
Sleep(w) == pc[w] = "Asleep" /\ (~paused \/ sequence = 0) /\ Moves(w, "Awake")

Wake(w) ==
  /\ pc[w] = "Awake"
  /\ IF sequence = 0 THEN Moves(w, "Exited") ELSE Calls(w, "Inner")

Consume(w) ==
  pc[w] = "Consume" /\ Moves(w, IF sequence = 0 THEN return[w] ELSE "Copy")

(* Miner::job(), a copy under the mutex.                                   *)
CopyJob(w) ==
  /\ pc[w] = "Copy"
  /\ copy' = [copy EXCEPT ![w] = job]
  /\ GoTo(w, "Add")
  /\ UNCHANGED <<mainVars, paused, sequence, return, mjob, mseq, vm>>

(* WorkerJob::add(): the sequence is read after the job was copied.  A job *)
(* the worker has not is saved, which draws its first range: when that is  *)
(* the last one too, Nonce::next() pauses the miner.                       *)
AfterAdd(w, j) == IF IsRandomX(j) THEN "Dataset" ELSE return[w]

AddJob(w) ==
  /\ pc[w] = "Add"
  /\ mseq' = [mseq EXCEPT ![w] = sequence]
  /\ mjob' = [mjob EXCEPT ![w] = copy[w]]
  /\ \/ GoTo(w, AfterAdd(w, copy[w]))
     \/ Exhaustible /\ mjob[w] # copy[w] /\ GoTo(w, "SaveLast")
  /\ UNCHANGED <<mainVars, paused, sequence, return, copy, vm>>

SaveLast(w) ==
  /\ pc[w] = "SaveLast"
  /\ paused' = TRUE
  /\ GoTo(w, AfterAdd(w, mjob[w]))
  /\ UNCHANGED <<mainVars, sequence, return, copy, mjob, mseq, vm>>

(* allocateRandomX_VM(): ask for the dataset until there is one ...        *)
AskDataset(w) ==
  /\ pc[w] = "Dataset"
  /\ \/ /\ RxReady(mjob[w])
        /\ vm' = [vm EXCEPT ![w] = TRUE]
        /\ GoTo(w, return[w])
        /\ UNCHANGED <<mainVars, paused, sequence, return, copy, mjob, mseq>>
     \/ ~RxReady(mjob[w]) /\ Moves(w, "NoDataset")

(* ... or the miner stops.                                                 *)
AwaitDataset(w) ==
  pc[w] = "NoDataset" /\ Moves(w, IF sequence = 0 THEN return[w] ELSE "Dataset")

(* The mining loop: isOutdated(), then no job or one for another           *)
(* scratchpad size than the worker's.                                      *)
Outdated(w) == sequence # mseq[w]
Fits(w) == mjob[w] # None /\ L3(mjob[w]) = launched[2]

Inner(w) ==
  /\ pc[w] = "Inner"
  /\ IF Outdated(w) \/ ~Fits(w) THEN Calls(w, "Outer") ELSE Moves(w, "Hash")

(* A hash, and nextRound(): the nonces of the job are enough, or the last  *)
(* range of them was drawn just now, or none was left to draw.             *)
Hash(w) ==
  /\ pc[w] = "Hash"
  /\ \/ Moves(w, "Inner")
     \/ Exhaustible /\ Moves(w, "LastRange")
     \/ Exhaustible /\ Calls(w, "Outer")

(* Nonce::next() pauses the miner when it gives out the last range.        *)
LastRange(w) ==
  /\ pc[w] = "LastRange"
  /\ paused' = TRUE
  /\ \/ GoTo(w, "Inner") /\ UNCHANGED return
     \/ GoTo(w, "Consume") /\ return' = [return EXCEPT ![w] = "Outer"]
  /\ UNCHANGED <<mainVars, sequence, copy, mjob, mseq, vm>>

Worker(w) ==
  \/ Outer(w) \/ IsPaused(w) \/ Sleep(w) \/ Wake(w)
  \/ Consume(w) \/ CopyJob(w) \/ AddJob(w) \/ SaveLast(w)
  \/ AskDataset(w) \/ AwaitDataset(w)
  \/ Inner(w) \/ Hash(w) \/ LastRange(w)

-----------------------------------------------------------------------------
Next ==
  \/ \E j \in Jobs : SetJob(j)
  \/ DatasetBuilt \/ OnDatasetReady
  \/ PoolLost \/ RpcStop
  \/ \E e \in BOOLEAN : UserPause(e) \/ OnBattery(e) \/ OnUserActive(e)
  \/ \E c \in Configs : ConfigChanged(c)
  \/ EventLoop
  \/ \E w \in Workers : Worker(w)

(* Every thread is scheduled, the event loop runs its callbacks, and the   *)
(* memory for a dataset can be had; nothing obliges a pool or a user.      *)
Fairness ==
  /\ WF_vars(EventLoop)
  /\ WF_vars(OnDatasetReady)
  /\ WF_vars(DatasetBuilt)
  /\ \A w \in Workers : WF_vars(Worker(w))

Spec == Init /\ [][Next]_vars

FairSpec == Spec /\ Fairness
-----------------------------------------------------------------------------
(* A worker that hashes a RandomX job does it with a VM, on the dataset of *)
(* the seed of the job: never on one being rebuilt for another, although   *)
(* hashing takes no lock and initRX() may start the rebuilding at any      *)
(* time.  setJob() stops the workers first, and allocateRandomX_VM returns *)
(* without a VM only to a worker that stops.  The exception is a worker    *)
(* that took its job at sequence 0, see SwitchDoesNotFreeze.               *)
Hashes(w) == pc[w] \in {"Hash", "LastRange"} /\ IsRandomX(mjob[w])

HashesOnItsDataset ==
  \A w \in Workers : Hashes(w) /\ mseq[w] # 0 => vm[w] /\ RxReady(mjob[w])

(* Between two handlers the shared flag agrees with what the miner knows:  *)
(* with a pool and unless paused by the user the workers are not held.     *)
RunsWhenWanted == Idle /\ active /\ enabled => ~paused

(* A miner paused by the user, or without a pool, has its workers out of   *)
(* the mining loop, on whichever way they come: once the handler that      *)
(* pauses it is done no worker mines a job it takes for up to date, and a  *)
(* worker in the pause wait does not leave it, not when a dataset gets     *)
(* ready, not when a job comes in.  The exception is a worker that had     *)
(* been woken before: start() does not look at isPaused() again after its  *)
(* consumeJob(), and if that reads the sequence after the touch the worker *)
(* mines on until the next one.                                            *)
Held         == Idle /\ ~(active /\ enabled)
Mines(w)     == pc[w] \in {"Inner", "Hash", "LastRange"} /\ ~Outdated(w)
JustWoken(w) == return[w] = "Inner"

StaysPaused ==
  /\ [](\A w \in Workers : Held /\ Mines(w) => JustWoken(w))
  /\ [][\A w \in Workers :
           Held /\ pc[w] \in {"Paused?", "Asleep"}
             => pc'[w] \in {"Paused?", "Asleep"}]_vars

(* On battery the miner is paused, whatever the user, the other reason to  *)
(* pause, and the pools do meanwhile.                                      *)
PausedOnBattery == battery => ~enabled

(* An automatic resume waits for both reasons: leaving the battery does    *)
(* not start the miner while the user is active, nor the other way round.  *)
AutomaticResumeWaits ==
  [][enabled' /\ ~enabled /\ <<battery, userActive>>' # <<battery, userActive>>
       => ~battery' /\ ~userActive']_vars

(* Left alone with a pool, not paused and with threads, the miner mines:   *)
(* every worker keeps hashing, through dataset changes, pauses and lost    *)
(* pools that came before.                                                 *)
MinesWhenLeftAlone ==
  <>[](Idle /\ active /\ enabled /\ launched # None
         /\ (IsRandomX(job) => RxReady(job)))
    => \A w \in Workers : []<>(pc[w] = "Hash")

(* doc/CHANGELOG_OLD.md: "Fixed miner freeze when switch between RandomX   *)
(* variants".  The switch stops the workers and waits until they are gone: *)
(* a handler of the event loop always comes to its end.                    *)
SwitchDoesNotFreeze == ~Idle ~> Idle
=============================================================================
