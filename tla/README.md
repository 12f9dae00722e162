# Specifications of randx_fpga

randx_fpga is a RandomX miner in two halves. The first is a design for an FPGA,
in VHDL: the beginnings of a RandomX processor (`src/`) with its test benches
(`tests/`). The second is a copy of the XMRig miner (`xmrig_copied_src/`), C++,
whose event loop talks to pools, prepares the RandomX dataset and drives the
worker threads; it is also the oracle of the first half. This directory holds
TLA+ specifications of both, the configurations that check them with TLC, and
proofs checked by TLAPS.

Paths below are relative to the repository; `X:` stands for
`xmrig_copied_src/src/`.

| To check | run, in this directory |
|---|---|
| a run of the table in *Runs* | `tlc -workers 2 -config <its cfg> <its module>`, as `PROJECT.json` names them |
| the proofs | `tlapm RxQueue_proof.tla` (and `Failover_proof`, `Network_proof`, `Shares_proof`, `Miner_proof`, `NonceRanges_proof`, `BytecodeMachine_proof`, `Processor_proof`) |

## 1. Inventory

### The miner (`X:`)

**Dataset queue** — `X:crypto/rx/RxQueue.cpp`, `RxBasicStorage.cpp`,
`RxNUMAStorage.cpp`, `RxDataset.cpp`, `RxCache.cpp`, `Rx.cpp`. *State:* the queue's
state (idle, pending, shut down), its last seed and its waiting items; the
storage's seed and ready flag; the cache; the dataset, or one for each NUMA node.
*Operations:* `Rx::init`, `isReady`, `dataset`, the background thread's loop, the
threads that copy datasets, the destructor. *Hard:* threads initialise datasets
for seconds without a lock while requests, questions and a shutdown arrive; any
node may have no memory, and the first one's dataset stands in. *Correct when:* whoever is given a
dataset is given a finished one, for the seed it asked for; the last request wins
and is answered; the destructor returns.

**Miner, CPU backend, workers** — `X:core/Miner.cpp`,
`X:backend/cpu/CpuBackend.cpp`, `CpuWorker.cpp`, `X:backend/common/Workers.cpp`,
`X:crypto/common/Nonce.cpp`. *State:* the job, the flags `active` (a pool gives
jobs), `enabled` (not paused by the user), battery and user activity with the
counter of automatic reasons; the running threads; each worker's job, sequence
number and VM; the two atomics `m_paused` and `m_sequence`. *Operations:* the
handlers of the event loop (job, lost pool, dataset ready, pause and resume,
timer, JSON-RPC stop, configuration change) and the workers' loops. *Hard:*
handlers do not exclude the workers, which read the two atomics and the job
between any two of a handler's writes; the event loop joins workers that wait for
something only it can give. *Correct when:* no worker hashes on a dataset that is
being rebuilt; a pause lasts and a resume works; the handlers come to an end;
left alone, the miner mines.

**Nonces and worker jobs** — `X:crypto/common/Nonce.cpp`,
`X:backend/common/WorkerJob.h`. *State:* a counter for the user's jobs and one
for the donation's; in each worker two jobs with the nonce and the round it has
come to. *Operations:* draw a range, go on to the next nonce, take up a job,
return from the donation, reset. *Hard:* the counter is reset, the job installed
and the workers told in three separate writes; the last range pauses the miner;
the mask leaves bits to a nicehash pool. *Correct when:* no nonce of a job is
tested twice or skipped, and the pool's bits are kept.

**RandomX bytecode machine** — `X:crypto/randomx/bytecode_machine.cpp/.hpp`,
`instruction.hpp`. *State:* for each register the last instruction that wrote it;
the bytecode; the register file and the program counter. *Operations:* compile an
instruction, run one. *Hard:* `CBRANCH` jumps back on a random condition, and
that every program ends rests on the table of last writers and on two bits of a
constant. *Correct when:* every program ends, after a bounded number of steps.

**Pools** — `X:base/net/stratum/Client.cpp`, `BaseClient.cpp`,
`strategies/FailoverStrategy.cpp`. *State:* of each pool's client the state of the
connection, the count of failures (-1 when the pool is not wanted), the timeout, a
lookup in progress; the active pool and the index of the next to try. *Operations:*
connect, resolve, log in, retry, close, and the strategy's reaction to a login and
to a lost connection. *Hard:* callbacks that find the client in a state its owner
has left; pools that come and go in any order; the failover order is spread over
an index, the active pool and the clients' own counts. *Correct when:* one pool at a
time has a session with the miner; some pool is always being tried; the miner returns
to the preferred one; an abandoned client stays quiet.

**Network and strategies** — `X:net/Network.cpp`,
`X:net/strategies/DonateStrategy.cpp`, `X:base/net/stratum/strategies/*`. *State:* the
user's strategy and its last job; the donation's state (idle, connecting, active,
waiting), its own strategy and a client through the user's pool; whose job the miner
has. *Operations:* logins, jobs, losses of either, the donation's timer, a change of
the pools. *Hard:* two strategies share one miner, jobs are dropped during a donation,
and a login of the donation may come late. *Correct when:* the user's job comes back
after a donation; nothing is mined for nobody; during a donation only for it.

**Results of the workers** — `X:net/JobResults.cpp`, `X:base/io/Async.cpp`, and of
`Client.cpp` the numbers of requests and the table of shares without an answer.
*State:* the list of results and its async; the client's session, sequence number and
shares in flight. *Operations:* submit, done, take the list, send, log in, ping, read
an answer, close. *Hard:* workers push while the event loop takes; connections end with
shares, answers and results under way; numbers are used by requests of three kinds.
*Correct when:* a share is counted by its own answer, goes to the session it was
found in, and is not forgotten on the way.

The rest of the miner is the GPU backends, the hash kernels, the JIT, parsing,
the HTTP API, hardware access and vendored libraries; see *Not modelled*.

### The processor (`src/`, `tests/`)

**Loop engine and the ALU's register** — `src/loop_engine/loop_engine.vhd`,
`src/alu/int_alu.vhd`. *State:* the program state, the register table with its
two drivers, the operands and the registered result. *Hard:* one process is a
latch, one reacts to both edges, one to the rising edge, and inputs change at any
time. *Correct when:* a run works on the table it was started with, and so do the
results.

**Scratchpad** — `src/scratchpad/scratchpad.vhd` with `tests/scratchpad_tb.vhd`.
*State:* the memory, its outputs, the bench's copy. *Hard:* the bench changes the
inputs at the very edge that samples them; the bench's copy runs a clock ahead.
*Correct when:* a read returns the last word written.

**ALU data paths**, **hash engine** (an empty architecture) and the Python
generators of expected values complete this half.

### How the parts interact

    pools -> clients -> strategies -> Network --setJob/pause--> Miner --init--> RxQueue
                                        ^                        |  ^              |
                                        |                 launch |  | dataset      | async
                                    JobResults <--submit-- Workers  +--------------+
                                                             |
                                                   Nonce: m_paused, m_sequence, m_nonces

Everything left of the workers runs on one event loop and never overlaps; the
workers, the dataset queue's thread and its helpers run beside it. Event loop to
workers: the job, copied under a mutex, and atomics. Queue to event loop: an
async. Miner to queue: calls under the queue's mutex.

## 2. Modules

| Module | Models | Uses |
|---|---|---|
| `DatasetService` | what the dataset queue promises, without threads | |
| `RxQueue` | the queue, its storage and all their threads | refines `DatasetService` |
| `Miner` | event loop, CPU backend, workers | `INSTANCE DatasetService` |
| `NonceRanges` | the nonces workers hash, across jobs and donations | |
| `Strategy` | what a strategy promises its listener, without clients | |
| `Failover` | the clients of several pools and the choice between them | refines `Strategy` |
| `Network` | whose jobs the miner gets: the user's pools and the donation | `INSTANCE Strategy` |
| `Shares` | what the workers find, to the pool and back | |
| `BytecodeMachine` | compiler and interpreter of RandomX programs | |
| `LoopEngine` | the loop engine and the ALU's register | |
| `Scratchpad` | the scratchpad under its test bench | |
| `RxQueue_proof`, `Failover_proof`, `Network_proof`, `Shares_proof`, `Miner_proof`, `NonceRanges_proof`, `BytecodeMachine_proof` | theorems | the module proved about |
| `Processor_proof` | theorems of both halves of the processor | `LoopEngine`, `INSTANCE Scratchpad` |
| `MC*` | constants for TLC | the module checked |

The queue and the miner are composed through the abstract specification: `Miner`
contains `DatasetService`, with its actions `Want` and `Grant`, where the code has
the queue, and `RxQueue` is shown, by TLC and by proof, to implement it. A step of
`RxQueue` that changes what can be obtained is thereby one `Miner` has considered.
In the same way `Network` contains `Strategy`, with `Connect`, `Stop`, `Login`, `Lose` and
`Fade`, where `DonateStrategy` has a `FailoverStrategy`, and `Failover` is shown to implement
it. A stopped strategy may come back by a late login, and `Network` is checked with one that does.

### From the code to the actions

**`RxQueue`.** What the code does under `m_mutex` is one action (`RxInit`, which asks
the queue, and `Enqueue`, with a publish possible between the two; `BgTake`, `BgPublish`, `Destroy`); each write the background thread makes
without it is one (`BgSetSeed`, `BgCreate`, `BgCache`, `BgFill`, `BgJoin`), and so is
the copying of a dataset in a thread of its own (`CopyDataset`), each notification,
sent after the unlock, and the loop condition, read without the mutex. `main` and `bg` are the two threads' places in the code. A condition
variable may wake without being notified. The cache may fail to be
allocated, and so may the dataset of any node. A dataset is the seed its items were computed
for, or `Partial`; a node without one is `Absent`. A basic storage is the case where no node
but the first has one. `DatasetOf(n)` is the dataset a worker on node `n` is given.

**`Miner`.** A handler is two kinds of step. The first decides what the
handler will do, from variables only the event loop writes, and changes those; the
second are the handler's writes to what the workers read (`m_paused`, `m_sequence`,
the job, the threads), put in `todo` in the order of the code and carried out one
at a time by `EventLoop`, with any worker step between. `Join` waits until all the
workers are gone, as `std::thread::join` does. `Install` is the two critical sections of
`Rx::init()` in one, but the callback of a publish between them may come. A worker takes one shared read or
write a step. The sequence number is a counter in the code; only whether two of them
are equal is ever asked, so `Touched` chooses one that no worker has.

**`NonceRanges`.** The same division, for what `Miner` abstracts: drawing ranges
from `m_nonces`, the two jobs of a `WorkerJob`, the rounds. `outdated[w]` is the
comparison of the two sequence numbers. The workers are neither stopped nor
started, for that is `Miner`'s subject. `tested` collects what was compared with the
target.

**`Failover`.** A callback of the event loop (a timer, the resolver's answer, a
connection made, failed, read or closed) is one action, with all the calls it makes: a
method of a client is an operator from record to record (`Resolving`, `Close`,
`Disconnect`, `Reconnect`), a method of the strategy (`OnClose`, `OnLoginSuccess`) one that
says what becomes of all clients. `m_expire` is whether a timeout is armed. The pools go up and
down by `PoolChanges`. A connection that is closed because of what the pool sent in it is
one that was `Lost`. `Connect` and `Stop` are the calls of the owner, and `wanted` is which
came last. The refinement reads a status off the clients: active; trying, while one
of them will report; late, while an abandoned one may still log in; or stopped.

**`Network`.** A callback is one action, with the calls from the strategy up to `Network`
and down into the miner, of which `setJob()` and `pause()` remain. A login brings a job in
the same callback. `user` is the user's strategy, `inner` and `wanted` are the
`Strategy` of the donation, `proxy` is its client through the user's pool.

**`Shares`.** Workers push in one action each (`Submits`, the mutex); the
event loop is in `OnSchedule`, `Take` and `Deliver` one after the other, with workers between,
and runs no other callback meanwhile (`LoopIsFree`). One client stands for the strategy's:
another pool is another session, and its number, that of the login, is the id the pool gives.
`requests` and `answers` are what is under way, and the pool answers in any order.
A request is written or it is not, and then closes the connection (`CannotSend`). That `send()` finds
the connection not writable and leaves it open (`Client.cpp:552`) is not met: requests are made in the
connected state, and a stream is writable until it is closed.

**`BytecodeMachine`.** Compiling appends one instruction of any kind and is
followed by one run. Instructions other than `CBRANCH` are told apart by which
integer registers they write, and write any word: the data they may have loaded is
arbitrary. `CBRANCH` is exact: the constant, the addition modulo the word, the
tested field, the target. `registerUsage` holds the code's value plus one.

**`LoopEngine`, `Scratchpad`.** A step is an edge of the clock, or a change of the
inputs between edges, and contains the delta cycles that follow: combinational
processes have settled at its end. Processes woken by one edge read the values
before it. `std_logic` is abstracted to whole words: a value, `U` (uninitialised)
and `X` (a conflict); a signal with two drivers is `Resolved`. In `Scratchpad` an
index outside `addr_int`'s range stops the simulation, as a simulator does.

## 3. Runs

| Run | States | Question |
|---|---|---|
| `rxqueue` | 37,439 | Do the threads of the queue hand out only finished datasets of the last seed, on every node, lose no request and end? |
| `miner` | 160,465 | Jobs of two seeds and of an algorithm without dataset, lost pools, pauses: does a worker ever hash on a dataset being rebuilt, does a pause hold, does the miner mine when left alone? |
| `miner_power` | 580,404 | All inputs, with battery, user activity, JSON-RPC stop, changes of configuration, exhausted jobs: do the automatic pauses interlock? |
| `nonces` | 3,648,044 | Two workers, two jobs and a donation: is any nonce tested twice or skipped, is the pool's byte kept? |
| `nonces_exhausted` | 1,457,525 | Jobs that run out of nonces or overtake the workers, pauses by the user: how can a worker take a replaced job for the current one? |
| `failover` | 172,680 | Three pools that come and go, connected and stopped at will: has only the active one a session, is something always tried, is a pool that can be reached found, do abandoned clients fall silent, and is it one `Strategy` from outside? |
| `network` | 1,260 | Jobs, losses and new pools of the user at every point of a donation, which may lose and regain its own: has the miner the right job? |
| `shares` | 895,274 | Two workers, two shares and a job without nonces over two sessions that end at any time: is each share counted by its answer, in its session, and none forgotten? |
| `loop_engine` | 688 | Do the two drivers of the register table agree while a program runs, whatever the inputs do? |
| `scratchpad` | 1,669 | Does a read return the last word written, in any sequence of accesses? |
| `bytecode_machine` | 196,249 | Does every program end, and how often can an instruction run? |
| `miner_freeze` | | a violation, see *Findings* |

### The properties

*`rxqueue`.* `GrantedIsBuilt` (a dataset obtained is complete and of the seed asked
for), `ReadyMeansGranted` (`isReady()`, which asks the queue, and `dataset()`, which
asks the storage too, agree: workers would spin otherwise), `LastRequestKept`,
the refinement `ImplementsService`, and the liveness properties
`RequestAnswered`, `SettlesWhenLeftAlone` and `DestructorReturns`.

*`miner`, `miner_power`.* `HashesOnItsDataset`, `RunsWhenWanted` (between handlers the
shared pause flag is what the miner's own flags say), `StaysPaused` (while the
miner is paused no worker mines a job it takes for up to date, and none leaves the pause wait; the
exception is a worker that had been woken before and reads the sequence after the touch, see
*Findings*), `MinesWhenLeftAlone`; `PausedOnBattery`,
`AutomaticResumeWaits`.

*`nonces`, `nonces_exhausted`.* `TestedOnce`, `RangesAreGapless`, `NoNonceOverflow`;
`OnlyLateCopiesAreStale` (a worker takes a replaced job for the current one in one way only: it copied
it before `setJob()` replaced it, and reads the sequence after the touch), with jobs that overtake
the workers.

*`failover`.* `OneSession`, `ActiveIsServed` (the active pool is logged in to, or the
strategy will hear that it is not), `KeepsTrying`; `ReturnsToFirst`, `ReachableIsFound` (a pool
that can be reached is found as long as the index has not passed it) and `OthersFallSilent`
(while the first pool is active every other client comes to rest); the refinement
`ImplementsStrategy`.

*`network`.* `UserJobIsMined` (outside of a donation the miner has the user's newest job,
also when it came during one), `NoPoolNoMining` (without a
pool only the job of a single pool, replaced or not logged in yet, is mined), `DonationIsExclusive`, and `UserIsServed`: however
the donation's pools behave, the user's job is mined again and again.

*`shares`.* `CountedAsAnswered` (what is counted of a share is what the pool said of that
share), `NoForeignShare` (with several pools none is sent into another session),
`EveryResultIsSettled` (a share is counted and a worker's `done()` heeded, unless the
session is over first).

*`bytecode_machine`.* `RunsAtMostThrice`, `Terminates`, and what makes them true,
`LoopKeepsItsRegister`: a branch that jumped finds its register unchanged, so that
it jumps at most once more. Three is exact: with two the invariant is violated, by a
carry into the tested field.

*`loop_engine`, `scratchpad`.* `KeepsItsTable`, `ResultIsOfThisRun`;
`ReadReturnsLastWrite`.

### Bounds, and why they are enough

- *`rxqueue`*: three seeds, so that two requests can overtake the one being served
  and the first seed can come back; at most two waiting (`MaxQueue`), because
  `backgroundInit` takes the last and drops the rest: only "none", "one" and "more"
  differ. Three nodes: the first, which the others copy, and two copies that finish in
  any order or have no dataset. The first node has a dataset if any has, in the proofs too (see
  *Findings*); they need none of the other bounds.
- *`miner`*: one worker. Workers read nothing of each other's; they only share the
  pause flag, which a worker writes when a job is exhausted. Three jobs: two seeds, to
  force a rebuilding, and one of another algorithm with an equal scratchpad, for which
  the threads are kept. The inputs are divided over two runs by `Inputs`, because
  together with three jobs they exceed what can be enumerated in minutes;
  `miner_power` has all of them with two jobs. Leaving configuration changes and the
  exhaustion of jobs out of `miner` is also what keeps `StaysPaused` true (see *Findings*).
  The proofs are for any number of workers, jobs, seeds and configurations.
- *`nonces`*: two workers draw two nonces at a time out of four: each can get a
  range, or one both. One byte above the mask distinguishes the pool's bits from none.
  Two jobs of the user and one of the donation, each sent once and, after the donation, the
  user's once more: the states of a `WorkerJob` relative to the newest job repeat
  from there. `nonces_exhausted` draws one nonce at a time out of two, so that exhaustion
  comes early, and lets a job come at any time (`Hasty`). `Symmetry` permutes workers, which are alike, and the user's jobs,
  which are; both runs check safety only. The proofs are for any number of workers and jobs, ranges
  and bytes of any size.
- *`failover`*: three pools are the preferred one, the last one and one between, the
  three cases the code tells apart; two retries tell the first failure from enough of them. A
  client counts its failures up to the number of retries, the only value they are
  compared with. The strategy goes on to a client only when that has given its last socket back
  (`OnClose`, see *Findings*), and is connected again only when all have (`Connect`): between
  two donations lie minutes. The proofs hold for any number of pools and retries.
- *`network`*: two jobs, an old one and a newer. The client through the user's pool is "auto",
  which can do what "always" and "none" can and hand over besides; the proofs are for each
  of the three. It fails only while the donation's own strategy is not connected already
  (`ProxyFails`). Time is left out: the timer may fire as soon as it runs.
- *`shares`*: two workers, so that one reports while the other's result is delivered; two
  shares, to be confused; two sessions, the one a share is of and another. Pings have
  numbers below four: one of each kind of request can come before and after a share.
  The proofs need none of these.
- *`bytecode_machine`*: three instructions let a branch jump over a write, a branch
  or a swap, with one instruction behind; three bits hold the tested bit, the cleared one below
  and another. Constants and data are arbitrary words. The counters stop at
  `TooOften`, the first value the property forbids. The proofs are for programs of any length,
  registers of any width and any place of the tested field.
- *`loop_engine`*: two tables, the one started with and another; the design
  only copies tables, and the proof holds for any number.
- *`scratchpad`*: four cells of two words; the fourth cell is past `addr_int`'s range
  whatever the size of the memory. The proof holds for any size.

`CHECK_DEADLOCK FALSE` is stated where the system stops: the `nonces` runs, when no
further job exists for the workers to wait for or the nonces of all jobs are used;
`shares`, when all results are found, settled and the sessions used up;
`bytecode_machine`, at the end of a program; `scratchpad`, where the simulation stops.

### Fairness

- *`rxqueue`*: weak fairness of the background thread and its helpers (the operating
  system schedules them and no lock is held for ever), of the calls the main thread has begun, and of the
  handler of a pending async (the event loop runs its callbacks). None for asking or
  shutting down, none for spurious wake-ups.
- *`miner`*: weak fairness of the running handler, of the pending callback, of the
  dataset's completion, and of each worker thread. None for pools, users, timers.
  That the dataset is completed is what `RequestAnswered` shows of the queue, provided
  memory is found; it is the one assumption that is about the environment.
- *`bytecode_machine`*: compiler and interpreter are loops that nothing interrupts.
- *`failover`*: weak fairness of each client's next callback. The event loop runs them,
  and what they wait for comes: a pool that is up answers before the timeout; a connection to
  one that is down ends by an error (the socket has TCP keepalive switched on, `Client.cpp:583`);
  and a pool that refused a login hangs up, for the client does not (see *Findings*). Pools come
  and go as they like. None for the owner: it connects and stops when it likes.
- *`network`*: weak fairness of the donation's timer, which the event loop runs. None for
  logins, losses, jobs or the user.
- *`shares`*: weak fairness of the event loop's part (`OnSchedule`, `Take`, `Deliver`, `Closed`,
  `Reading`), and of the pool: it answers requests, in some order, while the connection lasts;
  one that does not is given up by the response timeout, and the session is over. None
  for workers, logins, pings or losses.
- The VHDL modules and `NonceRanges` state no liveness.

## 4. Findings

One run shows a behaviour of the code that contradicts what its changelog says has
been fixed.

**`miner_freeze`** — `SwitchDoesNotFreeze`. `CpuWorker::consumeJob()` sees a
sequence that is not 0 and copies the job; `Nonce::stop()` sets the sequence to 0;
`WorkerJob::add()` records that 0 (`X:backend/common/WorkerJob.h:52`). For this worker
`isOutdated()` is false for as long as the event loop, which is in `Workers::stop()`
joining it, leaves the sequence at 0: until the nonces of the job are used up.

The passing runs rest on restrictions, each stated in the cfg or at the property:
`HashesOnItsDataset` excepts a worker whose job has the sequence 0 (this finding);
`StaysPaused` excepts a worker that had been woken (below), and `miner` has no changes of
configuration; `nonces` has jobs with enough nonces (`Exhaustible = FALSE`) that arrive after the
last was taken up (`Hasty = FALSE`); `ReachableIsFound` is about pools the index has not
passed; `NoForeignShare` is about several pools. The reasons are among these.

Also seen while modelling, without a run of their own. A configuration that shows it is
given where there is one.

- `MCMiner.cfg` with `Inputs = {"user", "config"}` and `Configs <- MCTwoConfigs` violates
  `StaysPaused`: `Nonce::stop()` clears the pause (`X:crypto/common/Nonce.cpp:72`) to wake the
  workers, and while the new dataset is built nothing sets it again, although the user has paused
  the miner; `onConfigChanged()` then starts workers that mine. CHANGELOG.md:317: "Fixed unwanted
  resume after RandomX dataset change."
- `StaysPaused` with `Held => ~Mines(w)` for its first conjunct is violated by run `miner`. A worker woken by a
  resume does not ask for the pause again before it mines (`X:backend/cpu/CpuWorker.cpp:236-250`). When the pool is
  lost, or the user pauses, after the wake, and `WorkerJob::add()` reads the sequence after the touch,
  it mines on until the next touch. The same holds of the automatic pauses ("pause mine on battery power",
  `X:core/config/usage.h:186`).
- With `Hasty = TRUE` a worker can be `Stale`: it copied a job, `setJob()` replaced it and told
  everybody, and then it reads the sequence (`X:backend/cpu/CpuWorker.cpp:446`). It hashes the replaced job
  until the next touch.
- `MCFailover.cfg` without the premise `index <= p` in `ReachableIsFound` violates it. When the
  last of three pools has logged in, `onLoginSuccess()` abandons the second
  (`FailoverStrategy.cpp:176`); when it is lost, `onClose()` finds no next pool (line 146), and only
  the last and the first are retried: the second may be up for ever without being mined for.
- With `Hasty = TRUE` `TestedOnce` is violated: a new job is visible before its counter is reset
  (`X:core/Miner.cpp:553`, then line 138) and before the workers are told (line 145). A worker still
  on its way into the last job draws a range of the new one that is drawn again later.
- With `Exhaustible` and `UserPauses` `NoNonceOverflow` is violated: `nextRound()` has counted the round
  (`X:backend/common/WorkerJob.h:129`) when it finds no range left; after a pause and a resume
  its next call increments the nonce past the mask (line 142).
- `Client.cpp:793` asks `m_id == 1`, the number of the client, where the number of the request
  seems to be meant: the second pool's client closes its connection for every rejected share, and the others
  keep theirs, without a timeout, when the login is refused without a critical error.
- A `SinglePoolStrategy` passes shares on while its client is logging in again, and the client,
  which is connected and still has the old id, sends them into the new session: with `single` in
  it, `NoForeignShare` is violated.
- `done()` of a worker whose job has been replaced within the session closes the session
  (`Client.cpp:189`), which has a job to give.
- A login of the donation makes it active from any state (`DonateStrategy.cpp:166`). One that
  comes in the wait, or after `stop()`, makes the donation last longer than the "1 minute in 100
  minutes" of `xmrig_copied_src/README.md:28`; the user's job comes back all the same (`UserIsServed`).
- Only a `FailoverStrategy` reports its own `stop()`. When a single pool is replaced in the
  configuration, its job is mined until the new one has logged in (`Network.cpp:157`). And it
  hands on a job that comes before the login is answered (`SinglePoolStrategy.cpp:108`); when that login
  fails, `onClose()` returns (line 99), and the job is mined on without a pool.
- `Controller::stop()` deletes the network (line 80), with the handler of `JobResults`, before
  it stops the workers (line 82). `JobResults::submit()` asserts that there is a handler (line 346).
- `RxNUMAStorage::dataset()` takes the first node's dataset where one is missing (line 100).
  When the first could not be allocated but another could, `m_datasets.at()` throws: in the
  background thread, with nobody to catch it. And a `createDatasets()` that is tried again,
  after the cache could not be allocated, leaks each dataset it finds in the map already (line 232).
- `connect()` does not ask whether the client still has a socket. The strategy may call it
  (`FailoverStrategy.cpp:147`) while an abandoned attempt is still connecting: the socket is
  replaced without being closed, or `onClose()` of the old one deletes the new
  one. CHANGELOG.md:250 calls a possible double connection fixed.
- `loop_engine.vhd:42` describes `prog_done` as 1 "when program is done or not running";
  it is 1 in state `Done` alone, which is never reached, for `prog_is_terminating`
  (line 107) has no driver. A program can be loaded only in `Done`.
- `loop_engine.vhd:36` speaks of the rising edge of `start_prog`; line 175 tests its level.
- `scratchpad.vhd:37` bounds `addr_int` by `LOG2_RANDOMX_SCRATCHPAD_L3 / 8` = 2: the third
  cell is the last. `Scratchpad` has this bound as `Top`.
- `scratchpad_tb.vhd:145`: the monitor compares the word read from one address with
  the copy of the next.
- `ISUB_R`, `IMUL_R`, `IXOR_R`, `IROR_R` and `IROL_R` with one register as source and destination take the
  immediate instead in the interpreter (`X:crypto/randomx/bytecode_machine.cpp:131`); the loop
  engine gives the ALU the register (`loop_engine.vhd:231` and on).
- `loop_engine.vhd:255` gives the ALU register `src`, where `int_alu.vhd:116-121` expects
  the reciprocal of `IMUL_RCP` to have been computed.

## 5. Proofs

TLAPS proves 7,815 obligations. The theorems:

| Theorem | States, for every value of the constants |
|---|---|
| `RxQueue_proof!TypeCorrect` | `Spec => []TypeOK` |
| `RxQueue_proof!GrantsAreBuilt` | `Spec => []GrantedIsBuilt` |
| `RxQueue_proof!ReadyIsGranted` | `Spec => []ReadyMeansGranted` |
| `RxQueue_proof!RequestsAreKept` | `Spec => [](LastRequestKept /\ IdleIsQuiet)` |
| `RxQueue_proof!QueueImplementsService` | `Spec => ImplementsService` |
| `Failover_proof!TypeCorrect` | `Spec => []TypeOK` |
| `Failover_proof!NoOtherSession` | `Spec => []OneSession` |
| `Failover_proof!ActivePoolServes` | `Spec => []ActiveIsServed` |
| `Failover_proof!SomePoolIsTried` | `Spec => []KeepsTrying` |
| `Failover_proof!FailoverImplementsStrategy` | `Spec => ImplementsStrategy` |
| `Network_proof!TypeCorrect` | `Spec => []TypeOK` |
| `Network_proof!UserJobIsRecovered` | `Spec => []UserJobIsMined` |
| `Network_proof!PausedWithoutPool` | `Spec => []NoPoolNoMining` |
| `Network_proof!DonationIsKeptApart` | `Spec => []DonationIsExclusive` |
| `Shares_proof!TypeCorrect` | `Spec => []TypeOK` |
| `Shares_proof!AnswersAreMatched` | `Spec => []CountedAsAnswered` |
| `Shares_proof!SharesStayInSession` | `Spec => []NoForeignShare` |
| `Miner_proof!TypeCorrect` | `Spec => []TypeOK` |
| `Miner_proof!DatasetsAreKept` | `Spec => []HashesOnItsDataset` |
| `Miner_proof!BatteryIsSaved` | `Spec => []PausedOnBattery` |
| `Miner_proof!ResumesWait` | `Spec => AutomaticResumeWaits` |
| `Miner_proof!WantedRuns` | `~Exhaustible => (Spec => []RunsWhenWanted)` |
| `Miner_proof!PausedStays` | `{"config", "rpc stop"} \cap Inputs = {} => (Spec => StaysPaused)` |
| `NonceRanges_proof!TypeCorrect` | `Spec => []TypeOK` |
| `NonceRanges_proof!StaleByLateCopy` | `Spec => OnlyLateCopiesAreStale` |
| `NonceRanges_proof!NoncesFit` | `~Exhaustible => (Spec => []NoNonceOverflow)` |
| `NonceRanges_proof!NoGaps` | `~Exhaustible => (Spec => []RangesAreGapless)` |
| `NonceRanges_proof!NothingTwice` | `~Hasty /\ ~Exhaustible => (Spec => TestedOnce)` |
| `BytecodeMachine_proof!LoopsKeepTheirRegisters` | `Spec => []LoopKeepsItsRegister` |
| `BytecodeMachine_proof!ThriceAtMost` | `Spec => []RunsAtMostThrice` |
| `Processor_proof!TableIsKept` | `Spec => KeepsItsTable` |
| `Processor_proof!ResultsAreOfTheRun` | `Spec => ResultIsOfThisRun` |
| `Processor_proof!ReadsAreCurrent` | `SpadConstants => (Spad!Spec => Spad!ReadReturnsLastWrite)`, where `Spad` is `Scratchpad` and `SpadConstants` its assumptions |

Five have a hypothesis on the constants, the restriction of the run that checks the property;
*Findings* describes the behaviours of the code that it leaves out.

**The queue.** None of the invariants is inductive. `GrantedIsBuilt` says nothing of a
dataset under construction, `LastRequestKept` nothing of what the request being served
leaves in the storage. The inductive `IInv` is `TypeOK`, `LastRequestKept`, `IdleIsQuiet` and
four more conjuncts: the thread is inside `init()` only for a seed and only while the
queue is not idle (`BusyInv`); what storage and cache hold at each place inside
`init()` (`StorageInv`, and while datasets are copied `Copying`: the first is done, each
other the same, unfinished or absent); outside it, a storage with datasets is ready and
each is built for its seed (`SettledInv`); the queue is shut down exactly while the destructor runs
or has run (`ShutdownInv`). `NextIInv` has a step for each action, and below it the
conjuncts the action can disturb. `IInv` implies the other invariants. For the
refinement, a request withdraws what was served, `BgPublish` grants, the destructor closes, and
every other step leaves `Served` as it is.
Assumptions: `None`, `Partial` and `Absent` are no seeds (`NoneAssumption`); the first node
is a node (`NodesAssumption`); seeds of
different algorithms have different hashes (`DataAssumption`), because `RxCache::init`
compares the hash alone; `MaxQueue` is a positive number.

**The pools.** `KeepsTrying` is not inductive: it says that the client the index points at has
something to wait for, not that the wait is for something that will come. `Shape` says which
combinations one client can be in: a lookup in progress only in that state, and a session only
while connected and wanted. `IInv` adds
that the active pool is `Served` (it has a session, or is closing and will report it), and
that the index is the active pool's while there is one, so that
losing it leaves the index at a client that retries. The proof shows first what each
method of a client keeps of `Shape`, then one step per callback. For the refinement, a lemma
for each callback says which step of `Strategy` it is, or that it is none; `KeepsTrying` is why
a wanted strategy never looks stopped. A strategy at rest points at the first pool again,
which is where `connect()` begins. Assumption: at least one pool and one retry.

**The network.** The three invariants together are nearly inductive: what is missing is that
an active strategy has a job to offer (`HasOffer`), which is what the miner gets when a donation
is over. The lemmas are one for each source of callbacks: the user's strategy, the
donation's clients, its timer.

**The shares.** `CountedAsAnswered` speaks of one share, its proof of all requests that could
share its number. `NumbersGoOn`: what is under way has numbers already used up, and only a
connection being closed may hold a share with the next one. Hence `NumbersMatch`: a request
or an answer with the number of a share in flight is of that share. It needs that a request that
cannot be written closes the connection before another could be sent. `SessionIsLast`: a
strategy is active only in the session of the last login, from which `NoForeignShare` follows.
Assumption: shares and reports differ.

**The miner.** `HashesOnItsDataset` cannot be inductive: it says nothing of a worker that is only
about to allocate its VM, or of one that is not launched yet. `IInv` adds what a worker that has the current
sequence number knows (`UpToDate`: from the end of the wait for the dataset on, it has a VM and the
dataset is its job's), and what the writes in `todo` presuppose. A job is installed by the last write
of a handler (`InstallsLast`), so that the dataset is given up for another seed only when a `Join` went before
and no worker is left (`GoneWorkers`); a `Launch` finds no workers (`LaunchesOnce`), and the new ones know
nothing (`NewWorkers`). The counter of automatic reasons is the number of those that hold
(`CountsReasons`), hence the two properties of the battery. `RunsWhenWanted` and the second half of `StaysPaused` are about the last
write to the pause flag: while a handler is being carried out, either the flag is as the miner's own flags
say and nothing left changes it, or a write that makes it so is still to come (`Leaves`). For
`RunsWhenWanted` this needs that a job that waits for its dataset does not leave the workers
paused; for `StaysPaused`, that without the inputs `"config"` and `"rpc stop"` a paused miner that is not
left paused has no workers. Its first half is about the touch (`HeldOut`): a worker that found the flag clear and is
up to date mines for a miner that runs, or a write that touches it is still to come; the handler that
ends mining always leaves one (`Touches`), after its pause.
Assumptions: workers are finitely many, for a fresh sequence number to exist; jobs have seeds, and
launch parameters differ from `None` (`JobAssumption`); the first configuration is one
(`ConfigAssumption`).

**The nonces.** What a worker knows at each of its labels, and that a slot of its `WorkerJob` holds a job
that was sent and is of that slot's pool (`Basic`), holds whatever the constants are, and so does
`OnlyLateCopiesAreStale`: a new job comes with a touch, and of the steps of a worker only `AddJob` changes its
job or its sequence. While the nonces last, each slot's range, drawn or being drawn, lies in its pool's byte (`InByte`): the counter yields multiples of the reserve,
and the mask ends at one. Call the nonces a worker is hashing or has left in its range `Open`. For a job
whose counter was not reset since, they are below what the counter yields next (`OpenIsDrawn`), not tested yet
(`OpenIsUntested`) and no other worker's (`OpenIsMine`). Most steps open
nothing; a draw opens a range above all that were drawn; a test turns an open nonce into a tested one.
There remains the reset, which starts the counter again: while one is to come, every worker waits or will stop at the pause,
and nobody holds the new job (`ResetInTime`). That is what a hasty job breaks, so
`~Hasty` is needed. Assumption: the user's jobs and the donation's differ (`JobsAssumption`), and
the mask is a whole number of reserves.

**The bytecode machine.** From the compiler: the table of last writers is right (`UsageIsKnown`), so
nothing between a branch's target and the branch writes its register (`BranchesGoBack`). A branch marks
all registers as used; hence the stretches of two branches do not overlap, and inside a loop the
interpreter meets no other branch that goes back. `InLoop` follows, which is `LoopKeepsItsRegister`. For the
number of runs: a branch jumps when the tested field of its register is zero. The constant added has the field's lowest bit set,
and the bit below it clear, so the field, zero after the first jump, can be
zero again after the second addition only by a carry into it. This leaves the bits below the field
smaller than half of what they can count to, and the next addition cannot carry: there is no third
jump (`RunsInLoop`). The arithmetic is done with powers of two
as the number of subsets of `1..n`, since the provers know no exponentiation.

**The loop engine.** `KeepsItsTable` is about steps, and true of them only in states where
the drivers have not yet disagreed. `Follows`: when the engine is ready and being started, the
latch drives the table at the port. `Agree`: while it is running both drivers are
one and the same table. `Fetched`: while the clock is low in a run, the operands are of the
resolved table. A latch that feeds on its own resolved output keeps a conflict for
good, so the invariant has to exclude the first one. Assumption: a table at the port
is initialised.

**The scratchpad.** `CopyIsAhead` is inductive together with the shapes of the variables: the bench's copy is the memory
with the access in flight carried out. Assumptions: the stimulus
accesses existing cells and drives words without `'-'`.

**Model-checked only.** All liveness, which rests on fairness, out of the prover's reach:
`RequestAnswered`, `SettlesWhenLeftAlone`, `DestructorReturns`, `MinesWhenLeftAlone`, `ReturnsToFirst`,
`ReachableIsFound`, `OthersFallSilent`, `UserIsServed`, `EveryResultIsSettled`, `Terminates`. And the
violation, `SwitchDoesNotFreeze`. Every safety property a passing run checks is proved.

## 6. Not modelled

- Of the modelled components: huge pages, and one-gigabyte pages, with which each dataset has a
  cache and scratchpads in it; the workers' self-test, the benchmark, the NUMA node of a
  worker, hash rates; the 64-bit nonces of KawPow and several hashes a round; what opcodes
  compute and the floating point path of the engine; floating point registers, the scratchpad
  and the repeated execution of a program in the bytecode machine; the coverage goal of the
  scratchpad's bench.
- Of the pools and shares: TLS and SOCKS, the deletion of clients, the sockets of two attempts
  at once; results of a GPU, which are checked in a thread pool first; `JobResults::stop()`,
  of which no property holds (see *Findings*).
- The other clients only add protocols.
- GPU backends (CUDA, OpenCL): driven through a vendor's library that is not in the
  repository; with the CPU backend they share what `Miner` and `NonceRanges` model.
- Hash kernels, JIT, AES, floating point: encodings and numeric kernels without
  state between calls, for which test vectors are the better means.
- The hash engine: its architecture is empty.
- Configuration, API, kernel, hardware access, scripts, vendored libraries: parsing,
  reporting, input and output. Their calls to the miner are `Miner`'s inputs.

## 7. Plan

The order is that of importance to the miner's behaviour. Done: the
queue with both storages, the miner, the nonces, the pools, the network, the shares, the
processor and the bytecode machine, all with their proofs. To come:

1. **`IntALU`** — the integer opcodes against the interpreter's, on small words, under the
   engine that feeds them; **`Superscalar`** — the schedule of a program's
   instructions on its ports.
2. Proofs. `DatasetService`: the served seed is the wanted one, once for the queue and the
   miner. The core of `Terminates`, without fairness: a number that falls with every step of a
   program.
