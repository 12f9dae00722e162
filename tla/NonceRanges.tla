---------------------------- MODULE NonceRanges -----------------------------
(***************************************************************************)
(* Which nonces of which job the workers hash: Nonce::next() of            *)
(* crypto/common/Nonce.cpp, the WorkerJob of every worker                  *)
(* (backend/common/WorkerJob.h), and the parts of core/Miner.cpp and       *)
(* backend/cpu/CpuWorker.cpp that make the job and its nonces change.      *)
(*                                                                         *)
(* A worker draws Reserve nonces at a time from a counter all workers      *)
(* share and hashes them one by one.  There are two counters and two jobs  *)
(* in a WorkerJob: index 0 for the jobs of the user's pool, 1 for those of *)
(* the donation, after which the user's job is taken up where it was left. *)
(*                                                                         *)
(* The workers run all the time: stopping and starting them, and datasets, *)
(* are Miner's subject.  As there, the writes of an event loop handler to  *)
(* shared state are steps of their own, waiting in todo.                   *)
(***************************************************************************)
EXTENDS Naturals, Sequences, FiniteSets

CONSTANTS Workers,
          UserJobs, DonateJobs, None,
          Reserve,  \* kReserveCount
          Mask,     \* Job::nonceMask(): the nonces a worker may use
          PoolByte, \* the bits above them, given by a nicehash pool
          Hasty,    \* a job may arrive before the workers took up the last
          UserPauses, \* the user pauses and resumes
          Exhaustible \* a worker may find the nonces of its job used up

ASSUME NonceAssumption ==
  /\ Reserve \in Nat \ {0}
  /\ Mask \in Nat
  /\ (Mask + 1) % Reserve = 0
  /\ PoolByte \in Nat

ASSUME JobsAssumption ==
  /\ UserJobs \cap DonateJobs = {}
  /\ None \notin UserJobs \cup DonateJobs

Jobs == UserJobs \cup DonateJobs
Index(j) == IF j \in DonateJobs THEN 1 ELSE 0

(* A nonce is a word of 32 bits, the bits above Mask among them.           *)
Word == (PoolByte + 2) * (Mask + 1)

VARIABLES
  job,       \* MinerPrivate::job
  userJob,   \* the job with the id MinerPrivate::userJobId
  active, enabled, todo, paused,   \* as in Miner
  sent,      \* the jobs the pools have sent
  counter,   \* Nonce::m_nonces
  pc, return, copy,                \* as in Miner
  outdated,  \* Nonce::isOutdated(): Nonce::m_sequence # m_job.sequence()
  m_job,     \* the WorkerJob of each worker
  hashing,   \* current_job_nonces[0]
  tested     \* the results compared with the target: pairs of a job and a nonce

minerVars  == <<job, userJob, active, enabled, sent>>
workerVars == <<pc, return, copy, m_job, hashing, tested>>
vars == <<minerVars, todo, paused, outdated, counter, workerVars>>

WorkerJob == [index : 0..1, jobs : [0..1 -> Jobs \cup {None}],
              nonce : [0..1 -> 0..(Word - 1)], rounds : [0..1 -> 0..(Reserve - 1)]]

TypeOK ==
  /\ job \in Jobs /\ userJob \in UserJobs
  /\ {active, enabled, paused} \subseteq BOOLEAN
  /\ outdated \in [Workers -> BOOLEAN]
  /\ sent \subseteq Jobs
  /\ counter \in [0..1 -> 0..(Mask + 1 + Reserve)]
  /\ pc \in [Workers -> {"Outer", "Asleep", "Copy", "Add", "DrawFirst",
                         "Inner", "DrawNext", "Pausing", "Test"}]
  /\ return \in [Workers -> {"Inner", "Outer", "Test"}]
  /\ copy \in [Workers -> Jobs \cup {None}]
  /\ m_job \in [Workers -> WorkerJob]
  /\ hashing \in [Workers -> 0..(Word - 1)]
  /\ tested \subseteq Jobs \X (0..(Word - 1))

(* The first job of the user's pool has just started the workers.          *)
Init ==
  /\ job \in UserJobs
  /\ userJob = job /\ sent = {job}
  /\ active = TRUE /\ enabled = TRUE
  /\ todo = <<"Touch", "Unpause">>
  /\ paused = TRUE
  /\ outdated = [w \in Workers |-> TRUE]
  /\ counter = [i \in 0..1 |-> 0]
  /\ pc = [w \in Workers |-> "Outer"]
  /\ return = [w \in Workers |-> "Outer"]
  /\ copy = [w \in Workers |-> None]
  /\ m_job = [w \in Workers |->
                [index |-> 0, jobs |-> [i \in 0..1 |-> None],
                 nonce |-> [i \in 0..1 |-> 0], rounds |-> [i \in 0..1 |-> 0]]]
  /\ hashing = [w \in Workers |-> 0]
  /\ tested = {}

-----------------------------------------------------------------------------
(* Nonce::next(), whose fetch_add() left the range that starts at c.       *)
LastRange(c) == c <= Mask /\ Mask - c <= Reserve - 1
InRangeUnchecked(c) == TRUE
InRange(c) == c <= Mask /\ Mask - c >= Reserve - 1

(* The bits of the nonce above the mask are kept.                          *)
WithoutPoolByte(n, c) == c
Drawn(n, c) == (n \div (Mask + 1)) * (Mask + 1) + c

(* The counter, which only matters as far as it is compared with Mask.     *)
Advanced(c) == IF c > Mask + 1 THEN c ELSE c + Reserve

(* WorkerJob::currentJob() and its nonce.                                  *)
Current(w) == m_job[w].jobs[m_job[w].index]
NonceOf(w) == m_job[w].nonce[m_job[w].index]

-----------------------------------------------------------------------------
(* Event loop.                                                             *)
Idle == todo = << >>

(* What every worker is doing between two jobs, if the pool lets it.       *)
Settled(w) ==
  \/ pc[w] = "Asleep" /\ paused
  \/ pc[w] \in {"Inner", "DrawNext", "Pausing", "Test"} /\ ~outdated[w]

(* Miner::setJob().  Network's strategies never send a job twice: a        *)
(* client drops the duplicate of its last job.  Only after a donation does *)
(* the user's job come back, and finds its counter as it was.              *)
ResetsAlways(j) == TRUE
Resets(j) == ~(Index(job) = 1 /\ Index(j) = 0 /\ userJob = j)

(* handleJobChange(), which resets the counter where setJob() said so; the *)
(* backend keeps its workers.                                              *)
TouchesNever(j) == <<"Reset", "Unpause">>
JobChange(j) ==
  (IF enabled THEN << >> ELSE <<"Pause">>)
    \o (IF Resets(j) THEN <<"Reset">> ELSE << >>)
    \o <<"Touch">>
    \o (IF enabled THEN <<"Unpause">> ELSE << >>)

SetJob(j) ==
  /\ Idle
  /\ j \notin sent \/ (Index(job) = 1 /\ j = userJob)
  /\ Hasty \/ \A w \in Workers : Settled(w)
  /\ job' = j
  /\ userJob' = IF Index(j) = 0 THEN j ELSE userJob
  /\ sent' = sent \cup {j}
  /\ active' = TRUE
  /\ todo' = JobChange(j)
  /\ UNCHANGED <<enabled, paused, outdated, counter, workerVars>>

(* Miner::setEnabled(), from the console or the API.                       *)
SetEnabled(e) ==
  /\ UserPauses
  /\ Idle
  /\ e # enabled
  /\ enabled' = e
  /\ todo' = IF active THEN <<IF e THEN "Unpause" ELSE "Pause", "Touch">> ELSE << >>
  /\ UNCHANGED <<job, userJob, active, sent, paused, outdated, counter, workerVars>>

(* Miner::pause(): the pool is lost, or closed for a job without nonces.   *)
PoolLost ==
  /\ Idle
  /\ active' = FALSE
  /\ todo' = <<"Pause", "Touch">>
  /\ UNCHANGED <<job, userJob, enabled, sent, paused, outdated, counter, workerVars>>

EventLoop ==
  /\ ~Idle
  /\ todo' = Tail(todo)
  /\ \/ /\ Head(todo) \in {"Pause", "Unpause"}
        /\ paused' = (Head(todo) = "Pause")
        /\ UNCHANGED <<outdated, counter>>
     \/ /\ Head(todo) = "Reset"
        /\ counter' = [counter EXCEPT ![Index(job)] = 0]
        /\ UNCHANGED <<paused, outdated>>
     \/ /\ Head(todo) = "Touch"
        /\ outdated' = [w \in Workers |-> TRUE]
        /\ UNCHANGED <<paused, counter>>
  /\ UNCHANGED <<minerVars, workerVars>>

-----------------------------------------------------------------------------
(* CpuWorker::start().                                                     *)
GoTo(w, label) == pc' = [pc EXCEPT ![w] = label]

Consumes(w, back) == GoTo(w, "Copy") /\ return' = [return EXCEPT ![w] = back]

Outer(w) ==
  /\ pc[w] = "Outer"
  /\ GoTo(w, IF paused THEN "Asleep" ELSE "Inner")
  /\ UNCHANGED <<minerVars, todo, paused, outdated, counter, return, copy, m_job, hashing, tested>>

Wake(w) ==
  /\ pc[w] = "Asleep" /\ ~paused
  /\ Consumes(w, "Inner")
  /\ UNCHANGED <<minerVars, todo, paused, outdated, counter, copy, m_job, hashing, tested>>

(* consumeJob() copies the job ...                                         *)
CopyJob(w) ==
  /\ pc[w] = "Copy"
  /\ copy' = [copy EXCEPT ![w] = job]
  /\ GoTo(w, "Add")
  /\ UNCHANGED <<minerVars, todo, paused, outdated, counter, return, m_job, hashing, tested>>

(* ... and WorkerJob::add() reads the sequence, keeps the job it has, goes *)
(* back from the donation's job to the user's, or saves a new one.         *)
ReturnsTo(wj, j) == wj.index = 1 /\ Index(j) = 0 /\ j = wj.jobs[0]

AddedForgetful(wj, j) ==
  IF j = wj.jobs[wj.index] THEN wj
  ELSE [wj EXCEPT !.index = Index(j), !.jobs[Index(j)] = j,
                  !.nonce[Index(j)] = PoolByte * (Mask + 1)]

Added(wj, j) ==
  IF j = wj.jobs[wj.index] THEN wj
  ELSE IF ReturnsTo(wj, j) THEN [wj EXCEPT !.index = 0]
  ELSE [wj EXCEPT !.index = Index(j), !.jobs[Index(j)] = j, !.rounds[Index(j)] = 0,
                  !.nonce[Index(j)] = PoolByte * (Mask + 1)]

AddJob(w) ==
  /\ pc[w] = "Add"
  /\ m_job' = [m_job EXCEPT ![w] = Added(@, copy[w])]
  /\ outdated' = [outdated EXCEPT ![w] = FALSE]
  /\ copy' = [copy EXCEPT ![w] = None]
  /\ GoTo(w, IF copy[w] = Current(w) \/ ReturnsTo(m_job[w], copy[w])
             THEN return[w] ELSE "DrawFirst")
  /\ UNCHANGED <<minerVars, todo, paused, counter, return, hashing, tested>>

(* save() draws the first range and does not ask whether there was one.    *)
DrawFirst(w) ==
  /\ pc[w] = "DrawFirst"
  /\ Exhaustible \/ InRange(counter[m_job[w].index])
  /\ LET i == m_job[w].index IN
       /\ counter' = [counter EXCEPT ![i] = Advanced(@)]
       /\ m_job' = IF InRange(counter[i])
                   THEN [m_job EXCEPT ![w].nonce[i] = Drawn(@, counter[i])] ELSE m_job
       /\ GoTo(w, IF LastRange(counter[i]) THEN "Pausing" ELSE return[w])
  /\ UNCHANGED <<minerVars, todo, paused, outdated, return, copy, hashing, tested>>

(* The mining loop: a hash, then nextRound().                              *)
Inner(w) ==
  /\ pc[w] = "Inner"
  /\ IF outdated[w]
     THEN Consumes(w, "Outer") /\ UNCHANGED <<m_job, hashing>>
     ELSE LET i == m_job[w].index
              r == (m_job[w].rounds[i] + 1) % Reserve
          IN /\ hashing' = [hashing EXCEPT ![w] = NonceOf(w)]
             /\ m_job' = [m_job EXCEPT ![w].rounds[i] = r,
                            ![w].nonce[i] = IF r = 0 THEN @ ELSE (@ + 1) % Word]
             /\ GoTo(w, IF r = 0 THEN "DrawNext" ELSE "Test")
             /\ UNCHANGED return
  /\ UNCHANGED <<minerVars, todo, paused, outdated, counter, copy, tested>>

DrawNext(w) ==
  /\ pc[w] = "DrawNext"
  /\ Exhaustible \/ InRange(counter[m_job[w].index])
  /\ LET i == m_job[w].index IN
       /\ counter' = [counter EXCEPT ![i] = Advanced(@)]
       /\ IF InRange(counter[i])
          THEN /\ m_job' = [m_job EXCEPT ![w].nonce[i] = Drawn(@, counter[i])]
               /\ return' = [return EXCEPT ![w] = "Test"]
               /\ GoTo(w, IF LastRange(counter[i]) THEN "Pausing" ELSE "Test")
          ELSE Consumes(w, "Outer") /\ UNCHANGED m_job
  /\ UNCHANGED <<minerVars, todo, paused, outdated, copy, hashing, tested>>

(* Nonce::next() gave out the last range.                                  *)
Pausing(w) ==
  /\ pc[w] = "Pausing"
  /\ paused' = TRUE
  /\ GoTo(w, return[w])
  /\ UNCHANGED <<minerVars, todo, outdated, counter, return, copy, m_job, hashing, tested>>

(* The result is compared with the target and submitted.                   *)
Test(w) ==
  /\ pc[w] = "Test"
  /\ tested' = tested \cup {<<Current(w), hashing[w]>>}
  /\ hashing' = [hashing EXCEPT ![w] = 0]
  /\ GoTo(w, "Inner")
  /\ UNCHANGED <<minerVars, todo, paused, outdated, counter, return, copy, m_job>>

Worker(w) ==
  \/ Outer(w) \/ Wake(w) \/ CopyJob(w) \/ AddJob(w) \/ DrawFirst(w)
  \/ Inner(w) \/ DrawNext(w) \/ Pausing(w) \/ Test(w)

-----------------------------------------------------------------------------
Next ==
  \/ \E j \in Jobs : SetJob(j)
  \/ \E e \in BOOLEAN : SetEnabled(e)
  \/ PoolLost
  \/ EventLoop
  \/ \E w \in Workers : Worker(w)

Spec == Init /\ [][Next]_vars
-----------------------------------------------------------------------------
(* The jobs a share may still be found for: the current one, and the       *)
(* user's during a donation.                                               *)
Newest(j) == j \in {job, userJob}

(* No nonce of such a job is tested twice, by whichever worker: a second   *)
(* share of the same nonce is one the pool rejects.  Ranges must not       *)
(* overlap, a worker must not leave its own, the counter must not be reset *)
(* while workers hold ranges drawn from it, and a worker back from the     *)
(* donation has to go on where it was.  Bounds: enough nonces, and workers *)
(* that took up a job before the next one comes.  One that is late (Hasty) *)
(* may draw for the new job before its counter is reset.                   *)
TestedOnce ==
  [][\A w \in Workers :
       pc[w] = "Test" /\ pc'[w] = "Inner" /\ Newest(Current(w))
         => <<Current(w), hashing[w]>> \notin tested]_vars

(* Within its range a worker skips no nonce: up to the one it has come to, *)
(* each was tested or is about to be, also when the donation made it leave *)
(* the range and come back to it later.                                    *)
RangesAreGapless ==
  \A w \in Workers : \A i \in 0..1 :
    LET j == m_job[w].jobs[i]
        n == m_job[w].nonce[i]
    IN j # None /\ Newest(j) /\ pc[w] \notin {"DrawFirst", "DrawNext"}
         => \A k \in (n - m_job[w].rounds[i])..(n - 1) :
              <<j, k>> \in tested \/ (pc[w] = "Test" /\ i = m_job[w].index /\ k = hashing[w])

(* A worker that takes a replaced job for the current one: the event loop  *)
(* has told everybody, and its sequence is the one it compares with.       *)
Stale(w) ==
  ~outdated[w] /\ (\A n \in 1..Len(todo) : todo[n] # "Touch") /\ Current(w) # job

(* A worker gets there in one way only: consumeJob() copied the job before *)
(* it was replaced and WorkerJob::add() read the sequence after the touch, *)
(* for nothing makes the two one step (it then hashes the old job until    *)
(* the next touch).  Whoever copied the new job, or is hashing when it     *)
(* arrives, however late, is on it or will be told.                        *)
OnlyLateCopiesAreStale ==
  [][\A w \in Workers :
       ~Stale(w) /\ Stale(w)' => pc[w] = "Add" /\ copy[w] # job]_vars

(* CHANGELOG.md: "Fixed possible nicehash nonce overflow in some           *)
(* conditions".  The byte a nicehash pool tells its clients apart by is    *)
(* kept in every nonce, although *n += 1 writes the whole word.  Bound: as *)
(* long as there are nonces.  When they are used up (Exhaustible) the      *)
(* round is counted all the same, and once the user has paused and resumed *)
(* the next one increments the nonce past the mask.                        *)
NoNonceOverflow == \A t \in tested : t[2] \div (Mask + 1) = PoolByte
=============================================================================
