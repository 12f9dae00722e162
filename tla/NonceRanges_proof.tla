------------------------- MODULE NonceRanges_proof --------------------------
(***************************************************************************)
(* The nonces of NonceRanges, for any number of workers and jobs, ranges   *)
(* of any size and any place for the pool's bits above the mask.           *)
(***************************************************************************)
EXTENDS NonceRanges, SequenceTheorems, TLAPS

-----------------------------------------------------------------------------
(* What holds whatever the constants are: types, and what a worker knows   *)
(* at each of its labels.                                                  *)
Writes == {"Pause", "Unpause", "Reset", "Touch"}

Has(list, write) == \E n \in 1..Len(list) : list[n] = write

(* Nothing but a pause comes before a reset.                               *)
Ordered(list) ==
  \A m, n \in 1..Len(list) : m < n /\ list[n] = "Reset" => list[m] = "Pause"

KnowsItsJob(w) ==
  /\ pc[w] \in {"DrawFirst", "DrawNext", "Pausing", "Test"} \/ ~outdated[w]
       => Current(w) # None
  /\ pc[w] = "Add" => copy[w] # None
  /\ pc[w] \in {"Copy", "Add", "DrawFirst"} => return[w] # "Test"

(* The slots of a WorkerJob hold jobs that were sent, of the pool they are *)
(* for.                                                                    *)
SlotsOfPools(w) ==
  /\ copy[w] # None => copy[w] \in sent
  /\ \A i \in 0..1 :
       m_job[w].jobs[i] # None => m_job[w].jobs[i] \in sent /\ Index(m_job[w].jobs[i]) = i

JobsWereSent ==
  /\ {job, userJob} \subseteq sent
  /\ Index(job) = 0 => userJob = job

TestedWereSent == \A t \in tested : t[1] \in sent

Basic ==
  /\ TypeOK
  /\ todo \in Seq(Writes) /\ Ordered(todo)
  /\ \A w \in Workers : KnowsItsJob(w) /\ SlotsOfPools(w)
  /\ JobsWereSent /\ TestedWereSent

-----------------------------------------------------------------------------
(* ~Exhaustible: where the nonces of a slot are, and that it has no gap.   *)
Base == PoolByte * (Mask + 1)
Byte == Base..(Base + Mask)

Here(w, i) == i = m_job[w].index
Draws(w) == pc[w] \in {"DrawFirst", "DrawNext"}
HasHash(w) == pc[w] \in {"DrawNext", "Test"} \/ (pc[w] = "Pausing" /\ return[w] = "Test")

(* The range of rounds[i] nonces before nonce[i] and those from there on;  *)
(* when it is used up nonce[i] stays with the last.                        *)
SlotInByte(w, i) ==
  LET n == m_job[w].nonce[i]
      r == m_job[w].rounds[i]
  IN /\ Draws(w) /\ Here(w, i) => r = 0
     /\ IF pc[w] = "DrawNext" /\ Here(w, i)
        THEN n \in Byte
        ELSE Base <= n - r /\ n - r + Reserve - 1 <= Base + Mask

HashInByte(w) == HasHash(w) => hashing[w] \in Byte

InByte ==
  /\ \A w \in Workers : HashInByte(w)
  /\ \A w \in Workers : \A i \in 0..1 : m_job[w].jobs[i] # None => SlotInByte(w, i)
  /\ \A t \in tested : t[2] \in Byte

Holds(w, i) == m_job[w].jobs[i] # None /\ Newest(m_job[w].jobs[i])

Gapless(w, i) ==
  \A k \in (m_job[w].nonce[i] - m_job[w].rounds[i])..(m_job[w].nonce[i] - 1) :
    \/ <<m_job[w].jobs[i], k>> \in tested
    \/ pc[w] = "Test" /\ Here(w, i) /\ k = hashing[w]

AllGapless == \A w \in Workers : \A i \in 0..1 : Holds(w, i) => Gapless(w, i)

-----------------------------------------------------------------------------
(* Both: the nonces of a slot that are to be tested yet.                   *)
Unhashed(w, i) ==
  IF Draws(w) /\ Here(w, i) THEN {}
  ELSE m_job[w].nonce[i]..(m_job[w].nonce[i] - m_job[w].rounds[i] + Reserve - 1)

Open(w, i) ==
  Unhashed(w, i) \cup (IF HasHash(w) /\ Here(w, i) THEN {hashing[w]} ELSE {})

Drawable(i) == Base + counter[i]

OpenIsDrawn ==
  /\ \A w \in Workers : \A i \in 0..1 : Holds(w, i) =>
       \A n \in Open(w, i) : n < Drawable(i)
  /\ \A t \in tested : Newest(t[1]) => t[2] < Drawable(Index(t[1]))

OpenIsUntested ==
  \A w \in Workers : \A i \in 0..1 : Holds(w, i) =>
    /\ \A n \in Open(w, i) : <<m_job[w].jobs[i], n>> \notin tested
    /\ HasHash(w) /\ Here(w, i) => hashing[w] \notin Unhashed(w, i)

OpenIsMine ==
  \A v, w \in Workers : \A i \in 0..1 :
    v # w /\ Holds(v, i) /\ Holds(w, i) => Open(v, i) \cap Open(w, i) = {}

(* Until the counter is reset nobody takes up the job it is reset for.     *)
Waits(w) ==
  \/ pc[w] = "Asleep" /\ paused
  \/ pc[w] \in {"Outer", "Inner", "DrawNext", "Pausing", "Test"} /\ ~outdated[w]

ResetInTime ==
  Has(todo, "Reset") =>
    /\ \A w \in Workers : Waits(w) /\ \A i \in 0..1 : m_job[w].jobs[i] # job
    /\ \A t \in tested : t[1] # job

Once == OpenIsDrawn /\ OpenIsUntested /\ OpenIsMine /\ ResetInTime

-----------------------------------------------------------------------------
(* What a handler leaves to be written.                                    *)
LEMMA TailOfList ==
  ASSUME NEW list \in Seq(Writes), list # << >>
  PROVE  /\ Head(list) \in Writes /\ Tail(list) \in Seq(Writes)
         /\ \A write : Has(list, write) <=> Head(list) = write \/ Has(Tail(list), write)
         /\ Ordered(list) =>
              /\ Ordered(Tail(list))
              /\ Has(list, "Reset") => Head(list) \in {"Pause", "Reset"}
<1> DEFINE l == Len(list)
           t == Tail(list)
<1>1. /\ l \in Nat \ {0} /\ t \in Seq(Writes) /\ Len(t) = l - 1
      /\ Head(list) = list[1] /\ list[1] \in Writes
      /\ \A n \in 1..(l - 1) : t[n] = list[n + 1]
  BY HeadTailProperties, EmptySeq
<1> HIDE DEF l, t
<1>2. ASSUME NEW write, NEW n \in 1..l, list[n] = write, n # 1
      PROVE  Has(t, write)
  <2>1. n - 1 \in 1..Len(t) /\ t[n - 1] = write
    BY <1>1, <1>2
  <2> QED
    BY <2>1 DEF Has
<1>3. ASSUME NEW write, Has(t, write)
      PROVE  Has(list, write)
  <2>1. PICK n \in 1..Len(t) : t[n] = write
    BY <1>3 DEF Has
  <2>2. n + 1 \in 1..l /\ list[n + 1] = write
    BY <1>1, <2>1
  <2> QED
    BY <2>2 DEF Has, l
<1>4. ASSUME NEW write
      PROVE  Has(list, write) <=> Head(list) = write \/ Has(t, write)
  BY <1>1, <1>2, <1>3 DEF Has, l
<1>5. ASSUME Ordered(list)
      PROVE  Ordered(t)
  <2> SUFFICES ASSUME NEW m \in 1..Len(t), NEW n \in 1..Len(t), m < n, t[n] = "Reset"
               PROVE  t[m] = "Pause"
    BY DEF Ordered
  <2>1. /\ m + 1 \in 1..l /\ n + 1 \in 1..l /\ m + 1 < n + 1
        /\ t[m] = list[m + 1] /\ t[n] = list[n + 1]
    BY <1>1
  <2> QED
    BY <1>5, <2>1 DEF Ordered, l
<1>6. ASSUME Ordered(list), Has(list, "Reset")
      PROVE  Head(list) \in {"Pause", "Reset"}
  <2>1. PICK n \in 1..l : list[n] = "Reset"
    BY <1>6 DEF Has, l
  <2>2. CASE n = 1
    BY <1>1, <2>1, <2>2
  <2>3. CASE n # 1
    <3>1. 1 \in 1..l /\ 1 < n
      BY <1>1, <2>3
    <3> QED
      BY <1>1, <1>6, <2>1, <3>1 DEF Ordered, l
  <2> QED
    BY <2>2, <2>3
<1> QED
  BY <1>1, <1>4, <1>5, <1>6 DEF t

LEMMA HasConcat ==
  ASSUME NEW s \in Seq(Writes), NEW t \in Seq(Writes)
  PROVE  /\ s \o t \in Seq(Writes)
         /\ \A write : Has(s \o t, write) <=> Has(s, write) \/ Has(t, write)
         /\ Ordered(s) /\ ~Has(t, "Reset") => Ordered(s \o t)
         /\ (\A n \in 1..Len(s) : s[n] = "Pause") /\ Ordered(t) => Ordered(s \o t)
<1> DEFINE c == s \o t
<1>1. /\ c \in Seq(Writes) /\ Len(c) = Len(s) + Len(t)
      /\ \A n \in 1..(Len(s) + Len(t)) : c[n] = IF n <= Len(s) THEN s[n] ELSE t[n - Len(s)]
  BY ConcatProperties
<1>2. Len(s) \in Nat /\ Len(t) \in Nat
  OBVIOUS
<1> HIDE DEF c
<1>3. ASSUME NEW write, Has(c, write) PROVE Has(s, write) \/ Has(t, write)
  <2>1. PICK n \in 1..Len(c) : c[n] = write
    BY <1>3 DEF Has
  <2>2. CASE n <= Len(s)
    BY <1>1, <1>2, <2>1, <2>2 DEF Has
  <2>3. CASE ~(n <= Len(s))
    <3>1. n - Len(s) \in 1..Len(t) /\ t[n - Len(s)] = write
      BY <1>1, <1>2, <2>1, <2>3
    <3> QED
      BY <3>1 DEF Has
  <2> QED
    BY <2>2, <2>3
<1>4. ASSUME NEW write, Has(s, write) PROVE Has(c, write)
  BY <1>1, <1>2, <1>4 DEF Has
<1>5. ASSUME NEW write, Has(t, write) PROVE Has(c, write)
  <2>1. PICK n \in 1..Len(t) : t[n] = write
    BY <1>5 DEF Has
  <2>2. n + Len(s) \in 1..Len(c) /\ c[n + Len(s)] = t[n]
    BY <1>1, <1>2
  <2> QED
    BY <2>1, <2>2 DEF Has
<1>6. ASSUME Ordered(s), ~Has(t, "Reset")
      PROVE  Ordered(c)
  <2> SUFFICES ASSUME NEW m \in 1..Len(c), NEW n \in 1..Len(c), m < n, c[n] = "Reset"
               PROVE  c[m] = "Pause"
    BY DEF Ordered
  <2>1. n <= Len(s)
    <3>1. SUFFICES ASSUME ~(n <= Len(s)) PROVE FALSE
      OBVIOUS
    <3>2. n - Len(s) \in 1..Len(t) /\ t[n - Len(s)] = "Reset"
      BY <1>1, <1>2, <3>1
    <3> QED
      BY <1>6, <3>2 DEF Has
  <2>2. m \in 1..Len(s) /\ n \in 1..Len(s) /\ c[m] = s[m] /\ c[n] = s[n]
    BY <1>1, <1>2, <2>1
  <2> QED
    BY <1>6, <2>2 DEF Ordered
<1>7. ASSUME \A n \in 1..Len(s) : s[n] = "Pause", Ordered(t)
      PROVE  Ordered(c)
  <2> SUFFICES ASSUME NEW m \in 1..Len(c), NEW n \in 1..Len(c), m < n, c[n] = "Reset"
               PROVE  c[m] = "Pause"
    BY DEF Ordered
  <2>1. CASE m <= Len(s)
    BY <1>1, <1>2, <1>7, <2>1
  <2>2. CASE ~(m <= Len(s))
    <3>1. /\ m - Len(s) \in 1..Len(t) /\ n - Len(s) \in 1..Len(t) /\ m - Len(s) < n - Len(s)
          /\ c[m] = t[m - Len(s)] /\ c[n] = t[n - Len(s)]
      BY <1>1, <1>2, <2>2
    <3> QED
      BY <1>7, <3>1 DEF Ordered
  <2> QED
    BY <2>1, <2>2
<1> QED
  BY <1>1, <1>3, <1>4, <1>5, <1>6, <1>7 DEF c

LEMMA ShortLists ==
  /\ << >> \in Seq(Writes) /\ Ordered(<< >>) /\ \A write : ~Has(<< >>, write)
  /\ \A x \in Writes :
       /\ <<x>> \in Seq(Writes) /\ Ordered(<<x>>)
       /\ Len(<<x>>) = 1 /\ <<x>>[1] = x
       /\ \A write : Has(<<x>>, write) <=> x = write
  BY DEF Ordered, Has

LEMMA PauseLists ==
  ASSUME NEW x \in {"Pause", "Unpause"}
  PROVE  /\ <<x, "Touch">> \in Seq(Writes) /\ Ordered(<<x, "Touch">>)
         /\ Has(<<x, "Touch">>, "Touch") /\ ~Has(<<x, "Touch">>, "Reset")
<1> DEFINE list == <<x, "Touch">>
<1>1. /\ list \in Seq(Writes) /\ 1..Len(list) = {1, 2}
      /\ list[1] = x /\ list[2] = "Touch"
  BY DEF Writes
<1> HIDE DEF list
<1>2. Ordered(list) /\ Has(list, "Touch") /\ ~Has(list, "Reset")
  BY <1>1 DEF Ordered, Has
<1> QED
  BY <1>1, <1>2 DEF list

LEMMA JobChangeList ==
  ASSUME NEW j
  PROVE  /\ JobChange(j) \in Seq(Writes) /\ Ordered(JobChange(j))
         /\ Has(JobChange(j), "Touch")
         /\ Has(JobChange(j), "Reset") <=> Resets(j)
<1> DEFINE pause == IF enabled THEN << >> ELSE <<"Pause">>
           reset == IF Resets(j) THEN <<"Reset">> ELSE << >>
           touch == <<"Touch">>
           unpause == IF enabled THEN <<"Unpause">> ELSE << >>
           started == pause \o reset
           touched == started \o touch
           change == JobChange(j)
<1>1. /\ pause \in Seq(Writes) /\ \A write : Has(pause, write) => write = "Pause"
      /\ \A n \in 1..Len(pause) : pause[n] = "Pause"
  <2>1. CASE enabled
    BY <2>1, ShortLists
  <2>2. CASE ~enabled
    BY <2>2, ShortLists DEF Writes
  <2> QED
    BY <2>1, <2>2
<1>2. /\ reset \in Seq(Writes) /\ Ordered(reset)
      /\ \A write : Has(reset, write) <=> Resets(j) /\ write = "Reset"
  BY ShortLists DEF Writes
<1>3. touch \in Seq(Writes) /\ \A write : Has(touch, write) <=> write = "Touch"
  BY ShortLists DEF Writes
<1>4. unpause \in Seq(Writes) /\ \A write : Has(unpause, write) => write = "Unpause"
  BY ShortLists DEF Writes
<1>5. change = touched \o unpause
  BY DEF JobChange
<1> HIDE DEF pause, reset, touch, unpause, change
<1>6. /\ started \in Seq(Writes) /\ Ordered(started)
      /\ \A write : Has(started, write) <=> Has(pause, write) \/ Has(reset, write)
  BY <1>1, <1>2, HasConcat
<1> HIDE DEF started
<1>7. /\ touched \in Seq(Writes) /\ Ordered(touched)
      /\ \A write : Has(touched, write) <=> Has(started, write) \/ Has(touch, write)
  BY <1>3, <1>6, HasConcat
<1> HIDE DEF touched
<1>8. /\ change \in Seq(Writes) /\ Ordered(change)
      /\ \A write : Has(change, write) <=> Has(touched, write) \/ Has(unpause, write)
  BY <1>4, <1>5, <1>7, HasConcat
<1> QED
  BY <1>1, <1>2, <1>3, <1>4, <1>6, <1>7, <1>8 DEF change

-----------------------------------------------------------------------------
(* Where nonces are: below Word, and those of the pool's byte below that.  *)
LEMMA Sizes ==
  /\ Mask + 1 \in Nat \ {0} /\ Reserve \in Nat \ {0} /\ Reserve <= Mask + 1
  /\ Base \in Nat /\ Word \in Nat /\ Word = Base + 2 * (Mask + 1)
<1>1. Mask \in Nat /\ Reserve \in Nat \ {0} /\ PoolByte \in Nat /\ (Mask + 1) % Reserve = 0
  BY NonceAssumption
<1>2. Reserve <= Mask + 1
  BY <1>1
<1> DEFINE M == Mask + 1
<1>3. M \in Nat \ {0}
  BY <1>1
<1> HIDE DEF M
<1>4. PoolByte * M \in Nat /\ (PoolByte + 2) * M = PoolByte * M + 2 * M
  BY <1>1, <1>3
<1> QED
  BY <1>1, <1>2, <1>3, <1>4 DEF Base, Word, M

LEMMA DrawnNonce ==
  ASSUME NEW n \in 0..(Word - 1), NEW c \in 0..Mask
  PROVE  /\ Drawn(n, c) \in 0..(Word - 1)
         /\ n \in Byte => Drawn(n, c) = Base + c /\ n \div (Mask + 1) = PoolByte
<1> DEFINE M == Mask + 1
           q == n \div M
           p == n % M
           K == PoolByte + 2
<1>1. M \in Nat \ {0} /\ K \in Nat \ {0} /\ PoolByte \in Nat /\ Mask \in Nat /\ n \in Nat
  BY NonceAssumption, Sizes
<1>2. q \in Nat /\ p \in 0..(M - 1) /\ n = M * q + p
  <2> HIDE DEF M
  <2> QED
    BY <1>1
<1>3. /\ Word = K * M /\ Base = PoolByte * M /\ Drawn(n, c) = q * M + c /\ c \in 0..(M - 1)
      /\ n \div (Mask + 1) = q
  BY <1>1 DEF Word, Base, Drawn
<1>4. Byte = Base..(Base + (M - 1)) /\ Base \in Nat
  BY Sizes, <1>1 DEF Byte
<1> HIDE DEF M, q, p, K
<1>5. q < K
  <2> SUFFICES ASSUME q >= K PROVE FALSE
    BY <1>1, <1>2
  <2>1. PICK d \in Nat : q = K + d
    <3>1. q - K \in Nat /\ q = K + (q - K)
      BY <1>1, <1>2
    <3> QED
      BY <3>1
  <2>2. M * q = K * M + M * d /\ M * d \in Nat
    BY <1>1, <2>1
  <2>3. K * M \in Nat
    BY <1>1
  <2> QED
    BY <1>2, <1>3, <2>2, <2>3
<1>6. Drawn(n, c) \in 0..(Word - 1)
  <2>1. PICK d \in Nat : K = q + d + 1
    <3>1. K - q - 1 \in Nat /\ K = q + (K - q - 1) + 1
      BY <1>1, <1>2, <1>5
    <3> QED
      BY <3>1
  <2>2. K * M = q * M + d * M + M /\ d * M \in Nat /\ q * M \in Nat
    BY <1>1, <1>2, <2>1
  <2> QED
    BY <1>1, <1>3, <2>2
<1>7. ASSUME n \in Byte
      PROVE  q = PoolByte
  <2>1. n >= PoolByte * M /\ n < PoolByte * M + M
    BY <1>1, <1>3, <1>4, <1>7
  <2>2. ~(q > PoolByte)
    <3> SUFFICES ASSUME q > PoolByte PROVE FALSE
      OBVIOUS
    <3>1. q - PoolByte - 1 \in Nat /\ q = PoolByte + (q - PoolByte - 1) + 1
      BY <1>1, <1>2
    <3>2. PICK d \in Nat : q = PoolByte + d + 1
      BY <3>1
    <3>3. M * q = PoolByte * M + M * d + M /\ M * d \in Nat /\ PoolByte * M \in Nat
      BY <1>1, <3>2
    <3> QED
      BY <1>1, <1>2, <2>1, <3>3
  <2>3. ~(q < PoolByte)
    <3> SUFFICES ASSUME q < PoolByte PROVE FALSE
      OBVIOUS
    <3>1. PoolByte - q - 1 \in Nat /\ PoolByte = q + (PoolByte - q - 1) + 1
      BY <1>1, <1>2
    <3>2. PICK d \in Nat : PoolByte = q + d + 1
      BY <3>1
    <3>3. PoolByte * M = M * q + M * d + M /\ M * d \in Nat /\ M * q \in Nat
      BY <1>1, <1>2, <3>2
    <3> QED
      BY <1>1, <1>2, <2>1, <3>3
  <2> QED
    BY <1>1, <1>2, <2>2, <2>3
<1> QED
  BY <1>3, <1>6, <1>7

LEMMA NextNonce ==
  ASSUME NEW n \in 0..(Word - 1), NEW r \in 0..(Reserve - 1),
         Base <= n - r, n - r + Reserve - 1 <= Base + Mask
  PROVE  n \in Byte /\ (n + 1) % Word = n + 1
<1> DEFINE m == n + 1
<1>1. n \in Byte /\ m \in Nat /\ m < Word /\ Word \in Nat
  BY Sizes, NonceAssumption DEF Byte
<1> HIDE DEF m
<1>2. m % Word = m
  BY <1>1
<1> QED
  BY <1>1, <1>2 DEF m

-----------------------------------------------------------------------------
(* The slots of a WorkerJob, and what is written of them.                  *)
LEMMA Slot ==
  ASSUME TypeOK, NEW w \in Workers
  PROVE  /\ m_job[w] \in WorkerJob /\ m_job[w].index \in 0..1
         /\ \A i \in 0..1 :
              /\ m_job[w].jobs[i] \in Jobs \cup {None}
              /\ m_job[w].nonce[i] \in 0..(Word - 1)
              /\ m_job[w].rounds[i] \in 0..(Reserve - 1)
              /\ counter[i] \in 0..(Mask + 1 + Reserve)
  BY DEF TypeOK, WorkerJob

LEMMA NonceWritten ==
  ASSUME NEW f \in [Workers -> WorkerJob], NEW w \in Workers, NEW i \in 0..1,
         NEW n \in 0..(Word - 1), NEW g, g = [f EXCEPT ![w].nonce[i] = n]
  PROVE  /\ g \in [Workers -> WorkerJob]
         /\ \A v \in Workers : v # w => g[v] = f[v]
         /\ g[w].index = f[w].index /\ g[w].jobs = f[w].jobs /\ g[w].rounds = f[w].rounds
         /\ g[w].nonce[i] = n
         /\ \A k \in 0..1 : k # i => g[w].nonce[k] = f[w].nonce[k]
<1>1. f[w] \in WorkerJob
  OBVIOUS
<1>2. g = [f EXCEPT ![w] = [f[w] EXCEPT !.nonce = [f[w].nonce EXCEPT ![i] = n]]]
  OBVIOUS
<1>3. f[w].nonce \in [0..1 -> 0..(Word - 1)]
  BY <1>1 DEF WorkerJob
<1> DEFINE wj == [f[w] EXCEPT !.nonce = [f[w].nonce EXCEPT ![i] = n]]
<1>4. /\ wj \in WorkerJob
      /\ wj.index = f[w].index /\ wj.jobs = f[w].jobs /\ wj.rounds = f[w].rounds
      /\ wj.nonce[i] = n /\ \A k \in 0..1 : k # i => wj.nonce[k] = f[w].nonce[k]
  BY <1>1, <1>3 DEF WorkerJob
<1> HIDE DEF wj
<1>5. g = [f EXCEPT ![w] = wj]
  BY <1>2 DEF wj
<1> QED
  BY <1>4, <1>5

LEMMA JobAdded ==
  ASSUME NEW wj \in WorkerJob, NEW j \in Jobs
  PROVE  LET new == Added(wj, j)
         IN /\ new \in WorkerJob
            /\ new.jobs[new.index] = j
            /\ j = wj.jobs[wj.index] => new = wj
            /\ j # wj.jobs[wj.index] /\ ReturnsTo(wj, j) =>
                 /\ new.index = 0 /\ new.jobs = wj.jobs
                 /\ new.nonce = wj.nonce /\ new.rounds = wj.rounds
            /\ j # wj.jobs[wj.index] /\ ~ReturnsTo(wj, j) =>
                 /\ new.index = Index(j) /\ new.nonce[Index(j)] = Base
                 /\ new.rounds[Index(j)] = 0
                 /\ \A k \in 0..1 : k # Index(j) =>
                      /\ new.jobs[k] = wj.jobs[k] /\ new.nonce[k] = wj.nonce[k]
                      /\ new.rounds[k] = wj.rounds[k]
<1>1. /\ wj.index \in 0..1 /\ wj.jobs \in [0..1 -> Jobs \cup {None}]
      /\ wj.nonce \in [0..1 -> 0..(Word - 1)] /\ wj.rounds \in [0..1 -> 0..(Reserve - 1)]
  BY DEF WorkerJob
<1>2. Index(j) \in 0..1 /\ Base \in 0..(Word - 1) /\ 0 \in 0..(Reserve - 1)
  BY Sizes DEF Index
<1>3. CASE j = wj.jobs[wj.index]
  BY <1>3 DEF Added
<1>4. CASE j # wj.jobs[wj.index] /\ ReturnsTo(wj, j)
  <2>1. Added(wj, j) = [wj EXCEPT !.index = 0]
    BY <1>4 DEF Added
  <2> QED
    BY <1>1, <1>4, <2>1 DEF ReturnsTo, WorkerJob
<1>5. CASE j # wj.jobs[wj.index] /\ ~ReturnsTo(wj, j)
  <2> DEFINE k == Index(j)
  <2> HIDE DEF k
  <2>1. Added(wj, j) = [index |-> k, jobs |-> [wj.jobs EXCEPT ![k] = j],
                        nonce |-> [wj.nonce EXCEPT ![k] = Base],
                        rounds |-> [wj.rounds EXCEPT ![k] = 0]]
    BY <1>5 DEF Added, Base, k, WorkerJob
  <2> QED
    BY <1>1, <1>2, <1>5, <2>1 DEF WorkerJob, k
<1> QED
  BY <1>3, <1>4, <1>5

-----------------------------------------------------------------------------
(* A worker's step leaves the other workers alone.                         *)
LEMMA OthersStay ==
  ASSUME TypeOK, NEW w \in Workers, Worker(w)
  PROVE  /\ UNCHANGED <<minerVars, todo>>
         /\ \A v \in Workers : v # w =>
              /\ pc'[v] = pc[v] /\ return'[v] = return[v] /\ copy'[v] = copy[v]
              /\ m_job'[v] = m_job[v] /\ hashing'[v] = hashing[v]
              /\ outdated'[v] = outdated[v]
<1> USE DEF TypeOK, GoTo, Consumes
<1>1. CASE Outer(w)
  BY <1>1 DEF Outer
<1>2. CASE Wake(w)
  BY <1>2 DEF Wake
<1>3. CASE CopyJob(w)
  BY <1>3 DEF CopyJob
<1>4. CASE AddJob(w)
  BY <1>4 DEF AddJob
<1>5. CASE DrawFirst(w)
  BY <1>5 DEF DrawFirst
<1>6. CASE Inner(w)
  BY <1>6 DEF Inner
<1>7. CASE DrawNext(w)
  BY <1>7 DEF DrawNext
<1>8. CASE Pausing(w)
  BY <1>8 DEF Pausing
<1>9. CASE Test(w)
  BY <1>9 DEF Test
<1> QED
  BY <1>1, <1>2, <1>3, <1>4, <1>5, <1>6, <1>7, <1>8, <1>9 DEF Worker

(* What each step of a worker does to it.                                  *)
LEMMA QuietStep ==
  ASSUME Basic, NEW w \in Workers,
         \/ Outer(w) \/ Wake(w) \/ CopyJob(w) \/ Pausing(w) \/ (Inner(w) /\ outdated[w])
  PROVE  /\ UNCHANGED <<minerVars, todo, outdated, counter, m_job, hashing, tested>>
         /\ HasHash(w)' <=> HasHash(w)
         /\ pc[w] \in {"Outer", "Asleep", "Copy", "Pausing", "Inner"}
         /\ pc'[w] \notin {"DrawFirst", "DrawNext"}
         /\ pc'[w] \in {"Pausing", "Test"} => pc[w] = "Pausing"
         /\ pc'[w] = "Copy" => return'[w] # "Test"
         /\ \/ copy'[w] = copy[w] /\ pc'[w] # "Add"
            \/ copy'[w] = job /\ return'[w] = return[w] /\ pc[w] = "Copy"
         /\ paused => paused'
         /\ pc[w] = "Outer" => pc'[w] = (IF paused THEN "Asleep" ELSE "Inner")
         /\ pc[w] = "Asleep" => ~paused
         /\ pc[w] = "Inner" => outdated[w]
         /\ pc[w] = "Pausing" => pc'[w] \in {"Inner", "Outer", "Test"}
<1> USE DEF Basic, TypeOK, GoTo, Consumes, HasHash, minerVars
<1>1. CASE Outer(w)
  BY <1>1 DEF Outer
<1>2. CASE Wake(w)
  BY <1>2 DEF Wake
<1>3. CASE CopyJob(w)
  BY <1>3 DEF CopyJob
<1>4. CASE Pausing(w)
  BY <1>4 DEF Pausing
<1>5. CASE Inner(w) /\ outdated[w]
  BY <1>5 DEF Inner
<1> QED
  BY <1>1, <1>2, <1>3, <1>4, <1>5

LEMMA CounterType ==
  ASSUME NEW c \in 0..(Mask + 1 + Reserve)
  PROVE  /\ Advanced(c) \in 0..(Mask + 1 + Reserve) /\ Advanced(c) >= c
         /\ InRange(c) => /\ c \in 0..Mask /\ c + Reserve - 1 <= Mask
                          /\ Advanced(c) = c + Reserve
  BY NonceAssumption DEF Advanced, InRange

LEMMA QuietTypes ==
  ASSUME Basic, NEW w \in Workers,
         \/ Outer(w) \/ Wake(w) \/ CopyJob(w) \/ Pausing(w) \/ (Inner(w) /\ outdated[w])
  PROVE  TypeOK'
<1>1. TypeOK
  BY DEF Basic
<1>2. UNCHANGED <<minerVars, todo, outdated, counter, m_job, hashing, tested>>
  BY QuietStep
<1>3. /\ pc' \in [Workers -> {"Outer", "Asleep", "Copy", "Add", "DrawFirst",
                              "Inner", "DrawNext", "Pausing", "Test"}]
      /\ return' \in [Workers -> {"Inner", "Outer", "Test"}]
      /\ copy' \in [Workers -> Jobs \cup {None}]
      /\ paused' \in BOOLEAN
  <2> USE <1>1 DEF TypeOK, GoTo, Consumes
  <2>1. CASE Outer(w)
    BY <2>1 DEF Outer
  <2>2. CASE Wake(w)
    BY <2>2 DEF Wake
  <2>3. CASE CopyJob(w)
    BY <2>3 DEF CopyJob
  <2>4. CASE Pausing(w)
    BY <2>4 DEF Pausing
  <2>5. CASE Inner(w) /\ outdated[w]
    BY <2>5 DEF Inner
  <2> QED
    BY <2>1, <2>2, <2>3, <2>4, <2>5
<1> QED
  BY <1>1, <1>2, <1>3 DEF TypeOK, minerVars

LEMMA AddStep ==
  ASSUME Basic, NEW w \in Workers, AddJob(w)
  PROVE  /\ TypeOK'
         /\ UNCHANGED <<minerVars, todo, paused, counter, return, hashing, tested>>
         /\ copy[w] \in Jobs /\ copy'[w] = None
         /\ m_job'[w] = Added(m_job[w], copy[w])
         /\ pc[w] = "Add" /\ return[w] \in {"Inner", "Outer"}
         /\ pc'[w] = IF copy[w] = Current(w) \/ ReturnsTo(m_job[w], copy[w])
                     THEN return[w] ELSE "DrawFirst"
         /\ ~outdated'[w] /\ ~HasHash(w) /\ ~HasHash(w)'
<1>1. TypeOK /\ pc[w] = "Add"
  BY DEF Basic, AddJob
<1>2. copy[w] \in Jobs /\ return[w] \in {"Inner", "Outer"}
  BY <1>1 DEF Basic, KnowsItsJob, TypeOK
<1>3. /\ UNCHANGED <<minerVars, todo, paused, counter, return, hashing, tested>>
      /\ outdated' = [outdated EXCEPT ![w] = FALSE]
      /\ copy' = [copy EXCEPT ![w] = None]
      /\ m_job' = [m_job EXCEPT ![w] = Added(@, copy[w])]
      /\ pc' = [pc EXCEPT ![w] = IF copy[w] = Current(w) \/ ReturnsTo(m_job[w], copy[w])
                                 THEN return[w] ELSE "DrawFirst"]
  BY DEF AddJob, GoTo
<1>4. m_job[w] \in WorkerJob
  BY <1>1, Slot
<1>5. Added(m_job[w], copy[w]) \in WorkerJob
  BY <1>2, <1>4, JobAdded
<1>6. m_job' \in [Workers -> WorkerJob] /\ m_job'[w] = Added(m_job[w], copy[w])
  BY <1>1, <1>3, <1>5 DEF TypeOK
<1>7. /\ pc' \in [Workers -> {"Outer", "Asleep", "Copy", "Add", "DrawFirst",
                              "Inner", "DrawNext", "Pausing", "Test"}]
      /\ pc'[w] = IF copy[w] = Current(w) \/ ReturnsTo(m_job[w], copy[w])
                  THEN return[w] ELSE "DrawFirst"
  BY <1>1, <1>2, <1>3 DEF TypeOK
<1>8. TypeOK'
  BY <1>1, <1>3, <1>6, <1>7 DEF TypeOK, minerVars
<1>9. ~outdated'[w] /\ copy'[w] = None
  BY <1>1, <1>3 DEF TypeOK
<1>10. ~HasHash(w) /\ ~HasHash(w)'
  BY <1>1, <1>2, <1>3, <1>7 DEF HasHash
<1> QED
  BY <1>1, <1>2, <1>3, <1>6, <1>7, <1>8, <1>9, <1>10

(* The draw of a range, for the slot in use.                               *)
LEMMA DrawStep ==
  ASSUME Basic, NEW w \in Workers, NEW i \in 0..1, i = m_job[w].index,
         DrawFirst(w) \/ DrawNext(w)
  PROVE  /\ TypeOK'
         /\ UNCHANGED <<minerVars, todo, paused, outdated, copy, hashing, tested>>
         /\ Exhaustible \/ InRange(counter[i])
         /\ counter'[i] = Advanced(counter[i])
         /\ \A k \in 0..1 : k # i => counter'[k] = counter[k]
         /\ m_job'[w].index = i /\ m_job'[w].jobs = m_job[w].jobs
         /\ m_job'[w].rounds = m_job[w].rounds
         /\ \A k \in 0..1 : k # i => m_job'[w].nonce[k] = m_job[w].nonce[k]
         /\ m_job'[w].nonce[i] = IF InRange(counter[i])
                                 THEN Drawn(m_job[w].nonce[i], counter[i])
                                 ELSE m_job[w].nonce[i]
         /\ DrawFirst(w) => /\ pc[w] = "DrawFirst" /\ return' = return
                            /\ return[w] \in {"Inner", "Outer"}
                            /\ pc'[w] \in {"Pausing", return[w]}
         /\ DrawNext(w) =>
              /\ pc[w] = "DrawNext"
              /\ InRange(counter[i]) => return'[w] = "Test" /\ pc'[w] \in {"Pausing", "Test"}
              /\ ~InRange(counter[i]) => return'[w] = "Outer" /\ pc'[w] = "Copy"
<1>1. TypeOK /\ (Exhaustible \/ InRange(counter[i]))
  BY DEF Basic, DrawFirst, DrawNext
<1>2. /\ m_job \in [Workers -> WorkerJob] /\ m_job[w] \in WorkerJob
      /\ counter \in [0..1 -> 0..(Mask + 1 + Reserve)]
      /\ counter[i] \in 0..(Mask + 1 + Reserve)
      /\ m_job[w].nonce[i] \in 0..(Word - 1)
  BY <1>1, Slot DEF Basic, TypeOK
<1>3. /\ UNCHANGED <<minerVars, todo, paused, outdated, copy, hashing, tested>>
      /\ counter' = [counter EXCEPT ![i] = Advanced(counter[i])]
      /\ IF InRange(counter[i])
         THEN m_job' = [m_job EXCEPT ![w].nonce[i] = Drawn(m_job[w].nonce[i], counter[i])]
         ELSE m_job' = m_job
  <2>1. CASE DrawFirst(w)
    BY <1>2, <2>1 DEF DrawFirst
  <2>2. CASE DrawNext(w)
    BY <1>2, <2>2 DEF DrawNext
  <2> QED
    BY <2>1, <2>2
<1>4. /\ counter' \in [0..1 -> 0..(Mask + 1 + Reserve)]
      /\ counter'[i] = Advanced(counter[i])
      /\ \A k \in 0..1 : k # i => counter'[k] = counter[k]
  BY <1>2, <1>3, CounterType
<1>5. /\ m_job' \in [Workers -> WorkerJob]
      /\ m_job'[w].index = i /\ m_job'[w].jobs = m_job[w].jobs
      /\ m_job'[w].rounds = m_job[w].rounds
      /\ \A k \in 0..1 : k # i => m_job'[w].nonce[k] = m_job[w].nonce[k]
      /\ m_job'[w].nonce[i] = IF InRange(counter[i])
                              THEN Drawn(m_job[w].nonce[i], counter[i])
                              ELSE m_job[w].nonce[i]
  <2>1. CASE InRange(counter[i])
    <3> DEFINE n == Drawn(m_job[w].nonce[i], counter[i])
    <3>1. n \in 0..(Word - 1)
      BY <1>2, <2>1, CounterType, DrawnNonce
    <3>2. m_job' = [m_job EXCEPT ![w].nonce[i] = n]
      BY <1>3, <2>1
    <3> HIDE DEF n
    <3>3. /\ m_job' \in [Workers -> WorkerJob]
          /\ m_job'[w].index = m_job[w].index /\ m_job'[w].jobs = m_job[w].jobs
          /\ m_job'[w].rounds = m_job[w].rounds
          /\ m_job'[w].nonce[i] = n
          /\ \A k \in 0..1 : k # i => m_job'[w].nonce[k] = m_job[w].nonce[k]
      BY <1>2, <3>1, <3>2, NonceWritten
    <3> QED
      BY <2>1, <3>3 DEF n
  <2>2. CASE ~InRange(counter[i])
    BY <1>2, <1>3, <2>2
  <2> QED
    BY <2>1, <2>2
<1>6. DrawFirst(w) => /\ pc[w] = "DrawFirst" /\ return' = return
                      /\ return[w] \in {"Inner", "Outer"}
                      /\ pc'[w] \in {"Pausing", return[w]}
                      /\ pc' \in [Workers -> {"Outer", "Asleep", "Copy", "Add", "DrawFirst",
                                              "Inner", "DrawNext", "Pausing", "Test"}]
  BY <1>1 DEF DrawFirst, GoTo, Basic, KnowsItsJob, TypeOK
<1>7. ASSUME DrawNext(w)
      PROVE  /\ pc[w] = "DrawNext"
             /\ InRange(counter[i]) => return'[w] = "Test" /\ pc'[w] \in {"Pausing", "Test"}
             /\ ~InRange(counter[i]) => return'[w] = "Outer" /\ pc'[w] = "Copy"
             /\ pc' \in [Workers -> {"Outer", "Asleep", "Copy", "Add", "DrawFirst",
                                     "Inner", "DrawNext", "Pausing", "Test"}]
             /\ return' \in [Workers -> {"Inner", "Outer", "Test"}]
  <2>1. pc[w] = "DrawNext"
    BY <1>7 DEF DrawNext
  <2>2. CASE InRange(counter[i])
    <3>1. /\ return' = [return EXCEPT ![w] = "Test"]
          /\ pc' = [pc EXCEPT ![w] = IF LastRange(counter[i]) THEN "Pausing" ELSE "Test"]
      BY <1>7, <2>2 DEF DrawNext, GoTo
    <3> QED
      BY <1>1, <2>1, <2>2, <3>1 DEF TypeOK
  <2>3. CASE ~InRange(counter[i])
    <3>1. return' = [return EXCEPT ![w] = "Outer"] /\ pc' = [pc EXCEPT ![w] = "Copy"]
      BY <1>7, <2>3 DEF DrawNext, GoTo, Consumes
    <3> QED
      BY <1>1, <2>1, <2>3, <3>1 DEF TypeOK
  <2> QED
    BY <2>2, <2>3
<1>8. TypeOK'
  <2>1. /\ pc' \in [Workers -> {"Outer", "Asleep", "Copy", "Add", "DrawFirst",
                                "Inner", "DrawNext", "Pausing", "Test"}]
        /\ return' \in [Workers -> {"Inner", "Outer", "Test"}]
    BY <1>1, <1>6, <1>7 DEF TypeOK
  <2> QED
    BY <1>1, <1>3, <1>4, <1>5, <2>1 DEF TypeOK, minerVars
<1> QED
  BY <1>1, <1>3, <1>4, <1>5, <1>6, <1>7, <1>8

(* A hash, and nextRound().                                                *)
LEMMA HashStep ==
  ASSUME Basic, NEW w \in Workers, NEW i \in 0..1, i = m_job[w].index,
         Inner(w), ~outdated[w]
  PROVE  LET n == m_job[w].nonce[i]
             r == m_job[w].rounds[i]
         IN /\ TypeOK'
            /\ UNCHANGED <<minerVars, todo, paused, outdated, counter, copy, return, tested>>
            /\ pc[w] = "Inner" /\ hashing'[w] = n
            /\ m_job'[w].index = i /\ m_job'[w].jobs = m_job[w].jobs
            /\ \A k \in 0..1 : k # i => /\ m_job'[w].nonce[k] = m_job[w].nonce[k]
                                        /\ m_job'[w].rounds[k] = m_job[w].rounds[k]
            /\ IF r = Reserve - 1
               THEN pc'[w] = "DrawNext" /\ m_job'[w].rounds[i] = 0 /\ m_job'[w].nonce[i] = n
               ELSE /\ pc'[w] = "Test" /\ m_job'[w].rounds[i] = r + 1
                    /\ m_job'[w].nonce[i] = (n + 1) % Word
<1> DEFINE n == m_job[w].nonce[i]
           r == (m_job[w].rounds[i] + 1) % Reserve
           next == IF r = 0 THEN n ELSE (n + 1) % Word
<1>1. TypeOK /\ pc[w] = "Inner"
  BY DEF Basic, Inner
<1>2. /\ m_job \in [Workers -> WorkerJob] /\ m_job[w] \in WorkerJob
      /\ n \in 0..(Word - 1) /\ m_job[w].rounds[i] \in 0..(Reserve - 1)
  BY <1>1, Slot DEF TypeOK
<1>3. /\ UNCHANGED <<minerVars, todo, paused, outdated, counter, copy, return, tested>>
      /\ hashing' = [hashing EXCEPT ![w] = n]
      /\ m_job' = [m_job EXCEPT ![w].rounds[i] = r, ![w].nonce[i] = next]
      /\ pc' = [pc EXCEPT ![w] = IF r = 0 THEN "DrawNext" ELSE "Test"]
  BY <1>2 DEF Inner, GoTo, NonceOf, minerVars
<1>4. /\ r \in 0..(Reserve - 1)
      /\ IF m_job[w].rounds[i] = Reserve - 1 THEN r = 0
                                             ELSE r = m_job[w].rounds[i] + 1 /\ r # 0
  <2> DEFINE q == m_job[w].rounds[i]
  <2>1. q \in 0..(Reserve - 1) /\ Reserve \in Nat \ {0} /\ r = (q + 1) % Reserve
    BY <1>2, NonceAssumption
  <2> HIDE DEF q, r
  <2>2. /\ r \in 0..(Reserve - 1)
        /\ IF q = Reserve - 1 THEN r = 0 ELSE r = q + 1 /\ r # 0
    BY <2>1
  <2> QED
    BY <2>2 DEF q
<1>5. next \in 0..(Word - 1)
  <2> DEFINE m == (n + 1) % Word
  <2>1. n \in Nat /\ Word \in Nat \ {0}
    BY <1>2, Sizes
  <2> HIDE DEF n
  <2>2. m \in 0..(Word - 1)
    BY <2>1
  <2> HIDE DEF m
  <2> QED
    BY <1>2, <2>2 DEF m
<1> HIDE DEF r, next
<1>6. /\ m_job' \in [Workers -> WorkerJob]
      /\ m_job'[w].index = i /\ m_job'[w].jobs = m_job[w].jobs
      /\ m_job'[w].nonce[i] = next /\ m_job'[w].rounds[i] = r
      /\ \A k \in 0..1 : k # i => /\ m_job'[w].nonce[k] = m_job[w].nonce[k]
                                  /\ m_job'[w].rounds[k] = m_job[w].rounds[k]
  <2> DEFINE wj == [m_job[w] EXCEPT !.rounds = [m_job[w].rounds EXCEPT ![i] = r],
                                    !.nonce = [m_job[w].nonce EXCEPT ![i] = next]]
  <2>1. /\ m_job[w].rounds \in [0..1 -> 0..(Reserve - 1)]
        /\ m_job[w].nonce \in [0..1 -> 0..(Word - 1)]
    BY <1>2 DEF WorkerJob
  <2>2. m_job' = [m_job EXCEPT ![w] = wj]
    BY <1>2, <1>3, <2>1 DEF WorkerJob
  <2>3. /\ wj \in WorkerJob
        /\ wj.index = i /\ wj.jobs = m_job[w].jobs
        /\ wj.rounds[i] = r /\ wj.nonce[i] = next
        /\ \A k \in 0..1 : k # i => /\ wj.nonce[k] = m_job[w].nonce[k]
                                    /\ wj.rounds[k] = m_job[w].rounds[k]
    BY <1>2, <1>4, <1>5, <2>1 DEF WorkerJob
  <2> HIDE DEF wj
  <2> QED
    BY <1>2, <2>2, <2>3
<1>7. /\ pc' \in [Workers -> {"Outer", "Asleep", "Copy", "Add", "DrawFirst",
                              "Inner", "DrawNext", "Pausing", "Test"}]
      /\ hashing' \in [Workers -> 0..(Word - 1)]
      /\ pc'[w] = (IF r = 0 THEN "DrawNext" ELSE "Test") /\ hashing'[w] = n
  BY <1>1, <1>2, <1>3 DEF TypeOK
<1>8. TypeOK'
  BY <1>1, <1>3, <1>6, <1>7 DEF TypeOK, minerVars
<1> QED
  BY <1>1, <1>3, <1>4, <1>6, <1>7, <1>8 DEF next

LEMMA TestStep ==
  ASSUME Basic, NEW w \in Workers, Test(w)
  PROVE  /\ TypeOK'
         /\ UNCHANGED <<minerVars, todo, paused, outdated, counter, return, copy, m_job>>
         /\ pc[w] = "Test" /\ pc'[w] = "Inner"
         /\ tested' = tested \cup {<<Current(w), hashing[w]>>}
         /\ Current(w) \in Jobs /\ hashing[w] \in 0..(Word - 1)
<1>1. TypeOK /\ pc[w] = "Test"
  BY DEF Basic, Test
<1>2. /\ UNCHANGED <<minerVars, todo, paused, outdated, counter, return, copy, m_job>>
      /\ tested' = tested \cup {<<Current(w), hashing[w]>>}
      /\ hashing' = [hashing EXCEPT ![w] = 0]
      /\ pc' = [pc EXCEPT ![w] = "Inner"]
  BY DEF Test, GoTo
<1>3. Current(w) \in Jobs
  <2>1. Current(w) # None
    BY <1>1 DEF Basic, KnowsItsJob
  <2> QED
    BY <1>1, <2>1, Slot DEF Current
<1>4. hashing[w] \in 0..(Word - 1)
  BY <1>1 DEF TypeOK
<1>5. 0 \in 0..(Word - 1)
  BY Sizes
<1>6. TypeOK'
  BY <1>1, <1>2, <1>3, <1>4, <1>5 DEF TypeOK, minerVars
<1>7. pc'[w] = "Inner"
  BY <1>1, <1>2 DEF TypeOK
<1> QED
  BY <1>1, <1>2, <1>3, <1>4, <1>6, <1>7

-----------------------------------------------------------------------------
(* The types and what the workers know, inductively.                       *)
LEMMA InitBasic == Init => Basic
<1> SUFFICES ASSUME Init PROVE Basic
  OBVIOUS
<1>1. TypeOK
  <2>1. 0 \in 0..(Word - 1) /\ 0 \in 0..(Reserve - 1) /\ 0 \in 0..(Mask + 1 + Reserve)
    BY Sizes, NonceAssumption
  <2> QED
    BY <2>1 DEF Init, TypeOK, WorkerJob, Jobs
<1>2. todo \in Seq(Writes) /\ Ordered(todo)
  <2>1. todo = <<"Touch", "Unpause">>
    BY DEF Init
  <2> QED
    BY <2>1 DEF Writes, Ordered
<1>3. ASSUME NEW w \in Workers
      PROVE  KnowsItsJob(w) /\ SlotsOfPools(w)
  BY DEF Init, KnowsItsJob, SlotsOfPools
<1>4. JobsWereSent /\ TestedWereSent
  BY DEF Init, JobsWereSent, TestedWereSent
<1> QED
  BY <1>1, <1>2, <1>3, <1>4 DEF Basic

LEMMA LoopBasic ==
  ASSUME Basic,
         \/ \E j \in Jobs : SetJob(j)
         \/ \E e \in BOOLEAN : SetEnabled(e)
         \/ PoolLost
         \/ EventLoop
  PROVE  Basic'
<1>1. TypeOK /\ UNCHANGED workerVars
  BY DEF Basic, SetJob, SetEnabled, PoolLost, EventLoop
<1>2. sent \subseteq sent'
  BY DEF SetJob, SetEnabled, PoolLost, EventLoop, minerVars
<1>3. /\ TypeOK' /\ JobsWereSent'
      /\ \A w \in Workers : outdated'[w] = outdated[w] \/ outdated'[w]
  <2> USE <1>1 DEF TypeOK, workerVars, Basic, JobsWereSent
  <2>1. CASE \E j \in Jobs : SetJob(j)
    BY <2>1 DEF SetJob, Jobs, Index
  <2>2. CASE \E e \in BOOLEAN : SetEnabled(e)
    BY <2>2 DEF SetEnabled
  <2>3. CASE PoolLost
    BY <2>3 DEF PoolLost
  <2>4. CASE EventLoop
    <3>1. UNCHANGED minerVars /\ Index(job) \in 0..1 /\ 0 \in 0..(Mask + 1 + Reserve)
      BY <2>4, NonceAssumption DEF EventLoop, Index
    <3>2. /\ paused' \in BOOLEAN /\ outdated' \in [Workers -> BOOLEAN]
          /\ \A w \in Workers : outdated'[w] = outdated[w] \/ outdated'[w]
      BY <2>4 DEF EventLoop
    <3>3. counter' \in [0..1 -> 0..(Mask + 1 + Reserve)]
      BY <2>4, <3>1 DEF EventLoop
    <3> QED
      BY <3>1, <3>2, <3>3 DEF minerVars
  <2> QED
    BY <2>1, <2>2, <2>3, <2>4
<1>4. todo' \in Seq(Writes) /\ Ordered(todo')
  <2>1. CASE \E j \in Jobs : SetJob(j)
    BY <2>1, JobChangeList DEF SetJob
  <2>2. CASE \E e \in BOOLEAN : SetEnabled(e)
    <3>1. \/ todo' = <<"Unpause", "Touch">> \/ todo' = <<"Pause", "Touch">> \/ todo' = << >>
      BY <2>2 DEF SetEnabled
    <3> QED
      BY <3>1, ShortLists, PauseLists
  <2>3. CASE PoolLost
    BY <2>3, PauseLists DEF PoolLost
  <2>4. CASE EventLoop
    BY <2>4, TailOfList DEF EventLoop, Idle, Basic
  <2> QED
    BY <2>1, <2>2, <2>3, <2>4
<1>5. ASSUME NEW w \in Workers
      PROVE  KnowsItsJob(w)' /\ SlotsOfPools(w)'
  <2>1. KnowsItsJob(w) /\ SlotsOfPools(w)
    BY DEF Basic
  <2> QED
    BY <1>1, <1>2, <1>3, <2>1 DEF KnowsItsJob, SlotsOfPools, workerVars, Current
<1>6. TestedWereSent'
  BY <1>1, <1>2 DEF Basic, TestedWereSent, workerVars
<1> QED
  BY <1>3, <1>4, <1>5, <1>6 DEF Basic

LEMMA WorkerBasic ==
  ASSUME Basic, NEW w \in Workers, Worker(w)
  PROVE  Basic'
<1>1. TypeOK /\ UNCHANGED <<minerVars, todo>>
  BY OthersStay DEF Basic
<1>2. /\ todo' \in Seq(Writes) /\ Ordered(todo') /\ JobsWereSent'
      /\ sent' = sent /\ job \in sent
  BY <1>1 DEF Basic, JobsWereSent, minerVars
<1>3. ASSUME NEW v \in Workers, v # w
      PROVE  KnowsItsJob(v)' /\ SlotsOfPools(v)'
  <2>1. KnowsItsJob(v) /\ SlotsOfPools(v)
    BY DEF Basic
  <2>2. /\ pc'[v] = pc[v] /\ return'[v] = return[v] /\ copy'[v] = copy[v]
        /\ m_job'[v] = m_job[v] /\ outdated'[v] = outdated[v]
    BY <1>1, <1>3, OthersStay
  <2> QED
    BY <1>2, <2>1, <2>2 DEF KnowsItsJob, SlotsOfPools, Current
<1> SUFFICES KnowsItsJob(w)' /\ SlotsOfPools(w)' /\ TestedWereSent' /\ TypeOK'
  BY <1>2, <1>3 DEF Basic
<1>4. /\ KnowsItsJob(w) /\ SlotsOfPools(w) /\ TestedWereSent
      /\ m_job[w] \in WorkerJob /\ m_job[w].index \in 0..1
  BY <1>1, Slot DEF Basic
<1>5. CASE Outer(w) \/ Wake(w) \/ CopyJob(w) \/ Pausing(w) \/ (Inner(w) /\ outdated[w])
  <2>1. TypeOK' /\ UNCHANGED <<outdated, m_job, tested>>
    BY <1>5, QuietStep, QuietTypes
  <2>2. SlotsOfPools(w)' /\ TestedWereSent'
    BY <1>2, <1>4, <1>5, <2>1, QuietStep DEF SlotsOfPools, TestedWereSent
  <2>3. job # None
    BY <1>1, JobsAssumption DEF TypeOK, Jobs
  <2>4. KnowsItsJob(w)'
    BY <1>4, <1>5, <2>1, <2>3, QuietStep DEF KnowsItsJob, Current
  <2> QED
    BY <2>1, <2>2, <2>4
<1>6. CASE AddJob(w)
  <2>1. /\ TypeOK' /\ UNCHANGED <<return, tested>> /\ copy'[w] = None
        /\ copy[w] \in Jobs /\ m_job'[w] = Added(m_job[w], copy[w])
        /\ return[w] \in {"Inner", "Outer"} /\ pc'[w] \in {return[w], "DrawFirst"}
    BY <1>6, AddStep
  <2>2. copy[w] # None /\ copy[w] \in sent /\ Index(copy[w]) \in 0..1
    BY <1>4, <2>1, JobsAssumption DEF SlotsOfPools, Jobs, Index
  <2>3. Current(w)' = copy[w]
    BY <1>4, <2>1, JobAdded DEF Current
  <2>4. KnowsItsJob(w)'
    BY <2>1, <2>2, <2>3 DEF KnowsItsJob
  <2>5. ASSUME NEW i \in 0..1, m_job'[w].jobs[i] # None
        PROVE  m_job'[w].jobs[i] \in sent /\ Index(m_job'[w].jobs[i]) = i
    <3>1. CASE m_job'[w].jobs[i] = m_job[w].jobs[i]
      BY <1>4, <2>5, <3>1 DEF SlotsOfPools
    <3>2. CASE m_job'[w].jobs[i] # m_job[w].jobs[i]
      <4>1. m_job'[w].index = Index(copy[w]) /\ i = Index(copy[w])
        BY <1>4, <2>1, <3>2, JobAdded
      <4>2. m_job'[w].jobs[i] = copy[w]
        BY <2>3, <4>1 DEF Current
      <4> QED
        BY <2>2, <4>1, <4>2
    <3> QED
      BY <3>1, <3>2
  <2>6. SlotsOfPools(w)' /\ TestedWereSent'
    BY <1>2, <1>4, <2>1, <2>5 DEF SlotsOfPools, TestedWereSent
  <2> QED
    BY <2>1, <2>4, <2>6
<1>7. CASE DrawFirst(w) \/ DrawNext(w)
  <2>1. PICK i \in 0..1 : i = m_job[w].index
    BY <1>4
  <2>2. /\ TypeOK' /\ UNCHANGED <<outdated, copy, tested>>
        /\ m_job'[w].index = m_job[w].index /\ m_job'[w].jobs = m_job[w].jobs
        /\ pc[w] \in {"DrawFirst", "DrawNext"}
        /\ pc'[w] \notin {"Add", "DrawFirst"}
        /\ pc'[w] = "Copy" => return'[w] # "Test"
    BY <1>7, <2>1, DrawStep
  <2>3. SlotsOfPools(w)' /\ TestedWereSent'
    BY <1>2, <1>4, <2>2 DEF SlotsOfPools, TestedWereSent
  <2>4. KnowsItsJob(w)'
    BY <1>4, <2>2 DEF KnowsItsJob, Current
  <2> QED
    BY <2>2, <2>3, <2>4
<1>8. CASE Inner(w) /\ ~outdated[w]
  <2>1. PICK i \in 0..1 : i = m_job[w].index
    BY <1>4
  <2>2. /\ TypeOK' /\ UNCHANGED <<outdated, copy, tested>>
        /\ m_job'[w].index = m_job[w].index /\ m_job'[w].jobs = m_job[w].jobs
        /\ pc'[w] \in {"DrawNext", "Test"}
    BY <1>8, <2>1, HashStep
  <2>3. SlotsOfPools(w)' /\ TestedWereSent'
    BY <1>2, <1>4, <2>2 DEF SlotsOfPools, TestedWereSent
  <2>4. KnowsItsJob(w)'
    BY <1>4, <1>8, <2>2 DEF KnowsItsJob, Current
  <2> QED
    BY <2>2, <2>3, <2>4
<1>9. CASE Test(w)
  <2>1. /\ TypeOK' /\ UNCHANGED <<outdated, copy, m_job>>
        /\ pc[w] = "Test" /\ pc'[w] = "Inner"
        /\ tested' = tested \cup {<<Current(w), hashing[w]>>}
    BY <1>9, TestStep
  <2>2. Current(w) # None
    BY <1>4, <2>1 DEF KnowsItsJob
  <2>3. Current(w) \in sent
    BY <1>4, <2>2 DEF SlotsOfPools, Current
  <2>4. SlotsOfPools(w)' /\ TestedWereSent'
    BY <1>2, <1>4, <2>1, <2>3 DEF SlotsOfPools, TestedWereSent
  <2>5. KnowsItsJob(w)'
    BY <1>4, <2>1, <2>2 DEF KnowsItsJob, Current
  <2> QED
    BY <2>1, <2>4, <2>5
<1> QED
  BY <1>5, <1>6, <1>7, <1>8, <1>9 DEF Worker

LEMMA StutterBasic ==
  ASSUME Basic, UNCHANGED vars
  PROVE  Basic'
BY DEF Basic, TypeOK, KnowsItsJob, SlotsOfPools, JobsWereSent, TestedWereSent, Current,
       vars, minerVars, workerVars

(* Basic is inductive, whatever the constants are.                         *)
LEMMA SpecBasic == Spec => []Basic
<1>1. Basic /\ [Next]_vars => Basic'
  BY LoopBasic, WorkerBasic, StutterBasic DEF Next
<1> QED
  BY InitBasic, <1>1, PTL DEF Spec

(* The counters, the nonces and the rounds of every worker keep to their   *)
(* widths, also when the nonces of a job are used up, jobs overtake the    *)
(* workers and the user pauses.                                            *)
THEOREM TypeCorrect == Spec => []TypeOK
<1>1. Basic => TypeOK
  BY DEF Basic
<1> QED
  BY SpecBasic, <1>1, PTL

-----------------------------------------------------------------------------
(* Who gets to mine a replaced job.                                        *)
(* The event loop leaves nobody stale: a new job comes with a touch.       *)
LEMMA LoopTells ==
  ASSUME Basic, NEW w \in Workers, ~Stale(w),
         \/ \E j \in Jobs : SetJob(j)
         \/ \E e \in BOOLEAN : SetEnabled(e)
         \/ PoolLost
         \/ EventLoop
  PROVE  ~Stale(w)'
<1>1. TypeOK /\ todo \in Seq(Writes)
  BY DEF Basic
<1>2. /\ Stale(w) <=> ~outdated[w] /\ ~Has(todo, "Touch") /\ Current(w) # job
      /\ Stale(w)' <=> ~outdated'[w] /\ ~Has(todo', "Touch") /\ Current(w)' # job'
  BY DEF Stale, Has
<1>3. CASE \E j \in Jobs : SetJob(j)
  <2>1. PICK j \in Jobs : SetJob(j)
    BY <1>3
  <2>2. Has(todo', "Touch")
    BY <2>1, JobChangeList DEF SetJob
  <2> QED
    BY <1>2, <2>2
<1>4. CASE (\E e \in BOOLEAN : SetEnabled(e)) \/ PoolLost
  <2>1. todo = << >> /\ UNCHANGED <<job, outdated, workerVars>>
    BY <1>4 DEF SetEnabled, PoolLost, Idle
  <2>2. ~Has(todo, "Touch")
    BY <2>1, ShortLists
  <2> QED
    BY <1>2, <2>1, <2>2 DEF workerVars, Current
<1>5. CASE EventLoop
  <2>1. /\ todo # << >> /\ todo' = Tail(todo) /\ UNCHANGED <<job, workerVars>>
        /\ \/ Head(todo) # "Touch" /\ outdated' = outdated
           \/ outdated' = [v \in Workers |-> TRUE]
    BY <1>5 DEF EventLoop, Idle, minerVars
  <2>2. Head(todo) # "Touch" => (Has(todo', "Touch") <=> Has(todo, "Touch"))
    BY <1>1, <2>1, TailOfList
  <2> QED
    BY <1>2, <2>1, <2>2 DEF workerVars, Current
<1> QED
  BY <1>3, <1>4, <1>5

(* A worker gets stale by taking up a copy that was replaced, for no other *)
(* step of it changes the job it is on or the sequence it compares with.   *)
LEMMA WorkerGetsStale ==
  ASSUME Basic, NEW w \in Workers, ~Stale(w), NEW v \in Workers, Worker(v), Stale(w)'
  PROVE  pc[w] = "Add" /\ copy[w] # job
<1>1. TypeOK
  BY DEF Basic
<1>2. UNCHANGED <<minerVars, todo>>
  BY <1>1, OthersStay
<1>3. /\ Stale(w) <=> ~outdated[w] /\ ~Has(todo, "Touch") /\ Current(w) # job
      /\ Stale(w)' <=> ~outdated'[w] /\ ~Has(todo, "Touch") /\ Current(w)' # job
  BY <1>2 DEF Stale, Has, minerVars
<1>4. CASE v # w
  BY <1>1, <1>3, <1>4, OthersStay DEF Current
<1>5. CASE v = w
  <2>1. m_job[w].index \in 0..1 /\ m_job[w] \in WorkerJob
    BY <1>1, Slot
  <2>2. CASE AddJob(w)
    <3>1. pc[w] = "Add" /\ copy[w] \in Jobs /\ m_job'[w] = Added(m_job[w], copy[w])
      BY <2>2, AddStep
    <3>2. Current(w)' = copy[w]
      BY <2>1, <3>1, JobAdded DEF Current
    <3> QED
      BY <1>3, <3>1, <3>2
  <2>3. CASE Outer(w) \/ Wake(w) \/ CopyJob(w) \/ Pausing(w) \/ (Inner(w) /\ outdated[w])
    BY <1>3, <2>3, QuietStep DEF Current
  <2>4. PICK i \in 0..1 : i = m_job[w].index
    BY <2>1
  <2>5. CASE DrawFirst(w) \/ DrawNext(w)
    BY <1>3, <2>4, <2>5, DrawStep DEF Current
  <2>6. CASE Inner(w) /\ ~outdated[w]
    BY <1>3, <2>4, <2>6, HashStep DEF Current
  <2>7. CASE Test(w)
    BY <1>3, <2>7, TestStep DEF Current
  <2> QED
    BY <1>5, <2>2, <2>3, <2>5, <2>6, <2>7 DEF Worker
<1> QED
  BY <1>4, <1>5

(* A worker takes a replaced job for the current one only if consumeJob()  *)
(* copied the job before Miner::setJob() replaced it and read the sequence *)
(* after the touch, however the jobs overtake the workers.                 *)
THEOREM StaleByLateCopy == Spec => OnlyLateCopiesAreStale
<1> DEFINE LateCopy == \A w \in Workers :
                         ~Stale(w) /\ Stale(w)' => pc[w] = "Add" /\ copy[w] # job
<1>1. Basic /\ [Next]_vars => [LateCopy]_vars
  BY LoopTells, WorkerGetsStale DEF Next
<1> QED
  BY <1>1, SpecBasic, PTL DEF Spec, OnlyLateCopiesAreStale

-----------------------------------------------------------------------------
(* The nonces stay within the pool's byte while there are any.             *)
LEMMA LoopLeavesWorkers ==
  ASSUME \/ \E j \in Jobs : SetJob(j)
         \/ \E e \in BOOLEAN : SetEnabled(e)
         \/ PoolLost
         \/ EventLoop
         \/ UNCHANGED vars
  PROVE  UNCHANGED workerVars
BY DEF SetJob, SetEnabled, PoolLost, EventLoop, vars

LEMMA InByteStep ==
  ASSUME Basic, ~Exhaustible, InByte, [Next]_vars
  PROVE  InByte'
<1>1. TypeOK
  BY DEF Basic
<1>2. CASE UNCHANGED workerVars
  BY <1>2 DEF InByte, HashInByte, SlotInByte, HasHash, Draws, Here, workerVars
<1>3. ASSUME NEW w \in Workers, Worker(w)
      PROVE  InByte'
  <2>1. ASSUME NEW v \in Workers, v # w
        PROVE  /\ HashInByte(v)'
               /\ \A i \in 0..1 : m_job'[v].jobs[i] # None => SlotInByte(v, i)'
    <3>1. /\ pc'[v] = pc[v] /\ return'[v] = return[v]
          /\ m_job'[v] = m_job[v] /\ hashing'[v] = hashing[v]
      BY <1>1, <1>3, <2>1, OthersStay
    <3> QED
      BY <3>1 DEF InByte, HashInByte, SlotInByte, HasHash, Draws, Here
  <2> SUFFICES /\ HashInByte(w)'
               /\ \A i \in 0..1 : m_job'[w].jobs[i] # None => SlotInByte(w, i)'
               /\ \A t \in tested' : t[2] \in Byte
    BY <2>1 DEF InByte
  <2>2. /\ HashInByte(w) /\ \A t \in tested : t[2] \in Byte
        /\ \A i \in 0..1 : m_job[w].jobs[i] # None => SlotInByte(w, i)
        /\ KnowsItsJob(w) /\ m_job[w] \in WorkerJob
        /\ \A i \in 0..1 : /\ m_job[w].nonce[i] \in 0..(Word - 1)
                           /\ m_job[w].rounds[i] \in 0..(Reserve - 1)
                           /\ counter[i] \in 0..(Mask + 1 + Reserve)
    BY <1>1, Slot DEF InByte, Basic
  <2>3. PICK x \in 0..1 : x = m_job[w].index
    BY <1>1, Slot
  <2>4. CASE Outer(w) \/ Wake(w) \/ CopyJob(w) \/ Pausing(w) \/ (Inner(w) /\ outdated[w])
    <3>1. UNCHANGED <<m_job, hashing, tested>> /\ (HasHash(w)' <=> HasHash(w))
      BY <2>4, QuietStep
    <3>2. ~Draws(w) /\ ~Draws(w)'
      BY <2>4, QuietStep DEF Draws
    <3>3. ASSUME NEW i \in 0..1, m_job'[w].jobs[i] # None
          PROVE  SlotInByte(w, i)'
      BY <2>2, <3>1, <3>2, <3>3 DEF SlotInByte, Draws
    <3> QED
      BY <2>2, <3>1, <3>3 DEF HashInByte
  <2>5. CASE AddJob(w)
    <3>1. /\ UNCHANGED <<hashing, tested>> /\ copy[w] \in Jobs
          /\ m_job'[w] = Added(m_job[w], copy[w]) /\ ~HasHash(w)'
          /\ ~Draws(w) /\ pc'[w] # "DrawNext"
          /\ Draws(w)' => copy[w] # Current(w) /\ ~ReturnsTo(m_job[w], copy[w])
      BY <2>5, AddStep DEF Draws
    <3>2. ASSUME NEW i \in 0..1, m_job'[w].jobs[i] # None
          PROVE  SlotInByte(w, i)'
      <4>1. CASE /\ m_job'[w].nonce[i] = Base /\ m_job'[w].rounds[i] = 0
        BY <3>1, <4>1, Sizes, NonceAssumption DEF SlotInByte
      <4>2. CASE /\ m_job'[w].jobs[i] = m_job[w].jobs[i]
                 /\ m_job'[w].nonce[i] = m_job[w].nonce[i]
                 /\ m_job'[w].rounds[i] = m_job[w].rounds[i]
                 /\ ~(Draws(w)' /\ Here(w, i)')
        BY <2>2, <3>1, <3>2, <4>2 DEF SlotInByte, Draws
      <4> DEFINE k == Index(copy[w])
      <4>3. CASE copy[w] = Current(w) \/ ReturnsTo(m_job[w], copy[w])
        <5>1. /\ m_job'[w].jobs = m_job[w].jobs /\ m_job'[w].nonce = m_job[w].nonce
              /\ m_job'[w].rounds = m_job[w].rounds
          BY <2>2, <3>1, <4>3, JobAdded DEF Current
        <5> QED
          BY <3>1, <4>2, <4>3, <5>1
      <4>4. CASE ~(copy[w] = Current(w) \/ ReturnsTo(m_job[w], copy[w]))
        <5>1. /\ m_job'[w].index = k /\ m_job'[w].nonce[k] = Base /\ m_job'[w].rounds[k] = 0
              /\ i # k => /\ m_job'[w].jobs[i] = m_job[w].jobs[i]
                          /\ m_job'[w].nonce[i] = m_job[w].nonce[i]
                          /\ m_job'[w].rounds[i] = m_job[w].rounds[i]
          BY <2>2, <3>1, <4>4, JobAdded DEF Current
        <5> HIDE DEF k
        <5> QED
          BY <4>1, <4>2, <5>1 DEF Here
      <4> QED
        BY <4>3, <4>4
    <3> QED
      BY <2>2, <3>1, <3>2 DEF HashInByte
  <2>6. CASE DrawFirst(w) \/ DrawNext(w)
    <3>1. /\ UNCHANGED <<hashing, tested>> /\ InRange(counter[x])
          /\ m_job'[w].index = x /\ m_job'[w].jobs = m_job[w].jobs
          /\ m_job'[w].rounds = m_job[w].rounds
          /\ \A k \in 0..1 : k # x => m_job'[w].nonce[k] = m_job[w].nonce[k]
          /\ m_job'[w].nonce[x] = Drawn(m_job[w].nonce[x], counter[x])
          /\ Draws(w) /\ ~Draws(w)' /\ (HasHash(w)' => HasHash(w))
      BY <2>3, <2>6, DrawStep DEF Draws, HasHash
    <3>2. m_job[w].jobs[x] # None
      BY <2>2, <2>3, <3>1 DEF KnowsItsJob, Draws, Current
    <3>3. m_job[w].rounds[x] = 0 /\ m_job[w].nonce[x] \in Byte
      <4>1. SlotInByte(w, x)
        BY <2>2, <3>2
      <4> QED
        BY <2>2, <2>3, <3>1, <4>1, Sizes, NonceAssumption DEF SlotInByte, Byte, Here
    <3>4. counter[x] \in 0..Mask /\ counter[x] + Reserve - 1 <= Mask
      BY <2>2, <3>1, CounterType
    <3>5. m_job'[w].nonce[x] = Base + counter[x] /\ m_job'[w].rounds[x] = 0
      BY <2>2, <3>1, <3>3, <3>4, DrawnNonce
    <3>6. SlotInByte(w, x)'
      BY <3>1, <3>4, <3>5, Sizes, NonceAssumption DEF SlotInByte, Draws
    <3>7. ASSUME NEW i \in 0..1, i # x, m_job'[w].jobs[i] # None
          PROVE  SlotInByte(w, i)'
      <4>1. SlotInByte(w, i)
        BY <2>2, <3>1, <3>7
      <4> QED
        BY <2>3, <3>1, <3>7, <4>1 DEF SlotInByte, Here, Draws
    <3> QED
      BY <2>2, <3>1, <3>6, <3>7 DEF HashInByte
  <2>7. CASE Inner(w) /\ ~outdated[w]
    <3> DEFINE n == m_job[w].nonce[x]
               r == m_job[w].rounds[x]
    <3>1. /\ UNCHANGED tested
          /\ pc[w] = "Inner" /\ hashing'[w] = n
          /\ m_job'[w].index = x /\ m_job'[w].jobs = m_job[w].jobs
          /\ \A k \in 0..1 : k # x => /\ m_job'[w].nonce[k] = m_job[w].nonce[k]
                                      /\ m_job'[w].rounds[k] = m_job[w].rounds[k]
          /\ IF r = Reserve - 1
             THEN pc'[w] = "DrawNext" /\ m_job'[w].rounds[x] = 0 /\ m_job'[w].nonce[x] = n
             ELSE /\ pc'[w] = "Test" /\ m_job'[w].rounds[x] = r + 1
                  /\ m_job'[w].nonce[x] = (n + 1) % Word
      BY <2>3, <2>7, HashStep
    <3>2. m_job[w].jobs[x] # None
      BY <2>2, <2>3, <2>7 DEF KnowsItsJob, Current
    <3>3. Base <= n - r /\ n - r + Reserve - 1 <= Base + Mask
      BY <2>2, <3>1, <3>2 DEF SlotInByte
    <3>4. n \in Byte /\ (n + 1) % Word = n + 1 /\ r \in 0..(Reserve - 1)
      <4>1. n \in 0..(Word - 1) /\ r \in 0..(Reserve - 1)
        BY <2>2
      <4> HIDE DEF n, r
      <4> QED
        BY <3>3, <4>1, NextNonce
    <3>5. SlotInByte(w, x)'
      <4> HIDE DEF n, r
      <4>1. CASE r = Reserve - 1
        BY <3>1, <3>4, <4>1 DEF SlotInByte, Here
      <4>2. CASE r # Reserve - 1
        <5>1. m_job'[w].nonce[x] - m_job'[w].rounds[x] = n - r /\ pc'[w] = "Test"
          BY <3>1, <3>4, <4>2, Sizes DEF Byte
        <5> QED
          BY <3>3, <5>1 DEF SlotInByte, Draws
      <4> QED
        BY <4>1, <4>2
    <3>6. ASSUME NEW i \in 0..1, i # x, m_job'[w].jobs[i] # None
          PROVE  SlotInByte(w, i)'
      <4>1. SlotInByte(w, i)
        BY <2>2, <3>1, <3>6
      <4> QED
        BY <2>3, <3>1, <3>6, <4>1 DEF SlotInByte, Here, Draws
    <3> QED
      BY <2>2, <3>1, <3>4, <3>5, <3>6 DEF HashInByte
  <2>8. CASE Test(w)
    <3>1. /\ UNCHANGED m_job /\ pc[w] = "Test" /\ pc'[w] = "Inner"
          /\ tested' = tested \cup {<<Current(w), hashing[w]>>}
      BY <2>8, TestStep
    <3>2. hashing[w] \in Byte /\ ~HasHash(w)'
      BY <2>2, <3>1 DEF HashInByte, HasHash
    <3>3. ASSUME NEW i \in 0..1, m_job'[w].jobs[i] # None
          PROVE  SlotInByte(w, i)'
      BY <2>2, <3>1, <3>3 DEF SlotInByte, Draws
    <3> QED
      BY <2>2, <3>1, <3>2, <3>3 DEF HashInByte
  <2> QED
    BY <1>3, <2>4, <2>5, <2>6, <2>7, <2>8 DEF Worker
<1> QED
  BY <1>2, <1>3, LoopLeavesWorkers DEF Next

LEMMA InitInByte == Init => InByte
<1> SUFFICES ASSUME Init PROVE InByte
  OBVIOUS
<1>1. ASSUME NEW w \in Workers
      PROVE  ~HasHash(w) /\ \A i \in 0..1 : m_job[w].jobs[i] = None
  BY DEF Init, HasHash
<1>2. tested = {}
  BY DEF Init
<1> QED
  BY <1>1, <1>2 DEF InByte, HashInByte

(* As long as the nonces last, every range lies in its pool's byte.        *)
LEMMA SpecInByte == ~Exhaustible => (Spec => []InByte)
<1> SUFFICES ASSUME ~Exhaustible PROVE Spec => []InByte
  OBVIOUS
<1>1. Basic /\ InByte /\ [Next]_vars => InByte'
  BY InByteStep
<1> QED
  BY InitInByte, <1>1, SpecBasic, PTL DEF Spec

(* As long as the nonces last, the bits a nicehash pool gave are those of  *)
(* every nonce that is tested: *n += 1 does not carry into them.           *)
THEOREM NoncesFit == ~Exhaustible => (Spec => []NoNonceOverflow)
<1> SUFFICES ASSUME ~Exhaustible PROVE Spec => []NoNonceOverflow
  OBVIOUS
<1>1. Basic /\ InByte => NoNonceOverflow
  <2> SUFFICES ASSUME Basic, InByte, NEW t \in tested
               PROVE  t[2] \div (Mask + 1) = PoolByte
    BY DEF NoNonceOverflow
  <2>1. t[2] \in 0..(Word - 1) /\ t[2] \in Byte /\ 0 \in 0..Mask
    BY NonceAssumption DEF Basic, TypeOK, InByte
  <2> QED
    BY <2>1, DrawnNonce
<1> QED
  BY <1>1, SpecBasic, SpecInByte, PTL

-----------------------------------------------------------------------------
(* A slot that is of interest after a handler was before: the job that     *)
(* comes is nobody's yet, or is the user's.                                *)
LEMMA NewestStay ==
  ASSUME Basic, [Next]_vars
  PROVE  \A j : Newest(j)' => Newest(j) \/ (j \notin sent /\ Idle /\ UNCHANGED workerVars)
<1> SUFFICES ASSUME NEW j, Newest(j)'
             PROVE  Newest(j) \/ (j \notin sent /\ Idle /\ UNCHANGED workerVars)
  OBVIOUS
<1>1. CASE \E k \in Jobs : SetJob(k)
  <2>1. PICK k \in Jobs : SetJob(k)
    BY <1>1
  <2>2. Idle /\ UNCHANGED workerVars /\ job' = k /\ userJob' \in {k, userJob}
    BY <2>1 DEF SetJob
  <2>3. k \notin sent \/ k = userJob
    BY <2>1 DEF SetJob
  <2> QED
    BY <2>2, <2>3 DEF Newest
<1>2. CASE (\E e \in BOOLEAN : SetEnabled(e)) \/ PoolLost \/ EventLoop \/ UNCHANGED vars
  BY <1>2 DEF SetEnabled, PoolLost, EventLoop, Newest, vars, minerVars
<1>3. CASE \E w \in Workers : Worker(w)
  BY <1>3, OthersStay DEF Newest, minerVars, Basic
<1> QED
  BY <1>1, <1>2, <1>3 DEF Next

LEMMA HoldsStay ==
  ASSUME Basic, [Next]_vars, NEW v \in Workers, NEW i \in 0..1,
         m_job'[v].jobs[i] = m_job[v].jobs[i], Holds(v, i)'
  PROVE  Holds(v, i)
<1>1. m_job[v].jobs[i] # None /\ Newest(m_job[v].jobs[i])'
  BY DEF Holds, Newest
<1>2. m_job[v].jobs[i] \in sent
  BY <1>1 DEF Basic, SlotsOfPools
<1> QED
  BY <1>1, <1>2, NewestStay DEF Holds

LEMMA GaplessStep ==
  ASSUME Basic, ~Exhaustible, InByte, AllGapless, [Next]_vars
  PROVE  AllGapless'
<1> SUFFICES ASSUME NEW v \in Workers, NEW i \in 0..1, Holds(v, i)'
             PROVE  Gapless(v, i)'
  BY DEF AllGapless
<1>1. TypeOK /\ (Holds(v, i) => Gapless(v, i))
  BY DEF Basic, AllGapless
<1>2. CASE UNCHANGED workerVars
  <2>1. UNCHANGED <<m_job, tested, pc, hashing>>
    BY <1>2 DEF workerVars
  <2>2. Holds(v, i)
    BY <2>1, HoldsStay
  <2> QED
    BY <1>1, <2>1, <2>2 DEF Gapless, Here
<1>3. ASSUME NEW w \in Workers, Worker(w), tested \subseteq tested', v # w
      PROVE  Gapless(v, i)'
  <2>1. /\ pc'[v] = pc[v] /\ m_job'[v] = m_job[v] /\ hashing'[v] = hashing[v]
    BY <1>1, <1>3, OthersStay
  <2>2. Holds(v, i)
    BY <2>1, HoldsStay
  <2> QED
    BY <1>1, <1>3, <2>1, <2>2 DEF Gapless, Here
<1>4. ASSUME NEW w \in Workers, Worker(w)
      PROVE  Gapless(v, i)'
  <2>1. /\ m_job[v] \in WorkerJob /\ KnowsItsJob(v)
        /\ \A k \in 0..1 : /\ m_job[v].nonce[k] \in 0..(Word - 1)
                           /\ m_job[v].rounds[k] \in 0..(Reserve - 1)
                           /\ m_job[v].jobs[k] # None => SlotInByte(v, k)
    BY <1>1, Slot DEF InByte, Basic
  <2>2. PICK x \in 0..1 : x = m_job[v].index
    BY <1>1, Slot
  <2>3. tested \subseteq tested'
    <3>1. CASE Test(w)
      BY <3>1, TestStep
    <3>2. CASE ~Test(w)
      BY <1>4, <3>2 DEF Worker, Outer, Wake, CopyJob, AddJob, DrawFirst, Inner, DrawNext, Pausing
    <3> QED
      BY <3>1, <3>2
  <2>4. CASE v # w
    BY <1>3, <1>4, <2>3, <2>4
  <2>5. ASSUME /\ m_job'[v].jobs[i] = m_job[v].jobs[i]
               /\ m_job'[v].nonce[i] = m_job[v].nonce[i]
               /\ m_job'[v].rounds[i] = m_job[v].rounds[i]
               /\ pc[v] # "Test" \/ (i # x /\ Here(v, i)' = Here(v, i))
        PROVE  Gapless(v, i)'
    <3>1. Holds(v, i)
      BY <2>5, HoldsStay
    <3> QED
      BY <1>1, <2>2, <2>3, <2>5, <3>1 DEF Gapless, Here
  <2>6. ASSUME m_job'[v].rounds[i] = 0, m_job'[v].nonce[i] \in Int
        PROVE  Gapless(v, i)'
    BY <2>6 DEF Gapless
  <2>7. CASE v = w
    <3>1. CASE Outer(w) \/ Wake(w) \/ CopyJob(w) \/ Pausing(w) \/ (Inner(w) /\ outdated[w])
      <4>1. m_job' = m_job /\ pc[w] # "Test"
        BY <3>1, QuietStep
      <4> QED
        BY <2>5, <2>7, <4>1
    <3>2. CASE AddJob(w)
      <4>1. /\ copy[w] \in Jobs /\ pc[w] = "Add"
            /\ m_job'[w] = Added(m_job[w], copy[w])
        BY <3>2, AddStep
      <4> DEFINE k == Index(copy[w])
      <4>2. k \in 0..1 /\ Base \in Int
        BY Sizes DEF Index
      <4>3. \/ m_job'[w].nonce[i] = Base /\ m_job'[w].rounds[i] = 0
            \/ /\ m_job'[w].jobs[i] = m_job[w].jobs[i]
               /\ m_job'[w].nonce[i] = m_job[w].nonce[i]
               /\ m_job'[w].rounds[i] = m_job[w].rounds[i]
        <5>1. CASE copy[w] = m_job[w].jobs[m_job[w].index]
          BY <2>1, <2>7, <4>1, <5>1, JobAdded
        <5>2. CASE copy[w] # m_job[w].jobs[m_job[w].index] /\ ReturnsTo(m_job[w], copy[w])
          BY <2>1, <2>7, <4>1, <5>2, JobAdded
        <5>3. CASE copy[w] # m_job[w].jobs[m_job[w].index] /\ ~ReturnsTo(m_job[w], copy[w])
          <6>1. /\ m_job'[w].nonce[k] = Base /\ m_job'[w].rounds[k] = 0
                /\ i # k => /\ m_job'[w].jobs[i] = m_job[w].jobs[i]
                            /\ m_job'[w].nonce[i] = m_job[w].nonce[i]
                            /\ m_job'[w].rounds[i] = m_job[w].rounds[i]
            BY <2>1, <2>7, <4>1, <5>3, JobAdded
          <6> HIDE DEF k
          <6> QED
            BY <6>1
        <5> QED
          BY <5>1, <5>2, <5>3
      <4> QED
        BY <2>5, <2>6, <2>7, <4>1, <4>2, <4>3
    <3>3. CASE DrawFirst(w) \/ DrawNext(w)
      <4>1. /\ m_job'[w].jobs = m_job[w].jobs /\ m_job'[w].rounds = m_job[w].rounds
            /\ \A k \in 0..1 : k # x => m_job'[w].nonce[k] = m_job[w].nonce[k]
            /\ m_job'[w] \in WorkerJob
            /\ Draws(w) /\ pc[w] # "Test"
        <5>1. TypeOK'
          BY <2>2, <2>7, <3>3, DrawStep
        <5>2. m_job'[w] \in WorkerJob
          BY <5>1 DEF TypeOK
        <5> QED
          BY <2>2, <2>7, <3>3, <5>2, DrawStep DEF Draws
      <4>2. CASE i = x
        <5>1. m_job[w].jobs[i] # None
          BY <2>7, <4>1 DEF Holds
        <5>2. m_job'[w].rounds[i] = 0
          BY <2>1, <2>2, <2>7, <4>1, <4>2, <5>1 DEF SlotInByte, Here
        <5>3. m_job'[w].nonce[i] \in Int
          BY <4>1, Sizes DEF WorkerJob
        <5> QED
          BY <2>6, <2>7, <5>2, <5>3
      <4>3. CASE i # x
        BY <2>5, <2>7, <4>1, <4>3
      <4> QED
        BY <4>2, <4>3
    <3>4. CASE Inner(w) /\ ~outdated[w]
      <4> DEFINE n == m_job[w].nonce[x]
                 r == m_job[w].rounds[x]
      <4>1. /\ UNCHANGED tested
            /\ pc[w] = "Inner" /\ hashing'[w] = n
            /\ m_job'[w].index = x /\ m_job'[w].jobs = m_job[w].jobs
            /\ \A k \in 0..1 : k # x => /\ m_job'[w].nonce[k] = m_job[w].nonce[k]
                                        /\ m_job'[w].rounds[k] = m_job[w].rounds[k]
            /\ IF r = Reserve - 1
               THEN pc'[w] = "DrawNext" /\ m_job'[w].rounds[x] = 0 /\ m_job'[w].nonce[x] = n
               ELSE /\ pc'[w] = "Test" /\ m_job'[w].rounds[x] = r + 1
                    /\ m_job'[w].nonce[x] = (n + 1) % Word
        BY <2>2, <2>7, <3>4, HashStep
      <4>2. CASE i # x
        BY <2>5, <2>7, <4>1, <4>2
      <4>3. CASE i = x
        <5>1. m_job[w].jobs[x] # None
          BY <2>7, <4>1, <4>3 DEF Holds
        <5>2. /\ Base <= n - r /\ n - r + Reserve - 1 <= Base + Mask
              /\ n \in 0..(Word - 1) /\ r \in 0..(Reserve - 1)
          BY <2>1, <2>7, <4>1, <5>1 DEF SlotInByte
        <5>3. CASE r = Reserve - 1
          BY <2>6, <2>7, <4>1, <4>3, <5>2, <5>3, Sizes
        <5>4. CASE r # Reserve - 1
          <6> HIDE DEF n, r
          <6>1. m_job'[w].nonce[x] = n + 1
            BY <4>1, <5>2, <5>4, NextNonce
          <6>2. Holds(w, i) /\ Gapless(w, i)
            BY <1>1, <2>7, <4>1, HoldsStay
          <6>3. SUFFICES ASSUME NEW k \in (n - r)..n
                         PROVE  <<m_job[w].jobs[x], k>> \in tested \/ k = n
            <7>1. m_job'[w].rounds[x] = r + 1 /\ pc'[w] = "Test"
              BY <4>1, <5>4
            <7>2. (m_job'[w].nonce[x] - m_job'[w].rounds[x])..(m_job'[w].nonce[x] - 1)
                    = (n - r)..n
              BY <5>2, <6>1, <7>1, Sizes
            <7> QED
              BY <2>7, <4>1, <4>3, <7>1, <7>2 DEF Gapless, Here
          <6>4. k = n \/ k \in (n - r)..(n - 1)
            BY <5>2, Sizes
          <6> QED
            BY <4>1, <4>3, <6>2, <6>4 DEF Gapless, n, r
        <5> QED
          BY <5>3, <5>4
      <4> QED
        BY <4>2, <4>3
    <3>5. CASE Test(w)
      <4>1. /\ UNCHANGED m_job /\ pc[w] = "Test" /\ pc'[w] = "Inner"
            /\ tested' = tested \cup {<<Current(w), hashing[w]>>}
        BY <3>5, TestStep
      <4>2. Holds(w, i) /\ Gapless(w, i)
        BY <1>1, <2>7, <4>1, HoldsStay
      <4> QED
        BY <2>7, <4>1, <4>2 DEF Gapless, Here, Current
    <3> QED
      BY <1>4, <2>7, <3>1, <3>2, <3>3, <3>4, <3>5 DEF Worker
  <2> QED
    BY <2>4, <2>7
<1> QED
  BY <1>2, <1>4, LoopLeavesWorkers DEF Next

LEMMA InitGapless == Init => AllGapless
BY DEF Init, AllGapless, Holds

(* Within a range no nonce is skipped: those a worker has passed are       *)
(* tested or about to be, whichever jobs came in between.                  *)
THEOREM NoGaps == ~Exhaustible => (Spec => []RangesAreGapless)
<1> SUFFICES ASSUME ~Exhaustible PROVE Spec => []RangesAreGapless
  OBVIOUS
<1>1. Basic /\ InByte /\ AllGapless /\ [Next]_vars => AllGapless'
  BY GaplessStep
<1>2. AllGapless => RangesAreGapless
  BY DEF AllGapless, RangesAreGapless, Gapless, Holds, Here
<1> QED
  BY InitGapless, <1>1, <1>2, SpecBasic, SpecInByte, PTL DEF Spec

-----------------------------------------------------------------------------
(* Until a counter is reset the workers stay where they are.               *)
LEMMA ResetStep ==
  ASSUME Basic, ~Hasty, ~Exhaustible, ResetInTime, [Next]_vars
  PROVE  ResetInTime'
<1> SUFFICES ASSUME Has(todo', "Reset")
             PROVE  /\ \A w \in Workers : Waits(w)' /\ \A i \in 0..1 : m_job'[w].jobs[i] # job'
                    /\ \A t \in tested' : t[1] # job'
  BY DEF ResetInTime
<1> DEFINE Untouched(j) == /\ \A w \in Workers : \A i \in 0..1 : m_job[w].jobs[i] # j
                           /\ \A t \in tested : t[1] # j
<1>1. TypeOK /\ todo \in Seq(Writes) /\ Ordered(todo)
  BY DEF Basic
<1>2. Has(todo, "Reset") => (\A w \in Workers : Waits(w)) /\ Untouched(job)
  BY DEF ResetInTime
<1>3. CASE \E j \in Jobs : SetJob(j)
  <2>1. PICK j \in Jobs : SetJob(j)
    BY <1>3
  <2>2. Resets(j) /\ job' = j /\ UNCHANGED <<workerVars, paused, outdated>>
    BY <2>1, JobChangeList DEF SetJob
  <2>3. j \notin sent
    <3> SUFFICES ASSUME j \in sent PROVE FALSE
      OBVIOUS
    <3>1. Index(job) = 1 /\ j = userJob /\ j \in UserJobs
      BY <1>1, <2>1 DEF SetJob, TypeOK
    <3>2. Index(j) = 0
      BY <3>1, JobsAssumption DEF Index
    <3> QED
      BY <2>2, <3>1, <3>2 DEF Resets
  <2>4. j # None
    BY JobsAssumption DEF Jobs
  <2>5. Untouched(j)
    BY <2>3, <2>4 DEF Basic, SlotsOfPools, TestedWereSent
  <2>6. ASSUME NEW w \in Workers
        PROVE  Waits(w)'
    <3>1. Settled(w)
      BY <2>1 DEF SetJob
    <3> QED
      BY <2>2, <3>1 DEF Settled, Waits, workerVars
  <2> QED
    BY <2>2, <2>5, <2>6 DEF workerVars
<1>4. CASE (\E e \in BOOLEAN : SetEnabled(e)) \/ PoolLost
  <2>1. \/ todo' = <<"Unpause", "Touch">> \/ todo' = <<"Pause", "Touch">> \/ todo' = << >>
    BY <1>4 DEF SetEnabled, PoolLost
  <2> QED
    BY <2>1, ShortLists, PauseLists
<1>5. CASE EventLoop
  <2>1. /\ todo # << >> /\ todo' = Tail(todo)
        /\ UNCHANGED <<minerVars, workerVars>>
    BY <1>5 DEF EventLoop, Idle
  <2>2. Has(todo, "Reset") /\ Head(todo) \in {"Pause", "Reset"}
    BY <1>1, <2>1, TailOfList
  <2>3. outdated' = outdated /\ (paused => paused')
    <3>1. CASE Head(todo) = "Pause"
      <4>1. outdated' = outdated /\ paused' = (Head(todo) = "Pause")
        BY <1>5, <3>1 DEF EventLoop
      <4> QED
        BY <3>1, <4>1
    <3>2. CASE Head(todo) = "Reset"
      BY <1>5, <3>2 DEF EventLoop
    <3> QED
      BY <2>2, <3>1, <3>2
  <2>4. \A w \in Workers : Waits(w)'
    BY <1>2, <2>1, <2>2, <2>3 DEF Waits, workerVars
  <2> QED
    BY <1>2, <2>1, <2>2, <2>4 DEF workerVars, minerVars
<1>6. ASSUME NEW w \in Workers, Worker(w)
      PROVE  /\ \A v \in Workers : Waits(v)' /\ \A i \in 0..1 : m_job'[v].jobs[i] # job'
             /\ \A t \in tested' : t[1] # job'
  <2>1. UNCHANGED <<minerVars, todo>>
    BY <1>1, <1>6, OthersStay
  <2>2. /\ Has(todo, "Reset") /\ job' = job
        /\ (\A v \in Workers : Waits(v)) /\ Untouched(job)
    BY <1>2, <2>1 DEF minerVars
  <2>3. PICK x \in 0..1 : x = m_job[w].index
    BY <1>1, Slot
  <2>4. /\ paused => paused'
        /\ Waits(w)' /\ m_job'[w].jobs = m_job[w].jobs
        /\ \A t \in tested' : t[1] # job
    <3>1. CASE Outer(w) \/ Wake(w) \/ CopyJob(w) \/ Pausing(w) \/ (Inner(w) /\ outdated[w])
      <4>1. UNCHANGED <<outdated, m_job, tested>> /\ (paused => paused')
        BY <3>1, QuietStep
      <4>2. Waits(w) /\ pc[w] \in {"Outer", "Asleep", "Copy", "Pausing", "Inner"}
        BY <2>2, <3>1, QuietStep
      <4>3. Waits(w)'
        <5>1. CASE pc[w] \in {"Asleep", "Copy", "Inner"}
          BY <3>1, <4>2, <5>1, QuietStep DEF Waits
        <5>2. CASE pc[w] \in {"Outer", "Pausing"}
          BY <3>1, <4>1, <4>2, <5>2, QuietStep DEF Waits
        <5> QED
          BY <4>2, <5>1, <5>2
      <4> QED
        BY <2>2, <4>1, <4>3
    <3>2. CASE AddJob(w)
      <4>1. pc[w] = "Add"
        BY <3>2 DEF AddJob
      <4> QED
        BY <2>2, <4>1 DEF Waits
    <3>3. CASE DrawFirst(w)
      <4>1. pc[w] = "DrawFirst"
        BY <3>3 DEF DrawFirst
      <4> QED
        BY <2>2, <4>1 DEF Waits
    <3>4. CASE DrawNext(w)
      <4>1. /\ UNCHANGED <<paused, outdated, tested>>
            /\ m_job'[w].jobs = m_job[w].jobs /\ pc[w] = "DrawNext"
            /\ pc'[w] \in {"Pausing", "Test"}
        BY <2>3, <3>4, DrawStep
      <4> QED
        BY <2>2, <4>1 DEF Waits
    <3>5. CASE Inner(w) /\ ~outdated[w]
      <4>1. /\ UNCHANGED <<paused, outdated, tested>>
            /\ m_job'[w].jobs = m_job[w].jobs
            /\ pc'[w] \in {"DrawNext", "Test"}
        BY <2>3, <3>5, HashStep
      <4> QED
        BY <2>2, <3>5, <4>1 DEF Waits
    <3>6. CASE Test(w)
      <4>1. /\ UNCHANGED <<paused, outdated, m_job>>
            /\ pc[w] = "Test" /\ pc'[w] = "Inner"
            /\ tested' = tested \cup {<<Current(w), hashing[w]>>}
        BY <3>6, TestStep
      <4>2. Current(w) # job /\ Waits(w)
        BY <2>2, <2>3 DEF Current
      <4> QED
        BY <2>2, <4>1, <4>2 DEF Waits
    <3> QED
      BY <1>6, <3>1, <3>2, <3>3, <3>4, <3>5, <3>6 DEF Worker
  <2>5. ASSUME NEW v \in Workers
        PROVE  Waits(v)' /\ \A i \in 0..1 : m_job'[v].jobs[i] # job'
    <3>1. CASE v = w
      BY <2>2, <2>4, <3>1
    <3>2. CASE v # w
      <4>1. pc'[v] = pc[v] /\ outdated'[v] = outdated[v] /\ m_job'[v] = m_job[v]
        BY <1>1, <1>6, <3>2, OthersStay
      <4> QED
        BY <2>2, <2>4, <4>1 DEF Waits
    <3> QED
      BY <3>1, <3>2
  <2> QED
    BY <2>2, <2>4, <2>5
<1>7. CASE UNCHANGED vars
  <2>1. \A w \in Workers : Waits(w)' <=> Waits(w)
    BY <1>7 DEF Waits, vars, workerVars
  <2> QED
    BY <1>2, <1>7, <2>1 DEF vars, workerVars, minerVars
<1> QED
  BY <1>3, <1>4, <1>5, <1>6, <1>7 DEF Next

-----------------------------------------------------------------------------
(* No nonce is tested twice.                                               *)
LEMMA OpenType ==
  ASSUME TypeOK, NEW w \in Workers, NEW i \in 0..1
  PROVE  /\ Open(w, i) \subseteq Int /\ hashing[w] \in Int
         /\ Base \in Nat /\ counter[i] \in Nat
         /\ \A t \in tested : t = <<t[1], t[2]>> /\ t[2] \in Int /\ Index(t[1]) \in 0..1
<1>1. /\ m_job[w].nonce[i] \in Int /\ m_job[w].rounds[i] \in Int
      /\ hashing[w] \in Int /\ Base \in Nat /\ counter[i] \in Nat
  BY Slot, Sizes, NonceAssumption DEF TypeOK
<1>2. \A t \in tested : t = <<t[1], t[2]>> /\ t[2] \in Int /\ Index(t[1]) \in 0..1
  BY Sizes DEF TypeOK, Index
<1> QED
  BY <1>1, <1>2, NonceAssumption DEF Open, Unhashed

(* Steps that draw no range and test nothing.                              *)
LEMMA NothingOpens ==
  ASSUME Basic, OpenIsDrawn, OpenIsUntested, OpenIsMine, [Next]_vars, TypeOK', tested' = tested,
         \A w \in Workers : \A i \in 0..1 : Holds(w, i)' =>
           \/ Open(w, i)' = {}
           \/ /\ m_job'[w].jobs[i] = m_job[w].jobs[i] /\ Open(w, i)' = Open(w, i)
              /\ counter'[i] >= counter[i],
         \A w \in Workers : \A i \in 0..1 :
           Holds(w, i)' /\ HasHash(w)' /\ Here(w, i)' => hashing'[w] \notin Unhashed(w, i)',
         \A t \in tested : Newest(t[1])' => counter'[Index(t[1])] >= counter[Index(t[1])]
  PROVE  OpenIsDrawn' /\ OpenIsUntested' /\ OpenIsMine'
<1>1. TypeOK
  BY DEF Basic
<1>2. ASSUME NEW w \in Workers, NEW i \in 0..1, Holds(w, i)', NEW n \in Open(w, i)'
      PROVE  /\ Holds(w, i) /\ n \in Open(w, i) /\ m_job'[w].jobs[i] = m_job[w].jobs[i]
             /\ Open(w, i)' = Open(w, i) /\ counter'[i] >= counter[i]
  BY <1>2, HoldsStay
<1>3. OpenIsDrawn'
  <2>1. ASSUME NEW w \in Workers, NEW i \in 0..1, Holds(w, i)', NEW n \in Open(w, i)'
        PROVE  n < Drawable(i)'
    <3>1. n < Drawable(i) /\ n \in Int /\ Base \in Nat /\ counter[i] \in Nat /\ counter'[i] \in Nat
      BY <1>1, <1>2, <2>1, OpenType DEF OpenIsDrawn, TypeOK
    <3> QED
      BY <1>2, <2>1, <3>1 DEF Drawable
  <2>2. ASSUME NEW t \in tested, Newest(t[1])'
        PROVE  t[2] < Drawable(Index(t[1]))'
    <3>1. t[1] \in sent
      BY DEF Basic, TestedWereSent
    <3>2. Newest(t[1])
      BY <2>2, <3>1, NewestStay
    <3> DEFINE i == Index(t[1])
    <3>3. /\ t[2] < Base + counter[i] /\ counter'[i] >= counter[i] /\ i \in 0..1 /\ t[2] \in Int
      BY <1>1, <2>2, <3>2, Sizes DEF OpenIsDrawn, Drawable, TypeOK, Index
    <3> HIDE DEF i
    <3>4. counter[i] \in Nat /\ counter'[i] \in Nat /\ Base \in Nat
      BY <1>1, <3>3, NonceAssumption, Sizes DEF TypeOK
    <3>5. t[2] < Base + counter'[i]
      BY <3>3, <3>4
    <3> QED
      BY <3>5 DEF Drawable, i
  <2> QED
    BY <2>1, <2>2 DEF OpenIsDrawn
<1>4. OpenIsUntested'
  BY <1>2 DEF OpenIsUntested
<1>5. OpenIsMine'
  BY <1>2 DEF OpenIsMine
<1> QED
  BY <1>3, <1>4, <1>5

(* What depends on one worker only.                                        *)
LEMMA OpenStays ==
  ASSUME NEW w \in Workers, NEW i \in 0..1,
         UNCHANGED <<m_job[w], hashing[w]>>,
         Draws(w)' <=> Draws(w), HasHash(w)' <=> HasHash(w)
  PROVE  /\ Open(w, i)' = Open(w, i) /\ Unhashed(w, i)' = Unhashed(w, i)
         /\ Here(w, i)' <=> Here(w, i)
<1>1. Here(w, i)' <=> Here(w, i)
  BY DEF Here
<1>2. Unhashed(w, i)' = Unhashed(w, i)
  <2>1. CASE Draws(w) /\ Here(w, i)
    BY <1>1, <2>1 DEF Unhashed
  <2>2. CASE ~(Draws(w) /\ Here(w, i))
    BY <1>1, <2>2 DEF Unhashed
  <2> QED
    BY <2>1, <2>2
<1>3. Open(w, i)' = Open(w, i)
  <2>1. CASE HasHash(w) /\ Here(w, i)
    BY <1>1, <1>2, <2>1 DEF Open
  <2>2. CASE ~(HasHash(w) /\ Here(w, i))
    BY <1>1, <1>2, <2>2 DEF Open
  <2> QED
    BY <2>1, <2>2
<1> QED
  BY <1>1, <1>2, <1>3

LEMMA LoopOnce ==
  ASSUME Basic, Once, [Next]_vars,
         \/ \E j \in Jobs : SetJob(j)
         \/ \E e \in BOOLEAN : SetEnabled(e)
         \/ PoolLost
         \/ EventLoop
         \/ UNCHANGED vars
  PROVE  OpenIsDrawn' /\ OpenIsUntested' /\ OpenIsMine'
<1>1. /\ TypeOK /\ TypeOK' /\ UNCHANGED workerVars
      /\ OpenIsDrawn /\ OpenIsUntested /\ OpenIsMine
  <2>1. Basic'
    BY LoopBasic, StutterBasic
  <2> QED
    BY <2>1, LoopLeavesWorkers DEF Basic, Once
<1>2. ASSUME NEW w \in Workers, NEW i \in 0..1
      PROVE  /\ m_job'[w].jobs[i] = m_job[w].jobs[i] /\ Open(w, i)' = Open(w, i)
             /\ Unhashed(w, i)' = Unhashed(w, i) /\ hashing'[w] = hashing[w]
             /\ (HasHash(w)' <=> HasHash(w)) /\ (Here(w, i)' <=> Here(w, i))
  <2>1. /\ UNCHANGED <<m_job[w], hashing[w], pc[w], return[w]>>
    BY <1>1 DEF workerVars
  <2>2. (Draws(w)' <=> Draws(w)) /\ (HasHash(w)' <=> HasHash(w))
    BY <2>1 DEF Draws, HasHash
  <2> QED
    BY <2>1, <2>2, OpenStays
<1>3. tested' = tested
  BY <1>1 DEF workerVars
(* The counter that is reset is the one of a job nobody holds.             *)
<1>4. ASSUME NEW i \in 0..1, counter'[i] # counter[i]
      PROVE  /\ Has(todo, "Reset") /\ i = Index(job)
             /\ \A j \in sent : j \in {job', userJob'} /\ Index(j) = i => j = job
  <2>1. EventLoop /\ Head(todo) = "Reset" /\ UNCHANGED minerVars
    <3>1. EventLoop
      BY <1>4 DEF SetJob, SetEnabled, PoolLost, vars
    <3> QED
      BY <1>4, <3>1 DEF EventLoop
  <2>2. i = Index(job)
    BY <1>1, <1>4, <2>1 DEF EventLoop, TypeOK
  <2>3. Has(todo, "Reset")
    BY <2>1, TailOfList DEF EventLoop, Idle, Basic
  <2>4. ASSUME NEW j \in sent, j \in {job', userJob'}, Index(j) = i
        PROVE  j = job
    <3>1. j \in {job, userJob}
      BY <2>1, <2>4 DEF minerVars
    <3>2. Index(userJob) = 0
      BY <1>1, JobsAssumption DEF TypeOK, Index
    <3> QED
      BY <2>2, <2>4, <3>1, <3>2 DEF Basic, JobsWereSent
  <2> QED
    BY <2>2, <2>3, <2>4
<1>5. \A i \in 0..1 : counter[i] \in Nat
  BY <1>1, NonceAssumption DEF TypeOK
<1>6. ASSUME NEW w \in Workers, NEW i \in 0..1, Holds(w, i)'
      PROVE  counter'[i] >= counter[i] /\ Holds(w, i)
  <2>1. Holds(w, i)
    BY <1>2, <1>6, HoldsStay
  <2>2. counter'[i] = counter[i]
    <3> SUFFICES ASSUME counter'[i] # counter[i] PROVE FALSE
      OBVIOUS
    <3>1. m_job[w].jobs[i] \in sent /\ Index(m_job[w].jobs[i]) = i
      BY <2>1 DEF Holds, Basic, SlotsOfPools
    <3>2. m_job[w].jobs[i] \in {job', userJob'}
      BY <1>2, <1>6 DEF Holds, Newest
    <3>3. m_job[w].jobs[i] = job
      BY <1>4, <3>1, <3>2
    <3> QED
      BY <1>4, <3>3 DEF Once, ResetInTime
  <2> QED
    BY <1>5, <2>1, <2>2
<1>7. ASSUME NEW t \in tested, Newest(t[1])'
      PROVE  counter'[Index(t[1])] >= counter[Index(t[1])]
  <2>1. t[1] \in sent /\ Index(t[1]) \in 0..1
    BY DEF Basic, TestedWereSent, Index
  <2>2. counter'[Index(t[1])] = counter[Index(t[1])]
    <3> SUFFICES ASSUME counter'[Index(t[1])] # counter[Index(t[1])] PROVE FALSE
      OBVIOUS
    <3>1. t[1] = job /\ Has(todo, "Reset")
      BY <1>4, <1>7, <2>1 DEF Newest
    <3> QED
      BY <3>1 DEF Once, ResetInTime
  <2> QED
    BY <1>5, <2>1, <2>2
<1>8. ASSUME NEW w \in Workers, NEW i \in 0..1, Holds(w, i)', HasHash(w)', Here(w, i)'
      PROVE  hashing'[w] \notin Unhashed(w, i)'
  BY <1>1, <1>2, <1>6, <1>8 DEF OpenIsUntested
<1> QED
  BY <1>1, <1>2, <1>3, <1>6, <1>7, <1>8, NothingOpens

LEMMA WorkerOpens ==
  ASSUME Basic, NEW w \in Workers, Worker(w), NEW v \in Workers, v # w, NEW i \in 0..1
  PROVE  /\ m_job'[v].jobs[i] = m_job[v].jobs[i] /\ Open(v, i)' = Open(v, i)
         /\ Unhashed(v, i)' = Unhashed(v, i) /\ hashing'[v] = hashing[v]
         /\ (HasHash(v)' <=> HasHash(v)) /\ (Here(v, i)' <=> Here(v, i))
<1>1. /\ UNCHANGED <<m_job[v], hashing[v], pc[v], return[v]>>
  BY OthersStay DEF Basic
<1>2. (Draws(v)' <=> Draws(v)) /\ (HasHash(v)' <=> HasHash(v))
  BY <1>1 DEF Draws, HasHash
<1> QED
  BY <1>1, <1>2, OpenStays

(* A worker that takes up a job gives a slot up or leaves it alone; one    *)
(* that hashes turns the first nonce of its range into the one it hashes.  *)
LEMMA AddedOpen ==
  ASSUME Basic, NEW w \in Workers, AddJob(w), NEW i \in 0..1
  PROVE  /\ ~HasHash(w)'
         /\ \/ Open(w, i)' = {}
            \/ m_job'[w].jobs[i] = m_job[w].jobs[i] /\ Open(w, i)' = Open(w, i)
<1>1. /\ copy[w] \in Jobs /\ m_job'[w] = Added(m_job[w], copy[w])
      /\ ~HasHash(w) /\ ~HasHash(w)' /\ ~Draws(w)
      /\ Draws(w)' <=> ~(copy[w] = Current(w) \/ ReturnsTo(m_job[w], copy[w]))
  BY AddStep DEF Draws
<1>2. m_job[w] \in WorkerJob
  BY Slot DEF Basic
<1> DEFINE k == Index(copy[w])
<1>3. CASE /\ m_job'[w].jobs[i] = m_job[w].jobs[i]
           /\ m_job'[w].nonce[i] = m_job[w].nonce[i]
           /\ m_job'[w].rounds[i] = m_job[w].rounds[i]
           /\ ~(Draws(w)' /\ Here(w, i)')
  BY <1>1, <1>3 DEF Open, Unhashed
<1>4. CASE copy[w] = Current(w) \/ ReturnsTo(m_job[w], copy[w])
  <2>1. /\ m_job'[w].jobs = m_job[w].jobs /\ m_job'[w].nonce = m_job[w].nonce
        /\ m_job'[w].rounds = m_job[w].rounds
    BY <1>1, <1>2, <1>4, JobAdded DEF Current
  <2> QED
    BY <1>1, <1>3, <1>4, <2>1
<1>5. CASE ~(copy[w] = Current(w) \/ ReturnsTo(m_job[w], copy[w]))
  <2>1. /\ m_job'[w].index = k
        /\ i # k => /\ m_job'[w].jobs[i] = m_job[w].jobs[i]
                    /\ m_job'[w].nonce[i] = m_job[w].nonce[i]
                    /\ m_job'[w].rounds[i] = m_job[w].rounds[i]
    BY <1>1, <1>2, <1>5, JobAdded DEF Current
  <2> HIDE DEF k
  <2>2. CASE i = k
    BY <1>1, <1>5, <2>1, <2>2 DEF Open, Unhashed, Here
  <2>3. CASE i # k
    BY <1>1, <1>3, <2>1, <2>3 DEF Here
  <2> QED
    BY <2>2, <2>3
<1> QED
  BY <1>4, <1>5

LEMMA HashedOpen ==
  ASSUME Basic, InByte, NEW w \in Workers, Inner(w), ~outdated[w], NEW i \in 0..1,
         m_job[w].jobs[i] # None
  PROVE  /\ m_job'[w].jobs[i] = m_job[w].jobs[i] /\ Open(w, i)' = Open(w, i)
         /\ HasHash(w)' /\ Here(w, i)' => hashing'[w] \notin Unhashed(w, i)'
<1>1. PICK x \in 0..1 : x = m_job[w].index
  BY Slot DEF Basic
<1> DEFINE n == m_job[w].nonce[x]
           r == m_job[w].rounds[x]
<1>2. /\ pc[w] = "Inner" /\ hashing'[w] = n
      /\ m_job'[w].index = x /\ m_job'[w].jobs = m_job[w].jobs
      /\ \A k \in 0..1 : k # x => /\ m_job'[w].nonce[k] = m_job[w].nonce[k]
                                  /\ m_job'[w].rounds[k] = m_job[w].rounds[k]
      /\ IF r = Reserve - 1
         THEN pc'[w] = "DrawNext" /\ m_job'[w].rounds[x] = 0 /\ m_job'[w].nonce[x] = n
         ELSE /\ pc'[w] = "Test" /\ m_job'[w].rounds[x] = r + 1
              /\ m_job'[w].nonce[x] = (n + 1) % Word
  BY <1>1, HashStep
<1>3. CASE i # x
  <2>1. ~Here(w, i) /\ ~Here(w, i)'
    BY <1>1, <1>2, <1>3 DEF Here
  <2> QED
    BY <1>2, <1>3, <2>1 DEF Open, Unhashed
<1>4. CASE i = x
  <2>1. /\ Base <= n - r /\ n - r + Reserve - 1 <= Base + Mask
        /\ n \in 0..(Word - 1) /\ r \in 0..(Reserve - 1)
    BY <1>2, <1>4, Slot DEF InByte, SlotInByte, Basic
  <2>2. Here(w, x) /\ Here(w, x)' /\ HasHash(w)' /\ ~HasHash(w) /\ ~Draws(w)
    BY <1>1, <1>2 DEF Here, HasHash, Draws
  <2>3. Open(w, x) = n..(n - r + Reserve - 1)
    BY <2>2 DEF Open, Unhashed
  <2> HIDE DEF n, r
  <2>4. CASE r = Reserve - 1
    <3>1. Unhashed(w, x)' = {} /\ Open(w, x)' = {n}
      BY <1>2, <2>2, <2>4 DEF Open, Unhashed, Draws
    <3>2. n..(n - r + Reserve - 1) = {n}
      BY <2>1, <2>4, Sizes
    <3> QED
      BY <1>2, <1>4, <2>3, <3>1, <3>2
  <2>5. CASE r # Reserve - 1
    <3>1. m_job'[w].nonce[x] = n + 1 /\ m_job'[w].rounds[x] = r + 1 /\ ~Draws(w)'
      BY <1>2, <2>1, <2>5, NextNonce DEF Draws
    <3>2. /\ Unhashed(w, x)' = (n + 1)..(n + 1 - (r + 1) + Reserve - 1)
          /\ Open(w, x)' = ((n + 1)..(n + 1 - (r + 1) + Reserve - 1)) \cup {n}
      <4> DEFINE first == m_job'[w].nonce[x]
                 passed == m_job'[w].rounds[x]
      <4>1. Unhashed(w, x)' = first..(first - passed + Reserve - 1)
        BY <3>1 DEF Unhashed
      <4>2. first = n + 1 /\ passed = r + 1
        BY <3>1
      <4> HIDE DEF first, passed
      <4>3. first - passed + Reserve - 1 = n + 1 - (r + 1) + Reserve - 1
        BY <2>1, <4>2, Sizes
      <4>4. Unhashed(w, x)' = (n + 1)..(n + 1 - (r + 1) + Reserve - 1)
        BY <4>1, <4>2, <4>3
      <4>5. Open(w, x)' = Unhashed(w, x)' \cup {hashing'[w]}
        BY <2>2 DEF Open
      <4> QED
        BY <1>2, <4>4, <4>5
    <3>3. /\ ((n + 1)..(n + 1 - (r + 1) + Reserve - 1)) \cup {n} = n..(n - r + Reserve - 1)
          /\ n \notin (n + 1)..(n + 1 - (r + 1) + Reserve - 1)
      BY <2>1, Sizes
    <3> QED
      BY <1>2, <1>4, <2>3, <3>2, <3>3
  <2> QED
    BY <2>4, <2>5
<1> QED
  BY <1>3, <1>4

LEMMA QuietOnce ==
  ASSUME Basic, InByte, Once, NEW w \in Workers, Worker(w),
         ~DrawFirst(w), ~DrawNext(w), ~Test(w)
  PROVE  OpenIsDrawn' /\ OpenIsUntested' /\ OpenIsMine'
<1>1. TypeOK /\ TypeOK' /\ [Next]_vars /\ OpenIsDrawn /\ OpenIsUntested /\ OpenIsMine
  BY WorkerBasic DEF Basic, Once, Next
<1>2. UNCHANGED <<minerVars, counter, tested>>
  <2>1. CASE Outer(w) \/ Wake(w) \/ CopyJob(w) \/ Pausing(w) \/ (Inner(w) /\ outdated[w])
    BY <2>1, QuietStep
  <2>2. CASE AddJob(w)
    BY <2>2, AddStep
  <2>3. CASE Inner(w) /\ ~outdated[w]
    BY <2>3 DEF Inner
  <2> QED
    BY <2>1, <2>2, <2>3 DEF Worker
<1>3. \A i \in 0..1 : counter[i] \in Nat /\ counter'[i] >= counter[i]
  BY <1>1, <1>2, NonceAssumption DEF TypeOK
<1>4. ASSUME NEW i \in 0..1, Holds(w, i)'
      PROVE  /\ \/ Open(w, i)' = {}
                \/ m_job'[w].jobs[i] = m_job[w].jobs[i] /\ Open(w, i)' = Open(w, i)
             /\ HasHash(w)' /\ Here(w, i)' => hashing'[w] \notin Unhashed(w, i)'
  <2>1. CASE Outer(w) \/ Wake(w) \/ CopyJob(w) \/ Pausing(w) \/ (Inner(w) /\ outdated[w])
    <3>1. UNCHANGED <<m_job, hashing>> /\ (HasHash(w)' <=> HasHash(w)) /\ ~Draws(w) /\ ~Draws(w)'
      BY <2>1, QuietStep DEF Draws
    <3>2. /\ Open(w, i)' = Open(w, i) /\ Unhashed(w, i)' = Unhashed(w, i)
          /\ Here(w, i)' <=> Here(w, i)
      BY <3>1, OpenStays
    <3>3. Holds(w, i)
      BY <1>1, <1>4, <3>1, HoldsStay
    <3> QED
      BY <1>1, <3>1, <3>2, <3>3 DEF OpenIsUntested
  <2>2. CASE AddJob(w)
    BY <2>2, AddedOpen
  <2>3. CASE Inner(w) /\ ~outdated[w]
    <3>1. PICK x \in 0..1 : x = m_job[w].index
      BY <1>1, Slot
    <3>2. m_job'[w].jobs = m_job[w].jobs
      BY <2>3, <3>1, HashStep
    <3>3. m_job[w].jobs[i] # None
      BY <1>4, <3>2 DEF Holds
    <3> QED
      BY <2>3, <3>3, HashedOpen
  <2> QED
    BY <2>1, <2>2, <2>3 DEF Worker
<1>5. ASSUME NEW v \in Workers, NEW i \in 0..1, Holds(v, i)'
      PROVE  /\ \/ Open(v, i)' = {}
                \/ /\ m_job'[v].jobs[i] = m_job[v].jobs[i] /\ Open(v, i)' = Open(v, i)
                   /\ counter'[i] >= counter[i]
             /\ HasHash(v)' /\ Here(v, i)' => hashing'[v] \notin Unhashed(v, i)'
  <2>1. CASE v = w
    BY <1>3, <1>4, <1>5, <2>1
  <2>2. CASE v # w
    <3>1. /\ m_job'[v].jobs[i] = m_job[v].jobs[i] /\ Open(v, i)' = Open(v, i)
          /\ Unhashed(v, i)' = Unhashed(v, i) /\ hashing'[v] = hashing[v]
          /\ (HasHash(v)' <=> HasHash(v)) /\ (Here(v, i)' <=> Here(v, i))
      BY <2>2, WorkerOpens
    <3>2. Holds(v, i)
      BY <1>1, <1>5, <3>1, HoldsStay
    <3> QED
      BY <1>1, <1>3, <3>1, <3>2 DEF OpenIsUntested
  <2> QED
    BY <2>1, <2>2
<1>6. \A t \in tested : counter'[Index(t[1])] >= counter[Index(t[1])]
  BY <1>3 DEF Index
<1> QED
  BY <1>1, <1>2, <1>5, <1>6, NothingOpens

(* A range that is drawn is above all that was drawn of the counter.       *)
LEMMA DrawOnce ==
  ASSUME Basic, InByte, Once, ~Exhaustible, NEW w \in Workers, DrawFirst(w) \/ DrawNext(w)
  PROVE  OpenIsDrawn' /\ OpenIsUntested' /\ OpenIsMine'
<1>1. TypeOK /\ TypeOK' /\ [Next]_vars /\ Worker(w)
      /\ OpenIsDrawn /\ OpenIsUntested /\ OpenIsMine
  <2>1. Worker(w)
    BY DEF Worker
  <2> QED
    BY <2>1, WorkerBasic DEF Basic, Once, Next
<1>2. PICK x \in 0..1 : x = m_job[w].index
  BY <1>1, Slot
<1> DEFINE c == counter[x]
           new == (Base + c)..(Base + c + Reserve - 1)
<1>3. /\ UNCHANGED <<minerVars, hashing, tested>> /\ InRange(c)
      /\ counter'[x] = Advanced(c)
      /\ \A k \in 0..1 : k # x => counter'[k] = counter[k]
      /\ m_job'[w].index = x /\ m_job'[w].jobs = m_job[w].jobs
      /\ m_job'[w].rounds = m_job[w].rounds
      /\ \A k \in 0..1 : k # x => m_job'[w].nonce[k] = m_job[w].nonce[k]
      /\ m_job'[w].nonce[x] = Drawn(m_job[w].nonce[x], c)
      /\ Draws(w) /\ ~Draws(w)' /\ (HasHash(w)' <=> HasHash(w))
  <2>1. HasHash(w)' <=> HasHash(w)
    <3>1. InRange(counter[x])
      BY <1>2, DrawStep
    <3>2. CASE DrawFirst(w)
      <4>1. pc[w] = "DrawFirst" /\ return'[w] \in {"Inner", "Outer"} /\ pc'[w] \in {"Pausing", return'[w]}
        BY <1>2, <3>2, DrawStep
      <4> QED
        BY <4>1 DEF HasHash
    <3>3. CASE DrawNext(w)
      <4>1. pc[w] = "DrawNext" /\ return'[w] = "Test" /\ pc'[w] \in {"Pausing", "Test"}
        BY <1>2, <3>1, <3>3, DrawStep
      <4> QED
        BY <4>1 DEF HasHash
    <3> QED
      BY <3>2, <3>3
  <2> QED
    BY <1>2, <2>1, DrawStep DEF Draws
<1>4. /\ c \in 0..Mask /\ c + Reserve - 1 <= Mask /\ counter'[x] = c + Reserve
      /\ Base \in Nat /\ Reserve \in Nat \ {0} /\ c \in Nat
  BY <1>1, <1>3, CounterType, Slot, Sizes
<1>5. \A i \in 0..1 : /\ counter[i] \in Nat /\ counter'[i] \in Nat /\ counter'[i] >= counter[i]
                      /\ Drawable(i)' >= Drawable(i) /\ Drawable(i) \in Nat /\ Drawable(i)' \in Nat
  BY <1>1, <1>3, <1>4, NonceAssumption DEF TypeOK, Drawable
<1>6. m_job[w].jobs[x] # None => /\ m_job[w].rounds[x] = 0
                                 /\ m_job'[w].nonce[x] = Base + c
  <2> SUFFICES ASSUME m_job[w].jobs[x] # None
               PROVE  m_job[w].rounds[x] = 0 /\ m_job'[w].nonce[x] = Base + c
    OBVIOUS
  <2>1. SlotInByte(w, x) /\ m_job[w].nonce[x] \in 0..(Word - 1)
    BY <1>1, Slot DEF InByte
  <2>2. m_job[w].rounds[x] = 0 /\ m_job[w].nonce[x] \in Byte
    BY <1>2, <1>3, <2>1, Sizes, NonceAssumption DEF SlotInByte, Byte, Here
  <2> QED
    BY <1>3, <1>4, <2>1, <2>2, DrawnNonce
<1> HIDE DEF c, new
(* The slot in use gets the new range, nothing else changes.               *)
<1>7. ASSUME NEW i \in 0..1, Holds(w, i)'
      PROVE  /\ Holds(w, i) /\ m_job'[w].jobs[i] = m_job[w].jobs[i]
             /\ i # x => Open(w, i)' = Open(w, i)
             /\ i = x => Open(w, i)' = Open(w, i) \cup new /\ Unhashed(w, i)' = new
             /\ Here(w, i)' <=> i = x
             /\ Here(w, i) <=> i = x
  <2>1. m_job'[w].jobs[i] = m_job[w].jobs[i] /\ Holds(w, i)
    BY <1>1, <1>3, <1>7, HoldsStay
  <2>2. (Here(w, i)' <=> i = x) /\ (Here(w, i) <=> i = x)
    BY <1>2, <1>3 DEF Here
  <2>3. CASE i # x
    <3>1. Open(w, i)' = Open(w, i)
      BY <1>3, <2>2, <2>3 DEF Open, Unhashed
    <3> QED
      BY <2>1, <2>2, <2>3, <3>1
  <2>4. CASE i = x
    <3>1. m_job'[w].rounds[x] = 0 /\ m_job'[w].nonce[x] = Base + c
      BY <1>3, <1>6, <2>1, <2>4 DEF Holds
    <3>2. Unhashed(w, i)' = new
      <4> DEFINE first == m_job'[w].nonce[x]
                 passed == m_job'[w].rounds[x]
      <4>1. Unhashed(w, i)' = first..(first - passed + Reserve - 1)
        BY <1>3, <2>4 DEF Unhashed
      <4>2. first = Base + c /\ passed = 0
        BY <3>1
      <4> HIDE DEF first, passed
      <4>3. first - passed + Reserve - 1 = Base + c + Reserve - 1
        BY <1>4, <4>2
      <4> QED
        BY <4>1, <4>2, <4>3 DEF new
    <3>3. Unhashed(w, i) = {}
      BY <1>3, <2>2, <2>4 DEF Unhashed
    <3>4. Open(w, i)' = Open(w, i) \cup new
      <4>1. CASE HasHash(w)
        BY <1>3, <2>2, <2>4, <3>2, <3>3, <4>1 DEF Open
      <4>2. CASE ~HasHash(w)
        BY <1>3, <2>2, <2>4, <3>2, <3>3, <4>2 DEF Open
      <4> QED
        BY <4>1, <4>2
    <3> QED
      BY <2>1, <2>2, <2>4, <3>2, <3>4
  <2> QED
    BY <2>3, <2>4
<1>8. ASSUME NEW v \in Workers, v # w, NEW i \in 0..1, Holds(v, i)'
      PROVE  /\ Holds(v, i) /\ m_job'[v].jobs[i] = m_job[v].jobs[i]
             /\ Open(v, i)' = Open(v, i) /\ Unhashed(v, i)' = Unhashed(v, i)
             /\ (HasHash(v)' <=> HasHash(v)) /\ (Here(v, i)' <=> Here(v, i))
  <2>1. m_job'[v].jobs[i] = m_job[v].jobs[i]
    BY <1>1, <1>8, WorkerOpens
  <2> QED
    BY <1>1, <1>8, <2>1, WorkerOpens, HoldsStay
(* All that was open is below the new range.                               *)
<1>9. /\ \A n \in new : n >= Drawable(x) /\ n < Drawable(x)' /\ n \in Int
      /\ Drawable(x) \in Nat
  BY <1>3, <1>4 DEF Drawable, new, c
<1>10. ASSUME NEW v \in Workers, NEW i \in 0..1, Holds(v, i), NEW n \in Open(v, i)
       PROVE  n < Drawable(i) /\ n < Drawable(i)' /\ n \in Int
  <2>1. n < Drawable(i) /\ n \in Int
    BY <1>1, <1>10, OpenType DEF OpenIsDrawn
  <2> QED
    BY <1>5, <2>1
<1>11. ASSUME NEW t \in tested, Newest(t[1])
       PROVE  t[2] < Drawable(Index(t[1])) /\ t[2] < Drawable(Index(t[1]))' /\ t[2] \in Int
  <2>1. PICK i \in 0..1 : i = Index(t[1])
    BY DEF Index
  <2>2. t[2] < Drawable(i) /\ t[2] \in Int
    BY <1>1, <1>11, <2>1 DEF OpenIsDrawn, TypeOK
  <2>3. t[2] < Drawable(i)'
    BY <1>5, <2>2
  <2>4. Drawable(Index(t[1]))' = Drawable(i)'
    BY <2>1 DEF Drawable
  <2> QED
    BY <2>1, <2>2, <2>3, <2>4
<1>12. OpenIsDrawn'
  <2>1. ASSUME NEW v \in Workers, NEW i \in 0..1, Holds(v, i)', NEW n \in Open(v, i)'
        PROVE  n < Drawable(i)'
    BY <1>7, <1>8, <1>9, <1>10, <2>1
  <2>2. ASSUME NEW t \in tested', Newest(t[1])'
        PROVE  t[2] < Drawable(Index(t[1]))'
    <3>1. t \in tested /\ Newest(t[1])
      BY <1>3, <2>2 DEF Newest, minerVars
    <3> QED
      BY <1>11, <3>1
  <2> QED
    BY <2>1, <2>2 DEF OpenIsDrawn
<1>13. OpenIsUntested'
  <2>1. ASSUME NEW v \in Workers, NEW i \in 0..1, Holds(v, i)', NEW n \in Open(v, i)'
        PROVE  <<m_job'[v].jobs[i], n>> \notin tested'
    <3>1. CASE n \in Open(v, i)
      BY <1>1, <1>3, <1>7, <1>8, <2>1, <3>1 DEF OpenIsUntested
    <3>2. CASE n \notin Open(v, i)
      <4>1. v = w /\ i = x /\ n \in new
        BY <1>7, <1>8, <2>1, <3>2
      <4>2. Holds(w, x) /\ m_job'[w].jobs[x] = m_job[w].jobs[x]
        BY <1>7, <2>1, <4>1
      <4>3. Index(m_job[w].jobs[x]) = x /\ Newest(m_job[w].jobs[x])
        BY <4>2 DEF Holds, Basic, SlotsOfPools
      <4> DEFINE t == <<m_job[w].jobs[x], n>>
      <4>4. SUFFICES t \notin tested
        BY <1>3, <4>1, <4>2
      <4>5. t[1] = m_job[w].jobs[x] /\ t[2] = n
        OBVIOUS
      <4> HIDE DEF t
      <4>6. t \in tested => n < Drawable(x)
        BY <1>11, <4>3, <4>5
      <4> QED
        BY <1>9, <4>1, <4>6
    <3> QED
      BY <3>1, <3>2
  <2>2. ASSUME NEW v \in Workers, NEW i \in 0..1, Holds(v, i)', HasHash(v)', Here(v, i)'
        PROVE  hashing'[v] \notin Unhashed(v, i)'
    <3>1. CASE v # w
      BY <1>1, <1>3, <1>8, <2>2, <3>1 DEF OpenIsUntested
    <3>2. CASE v = w
      <4>1. i = x /\ Holds(w, i) /\ Unhashed(w, i)' = new /\ HasHash(w) /\ Here(w, i)
        BY <1>3, <1>7, <2>2, <3>2
      <4>2. hashing[w] \in Open(w, i)
        BY <4>1 DEF Open
      <4>3. hashing[w] < Drawable(i) /\ hashing[w] \in Int
        BY <1>10, <4>1, <4>2
      <4> QED
        BY <1>3, <1>9, <3>2, <4>1, <4>3
    <3> QED
      BY <3>1, <3>2
  <2> QED
    BY <2>1, <2>2 DEF OpenIsUntested
<1>14. OpenIsMine'
  <2> SUFFICES ASSUME NEW u \in Workers, NEW v \in Workers, NEW i \in 0..1,
                      u # v, Holds(u, i)', Holds(v, i)'
               PROVE  Open(u, i)' \cap Open(v, i)' = {}
    BY DEF OpenIsMine
  <2>1. Holds(u, i) /\ Holds(v, i) /\ Open(u, i) \cap Open(v, i) = {}
    BY <1>1, <1>7, <1>8 DEF OpenIsMine
  <2>2. ASSUME NEW n \in new, i = x
        PROVE  n \notin Open(u, i) /\ n \notin Open(v, i)
    BY <1>9, <1>10, <2>1, <2>2
  <2> QED
    BY <1>7, <1>8, <2>1, <2>2
<1> QED
  BY <1>12, <1>13, <1>14

LEMMA TestOnce ==
  ASSUME Basic, Once, NEW w \in Workers, Test(w)
  PROVE  OpenIsDrawn' /\ OpenIsUntested' /\ OpenIsMine'
<1>1. TypeOK /\ TypeOK' /\ [Next]_vars /\ Worker(w)
      /\ OpenIsDrawn /\ OpenIsUntested /\ OpenIsMine
  <2>1. Worker(w)
    BY DEF Worker
  <2> QED
    BY <2>1, WorkerBasic DEF Basic, Once, Next
<1>2. PICK x \in 0..1 : x = m_job[w].index
  BY <1>1, Slot
<1> DEFINE now == <<Current(w), hashing[w]>>
<1>3. /\ UNCHANGED <<minerVars, counter, m_job>>
      /\ pc[w] = "Test" /\ pc'[w] = "Inner" /\ tested' = tested \cup {now}
      /\ Current(w) = m_job[w].jobs[x] /\ Current(w) # None /\ Current(w) \in Jobs
      /\ hashing[w] \in Int
  BY <1>2, TestStep, JobsAssumption DEF Current, Jobs
<1>4. /\ HasHash(w) /\ Here(w, x) /\ ~HasHash(w)' /\ ~Draws(w) /\ ~Draws(w)'
      /\ \A i \in 0..1 : Here(w, i) <=> i = x
  BY <1>2, <1>3 DEF HasHash, Here, Draws
<1>5. ASSUME NEW v \in Workers, NEW i \in 0..1
      PROVE  (Holds(v, i)' <=> Holds(v, i)) /\ m_job'[v].jobs[i] = m_job[v].jobs[i]
  BY <1>3 DEF Holds, Newest, minerVars
<1>6. ASSUME NEW i \in 0..1
      PROVE  /\ Open(w, i)' = Unhashed(w, i) /\ Unhashed(w, i) \subseteq Open(w, i)
             /\ i # x => Open(w, i)' = Open(w, i)
  BY <1>3, <1>4 DEF Open, Unhashed
<1>7. ASSUME NEW v \in Workers, v # w, NEW i \in 0..1
      PROVE  /\ Open(v, i)' = Open(v, i) /\ Unhashed(v, i)' = Unhashed(v, i)
             /\ hashing'[v] = hashing[v]
             /\ (HasHash(v)' <=> HasHash(v)) /\ (Here(v, i)' <=> Here(v, i))
  BY <1>1, <1>7, WorkerOpens
<1>8. ASSUME NEW v \in Workers, NEW i \in 0..1, NEW n \in Open(v, i)'
      PROVE  n \in Open(v, i)
  BY <1>6, <1>7, <1>8
<1>9. Newest(Current(w)) => Holds(w, x) /\ hashing[w] \in Open(w, x)
  BY <1>3, <1>4 DEF Holds, Open
<1>10. Index(Current(w)) = x
  BY <1>3 DEF Basic, SlotsOfPools
<1>11. OpenIsDrawn'
  <2>1. ASSUME NEW v \in Workers, NEW i \in 0..1, Holds(v, i)', NEW n \in Open(v, i)'
        PROVE  n < Drawable(i)'
    <3>1. n < Drawable(i)
      BY <1>1, <1>5, <1>8, <2>1 DEF OpenIsDrawn
    <3> QED
      BY <1>3, <3>1 DEF Drawable
  <2>2. ASSUME NEW t \in tested', Newest(t[1])'
        PROVE  t[2] < Drawable(Index(t[1]))'
    <3>1. Newest(t[1])
      BY <1>3, <2>2 DEF Newest, minerVars
    <3>2. t[2] < Drawable(Index(t[1]))
      <4>1. CASE t \in tested
        BY <1>1, <3>1, <4>1 DEF OpenIsDrawn
      <4>2. CASE t = now
        <5>1. t[1] = Current(w) /\ t[2] = hashing[w]
          BY <4>2
        <5>2. hashing[w] < Drawable(x)
          BY <1>1, <1>9, <3>1, <5>1 DEF OpenIsDrawn
        <5> QED
          BY <1>10, <5>1, <5>2
      <4> QED
        BY <1>3, <4>1, <4>2
    <3> QED
      BY <1>3, <3>2 DEF Drawable
  <2> QED
    BY <2>1, <2>2 DEF OpenIsDrawn
<1>12. OpenIsUntested'
  <2>1. ASSUME NEW v \in Workers, NEW i \in 0..1, Holds(v, i)', NEW n \in Open(v, i)'
        PROVE  <<m_job'[v].jobs[i], n>> \notin tested'
    <3>1. Holds(v, i) /\ n \in Open(v, i) /\ <<m_job[v].jobs[i], n>> \notin tested
      BY <1>1, <1>5, <1>8, <2>1 DEF OpenIsUntested
    <3>2. <<m_job[v].jobs[i], n>> # now
      <4> SUFFICES ASSUME m_job[v].jobs[i] = Current(w), n = hashing[w]
                   PROVE  FALSE
        OBVIOUS
      <4>1. Index(m_job[v].jobs[i]) = i
        BY <3>1 DEF Holds, Basic, SlotsOfPools
      <4>2. i = x /\ Newest(Current(w))
        BY <1>10, <3>1, <4>1 DEF Holds
      <4>3. Holds(w, i) /\ hashing[w] \in Open(w, i)
        BY <1>9, <4>2
      <4>4. v = w
        BY <1>1, <3>1, <4>3 DEF OpenIsMine
      <4>5. hashing[w] \in Unhashed(w, i)
        BY <1>6, <2>1, <4>4
      <4> QED
        BY <1>1, <1>4, <4>2, <4>3, <4>5 DEF OpenIsUntested
    <3> QED
      BY <1>3, <1>5, <3>1, <3>2
  <2>2. ASSUME NEW v \in Workers, NEW i \in 0..1, Holds(v, i)', HasHash(v)', Here(v, i)'
        PROVE  hashing'[v] \notin Unhashed(v, i)'
    <3>1. v # w
      BY <1>4, <2>2
    <3> QED
      BY <1>1, <1>5, <1>7, <2>2, <3>1 DEF OpenIsUntested
  <2> QED
    BY <2>1, <2>2 DEF OpenIsUntested
<1>13. OpenIsMine'
  <2> SUFFICES ASSUME NEW u \in Workers, NEW v \in Workers, NEW i \in 0..1,
                      u # v, Holds(u, i)', Holds(v, i)'
               PROVE  Open(u, i)' \cap Open(v, i)' = {}
    BY DEF OpenIsMine
  <2>1. Open(u, i) \cap Open(v, i) = {}
    BY <1>1, <1>5 DEF OpenIsMine
  <2> QED
    BY <1>8, <2>1
<1> QED
  BY <1>11, <1>12, <1>13

LEMMA OnceStep ==
  ASSUME ~Hasty, ~Exhaustible, Basic, InByte, Once, [Next]_vars
  PROVE  Once'
<1>1. ResetInTime'
  BY ResetStep DEF Once
<1>2. OpenIsDrawn' /\ OpenIsUntested' /\ OpenIsMine'
  <2>1. CASE \E w \in Workers : Worker(w)
    <3>1. PICK w \in Workers : Worker(w)
      BY <2>1
    <3> QED
      BY <3>1, DrawOnce, TestOnce, QuietOnce
  <2>2. CASE ~ \E w \in Workers : Worker(w)
    BY <2>2, LoopOnce DEF Next
  <2> QED
    BY <2>1, <2>2
<1> QED
  BY <1>1, <1>2 DEF Once

LEMMA InitOnce == Init => Once
<1> SUFFICES ASSUME Init PROVE Once
  OBVIOUS
<1>1. tested = {} /\ \A w \in Workers : \A i \in 0..1 : ~Holds(w, i)
  BY DEF Init, Holds
<1>2. ~Has(todo, "Reset")
  <2>1. todo = <<"Touch", "Unpause">>
    BY DEF Init
  <2> QED
    BY <2>1 DEF Has
<1> QED
  BY <1>1, <1>2 DEF Once, OpenIsDrawn, OpenIsUntested, OpenIsMine, ResetInTime

(* No nonce of a job that still counts is tested twice, by whichever       *)
(* worker, with donations coming and going: while there are nonces, and as *)
(* long as no job overtakes the workers.                                   *)
THEOREM NothingTwice == ~Hasty /\ ~Exhaustible => (Spec => TestedOnce)
<1> SUFFICES ASSUME ~Hasty, ~Exhaustible PROVE Spec => TestedOnce
  OBVIOUS
<1> DEFINE Untested == \A w \in Workers :
                       pc[w] = "Test" /\ pc'[w] = "Inner" /\ Newest(Current(w))
                         => <<Current(w), hashing[w]>> \notin tested
<1>1. Basic /\ InByte /\ Once /\ [Next]_vars => Once'
  BY OnceStep
<1>2. Basic /\ Once => Untested
  <2> SUFFICES ASSUME Basic, Once, NEW w \in Workers, pc[w] = "Test", Newest(Current(w))
               PROVE  <<Current(w), hashing[w]>> \notin tested
    OBVIOUS
  <2>1. PICK x \in 0..1 : x = m_job[w].index
    BY Slot DEF Basic
  <2>2. Holds(w, x) /\ HasHash(w) /\ Here(w, x)
    BY <2>1 DEF Basic, KnowsItsJob, Holds, HasHash, Here, Current
  <2>3. hashing[w] \in Open(w, x)
    BY <2>2 DEF Open
  <2> QED
    BY <2>1, <2>2, <2>3 DEF Once, OpenIsUntested, Current
<1>3. TestedOnce <=> [][Untested]_vars
  BY PTL DEF TestedOnce
<1> QED
  BY InitOnce, <1>1, <1>2, <1>3, SpecBasic, SpecInByte, PTL DEF Spec
=============================================================================
