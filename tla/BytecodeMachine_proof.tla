----------------------- MODULE BytecodeMachine_proof ------------------------
(***************************************************************************)
(* The jumps of BytecodeMachine, for programs of any size on registers of  *)
(* any width.                                                              *)
(***************************************************************************)
EXTENDS BytecodeMachine, FiniteSetTheorems, FunctionTheorems,
        SequenceTheorems, TLAPS

-----------------------------------------------------------------------------
(* The inductive invariant.                                                *)
Instructions ==
  [type : {"write"}, registers : SUBSET Registers]
    \cup [type : {"branch"}, creg : Registers, target : Nat, imm : Nat, shift : Nat]

Types ==
  /\ bytecode \in Seq(Instructions) /\ Len(bytecode) <= ProgramSize
  /\ registerUsage \in [Registers -> Nat]
  /\ r \in [Registers -> Words]
  /\ pc \in 0..(ProgramSize + 1)
  /\ runs \in [0..(ProgramSize - 1) -> Nat]
  /\ loop \in [branch : 0..ProgramSize, value : Words]

At(k) == bytecode[k + 1]
IsBranch(k) == At(k).type = "branch"

(* The tested field of the constant is odd, and a carry into it takes more *)
(* than half of what is below.                                             *)
GoodConstant(imm, shift) ==
  /\ shift \in 1..WordSize /\ shift + JumpBits <= WordSize
  /\ (imm \div 2^shift) % 2 = 1
  /\ imm % 2^shift < 2^(shift - 1)

(* Since the instruction before registerUsage[x] nothing wrote x, and      *)
(* there was no branch.                                                    *)
Leaves(k, x) == At(k).type = "write" /\ x \notin At(k).registers

UsageIsKnown ==
  \A x \in Registers :
    /\ registerUsage[x] <= i
    /\ \A k \in registerUsage[x]..(i - 1) : Leaves(k, x)

BranchesGoBack ==
  \A b \in 0..(i - 1) : IsBranch(b) =>
    /\ At(b).target <= b
    /\ \A k \in At(b).target..(b - 1) : Leaves(k, At(b).creg)
    /\ GoodConstant(At(b).imm, At(b).shift)

Phases ==
  IF pc = Ready THEN loop = NoLoop /\ \A k \in DOMAIN runs : runs[k] = 0
                ELSE i = ProgramSize

InLoop ==
  loop # NoLoop =>
    /\ loop.branch < ProgramSize /\ IsBranch(loop.branch)
    /\ pc \in At(loop.branch).target..loop.branch
    /\ r[At(loop.branch).creg] = loop.value

(* How often the instructions were run, outside of a loop ...              *)
RunsForward ==
  pc # Ready /\ loop = NoLoop =>
    /\ \A k \in DOMAIN runs : IF k < pc THEN runs[k] <= 3 ELSE runs[k] = 0
    /\ \A b \in pc..(ProgramSize - 1) : IsBranch(b) =>
         \A k \in At(b).target..(pc - 1) : runs[k] = 1

(* ... and in one, that the branch has begun once or twice.                *)
RunsInLoop ==
  loop # NoLoop =>
    LET b == loop.branch
    IN /\ runs[b] \in 1..2
       /\ \A k \in DOMAIN runs :
            /\ k < At(b).target => runs[k] <= 3
            /\ k \in At(b).target..(pc - 1) => runs[k] = runs[b] + 1
            /\ k \in pc..b => runs[k] = runs[b]
            /\ k > b => runs[k] = 0
       /\ Taken(loop.value, At(b).shift)
       /\ runs[b] = 2 => loop.value % 2^At(b).shift < 2^(At(b).shift - 1)

IInv ==
  /\ Types /\ Phases
  /\ UsageIsKnown /\ BranchesGoBack
  /\ InLoop /\ RunsForward /\ RunsInLoop

-----------------------------------------------------------------------------
(* Powers of two, by what they count: subsets.                             *)
LEMMA PowerType ==
  ASSUME NEW n \in Nat
  PROVE  2^n \in Nat \ {0}
<1>1. n \in Int /\ 1 \in Int /\ (IF 1 > n THEN 0 ELSE n - 1 + 1) = n
  OBVIOUS
<1>2. IsFiniteSet(1..n) /\ Cardinality(1..n) = n
  BY <1>1, FS_Interval
<1>3. IsFiniteSet(SUBSET (1..n)) /\ Cardinality(SUBSET (1..n)) = 2^n
  BY <1>2, FS_SUBSET
<1>4. 2^n \in Nat
  BY <1>3, FS_CardinalityType
<1>5. 2^n # 0
  <2>1. {} \in SUBSET (1..n)
    OBVIOUS
  <2> QED
    BY <1>3, <2>1, FS_EmptySet
<1> QED
  BY <1>4, <1>5

LEMMA PowerSum ==
  ASSUME NEW m \in Nat, NEW n \in Nat
  PROVE  2^(m + n) = 2^m * 2^n
<1> DEFINE S == 1..m
           T == (m + 1)..(m + n)
           U == 1..(m + n)
           Split == [X \in SUBSET U |-> <<X \cap S, X \cap T>>]
<1>1. IsFiniteSet(S) /\ Cardinality(S) = m
  <2>1. m \in Int /\ 1 \in Int /\ (IF 1 > m THEN 0 ELSE m - 1 + 1) = m
    OBVIOUS
  <2> QED
    BY <2>1, FS_Interval
<1>2. IsFiniteSet(T) /\ Cardinality(T) = n
  <2>1. /\ m + 1 \in Int /\ m + n \in Int
        /\ (IF m + 1 > m + n THEN 0 ELSE (m + n) - (m + 1) + 1) = n
    OBVIOUS
  <2> QED
    BY <2>1, FS_Interval
<1>3. IsFiniteSet(U) /\ Cardinality(U) = m + n
  <2>1. /\ 1 \in Int /\ m + n \in Int
        /\ (IF 1 > m + n THEN 0 ELSE (m + n) - 1 + 1) = m + n
    OBVIOUS
  <2> QED
    BY <2>1, FS_Interval
<1>4. S \cup T = U /\ S \cap T = {}
  OBVIOUS
<1> HIDE DEF S, T, U
<1>5. Split \in Bijection(SUBSET U, (SUBSET S) \X (SUBSET T))
  <2>1. Split \in [SUBSET U -> (SUBSET S) \X (SUBSET T)]
    OBVIOUS
  <2>2. ASSUME NEW X \in SUBSET U, NEW Y \in SUBSET U, Split[X] = Split[Y]
        PROVE  X = Y
    <3>1. X \cap S = Y \cap S /\ X \cap T = Y \cap T
      BY <2>2
    <3> QED
      BY <1>4, <3>1
  <2>3. ASSUME NEW p \in (SUBSET S) \X (SUBSET T)
        PROVE  \E X \in SUBSET U : Split[X] = p
    <3>1. PICK X \in SUBSET S, Y \in SUBSET T : p = <<X, Y>>
      OBVIOUS
    <3>2. X \cup Y \in SUBSET U /\ (X \cup Y) \cap S = X /\ (X \cup Y) \cap T = Y
      BY <1>4
    <3> QED
      BY <3>1, <3>2
  <2> HIDE DEF Split
  <2> QED
    BY <2>1, <2>2, <2>3, Fun_IsBij
<1>6. ExistsBijection(SUBSET U, (SUBSET S) \X (SUBSET T))
  BY <1>5 DEF ExistsBijection
<1>7. /\ IsFiniteSet(SUBSET S) /\ Cardinality(SUBSET S) = 2^m
      /\ IsFiniteSet(SUBSET T) /\ Cardinality(SUBSET T) = 2^n
      /\ IsFiniteSet(SUBSET U) /\ Cardinality(SUBSET U) = 2^(m + n)
  BY <1>1, <1>2, <1>3, FS_SUBSET
<1>8. Cardinality((SUBSET S) \X (SUBSET T)) = 2^m * 2^n
  <2>1. Cardinality((SUBSET S) \X (SUBSET T)) = Cardinality(SUBSET S) * Cardinality(SUBSET T)
    BY <1>7, FS_Product, Zenon
  <2> QED
    BY <1>7, <2>1
<1> QED
  BY <1>6, <1>7, <1>8, FS_Bijection

LEMMA PowerStep ==
  ASSUME NEW n \in Nat \ {0}
  PROVE  2^n = 2 * 2^(n - 1) /\ n - 1 \in Nat
<1>1. n - 1 \in Nat /\ 1 + (n - 1) = n
  OBVIOUS
<1>2. 2^(1 + (n - 1)) = 2^1 * 2^(n - 1)
  BY <1>1, PowerSum
<1>3. 2^1 = 2
  OBVIOUS
<1> QED
  BY <1>1, <1>2, <1>3

-----------------------------------------------------------------------------
(* Division with a remainder.                                              *)
LEMMA DivMod ==
  ASSUME NEW x \in Nat, NEW d \in Nat \ {0}
  PROVE  /\ x \div d \in Nat /\ x % d \in 0..(d - 1)
         /\ x = d * (x \div d) + (x % d)
  OBVIOUS

LEMMA DivModOf ==
  ASSUME NEW d \in Nat \ {0}, NEW q \in Nat, NEW p \in 0..(d - 1)
  PROVE  (d * q + p) \div d = q /\ (d * q + p) % d = p
  OBVIOUS

LEMMA ModShift ==
  ASSUME NEW d \in Nat \ {0}, NEW k \in Nat, NEW q \in Nat
  PROVE  (d * k + q) % d = q % d
<1> DEFINE h == q \div d
           e == q % d
<1>1. h \in Nat /\ e \in 0..(d - 1) /\ q = d * h + e
  BY DivMod
<1> HIDE DEF h, e
<1>2. d * k + q = d * (k + h) + e /\ k + h \in Nat
  BY <1>1
<1>3. (d * (k + h) + e) % d = e
  BY <1>1, <1>2, DivModOf
<1> QED
  BY <1>2, <1>3 DEF e

(* What a word keeps of a number: the digits it has room for.              *)
SameDigits(y, s, P, M) == y % P = s % P /\ (y \div P) % M = (s \div P) % M

LEMMA WordKeeps ==
  ASSUME NEW s \in Nat, NEW P \in Nat \ {0}, NEW M \in Nat \ {0}, NEW V \in Nat \ {0}
  PROVE  SameDigits(s % (P * (M * V)), s, P, M)
<1> DEFINE N == M * V
           y == s % (P * N)
           g == s \div (P * N)
           q == y \div P
           p == y % P
<1>1. N \in Nat \ {0} /\ P * N \in Nat \ {0}
  OBVIOUS
<1>2. g \in Nat /\ y \in Nat /\ s = (P * N) * g + y
  <2> DEFINE D == P * N
  <2>1. D \in Nat \ {0} /\ y = s % D /\ g = s \div D
    BY <1>1
  <2> HIDE DEF D, g, y
  <2>2. g \in Nat /\ s % D \in 0..(D - 1) /\ s = D * g + (s % D)
    BY <2>1, DivMod
  <2> QED
    BY <2>1, <2>2 DEF D
<1>3. q \in Nat /\ p \in 0..(P - 1) /\ y = P * q + p
  <2> HIDE DEF N, y
  <2> QED
    BY <1>2, DivMod
<1> HIDE DEF y, g, q, p
<1>4. s = P * (N * g + q) + p /\ N * g + q \in Nat
  <2> HIDE DEF N
  <2> QED
    BY <1>1, <1>2, <1>3
<1>5. s \div P = N * g + q /\ s % P = p
  <2> DEFINE h == N * g + q
  <2> HIDE DEF h
  <2> QED
    BY <1>3, <1>4, DivModOf DEF h
<1>6. N * g + q = M * (V * g) + q /\ V * g \in Nat
  BY <1>2, <1>3
<1>7. (s \div P) % M = q % M
  <2> DEFINE k == V * g
  <2>1. (M * k + q) % M = q % M /\ s \div P = M * k + q
    <3>1. k \in Nat /\ s \div P = M * k + q
      BY <1>5, <1>6
    <3> HIDE DEF k
    <3> QED
      BY <1>3, <3>1, ModShift
  <2> QED
    BY <2>1
<1> QED
  BY <1>2, <1>5, <1>7 DEF SameDigits, y, q, p

-----------------------------------------------------------------------------
(* The constant of a branch: one bit set, the one below it clear.          *)
LEMMA SetBit ==
  ASSUME NEW x \in Nat, NEW P \in Nat \ {0}
  PROVE  LET y == IF (x \div P) % 2 = 1 THEN x ELSE x + P
         IN y \in Nat /\ (y \div P) % 2 = 1
<1> DEFINE q == x \div P
           a == x % P
<1>1. q \in Nat /\ a \in 0..(P - 1) /\ x = P * q + a
  BY DivMod
<1> HIDE DEF q, a
<1>2. CASE q % 2 = 1
  BY <1>2 DEF q
<1>3. CASE q % 2 # 1
  <2>1. x + P = P * (q + 1) + a /\ q + 1 \in Nat
    BY <1>1
  <2>2. (x + P) \div P = q + 1
    BY <1>1, <2>1, DivModOf
  <2>3. (q + 1) % 2 = 1
    BY <1>1, <1>3
  <2> QED
    BY <1>3, <2>2, <2>3 DEF q
<1> QED
  BY <1>2, <1>3

LEMMA ClearBit ==
  ASSUME NEW z \in Nat, NEW Q \in Nat \ {0}, (z \div (2 * Q)) % 2 = 1
  PROVE  LET w == IF (z \div Q) % 2 = 1 THEN z - Q ELSE z
         IN w \in Nat /\ (w \div (2 * Q)) % 2 = 1 /\ w % (2 * Q) < Q
<1> DEFINE t == z \div Q
           b == z % Q
           h == t \div 2
           e == t % 2
           w == IF e = 1 THEN z - Q ELSE z
           P == 2 * Q
<1>1. t \in Nat /\ b \in 0..(Q - 1) /\ z = Q * t + b
  BY DivMod
<1>2. h \in Nat /\ e \in 0..1 /\ t = 2 * h + e
  BY <1>1
<1>3. P \in Nat \ {0}
  OBVIOUS
<1>4. z = P * h + (Q * e + b)
  <2> HIDE DEF t, b, h, e
  <2>1. Q * (2 * h + e) = (2 * Q) * h + Q * e
    BY <1>2
  <2> QED
    BY <1>1, <1>2, <2>1
<1>5. Q * e + b \in 0..(P - 1) /\ w = P * h + b /\ b \in 0..(P - 1)
  <2> HIDE DEF t, b, h
  <2>1. CASE e = 0
    BY <1>1, <1>2, <1>4, <2>1
  <2>2. CASE e = 1
    BY <1>1, <1>2, <1>4, <2>2
  <2> QED
    BY <1>2, <2>1, <2>2
<1> HIDE DEF t, b, h, e, P
<1>6. z \div P = h
  <2> DEFINE p == Q * e + b
  <2>1. z = P * h + p /\ p \in 0..(P - 1)
    BY <1>4, <1>5
  <2> HIDE DEF p
  <2> QED
    BY <1>2, <1>3, <2>1, DivModOf
<1>7. w \div P = h /\ w % P = b
  <2> HIDE DEF w
  <2> QED
    BY <1>2, <1>3, <1>5, DivModOf
<1>8. w \in Nat
  BY <1>1, <1>2, <1>3, <1>5
<1> QED
  BY <1>1, <1>6, <1>7, <1>8 DEF P, e, t

LEMMA ConstantIsGood ==
  ASSUME NEW imm \in Words, NEW cond \in Conds
  PROVE  /\ BranchConstant(imm, cond) \in Nat
         /\ GoodConstant(BranchConstant(imm, cond), JumpOffset + cond)
<1> DEFINE s == JumpOffset + cond
           Q == 2^(s - 1)
           z == WithBit(imm, s)
<1>1. s \in Nat \ {0} /\ s \in 1..WordSize /\ s + JumpBits <= WordSize /\ JumpOffset - 1 + cond = s - 1
  BY SizeAssumption
<1>2. imm \in Nat
  <2>1. 2^WordSize \in Nat \ {0}
    BY SizeAssumption, PowerType
  <2> QED
    BY <2>1 DEF Words
<1>3. s - 1 \in Nat /\ 2^s = 2 * Q
  BY <1>1, PowerStep
<1>4. Q \in Nat \ {0} /\ 2^s \in Nat \ {0}
  <2>1. s \in Nat
    BY <1>1
  <2> QED
    BY <1>3, <2>1, PowerType
<1>5. BranchConstant(imm, cond) = WithoutBit(z, s - 1)
  BY <1>1 DEF BranchConstant
<1> HIDE DEF s, Q
<1>6. z \in Nat /\ (z \div 2^s) % 2 = 1
  <2> DEFINE P == 2^s
  <2>1. z = IF (imm \div P) % 2 = 1 THEN imm ELSE imm + P
    BY DEF WithBit, Bit
  <2>2. P \in Nat \ {0}
    BY <1>4
  <2> HIDE DEF P, z
  <2>3. z \in Nat /\ (z \div P) % 2 = 1
    BY <1>2, <2>1, <2>2, SetBit
  <2> QED
    BY <2>3 DEF P
<1> HIDE DEF z
<1> DEFINE w == IF (z \div Q) % 2 = 1 THEN z - Q ELSE z
<1>7. BranchConstant(imm, cond) = w
  BY <1>5 DEF WithoutBit, Bit, Q
<1>8. w \in Nat /\ (w \div 2^s) % 2 = 1 /\ w % 2^s < Q
  <2>1. (z \div (2 * Q)) % 2 = 1
    BY <1>3, <1>6
  <2>2. w \in Nat /\ (w \div (2 * Q)) % 2 = 1 /\ w % (2 * Q) < Q
    BY <1>4, <1>6, <2>1, ClearBit
  <2> QED
    BY <1>3, <2>2
<1> HIDE DEF w
<1>9. GoodConstant(w, s)
  BY <1>1, <1>8 DEF GoodConstant, Q
<1> QED
  BY <1>7, <1>8, <1>9 DEF s

-----------------------------------------------------------------------------
(* A sum, digit by digit.                                                  *)
LEMMA SumWithoutCarry ==
  ASSUME NEW P \in Nat \ {0}, NEW x \in Nat, NEW c \in Nat,
         (x % P) + (c % P) < P
  PROVE  (x + c) \div P = (x \div P) + (c \div P)
<1> DEFINE q == (x \div P) + (c \div P)
           p == (x % P) + (c % P)
<1>1. /\ x \div P \in Nat /\ x % P \in 0..(P - 1) /\ x = P * (x \div P) + (x % P)
      /\ c \div P \in Nat /\ c % P \in 0..(P - 1) /\ c = P * (c \div P) + (c % P)
  BY DivMod
<1>2. x + c = P * q + p /\ q \in Nat /\ p \in 0..(P - 1)
  BY <1>1
<1> HIDE DEF q, p
<1>3. (P * q + p) \div P = q
  BY <1>2, DivModOf
<1> QED
  BY <1>2, <1>3 DEF q

LEMMA SumWithCarry ==
  ASSUME NEW P \in Nat \ {0}, NEW x \in Nat, NEW c \in Nat,
         (x % P) + (c % P) >= P
  PROVE  (x + c) % P = (x % P) + (c % P) - P
<1> DEFINE q == (x \div P) + (c \div P) + 1
           p == (x % P) + (c % P) - P
<1>1. /\ x \div P \in Nat /\ x % P \in 0..(P - 1) /\ x = P * (x \div P) + (x % P)
      /\ c \div P \in Nat /\ c % P \in 0..(P - 1) /\ c = P * (c \div P) + (c % P)
  BY DivMod
<1>2. x + c = P * q + p /\ q \in Nat /\ p \in 0..(P - 1)
  BY <1>1
<1> HIDE DEF q, p
<1>3. (P * q + p) % P = p
  BY <1>2, DivModOf
<1> QED
  BY <1>2, <1>3 DEF p

(* A multiple of an even number plus an odd one is not a multiple.         *)
LEMMA OddIsNoMultiple ==
  ASSUME NEW N \in Nat \ {0}, NEW h \in Nat, h % (2 * N) = 0,
         NEW f \in Nat, f % 2 = 1
  PROVE  (h + f) % (2 * N) # 0
<1> SUFFICES ASSUME (h + f) % (2 * N) = 0 PROVE FALSE
  OBVIOUS
<1> DEFINE M == 2 * N
           k == h \div M
           g == (h + f) \div M
<1>1. M \in Nat \ {0} /\ h + f \in Nat
  OBVIOUS
<1>2. h % M = 0 /\ (h + f) % M = 0
  OBVIOUS
<1> HIDE DEF M
<1>3. k \in Nat /\ h = M * k + (h % M) /\ g \in Nat /\ h + f = M * g + ((h + f) % M)
  BY <1>1, DivMod
<1> HIDE DEF k, g
<1> DEFINE d == N * k
           e == N * g
<1>4. d \in Nat /\ e \in Nat /\ h = 2 * d /\ h + f = 2 * e
  BY <1>2, <1>3 DEF M
<1> HIDE DEF d, e
<1> QED
  BY <1>4

(* What a jump leaves of a register whose tested field was zero: the field *)
(* is zero again only by a carry, and then less than half of what is below *)
(* is left; of which no carry comes.                                       *)
LEMMA Carry ==
  ASSUME NEW Q \in Nat \ {0}, NEW N \in Nat \ {0},
         NEW x \in Nat, (x \div (2 * Q)) % (2 * N) = 0,
         NEW c \in Nat, (c \div (2 * Q)) % 2 = 1, c % (2 * Q) < Q
  PROVE  /\ (x + c) % (2 * Q) < Q \/ ((x + c) \div (2 * Q)) % (2 * N) # 0
         /\ x % (2 * Q) < Q => ((x + c) \div (2 * Q)) % (2 * N) # 0
<1> DEFINE P == 2 * Q
<1>0. P \in Nat \ {0} /\ P = 2 * Q
  OBVIOUS
<1> HIDE DEF P
<1>1. /\ x \div P \in Nat /\ x % P \in 0..(P - 1)
      /\ c \div P \in Nat /\ c % P \in 0..(P - 1)
  BY <1>0, DivMod
<1>2. CASE (x % P) + (c % P) < P
  <2>1. (x + c) \div P = (x \div P) + (c \div P)
    BY <1>0, <1>2, SumWithoutCarry
  <2>2. ((x \div P) + (c \div P)) % (2 * N) # 0
    BY <1>0, <1>1, OddIsNoMultiple
  <2> QED
    BY <1>0, <2>1, <2>2
<1>3. CASE (x % P) + (c % P) >= P
  <2>1. (x + c) % P = (x % P) + (c % P) - P
    BY <1>0, <1>3, SumWithCarry
  <2> QED
    BY <1>0, <1>1, <1>3, <2>1
<1> QED
  BY <1>0, <1>1, <1>2, <1>3

LEMMA WordType ==
  /\ 2^WordSize \in Nat \ {0}
  /\ 0 \in Words
  /\ Words \subseteq Nat
  /\ \A n \in Nat : n % 2^WordSize \in Words
<1> DEFINE W == 2^WordSize
<1>1. W \in Nat \ {0}
  BY SizeAssumption, PowerType
<1> HIDE DEF W
<1>2. 0 \in 0..(W - 1) /\ 0..(W - 1) \subseteq Nat /\ \A n \in Nat : n % W \in 0..(W - 1)
  BY <1>1
<1> QED
  BY <1>1, <1>2 DEF W, Words

LEMMA TakenAgain ==
  ASSUME NEW shift, NEW imm \in Nat, GoodConstant(imm, shift),
         NEW x \in Words, Taken(x, shift)
  PROVE  LET y == (x + imm) % 2^WordSize
         IN /\ Taken(y, shift) => y % 2^shift < 2^(shift - 1)
            /\ x % 2^shift < 2^(shift - 1) => ~Taken(y, shift)
<1> DEFINE P == 2^shift
           Q == 2^(shift - 1)
           M == 2^JumpBits
           N == 2^(JumpBits - 1)
           rest == WordSize - shift - JumpBits
           V == 2^rest
           s == x + imm
           y == s % 2^WordSize
<1>1. /\ shift \in Nat \ {0} /\ JumpBits \in Nat \ {0} /\ rest \in Nat
      /\ JumpBits + rest \in Nat /\ shift + (JumpBits + rest) = WordSize
  BY SizeAssumption DEF GoodConstant
<1>2. P \in Nat \ {0} /\ M \in Nat \ {0} /\ V \in Nat \ {0}
  <2>1. shift \in Nat /\ JumpBits \in Nat
    BY <1>1
  <2> QED
    BY <1>1, <2>1, PowerType
<1>3. P = 2 * Q /\ Q \in Nat /\ M = 2 * N /\ N \in Nat \ {0}
  <2>1. shift - 1 \in Nat /\ JumpBits - 1 \in Nat
    BY <1>1
  <2>2. Q \in Nat \ {0} /\ N \in Nat \ {0}
    BY <2>1, PowerType
  <2> QED
    BY <1>1, <2>2, PowerStep
<1>4. 2^WordSize = P * (M * V)
  <2>1. 2^(shift + (JumpBits + rest)) = P * 2^(JumpBits + rest)
    BY <1>1, PowerSum
  <2>2. 2^(JumpBits + rest) = M * V
    BY <1>1, PowerSum
  <2> QED
    BY <1>1, <2>1, <2>2
<1>5. x \in Nat /\ s \in Nat
  BY WordType
<1>6. (x \div P) % M = 0 /\ (imm \div P) % 2 = 1 /\ imm % P < Q
  BY DEF Taken, GoodConstant
<1>7. y % P = s % P /\ (y \div P) % M = (s \div P) % M
  <2>1. y = s % (P * (M * V))
    BY <1>4
  <2> HIDE DEF P, Q, M, V, s, y
  <2>2. SameDigits(s % (P * (M * V)), s, P, M)
    BY <1>2, <1>5, WordKeeps, Zenon
  <2>3. SameDigits(y, s, P, M)
    BY <2>1, <2>2
  <2> QED
    BY <2>3 DEF SameDigits
<1>8. /\ s % P < Q \/ (s \div P) % M # 0
      /\ x % P < Q => (s \div P) % M # 0
  <2> HIDE DEF P, Q, M, N, s
  <2>1. /\ (x \div (2 * Q)) % (2 * N) = 0
        /\ (imm \div (2 * Q)) % 2 = 1
        /\ imm % (2 * Q) < Q
        /\ Q \in Nat \ {0}
    BY <1>2, <1>3, <1>6
  <2>2. /\ (x + imm) % (2 * Q) < Q \/ ((x + imm) \div (2 * Q)) % (2 * N) # 0
        /\ x % (2 * Q) < Q => ((x + imm) \div (2 * Q)) % (2 * N) # 0
    BY <1>3, <1>5, <2>1, Carry, Zenon
  <2> QED
    BY <1>3, <2>2 DEF s
<1> HIDE DEF P, Q, M, V, N, s, y
<1>9. Taken(y, shift) <=> (y \div P) % M = 0
  BY DEF Taken, P, M
<1>10. /\ Taken(y, shift) => y % P < Q
       /\ x % P < Q => ~Taken(y, shift)
  BY <1>7, <1>8, <1>9
<1> QED
  BY <1>10 DEF P, Q, y, s

-----------------------------------------------------------------------------
(* The beginning, and the compiler.                                        *)
LEMMA InitIInv ==
  ASSUME Init
  PROVE  IInv
<1> USE DEF Init
<1>1. ProgramSize \in Nat /\ i = 0
  BY SizeAssumption DEF i
<1>2. Types
  BY <1>1, WordType DEF Types, Ready, NoLoop, i
<1>3. Phases /\ UsageIsKnown /\ BranchesGoBack
  BY <1>1 DEF Phases, UsageIsKnown, BranchesGoBack
<1>4. InLoop /\ RunsForward /\ RunsInLoop
  BY DEF InLoop, RunsForward, RunsInLoop
<1> QED
  BY <1>2, <1>3, <1>4 DEF IInv

LEMMA Fields ==
  ASSUME Types, NEW k \in 0..(i - 1)
  PROVE  /\ At(k) \in Instructions
         /\ At(k).type \in {"write", "branch"}
         /\ IsBranch(k) => /\ At(k).creg \in Registers /\ At(k).target \in Nat
                           /\ At(k).imm \in Nat /\ At(k).shift \in Nat
<1>1. k + 1 \in 1..Len(bytecode)
  BY DEF Types, i
<1>2. At(k) \in Instructions
  BY <1>1 DEF Types, At
<1> QED
  BY <1>2 DEF Instructions, IsBranch

LEMMA EmitIInv ==
  ASSUME IInv, NEW I \in Instructions, NEW used \in SUBSET Registers, Emit(I, used),
         I.type = "write" => I.registers \subseteq used,
         I.type = "branch" =>
           /\ used = Registers /\ I.target <= i
           /\ \A k \in I.target..(i - 1) : Leaves(k, I.creg)
           /\ GoodConstant(I.imm, I.shift)
  PROVE  IInv'
<1>1. ProgramSize \in Nat /\ Types /\ i < ProgramSize
  BY SizeAssumption DEF IInv, Emit
<1>2. PICK n \in 0..(ProgramSize - 1) : i = n /\ Len(bytecode) = n
  BY <1>1 DEF Types, i
<1>3. i' = n + 1 /\ At(n)' = I /\ \A k \in 0..(n - 1) : At(k)' = At(k)
  <2>1. bytecode \in Seq(Instructions) /\ bytecode' = Append(bytecode, I)
    BY <1>1 DEF Types, Emit
  <2>2. /\ Len(bytecode') = n + 1
        /\ bytecode'[n + 1] = I
        /\ \A k \in 1..n : bytecode'[k] = bytecode[k]
    BY <1>2, <2>1
  <2> QED
    BY <1>2, <2>2 DEF At, i
<1>4. pc = Ready /\ loop = NoLoop /\ \A k \in DOMAIN runs : runs[k] = 0
  BY <1>1 DEF IInv, Phases
<1>5. UNCHANGED <<r, pc, runs, loop>>
  BY DEF Emit
<1>6. Types'
  <2>1. bytecode' \in Seq(Instructions) /\ Len(bytecode') <= ProgramSize
    BY <1>1, <1>2, <1>3 DEF Types, Emit, i
  <2>2. registerUsage' \in [Registers -> Nat]
    BY <1>2, <1>1 DEF Types, Emit
  <2> QED
    BY <1>1, <1>5, <2>1, <2>2 DEF Types
<1>7. Phases' /\ InLoop' /\ RunsForward' /\ RunsInLoop'
  BY <1>4, <1>5 DEF Phases, InLoop, RunsForward, RunsInLoop, Ready, NoLoop
<1>8. \A k \in 0..(n - 1) : \A x \in Registers : Leaves(k, x)' <=> Leaves(k, x)
  BY <1>3 DEF Leaves
<1>9. UsageIsKnown'
  <2> SUFFICES ASSUME NEW x \in Registers
               PROVE  /\ registerUsage'[x] <= n + 1
                      /\ \A k \in registerUsage'[x]..n : Leaves(k, x)'
    BY <1>3 DEF UsageIsKnown
  <2>1. registerUsage[x] \in Nat /\ registerUsage[x] <= n
        /\ \A k \in registerUsage[x]..(n - 1) : Leaves(k, x)
    BY <1>1, <1>2 DEF IInv, UsageIsKnown, Types
  <2>2. CASE x \in used
    <3>1. registerUsage'[x] = n + 1
      BY <1>2, <2>2 DEF Emit
    <3> QED
      BY <1>2, <3>1
  <2>3. CASE x \notin used
    <3>1. registerUsage'[x] = registerUsage[x]
      BY <2>3 DEF Emit
    <3>2. Leaves(n, x)'
      BY <1>3, <2>3 DEF Leaves, Instructions
    <3> QED
      BY <1>2, <1>8, <2>1, <3>1, <3>2
  <2> QED
    BY <2>2, <2>3
<1>10. BranchesGoBack'
  <2> SUFFICES ASSUME NEW b \in 0..n, IsBranch(b)'
               PROVE  /\ At(b)'.target <= b
                      /\ \A k \in At(b)'.target..(b - 1) : Leaves(k, At(b).creg)'
                      /\ GoodConstant(At(b)'.imm, At(b)'.shift)
    BY <1>2, <1>3 DEF BranchesGoBack, GoodConstant
  <2>1. CASE b = n
    <3>1. At(b)' = I /\ I.type = "branch" /\ I.creg \in Registers /\ I.target \in Nat
      BY <1>3, <2>1 DEF IsBranch, Instructions
    <3>2. /\ I.target <= n /\ \A k \in I.target..(n - 1) : Leaves(k, I.creg)
          /\ GoodConstant(I.imm, I.shift)
      BY <1>2, <3>1
    <3>3. \A k \in I.target..(n - 1) : Leaves(k, I.creg)'
      BY <1>2, <1>8, <3>1, <3>2
    <3>4. \A k \in I.target..(n - 1) : Leaves(k, At(b).creg)'
      BY <3>1, <3>3 DEF Leaves
    <3> QED
      BY <2>1, <3>1, <3>2, <3>4
  <2>2. CASE b < n
    <3>1. b \in 0..(n - 1) /\ At(b)' = At(b) /\ IsBranch(b)
      BY <1>2, <1>3, <2>2 DEF IsBranch
    <3>2. At(b).creg \in Registers /\ At(b).target \in Nat
      BY <1>1, <1>2, <3>1, Fields
    <3>3. /\ At(b).target <= b
          /\ \A k \in At(b).target..(b - 1) : Leaves(k, At(b).creg)
          /\ GoodConstant(At(b).imm, At(b).shift)
      BY <1>2, <3>1 DEF IInv, BranchesGoBack
    <3>4. \A k \in At(b).target..(b - 1) : At(k)' = At(k) /\ Leaves(k, At(b).creg)
      BY <1>2, <1>3, <3>1, <3>2, <3>3
    <3>5. \A k \in At(b).target..(b - 1) : Leaves(k, At(b).creg)'
      BY <3>1, <3>4 DEF Leaves
    <3> QED
      BY <3>1, <3>3, <3>5
  <2> QED
    BY <1>2, <2>1, <2>2
<1> QED
  BY <1>6, <1>7, <1>9, <1>10 DEF IInv

LEMMA CompileIInv ==
  ASSUME IInv, Compile
  PROVE  IInv'
<1>1. ASSUME NEW W \in SUBSET Registers, Emit(Writes(W), W)
      PROVE  IInv'
  <2>1. Writes(W) \in Instructions /\ Writes(W).type = "write" /\ Writes(W).registers = W
    BY DEF Writes, Instructions
  <2> HIDE DEF Writes
  <2> QED
    BY <1>1, <2>1, EmitIInv
<1>2. ASSUME NEW dst \in Registers, NEW imm \in Words, NEW cond \in Conds,
             GenBranch(dst, imm, cond)
      PROVE  IInv'
  <2> DEFINE I == [type |-> "branch", creg |-> dst, target |-> registerUsage[dst],
                   imm |-> BranchConstant(imm, cond), shift |-> JumpOffset + cond]
  <2>1. Emit(I, Registers)
    BY <1>2 DEF GenBranch, BranchUses
  <2>2. /\ BranchConstant(imm, cond) \in Nat /\ JumpOffset + cond \in Nat
        /\ GoodConstant(BranchConstant(imm, cond), JumpOffset + cond)
    BY SizeAssumption, ConstantIsGood
  <2>3. /\ registerUsage[dst] \in Nat /\ registerUsage[dst] <= i
        /\ \A k \in registerUsage[dst]..(i - 1) : Leaves(k, dst)
    BY DEF IInv, Types, UsageIsKnown
  <2>4. I \in Instructions /\ I.type = "branch"
    BY <2>2, <2>3 DEF Instructions
  <2>5. /\ I.target <= i
        /\ \A k \in I.target..(i - 1) : Leaves(k, I.creg)
        /\ GoodConstant(I.imm, I.shift)
    BY <2>2, <2>3
  <2> HIDE DEF I
  <2> QED
    BY <2>1, <2>4, <2>5, EmitIInv
<1>3. ASSUME NEW dst \in Registers, GenArithmetic(dst)
      PROVE  IInv'
  BY <1>1, <1>3 DEF GenArithmetic
<1>4. ASSUME NEW dst \in Registers, NEW zeroOrPowerOf2 \in BOOLEAN,
             GenMulRcp(dst, zeroOrPowerOf2)
      PROVE  IInv'
  BY <1>1, <1>4 DEF GenMulRcp, NOP
<1>5. ASSUME NEW dst \in Registers, NEW src \in Registers, GenSwap(dst, src)
      PROVE  IInv'
  BY <1>1, <1>5 DEF GenSwap, SwapUses, NOP
<1>6. ASSUME GenOther
      PROVE  IInv'
  BY <1>1, <1>6 DEF GenOther, NOP
<1> QED
  BY <1>2, <1>3, <1>4, <1>5, <1>6 DEF Compile

-----------------------------------------------------------------------------
(* The program, while it runs.                                             *)
Code == UsageIsKnown /\ BranchesGoBack

LEMMA CodeKeeps ==
  ASSUME UNCHANGED <<bytecode, registerUsage>>
  PROVE  /\ i' = i /\ (Code => Code')
         /\ \A k : At(k)' = At(k) /\ (IsBranch(k)' <=> IsBranch(k))
         /\ \A k, x : Leaves(k, x)' <=> Leaves(k, x)
<1>1. i' = i
  BY DEF i
<1>2. \A k : At(k)' = At(k)
  BY DEF At
<1>3. \A k : IsBranch(k)' <=> IsBranch(k)
  BY <1>2 DEF IsBranch
<1>4. \A k, x : Leaves(k, x)' <=> Leaves(k, x)
  BY <1>2 DEF Leaves
<1>5. Code => Code'
  BY <1>1, <1>2, <1>3, <1>4 DEF Code, UsageIsKnown, BranchesGoBack
<1> QED
  BY <1>1, <1>2, <1>3, <1>4, <1>5

LEMMA StartIInv ==
  ASSUME IInv, Start
  PROVE  IInv'
<1>1. ProgramSize \in Nat /\ Types /\ Code /\ loop = NoLoop /\ \A k \in DOMAIN runs : runs[k] = 0
  BY SizeAssumption DEF IInv, Start, Phases, Code
<1>2. /\ i = ProgramSize /\ r' \in [Registers -> Words] /\ pc' = 0
      /\ UNCHANGED <<bytecode, registerUsage, runs, loop>>
  BY DEF Start
<1>3. Types'
  BY <1>1, <1>2 DEF Types
<1>4. Code' /\ i' = i
  BY <1>1, <1>2, CodeKeeps
<1>5. Phases'
  BY <1>1, <1>2, <1>4 DEF Phases, Ready
<1>6. InLoop' /\ RunsInLoop'
  BY <1>1, <1>2 DEF InLoop, RunsInLoop, NoLoop
<1>7. RunsForward'
  <2>1. \A k \in DOMAIN runs' : runs'[k] = 0
    BY <1>1, <1>2
  <2>2. \A k \in DOMAIN runs' : ~(k < 0)
    BY <1>1, <1>2 DEF Types
  <2>3. \A b \in 0..(ProgramSize - 1) : IsBranch(b) => At(b).target \in Nat
    BY <1>1, <1>2, Fields
  <2>4. \A b \in 0..(ProgramSize - 1) : IsBranch(b) => At(b).target..(0 - 1) = {}
    BY <2>3
  <2>5. \A b : At(b)' = At(b) /\ (IsBranch(b)' <=> IsBranch(b))
    BY <1>2, CodeKeeps
  <2> QED
    BY <1>2, <2>1, <2>2, <2>4, <2>5 DEF RunsForward
<1> QED
  BY <1>3, <1>4, <1>5, <1>6, <1>7 DEF IInv, Code

LEMMA WhileRunning ==
  ASSUME IInv, Running
  PROVE  /\ ProgramSize \in Nat /\ Types /\ Code
         /\ pc \in 0..(ProgramSize - 1) /\ i = ProgramSize
         /\ ibc = At(pc) /\ At(pc) \in Instructions
<1>1. ProgramSize \in Nat /\ Types /\ Code
  BY SizeAssumption DEF IInv, Code
<1>2. pc \in 0..(ProgramSize - 1)
  BY <1>1 DEF Running, Types
<1>3. i = ProgramSize
  BY <1>1, <1>2 DEF IInv, Phases, Ready
<1>4. At(pc) \in Instructions
  BY <1>1, <1>2, <1>3, Fields
<1> QED
  BY <1>1, <1>2, <1>3, <1>4 DEF ibc, At

LEMMA RunsCount ==
  ASSUME Types, Counted, pc \in 0..(ProgramSize - 1)
  PROVE  /\ runs' \in [0..(ProgramSize - 1) -> Nat]
         /\ \A k \in 0..(ProgramSize - 1) : runs[k] \in Nat /\ (k # pc => runs'[k] = runs[k])
         /\ runs[pc] < TooOften => runs'[pc] = runs[pc] + 1
<1>1. runs \in [0..(ProgramSize - 1) -> Nat]
  BY DEF Types
<1>2. runs' = [runs EXCEPT ![pc] = IF runs[pc] < TooOften THEN runs[pc] + 1 ELSE runs[pc]]
  BY DEF Counted
<1>3. runs[pc] \in Nat /\ TooOften \in Nat
  BY <1>1 DEF TooOften
<1> QED
  BY <1>1, <1>2, <1>3

(* What a branch finds behind its target: nothing that writes its          *)
(* register, and no branch.                                                *)
LEMMA Behind ==
  ASSUME Types, Code, i = ProgramSize,
         NEW b \in 0..(ProgramSize - 1), IsBranch(b)
  PROVE  /\ At(b).target \in 0..b
         /\ \A k \in At(b).target..(b - 1) : Leaves(k, At(b).creg)
         /\ GoodConstant(At(b).imm, At(b).shift)
         /\ At(b).creg \in Registers /\ At(b).imm \in Nat
<1>1. /\ At(b).target \in Nat /\ At(b).creg \in Registers /\ At(b).imm \in Nat
  BY Fields
<1>2. /\ At(b).target <= b
      /\ \A k \in At(b).target..(b - 1) : Leaves(k, At(b).creg)
      /\ GoodConstant(At(b).imm, At(b).shift)
  BY DEF Code, BranchesGoBack
<1> QED
  BY <1>1, <1>2

(* On to the next instruction, outside of a loop.                          *)
LEMMA ForwardIInv ==
  ASSUME IInv, Running, Counted, loop = NoLoop,
         UNCHANGED <<bytecode, registerUsage, loop>>,
         pc' = pc + 1, r' \in [Registers -> Words]
  PROVE  IInv'
<1>1. /\ ProgramSize \in Nat /\ Types /\ Code
      /\ pc \in 0..(ProgramSize - 1) /\ i = ProgramSize
  BY WhileRunning
<1>2. /\ runs' \in [0..(ProgramSize - 1) -> Nat]
      /\ \A k \in 0..(ProgramSize - 1) : runs[k] \in Nat /\ (k # pc => runs'[k] = runs[k])
      /\ runs[pc] < TooOften => runs'[pc] = runs[pc] + 1
  BY <1>1, RunsCount
<1>3. /\ Code' /\ i' = i
      /\ \A k : At(k)' = At(k) /\ (IsBranch(k)' <=> IsBranch(k))
  BY <1>1, CodeKeeps
<1>4. Types'
  BY <1>1, <1>2 DEF Types
<1>5. Phases'
  BY <1>1, <1>3 DEF Phases, Ready
<1>6. InLoop' /\ RunsInLoop'
  BY DEF InLoop, RunsInLoop, NoLoop
<1>7. /\ \A k \in 0..(ProgramSize - 1) : IF k < pc THEN runs[k] <= 3 ELSE runs[k] = 0
      /\ \A b \in pc..(ProgramSize - 1) : IsBranch(b) =>
           \A k \in At(b).target..(pc - 1) : runs[k] = 1
  BY <1>1 DEF IInv, RunsForward, Types, Ready
<1>8. runs'[pc] = 1
  BY <1>1, <1>2, <1>7 DEF TooOften
<1>9. \A k \in 0..(ProgramSize - 1) : IF k < pc + 1 THEN runs'[k] <= 3 ELSE runs'[k] = 0
  BY <1>1, <1>2, <1>7, <1>8
<1>10. ASSUME NEW b \in (pc + 1)..(ProgramSize - 1), IsBranch(b),
              NEW k \in At(b).target..pc
       PROVE  runs'[k] = 1
  <2>1. b \in pc..(ProgramSize - 1) /\ At(b).target \in Nat
    BY <1>1, <1>10, Fields
  <2>2. k # pc => runs[k] = 1 /\ runs'[k] = runs[k]
    BY <1>1, <1>2, <1>7, <1>10, <2>1
  <2> QED
    BY <1>8, <2>2
<1>11. RunsForward'
  BY <1>1, <1>2, <1>3, <1>9, <1>10 DEF RunsForward
<1> QED
  BY <1>3, <1>4, <1>5, <1>6, <1>11 DEF IInv, Code

LEMMA WriteIInv ==
  ASSUME IInv, Write
  PROVE  IInv'
<1>1. Running /\ UNCHANGED <<bytecode, registerUsage, loop>> /\ pc' = pc + 1 /\ Counted
  BY DEF Write
<1>2. /\ ProgramSize \in Nat /\ Types /\ Code
      /\ pc \in 0..(ProgramSize - 1) /\ i = ProgramSize
      /\ ibc = At(pc) /\ At(pc) \in Instructions
  BY <1>1, WhileRunning
<1>3. At(pc).type = "write" /\ At(pc).registers \subseteq Registers
  BY <1>2 DEF Write, Instructions
<1>4. PICK words \in [At(pc).registers -> Words] :
        r' = [x \in Registers |-> IF x \in At(pc).registers THEN words[x] ELSE r[x]]
  BY <1>2 DEF Write
<1>5. /\ r' \in [Registers -> Words]
      /\ \A x \in Registers : x \notin At(pc).registers => r'[x] = r[x]
  BY <1>2, <1>3, <1>4 DEF Types
<1>6. CASE loop = NoLoop
  BY <1>1, <1>5, <1>6, ForwardIInv
<1>7. CASE loop # NoLoop
  <2> DEFINE b == loop.branch
  <2>1. /\ b \in 0..(ProgramSize - 1) /\ IsBranch(b)
        /\ pc \in At(b).target..b
        /\ r[At(b).creg] = loop.value
    BY <1>2, <1>7 DEF IInv, InLoop, Types
  <2>2. /\ runs[b] \in 1..2
        /\ \A k \in 0..(ProgramSize - 1) :
             /\ k < At(b).target => runs[k] <= 3
             /\ k \in At(b).target..(pc - 1) => runs[k] = runs[b] + 1
             /\ k \in pc..b => runs[k] = runs[b]
             /\ k > b => runs[k] = 0
        /\ Taken(loop.value, At(b).shift)
        /\ runs[b] = 2 => loop.value % 2^At(b).shift < 2^(At(b).shift - 1)
    BY <1>2, <1>7 DEF IInv, RunsInLoop, Types
  <2> HIDE DEF b
  <2>3. pc # b
    BY <1>3, <2>1 DEF IsBranch
  <2>4. /\ At(b).target \in 0..b /\ At(b).creg \in Registers
        /\ Leaves(pc, At(b).creg)
    <3>1. /\ At(b).target \in 0..b /\ At(b).creg \in Registers
          /\ \A k \in At(b).target..(b - 1) : Leaves(k, At(b).creg)
      BY <1>2, <2>1, Behind
    <3>2. pc \in At(b).target..(b - 1)
      BY <2>1, <2>3, <3>1
    <3> QED
      BY <3>1, <3>2
  <2>5. pc + 1 \in At(b).target..b
    BY <1>2, <2>1, <2>3, <2>4
  <2>6. r'[At(b).creg] = loop.value
    BY <1>5, <2>1, <2>4 DEF Leaves
  <2>7. /\ runs' \in [0..(ProgramSize - 1) -> Nat]
        /\ \A k \in 0..(ProgramSize - 1) : runs[k] \in Nat /\ (k # pc => runs'[k] = runs[k])
        /\ runs[pc] < TooOften => runs'[pc] = runs[pc] + 1
    BY <1>1, <1>2, RunsCount
  <2>8. runs'[pc] = runs[b] + 1 /\ runs'[b] = runs[b]
    BY <1>2, <2>1, <2>2, <2>3, <2>4, <2>7 DEF TooOften
  <2>9. \A k \in 0..(ProgramSize - 1) :
          /\ k < At(b).target => runs'[k] <= 3
          /\ k \in At(b).target..pc => runs'[k] = runs[b] + 1
          /\ k \in (pc + 1)..b => runs'[k] = runs[b]
          /\ k > b => runs'[k] = 0
    <3> SUFFICES ASSUME NEW k \in 0..(ProgramSize - 1)
                 PROVE  /\ k < At(b).target => runs'[k] <= 3
                        /\ k \in At(b).target..pc => runs'[k] = runs[b] + 1
                        /\ k \in (pc + 1)..b => runs'[k] = runs[b]
                        /\ k > b => runs'[k] = 0
      OBVIOUS
    <3>1. CASE k = pc
      BY <1>2, <2>1, <2>4, <2>8, <3>1
    <3>2. CASE k # pc
      <4>1. runs'[k] = runs[k]
        BY <2>7, <3>2
      <4>2. k \in At(b).target..pc => k \in At(b).target..(pc - 1)
        BY <1>2, <2>4, <3>2
      <4>3. k \in (pc + 1)..b => k \in pc..b
        BY <1>2, <2>4
      <4> QED
        BY <2>2, <4>1, <4>2, <4>3
    <3> QED
      BY <3>1, <3>2
  <2>10. /\ Code' /\ i' = i /\ loop' = loop
         /\ \A k : At(k)' = At(k) /\ (IsBranch(k)' <=> IsBranch(k))
    BY <1>1, <1>2, CodeKeeps
  <2>11. Types'
    BY <1>1, <1>2, <1>5, <2>7 DEF Types
  <2>12. Phases'
    BY <1>1, <1>2, <2>10 DEF Phases, Ready
  <2>13. InLoop'
    BY <1>1, <1>2, <2>1, <2>5, <2>6 DEF InLoop, IsBranch, At, b
  <2>14. RunsInLoop'
    <3>1. \A k \in DOMAIN runs' : k \in 0..(ProgramSize - 1)
      BY <2>7
    <3>2. pc' - 1 = pc
      BY <1>1, <1>2
    <3> QED
      BY <1>1, <2>2, <2>8, <2>9, <2>10, <3>1, <3>2 DEF RunsInLoop, Taken, b
  <2>15. RunsForward'
    BY <1>7, <2>10 DEF RunsForward, NoLoop
  <2> QED
    BY <2>10, <2>11, <2>12, <2>13, <2>14, <2>15 DEF IInv, Code
<1> QED
  BY <1>6, <1>7

(* A branch in the loop of another: there is none, it is its own.          *)
LEMMA OwnLoop ==
  ASSUME IInv, Running, loop # NoLoop, IsBranch(pc)
  PROVE  /\ loop.branch = pc /\ r[At(pc).creg] = loop.value
         /\ runs[pc] \in 1..2
         /\ \A k \in 0..(ProgramSize - 1) :
              /\ k < At(pc).target => runs[k] <= 3
              /\ k \in At(pc).target..(pc - 1) => runs[k] = runs[pc] + 1
              /\ k > pc => runs[k] = 0
         /\ Taken(loop.value, At(pc).shift)
         /\ runs[pc] = 2 => loop.value % 2^At(pc).shift < 2^(At(pc).shift - 1)
<1>1. /\ ProgramSize \in Nat /\ Types /\ Code
      /\ pc \in 0..(ProgramSize - 1) /\ i = ProgramSize
  BY WhileRunning
<1>2. /\ loop.branch \in 0..(ProgramSize - 1) /\ IsBranch(loop.branch)
      /\ pc \in At(loop.branch).target..loop.branch
      /\ r[At(loop.branch).creg] = loop.value
  BY <1>1 DEF IInv, InLoop, Types
<1>3. PICK b \in 0..(ProgramSize - 1) : b = loop.branch
  BY <1>2
<1>4. \A k \in At(b).target..(b - 1) : Leaves(k, At(b).creg)
  BY <1>1, <1>2, <1>3, Behind
<1>5. ~Leaves(pc, At(b).creg)
  BY DEF Leaves, IsBranch
<1>6. At(b).target \in 0..b
  BY <1>1, <1>2, <1>3, Behind
<1>7. b = pc
  BY <1>1, <1>2, <1>3, <1>4, <1>5, <1>6
<1>8. loop.branch = pc
  BY <1>3, <1>7
<1> QED
  BY <1>1, <1>2, <1>8 DEF IInv, RunsInLoop, Types

(* A jump back, which begins the loop the first or the second time.        *)
LEMMA JumpIInv ==
  ASSUME IInv, Running, IsBranch(pc), Counted,
         UNCHANGED <<bytecode, registerUsage>>,
         pc' = At(pc).target, r' \in [Registers -> Words],
         loop' = [branch |-> pc, value |-> r'[At(pc).creg]],
         Taken(r'[At(pc).creg], At(pc).shift),
         runs[pc] \in 0..1,
         \A k \in 0..(ProgramSize - 1) :
           /\ k < At(pc).target => runs[k] <= 3
           /\ k \in At(pc).target..(pc - 1) => runs[k] = runs[pc] + 1
           /\ k > pc => runs[k] = 0,
         runs[pc] = 1 => r'[At(pc).creg] % 2^At(pc).shift < 2^(At(pc).shift - 1)
  PROVE  IInv'
<1>1. /\ ProgramSize \in Nat /\ Types /\ Code
      /\ pc \in 0..(ProgramSize - 1) /\ i = ProgramSize
  BY WhileRunning
<1>2. At(pc).target \in 0..pc /\ At(pc).creg \in Registers
  BY <1>1, Behind
<1>3. /\ runs' \in [0..(ProgramSize - 1) -> Nat]
      /\ \A k \in 0..(ProgramSize - 1) : runs[k] \in Nat /\ (k # pc => runs'[k] = runs[k])
      /\ runs[pc] < TooOften => runs'[pc] = runs[pc] + 1
  BY <1>1, RunsCount
<1>4. PICK b \in 0..(ProgramSize - 1), t \in Nat, y \in Words, m \in 1..2 :
        /\ pc = b /\ t \in 0..b /\ t = At(b).target /\ y = r'[At(b).creg] /\ m = runs[b] + 1
  BY <1>1, <1>2
<1>5. /\ loop' = [branch |-> b, value |-> y] /\ loop' # NoLoop
      /\ loop'.branch = b /\ loop'.value = y
  BY <1>1, <1>4 DEF NoLoop
<1>6. /\ Code' /\ i' = i
      /\ \A k : At(k)' = At(k) /\ (IsBranch(k)' <=> IsBranch(k))
  BY <1>1, CodeKeeps
<1>7. At(b)' = At(b) /\ IsBranch(b)' /\ bytecode' = bytecode
  BY <1>4, <1>6
<1>8. Types'
  BY <1>1, <1>2, <1>3, <1>4, <1>5 DEF Types
<1>9. Phases'
  BY <1>1, <1>2, <1>6 DEF Phases, Ready
<1>10. InLoop'
  BY <1>1, <1>4, <1>5, <1>7 DEF InLoop, At, IsBranch
<1>11. runs'[b] = m
  BY <1>3, <1>4 DEF TooOften
<1>12. \A k \in 0..(ProgramSize - 1) :
         /\ k < t => runs'[k] <= 3
         /\ k \in t..b => runs'[k] = m
         /\ k > b => runs'[k] = 0
  BY <1>3, <1>4, <1>11
<1>13. Taken(y, At(b).shift) /\ (m = 2 => y % 2^At(b).shift < 2^(At(b).shift - 1))
  BY <1>3, <1>4
<1>14. RunsInLoop'
  <2>1. pc' = t /\ DOMAIN runs' = 0..(ProgramSize - 1) /\ t..(t - 1) = {}
    BY <1>3, <1>4
  <2>2. SUFFICES /\ runs'[b] \in 1..2
                 /\ \A k \in DOMAIN runs' :
                      /\ k < At(b).target => runs'[k] <= 3
                      /\ k \in At(b).target..(t - 1) => runs'[k] = runs'[b] + 1
                      /\ k \in t..b => runs'[k] = runs'[b]
                      /\ k > b => runs'[k] = 0
                 /\ Taken(y, At(b).shift)
                 /\ runs'[b] = 2 => y % 2^At(b).shift < 2^(At(b).shift - 1)
    BY <1>5, <1>7, <2>1 DEF RunsInLoop, At, Taken
  <2> QED
    BY <1>4, <1>11, <1>12, <1>13, <2>1
<1>15. RunsForward'
  BY <1>5 DEF RunsForward, NoLoop
<1> QED
  BY <1>6, <1>8, <1>9, <1>10, <1>14, <1>15 DEF IInv, Code

(* The end of a loop: behind its branch, which has run three times at most.*)
LEMMA LetsGoIInv ==
  ASSUME IInv, Running, IsBranch(pc), Counted, loop # NoLoop,
         UNCHANGED <<bytecode, registerUsage>>,
         pc' = pc + 1, r' \in [Registers -> Words], loop' = NoLoop
  PROVE  IInv'
<1>1. /\ ProgramSize \in Nat /\ Types /\ Code
      /\ pc \in 0..(ProgramSize - 1) /\ i = ProgramSize
  BY WhileRunning
<1>2. /\ runs[pc] \in 1..2
      /\ \A k \in 0..(ProgramSize - 1) :
           /\ k < At(pc).target => runs[k] <= 3
           /\ k \in At(pc).target..(pc - 1) => runs[k] = runs[pc] + 1
           /\ k > pc => runs[k] = 0
  BY OwnLoop
<1>3. /\ runs' \in [0..(ProgramSize - 1) -> Nat]
      /\ \A k \in 0..(ProgramSize - 1) : runs[k] \in Nat /\ (k # pc => runs'[k] = runs[k])
      /\ runs[pc] < TooOften => runs'[pc] = runs[pc] + 1
  BY <1>1, RunsCount
<1>4. At(pc).target \in 0..pc
  BY <1>1, Behind
<1>5. /\ Code' /\ i' = i
      /\ \A k : At(k)' = At(k) /\ (IsBranch(k)' <=> IsBranch(k))
  BY <1>1, CodeKeeps
<1>6. NoLoop \in [branch : 0..ProgramSize, value : Words]
  BY <1>1, WordType DEF NoLoop
<1>7. Types'
  BY <1>1, <1>3, <1>6 DEF Types
<1>8. Phases'
  BY <1>1, <1>5 DEF Phases, Ready
<1>9. InLoop' /\ RunsInLoop'
  BY DEF InLoop, RunsInLoop, NoLoop
<1>10. runs'[pc] <= 3
  BY <1>2, <1>3 DEF TooOften
<1>11. \A k \in 0..(ProgramSize - 1) : IF k < pc + 1 THEN runs'[k] <= 3 ELSE runs'[k] = 0
  <2> SUFFICES ASSUME NEW k \in 0..(ProgramSize - 1)
               PROVE  IF k < pc + 1 THEN runs'[k] <= 3 ELSE runs'[k] = 0
    OBVIOUS
  <2>1. CASE k < pc
    <3>1. k < At(pc).target \/ k \in At(pc).target..(pc - 1)
      BY <1>1, <1>4, <2>1
    <3> QED
      BY <1>1, <1>2, <1>3, <2>1, <3>1
  <2>2. CASE k >= pc
    BY <1>1, <1>2, <1>3, <1>10, <2>2
  <2> QED
    BY <1>1, <2>1, <2>2
<1>12. ASSUME NEW b \in (pc + 1)..(ProgramSize - 1), IsBranch(b)
       PROVE  At(b).target..pc = {}
  <2>1. b \in 0..(ProgramSize - 1) /\ pc <= b - 1
    BY <1>1
  <2>2. /\ At(b).target \in 0..b
        /\ \A k \in At(b).target..(b - 1) : Leaves(k, At(b).creg)
    BY <1>1, <1>12, <2>1, Behind
  <2>3. ~Leaves(pc, At(b).creg)
    BY DEF Leaves, IsBranch
  <2>4. pc \notin At(b).target..(b - 1)
    BY <2>2, <2>3
  <2> QED
    BY <1>1, <2>1, <2>2, <2>4
<1>13. RunsForward'
  <2>1. DOMAIN runs' = 0..(ProgramSize - 1) /\ pc' - 1 = pc
    BY <1>1, <1>3
  <2> QED
    BY <1>5, <1>11, <1>12, <2>1 DEF RunsForward
<1> QED
  BY <1>5, <1>7, <1>8, <1>9, <1>13 DEF IInv, Code

LEMMA BranchIInv ==
  ASSUME IInv, Branch
  PROVE  IInv'
<1> DEFINE x == r[At(pc).creg]
           y == (x + At(pc).imm) % 2^WordSize
<1>1. /\ ProgramSize \in Nat /\ Types /\ Code
      /\ pc \in 0..(ProgramSize - 1) /\ i = ProgramSize
      /\ ibc = At(pc) /\ Running /\ IsBranch(pc)
  <2>1. Running /\ ibc.type = "branch"
    BY DEF Branch
  <2> QED
    BY <2>1, WhileRunning DEF IsBranch
<1>2. /\ At(pc).target \in 0..pc
      /\ GoodConstant(At(pc).imm, At(pc).shift)
      /\ At(pc).creg \in Registers /\ At(pc).imm \in Nat
  BY <1>1, Behind
<1>3. /\ r' = [r EXCEPT ![At(pc).creg] = y]
      /\ Counted /\ UNCHANGED <<bytecode, registerUsage>>
  BY <1>1 DEF Branch
<1>4. x \in Words /\ y \in Words
  <2>1. x \in Words
    BY <1>1, <1>2 DEF Types
  <2>2. x + At(pc).imm \in Nat
    BY <1>2, <2>1, WordType
  <2> QED
    BY <2>1, <2>2, WordType
<1>5. r' \in [Registers -> Words] /\ r'[At(pc).creg] = y
  <2> HIDE DEF y
  <2> QED
    BY <1>1, <1>2, <1>3, <1>4 DEF Types
<1>6. IF Taken(y, At(pc).shift)
      THEN pc' = At(pc).target /\ loop' = [branch |-> pc, value |-> r'[At(pc).creg]]
      ELSE pc' = pc + 1 /\ loop' = NoLoop
  <2> HIDE DEF y
  <2> QED
    BY <1>1, <1>5 DEF Branch
<1>7. Taken(x, At(pc).shift) =>
        /\ Taken(y, At(pc).shift) => y % 2^At(pc).shift < 2^(At(pc).shift - 1)
        /\ x % 2^At(pc).shift < 2^(At(pc).shift - 1) => ~Taken(y, At(pc).shift)
  <2> HIDE DEF x
  <2>1. ASSUME Taken(x, At(pc).shift)
        PROVE  /\ Taken(y, At(pc).shift) => y % 2^At(pc).shift < 2^(At(pc).shift - 1)
               /\ x % 2^At(pc).shift < 2^(At(pc).shift - 1) => ~Taken(y, At(pc).shift)
    BY <1>2, <1>4, <2>1, TakenAgain, Zenon
  <2> QED
    BY <2>1
<1> HIDE DEF y
<1>8. CASE loop = NoLoop /\ ~Taken(y, At(pc).shift)
  BY <1>1, <1>3, <1>5, <1>6, <1>8, ForwardIInv
<1>9. CASE loop = NoLoop /\ Taken(y, At(pc).shift)
  <2>1. /\ \A k \in 0..(ProgramSize - 1) : IF k < pc THEN runs[k] <= 3 ELSE runs[k] = 0
        /\ \A k \in At(pc).target..(pc - 1) : runs[k] = 1
    <3>1. pc \in pc..(ProgramSize - 1)
      BY <1>1
    <3> QED
      BY <1>1, <1>9, <3>1 DEF IInv, RunsForward, Types, Ready
  <2>2. /\ runs[pc] = 0
        /\ \A k \in 0..(ProgramSize - 1) :
             /\ k < At(pc).target => runs[k] <= 3
             /\ k \in At(pc).target..(pc - 1) => runs[k] = runs[pc] + 1
             /\ k > pc => runs[k] = 0
    BY <1>1, <1>2, <2>1
  <2>3. runs[pc] \in 0..1 /\ ~(runs[pc] = 1)
    BY <2>2
  <2> QED
    BY <1>1, <1>3, <1>5, <1>6, <1>9, <2>2, <2>3, JumpIInv
<1>10. CASE loop # NoLoop
  <2>1. /\ x = loop.value
        /\ runs[pc] \in 1..2
        /\ \A k \in 0..(ProgramSize - 1) :
             /\ k < At(pc).target => runs[k] <= 3
             /\ k \in At(pc).target..(pc - 1) => runs[k] = runs[pc] + 1
             /\ k > pc => runs[k] = 0
        /\ Taken(x, At(pc).shift)
        /\ runs[pc] = 2 => x % 2^At(pc).shift < 2^(At(pc).shift - 1)
    BY <1>1, <1>10, OwnLoop
  <2>2. CASE Taken(y, At(pc).shift)
    <3>1. runs[pc] = 1 /\ y % 2^At(pc).shift < 2^(At(pc).shift - 1)
      BY <1>7, <2>1, <2>2
    <3>2. runs[pc] \in 0..1
      BY <3>1
    <3> QED
      BY <1>1, <1>3, <1>5, <1>6, <2>1, <2>2, <3>1, <3>2, JumpIInv
  <2>3. CASE ~Taken(y, At(pc).shift)
    BY <1>1, <1>3, <1>5, <1>6, <1>10, <2>3, LetsGoIInv
  <2> QED
    BY <2>2, <2>3
<1> QED
  BY <1>8, <1>9, <1>10

LEMMA NextIInv ==
  ASSUME IInv, [Next]_vars
  PROVE  IInv'
<1>1. CASE UNCHANGED vars
  <2>1. /\ UNCHANGED <<bytecode, registerUsage>>
        /\ UNCHANGED <<r, pc, runs, loop>>
    BY <1>1 DEF vars
  <2>2. bytecode' = bytecode /\ registerUsage' = registerUsage /\ Types
    BY <2>1 DEF IInv
  <2>3. Types' /\ Phases' /\ Code'
    BY <2>1, CodeKeeps DEF IInv, Types, Phases, Code
  <2>4. InLoop' /\ RunsForward' /\ RunsInLoop'
    BY <2>1 DEF IInv, InLoop, RunsForward, RunsInLoop, At, IsBranch, Taken
  <2> QED
    BY <2>3, <2>4 DEF IInv, Code
<1> QED
  BY <1>1, CompileIInv, StartIInv, WriteIInv, BranchIInv DEF Next

(* Compiling and running keep the invariant.                               *)
LEMMA SpecIInv == Spec => []IInv
<1>1. Init => IInv
  BY InitIInv
<1>2. IInv /\ [Next]_vars => IInv'
  BY NextIInv
<1> QED
  BY <1>1, <1>2, PTL DEF Spec

-----------------------------------------------------------------------------
(* A branch that jumped finds its register as it left it, whatever the     *)
(* instructions behind its target are: compileInstruction() keeps          *)
(* registerUsage, and exe_CBRANCH() the register.                          *)
THEOREM LoopsKeepTheirRegisters == Spec => []LoopKeepsItsRegister
<1>1. IInv => LoopKeepsItsRegister
  BY DEF IInv, InLoop, LoopKeepsItsRegister, At
<1> QED
  BY <1>1, SpecIInv, PTL

(* executeBytecode() runs no instruction more than three times: for every  *)
(* program, every width of the registers and of the tested field, and all  *)
(* that is loaded from the scratchpad.                                     *)
THEOREM ThriceAtMost == Spec => []RunsAtMostThrice
<1>1. IInv => RunsAtMostThrice
  <2> SUFFICES ASSUME IInv, NEW k \in DOMAIN runs
               PROVE  runs[k] < TooOften
    BY DEF RunsAtMostThrice
  <2>1. /\ Types /\ ProgramSize \in Nat /\ pc \in Nat
        /\ k \in 0..(ProgramSize - 1) /\ runs[k] \in Nat
    BY SizeAssumption DEF IInv, Types
  <2>2. CASE pc = Ready
    BY <2>1, <2>2 DEF IInv, Phases, TooOften
  <2>3. CASE pc # Ready /\ loop = NoLoop
    <3>1. IF k < pc THEN runs[k] <= 3 ELSE runs[k] = 0
      BY <2>3 DEF IInv, RunsForward
    <3> QED
      BY <2>1, <3>1 DEF TooOften
  <2>4. CASE loop # NoLoop
    <3>1. PICK b \in 0..(ProgramSize - 1) :
            /\ b = loop.branch /\ IsBranch(b) /\ pc \in At(b).target..b
      BY <2>1, <2>4 DEF IInv, InLoop, Types
    <3>2. /\ runs[b] \in 1..2
          /\ k < At(b).target => runs[k] <= 3
          /\ k \in At(b).target..(pc - 1) => runs[k] = runs[b] + 1
          /\ k \in pc..b => runs[k] = runs[b]
          /\ k > b => runs[k] = 0
      BY <2>4, <3>1 DEF IInv, RunsInLoop
    <3>3. At(b).target \in 0..b
      <4>1. pc # Ready /\ i = ProgramSize /\ Code
        BY <2>1, <2>4 DEF IInv, Phases, Code
      <4> QED
        BY <2>1, <3>1, <4>1, Behind
    <3>4. \/ k < At(b).target \/ k \in At(b).target..(pc - 1) \/ k \in pc..b \/ k > b
      BY <2>1, <3>1, <3>3
    <3> QED
      BY <2>1, <3>2, <3>4 DEF TooOften
  <2> QED
    BY <2>2, <2>3, <2>4
<1> QED
  BY <1>1, SpecIInv, PTL
=============================================================================
