-------------------------- MODULE SequenceNumbers --------------------------
(***************************************************************************)
(* Facts about numbers taken modulo N, the arithmetic behind the sequence  *)
(* numbers of vital chunks and the slots of ring buffers.                  *)
(***************************************************************************)
EXTENDS Integers, TLAPS

\* A remainder is smaller than the divisor.
LEMMA ModRange ==
  ASSUME NEW N \in Nat \ {0}, NEW a \in Nat
  PROVE  a % N \in 0 .. N - 1
OBVIOUS

\* A positive multiple of N is at least N.
LEMMA MultipleBound ==
  ASSUME NEW N \in Nat \ {0}, NEW k \in Int, k >= 1
  PROVE  k * N >= N
OBVIOUS

\* No multiple of N other than zero lies strictly between -N and N.
LEMMA SmallMultiple ==
  ASSUME NEW N \in Nat \ {0}, NEW k \in Int, NEW x \in Int, x = k * N, x < N, -N < x
  PROVE  x = 0
<1>1. ~(k >= 1)
  BY MultipleBound
<1>2. ~(-k >= 1)
  <2>1. (-k) * N = -(k * N)
    OBVIOUS
  <2> QED
    BY <2>1, MultipleBound
<1>3. k = 0
  BY <1>1, <1>2
<1> QED
  BY <1>3

\* The remainder of b is that of a moved by b - a, up to a multiple of N.
LEMMA ModShift ==
  ASSUME NEW N \in Nat \ {0}, NEW a \in Nat, NEW b \in Nat
  PROVE  /\ (a % N) + (b - a) \in 0 .. N - 1      => b % N = (a % N) + (b - a)
         /\ (a % N) + (b - a) \in N .. 2 * N - 1  => b % N = (a % N) + (b - a) - N
         /\ (a % N) + (b - a) \in -N .. -1        => b % N = (a % N) + (b - a) + N
<1> DEFINE d == b - a
           qa == a \div N
           qb == b \div N
           ra == a % N
           rb == b % N
<1>1. qa \in Int /\ ra \in 0 .. N - 1 /\ a = N * qa + ra
  OBVIOUS
<1>2. qb \in Int /\ rb \in 0 .. N - 1 /\ d \in Int /\ a + d = N * qb + rb
  OBVIOUS
<1> HIDE DEF d, qa, qb, ra, rb
<1>3. (qa - qb) * N = rb - ra - d
  BY <1>1, <1>2
<1>4. ASSUME ra + d \in 0 .. N - 1
      PROVE  rb = ra + d
  <2>1. (qa - qb) * N = rb - (ra + d)
    BY <1>1, <1>2, <1>3
  <2> QED
    BY <1>1, <1>2, <1>4, <2>1, SmallMultiple
<1>5. ASSUME ra + d \in N .. 2 * N - 1
      PROVE  rb = ra + d - N
  <2> DEFINE k == qa - qb + 1
             x == rb - (ra + d - N)
  <2>1. k \in Int /\ x \in Int /\ x = k * N /\ x < N /\ -N < x
    BY <1>1, <1>2, <1>3, <1>5
  <2> HIDE DEF k, x
  <2>2. x = 0
    BY <2>1, SmallMultiple
  <2> QED
    BY <1>1, <1>2, <2>2 DEF x
<1>6. ASSUME ra + d \in -N .. -1
      PROVE  rb = ra + d + N
  <2> DEFINE k == qa - qb - 1
             x == rb - (ra + d + N)
  <2>1. k \in Int /\ x \in Int /\ x = k * N /\ x < N /\ -N < x
    BY <1>1, <1>2, <1>3, <1>6
  <2> HIDE DEF k, x
  <2>2. x = 0
    BY <2>1, SmallMultiple
  <2> QED
    BY <1>1, <1>2, <2>2 DEF x
<1> QED
  BY <1>4, <1>5, <1>6 DEF d, ra, rb

\* Two numbers less than N apart that have the same remainder are equal.
LEMMA ModUnique ==
  ASSUME NEW N \in Nat \ {0}, NEW a \in Nat, NEW b \in Nat,
         a % N = b % N, a - b < N, b - a < N
  PROVE  a = b
<1> DEFINE k == (a \div N) - (b \div N)
           x == a - b
<1>1. /\ a \div N \in Int /\ a = N * (a \div N) + (a % N)
      /\ b \div N \in Int /\ b = N * (b \div N) + (b % N)
  OBVIOUS
<1>2. k \in Int /\ x \in Int /\ x = k * N /\ x < N /\ -N < x
  BY <1>1
<1> HIDE DEF k, x
<1>3. x = 0
  BY <1>2, SmallMultiple
<1> QED
  BY <1>3 DEF x

\* The remainder can be taken before adding one.
LEMMA ModSucc ==
  ASSUME NEW N \in Nat \ {0}, NEW a \in Nat
  PROVE  ((a % N) + 1) % N = (a + 1) % N
<1> DEFINE b == a + 1
           r == a % N
<1>1. b \in Nat /\ b - a = 1 /\ r \in 0 .. N - 1
  BY ModRange
<1> HIDE DEF b
<1>2. /\ r + (b - a) \in 0 .. N - 1      => b % N = r + (b - a)
      /\ r + (b - a) \in N .. 2 * N - 1  => b % N = r + (b - a) - N
  BY <1>1, ModShift, ZenonT(40)
<1> HIDE DEF r
<1>3. N % N = 0 /\ (r + 1 \in 0 .. N - 1 => (r + 1) % N = r + 1)
  OBVIOUS
<1>4. (r + 1) % N = b % N
  BY <1>1, <1>2, <1>3
<1> QED
  BY <1>4 DEF b, r
=============================================================================
