--------------------------- MODULE ModularLemmas ----------------------------
(***************************************************************************)
(* Numbers: what the remainder modulo the buffer size n does when a count  *)
(* moves on, and induction by a smallest counterexample.                   *)
(***************************************************************************)
EXTENDS Integers, WellFoundedInduction, TLAPS

(* A nonzero multiple of n is at least n away from 0. *)
LEMMA MultipleBound ==
  ASSUME NEW k \in Int, NEW n \in Int, n > 0
  PROVE  (k >= 1 => n * k >= n) /\ (k <= -1 => n * k <= -n)
OBVIOUS

LEMMA QuotientRemainder ==
  ASSUME NEW x \in Int, NEW n \in Int, n > 0
  PROVE  x = n * (x \div n) + (x % n)
BY Z3

LEMMA QuotientType ==
  ASSUME NEW x \in Int, NEW n \in Int, n > 0
  PROVE  x \div n \in Int /\ x % n \in 0 .. n - 1
OBVIOUS

LEMMA Distribute ==
  ASSUME NEW q \in Int, NEW d \in Int, NEW n \in Int
  PROVE  n * (q - d) = n * q - n * d /\ n * (q + d) = n * q + n * d
OBVIOUS

LEMMA RemainderUnique ==
  ASSUME NEW q \in Int, NEW d \in Int, NEW n \in Int, n > 0,
         NEW r \in 0 .. n - 1, NEW m \in 0 .. n - 1,
         n * q + r = n * d + m
  PROVE  r = m
<1> DEFINE z == n * (q - d)
<1>1. z = m - r
  BY Distribute
<1>2. z \in Int /\ z > -n /\ z < n
  BY <1>1
<1>3. (q - d >= 1 => z >= n) /\ (q - d <= -1 => z <= -n)
  BY MultipleBound
<1>4. q = d
  <2> HIDE DEF z
  <2> QED
    BY <1>2, <1>3
<1> QED
  BY <1>4

LEMMA RemainderOf ==
  ASSUME NEW q \in Int, NEW n \in Int, n > 0, NEW r \in 0 .. n - 1
  PROVE  (n * q + r) % n = r
<1> DEFINE x == n * q + r
<1>1. x \in Int
  OBVIOUS
<1> HIDE DEF x
<1>2. /\ x \div n \in Int
      /\ x % n \in 0 .. n - 1
      /\ x = n * (x \div n) + (x % n)
  BY <1>1, QuotientType, QuotientRemainder
<1>3. n * q + r = n * (x \div n) + (x % n)
  BY <1>2 DEF x
<1>4. r = x % n
  BY <1>2, <1>3, RemainderUnique
<1> QED
  BY <1>4 DEF x

LEMMA QuotientOf ==
  ASSUME NEW q \in Int, NEW n \in Int, n > 0, NEW r \in 0 .. n - 1
  PROVE  (n * q + r) \div n = q
<1> DEFINE x == n * q + r
           k == x \div n
<1>1. x \in Int
  OBVIOUS
<1> HIDE DEF x
<1>2. /\ k \in Int
      /\ x = n * k + (x % n)
  BY <1>1, QuotientType, QuotientRemainder
<1>3. x % n = r
  BY RemainderOf DEF x
<1> HIDE DEF k
<1>4. n * k = n * q
  BY <1>2, <1>3 DEF x
<1>5. n * (k - q) = 0
  BY <1>2, <1>4, Distribute
<1>6. (k - q >= 1 => n * (k - q) >= n) /\ (k - q <= -1 => n * (k - q) <= -n)
  BY <1>2, MultipleBound
<1> QED
  BY <1>2, <1>5, <1>6 DEF k, x

(* Numbers that differ by a multiple of n have the same remainder. *)
LEMMA SameRemainder ==
  ASSUME NEW x \in Int, NEW y \in Int, NEW n \in Int, n > 0,
         \E k \in Int : x = y + n * k
  PROVE  x % n = y % n
<1> DEFINE d == y \div n
           m == y % n
<1>1. d \in Int /\ m \in 0 .. n - 1 /\ y = n * d + m
  BY QuotientType, QuotientRemainder
<1> HIDE DEF d, m
<1>2. PICK k \in Int : x = y + n * k
  OBVIOUS
<1> DEFINE q == d + k
<1>3. q \in Int /\ x = n * q + m
  BY <1>1, <1>2, Distribute
<1> HIDE DEF q
<1>4. (n * q + m) % n = m
  BY <1>1, <1>3, RemainderOf
<1>5. x % n = m
  BY <1>3, <1>4
<1> QED
  BY <1>5 DEF m

(* Counting on from equal remainders.  (Stated with quantifiers: Zenon     *)
(* then finds the instance.)                                               *)
LEMMA RemainderShift ==
  \A n \in Int : n > 0 =>
    \A a, b, c \in Int : a % n = b % n => (a + c) % n = (b + c) % n
<1> SUFFICES ASSUME NEW n \in Int, n > 0,
                    NEW a \in Int, NEW b \in Int, NEW c \in Int,
                    a % n = b % n
             PROVE  (a + c) % n = (b + c) % n
  OBVIOUS
<1> DEFINE qa == a \div n
           qb == b \div n
           m == a % n
           x == a + c
           y == b + c
<1>1. /\ qa \in Int /\ qb \in Int /\ m \in 0 .. n - 1
      /\ a = n * qa + m
      /\ b = n * qb + m
      /\ x \in Int /\ x = a + c
      /\ y \in Int /\ y = b + c
  BY QuotientType, QuotientRemainder
<1> HIDE DEF qa, qb, m, x, y
<1>2. qa - qb \in Int /\ n * (qa - qb) = n * qa - n * qb
  BY <1>1, Distribute
<1>3. x = y + n * (qa - qb)
  BY <1>1, <1>2
<1>4. \E k \in Int : x = y + n * k
  BY <1>2, <1>3
<1>5. x % n = y % n
  BY <1>1, <1>4, SameRemainder
<1> QED
  BY <1>5 DEF x, y
-----------------------------------------------------------------------------
(* Induction: the counterexamples to a claim have a smallest one. *)
LEMMA Smallest ==
  ASSUME NEW S \in SUBSET Nat, S # {}
  PROVE  \E m \in S : \A k \in S : m <= k
<1>1. PICK m \in S : \A k \in S : ~ (<<k, m>> \in OpToRel(<, Nat))
  BY NatLessThanWellFounded, WFMin
<1>2. \A k \in S : m <= k
  <2> SUFFICES ASSUME NEW k \in S, ~ (m <= k) PROVE FALSE
    OBVIOUS
  <2>1. k < m /\ <<k, m>> \in Nat \X Nat
    OBVIOUS
  <2>2. <<k, m>> \in OpToRel(<, Nat)
    BY <2>1 DEF OpToRel
  <2> QED
    BY <1>1, <2>2
<1> QED
  BY <1>2

(* What holds at 0 and goes on from k - 1 to k holds up to n. *)
LEMMA UpTo ==
  ASSUME NEW n \in Nat, NEW G, 0 \in G,
         \A k \in 1 .. n : k - 1 \in G => k \in G
  PROVE  0 .. n \subseteq G
<1> DEFINE S == 0 .. n \ G
<1> SUFFICES ASSUME S # {} PROVE FALSE
  OBVIOUS
<1>1. S \in SUBSET Nat
  OBVIOUS
<1> HIDE DEF S
<1>2. PICK m \in S : \A k \in S : m <= k
  BY <1>1, Smallest
<1>3. m \in 0 .. n /\ m \notin G
  BY DEF S
<1>4. m \in 1 .. n
  BY <1>3
<1>5. m - 1 \in 0 .. n /\ ~ (m <= m - 1)
  BY <1>4
<1>6. m - 1 \in G
  BY <1>2, <1>5 DEF S
<1> QED
  BY <1>3, <1>4, <1>6
=============================================================================
