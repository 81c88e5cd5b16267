-------------------------- MODULE TimerList_proof ---------------------------
(***************************************************************************)
(* What holds of the delta list for any frames, intervals and clock and    *)
(* any number of ticks in a second.                                        *)
(***************************************************************************)
EXTENDS TimerList, ModularLemmas

Timevals == [sec : Int, usec : Int]

LEMMA SecondType == Second \in Int /\ Second > 0
BY TimeAssumption

LEMMA TicksType == \A v \in Timevals : Ticks(v) \in Int
BY SecondType DEF Timevals, Ticks

LEMMA TimevalType ==
  ASSUME NEW t \in Int
  PROVE  Timeval(t) \in Timevals /\ Ticks(Timeval(t)) = t
<1> DEFINE q == t \div Second
           r == t % Second
<1>1. q \in Int /\ r \in Int /\ t = Second * q + r
  BY SecondType, QuotientType, QuotientRemainder
<1> HIDE DEF q, r
<1>2. Timeval(t) = [sec |-> q, usec |-> r]
  BY DEF Timeval, q, r
<1>3. q * Second = Second * q
  BY <1>1, SecondType
<1> QED
  BY <1>1, <1>2, <1>3, SecondType DEF Timevals, Ticks

(* The carry moves whole seconds: it changes neither the time nor the      *)
(* types, and the fields it leaves can be compared.                        *)
LEMMA CarriedType ==
  ASSUME NEW x \in Timevals, NEW y \in Timevals
  PROVE  /\ Carried(x, y) \in Timevals
         /\ Ticks(Carried(x, y)) = Ticks(y)
         /\ Carried(x, y).usec <= x.usec
         /\ x.usec - Carried(x, y).usec <= Second
<1> DEFINE borrow == (y.usec - x.usec) \div Second + 1
           b == IF x.usec < y.usec
                THEN [sec |-> y.sec + borrow, usec |-> y.usec - Second * borrow]
                ELSE y
           carry == (x.usec - b.usec) \div Second
           c == IF x.usec - b.usec > Second
                THEN [sec |-> b.sec - carry, usec |-> b.usec + Second * carry]
                ELSE b
<1>1. x.usec \in Int /\ y.usec \in Int /\ y.sec \in Int
  BY DEF Timevals
<1>2. b \in Timevals /\ Ticks(b) = Ticks(y) /\ b.usec <= x.usec
  <2>1. CASE x.usec < y.usec
    <3> DEFINE d == y.usec - x.usec
               q == d \div Second
               r == d % Second
    <3>1. d \in Int /\ q \in Int /\ r \in 0 .. Second - 1 /\ d = Second * q + r
      <4>1. d \in Int
        BY <1>1
      <4> HIDE DEF d
      <4> QED
        BY <4>1, SecondType, QuotientType, QuotientRemainder
    <3> HIDE DEF q, r
    <3>2. b = [sec |-> y.sec + (q + 1), usec |-> y.usec - Second * (q + 1)]
      BY <2>1 DEF q
    <3> DEFINE p == Second * (q + 1)
    <3>3. /\ p = Second * q + Second /\ p \in Int
          /\ (y.sec + (q + 1)) * Second = y.sec * Second + p
      BY <1>1, <3>1, SecondType
    <3>4. p > d
      BY <3>1, <3>3, SecondType
    <3>5. b = [sec |-> y.sec + (q + 1), usec |-> y.usec - p]
      BY <3>2
    <3> HIDE DEF b, p
    <3>6. b \in Timevals /\ b.usec = y.usec - p /\ b.sec = y.sec + (q + 1)
      BY <1>1, <3>1, <3>3, <3>5 DEF Timevals
    <3>7. y.sec * Second \in Int
      BY <1>1, SecondType
    <3>8. Ticks(b) = (y.sec * Second + p) + (y.usec - p)
      BY <3>3, <3>6, Zenon DEF Ticks
    <3>9. Ticks(y) = y.sec * Second + y.usec
      BY DEF Ticks
    <3> DEFINE s == y.sec * Second
    <3> HIDE DEF s
    <3>10. s \in Int /\ Ticks(b) = (s + p) + (y.usec - p) /\ Ticks(y) = s + y.usec
      BY <3>7, <3>8, <3>9 DEF s
    <3> QED
      BY <1>1, <3>3, <3>4, <3>6, <3>10
  <2>2. CASE ~ (x.usec < y.usec)
    BY <1>1, <2>2
  <2> QED
    BY <2>1, <2>2
<1> HIDE DEF b
<1>3. b.usec \in Int /\ b.sec \in Int
  BY <1>2 DEF Timevals
<1>4. c \in Timevals /\ Ticks(c) = Ticks(b) /\ c.usec <= x.usec /\ x.usec - c.usec <= Second
  <2>1. CASE x.usec - b.usec > Second
    <3> DEFINE d == x.usec - b.usec
               q == d \div Second
               r == d % Second
    <3>1. d \in Int /\ q \in Int /\ r \in 0 .. Second - 1 /\ d = Second * q + r
      <4>1. d \in Int
        BY <1>1, <1>3
      <4> HIDE DEF d
      <4> QED
        BY <4>1, SecondType, QuotientType, QuotientRemainder
    <3> HIDE DEF q, r
    <3> DEFINE p == Second * q
    <3>2. c = [sec |-> b.sec - q, usec |-> b.usec + p]
      BY <2>1 DEF q
    <3>3. p \in Int /\ (b.sec - q) * Second = b.sec * Second - p
      BY <1>3, <3>1, SecondType
    <3> HIDE DEF c, p
    <3>4. c \in Timevals /\ c.usec = b.usec + p /\ c.sec = b.sec - q
      BY <1>3, <3>1, <3>2, <3>3 DEF Timevals
    <3>5. d = p + r
      BY <3>1 DEF p
    <3> DEFINE s == b.sec * Second
    <3>6. s \in Int
      BY <1>3, SecondType
    <3>7. Ticks(c) = (s - p) + (b.usec + p) /\ Ticks(b) = s + b.usec
      BY <3>3, <3>4, Zenon DEF Ticks
    <3> HIDE DEF s
    <3> QED
      BY <1>1, <1>3, <3>1, <3>3, <3>4, <3>5, <3>6, <3>7, SecondType
  <2>2. CASE ~ (x.usec - b.usec > Second)
    BY <1>1, <1>2, <1>3, <2>2, SecondType
  <2> QED
    BY <2>1, <2>2
<1>5. Carried(x, y) = c
  BY DEF Carried, b
<1> HIDE DEF c
<1> QED
  BY <1>2, <1>4, <1>5

(* So timeval_subtract computes the difference, and its result says        *)
(* whether there was one to take off.                                      *)
LEMMA SubtractType ==
  ASSUME NEW x \in Timevals, NEW y \in Timevals
  PROVE  /\ Subtract(x, y) \in Timevals
         /\ Ticks(Subtract(x, y)) = Ticks(x) - Ticks(y)
         /\ Negative(x, y) => Ticks(x) <= Ticks(y)
         /\ ~Negative(x, y) => Ticks(y) <= Ticks(x)
<1> DEFINE c == Carried(x, y)
<1>1. /\ c \in Timevals /\ Ticks(c) = Ticks(y)
      /\ c.usec <= x.usec /\ x.usec - c.usec <= Second
  BY CarriedType
<1>2. Subtract(x, y) = Minus(x, c) /\ (Negative(x, y) <=> x.sec < c.sec)
  BY DEF Subtract, Negative
<1> HIDE DEF c
<1>3. x.sec \in Int /\ x.usec \in Int /\ c.sec \in Int /\ c.usec \in Int
  BY <1>1 DEF Timevals
<1>4. Minus(x, c) = [sec |-> x.sec - c.sec, usec |-> x.usec - c.usec]
  BY DEF Minus
<1> DEFINE p == x.sec * Second
           q == c.sec * Second
           k == x.sec - c.sec
<1>5. /\ p \in Int /\ q \in Int /\ k \in Int /\ k * Second = p - q
      /\ Second * k = p - q
  BY <1>3, SecondType
<1>6. (k >= 0 => p - q >= 0) /\ (k <= -1 => p - q <= -Second)
  BY <1>3, <1>5, SecondType, MultipleBound
<1>7. Ticks(x) = p + x.usec /\ Ticks(c) = q + c.usec
  BY DEF Ticks
<1>8. Ticks(Minus(x, c)) = (p - q) + (x.usec - c.usec)
  <2>1. Minus(x, c).sec = k /\ Minus(x, c).usec = x.usec - c.usec
    BY <1>4
  <2> QED
    BY <1>5, <2>1, Zenon DEF Ticks
<1>9. Minus(x, c) \in Timevals
  BY <1>3, <1>4 DEF Timevals
<1>10. x.sec < c.sec <=> k <= -1
  BY <1>3
<1> HIDE DEF p, q, k
<1>11. ~(k <= -1) => k >= 0
  BY <1>5
<1> QED
  BY <1>1, <1>2, <1>3, <1>5, <1>6, <1>7, <1>8, <1>9, <1>10, <1>11, SecondType

-----------------------------------------------------------------------------
(* The values of a recursion over 0 .. n: step[k][v] is the k-th after v.  *)
GoesThrough(f, n, first, step) ==
  f[0] = first /\ \A k \in 1 .. n : f[k] = step[k][f[k - 1]]

LEMMA RecursionExists ==
  ASSUME NEW V, NEW n \in Nat, NEW first \in V, NEW step \in [1 .. n -> [V -> V]]
  PROVE  \E f \in [0 .. n -> V] : GoesThrough(f, n, first, step)
<1> DEFINE Goes(f, m) == /\ f \in [0 .. m -> V] /\ f[0] = first
                         /\ \A k \in 1 .. m : f[k] = step[k][f[k - 1]]
           G == {m \in 0 .. n : \E f \in [0 .. m -> V] : Goes(f, m)}
<1>1. 0 \in G
  <2> DEFINE f == [k \in 0 .. 0 |-> first]
  <2>1. Goes(f, 0) /\ f \in [0 .. 0 -> V] /\ 0 \in 0 .. n
    OBVIOUS
  <2> HIDE DEF f
  <2> QED
    BY <2>1
<1>2. ASSUME NEW m \in 1 .. n, m - 1 \in G PROVE m \in G
  <2>1. PICK g \in [0 .. m - 1 -> V] : Goes(g, m - 1)
    BY <1>2
  <2> DEFINE v == step[m][g[m - 1]]
             f == [k \in 0 .. m |-> IF k = m THEN v ELSE g[k]]
  <2>2. m - 1 \in 0 .. m - 1 /\ m \in 0 .. m
    OBVIOUS
  <2>3. v \in V
    BY <2>1, <2>2
  <2> HIDE DEF v
  <2>4. \A k \in 0 .. m : k # m => k \in 0 .. m - 1
    OBVIOUS
  <2>5. f \in [0 .. m -> V]
    BY <2>1, <2>3, <2>4
  <2>6. f[0] = first
    <3>1. 0 \in 0 .. m /\ 0 # m
      OBVIOUS
    <3>2. f[0] = g[0]
      BY <3>1
    <3>3. g[0] = first
      BY <2>1
    <3> QED
      BY <3>2, <3>3
  <2>7. \A k \in 1 .. m : f[k] = step[k][f[k - 1]]
    <3> SUFFICES ASSUME NEW k \in 1 .. m PROVE f[k] = step[k][f[k - 1]]
      OBVIOUS
    <3>1. f[k - 1] = g[k - 1]
      OBVIOUS
    <3>2. CASE k = m
      BY <2>2, <3>1, <3>2 DEF v
    <3>3. CASE k # m
      <4>1. k \in 1 .. m - 1 /\ f[k] = g[k]
        BY <3>3
      <4> QED
        BY <2>1, <3>1, <4>1
    <3> QED
      BY <3>2, <3>3
  <2> HIDE DEF f
  <2>8. Goes(f, m)
    BY <2>5, <2>6, <2>7
  <2> QED
    BY <2>5, <2>8
<1> HIDE DEF G
<1>3. 0 .. n \subseteq G
  BY <1>1, <1>2, UpTo
<1>4. n \in G
  BY <1>3
<1> QED
  BY <1>4 DEF G, GoesThrough

-----------------------------------------------------------------------------
TimerNode == [id : Ids, delta : Timevals, due : Nat]

(* What the walk down the list has left after each node. *)
LEMMA LeftRecursion ==
  ASSUME list \in Seq(TimerNode), NEW x \in Timevals
  PROVE  /\ Left(x) \in [0 .. Len(list) -> Timevals]
         /\ Left(x)[0] = x
         /\ \A k \in 1 .. Len(list) :
              Left(x)[k] = Subtract(Left(x)[k - 1], list[k].delta)
<1> DEFINE n == Len(list)
           Rec(f) == [k \in 0 .. n |-> IF k = 0 THEN x
                                       ELSE Subtract(f[k - 1], list[k].delta)]
           step == [k \in 1 .. n |-> [v \in Timevals |-> Subtract(v, list[k].delta)]]
<1>1. n \in Nat /\ \A k \in 1 .. n : list[k].delta \in Timevals
  <2>1. n \in Nat /\ \A k \in 1 .. n : list[k] \in TimerNode
    OBVIOUS
  <2>2. \A node \in TimerNode : node.delta \in Timevals
    BY DEF TimerNode
  <2> QED
    BY <2>1, <2>2
<1>2. step \in [1 .. n -> [Timevals -> Timevals]]
  BY <1>1, SubtractType
<1>3. \A k \in 1 .. n, v \in Timevals : step[k][v] = Subtract(v, list[k].delta)
  OBVIOUS
<1> HIDE DEF step, n
<1>4. PICK f \in [0 .. n -> Timevals] : GoesThrough(f, n, x, step)
  BY <1>1, <1>2, RecursionExists
<1>5. /\ \A k \in 0 .. n : k # 0 => k \in 1 .. n
      /\ \A k \in 1 .. n : k - 1 \in 0 .. n
  BY <1>1
<1>6. f[0] = x /\ \A k \in 1 .. n : f[k] = Subtract(f[k - 1], list[k].delta)
  BY <1>3, <1>4, <1>5 DEF GoesThrough
<1>7. f = Rec(f)
  <2>1. f = [k \in 0 .. n |-> f[k]]
    BY <1>4
  <2>2. \A k \in 0 .. n : f[k] = IF k = 0 THEN x ELSE Subtract(f[k - 1], list[k].delta)
    BY <1>4, <1>5, <1>6
  <2> QED
    BY <2>1, <2>2, Zenon
<1>8. Left(x) = CHOOSE g : g = Rec(g)
  BY DEF Left, n
<1>9. Left(x) = Rec(Left(x))
  <2> HIDE DEF Rec
  <2> QED
    BY <1>7, <1>8
<1> DEFINE G == {k \in 0 .. n : Left(x)[k] \in Timevals}
<1>10. /\ Left(x)[0] = x
       /\ \A k \in 1 .. n : Left(x)[k] = Subtract(Left(x)[k - 1], list[k].delta)
  <2> DEFINE g == Left(x)
  <2>1. g = Rec(g)
    BY <1>9
  <2> HIDE DEF g
  <2>2. 0 \in 0 .. n /\ \A k \in 1 .. n : k \in 0 .. n /\ k # 0
    BY <1>1
  <2>3. g[0] = x /\ \A k \in 1 .. n : g[k] = Subtract(g[k - 1], list[k].delta)
    BY <2>1, <2>2
  <2> QED
    BY <2>3 DEF g
<1>11. 0 .. n \subseteq G
  <2>1. 0 \in G
    BY <1>1, <1>10
  <2>2. ASSUME NEW k \in 1 .. n, k - 1 \in G PROVE k \in G
    BY <1>1, <1>10, <2>2, SubtractType
  <2> HIDE DEF G
  <2> QED
    BY <1>1, <2>1, <2>2, UpTo
<1>12. \A k \in 0 .. n : Left(x)[k] \in Timevals
  BY <1>11
<1>13. DOMAIN Left(x) = 0 .. n /\ Left(x) = [k \in 0 .. n |-> Left(x)[k]]
  BY <1>9
<1> QED
  BY <1>10, <1>12, <1>13 DEF n

(* f[k]: when the k-th timer of list l expires by the list, which was      *)
(* brought up to date at t.                                                *)
Schedule(l, t, f) ==
  /\ f \in [0 .. Len(l) -> Int]
  /\ f[0] = t
  /\ \A k \in 1 .. Len(l) : f[k] = f[k - 1] + Ticks(l[k].delta)

LEMMA LeftTicks ==
  ASSUME list \in Seq(TimerNode), NEW x \in Timevals, NEW t \in Int, NEW f,
         Schedule(list, t, f)
  PROVE  \A k \in 0 .. Len(list) : Ticks(Left(x)[k]) = Ticks(x) - (f[k] - t)
<1> DEFINE n == Len(list)
           left == Left(x)
           G == {k \in 0 .. n : Ticks(left[k]) = Ticks(x) - (f[k] - t)}
<1>1. /\ n \in Nat /\ \A k \in 1 .. n : list[k].delta \in Timevals
      /\ \A k \in 1 .. n : k \in 0 .. n /\ k - 1 \in 0 .. n
  <2>1. n \in Nat /\ \A k \in 1 .. n : list[k] \in TimerNode
    OBVIOUS
  <2>2. \A node \in TimerNode : node.delta \in Timevals
    BY DEF TimerNode
  <2> QED
    BY <2>1, <2>2
<1>2. /\ left \in [0 .. n -> Timevals] /\ left[0] = x
      /\ \A k \in 1 .. n : left[k] = Subtract(left[k - 1], list[k].delta)
  BY LeftRecursion
<1>3. /\ f \in [0 .. n -> Int] /\ f[0] = t
      /\ \A k \in 1 .. n : f[k] = f[k - 1] + Ticks(list[k].delta)
  BY DEF Schedule
<1> HIDE DEF n, left
<1>4. 0 \in G
  <2>1. Ticks(x) \in Int
    BY TicksType
  <2> QED
    BY <1>1, <1>2, <1>3, <2>1
<1>5. ASSUME NEW k \in 1 .. n, k - 1 \in G PROVE k \in G
  <2> DEFINE y == left[k - 1]
             d == list[k].delta
  <2>1. /\ y \in Timevals /\ d \in Timevals /\ left[k] = Subtract(y, d)
        /\ f[k] = f[k - 1] + Ticks(d) /\ f[k - 1] \in Int
        /\ Ticks(y) = Ticks(x) - (f[k - 1] - t)
        /\ k \in 0 .. n
    BY <1>1, <1>2, <1>3, <1>5
  <2> HIDE DEF y, d
  <2>2. Ticks(left[k]) = Ticks(y) - Ticks(d)
    BY <2>1, SubtractType
  <2>3. Ticks(x) \in Int /\ Ticks(d) \in Int
    BY <2>1, TicksType
  <2>4. Ticks(left[k]) = Ticks(x) - (f[k] - t)
    BY <2>1, <2>2, <2>3
  <2> QED
    BY <2>1, <2>4
<1> HIDE DEF G
<1>6. 0 .. n \subseteq G
  BY <1>1, <1>4, <1>5, UpTo
<1> QED
  BY <1>6 DEF G, n, left

LEMMA WaitsOfSchedule ==
  ASSUME NEW l \in Seq(TimerNode), NEW t \in Int, NEW f, Schedule(l, t, f)
  PROVE  \A k \in 0 .. Len(l) : t + Waits(l)[k] = f[k]
<1> DEFINE n == Len(l)
           Rec(g) == [k \in 0 .. n |-> IF k = 0 THEN 0
                                       ELSE g[k - 1] + Ticks(l[k].delta)]
           w == [k \in 0 .. n |-> f[k] - t]
           G == {k \in 0 .. n : Waits(l)[k] \in Int /\ t + Waits(l)[k] = f[k]}
<1>1. /\ n \in Nat /\ \A k \in 1 .. n : Ticks(l[k].delta) \in Int
      /\ \A k \in 0 .. n : k # 0 => k \in 1 .. n
      /\ \A k \in 1 .. n : k \in 0 .. n /\ k - 1 \in 0 .. n
  <2>1. n \in Nat /\ \A k \in 1 .. n : l[k] \in TimerNode
    OBVIOUS
  <2>2. \A node \in TimerNode : node.delta \in Timevals
    BY DEF TimerNode
  <2> HIDE DEF n
  <2> QED
    BY <2>1, <2>2, TicksType
<1>2. /\ f \in [0 .. n -> Int] /\ f[0] = t
      /\ \A k \in 1 .. n : f[k] = f[k - 1] + Ticks(l[k].delta)
  BY DEF Schedule
<1> HIDE DEF n
<1>3. w = Rec(w)
  <2>1. w[0] = 0
    BY <1>1, <1>2
  <2>2. ASSUME NEW k \in 1 .. n PROVE w[k] = w[k - 1] + Ticks(l[k].delta)
    <3>1. w[k] = f[k] - t /\ w[k - 1] = f[k - 1] - t
      BY <1>1
    <3> HIDE DEF w
    <3> QED
      BY <1>1, <1>2, <3>1
  <2>3. w = [k \in 0 .. n |-> w[k]]
    OBVIOUS
  <2> HIDE DEF w
  <2>4. \A k \in 0 .. n : w[k] = IF k = 0 THEN 0 ELSE w[k - 1] + Ticks(l[k].delta)
    BY <1>1, <2>1, <2>2
  <2> QED
    BY <2>3, <2>4, Zenon
<1> HIDE DEF w
<1>4. Waits(l) = CHOOSE g : g = Rec(g)
  BY DEF Waits, n
<1>5. Waits(l) = Rec(Waits(l))
  <2> HIDE DEF Rec
  <2> QED
    BY <1>3, <1>4
<1> DEFINE v == Waits(l)
<1>6. v[0] = 0 /\ \A k \in 1 .. n : v[k] = v[k - 1] + Ticks(l[k].delta)
  <2>1. v = Rec(v)
    BY <1>5
  <2> HIDE DEF v
  <2>2. 0 \in 0 .. n /\ \A k \in 1 .. n : k \in 0 .. n /\ k # 0
    BY <1>1
  <2> QED
    BY <2>1, <2>2
<1>7. 0 .. n \subseteq G
  <2>1. 0 \in G
    BY <1>1, <1>2, <1>6
  <2>2. ASSUME NEW k \in 1 .. n, k - 1 \in G PROVE k \in G
    <3>1. /\ v[k - 1] \in Int
          /\ t + v[k - 1] = f[k - 1] /\ v[k] = v[k - 1] + Ticks(l[k].delta)
          /\ f[k] = f[k - 1] + Ticks(l[k].delta) /\ Ticks(l[k].delta) \in Int
          /\ f[k - 1] \in Int /\ k \in 0 .. n
      BY <1>1, <1>2, <1>6, <2>2
    <3> HIDE DEF v
    <3>2. v[k] \in Int /\ t + v[k] = f[k]
      BY <3>1
    <3> QED
      BY <3>1, <3>2 DEF v
  <2> HIDE DEF G
  <2> QED
    BY <1>1, <2>1, <2>2, UpTo
<1> QED
  BY <1>7 DEF n

-----------------------------------------------------------------------------
(* What an insertion, a removal and a cut do to a sequence. *)
LEMMA Inserted ==
  ASSUME NEW S, NEW s \in Seq(S), NEW i \in 1 .. Len(s) + 1, NEW e \in S
  PROVE  /\ InsertAt(s, i, e) \in Seq(S)
         /\ Len(InsertAt(s, i, e)) = Len(s) + 1
         /\ \A k \in 1 .. i - 1 : InsertAt(s, i, e)[k] = s[k]
         /\ InsertAt(s, i, e)[i] = e
         /\ \A k \in i + 1 .. Len(s) + 1 : InsertAt(s, i, e)[k] = s[k - 1]
<1> DEFINE n == Len(s)
           a == SubSeq(s, 1, i - 1)
           b == SubSeq(s, i, n)
           c == a \o <<e>>
<1>1. n \in Nat /\ i \in 1 .. n + 1
  OBVIOUS
<1>2. /\ a \in Seq(S) /\ Len(a) = i - 1
      /\ \A k \in 1 .. i - 1 : a[k] = s[k]
  OBVIOUS
<1>3. /\ b \in Seq(S) /\ Len(b) = n - i + 1
      /\ \A k \in 1 .. n - i + 1 : b[k] = s[k + i - 1]
  OBVIOUS
<1>4. InsertAt(s, i, e) = c \o b
  BY DEF InsertAt
<1> HIDE DEF a, b, n
<1>5. /\ c \in Seq(S) /\ Len(c) = i /\ c[i] = e
      /\ \A k \in 1 .. i - 1 : c[k] = s[k]
  BY <1>1, <1>2
<1> HIDE DEF c
<1>6. /\ c \o b \in Seq(S) /\ Len(c \o b) = n + 1
      /\ \A k \in 1 .. i : (c \o b)[k] = c[k]
      /\ \A k \in i + 1 .. n + 1 : (c \o b)[k] = b[k - i]
  BY <1>1, <1>3, <1>5
<1>7. \A k \in i + 1 .. n + 1 : k - i \in 1 .. n - i + 1 /\ (k - i) + i - 1 = k - 1
  BY <1>1
<1>8. \A k \in i + 1 .. n + 1 : (c \o b)[k] = s[k - 1]
  BY <1>3, <1>6, <1>7
<1>9. i \in 1 .. i /\ \A k \in 1 .. i - 1 : k \in 1 .. i
  BY <1>1
<1> QED
  BY <1>4, <1>5, <1>6, <1>8, <1>9 DEF n

LEMMA Removed ==
  ASSUME NEW S, NEW s \in Seq(S), NEW i \in 1 .. Len(s)
  PROVE  /\ RemoveAt(s, i) \in Seq(S)
         /\ Len(RemoveAt(s, i)) = Len(s) - 1
         /\ \A k \in 1 .. i - 1 : RemoveAt(s, i)[k] = s[k]
         /\ \A k \in i .. Len(s) - 1 : RemoveAt(s, i)[k] = s[k + 1]
<1> DEFINE n == Len(s)
           a == SubSeq(s, 1, i - 1)
           b == SubSeq(s, i + 1, n)
<1>1. n \in Nat /\ i \in 1 .. n
  OBVIOUS
<1>2. /\ a \in Seq(S) /\ Len(a) = i - 1
      /\ \A k \in 1 .. i - 1 : a[k] = s[k]
  OBVIOUS
<1>3. /\ b \in Seq(S) /\ Len(b) = n - i
      /\ \A k \in 1 .. n - i : b[k] = s[k + i]
  OBVIOUS
<1>4. RemoveAt(s, i) = a \o b
  BY DEF RemoveAt
<1> HIDE DEF a, b, n
<1>5. /\ a \o b \in Seq(S) /\ Len(a \o b) = n - 1
      /\ \A k \in 1 .. i - 1 : (a \o b)[k] = a[k]
      /\ \A k \in i .. n - 1 : (a \o b)[k] = b[k - (i - 1)]
  <2> DEFINE j == i - 1
  <2>1. j \in Nat /\ Len(a) = j /\ Len(b) \in Nat /\ j + Len(b) = n - 1
    BY <1>1, <1>2, <1>3
  <2>2. /\ a \o b \in Seq(S) /\ Len(a \o b) = j + Len(b)
        /\ \A k \in 1 .. j : (a \o b)[k] = a[k]
        /\ \A k \in j + 1 .. j + Len(b) : (a \o b)[k] = b[k - j]
    <3> HIDE DEF j
    <3>1. a \in Seq(S) /\ b \in Seq(S) /\ Len(a) = j /\ j \in Nat /\ Len(b) \in Nat
      BY <1>2, <1>3, <2>1
    <3>2. a \o b \in Seq(S) /\ Len(a \o b) = j + Len(b)
      BY <3>1
    <3>3. \A k \in 1 .. j : (a \o b)[k] = a[k]
      BY <3>1
    <3>4. ASSUME NEW k \in j + 1 .. j + Len(b) PROVE (a \o b)[k] = b[k - j]
      BY <3>1
    <3> QED
      BY <3>2, <3>3, <3>4
  <2>3. j + 1 = i
    BY <1>1
  <2> QED
    BY <2>1, <2>2, <2>3
<1>6. \A k \in i .. n - 1 : k - (i - 1) \in 1 .. n - i /\ (k - (i - 1)) + i = k + 1
  BY <1>1
<1> QED
  BY <1>2, <1>3, <1>4, <1>5, <1>6 DEF n

LEMMA CutOff ==
  ASSUME NEW S, NEW s \in Seq(S), NEW m \in 0 .. Len(s)
  PROVE  /\ SubSeq(s, m + 1, Len(s)) \in Seq(S)
         /\ Len(SubSeq(s, m + 1, Len(s))) = Len(s) - m
         /\ \A k \in 1 .. Len(s) - m : SubSeq(s, m + 1, Len(s))[k] = s[k + m]
<1>1. Len(s) \in Nat
  OBVIOUS
<1>2. m + 1 \in 1 .. Len(s) + 1
  BY <1>1
<1> QED
  BY <1>1, <1>2

(* The comparisons of a walk change how a node writes its time, not which  *)
(* time it is.                                                             *)
LikeNode(p, q) == p.id = q.id /\ p.due = q.due /\ Ticks(p.delta) = Ticks(q.delta)

LEMMA ComparedType ==
  ASSUME list \in Seq(TimerNode), NEW x \in Timevals, NEW m \in 0 .. Len(list)
  PROVE  /\ Compared(x, m) \in Seq(TimerNode)
         /\ Len(Compared(x, m)) = Len(list)
         /\ \A k \in 1 .. Len(list) : LikeNode(Compared(x, m)[k], list[k])
<1> DEFINE n == Len(list)
           left == Left(x)
           c == Compared(x, m)
<1>1. n \in Nat /\ \A k \in 1 .. n : list[k] \in TimerNode
  OBVIOUS
<1>2. left \in [0 .. n -> Timevals]
  BY LeftRecursion
<1>3. c = [k \in 1 .. n |-> IF k <= m + 1
                            THEN [list[k] EXCEPT !.delta = Carried(left[k - 1], @)]
                            ELSE list[k]]
  BY DEF Compared
<1> HIDE DEF n, left, c
<1>4. ASSUME NEW k \in 1 .. n
      PROVE  c[k] \in TimerNode /\ LikeNode(c[k], list[k])
  <2> DEFINE p == list[k]
             y == left[k - 1]
             z == Carried(y, p.delta)
  <2>1. p \in TimerNode /\ p.delta \in Timevals
    BY <1>1 DEF TimerNode
  <2>2. y \in Timevals
    <3>1. k - 1 \in 0 .. n
      BY <1>1
    <3> QED
      BY <1>2, <3>1
  <2> HIDE DEF p, y
  <2>3. z \in Timevals /\ Ticks(z) = Ticks(p.delta)
    BY <2>1, <2>2, CarriedType
  <2> HIDE DEF z
  <2>4. c[k] = IF k <= m + 1 THEN [p EXCEPT !.delta = z] ELSE p
    BY <1>3 DEF p, y, z
  <2>5. /\ [p EXCEPT !.delta = z] \in TimerNode
        /\ [p EXCEPT !.delta = z].delta = z
        /\ [p EXCEPT !.delta = z].id = p.id /\ [p EXCEPT !.delta = z].due = p.due
    BY <2>1, <2>3 DEF TimerNode
  <2> QED
    BY <2>1, <2>3, <2>4, <2>5 DEF LikeNode, p
<1>5. c \in [1 .. n -> TimerNode]
  <2>1. c = [k \in 1 .. n |-> c[k]]
    BY <1>3
  <2> QED
    BY <1>4, <2>1
<1>6. c \in Seq(TimerNode) /\ Len(c) = n
  BY <1>1, <1>5
<1> QED
  BY <1>4, <1>6 DEF c, n

-----------------------------------------------------------------------------
(* A list of timers that is in order: one node for each frame, no time     *)
(* below 0, and none that expires later, by the list, than it is due.      *)
ListOk(l, t) ==
  /\ l \in Seq(TimerNode)
  /\ \A i, j \in 1 .. Len(l) : l[i].id = l[j].id => i = j
  /\ \A k \in 1 .. Len(l) : Ticks(l[k].delta) >= 0
  /\ \E f : Schedule(l, t, f) /\ \A k \in 1 .. Len(l) : f[k] <= l[k].due

(* timeout1 points to the head, or to a node out of the list that has no   *)
(* longer to wait than the head.                                           *)
PointsRight(to, st, l) ==
  /\ to \in {None, Stale} \/ (l # <<>> /\ to = l[1].id)
  /\ l # <<>> => to # None
  /\ to = Stale => /\ Ticks(st) >= 0
                   /\ l # <<>> => Ticks(st) <= Ticks(l[1].delta)

ListInv ==
  /\ now \in Nat /\ now <= MaxTime /\ lasttime \in Nat /\ lasttime <= now
  /\ stale \in Timevals /\ running \in BOOLEAN /\ resent \in Seq(Ids)
  /\ ListOk(list, lasttime)
  /\ PointsRight(timeout1, stale, list)

LEMMA NodeType ==
  ASSUME NEW l \in Seq(TimerNode)
  PROVE  /\ Len(l) \in Nat
         /\ \A k \in 1 .. Len(l) : /\ l[k] \in TimerNode /\ l[k].id \in Ids
                                   /\ l[k].delta \in Timevals /\ l[k].due \in Nat
                                   /\ Ticks(l[k].delta) \in Int
         /\ l # <<>> <=> Len(l) >= 1
<1>1. Len(l) \in Nat /\ \A k \in 1 .. Len(l) : l[k] \in TimerNode
  OBVIOUS
<1>2. \A p \in TimerNode : p.id \in Ids /\ p.delta \in Timevals /\ p.due \in Nat
  BY DEF TimerNode
<1>3. l # <<>> <=> Len(l) >= 1
  OBVIOUS
<1> QED
  BY <1>1, <1>2, <1>3, TicksType

(* The time select() waits is what timeout1 points to. *)
LEMMA WaitsForHead ==
  ASSUME ListInv, timeout1 # None
  PROVE  /\ TimeToWait \in Timevals
         /\ Ticks(TimeToWait) \in Int /\ Ticks(TimeToWait) >= 0
         /\ timeout1 # Stale => list # <<>> /\ TimeToWait = list[1].delta
         /\ list # <<>> => Ticks(TimeToWait) <= Ticks(list[1].delta)
<1>1. /\ list \in Seq(TimerNode)
      /\ \A i, j \in 1 .. Len(list) : list[i].id = list[j].id => i = j
      /\ \A k \in 1 .. Len(list) : Ticks(list[k].delta) >= 0
      /\ PointsRight(timeout1, stale, list)
      /\ stale \in Timevals
  BY DEF ListInv, ListOk
<1>2. CASE timeout1 = Stale
  <2>1. TimeToWait = stale
    BY <1>2 DEF TimeToWait
  <2> QED
    BY <1>1, <1>2, <2>1, TicksType DEF PointsRight
<1>3. CASE timeout1 # Stale
  <2>1. list # <<>> /\ timeout1 = list[1].id
    BY <1>1, <1>3 DEF PointsRight
  <2>2. 1 \in 1 .. Len(list)
    BY <1>1, <2>1, NodeType
  <2>3. PosOf(timeout1) = {1}
    BY <1>1, <2>1, <2>2 DEF PosOf
  <2>4. TimeToWait = list[1].delta
    BY <1>3, <2>3 DEF TimeToWait
  <2>5. Ticks(list[1].delta) \in Int
    BY <1>1, <2>2, NodeType
  <2> QED
    BY <1>1, <1>3, <2>1, <2>2, <2>4, <2>5, NodeType
<1> QED
  BY <1>2, <1>3

LEMMA EmptyOk ==
  ASSUME NEW t \in Int
  PROVE  ListOk(<<>>, t)
<1>1. <<>> \in Seq(TimerNode) /\ Len(<<>>) = 0
  OBVIOUS
<1> DEFINE f == [k \in 0 .. 0 |-> t]
<1>2. Schedule(<<>>, t, f)
  BY <1>1 DEF Schedule
<1> HIDE DEF f
<1> QED
  BY <1>1, <1>2 DEF ListOk

LEMMA ListInvInit == Init => ListInv
<1> SUFFICES ASSUME Init PROVE ListInv
  OBVIOUS
<1>1. /\ now = 0 /\ lasttime = 0 /\ list = <<>> /\ timeout1 = None
      /\ stale = Timeval(0) /\ running = TRUE /\ resent = <<>>
  BY DEF Init
<1>2. <<>> \in Seq(Ids)
  OBVIOUS
<1>3. ListOk(<<>>, 0)
  BY EmptyOk
<1>4. PointsRight(timeout1, stale, list)
  BY <1>1, TimeAssumption DEF PointsRight
<1>5. Timeval(0) \in Timevals /\ MaxTime \in Nat
  BY TimevalType, TimeAssumption
<1> QED
  BY <1>1, <1>2, <1>3, <1>4, <1>5 DEF ListInv

-----------------------------------------------------------------------------
(* A tick makes the head expire sooner, by the list, and with it all. *)
LEMMA HeadSooner ==
  ASSUME NEW l, NEW t \in Int, ListOk(l, t), l # <<>>,
         NEW v \in Timevals, Ticks(v) >= 0, Ticks(v) <= Ticks(l[1].delta)
  PROVE  ListOk([k \in 1 .. Len(l) |->
                   IF k = 1 THEN [l[1] EXCEPT !.delta = v] ELSE l[k]], t)
<1> DEFINE n == Len(l)
           p == [l[1] EXCEPT !.delta = v]
           L == [k \in 1 .. n |-> IF k = 1 THEN p ELSE l[k]]
           c == Ticks(l[1].delta) - Ticks(v)
<1>1. /\ l \in Seq(TimerNode) /\ n \in Nat /\ 1 \in 1 .. n
      /\ \A k \in 1 .. n : l[k] \in TimerNode /\ Ticks(l[k].delta) \in Int
      /\ \A i, j \in 1 .. n : l[i].id = l[j].id => i = j
      /\ \A k \in 1 .. n : Ticks(l[k].delta) >= 0
      /\ Ticks(v) \in Int
  BY NodeType, TicksType DEF ListOk
<1>2. PICK f : Schedule(l, t, f) /\ \A k \in 1 .. n : f[k] <= l[k].due
  BY DEF ListOk
<1>3. p \in TimerNode /\ p.id = l[1].id /\ p.due = l[1].due /\ p.delta = v
  BY <1>1 DEF TimerNode
<1>4. c \in Int /\ c >= 0 /\ Ticks(l[1].delta) - c = Ticks(v)
  BY <1>1
<1> HIDE DEF n, p, c
<1>5. L \in Seq(TimerNode) /\ Len(L) = n
  <2>1. \A k \in 1 .. n : L[k] \in TimerNode
    BY <1>1, <1>3
  <2>2. L \in [1 .. n -> TimerNode]
    BY <2>1
  <2> HIDE DEF L
  <2> QED
    BY <1>1, <2>2
<1>6. \A k \in 1 .. n : /\ L[k].id = l[k].id /\ L[k].due = l[k].due
                        /\ Ticks(L[k].delta) = Ticks(l[k].delta) - IF k = 1 THEN c ELSE 0
  <2> SUFFICES ASSUME NEW k \in 1 .. n
               PROVE  /\ L[k].id = l[k].id /\ L[k].due = l[k].due
                      /\ Ticks(L[k].delta) = Ticks(l[k].delta) - IF k = 1 THEN c ELSE 0
    OBVIOUS
  <2>1. CASE k = 1
    BY <1>3, <1>4, <2>1
  <2>2. CASE k # 1
    <3>1. L[k] = l[k] /\ Ticks(l[k].delta) \in Int
      BY <1>1, <2>2
    <3> HIDE DEF L
    <3> QED
      BY <2>2, <3>1
  <2> QED
    BY <2>1, <2>2
<1> HIDE DEF L
<1> DEFINE g == [k \in 0 .. n |-> IF k = 0 THEN t ELSE f[k] - c]
<1>7. Schedule(L, t, g) /\ \A k \in 1 .. n : g[k] <= L[k].due
  <2>1. /\ f \in [0 .. n -> Int] /\ f[0] = t
        /\ \A k \in 1 .. n : f[k] = f[k - 1] + Ticks(l[k].delta)
        /\ \A k \in 1 .. n : f[k] <= l[k].due
    BY <1>2 DEF Schedule, n
  <2>2. \A k \in 1 .. n : k \in 0 .. n /\ k - 1 \in 0 .. n /\ k # 0 /\ (k # 1 => k - 1 # 0)
    BY <1>1
  <2>3. g \in [0 .. n -> Int] /\ g[0] = t
    <3>1. \A k \in 0 .. n : f[k] - c \in Int
      BY <1>4, <2>1
    <3>2. \A k \in 0 .. n : (IF k = 0 THEN t ELSE f[k] - c) \in Int
      BY <3>1
    <3>3. 0 \in 0 .. n
      BY <1>1
    <3> QED
      BY <3>2, <3>3
  <2>4. \A k \in 1 .. n : g[k] = f[k] - c /\ g[k - 1] = IF k = 1 THEN t ELSE f[k - 1] - c
    BY <2>2
  <2> HIDE DEF g
  <2>5. ASSUME NEW k \in 1 .. n
        PROVE  g[k] = g[k - 1] + Ticks(L[k].delta) /\ g[k] <= L[k].due
    <3>1. f[k] \in Int /\ f[k - 1] \in Int /\ Ticks(l[k].delta) \in Int /\ l[k].due \in Int
      <4>1. l[k].due \in Int
        BY <1>1, NodeType DEF n
      <4>2. Ticks(l[k].delta) \in Int
        BY <1>1
      <4>3. f[k] \in Int /\ f[k - 1] \in Int
        BY <2>1, <2>2
      <4> QED
        BY <4>1, <4>2, <4>3
    <3>2. CASE k = 1
      BY <1>4, <1>6, <2>1, <2>4, <3>1, <3>2
    <3>3. CASE k # 1
      BY <1>4, <1>6, <2>1, <2>4, <3>1, <3>3
    <3> QED
      BY <3>2, <3>3
  <2> QED
    BY <1>5, <2>3, <2>5 DEF Schedule
<1> HIDE DEF g
<1>8. \A k \in 1 .. n : Ticks(L[k].delta) >= 0
  <2> SUFFICES ASSUME NEW k \in 1 .. n PROVE Ticks(L[k].delta) >= 0
    OBVIOUS
  <2>1. Ticks(l[k].delta) \in Int /\ Ticks(l[k].delta) >= 0
    BY <1>1
  <2>2. CASE k = 1
    BY <1>1, <1>4, <1>6, <2>2
  <2>3. CASE k # 1
    BY <1>6, <2>1, <2>3
  <2> QED
    BY <2>2, <2>3
<1>9. ListOk(L, t)
  BY <1>1, <1>5, <1>6, <1>7, <1>8 DEF ListOk
<1> QED
  BY <1>9 DEF L, n, p

LEMMA TickStep == ListInv /\ Tick => ListInv'
<1> SUFFICES ASSUME ListInv, Tick PROVE ListInv'
  OBVIOUS
<1> DEFINE v == AfterTick
<1>1. /\ now \in Nat /\ lasttime \in Nat /\ lasttime <= now /\ now <= MaxTime
      /\ list \in Seq(TimerNode) /\ ListOk(list, lasttime)
      /\ \A i, j \in 1 .. Len(list) : list[i].id = list[j].id => i = j
      /\ PointsRight(timeout1, stale, list) /\ stale \in Timevals
      /\ running \in BOOLEAN
  BY DEF ListInv, ListOk
<1>2. /\ now < MaxTime /\ now' = now + 1
      /\ stale' = IF timeout1 = Stale THEN v ELSE stale
      /\ list' = [k \in 1 .. Len(list) |->
                    IF list[k].id = timeout1 THEN [list[k] EXCEPT !.delta = v] ELSE list[k]]
      /\ resent' = <<>>
      /\ UNCHANGED <<lasttime, timeout1, running>>
  BY DEF Tick
<1>3. timeout1 # None =>
        /\ v \in Timevals /\ Ticks(v) >= 0 /\ Ticks(v) <= Ticks(TimeToWait)
  <2> SUFFICES ASSUME timeout1 # None
               PROVE  v \in Timevals /\ Ticks(v) >= 0 /\ Ticks(v) <= Ticks(TimeToWait)
    OBVIOUS
  <2> DEFINE w == Ticks(TimeToWait)
  <2>1. w \in Int /\ w >= 0
    BY WaitsForHead
  <2>2. v = Timeval(IF w = 0 THEN 0 ELSE w - 1)
    BY DEF AfterTick, Expires
  <2> HIDE DEF w, v
  <2>3. CASE w = 0
    <3>1. v = Timeval(0)
      BY <2>2, <2>3
    <3> QED
      BY <2>3, <3>1, TimevalType DEF w
  <2>4. CASE w # 0
    <3>1. v = Timeval(w - 1) /\ w - 1 \in Int /\ w - 1 >= 0 /\ w - 1 <= w
      BY <2>1, <2>2, <2>4
    <3>2. v \in Timevals /\ Ticks(v) = w - 1
      BY <3>1, TimevalType
    <3> QED
      BY <3>1, <3>2 DEF w
  <2> QED
    BY <2>3, <2>4
<1> HIDE DEF v
<1>4. ListOk(list', lasttime) /\ PointsRight(timeout1, stale', list')
  <2>1. CASE timeout1 \in {None, Stale}
    <3>1. \A k \in 1 .. Len(list) : list[k].id # timeout1
      BY <1>1, <2>1, NodeType, TimeAssumption
    <3>2. list' = list
      BY <1>1, <1>2, <3>1
    <3>3. CASE timeout1 = None
      <4>1. stale' = stale
        BY <1>2, <3>3, TimeAssumption
      <4> QED
        BY <1>1, <3>2, <4>1
    <3>4. CASE timeout1 = Stale
      <4>1. timeout1 # None
        BY <3>4, TimeAssumption
      <4>2. stale' = v
        BY <1>2, <3>4
      <4>3. list # <<>> => /\ Ticks(v) <= Ticks(list[1].delta)
        <5> SUFFICES ASSUME list # <<>> PROVE Ticks(v) <= Ticks(list[1].delta)
          OBVIOUS
        <5>1. /\ Ticks(v) <= Ticks(TimeToWait) /\ Ticks(TimeToWait) <= Ticks(list[1].delta)
              /\ Ticks(TimeToWait) \in Int /\ Ticks(v) \in Int
          BY <1>3, <4>1, WaitsForHead, TicksType
        <5>2. Ticks(list[1].delta) \in Int
          BY <1>1, NodeType
        <5> QED
          BY <5>1, <5>2
      <4> QED
        BY <1>1, <1>3, <3>2, <3>4, <4>1, <4>2, <4>3 DEF PointsRight
    <3> QED
      BY <2>1, <3>3, <3>4
  <2>2. CASE timeout1 \notin {None, Stale}
    <3>1. /\ list # <<>> /\ timeout1 = list[1].id /\ 1 \in 1 .. Len(list)
          /\ TimeToWait = list[1].delta
      BY <1>1, <2>2, WaitsForHead, NodeType DEF PointsRight
    <3>2. \A k \in 1 .. Len(list) : list[k].id = timeout1 <=> k = 1
      BY <1>1, <3>1
    <3>3. list' = [k \in 1 .. Len(list) |->
                     IF k = 1 THEN [list[1] EXCEPT !.delta = v] ELSE list[k]]
      BY <1>2, <3>2
    <3>4. ListOk(list', lasttime)
      BY <1>1, <1>3, <2>2, <3>1, <3>3, HeadSooner
    <3>5. list'[1].id = timeout1 /\ list' # <<>>
      <4>1. list'[1] = [list[1] EXCEPT !.delta = v] /\ list[1] \in TimerNode
        BY <1>1, <3>1, <3>3, NodeType
      <4>2. list'[1].id = list[1].id
        BY <4>1 DEF TimerNode
      <4>3. 1 \in DOMAIN list'
        BY <3>1, <3>3
      <4> QED
        BY <3>1, <4>2, <4>3
    <3> QED
      BY <2>2, <3>4, <3>5 DEF PointsRight
  <2> QED
    BY <2>1, <2>2
<1>5. stale' \in Timevals
  <2>1. timeout1 = Stale => timeout1 # None
    BY TimeAssumption
  <2> QED
    BY <1>1, <1>2, <1>3, <2>1
<1>6. now' \in Nat /\ now' <= MaxTime /\ lasttime' <= now' /\ lasttime' \in Nat
  BY <1>1, <1>2, TimeAssumption
<1>7. resent' \in Seq(Ids)
  BY <1>2
<1> QED
  BY <1>1, <1>2, <1>4, <1>5, <1>6, <1>7, Zenon DEF ListInv


LEMMA PlusType ==
  ASSUME NEW x \in Timevals, NEW y \in Timevals
  PROVE  Plus(x, y) \in Timevals /\ Ticks(Plus(x, y)) = Ticks(x) + Ticks(y)
<1>1. x.sec \in Int /\ x.usec \in Int /\ y.sec \in Int /\ y.usec \in Int
  BY DEF Timevals
<1>2. Plus(x, y) = [sec |-> x.sec + y.sec, usec |-> x.usec + y.usec]
  BY DEF Plus
<1> DEFINE p == x.sec * Second
           q == y.sec * Second
           s == x.sec + y.sec
<1>3. p \in Int /\ q \in Int /\ s * Second = p + q
  BY <1>1, SecondType
<1>4. Ticks(Plus(x, y)) = (p + q) + (x.usec + y.usec)
  <2>1. Plus(x, y).sec = s /\ Plus(x, y).usec = x.usec + y.usec
    BY <1>2
  <2> QED
    BY <1>3, <2>1, Zenon DEF Ticks
<1>5. Ticks(x) = p + x.usec /\ Ticks(y) = q + y.usec
  BY DEF Ticks
<1>6. Plus(x, y) \in Timevals
  BY <1>1, <1>2 DEF Timevals
<1> HIDE DEF p, q, s
<1> QED
  BY <1>1, <1>3, <1>4, <1>5, <1>6

(* A cancel gives the node's time to the next one: the others expire when  *)
(* they did.                                                               *)
Longer(l, k) == [j \in 1 .. Len(l) |->
                   IF j = k + 1
                   THEN [l[j] EXCEPT !.delta = Plus(@, l[k].delta)]
                   ELSE l[j]]

TakenOut(l, k, L) ==
  /\ Len(L) = Len(l) - 1
  /\ \A j \in 1 .. k - 1 : L[j] = l[j]
  /\ \A j \in k .. Len(l) - 1 : L[j].id = l[j + 1].id

LEMMA Cancelled ==
  ASSUME NEW l, NEW t \in Int, ListOk(l, t), NEW k \in 1 .. Len(l),
         NEW L, L = RemoveAt(Longer(l, k), k)
  PROVE  /\ ListOk(L, t)
         /\ TakenOut(l, k, L)
         /\ k = 1 /\ Len(l) > 1 =>
              Ticks(L[1].delta) = Ticks(l[2].delta) + Ticks(l[1].delta)
<1> DEFINE n == Len(l)
           longer == Longer(l, k)
           w(j) == Ticks(l[j].delta)
<1>1. /\ l \in Seq(TimerNode) /\ n \in Nat /\ k \in 1 .. n
      /\ \A j \in 1 .. n : /\ l[j] \in TimerNode /\ l[j].delta \in Timevals
                           /\ w(j) \in Int /\ w(j) >= 0
                           /\ l[j].due \in Nat
      /\ \A i, j \in 1 .. n : l[i].id = l[j].id => i = j
  BY NodeType DEF ListOk
<1>2. PICK f : Schedule(l, t, f) /\ \A j \in 1 .. n : f[j] <= l[j].due
  BY DEF ListOk
<1>3. /\ f \in [0 .. n -> Int] /\ f[0] = t
      /\ \A j \in 1 .. n : f[j] = f[j - 1] + w(j) /\ f[j] <= l[j].due
  BY <1>2 DEF Schedule
<1>4. \A j \in 1 .. n :
        /\ longer[j] \in TimerNode /\ longer[j].id = l[j].id /\ longer[j].due = l[j].due
        /\ (j # k + 1) => longer[j] = l[j]
        /\ (j = k + 1) => Ticks(longer[j].delta) = w(j) + w(k)
  <2> SUFFICES ASSUME NEW j \in 1 .. n
               PROVE  /\ longer[j] \in TimerNode /\ longer[j].id = l[j].id
                      /\ longer[j].due = l[j].due
                      /\ (j # k + 1) => longer[j] = l[j]
                      /\ (j = k + 1) => Ticks(longer[j].delta) = w(j) + w(k)
    OBVIOUS
  <2>1. CASE j = k + 1
    <3> DEFINE p == Plus(l[j].delta, l[k].delta)
    <3>1. p \in Timevals /\ Ticks(p) = w(j) + w(k)
      BY <1>1, PlusType
    <3>2. longer[j] = [l[j] EXCEPT !.delta = p] /\ l[j] \in TimerNode
      BY <1>1, <2>1 DEF Longer
    <3> HIDE DEF p, longer, w
    <3>3. longer[j] \in TimerNode /\ longer[j].id = l[j].id
          /\ longer[j].due = l[j].due /\ longer[j].delta = p
      BY <3>1, <3>2 DEF TimerNode
    <3> QED
      BY <2>1, <3>1, <3>3
  <2>2. CASE j # k + 1
    BY <1>1, <2>2 DEF Longer
  <2> QED
    BY <2>1, <2>2
<1>5. longer \in Seq(TimerNode) /\ Len(longer) = n
  <2>1. longer \in [1 .. n -> TimerNode]
    BY <1>4 DEF Longer
  <2> HIDE DEF longer, n, w
  <2> QED
    BY <1>1, <2>1
<1>6. L = RemoveAt(longer, k)
  OBVIOUS
<1> HIDE DEF longer, n, w
<1>7. /\ L \in Seq(TimerNode) /\ Len(L) = n - 1
      /\ \A j \in 1 .. k - 1 : L[j] = longer[j]
      /\ \A j \in k .. n - 1 : L[j] = longer[j + 1]
  <2>1. k \in 1 .. Len(longer)
    BY <1>1, <1>5
  <2> QED
    BY <1>5, <1>6, <2>1, Removed
<1>8. \A j \in 1 .. k - 1 : L[j] = l[j] /\ j \in 1 .. n
  BY <1>1, <1>4, <1>7
<1>9. \A j \in k .. n - 1 :
        /\ L[j].id = l[j + 1].id /\ L[j].due = l[j + 1].due /\ j + 1 \in 1 .. n
        /\ (j = k) => Ticks(L[j].delta) = w(j + 1) + w(j)
        /\ (j # k) => Ticks(L[j].delta) = w(j + 1)
  <2> SUFFICES ASSUME NEW j \in k .. n - 1
               PROVE  /\ L[j].id = l[j + 1].id /\ L[j].due = l[j + 1].due /\ j + 1 \in 1 .. n
                      /\ (j = k) => Ticks(L[j].delta) = w(j + 1) + w(j)
                      /\ (j # k) => Ticks(L[j].delta) = w(j + 1)
    OBVIOUS
  <2> DEFINE i == j + 1
  <2>1. i \in 1 .. n /\ (i = k + 1 <=> j = k) /\ L[j] = longer[i]
    <3>1. i \in 1 .. n /\ (i = k + 1 <=> j = k)
      BY <1>1
    <3>2. L[j] = longer[i]
      BY <1>7
    <3> QED
      BY <3>1, <3>2
  <2> HIDE DEF i
  <2>2. /\ L[j].id = l[i].id /\ L[j].due = l[i].due
        /\ (j = k) => Ticks(L[j].delta) = w(i) + w(k)
        /\ (j # k) => L[j] = l[i]
    BY <1>4, <2>1
  <2>3. (j # k) => Ticks(L[j].delta) = w(i)
    BY <2>2 DEF w
  <2> QED
    BY <2>1, <2>2, <2>3 DEF i
<1> DEFINE g == [j \in 0 .. n - 1 |-> IF j < k THEN f[j] ELSE f[j + 1]]
<1>10. Schedule(L, t, g) /\ \A j \in 1 .. n - 1 : g[j] <= L[j].due
  <2>1. g \in [0 .. n - 1 -> Int] /\ g[0] = t
    <3>1. \A j \in 0 .. n - 1 : j \in 0 .. n /\ j + 1 \in 0 .. n
      BY <1>1
    <3>2. \A j \in 0 .. n - 1 : (IF j < k THEN f[j] ELSE f[j + 1]) \in Int
      BY <1>3, <3>1
    <3>3. 0 \in 0 .. n - 1 /\ 0 < k
      BY <1>1
    <3> QED
      BY <1>3, <3>2, <3>3
  <2>2. \A j \in 1 .. n - 1 :
          /\ g[j] = IF j < k THEN f[j] ELSE f[j + 1]
          /\ g[j - 1] = IF j - 1 < k THEN f[j - 1] ELSE f[j]
    <3> SUFFICES ASSUME NEW j \in 1 .. n - 1
                 PROVE  /\ g[j] = IF j < k THEN f[j] ELSE f[j + 1]
                        /\ g[j - 1] = IF j - 1 < k THEN f[j - 1] ELSE f[j]
      OBVIOUS
    <3>1. j \in 0 .. n - 1 /\ j - 1 \in 0 .. n - 1 /\ (j - 1) + 1 = j
      BY <1>1
    <3> QED
      BY <3>1
  <2> HIDE DEF g, w
  <2>3. ASSUME NEW j \in 1 .. n - 1
        PROVE  g[j] = g[j - 1] + Ticks(L[j].delta) /\ g[j] <= L[j].due
    <3>1. /\ j \in 1 .. n /\ j + 1 \in 1 .. n /\ j \in 0 .. n /\ j - 1 \in 0 .. n
          /\ (j + 1) - 1 = j
      BY <1>1
    <3>2. /\ f[j] = f[j - 1] + w(j) /\ f[j] <= l[j].due
          /\ f[j + 1] = f[j] + w(j + 1) /\ f[j + 1] <= l[j + 1].due
          /\ f[j] \in Int /\ f[j - 1] \in Int /\ f[j + 1] \in Int
          /\ w(j) \in Int /\ w(j + 1) \in Int
      <4> DEFINE i == j + 1
      <4>1. i \in 1 .. n /\ i - 1 = j /\ i \in 0 .. n
        BY <3>1, <1>1
      <4> HIDE DEF i
      <4>2. /\ f[i] = f[i - 1] + w(i) /\ f[i] <= l[i].due
            /\ f[i] \in Int /\ w(i) \in Int
        BY <1>1, <1>3, <4>1
      <4>3. f[i] = f[j] + w(i)
        BY <4>1, <4>2
      <4>4. /\ f[j] = f[j - 1] + w(j) /\ f[j] <= l[j].due
            /\ f[j] \in Int /\ f[j - 1] \in Int /\ w(j) \in Int
        BY <1>1, <1>3, <3>1
      <4> QED
        BY <4>2, <4>3, <4>4 DEF i
    <3>3. CASE j < k
      <4>1. L[j] = l[j] /\ g[j] = f[j] /\ g[j - 1] = f[j - 1]
        BY <1>1, <1>8, <2>2, <3>3
      <4> QED
        BY <3>2, <4>1 DEF w
    <3>4. CASE j = k
      <4>1. j \in k .. n - 1 /\ ~(j < k) /\ j - 1 < k
        BY <1>1, <3>4
      <4>2. Ticks(L[j].delta) = w(j + 1) + w(j) /\ L[j].due = l[j + 1].due
        BY <1>9, <3>4, <4>1
      <4>3. g[j] = f[j + 1] /\ g[j - 1] = f[j - 1]
        BY <2>2, <4>1
      <4> QED
        BY <3>2, <4>2, <4>3
    <3>5. CASE j > k
      <4>1. j \in k .. n - 1 /\ j # k /\ ~(j < k) /\ ~(j - 1 < k)
        BY <1>1, <3>5
      <4>2. Ticks(L[j].delta) = w(j + 1) /\ L[j].due = l[j + 1].due
        BY <1>9, <4>1
      <4>3. g[j] = f[j + 1] /\ g[j - 1] = f[j]
        BY <2>2, <4>1
      <4> QED
        BY <3>2, <4>2, <4>3
    <3> QED
      BY <1>1, <3>3, <3>4, <3>5
  <2> QED
    BY <1>7, <2>1, <2>3 DEF Schedule
<1> HIDE DEF g
<1>11. \A j \in 1 .. n - 1 : Ticks(L[j].delta) >= 0
  <2> SUFFICES ASSUME NEW j \in 1 .. n - 1 PROVE Ticks(L[j].delta) >= 0
    OBVIOUS
  <2> HIDE DEF w
  <2>1. j \in 1 .. n /\ j + 1 \in 1 .. n
    BY <1>1
  <2>2. w(j) \in Int /\ w(j) >= 0 /\ w(j + 1) \in Int /\ w(j + 1) >= 0
    BY <1>1, <2>1
  <2>3. CASE j < k
    BY <1>1, <1>8, <2>2, <2>3 DEF w
  <2>4. CASE j >= k
    BY <1>1, <1>9, <2>2, <2>4
  <2> QED
    BY <1>1, <2>3, <2>4
<1>12. \A i, j \in 1 .. n - 1 : L[i].id = L[j].id => i = j
  <2> SUFFICES ASSUME NEW i \in 1 .. n - 1, NEW j \in 1 .. n - 1, L[i].id = L[j].id
               PROVE  i = j
    OBVIOUS
  <2> DEFINE at(a) == IF a < k THEN a ELSE a + 1
  <2>1. \A a \in 1 .. n - 1 : at(a) \in 1 .. n /\ L[a].id = l[at(a)].id
    BY <1>1, <1>8, <1>9
  <2>2. at(i) = at(j)
    <3> HIDE DEF at
    <3>1. at(i) \in 1 .. n /\ at(j) \in 1 .. n /\ l[at(i)].id = l[at(j)].id
      BY <2>1
    <3> QED
      BY <1>1, <3>1, Zenon
  <2>3. i \in Int /\ j \in Int /\ k \in Int
    BY <1>1
  <2> QED
    BY <2>2, <2>3
<1>13. ListOk(L, t)
  BY <1>7, <1>10, <1>11, <1>12 DEF ListOk
<1>14. k = 1 /\ n > 1 => Ticks(L[1].delta) = w(2) + w(1)
  BY <1>1, <1>9
<1>15. /\ \A j \in 1 .. k - 1 : L[j] = l[j]
       /\ \A j \in k .. n - 1 : L[j].id = l[j + 1].id
  BY <1>8, <1>9
<1> QED
  BY <1>7, <1>13, <1>14, <1>15 DEF TakenOut, n, w


LEMMA FirstTicks ==
  ASSUME NEW l \in Seq(TimerNode), l # <<>>
  PROVE  1 \in 1 .. Len(l) /\ l[1] \in TimerNode /\ Ticks(l[1].delta) \in Int
BY NodeType

LEMMA CancelStep ==
  ASSUME ListInv, NEW id \in Ids, Cancel(id)
  PROVE  ListInv'
<1>1. /\ now \in Nat /\ now <= MaxTime /\ lasttime \in Nat /\ lasttime <= now
      /\ list \in Seq(TimerNode) /\ ListOk(list, lasttime) /\ stale \in Timevals
      /\ running \in BOOLEAN
  BY DEF ListInv, ListOk
<1>2. /\ \A i, j \in 1 .. Len(list) : list[i].id = list[j].id => i = j
      /\ \A k \in 1 .. Len(list) : Ticks(list[k].delta) >= 0
  BY DEF ListInv, ListOk
<1>3. PointsRight(timeout1, stale, list)
  BY DEF ListInv
<1>4. /\ UNCHANGED <<now, lasttime, running>> /\ resent' = <<>>
      /\ ~InList(id) => list' = list
      /\ timeout1 = id => timeout1' = Stale /\ stale' = TimeToWait
      /\ timeout1 # id => UNCHANGED <<timeout1, stale>>
  BY DEF Cancel
<1>5. /\ ListOk(list', lasttime) /\ PointsRight(timeout1', stale', list')
      /\ stale' \in Timevals
  <2>1. CASE ~InList(id)
    <3>1. \A k \in 1 .. Len(list) : list[k].id # id
      BY <2>1 DEF InList, PosOf
    <3>2. timeout1 # id
      <4>1. id \notin {None, Stale}
        BY TimeAssumption
      <4>2. list # <<>> => 1 \in 1 .. Len(list)
        BY <1>1, NodeType
      <4> QED
        BY <1>3, <3>1, <4>1, <4>2 DEF PointsRight
    <3> QED
      BY <1>1, <1>3, <1>4, <2>1, <3>2
  <2>2. CASE InList(id)
    <3>1. PICK k \in PosOf(id) : list' = RemoveAt(Longer(list, k), k)
      BY <2>2 DEF Cancel, Longer
    <3>2. k \in 1 .. Len(list) /\ list[k].id = id
      BY DEF PosOf
    <3>3. /\ ListOk(list', lasttime) /\ list' \in Seq(TimerNode)
          /\ Len(list') = Len(list) - 1
          /\ \A j \in 1 .. k - 1 : list'[j] = list[j]
          /\ k = 1 /\ Len(list) > 1 =>
               Ticks(list'[1].delta) = Ticks(list[2].delta) + Ticks(list[1].delta)
      <4> DEFINE L == list'
      <4>1. L = RemoveAt(Longer(list, k), k) /\ lasttime \in Int
        BY <1>1, <3>1
      <4> HIDE DEF L
      <4>2. /\ ListOk(L, lasttime)
            /\ TakenOut(list, k, L)
            /\ k = 1 /\ Len(list) > 1 =>
                 Ticks(L[1].delta) = Ticks(list[2].delta) + Ticks(list[1].delta)
        BY <1>1, <3>2, <4>1, Cancelled
      <4>3. L \in Seq(TimerNode)
        BY <4>2 DEF ListOk
      <4> QED
        BY <4>2, <4>3 DEF L, TakenOut
    <3> DEFINE n == Len(list)
               w(j) == Ticks(list[j].delta)
    <3>4. /\ n \in Nat /\ n >= 1 /\ 1 \in 1 .. n /\ list # <<>>
          /\ \A j \in 1 .. n : w(j) \in Int /\ w(j) >= 0
      <4>1. /\ n \in Nat /\ (list # <<>> <=> n >= 1)
            /\ \A j \in 1 .. n : w(j) \in Int
        BY <1>1, NodeType
      <4> HIDE DEF n
      <4>2. n >= 1
        BY <3>2, <4>1 DEF n
      <4> QED
        BY <1>2, <4>1, <4>2 DEF n
    <3>5. list' # <<>> =>
            /\ n > 1 /\ Ticks(list'[1].delta) >= w(1)
            /\ k # 1 => list'[1] = list[1]
      <4> SUFFICES ASSUME list' # <<>>
                   PROVE  /\ n > 1 /\ Ticks(list'[1].delta) >= w(1)
                          /\ k # 1 => list'[1] = list[1]
        OBVIOUS
      <4> DEFINE m == Len(list')
      <4>1. m >= 1 /\ m \in Nat /\ m = n - 1
        <5>1. m \in Nat /\ m >= 1
          BY <3>3, Zenon, NodeType
        <5> QED
          BY <3>3, <5>1
      <4> HIDE DEF m
      <4>2. n > 1
        BY <3>4, <4>1
      <4>3. 1 \in 1 .. n /\ 2 \in 1 .. n
        BY <3>4, <4>2
      <4> HIDE DEF n, w
      <4>4. w(1) \in Int /\ w(2) \in Int /\ w(1) >= 0 /\ w(2) >= 0
        BY <3>4, <4>3
      <4>5. CASE k = 1
        <5>1. Ticks(list'[1].delta) = w(2) + w(1)
          BY <3>3, <4>2, <4>5 DEF n, w
        <5> DEFINE x == Ticks(list'[1].delta)
        <5> HIDE DEF x
        <5>2. x = w(2) + w(1)
          BY <5>1 DEF x
        <5>3. x >= w(1)
          BY <4>4, <5>2
        <5> QED
          BY <4>2, <4>5, <5>3 DEF x
      <4>6. CASE k # 1
        <5>1. 1 \in 1 .. k - 1
          BY <3>2, <3>4, <4>6 DEF n
        <5>2. list'[1] = list[1]
          BY <3>3, <5>1
        <5>3. Ticks(list'[1].delta) = w(1)
          BY <5>2 DEF w
        <5> DEFINE x == Ticks(list'[1].delta)
        <5> HIDE DEF x
        <5>4. x = w(1)
          BY <5>3 DEF x
        <5>5. x >= w(1)
          BY <4>4, <5>4
        <5> QED
          BY <4>2, <5>2, <5>5 DEF x
      <4> QED
        BY <4>5, <4>6
    <3>6. CASE timeout1 = id
      <4>1. timeout1 # Stale /\ timeout1 # None
        BY <3>6, TimeAssumption
      <4>2. timeout1' = Stale /\ stale' = list[1].delta /\ list[1].delta \in Timevals
        BY <1>4, <3>6, <4>1, WaitsForHead
      <4>3. PointsRight(timeout1', stale', list')
        <5>1. Ticks(stale') = w(1)
          BY <4>2
        <5>2. w(1) >= 0
          BY <3>4
        <5>3. Ticks(stale') >= 0
          BY <5>1, <5>2, Zenon
        <5>4. list' # <<>> => Ticks(stale') <= Ticks(list'[1].delta)
          <6> SUFFICES ASSUME list' # <<>> PROVE Ticks(stale') <= Ticks(list'[1].delta)
            OBVIOUS
          <6> DEFINE x == Ticks(list'[1].delta)
                     z == w(1)
          <6>1. x >= z /\ z \in Int
            BY <3>4, <3>5
          <6>2. x \in Int
            BY FirstTicks, <3>3
          <6> HIDE DEF x, z
          <6>3. z <= x
            BY <6>1, <6>2
          <6> QED
            BY <5>1, <6>3, Zenon DEF x, z
        <5>5. Stale # None
          BY TimeAssumption
        <5> QED
          BY <4>2, <5>3, <5>4, <5>5, Zenon DEF PointsRight
      <4> QED
        BY <3>3, <4>2, <4>3
    <3>7. CASE timeout1 # id
      <4>1. timeout1' = timeout1 /\ stale' = stale
        BY <1>4, <3>7
      <4>2. timeout1 # None
        BY <1>3, <3>4 DEF PointsRight
      <4>3. CASE timeout1 = Stale
        <5>1. Ticks(stale) >= 0 /\ Ticks(stale) <= w(1)
          BY <1>3, <3>4, <4>3 DEF PointsRight
        <5>2. list' # <<>> => Ticks(stale) <= Ticks(list'[1].delta)
          <6> SUFFICES ASSUME list' # <<>> PROVE Ticks(stale) <= Ticks(list'[1].delta)
            OBVIOUS
          <6> DEFINE x == Ticks(list'[1].delta)
                     z == w(1)
                     y == Ticks(stale)
          <6>1. x >= z /\ z \in Int /\ y <= z /\ y \in Int
            BY <1>1, <3>4, <3>5, <5>1, TicksType
          <6>2. x \in Int
            BY FirstTicks, <3>3
          <6> HIDE DEF x, y, z
          <6>3. y <= x
            BY <6>1, <6>2
          <6> QED
            BY <6>3 DEF x, y
        <5>3. PointsRight(timeout1', stale', list')
          BY <4>1, <4>2, <4>3, <5>1, <5>2, Zenon DEF PointsRight
        <5> QED
          BY <1>1, <3>3, <4>1, <5>3
      <4>4. CASE timeout1 # Stale
        <5>1. timeout1 = list[1].id
          BY <1>3, <4>2, <4>4 DEF PointsRight
        <5>2. k # 1
          BY <3>2, <3>7, <5>1
        <5>3. 1 \in 1 .. k - 1 /\ n > 1
          BY <3>2, <3>4, <5>2
        <5>4. list'[1] = list[1]
          BY <3>3, <5>3
        <5>5. list' # <<>>
          <6>1. Len(list') = n - 1
            BY <3>3
          <6>2. n - 1 >= 1
            <7> HIDE DEF n
            <7> QED
              BY <3>4, <5>3
          <6>3. Len(list') >= 1
            BY <6>1, <6>2, Zenon
          <6> QED
            BY <3>3, <6>3, NodeType
        <5>6. PointsRight(timeout1', stale', list')
          BY <4>1, <4>2, <4>4, <5>1, <5>4, <5>5, Zenon DEF PointsRight
        <5> QED
          BY <1>1, <3>3, <4>1, <5>6
      <4> QED
        BY <4>3, <4>4
    <3> QED
      BY <3>6, <3>7
  <2> QED
    BY <2>1, <2>2
<1>6. resent' \in Seq(Ids)
  BY <1>4
<1>7. now' = now /\ lasttime' = lasttime /\ running' = running
  BY <1>4
<1> QED
  BY <1>1, <1>5, <1>6, <1>7, Zenon DEF ListInv


-----------------------------------------------------------------------------
(* Where a walk stops, what is left is not below 0, nor more than the next *)
(* node's time.                                                            *)
LEMMA LeftBetween ==
  ASSUME list \in Seq(TimerNode), NEW x \in Timevals, Ticks(x) >= 0,
         NEW m \in 0 .. Len(list), Passes(x, m)
  PROVE  /\ Left(x)[m] \in Timevals /\ Ticks(Left(x)[m]) \in Int
         /\ Ticks(Left(x)[m]) >= 0
         /\ m < Len(list) => Ticks(Left(x)[m]) <= Ticks(list[m + 1].delta)
<1> DEFINE n == Len(list)
           left == Left(x)
<1>1. /\ n \in Nat /\ m \in 0 .. n
      /\ \A k \in 1 .. n : list[k].delta \in Timevals
  BY NodeType
<1>2. /\ left \in [0 .. n -> Timevals] /\ left[0] = x
      /\ \A k \in 1 .. n : left[k] = Subtract(left[k - 1], list[k].delta)
  BY LeftRecursion
<1>3. /\ \A k \in 1 .. m : ~Negative(left[k - 1], list[k].delta)
      /\ m < n => Negative(left[m], list[m + 1].delta)
  BY DEF Passes
<1> HIDE DEF n, left
<1>4. left[m] \in Timevals /\ Ticks(left[m]) \in Int
  BY <1>1, <1>2, TicksType
<1>5. Ticks(left[m]) >= 0
  <2>1. CASE m = 0
    BY <1>2, <2>1
  <2>2. CASE m # 0
    <3> DEFINE y == left[m - 1]
               z == list[m].delta
    <3>1. m \in 1 .. m /\ m \in 1 .. n /\ m - 1 \in 0 .. n
      BY <1>1, <2>2
    <3>2. y \in Timevals /\ z \in Timevals /\ left[m] = Subtract(y, z) /\ ~Negative(y, z)
      BY <1>1, <1>2, <1>3, <3>1
    <3> HIDE DEF y, z
    <3>3. Ticks(left[m]) = Ticks(y) - Ticks(z) /\ Ticks(z) <= Ticks(y)
      BY <3>2, SubtractType
    <3>4. Ticks(y) \in Int /\ Ticks(z) \in Int
      BY <3>2, TicksType
    <3> QED
      BY <3>3, <3>4
  <2> QED
    BY <2>1, <2>2
<1>6. m < n => Ticks(left[m]) <= Ticks(list[m + 1].delta)
  <2> SUFFICES ASSUME m < n PROVE Ticks(left[m]) <= Ticks(list[m + 1].delta)
    OBVIOUS
  <2>1. m + 1 \in 1 .. n
    BY <1>1
  <2>2. list[m + 1].delta \in Timevals /\ Negative(left[m], list[m + 1].delta)
    BY <1>1, <1>3, <2>1
  <2> QED
    BY <1>4, <2>2, SubtractType
<1> QED
  BY <1>4, <1>5, <1>6 DEF n, left

(* The list after a walk has taken what was left of its time from the next *)
(* node.                                                                   *)
Shortened(x, m) ==
  [Compared(x, m) EXCEPT ![m + 1].delta = Subtract(@, Left(x)[m])]

LEMMA ShortenedType ==
  ASSUME list \in Seq(TimerNode), NEW x \in Timevals, NEW m \in 0 .. Len(list) - 1
  PROVE  /\ Shortened(x, m) \in Seq(TimerNode)
         /\ Len(Shortened(x, m)) = Len(list)
         /\ \A k \in 1 .. Len(list) :
              /\ Shortened(x, m)[k].id = list[k].id
              /\ Shortened(x, m)[k].due = list[k].due
              /\ k # m + 1 => Ticks(Shortened(x, m)[k].delta) = Ticks(list[k].delta)
         /\ Ticks(Shortened(x, m)[m + 1].delta) =
              Ticks(list[m + 1].delta) - Ticks(Left(x)[m])
<1> DEFINE n == Len(list)
           c == Compared(x, m)
           s == Shortened(x, m)
           rest == Left(x)[m]
           i == m + 1
<1>1. n \in Nat /\ i \in 1 .. n /\ m \in 0 .. n /\ i - 1 = m
  <2>1. n \in Nat
    BY NodeType
  <2> HIDE DEF n
  <2> QED
    BY <2>1 DEF n
<1>2. /\ c \in Seq(TimerNode) /\ Len(c) = n
      /\ \A k \in 1 .. n : LikeNode(c[k], list[k])
  BY <1>1, ComparedType
<1>3. rest \in Timevals
  BY <1>1, LeftRecursion
<1> DEFINE z == Subtract(c[i].delta, rest)
           p == [c[i] EXCEPT !.delta = z]
<1>4. s = [c EXCEPT ![i] = p]
  BY DEF Shortened
<1> HIDE DEF n, c, s, rest, i
<1>5. c[i] \in TimerNode /\ c[i].delta \in Timevals
  <2>1. i \in 1 .. Len(c)
    BY <1>1, <1>2
  <2> QED
    BY <1>2, <2>1, NodeType
<1>6. z \in Timevals /\ Ticks(z) = Ticks(c[i].delta) - Ticks(rest)
  BY <1>3, <1>5, SubtractType
<1> HIDE DEF z
<1>7. p \in TimerNode /\ p.id = c[i].id /\ p.due = c[i].due /\ p.delta = z
  BY <1>5, <1>6 DEF TimerNode
<1> HIDE DEF p
<1>8. /\ s \in Seq(TimerNode) /\ Len(s) = n /\ s[i] = p
      /\ \A k \in 1 .. n : k # i => s[k] = c[k]
  BY <1>1, <1>2, <1>4, <1>7
<1>9. \A k \in 1 .. n : /\ s[k].id = list[k].id /\ s[k].due = list[k].due
                        /\ k # i => Ticks(s[k].delta) = Ticks(list[k].delta)
  BY <1>1, <1>2, <1>7, <1>8 DEF LikeNode
<1>10. Ticks(s[i].delta) = Ticks(list[i].delta) - Ticks(rest)
  BY <1>1, <1>2, <1>6, <1>7, <1>8 DEF LikeNode
<1> QED
  BY <1>8, <1>9, <1>10 DEF n, s, rest, i


(* The update takes the expired nodes off, and counts from now: the others *)
(* expire when they did.                                                   *)
CutAt(t, u, m) ==
  /\ t \in Int /\ ListOk(list, t) /\ u \in Int /\ t <= u
  /\ m \in 0 .. Len(list) - 1 /\ Passes(Timeval(u - t), m)

CutOffAt(l, m, L) ==
  /\ Len(L) = Len(l) - m
  /\ \A j \in 1 .. Len(l) - m : L[j].id = l[j + m].id

LEMMA Cut ==
  ASSUME NEW t, NEW u, NEW m, CutAt(t, u, m)
  PROVE  LET L == SubSeq(Shortened(Timeval(u - t), m), m + 1, Len(list))
         IN  ListOk(L, u) /\ CutOffAt(list, m, L)
<1> DEFINE L == SubSeq(Shortened(Timeval(u - t), m), m + 1, Len(list))
<1> SUFFICES ListOk(L, u) /\ CutOffAt(list, m, L)
  OBVIOUS
<1> DEFINE n == Len(list)
           x == Timeval(u - t)
           s == Shortened(x, m)
           w(j) == Ticks(list[j].delta)
           a == n - m
           r == Ticks(Left(x)[m])
<1>a. t \in Int /\ u \in Int /\ t <= u /\ m \in 0 .. Len(list) - 1
  BY DEF CutAt
<1>b. ListOk(list, t)
  BY DEF CutAt
<1>c. Passes(Timeval(u - t), m)
  BY DEF CutAt
<1> USE <1>a
<1>1. /\ list \in Seq(TimerNode) /\ n \in Nat /\ m \in 0 .. n - 1
      /\ \A j \in 1 .. n : /\ w(j) \in Int /\ w(j) >= 0
                           /\ list[j].due \in Nat
  BY <1>b, NodeType DEF ListOk
<1>2. \A i, j \in 1 .. n : list[i].id = list[j].id => i = j
  BY <1>b DEF ListOk
<1>3. PICK f : Schedule(list, t, f) /\ \A j \in 1 .. n : f[j] <= list[j].due
  BY <1>b DEF ListOk
<1>4. /\ f \in [0 .. n -> Int] /\ f[0] = t
      /\ \A j \in 1 .. n : f[j] = f[j - 1] + w(j) /\ f[j] <= list[j].due
  BY <1>3 DEF Schedule
<1>5. x \in Timevals /\ Ticks(x) = u - t /\ u - t \in Int /\ u - t >= 0
  BY TimevalType
<1>6. m \in 0 .. n /\ m < n /\ a \in Nat /\ a >= 1 /\ a + m = n /\ m + 1 \in 1 .. n
  <2> HIDE DEF n
  <2> QED
    BY <1>1
<1>7. r = (u - t) - (f[m] - t) /\ r \in Int /\ r <= w(m + 1)
  <2>1. r = Ticks(x) - (f[m] - t)
    BY <1>1, <1>3, <1>5, <1>6, LeftTicks
  <2>2. r \in Int /\ r <= w(m + 1)
    BY <1>1, <1>5, <1>6, <1>c, LeftBetween
  <2> QED
    BY <1>5, <2>1, <2>2
<1>8. /\ s \in Seq(TimerNode) /\ Len(s) = n
      /\ \A k \in 1 .. n : /\ s[k].id = list[k].id /\ s[k].due = list[k].due
                           /\ k # m + 1 => Ticks(s[k].delta) = w(k)
      /\ Ticks(s[m + 1].delta) = w(m + 1) - r
  BY <1>1, <1>5, ShortenedType
<1>9. L = SubSeq(s, m + 1, Len(s))
  BY <1>8
<1> HIDE DEF L, n, x, s, w, a, r
<1>10. /\ L \in Seq(TimerNode) /\ Len(L) = a
       /\ \A j \in 1 .. a : L[j] = s[j + m]
  <2>1. m \in 0 .. Len(s) /\ a = Len(s) - m
    BY <1>6, <1>8 DEF a
  <2> QED
    <3>1. s \in Seq(TimerNode) /\ m \in 0 .. Len(s)
      BY <1>8, <2>1
    <3> DEFINE c == SubSeq(s, m + 1, Len(s))
    <3>2. /\ c \in Seq(TimerNode) /\ Len(c) = Len(s) - m
          /\ \A k \in 1 .. Len(s) - m : c[k] = s[k + m]
      BY <3>1, CutOff
    <3> HIDE DEF c
    <3> QED
      BY <1>9, <2>1, <3>2 DEF c
<1>11. \A j \in 1 .. a : /\ j + m \in 1 .. n /\ j + m \in 0 .. n /\ (j + m) - 1 \in 0 .. n
                         /\ (j # 1 => j + m # m + 1)
  BY <1>1, <1>6
<1>12. \A j \in 1 .. a : L[j].id = list[j + m].id /\ L[j].due = list[j + m].due
  BY <1>8, <1>10, <1>11
<1>13. \A j \in 1 .. a : Ticks(L[j].delta) = IF j = 1 THEN w(m + 1) - r ELSE w(j + m)
  <2> SUFFICES ASSUME NEW j \in 1 .. a
               PROVE  Ticks(L[j].delta) = IF j = 1 THEN w(m + 1) - r ELSE w(j + m)
    OBVIOUS
  <2>1. CASE j = 1
    <3>1. L[j] = s[m + 1]
      <4>1. j + m = m + 1
        BY <1>1, <2>1
      <4> QED
        BY <1>10, <4>1
    <3> QED
      BY <1>8, <2>1, <3>1
  <2>2. CASE j # 1
    BY <1>8, <1>10, <1>11, <2>2
  <2> QED
    BY <2>1, <2>2
<1> DEFINE g == [j \in 0 .. a |-> IF j = 0 THEN u ELSE f[j + m]]
<1>14. Schedule(L, u, g) /\ \A j \in 1 .. a : g[j] <= L[j].due
  <2>1. g \in [0 .. a -> Int] /\ g[0] = u
    <3>1. \A j \in 0 .. a : j # 0 => f[j + m] \in Int
      <4> SUFFICES ASSUME NEW j \in 0 .. a, j # 0 PROVE f[j + m] \in Int
        OBVIOUS
      <4>1. j + m \in 0 .. n
        BY <1>6, <1>11
      <4> QED
        BY <1>4, <4>1
    <3> QED
      <4>1. \A j \in 0 .. a : (IF j = 0 THEN u ELSE f[j + m]) \in Int
        BY <3>1
      <4>2. 0 \in 0 .. a
        BY <1>6
      <4> QED
        BY <4>1, <4>2
  <2>2. \A j \in 1 .. a : /\ g[j] = f[j + m]
                          /\ g[j - 1] = IF j = 1 THEN u ELSE f[(j + m) - 1]
    <3> SUFFICES ASSUME NEW j \in 1 .. a
                 PROVE  /\ g[j] = f[j + m]
                        /\ g[j - 1] = IF j = 1 THEN u ELSE f[(j + m) - 1]
      OBVIOUS
    <3>1. j \in 0 .. a /\ j - 1 \in 0 .. a /\ (j - 1) + m = (j + m) - 1 /\ j # 0
      BY <1>1, <1>6
    <3>2. j = 1 <=> j - 1 = 0
      OBVIOUS
    <3> QED
      BY <3>1, <3>2
  <2> HIDE DEF g
  <2>3. ASSUME NEW j \in 1 .. a
        PROVE  g[j] = g[j - 1] + Ticks(L[j].delta) /\ g[j] <= L[j].due
    <3> DEFINE i == j + m
    <3>1. i \in 1 .. n /\ i \in 0 .. n /\ i - 1 \in 0 .. n
      BY <1>11
    <3>2. /\ g[j] = f[i] /\ L[j].due = list[i].due
          /\ j = 1 => g[j - 1] = u /\ Ticks(L[j].delta) = w(i) - r /\ i - 1 = m
          /\ j # 1 => g[j - 1] = f[i - 1] /\ Ticks(L[j].delta) = w(i)
      <4>1. g[j] = f[i] /\ L[j].due = list[i].due
        BY <1>12, <2>2
      <4>2. ASSUME j = 1 PROVE g[j - 1] = u /\ Ticks(L[j].delta) = w(i) - r /\ i - 1 = m
        <5>1. i = m + 1
          BY <1>6, <4>2
        <5>2. g[j - 1] = u
          BY <2>2, <4>2
        <5>3. Ticks(L[j].delta) = w(m + 1) - r
          BY <1>13, <4>2
        <5> HIDE DEF i
        <5>4. i - 1 = m
          BY <1>6, <5>1
        <5> QED
          BY <5>1, <5>2, <5>3, <5>4
      <4>3. ASSUME j # 1 PROVE g[j - 1] = f[i - 1] /\ Ticks(L[j].delta) = w(i)
        BY <1>13, <2>2, <4>3
      <4> QED
        BY <4>1, <4>2, <4>3
    <3> HIDE DEF i
    <3>3. /\ f[i] = f[i - 1] + w(i) /\ f[i] <= list[i].due
          /\ f[i] \in Int /\ f[i - 1] \in Int /\ w(i) \in Int
      BY <1>1, <1>4, <3>1
    <3>4. g[j] <= L[j].due
      BY <3>2, <3>3
    <3>5. CASE j = 1
      <4>1. g[j - 1] = u /\ Ticks(L[j].delta) = w(i) - r /\ f[i - 1] = f[m]
        BY <3>2, <3>5
      <4>2. f[m] \in Int
        BY <3>3, <4>1
      <4>3. u + (w(i) - r) = f[i]
        <5>1. r = u - f[m]
          BY <1>7, <4>2
        <5> DEFINE y == f[m]
                   z == f[i]
                   v == w(i)
        <5>2. z = y + v /\ y \in Int /\ v \in Int /\ r = u - y
          BY <3>3, <4>1, <4>2, <5>1
        <5> HIDE DEF y, z, v
        <5>3. u + (v - r) = z
          BY <5>2
        <5> QED
          BY <5>3 DEF z, v
      <4> QED
        BY <3>2, <3>4, <4>1, <4>3
    <3>6. CASE j # 1
      BY <3>2, <3>3, <3>4, <3>6
    <3> QED
      BY <3>5, <3>6
  <2> QED
    BY <1>10, <2>1, <2>3 DEF Schedule
<1> HIDE DEF g
<1>15. \A j \in 1 .. a : Ticks(L[j].delta) >= 0
  <2> SUFFICES ASSUME NEW j \in 1 .. a PROVE Ticks(L[j].delta) >= 0
    OBVIOUS
  <2>1. CASE j = 1
    <3>1. w(m + 1) \in Int /\ w(m + 1) - r >= 0
      BY <1>1, <1>6, <1>7
    <3> QED
      BY <1>13, <2>1, <3>1
  <2>2. CASE j # 1
    BY <1>1, <1>11, <1>13, <2>2
  <2> QED
    BY <2>1, <2>2
<1>16. \A i, j \in 1 .. a : L[i].id = L[j].id => i = j
  <2> SUFFICES ASSUME NEW i \in 1 .. a, NEW j \in 1 .. a, L[i].id = L[j].id
               PROVE  i = j
    OBVIOUS
  <2>1. list[i + m].id = list[j + m].id /\ i + m \in 1 .. n /\ j + m \in 1 .. n
    BY <1>11, <1>12
  <2>2. i + m = j + m
    BY <1>2, <2>1, Zenon
  <2> QED
    BY <1>1, <2>2
<1> QED
  BY <1>10, <1>12, <1>14, <1>15, <1>16 DEF ListOk, CutOffAt, n, a


-----------------------------------------------------------------------------
(* A new timer of d ticks goes where the walk with d stops, and is due no  *)
(* earlier than the list says.  First at the end, then before a node.      *)
NewNode(t, u, d, m, e) ==
  /\ t \in Int /\ ListOk(list, t) /\ u \in Nat /\ t <= u
  /\ d \in Nat /\ m \in 0 .. Len(list) /\ Passes(Timeval(d), m)
  /\ e \in TimerNode /\ e.due = u + d
  /\ Ticks(e.delta) = Ticks(Left(Timeval(d))[m])
  /\ \A k \in 1 .. Len(list) : list[k].id # e.id

PutAfter(l, m, e, L) ==
  /\ Len(L) = Len(l) + 1
  /\ \A k \in 1 .. m : L[k].id = l[k].id
  /\ L[m + 1] = e
  /\ \A k \in m + 2 .. Len(l) + 1 : L[k].id = l[k - 1].id

LEMMA AddedLast ==
  ASSUME NEW t, NEW u, NEW d, NEW e, NewNode(t, u, d, Len(list), e)
  PROVE  LET L == Append(Compared(Timeval(d), Len(list)), e)
         IN  ListOk(L, t) /\ PutAfter(list, Len(list), e, L)
<1> DEFINE L == Append(Compared(Timeval(d), Len(list)), e)
<1>a. /\ t \in Int /\ u \in Nat /\ t <= u /\ d \in Nat
      /\ e \in TimerNode /\ e.due = u + d
  BY DEF NewNode
<1>b. ListOk(list, t)
  BY DEF NewNode
<1>c. /\ Len(list) \in 0 .. Len(list) /\ Passes(Timeval(d), Len(list))
      /\ Ticks(e.delta) = Ticks(Left(Timeval(d))[Len(list)])
  BY DEF NewNode
<1>d. \A k \in 1 .. Len(list) : list[k].id # e.id
  BY DEF NewNode
<1> USE <1>a
<1> SUFFICES ListOk(L, t) /\ PutAfter(list, Len(list), e, L)
  OBVIOUS
<1> DEFINE n == Len(list)
           x == Timeval(d)
           c == Compared(x, n)
           w(j) == Ticks(list[j].delta)
           r == Ticks(Left(x)[n])
           b == n + 1
<1>1. /\ list \in Seq(TimerNode) /\ n \in Nat
      /\ \A j \in 1 .. n : /\ w(j) \in Int /\ w(j) >= 0
                           /\ list[j].due \in Nat
  BY <1>b, NodeType DEF ListOk
<1>2. \A i, j \in 1 .. n : list[i].id = list[j].id => i = j
  BY <1>b DEF ListOk
<1>3. PICK f : Schedule(list, t, f) /\ \A j \in 1 .. n : f[j] <= list[j].due
  BY <1>b DEF ListOk
<1>4. /\ f \in [0 .. n -> Int] /\ f[0] = t
      /\ \A j \in 1 .. n : f[j] = f[j - 1] + w(j) /\ f[j] <= list[j].due
  BY <1>3 DEF Schedule
<1>5. x \in Timevals /\ Ticks(x) = d /\ Ticks(x) >= 0
  BY TimevalType
<1>6. n \in 0 .. n /\ b \in Nat /\ b \notin 1 .. n /\ b - 1 = n /\ b = n + 1
  <2> HIDE DEF n
  <2> QED
    BY <1>1
<1>7. r = d - (f[n] - t) /\ r \in Int /\ r >= 0
  <2>1. r = Ticks(x) - (f[n] - t)
    BY <1>1, <1>3, <1>5, <1>6, LeftTicks
  <2>2. r \in Int /\ r >= 0
    BY <1>1, <1>5, <1>6, <1>c, LeftBetween
  <2> QED
    BY <1>5, <2>1, <2>2
<1>8. /\ c \in Seq(TimerNode) /\ Len(c) = n
      /\ \A k \in 1 .. n : /\ c[k].id = list[k].id /\ c[k].due = list[k].due
                           /\ Ticks(c[k].delta) = w(k)
  BY <1>1, <1>5, <1>6, ComparedType DEF LikeNode
<1>9. L = Append(c, e) /\ Ticks(e.delta) = r
  BY <1>c
<1> HIDE DEF L, n, x, c, w, r, b
<1>10. /\ L \in Seq(TimerNode) /\ Len(L) = b /\ L[b] = e
       /\ \A k \in 1 .. n : L[k] = c[k]
  BY <1>6, <1>8, <1>9
<1>11. \A k \in 1 .. b : k # b => k \in 1 .. n
  BY <1>1, <1>6
<1>12. \A k \in 1 .. n : /\ L[k].id = list[k].id /\ L[k].due = list[k].due
                         /\ Ticks(L[k].delta) = w(k)
  BY <1>8, <1>10
<1> DEFINE g == [k \in 0 .. b |-> IF k = b THEN t + d ELSE f[k]]
<1>13. Schedule(L, t, g) /\ \A k \in 1 .. b : g[k] <= L[k].due
  <2>1. \A k \in 0 .. b : (k = b => g[k] = t + d) /\ (k # b => g[k] = f[k] /\ k \in 0 .. n)
    BY <1>1, <1>6
  <2>2. g \in [0 .. b -> Int]
    <3>1. \A k \in 0 .. b : (IF k = b THEN t + d ELSE f[k]) \in Int
      BY <1>4, <2>1
    <3> QED
      BY <3>1
  <2> HIDE DEF g
  <2>3. g[0] = t
    BY <1>1, <1>4, <1>6, <2>1
  <2>4. ASSUME NEW k \in 1 .. b
        PROVE  g[k] = g[k - 1] + Ticks(L[k].delta) /\ g[k] <= L[k].due
    <3>1. k \in 0 .. b /\ k - 1 \in 0 .. b /\ k - 1 # b /\ k - 1 \in 0 .. n
      BY <1>1, <1>6
    <3>2. CASE k = b
      <4>1. g[k] = t + d /\ g[k - 1] = f[n] /\ f[n] \in Int
        BY <1>4, <1>6, <2>1, <3>1, <3>2
      <4>2. Ticks(L[k].delta) = r /\ L[k].due = u + d
        BY <1>9, <1>10, <3>2
      <4>3. t + d = f[n] + r
        <5> DEFINE y == f[n]
        <5>1. y \in Int /\ r = d - (y - t)
          BY <1>7, <4>1
        <5> HIDE DEF y
        <5>2. t + d = y + r
          BY <5>1
        <5> QED
          BY <5>2 DEF y
      <4> QED
        BY <4>1, <4>2, <4>3
    <3>3. CASE k # b
      <4>1. /\ k \in 1 .. n /\ g[k] = f[k] /\ g[k - 1] = f[k - 1]
            /\ L[k].due = list[k].due /\ Ticks(L[k].delta) = w(k)
        BY <1>11, <1>12, <2>1, <3>1, <3>3
      <4> QED
        BY <1>4, <4>1
    <3> QED
      BY <3>2, <3>3
  <2> QED
    BY <1>10, <2>2, <2>3, <2>4 DEF Schedule
<1> HIDE DEF g
<1>14. \A k \in 1 .. b : Ticks(L[k].delta) >= 0
  <2> SUFFICES ASSUME NEW k \in 1 .. b PROVE Ticks(L[k].delta) >= 0
    OBVIOUS
  <2>1. CASE k = b
    BY <1>7, <1>9, <1>10, <2>1
  <2>2. CASE k # b
    BY <1>1, <1>11, <1>12, <2>2
  <2> QED
    BY <2>1, <2>2
<1>15. \A i, j \in 1 .. b : L[i].id = L[j].id => i = j
  <2> SUFFICES ASSUME NEW i \in 1 .. b, NEW j \in 1 .. b, L[i].id = L[j].id
               PROVE  i = j
    OBVIOUS
  <2>1. \A k \in 1 .. n : L[k].id # e.id
    BY <1>12, <1>d DEF n
  <2>2. CASE i = b \/ j = b
    BY <1>10, <1>11, <2>1, <2>2
  <2>3. CASE i # b /\ j # b
    <3>1. i \in 1 .. n /\ j \in 1 .. n /\ list[i].id = list[j].id
      BY <1>11, <1>12, <2>3
    <3> QED
      BY <1>2, <3>1, Zenon
  <2> QED
    BY <2>2, <2>3
<1>16. ListOk(L, t)
  BY <1>10, <1>13, <1>14, <1>15 DEF ListOk
<1>17. PutAfter(list, n, e, L)
  <2>1. \A k \in n + 2 .. b : FALSE
    BY <1>1, <1>6
  <2> QED
    BY <1>6, <1>10, <1>12, <2>1 DEF PutAfter, n, b
<1> QED
  BY <1>16, <1>17 DEF n

LEMMA AddedBefore ==
  ASSUME NEW t, NEW u, NEW d, NEW m, NEW e, NewNode(t, u, d, m, e), m # Len(list)
  PROVE  LET L == InsertAt(Shortened(Timeval(d), m), m + 1, e)
         IN  ListOk(L, t) /\ PutAfter(list, m, e, L)
<1> DEFINE L == InsertAt(Shortened(Timeval(d), m), m + 1, e)
<1>a. /\ t \in Int /\ u \in Nat /\ t <= u /\ d \in Nat
      /\ e \in TimerNode /\ e.due = u + d
  BY DEF NewNode
<1>b. ListOk(list, t)
  BY DEF NewNode
<1>c. /\ m \in 0 .. Len(list) /\ Passes(Timeval(d), m)
      /\ Ticks(e.delta) = Ticks(Left(Timeval(d))[m])
  BY DEF NewNode
<1>d. \A k \in 1 .. Len(list) : list[k].id # e.id
  BY DEF NewNode
<1> USE <1>a
<1> SUFFICES ListOk(L, t) /\ PutAfter(list, m, e, L)
  OBVIOUS
<1> DEFINE n == Len(list)
           x == Timeval(d)
           s == Shortened(x, m)
           w(j) == Ticks(list[j].delta)
           r == Ticks(Left(x)[m])
           b == n + 1
           a == m + 1
<1>1. /\ list \in Seq(TimerNode) /\ n \in Nat /\ m \in 0 .. n - 1
      /\ \A j \in 1 .. n : /\ w(j) \in Int /\ w(j) >= 0
                           /\ list[j].due \in Nat
  <2>1. /\ list \in Seq(TimerNode) /\ n \in Nat
        /\ \A j \in 1 .. n : /\ w(j) \in Int /\ w(j) >= 0
                             /\ list[j].due \in Nat
    BY <1>b, NodeType DEF ListOk
  <2>2. m \in 0 .. n /\ m # n
    BY <1>c
  <2> HIDE DEF n
  <2>3. m \in 0 .. n - 1
    BY <2>1, <2>2
  <2> QED
    BY <2>1, <2>3
<1>2. \A i, j \in 1 .. n : list[i].id = list[j].id => i = j
  BY <1>b DEF ListOk
<1>3. PICK f : Schedule(list, t, f) /\ \A j \in 1 .. n : f[j] <= list[j].due
  BY <1>b DEF ListOk
<1>4. /\ f \in [0 .. n -> Int] /\ f[0] = t
      /\ \A j \in 1 .. n : f[j] = f[j - 1] + w(j) /\ f[j] <= list[j].due
  BY <1>3 DEF Schedule
<1>5. x \in Timevals /\ Ticks(x) = d /\ Ticks(x) >= 0
  BY TimevalType
<1>6. /\ m \in 0 .. n /\ m < n /\ b \in Nat /\ b = n + 1 /\ m \in Nat
      /\ a \in 1 .. n /\ a \in 1 .. b /\ a - 1 = m /\ a = m + 1
  <2> HIDE DEF n
  <2> QED
    BY <1>1
<1>7. r = d - (f[m] - t) /\ r \in Int /\ r >= 0 /\ r <= w(a)
  <2>1. r = Ticks(x) - (f[m] - t)
    BY <1>1, <1>3, <1>5, <1>6, LeftTicks
  <2>2. r \in Int /\ r >= 0 /\ r <= w(a)
    BY <1>1, <1>5, <1>6, <1>c, LeftBetween
  <2> QED
    BY <1>5, <2>1, <2>2
<1>8. /\ s \in Seq(TimerNode) /\ Len(s) = n
      /\ \A k \in 1 .. n : /\ s[k].id = list[k].id /\ s[k].due = list[k].due
                           /\ k # a => Ticks(s[k].delta) = w(k)
      /\ Ticks(s[a].delta) = w(a) - r
  BY <1>1, <1>5, ShortenedType
<1>9. L = InsertAt(s, a, e) /\ Ticks(e.delta) = r
  BY <1>c
<1> HIDE DEF L, n, x, s, w, r, b, a
<1>10. /\ L \in Seq(TimerNode) /\ Len(L) = b /\ L[a] = e
       /\ \A k \in 1 .. a - 1 : L[k] = s[k]
       /\ \A k \in a + 1 .. b : L[k] = s[k - 1]
  <2>1. a \in 1 .. Len(s) + 1 /\ b = Len(s) + 1
    BY <1>6, <1>8
  <2> QED
    <3>1. /\ InsertAt(s, a, e) \in Seq(TimerNode)
          /\ Len(InsertAt(s, a, e)) = Len(s) + 1
          /\ \A k \in 1 .. a - 1 : InsertAt(s, a, e)[k] = s[k]
          /\ InsertAt(s, a, e)[a] = e
          /\ \A k \in a + 1 .. Len(s) + 1 : InsertAt(s, a, e)[k] = s[k - 1]
      <4>1. s \in Seq(TimerNode) /\ e \in TimerNode /\ a \in 1 .. Len(s) + 1
        BY <1>8, <2>1
      <4> QED
        BY <4>1, Inserted
    <3> QED
      BY <1>9, <2>1, <3>1
<1>11. \A k \in 1 .. a - 1 :
         /\ k \in 1 .. n /\ L[k].id = list[k].id /\ L[k].due = list[k].due
         /\ Ticks(L[k].delta) = w(k)
  <2> SUFFICES ASSUME NEW k \in 1 .. a - 1
               PROVE  /\ k \in 1 .. n /\ L[k].id = list[k].id /\ L[k].due = list[k].due
                      /\ Ticks(L[k].delta) = w(k)
    OBVIOUS
  <2>1. k \in 1 .. n /\ k # a
    BY <1>1, <1>6
  <2> QED
    BY <1>8, <1>10, <2>1
<1>12. \A k \in a + 1 .. b :
         /\ k - 1 \in 1 .. n /\ L[k].id = list[k - 1].id /\ L[k].due = list[k - 1].due
         /\ Ticks(L[k].delta) = IF k - 1 = a THEN w(a) - r ELSE w(k - 1)
  <2> SUFFICES ASSUME NEW k \in a + 1 .. b
               PROVE  /\ k - 1 \in 1 .. n /\ L[k].id = list[k - 1].id
                      /\ L[k].due = list[k - 1].due
                      /\ Ticks(L[k].delta) = IF k - 1 = a THEN w(a) - r ELSE w(k - 1)
    OBVIOUS
  <2> DEFINE j == k - 1
  <2>1. j \in 1 .. n
    BY <1>1, <1>6
  <2>2. L[k] = s[j]
    BY <1>10
  <2> HIDE DEF j
  <2>3. /\ L[k].id = list[j].id /\ L[k].due = list[j].due
        /\ (j = a => Ticks(L[k].delta) = w(a) - r)
        /\ (j # a => Ticks(L[k].delta) = w(j))
    BY <1>8, <2>1, <2>2
  <2> QED
    BY <2>1, <2>3 DEF j
<1>13. \A k \in 1 .. b : /\ (k \in 1 .. a - 1 \/ k = a \/ k \in a + 1 .. b)
                         /\ k \in 0 .. b /\ k - 1 \in 0 .. b
  BY <1>6
<1> DEFINE g == [k \in 0 .. b |-> IF k < a THEN f[k]
                                  ELSE IF k = a THEN t + d ELSE f[k - 1]]
<1>14. Schedule(L, t, g) /\ \A k \in 1 .. b : g[k] <= L[k].due
  <2>1. \A k \in 0 .. b :
          /\ (k < a => g[k] = f[k] /\ k \in 0 .. n)
          /\ (k = a => g[k] = t + d)
          /\ (k > a => g[k] = f[k - 1] /\ k - 1 \in 0 .. n)
    <3> SUFFICES ASSUME NEW k \in 0 .. b
                 PROVE  /\ (k < a => g[k] = f[k] /\ k \in 0 .. n)
                        /\ (k = a => g[k] = t + d)
                        /\ (k > a => g[k] = f[k - 1] /\ k - 1 \in 0 .. n)
      OBVIOUS
    <3>1. /\ (k < a => k \in 0 .. n) /\ (k > a => k - 1 \in 0 .. n)
          /\ (k = a => ~(k < a)) /\ (k > a => ~(k < a) /\ k # a)
      BY <1>1, <1>6
    <3>2. g[k] = IF k < a THEN f[k] ELSE IF k = a THEN t + d ELSE f[k - 1]
      OBVIOUS
    <3> HIDE DEF g
    <3> QED
      BY <3>1, <3>2
  <2>2. g \in [0 .. b -> Int]
    <3>1. \A k \in 0 .. b : (IF k < a THEN f[k]
                             ELSE IF k = a THEN t + d ELSE f[k - 1]) \in Int
      <4> SUFFICES ASSUME NEW k \in 0 .. b
                   PROVE  (IF k < a THEN f[k]
                           ELSE IF k = a THEN t + d ELSE f[k - 1]) \in Int
        OBVIOUS
      <4>1. (k < a => k \in 0 .. n) /\ (k > a => k - 1 \in 0 .. n) /\ a \in Int
        BY <1>6, <2>1
      <4>2. CASE k < a
        BY <1>4, <4>1, <4>2
      <4>3. CASE k = a
        BY <4>1, <4>3
      <4>4. CASE k > a
        BY <1>4, <4>1, <4>4
      <4> QED
        BY <4>1, <4>2, <4>3, <4>4
    <3> QED
      BY <3>1
  <2> HIDE DEF g
  <2>3. g[0] = t
    BY <1>4, <1>6, <2>1
  <2>4. ASSUME NEW k \in 1 .. b
        PROVE  g[k] = g[k - 1] + Ticks(L[k].delta) /\ g[k] <= L[k].due
    <3>1. CASE k \in 1 .. a - 1
      <4>1. k < a /\ k - 1 < a
        BY <1>6, <3>1
      <4>2. g[k] = f[k] /\ g[k - 1] = f[k - 1]
        BY <1>13, <2>1, <4>1
      <4>3. /\ k \in 1 .. n /\ L[k].due = list[k].due /\ Ticks(L[k].delta) = w(k)
        BY <1>11, <3>1
      <4> QED
        BY <1>4, <4>2, <4>3
    <3>2. CASE k = a
      <4>1. g[k] = t + d /\ g[k - 1] = f[m] /\ f[m] \in Int
        <5>1. k - 1 < a /\ k - 1 = m
          BY <1>6, <3>2
        <5> QED
          BY <1>4, <1>6, <1>13, <2>1, <3>2, <5>1
      <4>2. Ticks(L[k].delta) = r /\ L[k].due = u + d
        BY <1>9, <1>10, <3>2
      <4>3. t + d = f[m] + r
        <5> DEFINE y == f[m]
        <5>1. y \in Int /\ r = d - (y - t)
          BY <1>7, <4>1
        <5> HIDE DEF y
        <5>2. t + d = y + r
          BY <5>1
        <5> QED
          BY <5>2 DEF y
      <4> QED
        BY <4>1, <4>2, <4>3
    <3>3. CASE k \in a + 1 .. b
      <4> DEFINE j == k - 1
      <4>1. j \in 1 .. n /\ j \in 0 .. n /\ j - 1 \in 0 .. n
        <5>1. j \in 1 .. n
          BY <1>12, <3>3
        <5> HIDE DEF j
        <5> QED
          BY <1>1, <5>1
      <4>2. /\ L[k].due = list[j].due
            /\ (j = a => Ticks(L[k].delta) = w(a) - r)
            /\ (j # a => Ticks(L[k].delta) = w(j))
        <5>1. /\ L[k].due = list[j].due
              /\ Ticks(L[k].delta) = IF j = a THEN w(a) - r ELSE w(j)
          BY <1>12, <3>3
        <5> HIDE DEF j
        <5> QED
          BY <5>1
      <4>3. k > a /\ (j = a \/ j > a) /\ a \in Int
        BY <1>6, <3>3
      <4>4. g[k] = f[j]
        BY <1>13, <2>1, <4>3
      <4>5. (j = a => g[j] = t + d) /\ (j > a => g[j] = f[j - 1])
        BY <1>13, <2>1
      <4>6. /\ f[j] = f[j - 1] + w(j) /\ f[j] <= list[j].due /\ w(j) \in Int
            /\ f[j - 1] \in Int /\ f[j] \in Int
        BY <1>1, <1>4, <4>1
      <4>7. j = a => j - 1 = m
        BY <1>6
      <4> HIDE DEF j
      <4>8. CASE j = a
        <5> DEFINE y == f[m]
                   z == w(a)
        <5>1. g[j] = t + d /\ Ticks(L[k].delta) = z - r /\ f[j] = y + z
          BY <4>2, <4>5, <4>6, <4>7, <4>8
        <5>2. y \in Int /\ z \in Int /\ r = d - (y - t) /\ r \in Int
          BY <1>7, <4>6, <4>7, <4>8
        <5> HIDE DEF y, z
        <5>3. y + z = (t + d) + (z - r)
          BY <5>2
        <5>4. g[k] = g[j] + Ticks(L[k].delta)
          BY <4>4, <5>1, <5>3, Zenon
        <5> QED
          BY <4>2, <4>4, <4>6, <5>4 DEF j
      <4>9. CASE j > a
        <5>1. j # a
          BY <4>3, <4>9
        <5>2. g[k] = g[j] + Ticks(L[k].delta)
          BY <4>2, <4>4, <4>5, <4>6, <4>9, <5>1
        <5> QED
          BY <4>2, <4>4, <4>6, <5>2 DEF j
      <4> QED
        BY <4>3, <4>8, <4>9
    <3> QED
      BY <1>13, <3>1, <3>2, <3>3
  <2> QED
    BY <1>10, <2>2, <2>3, <2>4 DEF Schedule
<1> HIDE DEF g
<1>15. \A k \in 1 .. b : Ticks(L[k].delta) >= 0
  <2> SUFFICES ASSUME NEW k \in 1 .. b PROVE Ticks(L[k].delta) >= 0
    OBVIOUS
  <2>1. CASE k \in 1 .. a - 1
    BY <1>1, <1>11, <2>1
  <2>2. CASE k = a
    BY <1>7, <1>9, <1>10, <2>2
  <2>3. CASE k \in a + 1 .. b
    <3> DEFINE j == k - 1
    <3>1. /\ j \in 1 .. n
          /\ (j = a => Ticks(L[k].delta) = w(a) - r)
          /\ (j # a => Ticks(L[k].delta) = w(j))
      BY <1>12, <2>3
    <3>2. w(a) \in Int /\ w(a) - r >= 0
      BY <1>1, <1>6, <1>7
    <3> HIDE DEF j
    <3> QED
      BY <1>1, <3>1, <3>2
  <2> QED
    BY <1>13, <2>1, <2>2, <2>3
<1>16. \A i, j \in 1 .. b : L[i].id = L[j].id => i = j
  <2> SUFFICES ASSUME NEW i \in 1 .. b, NEW j \in 1 .. b, L[i].id = L[j].id
               PROVE  i = j
    OBVIOUS
  <2> DEFINE at(k) == IF k < a THEN k ELSE k - 1
  <2>1. \A k \in 1 .. b : k # a => at(k) \in 1 .. n /\ L[k].id = list[at(k)].id
    <3> SUFFICES ASSUME NEW k \in 1 .. b, k # a
                 PROVE  at(k) \in 1 .. n /\ L[k].id = list[at(k)].id
      OBVIOUS
    <3>1. CASE k \in 1 .. a - 1
      <4>1. at(k) = k
        BY <1>6, <3>1
      <4> HIDE DEF at
      <4> QED
        BY <1>11, <3>1, <4>1
    <3>2. CASE k \in a + 1 .. b
      <4>1. at(k) = k - 1
        BY <1>6, <3>2
      <4> HIDE DEF at
      <4> QED
        BY <1>12, <3>2, <4>1
    <3> QED
      BY <1>13, <3>1, <3>2
  <2>2. L[a].id = e.id /\ \A k \in 1 .. n : list[k].id # e.id
    BY <1>10, <1>d DEF n
  <2>3. CASE i = a \/ j = a
    <3> HIDE DEF at
    <3> QED
      BY <2>1, <2>2, <2>3
  <2>4. CASE i # a /\ j # a
    <3> DEFINE p == at(i)
               q == at(j)
    <3>1. p \in 1 .. n /\ q \in 1 .. n /\ list[p].id = list[q].id
      <4> HIDE DEF at
      <4> QED
        BY <2>1, <2>4
    <3>2. p = q
      <4> HIDE DEF p, q
      <4> QED
        BY <1>2, <3>1, Zenon
    <3> QED
      BY <1>6, <2>4, <3>2
  <2> QED
    BY <2>3, <2>4
<1>17. ListOk(L, t)
  BY <1>10, <1>14, <1>15, <1>16 DEF ListOk
<1>18. /\ \A k \in 1 .. m : L[k].id = list[k].id
       /\ \A k \in m + 2 .. b : L[k].id = list[k - 1].id
  <2>1. a - 1 = m /\ a + 1 = m + 2
    BY <1>6
  <2> QED
    BY <1>11, <1>12, <2>1
<1> QED
  BY <1>10, <1>17, <1>18 DEF PutAfter, n, b, a


Armed(l) == {l[k].id : k \in 1 .. Len(l)}

LEMMA ArmedAfterInsert ==
  ASSUME NEW l, NEW L, Len(l) \in Nat, NEW m \in 0 .. Len(l), NEW e,
         PutAfter(l, m, e, L)
  PROVE  Armed(L) = Armed(l) \cup {e.id}
<1> DEFINE id == e.id
<1>0. /\ Len(L) = Len(l) + 1
      /\ \A k \in 1 .. m : L[k].id = l[k].id
      /\ L[m + 1].id = id
      /\ \A k \in m + 2 .. Len(l) + 1 : L[k].id = l[k - 1].id
  BY DEF PutAfter
<1> HIDE DEF id
<1> DEFINE n == Len(l)
<1>1. ASSUME NEW k \in 1 .. n PROVE \E j \in 1 .. n + 1 : L[j].id = l[k].id
  <2>1. CASE k <= m
    <3>1. k \in 1 .. m /\ k \in 1 .. n + 1
      BY <2>1
    <3> QED
      BY <1>0, <3>1
  <2>2. CASE k > m
    <3>1. k + 1 \in m + 2 .. n + 1 /\ k + 1 \in 1 .. n + 1 /\ (k + 1) - 1 = k
      BY <2>2
    <3> QED
      BY <1>0, <3>1
  <2> QED
    BY <2>1, <2>2
<1>2. ASSUME NEW k \in 1 .. n + 1
      PROVE  L[k].id = id \/ \E j \in 1 .. n : L[k].id = l[j].id
  <2>1. CASE k <= m
    <3>1. k \in 1 .. m /\ k \in 1 .. n
      BY <2>1
    <3> QED
      BY <1>0, <3>1
  <2>2. CASE k = m + 1
    BY <1>0, <2>2
  <2>3. CASE k > m + 1
    <3>1. k \in m + 2 .. n + 1 /\ k - 1 \in 1 .. n
      BY <2>3
    <3> QED
      BY <1>0, <3>1
  <2> QED
    BY <2>1, <2>2, <2>3
<1>3. m + 1 \in 1 .. n + 1
  OBVIOUS
<1> QED
  <2>1. /\ Armed(L) = {L[k].id : k \in 1 .. n + 1}
        /\ Armed(l) = {l[k].id : k \in 1 .. n}
    BY <1>0 DEF Armed
  <2> HIDE DEF n
  <2>2. ASSUME NEW a \in Armed(L) PROVE a \in Armed(l) \cup {id}
    <3>1. PICK k \in 1 .. n + 1 : a = L[k].id
      BY <2>1, <2>2
    <3> QED
      BY <1>2, <2>1, <3>1
  <2>3. ASSUME NEW a \in Armed(l) PROVE a \in Armed(L)
    <3>1. PICK k \in 1 .. n : a = l[k].id
      BY <2>1, <2>3
    <3>2. PICK j \in 1 .. n + 1 : L[j].id = l[k].id
      BY <1>1
    <3> QED
      BY <2>1, <3>1, <3>2
  <2>4. id \in Armed(L)
    BY <1>0, <1>3, <2>1
  <2> QED
    BY <2>2, <2>3, <2>4 DEF id

LEMMA InsertType ==
  ASSUME ListInv, NEW id \in Ids, ~InList(id), NEW d \in Intervals, Insert(id, d)
  PROVE  /\ lasttime' \in Nat /\ lasttime' <= now
         /\ ListOk(list', lasttime') /\ list' # <<>>
         /\ Armed(list') = Armed(list) \cup {id}
<1> DEFINE t == IF list = <<>> THEN now ELSE lasttime
           x == Timeval(d)
           n == Len(list)
<1>1. /\ now \in Nat /\ lasttime \in Nat /\ lasttime <= now
      /\ list \in Seq(TimerNode) /\ ListOk(list, lasttime) /\ d \in Nat
      /\ n \in Nat
  BY TimeAssumption DEF ListInv, ListOk
<1>2. \A k \in 1 .. n : list[k].id # id
  BY DEF InList, PosOf
<1>3. t \in Nat /\ t <= now /\ ListOk(list, t)
  <2>1. CASE list = <<>>
    <3>1. ListOk(<<>>, now)
      BY <1>1, EmptyOk
    <3> QED
      BY <1>1, <2>1, <3>1
  <2>2. CASE list # <<>>
    BY <1>1, <2>2
  <2> QED
    BY <2>1, <2>2
<1>4. x \in Timevals /\ Ticks(x) = d
  BY <1>1, TimevalType
<1>5. PICK m \in 0 .. n :
        /\ Passes(x, m)
        /\ m = n => list' = Append(Compared(x, m), [id |-> id, delta |-> Left(x)[m],
                                                    due |-> now + d])
        /\ m # n => list' = InsertAt(Shortened(x, m), m + 1,
                              [id |-> id,
                               delta |-> Carried(Compared(x, m)[m + 1].delta, Left(x)[m]),
                               due |-> now + d])
  BY DEF Insert, Shortened
<1>6. lasttime' = t
  BY DEF Insert
<1>7. Left(x)[m] \in Timevals
  BY <1>1, <1>4, LeftRecursion
<1> HIDE DEF t, x
<1>8. CASE m = n
  <2> DEFINE e == [id |-> id, delta |-> Left(x)[m], due |-> now + d]
             L == list'
  <2>1. e \in TimerNode /\ e.id = id /\ e.due = now + d /\ e.delta = Left(x)[m]
    BY <1>1, <1>7 DEF TimerNode
  <2>2. L = Append(Compared(x, n), e)
    BY <1>5, <1>8
  <2> HIDE DEF e, L
  <2>3. ListOk(L, t) /\ PutAfter(list, n, e, L)
    <3>1. Ticks(e.delta) = Ticks(Left(x)[n]) /\ Passes(x, n)
      BY <1>5, <1>8, <2>1
    <3>2. n \in 0 .. n /\ \A k \in 1 .. n : list[k].id # e.id
      BY <1>1, <1>2, <2>1
    <3>3. NewNode(t, now, d, Len(list), e)
      BY <1>1, <1>3, <2>1, <3>1, <3>2 DEF NewNode, x
    <3> QED
      BY <2>2, <3>3, AddedLast DEF x
  <2>4. Armed(L) = Armed(list) \cup {id}
    <3>1. n \in 0 .. n
      BY <1>1
    <3> HIDE DEF n
    <3> QED
      BY <1>1, <2>1, <2>3, <3>1, ArmedAfterInsert DEF n
  <2>5. L # <<>>
    <3>1. L \in Seq(TimerNode) /\ Len(L) >= 1
      BY <1>1, <2>3 DEF ListOk, PutAfter
    <3> QED
      BY <3>1, NodeType
  <2> QED
    BY <1>3, <1>6, <2>3, <2>4, <2>5 DEF L
<1>9. CASE m # n
  <2> DEFINE next == Compared(x, m)[m + 1].delta
             e == [id |-> id, delta |-> Carried(next, Left(x)[m]), due |-> now + d]
             L == list'
  <2>1. m \in 0 .. n - 1 /\ m + 1 \in 1 .. n
    BY <1>1, <1>9
  <2>2. next \in Timevals
    <3> DEFINE c == Compared(x, m)
    <3>1. c \in Seq(TimerNode) /\ Len(c) = n
      BY <1>1, <1>4, ComparedType
    <3> HIDE DEF c
    <3>2. c[m + 1].delta \in Timevals
      BY <2>1, <3>1, NodeType
    <3> QED
      BY <3>2 DEF c
  <2> HIDE DEF next
  <2>3. /\ Carried(next, Left(x)[m]) \in Timevals
        /\ Ticks(Carried(next, Left(x)[m])) = Ticks(Left(x)[m])
    BY <1>7, <2>2, CarriedType
  <2>4. /\ e \in TimerNode /\ e.id = id /\ e.due = now + d
        /\ Ticks(e.delta) = Ticks(Left(x)[m])
    BY <1>1, <2>3 DEF TimerNode
  <2>5. L = InsertAt(Shortened(x, m), m + 1, e)
    BY <1>5, <1>9 DEF next
  <2> HIDE DEF e, L
  <2>6. ListOk(L, t) /\ PutAfter(list, m, e, L)
    <3>1. m \in 0 .. n /\ \A k \in 1 .. n : list[k].id # e.id
      BY <1>2, <2>4
    <3>2. NewNode(t, now, d, m, e)
      BY <1>1, <1>3, <1>5, <2>4, <3>1 DEF NewNode, x
    <3> QED
      BY <1>9, <2>5, <3>2, AddedBefore DEF x
  <2>7. Armed(L) = Armed(list) \cup {id}
    BY <1>1, <2>4, <2>6, ArmedAfterInsert
  <2>8. L # <<>>
    <3>1. L \in Seq(TimerNode) /\ Len(L) >= 1
      BY <1>1, <2>6 DEF ListOk, PutAfter
    <3> QED
      BY <3>1, NodeType
  <2> QED
    BY <1>3, <1>6, <2>6, <2>7, <2>8 DEF L
<1> QED
  BY <1>8, <1>9

LEMMA StartStep ==
  ASSUME ListInv, NEW id \in Ids, NEW d \in Intervals, Start(id, d)
  PROVE  ListInv'
<1>1. /\ now \in Nat /\ now <= MaxTime /\ lasttime \in Nat /\ lasttime <= now
      /\ list \in Seq(TimerNode) /\ ListOk(list, lasttime) /\ running \in BOOLEAN
  BY DEF ListInv, ListOk
<1>2. /\ timeout1' = Head(list').id /\ stale' = Timeval(0) /\ resent' = <<>>
      /\ UNCHANGED <<now, running>>
  BY DEF Start
<1>3. /\ lasttime' \in Nat /\ lasttime' <= now
      /\ ListOk(list', lasttime') /\ list' # <<>>
  <2>1. CASE InList(id)
    <3>1. list' = list /\ lasttime' = lasttime
      BY <2>1 DEF Start
    <3>2. list # <<>>
      BY <2>1 DEF InList, PosOf
    <3> QED
      BY <1>1, <3>1, <3>2
  <2>2. CASE ~InList(id)
    BY <2>2, InsertType DEF Start
  <2> QED
    BY <2>1, <2>2
<1>4. PointsRight(timeout1', stale', list')
  <2> DEFINE L == list'
  <2>1. L \in Seq(TimerNode) /\ L # <<>> /\ timeout1' = Head(L).id
    BY <1>2, <1>3 DEF ListOk
  <2> HIDE DEF L
  <2>2. Head(L) = L[1] /\ 1 \in 1 .. Len(L)
    BY <2>1
  <2>3. timeout1' = L[1].id /\ L[1].id \in Ids
    BY <2>1, <2>2, NodeType
  <2>4. timeout1' # None /\ timeout1' # Stale
    BY <2>3, TimeAssumption
  <2> QED
    BY <2>1, <2>3, <2>4, Zenon DEF L, PointsRight
<1>5. stale' \in Timevals /\ resent' \in Seq(Ids)
  BY <1>2, TimevalType
<1>6. now' = now /\ running' = running
  BY <1>2
<1> QED
  BY <1>1, <1>3, <1>4, <1>5, <1>6, Zenon DEF ListInv


LEMMA UpdateStep == ListInv /\ Update => ListInv'
<1> SUFFICES ASSUME ListInv, Update PROVE ListInv'
  OBVIOUS
<1> DEFINE x == Timeval(now - lasttime)
           n == Len(list)
<1>1. /\ now \in Nat /\ now <= MaxTime /\ lasttime \in Nat /\ lasttime <= now
      /\ list \in Seq(TimerNode) /\ ListOk(list, lasttime) /\ stale \in Timevals
      /\ running \in BOOLEAN
  BY DEF ListInv, ListOk
<1>2. PointsRight(timeout1, stale, list)
  BY DEF ListInv
<1>3. timeout1 # None /\ Ticks(TimeToWait) = 0
  BY DEF Update, Expires
<1>4. lasttime' = now /\ UNCHANGED <<now, running>>
  BY DEF Update
<1>5. PICK m \in 0 .. n :
        /\ Passes(x, m)
        /\ resent' = [k \in 1 .. m |-> list[k].id]
        /\ m = n => list' = <<>> /\ timeout1' = None /\ stale' = Timeval(0)
        /\ m # n => /\ list' = SubSeq(Shortened(x, m), m + 1, n)
                    /\ \/ /\ timeout1' = Stale
                          /\ \E k \in 1 .. m : /\ list[k].id = timeout1
                                               /\ stale' = Compared(x, m)[k].delta
                       \/ /\ \A k \in 1 .. m : list[k].id # timeout1
                          /\ UNCHANGED <<timeout1, stale>>
  BY DEF Update, Shortened
<1>6. n \in Nat /\ m \in 0 .. n /\ \A k \in 1 .. n : list[k].id \in Ids
  BY <1>1, NodeType
<1>7. resent' \in Seq(Ids)
  <2> HIDE DEF n
  <2>1. \A k \in 1 .. m : list[k].id \in Ids
    BY <1>6
  <2>2. resent' \in [1 .. m -> Ids]
    BY <1>5, <2>1
  <2> QED
    BY <1>6, <2>2
<1>8. /\ ListOk(list', now) /\ PointsRight(timeout1', stale', list')
      /\ stale' \in Timevals
  <2>1. CASE m = n
    <3>1. list' = <<>> /\ timeout1' = None /\ stale' = Timeval(0)
      BY <1>5, <2>1
    <3>2. ListOk(<<>>, now) /\ Timeval(0) \in Timevals
      BY <1>1, EmptyOk, TimevalType
    <3>3. None # Stale
      BY TimeAssumption
    <3> QED
      BY <3>1, <3>2, <3>3 DEF PointsRight
  <2>2. CASE m # n
    <3> DEFINE L == list'
    <3>1. /\ ListOk(L, now) /\ CutOffAt(list, m, L) /\ Len(L) = n - m
          /\ \A j \in 1 .. n - m : L[j].id = list[j + m].id
      <4>1. m \in 0 .. Len(list) - 1 /\ lasttime \in Int /\ now \in Int
        BY <1>1, <1>6, <2>2
      <4>2. L = SubSeq(Shortened(Timeval(now - lasttime), m), m + 1, Len(list))
        BY <1>5, <2>2
      <4>3. Passes(Timeval(now - lasttime), m)
        BY <1>5
      <4> HIDE DEF L
      <4> QED
        <5>1. CutAt(lasttime, now, m)
          BY <1>1, <4>1, <4>3 DEF CutAt
        <5>2. ListOk(L, now) /\ CutOffAt(list, m, L)
          BY <4>2, <5>1, Cut
        <5> QED
          BY <5>2 DEF CutOffAt
    <3> HIDE DEF L
    <3>2. L \in Seq(TimerNode) /\ L # <<>> /\ Len(L) \in Nat /\ Len(L) >= 1
      <4>1. L \in Seq(TimerNode)
        BY <3>1 DEF ListOk
      <4>2. n - m >= 1
        BY <1>6, <2>2
      <4> QED
        BY <3>1, <4>1, <4>2, NodeType
    <3>3. Ticks(L[1].delta) \in Int /\ Ticks(L[1].delta) >= 0
      BY <3>1, <3>2, FirstTicks DEF ListOk
    <3>4. CASE timeout1 = Stale
      <4>1. timeout1' = Stale /\ stale' = stale
        <5>1. \A k \in 1 .. m : list[k].id # timeout1
          BY <1>6, <3>4, TimeAssumption
        <5> QED
          BY <1>5, <2>2, <3>4, <5>1
      <4>2. Ticks(stale) = 0
        BY <1>3, <3>4 DEF TimeToWait
      <4>3. Stale # None
        BY TimeAssumption
      <4>4. Ticks(stale) <= Ticks(L[1].delta) /\ Ticks(stale) >= 0
        BY <3>3, <4>2
      <4>5. PointsRight(Stale, stale, L)
        BY <4>3, <4>4 DEF PointsRight
      <4> QED
        BY <1>1, <3>1, <4>1, <4>5 DEF L
    <3>5. CASE timeout1 # Stale
      <4>1. timeout1 = list[1].id /\ list # <<>> /\ TimeToWait = list[1].delta
        BY <1>2, <1>3, <3>5, WaitsForHead DEF PointsRight
      <4>2. \A k \in 1 .. n : list[k].id = timeout1 <=> k = 1
        <5>1. \A i, j \in 1 .. Len(list) : list[i].id = list[j].id => i = j
          BY <1>1 DEF ListOk
        <5>2. 1 \in 1 .. n
          BY <1>1, <4>1, NodeType
        <5> QED
          BY <4>1, <5>1, <5>2
      <4>3. CASE m = 0
        <5>1. timeout1' = timeout1 /\ stale' = stale
          BY <1>5, <2>2, <4>3
        <5>2. L[1].id = list[1].id
          <6>1. 1 \in 1 .. n - m /\ 1 + m = 1
            BY <1>6, <2>2, <4>3
          <6> QED
            BY <3>1, <6>1
        <5>3. PointsRight(timeout1, stale, L)
          BY <1>3, <3>2, <3>5, <4>1, <5>2 DEF PointsRight
        <5> QED
          BY <1>1, <3>1, <5>1, <5>3 DEF L
      <4>4. CASE m # 0
        <5>1. 1 \in 1 .. m
          BY <1>6, <4>4
        <5>2. timeout1' = Stale /\ stale' = Compared(x, m)[1].delta
          <6>1. list[1].id = timeout1 /\ \A k \in 1 .. m : k \in 1 .. n
            BY <1>6, <4>1
          <6> HIDE DEF n, x
          <6> QED
            BY <1>5, <2>2, <4>2, <5>1, <6>1
        <5>3. /\ Compared(x, m)[1].delta \in Timevals
              /\ Ticks(Compared(x, m)[1].delta) = 0
          <6> DEFINE c == Compared(x, m)
          <6>1. x \in Timevals
            BY <1>1, TimevalType
          <6>2. 1 \in 1 .. n
            BY <1>6, <5>1
          <6>3. c \in Seq(TimerNode) /\ Len(c) = n /\ LikeNode(c[1], list[1])
            BY <1>1, <6>1, <6>2, ComparedType
          <6> HIDE DEF c, n
          <6>4. c[1].delta \in Timevals
            BY <6>2, <6>3, NodeType
          <6>5. Ticks(c[1].delta) = 0
            BY <1>3, <4>1, <6>3 DEF LikeNode
          <6> QED
            BY <6>4, <6>5 DEF c
        <5> DEFINE v == Compared(x, m)[1].delta
        <5> HIDE DEF v
        <5>4. Stale # None
          BY TimeAssumption
        <5>5. Ticks(v) >= 0 /\ Ticks(v) <= Ticks(L[1].delta)
          BY <3>3, <5>3 DEF v
        <5>6. PointsRight(Stale, v, L)
          BY <5>4, <5>5 DEF PointsRight
        <5> QED
          BY <3>1, <5>2, <5>3, <5>6 DEF L, v
      <4> QED
        BY <4>3, <4>4
    <3> QED
      BY <3>4, <3>5
  <2> QED
    BY <2>1, <2>2
<1>9. now' = now /\ running' = running
  BY <1>4
<1>10. now <= now
  BY <1>1
<1> QED
  BY <1>1, <1>4, <1>7, <1>8, <1>9, <1>10, Zenon DEF ListInv


LEMMA ListInvNext == ListInv /\ [Next]_vars => ListInv'
<1> SUFFICES ASSUME ListInv, [Next]_vars PROVE ListInv'
  OBVIOUS
<1>1. CASE Tick
  BY <1>1, TickStep
<1>2. CASE SelectFails
  <2>1. /\ now' = now /\ lasttime' = lasttime /\ list' = list
        /\ timeout1' = timeout1 /\ stale' = stale
        /\ running' = FALSE /\ resent' = <<>>
    BY <1>2 DEF SelectFails
  <2>2. FALSE \in BOOLEAN /\ <<>> \in Seq(Ids)
    OBVIOUS
  <2>3. /\ now \in Nat /\ now <= MaxTime /\ lasttime \in Nat /\ lasttime <= now
        /\ stale \in Timevals /\ ListOk(list, lasttime)
        /\ PointsRight(timeout1, stale, list)
    BY DEF ListInv
  <2> QED
    BY <2>1, <2>2, <2>3, Zenon DEF ListInv
<1>3. CASE Update
  BY <1>3, UpdateStep
<1>4. ASSUME NEW id \in Ids, Cancel(id) PROVE ListInv'
  BY <1>4, CancelStep
<1>5. ASSUME NEW id \in Ids, NEW d \in Intervals, Start(id, d) PROVE ListInv'
  BY <1>5, StartStep
<1>6. CASE UNCHANGED vars
  BY <1>6 DEF ListInv, vars
<1> QED
  BY <1>1, <1>2, <1>3, <1>4, <1>5, <1>6 DEF Next

LEMMA ListInvHolds == Spec => []ListInv
BY ListInvInit, ListInvNext, PTL DEF Spec

(* Whatever messages and ticks the timer process of client() in tcpd.c     *)
(* sees, its list keeps one node for each frame, and timeout1 is NULL only *)
(* when the list is empty and otherwise points to a node in it or to the   *)
(* one that was cancelled or expired under it.                             *)
THEOREM ListType == Spec => []TypeOK
<1>1. ListInv => TypeOK
  <2> SUFFICES ASSUME ListInv PROVE TypeOK
    OBVIOUS
  <2>1. /\ now \in 0 .. MaxTime /\ lasttime \in 0 .. now
        /\ stale \in [sec : Int, usec : Int] /\ running \in BOOLEAN /\ resent \in Seq(Ids)
    BY TimeAssumption DEF ListInv, Timevals
  <2>2. list \in Seq([id : Ids, delta : [sec : Int, usec : Int], due : Nat])
    BY DEF ListInv, ListOk, TimerNode, Timevals
  <2>3. \A i, j \in 1 .. Len(list) : list[i].id = list[j].id => i = j
    BY DEF ListInv, ListOk
  <2>4. list # <<>> => timeout1 # None
    BY DEF ListInv, PointsRight
  <2>5. timeout1 \in {None, Stale} \/ InList(timeout1)
    <3> SUFFICES ASSUME timeout1 \notin {None, Stale} PROVE InList(timeout1)
      OBVIOUS
    <3>1. list # <<>> /\ timeout1 = list[1].id /\ list \in Seq(TimerNode)
      BY DEF ListInv, ListOk, PointsRight
    <3>2. 1 \in 1 .. Len(list)
      BY <3>1, NodeType
    <3> QED
      BY <3>1, <3>2 DEF InList, PosOf
  <2> QED
    BY <2>1, <2>2, <2>3, <2>4, <2>5 DEF TypeOK
<1> QED
  BY <1>1, ListInvHolds, PTL

(* select() in tcpd.c's client() never waits longer than the head of the   *)
(* delta list says, also when timeout1 points to a node that was cancelled *)
(* or has expired.                                                         *)
THEOREM WakesInTime == Spec => []SleepsNoLonger
<1>1. ListInv => SleepsNoLonger
  <2> SUFFICES ASSUME ListInv, list # <<>>
               PROVE  Ticks(TimeToWait) <= Ticks(Head(list).delta)
    BY DEF SleepsNoLonger
  <2>1. timeout1 # None /\ list \in Seq(TimerNode)
    BY DEF ListInv, ListOk, PointsRight
  <2>2. Head(list) = list[1]
    BY <2>1
  <2> QED
    BY <2>1, <2>2, WaitsForHead
<1> QED
  BY <1>1, ListInvHolds, PTL

(* The carries of timeval_subtract, the insertions, cancels and updates of *)
(* the delta list add nothing to a timer: by the list it expires no later  *)
(* than it was started for.                                                *)
THEOREM ExpiresNoLater == Spec => []NoneTooLong
<1>1. ListInv => NoneTooLong
  <2> SUFFICES ASSUME ListInv, NEW k \in 1 .. Len(list)
               PROVE  lasttime + Waits(list)[k] <= list[k].due
    BY DEF NoneTooLong
  <2>1. lasttime \in Int /\ list \in Seq(TimerNode)
    BY DEF ListInv, ListOk
  <2>2. PICK f : /\ Schedule(list, lasttime, f)
                 /\ \A j \in 1 .. Len(list) : f[j] <= list[j].due
    BY DEF ListInv, ListOk
  <2>3. Len(list) \in Nat
    BY <2>1
  <2>4. k \in 0 .. Len(list)
    BY <2>3
  <2>5. lasttime + Waits(list)[k] = f[k]
    BY <2>1, <2>2, <2>4, WaitsOfSchedule
  <2> QED
    BY <2>2, <2>5, Zenon
<1> QED
  BY <1>1, ListInvHolds, PTL


-----------------------------------------------------------------------------
(* The frames with a timer after a cut and after a cancel. *)
LEMMA ArmedAfterCut ==
  ASSUME NEW l, NEW m, NEW L, Len(l) \in Nat, m \in 0 .. Len(l),
         \A i, j \in 1 .. Len(l) : l[i].id = l[j].id => i = j,
         CutOffAt(l, m, L)
  PROVE  Armed(L) = Armed(l) \ {l[k].id : k \in 1 .. m}
<1> DEFINE n == Len(l)
           F == {l[k].id : k \in 1 .. m}
<1>1. n \in Nat /\ m \in 0 .. n /\ \A i, j \in 1 .. n : l[i].id = l[j].id => i = j
  OBVIOUS
<1>2. Len(L) = n - m /\ \A j \in 1 .. n - m : L[j].id = l[j + m].id
  BY DEF CutOffAt
<1>3. Armed(L) = {L[k].id : k \in 1 .. n - m} /\ Armed(l) = {l[k].id : k \in 1 .. n}
  BY <1>2 DEF Armed
<1> HIDE DEF n
<1>4. ASSUME NEW a \in Armed(L) PROVE a \in Armed(l) \ F
  <2>1. PICK j \in 1 .. n - m : a = L[j].id
    BY <1>3, <1>4
  <2> DEFINE i == j + m
  <2>2. i \in 1 .. n /\ i > m
    BY <1>1
  <2>3. a = l[i].id
    BY <1>2, <2>1
  <2> HIDE DEF i
  <2>4. a \notin F
    <3> SUFFICES ASSUME NEW k \in 1 .. m, a = l[k].id PROVE FALSE
      OBVIOUS
    <3>1. k \in 1 .. n /\ k <= m
      BY <1>1
    <3>2. k = i
      BY <1>1, <2>2, <2>3, <3>1, Zenon
    <3> QED
      BY <1>1, <2>2, <3>1, <3>2
  <2> QED
    BY <1>3, <2>2, <2>3, <2>4
<1>5. ASSUME NEW a \in Armed(l) \ F PROVE a \in Armed(L)
  <2>1. PICK i \in 1 .. n : a = l[i].id
    BY <1>3, <1>5
  <2>2. ~ (i \in 1 .. m)
    BY <1>5, <2>1
  <2>3. i - m \in 1 .. n - m /\ (i - m) + m = i
    BY <1>1, <2>2
  <2>4. L[i - m].id = a
    BY <1>2, <2>1, <2>3
  <2> QED
    BY <1>3, <2>3, <2>4
<1> QED
  BY <1>4, <1>5

LEMMA ArmedAfterCancel ==
  ASSUME NEW l, NEW L, Len(l) \in Nat, NEW k \in 1 .. Len(l),
         \A i, j \in 1 .. Len(l) : l[i].id = l[j].id => i = j,
         TakenOut(l, k, L)
  PROVE  Armed(L) = Armed(l) \ {l[k].id}
<1> DEFINE n == Len(l)
<1>1. /\ n \in Nat /\ k \in 1 .. n
      /\ \A i, j \in 1 .. n : l[i].id = l[j].id => i = j
  OBVIOUS
<1>2. /\ Len(L) = n - 1
      /\ \A j \in 1 .. k - 1 : L[j].id = l[j].id
      /\ \A j \in k .. n - 1 : L[j].id = l[j + 1].id
  BY DEF TakenOut
<1>3. Armed(L) = {L[j].id : j \in 1 .. n - 1} /\ Armed(l) = {l[j].id : j \in 1 .. n}
  BY <1>2 DEF Armed
<1> HIDE DEF n
<1>4. ASSUME NEW a \in Armed(L) PROVE a \in Armed(l) \ {l[k].id}
  <2>1. PICK j \in 1 .. n - 1 : a = L[j].id
    BY <1>3, <1>4
  <2> DEFINE i == IF j < k THEN j ELSE j + 1
  <2>2. i \in 1 .. n /\ i # k /\ a = l[i].id
    <3>1. CASE j < k
      <4>1. i = j /\ j \in 1 .. k - 1
        BY <1>1, <3>1
      <4> QED
        BY <1>1, <1>2, <2>1, <3>1, <4>1
    <3>2. CASE ~(j < k)
      <4>1. i = j + 1 /\ j \in k .. n - 1
        BY <1>1, <3>2
      <4>2. a = l[j + 1].id
        BY <1>2, <2>1, <4>1
      <4>3. i \in 1 .. n /\ i # k
        BY <1>1, <3>2
      <4> QED
        BY <4>1, <4>2, <4>3, Zenon
    <3> QED
      BY <3>1, <3>2
  <2> HIDE DEF i
  <2>3. a # l[k].id
    BY <1>1, <2>2
  <2> QED
    BY <1>3, <2>2, <2>3
<1>5. ASSUME NEW a \in Armed(l) \ {l[k].id} PROVE a \in Armed(L)
  <2>1. PICK i \in 1 .. n : a = l[i].id
    BY <1>3, <1>5
  <2>2. i # k
    BY <1>5, <2>1
  <2>3. CASE i < k
    <3>1. i \in 1 .. k - 1 /\ i \in 1 .. n - 1
      BY <1>1, <2>3
    <3> QED
      BY <1>2, <1>3, <2>1, <3>1
  <2>4. CASE i > k
    <3> DEFINE j == i - 1
    <3>1. j \in k .. n - 1 /\ j \in 1 .. n - 1 /\ j + 1 = i
      BY <1>1, <2>4
    <3> HIDE DEF j
    <3>2. L[j].id = a
      BY <1>2, <2>1, <3>1
    <3> QED
      BY <1>3, <3>1, <3>2
  <2> QED
    BY <1>1, <2>2, <2>3, <2>4
<1> QED
  BY <1>4, <1>5


LEMMA ServiceStart ==
  ASSUME ListInv, NEW id \in Ids, NEW d \in Intervals, Start(id, d)
  PROVE  Service!Next
<1>1. Armed(list') = Armed(list) \cup {id} /\ resent' = <<>>
  <2>1. resent' = <<>>
    BY DEF Start
  <2>2. CASE InList(id)
    <3>1. list' = list
      BY <2>2 DEF Start
    <3>2. id \in Armed(list)
      BY <2>2 DEF InList, PosOf, Armed
    <3>3. Armed(list') = Armed(list)
      BY <3>1
    <3> QED
      BY <2>1, <3>2, <3>3
  <2>3. CASE ~InList(id)
    BY <2>1, <2>3, InsertType DEF Start
  <2> QED
    BY <2>2, <2>3
<1>2. Service!Start(id)
  BY <1>1 DEF Service!Start, Armed
<1> QED
  BY <1>2 DEF Service!Next

LEMMA ServiceCancel ==
  ASSUME ListInv, NEW id \in Ids, Cancel(id)
  PROVE  Service!Next
<1>1. /\ list \in Seq(TimerNode) /\ lasttime \in Int /\ ListOk(list, lasttime)
      /\ \A i, j \in 1 .. Len(list) : list[i].id = list[j].id => i = j
  BY DEF ListInv, ListOk
<1>2. Armed(list') = Armed(list) \ {id} /\ resent' = <<>>
  <2>1. resent' = <<>>
    BY DEF Cancel
  <2>2. CASE ~InList(id)
    <3>1. list' = list
      BY <2>2 DEF Cancel
    <3>2. id \notin Armed(list)
      BY <2>2 DEF InList, PosOf, Armed
    <3>3. Armed(list') = Armed(list)
      BY <3>1
    <3> QED
      BY <2>1, <3>2, <3>3
  <2>3. CASE InList(id)
    <3>1. PICK k \in PosOf(id) : list' = RemoveAt(Longer(list, k), k)
      BY <2>3 DEF Cancel, Longer
    <3>2. k \in 1 .. Len(list) /\ list[k].id = id /\ Len(list) \in Nat
      BY <1>1, NodeType DEF PosOf
    <3> DEFINE L == list'
    <3>3. L = RemoveAt(Longer(list, k), k)
      BY <3>1
    <3> HIDE DEF L
    <3>4. TakenOut(list, k, L)
      BY <1>1, <3>2, <3>3, Cancelled
    <3>5. Armed(L) = Armed(list) \ {list[k].id}
      BY <1>1, <3>2, <3>4, ArmedAfterCancel
    <3> QED
      BY <2>1, <3>2, <3>5 DEF L
  <2> QED
    BY <2>2, <2>3
<1>3. Service!Cancel(id)
  BY <1>2 DEF Service!Cancel, Armed
<1> QED
  BY <1>3 DEF Service!Next

(* A step that neither adds nor removes a timer, nor asks for a resend. *)
LEMMA ServiceRests ==
  ASSUME Armed(list') = Armed(list), resent' = <<>>
  PROVE  Service!Next
<1> DEFINE A == Armed(list)
           F == {}
           r == resent'
<1>1. F \in SUBSET A /\ A = A \ F
  OBVIOUS
<1>2. r = <<>>
  OBVIOUS
<1> HIDE DEF r
<1>3. r \in [1 .. Len(r) -> F] /\ \A id \in F : FALSE
  BY <1>2
<1>4. Service!Expire
  BY <1>1, <1>3 DEF Service!Expire, Armed, r
<1> QED
  BY <1>4 DEF Service!Next

LEMMA ServiceUpdate ==
  ASSUME ListInv, Update
  PROVE  Service!Next
<1> DEFINE n == Len(list)
           x == Timeval(now - lasttime)
<1>1. /\ list \in Seq(TimerNode) /\ ListOk(list, lasttime) /\ n \in Nat
      /\ now \in Int /\ lasttime \in Int /\ lasttime <= now
  BY NodeType DEF ListInv, ListOk
<1>2. \A i, j \in 1 .. n : list[i].id = list[j].id => i = j
  BY DEF ListInv, ListOk
<1>3. PICK m \in 0 .. n :
        /\ Passes(x, m)
        /\ resent' = [k \in 1 .. m |-> list[k].id]
        /\ m = n => list' = <<>>
        /\ m # n => list' = SubSeq(Shortened(x, m), m + 1, n)
  BY DEF Update, Shortened
<1> DEFINE F == {list[k].id : k \in 1 .. m}
           r == resent'
           L == list'
<1>4. F \in SUBSET Armed(list)
  <2>1. \A k \in 1 .. m : k \in 1 .. Len(list)
    BY <1>1
  <2> QED
    BY <2>1 DEF Armed
<1>5. Armed(L) = Armed(list) \ F
  <2>1. CutOffAt(list, m, L)
    <3>1. CASE m = n
      <4>1. L = <<>> /\ n - m = 0
        BY <1>1, <1>3, <3>1
      <4> HIDE DEF L
      <4>2. Len(L) = 0
        BY <4>1
      <4> QED
        BY <4>1, <4>2 DEF CutOffAt
    <3>2. CASE m # n
      <4>1. m \in 0 .. n - 1
        <5> HIDE DEF n
        <5> QED
          BY <1>1, <3>2
      <4>2. CutAt(lasttime, now, m)
        BY <1>1, <1>3, <4>1 DEF CutAt
      <4>3. L = SubSeq(Shortened(Timeval(now - lasttime), m), m + 1, Len(list))
        BY <1>3, <3>2
      <4> HIDE DEF L
      <4> QED
        BY <4>2, <4>3, Cut
    <3> QED
      BY <3>1, <3>2
  <2> HIDE DEF L
  <2> QED
    BY <1>1, <1>2, <2>1, ArmedAfterCut
<1>6. r = [k \in 1 .. m |-> list[k].id] /\ m \in Nat
  BY <1>1, <1>3
<1> HIDE DEF r, L
<1>7. r \in Seq(F) /\ Len(r) = m
  <2> DEFINE id(k) == list[k].id
  <2>1. \A k \in 1 .. m : id(k) \in F
    OBVIOUS
  <2>2. r \in [1 .. m -> F]
    BY <1>6, <2>1
  <2> HIDE DEF F
  <2> QED
    BY <1>6, <2>2
<1>8. r \in [1 .. Len(r) -> F]
  BY <1>6, <1>7
<1>9. \A id \in F : \E i \in 1 .. Len(r) :
        r[i] = id /\ \A j \in 1 .. Len(r) : r[j] = id => j = i
  <2> SUFFICES ASSUME NEW i \in 1 .. m
               PROVE  \E k \in 1 .. m :
                        /\ r[k] = list[i].id
                        /\ \A j \in 1 .. m : r[j] = list[i].id => j = k
    BY <1>7
  <2>1. r[i] = list[i].id
    BY <1>6
  <2>2. \A j \in 1 .. m : r[j] = list[i].id => j = i
    <3> SUFFICES ASSUME NEW j \in 1 .. m, r[j] = list[i].id PROVE j = i
      OBVIOUS
    <3>1. list[j].id = list[i].id /\ i \in 1 .. n /\ j \in 1 .. n
      BY <1>1, <1>6
    <3> QED
      BY <1>2, <3>1, Zenon
  <2> QED
    BY <2>1, <2>2
<1> HIDE DEF F
<1>10. Service!Expire
  BY <1>4, <1>5, <1>8, <1>9 DEF Service!Expire, Armed, r, L
<1> QED
  BY <1>10 DEF Service!Next

(* client()'s timer process does what the driver counts on (TimerService): *)
(* one timer for each frame, one resend request for each that expires, in  *)
(* whatever order starts, cancels and expiries come.                       *)
THEOREM ServiceImplemented == Spec => ImplementsService
<1>1. Init => Service!Init
  <2> SUFFICES ASSUME Init PROVE Service!Init
    OBVIOUS
  <2>1. list = <<>> /\ resent = <<>> /\ Len(<<>>) = 0
    BY DEF Init
  <2>2. {list[k].id : k \in 1 .. Len(list)} = {}
    BY <2>1
  <2> QED
    BY <2>1, <2>2 DEF Service!Init
<1>2. ListInv /\ [Next]_vars
        => [Service!Next]_<<{list[k].id : k \in 1 .. Len(list)}, resent>>
  <2> SUFFICES ASSUME ListInv, [Next]_vars
               PROVE  \/ Service!Next
                      \/ UNCHANGED <<{list[k].id : k \in 1 .. Len(list)}, resent>>
    OBVIOUS
  <2>1. CASE Tick
    <3>1. resent' = <<>>
      BY <2>1 DEF Tick
    <3>2. list \in Seq(TimerNode)
      BY DEF ListInv, ListOk
    <3> DEFINE L == list'
    <3>3. L = [k \in 1 .. Len(list) |->
                 IF list[k].id = timeout1
                 THEN [list[k] EXCEPT !.delta = AfterTick] ELSE list[k]]
      BY <2>1 DEF Tick
    <3> HIDE DEF L
    <3>4. Len(L) = Len(list) /\ \A k \in 1 .. Len(list) : L[k].id = list[k].id
      <4>1. Len(list) \in Nat /\ \A k \in 1 .. Len(list) : list[k] \in TimerNode
        BY <3>2, NodeType
      <4>2. \A p \in TimerNode : [p EXCEPT !.delta = AfterTick].id = p.id
        BY DEF TimerNode
      <4> QED
        BY <3>3, <4>1, <4>2
    <3>5. Armed(L) = Armed(list)
      BY <3>4 DEF Armed
    <3> QED
      BY <3>1, <3>5, ServiceRests DEF L
  <2>2. CASE SelectFails
    <3>1. list' = list /\ resent' = <<>>
      BY <2>2 DEF SelectFails
    <3>2. Armed(list') = Armed(list)
      BY <3>1
    <3> QED
      BY <3>1, <3>2, ServiceRests
  <2>3. CASE Update
    BY <2>3, ServiceUpdate
  <2>4. ASSUME NEW id \in Ids, Cancel(id) PROVE Service!Next
    BY <2>4, ServiceCancel
  <2>5. ASSUME NEW id \in Ids, NEW d \in Intervals, Start(id, d) PROVE Service!Next
    BY <2>5, ServiceStart
  <2>6. CASE UNCHANGED vars
    BY <2>6 DEF vars
  <2> QED
    BY <2>1, <2>2, <2>3, <2>4, <2>5, <2>6 DEF Next
<1> QED
  BY <1>1, <1>2, ListInvHolds, PTL DEF Spec, ImplementsService, Service!Spec
=============================================================================
