--------------------------- MODULE TcpdFifo_proof ---------------------------
(***************************************************************************)
(* The two daemons over a network that keeps order, for files of any       *)
(* length.  As long as no timer expired too early: what the sender keeps   *)
(* and times, whatever packets and acknowledgements are lost, and that the *)
(* file arrives in order when no packet of slot 0 or of the last W slots   *)
(* is lost.  Whatever the timers do: the types, and that ftpc's blocks go  *)
(* to free slots.                                                          *)
(***************************************************************************)
EXTENDS TcpdFifo, TcpdEnds_proof,
        FiniteSetTheorems, FunctionTheorems

(* A window and one frame more do not fill the buffer (21 < 64 in the      *)
(* code); no block of the file is all zeros; the server takes any block,   *)
(* also what an unused slot of the send buffer holds.                      *)
Fits == /\ W + 1 < N
        /\ ZeroBlocks = {}
        /\ 1 .. K + 1 \subseteq Blocks

SlotOf(k) == (k - 1) % N

In(x, q) == \E i \in 1 .. Len(q) : q[i] = x

Distinct(q) == \A i \in 1 .. Len(q) : \A j \in 1 .. i - 1 : q[j] # q[i]

(* The frame of slot s has a timer or a resend request.                    *)
Outstanding(s) == s \in armed \/ In(s, resendq)

(* What follows is about some frame number l that lar has passed: frames   *)
(* up to l are acknowledged.                                               *)
CountersAgree(l) ==
  /\ lfs + 1 = nsent % N
  /\ bufpos = nread % N
  /\ l <= nsent /\ nsent <= nread
  /\ nread <= l + N /\ nread < nsent + N

(* lar is l on the circle of slots, and the window ahead of it at most W   *)
(* wide, or one more when it wraps.  When all is acknowledged, what was    *)
(* read meanwhile is sent before anything else is read.                    *)
LarPassed(l) ==
  /\ l = nsent - (IF lfs >= lar THEN lfs - lar ELSE lfs - lar + N)
  /\ lfs >= lar => lfs - lar <= W
  /\ lfs < lar => N - 1 - lar + lfs <= W
  /\ lfs < lar /\ lfs = -1 => N - 1 - lar <= W
  /\ lar = -1 => nsent = lfs + 1
  /\ l = nsent /\ nsent < nread => "send" \in todo /\ "ftpc" \notin todo

(* Or lar ran past all of the frames in the first round and is stuck       *)
(* before a slot of garbage from the stack, which will never be filled.    *)
LarStuck(l) ==
  /\ l = IF nsent <= W THEN 0 ELSE nsent
  /\ lfs < lar /\ lar <= N - 2
  /\ sendbuf[lar + 1] = Junk
  /\ nread <= lar + 1
  /\ nsent = lfs + 1 /\ 1 <= nsent

SendFollows == todo # {} => "send" \in todo

(* Each slot holds its frame as long as that is outstanding or not yet     *)
(* sent, and nothing after; in the first round perhaps garbage before.     *)
SlotsHold(l) ==
  /\ \A k \in l + 1 .. nsent :
        sendbuf[SlotOf(k)] = IF Outstanding(SlotOf(k)) THEN k ELSE Empty
  /\ \A k \in nsent + 1 .. nread : sendbuf[SlotOf(k)] = k
  /\ \A k \in nread + 1 .. l + N : /\ sendbuf[SlotOf(k)] \in {Empty, Junk}
                                   /\ k > N => sendbuf[SlotOf(k)] = Empty

TimersFor(l) ==
  /\ \A s \in Slots : Outstanding(s) => \E k \in l + 1 .. nsent : s = SlotOf(k)
  /\ Distinct(resendq)
  /\ \A s \in Slots : In(s, resendq) => s \notin armed

(* A message is about a frame with a timer, the only one about it.         *)
Underway(l) ==
  /\ \A i \in 1 .. Len(pkts) : /\ pkts[i].data \in l + 1 .. nsent
                               /\ pkts[i].seq = SlotOf(pkts[i].data)
                               /\ pkts[i].seq \in armed
                               /\ ~In(pkts[i].seq, acks)
  /\ Distinct(pkts)
  /\ \A i \in 1 .. Len(acks) : acks[i] \in armed
  /\ Distinct(acks)

SenderAt(l) == /\ CountersAgree(l)
               /\ LarPassed(l) \/ LarStuck(l)
               /\ SendFollows
               /\ SlotsHold(l)
               /\ TimersFor(l)
               /\ Underway(l)

SenderInv == TypeOK /\ Inv /\ \E l \in Nat : SenderAt(l)
-----------------------------------------------------------------------------
LEMMA Sizes ==
  ASSUME Fits
  PROVE  /\ N \in Nat /\ W \in Nat /\ K \in Nat
         /\ 1 <= W /\ N >= 3 /\ W + 1 < N
         /\ Slots = 0 .. N - 1
BY SizesAssumption, FileAssumption DEF Fits, Slots

(* The slots of the N frames after l, in order round the buffer.           *)
LEMMA SlotShift ==
  ASSUME Fits, NEW l \in Nat, NEW o \in 1 .. N
  PROVE  /\ l % N \in Slots
         /\ SlotOf(l + o) = IF (l % N) + o <= N THEN (l % N) + o - 1
                                              ELSE (l % N) + o - 1 - N
<1>1. N \in Nat /\ N > 0 /\ N \in Int
  BY Sizes
<1> DEFINE q == l \div N
           r == l % N
<1>2. q \in Int /\ r \in 0 .. N - 1 /\ l = N * q + r
  BY <1>1, QuotientType, QuotientRemainder
<1> HIDE DEF q, r
<1> DEFINE t == IF r + o <= N THEN r + o - 1 ELSE r + o - 1 - N
<1>3. t \in 0 .. N - 1
  BY <1>1, <1>2
<1>4. l + o - 1 = N * q + t \/ l + o - 1 = N * (q + 1) + t
  <2>1. N * (q + 1) = N * q + N * 1
    BY <1>1, <1>2, Distribute
  <2>2. N * q \in Int
    BY <1>1, <1>2
  <2> QED
    BY <1>1, <1>2, <2>1, <2>2
<1>5. (N * q + t) % N = t /\ (N * (q + 1) + t) % N = t
  <2>1. q + 1 \in Int
    BY <1>2
  <2> HIDE DEF t
  <2> QED
    BY <1>1, <1>2, <1>3, <2>1, RemainderOf
<1>6. SlotOf(l + o) = t
  <2> HIDE DEF t
  <2> QED
    BY <1>4, <1>5 DEF SlotOf
<1> QED
  BY <1>2, <1>6, Sizes DEF r

(* A frame of the N after l has a slot of its own.                         *)
LEMMA SlotType ==
  ASSUME Fits, NEW k \in Nat, k >= 1
  PROVE  SlotOf(k) \in Slots
<1>1. N \in Int /\ N > 0 /\ k - 1 \in Int
  BY Sizes
<1>2. (k - 1) % N \in 0 .. N - 1
  BY <1>1, QuotientType
<1> QED
  BY <1>2, Sizes DEF SlotOf

LEMMA SlotsDiffer ==
  ASSUME Fits, NEW l \in Nat, NEW k \in l + 1 .. l + N, NEW m \in l + 1 .. l + N,
         SlotOf(k) = SlotOf(m)
  PROVE  k = m
<1>1. N \in Nat
  BY Sizes
<1>2. k - l \in 1 .. N /\ m - l \in 1 .. N /\ l + (k - l) = k /\ l + (m - l) = m
  BY <1>1
<1> DEFINE r == l % N
           a == k - l
           b == m - l
           At0(o) == IF r + o <= N THEN r + o - 1 ELSE r + o - 1 - N
<1>3. /\ r \in 0 .. N - 1
      /\ SlotOf(k) = At0(a) /\ SlotOf(m) = At0(b)
  BY <1>2, SlotShift, Sizes
<1>4. a \in 1 .. N /\ b \in 1 .. N /\ At0(a) = At0(b)
  BY <1>2, <1>3
<1>5. a = b
  <2> HIDE DEF r, a, b
  <2> QED
    BY <1>1, <1>3, <1>4
<1> QED
  BY <1>1, <1>5

LEMMA SlotsCover ==
  ASSUME Fits, NEW l \in Nat, NEW s \in Slots
  PROVE  \E k \in l + 1 .. l + N : s = SlotOf(k)
<1>1. N \in Nat /\ s \in 0 .. N - 1
  BY Sizes
<1> DEFINE r == l % N
           o == IF s >= r THEN s - r + 1 ELSE s - r + 1 + N
<1>2. r \in 0 .. N - 1
  <2>1. 1 \in 1 .. N
    BY <1>1
  <2> QED
    BY <2>1, SlotShift, Sizes
<1>3. o \in 1 .. N
  BY <1>1, <1>2
<1>4. SlotOf(l + o) = IF r + o <= N THEN r + o - 1 ELSE r + o - 1 - N
  BY <1>3, SlotShift
<1>5. SlotOf(l + o) = s /\ l + o \in l + 1 .. l + N
  BY <1>1, <1>2, <1>3, <1>4
<1> QED
  BY <1>5
-----------------------------------------------------------------------------
(* Queues: what is in the queue after the head was taken or one appended.  *)
LEMMA TailOf ==
  ASSUME NEW S, NEW q \in Seq(S), q # <<>>
  PROVE  /\ Head(q) \in S /\ Head(q) = q[1]
         /\ Tail(q) \in Seq(S) /\ Len(q) \in Nat /\ Len(q) >= 1
         /\ Len(Tail(q)) = Len(q) - 1
         /\ \A i \in 1 .. Len(Tail(q)) : Tail(q)[i] = q[i + 1] /\ i + 1 \in 1 .. Len(q)
         /\ In(Head(q), q)
         /\ \A x : In(x, q) => x = Head(q) \/ In(x, Tail(q))
         /\ \A x : In(x, Tail(q)) => In(x, q)
<1>1. /\ Head(q) \in S /\ Head(q) = q[1]
      /\ Tail(q) \in Seq(S) /\ Len(q) \in Nat /\ Len(q) >= 1
      /\ Len(Tail(q)) = Len(q) - 1
      /\ \A i \in 1 .. Len(Tail(q)) : Tail(q)[i] = q[i + 1]
  OBVIOUS
<1> DEFINE n == Len(q)
           t == Tail(q)
<1>2. n \in Nat /\ n >= 1 /\ Len(t) = n - 1 /\ \A i \in 1 .. n - 1 : t[i] = q[i + 1]
  BY <1>1
<1> HIDE DEF n, t
<1>3. \A i \in 1 .. n - 1 : i + 1 \in 1 .. n
  BY <1>2
<1>4. 1 \in 1 .. n
  BY <1>2
<1>5. In(Head(q), q)
  BY <1>1, <1>4 DEF In, n
<1>6. ASSUME NEW x, In(x, q) PROVE x = Head(q) \/ In(x, t)
  <2>1. PICK i \in 1 .. n : q[i] = x
    BY <1>6 DEF In, n
  <2>2. CASE i = 1
    BY <1>1, <2>1, <2>2
  <2>3. CASE i # 1
    <3>1. i - 1 \in 1 .. Len(t) /\ (i - 1) + 1 = i
      BY <1>2, <2>3
    <3>2. t[i - 1] = x
      BY <1>2, <2>1, <3>1
    <3> QED
      BY <3>1, <3>2 DEF In
  <2> QED
    BY <2>2, <2>3
<1>7. ASSUME NEW x, In(x, t) PROVE In(x, q)
  <2>1. PICK i \in 1 .. n - 1 : t[i] = x
    BY <1>2, <1>7 DEF In
  <2> QED
    BY <1>2, <1>3, <2>1 DEF In, n
<1> QED
  BY <1>1, <1>2, <1>3, <1>5, <1>6, <1>7 DEF n, t

LEMMA DistinctTail ==
  ASSUME NEW S, NEW q \in Seq(S), q # <<>>, Distinct(q)
  PROVE  Distinct(Tail(q)) /\ ~In(Head(q), Tail(q))
<1> DEFINE n == Len(q)
           t == Tail(q)
<1>1. /\ n \in Nat /\ n >= 1 /\ Len(t) = n - 1 /\ Head(q) = q[1]
      /\ \A i \in 1 .. n - 1 : t[i] = q[i + 1]
  BY TailOf
<1>2. \A i \in 1 .. n : \A j \in 1 .. i - 1 : q[j] # q[i]
  BY DEF Distinct
<1> HIDE DEF n, t
<1>3. ASSUME NEW i \in 1 .. n - 1
      PROVE  t[i] # q[1]
  <2>1. i + 1 \in 1 .. n /\ 1 \in 1 .. (i + 1) - 1
    BY <1>1
  <2> QED
    BY <1>1, <1>2, <2>1
<1>4. ASSUME NEW i \in 1 .. n - 1, NEW j \in 1 .. i - 1
      PROVE  t[j] # t[i]
  <2>1. i + 1 \in 1 .. n /\ j + 1 \in 1 .. (i + 1) - 1 /\ j \in 1 .. n - 1
    BY <1>1
  <2> QED
    BY <1>1, <1>2, <2>1
<1> QED
  BY <1>1, <1>3, <1>4 DEF Distinct, In, t

LEMMA AppendOf ==
  ASSUME NEW S, NEW q \in Seq(S), NEW e \in S
  PROVE  /\ Append(q, e) \in Seq(S) /\ Len(q) \in Nat
         /\ Len(Append(q, e)) = Len(q) + 1
         /\ \A i \in 1 .. Len(q) : Append(q, e)[i] = q[i]
         /\ Append(q, e)[Len(q) + 1] = e
         /\ \A i \in 1 .. Len(q) + 1 : i \in 1 .. Len(q) \/ i = Len(q) + 1
         /\ \A x : In(x, Append(q, e)) <=> In(x, q) \/ x = e
<1> DEFINE n == Len(q)
           t == Append(q, e)
<1>1. /\ t \in Seq(S) /\ n \in Nat /\ Len(t) = n + 1
      /\ \A i \in 1 .. n : t[i] = q[i]
      /\ t[n + 1] = e
  OBVIOUS
<1> HIDE DEF t, n
<1>2. \A i \in 1 .. n + 1 : i \in 1 .. n \/ i = n + 1
  BY <1>1
<1>3. \A i \in 1 .. n : i \in 1 .. n + 1
  BY <1>1
<1>4. n + 1 \in 1 .. n + 1
  BY <1>1
<1>5. \A x : In(x, t) <=> In(x, q) \/ x = e
  <2> SUFFICES ASSUME NEW x
               PROVE  (\E i \in 1 .. n + 1 : t[i] = x) <=> (\E i \in 1 .. n : q[i] = x) \/ x = e
    BY <1>1 DEF In, n
  <2>1. ASSUME NEW i \in 1 .. n + 1, t[i] = x
        PROVE  (\E k \in 1 .. n : q[k] = x) \/ x = e
    BY <1>1, <1>2, <2>1
  <2>2. ASSUME NEW i \in 1 .. n, q[i] = x
        PROVE  \E k \in 1 .. n + 1 : t[k] = x
    <3>1. i \in 1 .. n + 1 /\ t[i] = x
      BY <1>1, <1>3, <2>2
    <3> QED
      BY <3>1
  <2>3. ASSUME x = e PROVE \E k \in 1 .. n + 1 : t[k] = x
    BY <1>1, <1>4, <2>3
  <2> QED
    BY <2>1, <2>2, <2>3
<1> QED
  BY <1>1, <1>2, <1>5 DEF n, t

LEMMA DistinctAppend ==
  ASSUME NEW S, NEW q \in Seq(S), NEW e \in S, Distinct(q), ~In(e, q)
  PROVE  Distinct(Append(q, e))
<1> DEFINE n == Len(q)
           t == Append(q, e)
<1>1. /\ n \in Nat /\ Len(t) = n + 1
      /\ \A i \in 1 .. n : t[i] = q[i]
      /\ t[n + 1] = e
  BY AppendOf
<1>2. \A i \in 1 .. n : q[i] # e /\ \A j \in 1 .. i - 1 : q[j] # q[i]
  BY DEF Distinct, In
<1> HIDE DEF n, t
<1>3. ASSUME NEW i \in 1 .. n + 1, NEW j \in 1 .. i - 1
      PROVE  t[j] # t[i]
  <2>1. j \in 1 .. n
    BY <1>1
  <2>2. CASE i = n + 1
    BY <1>1, <1>2, <2>1, <2>2
  <2>3. CASE i \in 1 .. n
    BY <1>1, <1>2, <2>1, <2>3
  <2> QED
    BY <1>1, <2>2, <2>3
<1> QED
  BY <1>1, <1>3 DEF Distinct, t
-----------------------------------------------------------------------------
(* The numbers of a state, free of sets and sequences.                     *)
LEMMA Numbers ==
  ASSUME Fits, TypeOK, Inv, NEW l \in Nat, CountersAgree(l)
  PROVE  /\ N \in Nat /\ W \in Nat /\ K \in Nat
         /\ 1 <= W /\ N >= 3 /\ W + 1 < N
         /\ Slots = 0 .. N - 1
         /\ lar \in -1 .. N - 1 /\ lfs \in -1 .. N - 2
         /\ bufpos \in 0 .. N - 1
         /\ nsent \in Nat /\ nread \in 0 .. K
         /\ l <= nsent /\ nsent <= nread /\ nread <= l + N /\ nread < nsent + N
<1>1. /\ N \in Nat /\ W \in Nat /\ K \in Nat
      /\ 1 <= W /\ N >= 3 /\ W + 1 < N
      /\ Slots = 0 .. N - 1
  BY Sizes
<1> QED
  BY <1>1 DEF TypeOK, ClientTypeOK, CountersAgree

(* The frame after l has the slot after lar, round the buffer.             *)
LEMMA LarSlot ==
  ASSUME Fits, TypeOK, Inv, NEW l \in Nat, CountersAgree(l), LarPassed(l)
  PROVE  l % N = IF lar = N - 1 THEN 0 ELSE lar + 1
<1>1. /\ N \in Nat /\ N >= 3 /\ N \in Int /\ N > 0
      /\ lar \in -1 .. N - 1 /\ lfs \in -1 .. N - 2
      /\ nsent \in Nat
  BY Numbers
<1>2. lfs + 1 = nsent % N
  BY DEF CountersAgree
<1>3. l = nsent - (IF lfs >= lar THEN lfs - lar ELSE lfs - lar + N)
  BY DEF LarPassed
<1> DEFINE q == nsent \div N
           r == IF lar = N - 1 THEN 0 ELSE lar + 1
<1>4. q \in Int /\ nsent = N * q + (lfs + 1)
  BY <1>1, <1>2, QuotientType, QuotientRemainder
<1>5. r \in 0 .. N - 1
  BY <1>1
<1> HIDE DEF q
<1>6. N * (q - 1) = N * q - N * 1
  BY <1>1, <1>4, Distribute
<1>7. l = N * q + r \/ l = N * (q - 1) + r
  <2>1. N * q \in Int
    BY <1>1, <1>4
  <2> QED
    BY <1>1, <1>3, <1>4, <1>6, <2>1
<1> HIDE DEF r
<1>8. (N * q + r) % N = r /\ (N * (q - 1) + r) % N = r
  <2>1. q - 1 \in Int
    BY <1>4
  <2> QED
    BY <1>1, <1>4, <1>5, <2>1, RemainderOf
<1> QED
  BY <1>7, <1>8 DEF r

(* The frames of the N after l in their slots, by lar.                     *)
LEMMA PassedSlots ==
  ASSUME Fits, TypeOK, Inv, NEW l \in Nat, CountersAgree(l), LarPassed(l),
         NEW k \in l + 1 .. l + N
  PROVE  SlotOf(k) = IF lar = N - 1 THEN k - l - 1
                     ELSE IF lar + (k - l) <= N - 1 THEN lar + (k - l)
                     ELSE lar + (k - l) - N
<1>1. N \in Nat /\ lar \in -1 .. N - 1
  BY Numbers
<1>2. k - l \in 1 .. N /\ l + (k - l) = k
  BY <1>1
<1> DEFINE r == l % N
           o == k - l
<1>3. SlotOf(l + o) = IF r + o <= N THEN r + o - 1 ELSE r + o - 1 - N
  BY <1>2, SlotShift
<1>4. r = IF lar = N - 1 THEN 0 ELSE lar + 1
  BY LarSlot
<1> HIDE DEF r, o
<1>5. SlotOf(l + o) = IF lar = N - 1 THEN o - 1
                     ELSE IF lar + o <= N - 1 THEN lar + o
                     ELSE lar + o - N
  <2>1. o \in 1 .. N
    BY <1>2 DEF o
  <2> QED
    BY <1>1, <1>3, <1>4, <2>1
<1> QED
  BY <1>2, <1>5 DEF o

(* In the first round frame k has slot k - 1.                              *)
LEMMA FirstRound ==
  ASSUME Fits, NEW k \in 1 .. N
  PROVE  SlotOf(k) = k - 1
<1>1. N \in Nat /\ 0 \in Nat /\ N > 0 /\ 0 + k = k
  BY Sizes
<1>2. 0 % N = 0
  <2>1. N * 0 + 0 = 0 /\ 0 \in Int /\ N \in Int /\ 0 \in 0 .. N - 1
    BY <1>1
  <2>2. (N * 0 + 0) % N = 0
    BY <1>1, <2>1, RemainderOf
  <2> QED
    BY <2>1, <2>2
<1>3. SlotOf(0 + k) = IF (0 % N) + k <= N THEN (0 % N) + k - 1 ELSE (0 % N) + k - 1 - N
  BY <1>1, SlotShift
<1> QED
  BY <1>1, <1>2, <1>3

LEMMA CountersInit == Fits /\ Init => SenderInv
<1> SUFFICES ASSUME Fits, Init PROVE SenderInv
  OBVIOUS
<1>1. /\ N \in Nat /\ W \in Nat /\ K \in Nat
      /\ 1 <= W /\ N >= 3 /\ W + 1 < N
      /\ Slots = 0 .. N - 1
  BY Sizes
<1>2. ClientTypeOK /\ Inv /\ ServerTypeOK
  BY InitType, InitInv DEF Init, Inv
<1>3. TypeOK
  BY <1>2, LossAssumption DEF Init, TypeOK
<1>4. /\ lar = -1 /\ lfs = -1 /\ bufpos = 0 /\ nread = 0 /\ nsent = 0
      /\ todo = {} /\ armed = {} /\ resendq = <<>>
      /\ pkts = <<>> /\ acks = <<>>
      /\ sendbuf \in [Slots -> {Empty, Junk}]
  BY DEF Init, ClientInit
<1>5. 0 % N = 0
  <2>1. N * 0 + 0 = 0 /\ 0 \in Int /\ N \in Int /\ 0 \in 0 .. N - 1
    BY <1>1
  <2>2. (N * 0 + 0) % N = 0
    BY <1>1, <2>1, RemainderOf
  <2> QED
    BY <2>1, <2>2
<1>6. CountersAgree(0)
  BY <1>1, <1>4, <1>5 DEF CountersAgree
<1>7. LarPassed(0)
  BY <1>1, <1>4 DEF LarPassed
<1>8. SendFollows
  BY <1>4 DEF SendFollows
<1>9. SlotsHold(0)
  <2> SUFFICES ASSUME NEW k \in 1 .. N
               PROVE  sendbuf[SlotOf(k)] \in {Empty, Junk}
    BY <1>1, <1>4 DEF SlotsHold
  <2>1. SlotOf(k) \in Slots
    BY <1>1, SlotType
  <2> QED
    BY <1>4, <2>1
<1>10. TimersFor(0) /\ Underway(0)
  BY <1>4 DEF TimersFor, Underway, Outstanding, In, Distinct
<1>11. SenderAt(0)
  BY <1>6, <1>7, <1>8, <1>9, <1>10 DEF SenderAt
<1> QED
  BY <1>2, <1>3, <1>11 DEF SenderInv
-----------------------------------------------------------------------------
(* What the driver sends is a packet the server's specification allows. *)
LEMMA PacketsAllowed ==
  ASSUME Fits, NEW p \in [seq : Slots, data : BlockContents]
  PROVE  p \in Packets
<1>1. BlockContents \subseteq Contents
  BY FileAssumption DEF Fits, BlockContents, Contents, Empty
<1> QED
  BY <1>1 DEF Packets

(* A step of the daemons is one of the client's own specification, or      *)
(* leaves the client alone.                                                *)
LEMMA ClientSteps ==
  ASSUME TypeOK, [Next]_vars
  PROVE  [ClientNext]_clientVars
<1> USE DEF vars
<1>1. CASE Driver
  <2>1. acks # <<>> => Head(acks) \in Slots
    <3>1. acks \in Seq(Slots)
      BY DEF TypeOK
    <3> QED
      BY <3>1, TailOf
  <2>2. CASE DriverSelect
    BY <2>2 DEF DriverSelect, Select, ClientNext
  <2>3. CASE DriverAck
    BY <2>1, <2>3 DEF DriverAck, ClientNext
  <2> QED
    BY <1>1, <2>2, <2>3 DEF Driver, DriverResend, DriverRead, DriverBadAck,
                            DriverSend, DriverIdle, ClientNext
<1>2. ASSUME NEW id \in Slots, TimerExpires(id) PROVE ClientNext
  BY <1>2 DEF TimerExpires, ClientNext
<1>3. CASE ServerReceives \/ PacketLost \/ AckLost
  BY <1>3 DEF ServerReceives, PacketLost, AckLost
<1> QED
  BY <1>1, <1>2, <1>3 DEF Next

(* How many timers were too early never decreases. *)
LEMMA EarlyStays ==
  ASSUME early \in Nat, [Next]_vars
  PROVE  early' \in Nat /\ early' >= early
<1>1. CASE UNCHANGED early
  BY <1>1
<1>2. ASSUME NEW id \in Slots, TimerExpires(id)
      PROVE  early' \in Nat /\ early' >= early
  BY <1>2 DEF TimerExpires
<1>3. CASE Driver \/ ServerReceives \/ PacketLost \/ AckLost \/ UNCHANGED vars
  <2>1. UNCHANGED early
    BY <1>3 DEF Driver, DriverSelect, DriverResend, DriverRead, DriverAck,
                DriverBadAck, DriverSend, DriverIdle, ServerReceives, PacketLost,
                AckLost, vars, netVars
  <2> QED
    BY <1>1, <2>1
<1> QED
  BY <1>2, <1>3 DEF Next

(* The types need neither the order of the network nor patient timers. *)
LEMMA TypeNext == Fits /\ TypeOK /\ Inv /\ [Next]_vars => TypeOK' /\ Inv'
<1> SUFFICES ASSUME Fits, TypeOK, Inv, [Next]_vars
             PROVE  TypeOK' /\ Inv'
  OBVIOUS
<1> DEFINE S == [seq : Slots, data : BlockContents]
<1> USE DEF netVars
<1>1. ClientTypeOK'
  BY ClientSteps, NextType DEF TypeOK
<1>2. /\ ClientTypeOK /\ ServerTypeOK
      /\ pkts \in Seq(S)
      /\ acks \in Seq(Slots)
      /\ losses \in 0 .. MaxLosses /\ early \in 0 .. MaxEarly
  BY DEF TypeOK
<1>3. ASSUME UNCHANGED serverVars PROVE Inv'
  BY <1>3, NextInv
<1>4. Inv' => ServerTypeOK'
  BY DEF Inv
<1>5. pkts # <<>> => /\ Head(pkts) \in S
                     /\ Tail(pkts) \in Seq(S)
  <2> HIDE DEF S
  <2> QED
    BY <1>2, TailOf
<1>6. acks # <<>> => Tail(acks) \in Seq(Slots)
  BY <1>2, TailOf
<1>7. ASSUME UNCHANGED serverVars, pkts' \in Seq(S), acks' \in Seq(Slots),
             losses' \in 0 .. MaxLosses, early' \in 0 .. MaxEarly
      PROVE  TypeOK' /\ Inv'
  BY <1>1, <1>3, <1>4, <1>7 DEF TypeOK
<1>8. losses < MaxLosses => losses + 1 \in 0 .. MaxLosses
  BY <1>2, LossAssumption
<1>9. CASE DriverSelect \/ DriverRead \/ DriverIdle
  BY <1>2, <1>7, <1>9 DEF DriverSelect, DriverRead, DriverIdle
<1>10. CASE DriverResend
  <2>1. resendq \in Seq(Slots) /\ resendq # <<>>
    BY <1>2, <1>10 DEF DriverResend, Resend, At, ClientTypeOK
  <2>2. ResendPacket \in S
    BY <1>2, <2>1, TailOf DEF ResendPacket, ClientTypeOK
  <2>3. pkts' \in Seq(S)
    BY <1>2, <1>10, <2>2 DEF DriverResend
  <2> QED
    BY <1>2, <1>7, <1>10, <2>3 DEF DriverResend
<1>11. CASE DriverAck
  BY <1>2, <1>6, <1>7, <1>11 DEF DriverAck
<1>12. CASE DriverBadAck
  BY <1>2, <1>6, <1>7, <1>8, <1>12 DEF DriverBadAck
<1>13. CASE DriverSend
  <2>1. lfs + 1 \in Slots
    BY <1>2, Sizes DEF ClientTypeOK
  <2>2. NextPacket \in S
    BY <1>2, <2>1 DEF NextPacket, ClientTypeOK
  <2>3. pkts' \in Seq(S)
    BY <1>2, <1>13, <2>2 DEF DriverSend
  <2> QED
    BY <1>2, <1>7, <1>13, <2>3 DEF DriverSend
<1>14. ASSUME NEW id \in Slots, TimerExpires(id) PROVE TypeOK' /\ Inv'
  <2>1. early' \in 0 .. MaxEarly
    BY <1>2, <1>14, EarlyStays, LossAssumption DEF TimerExpires
  <2> QED
    BY <1>2, <1>7, <1>14, <2>1 DEF TimerExpires
<1>15. CASE ServerReceives
  <2>1. Head(pkts) \in Packets
    BY <1>5, <1>15, PacketsAllowed DEF ServerReceives
  <2>2. Inv'
    BY <1>15, <2>1, NextInv DEF ServerReceives, ServerNext
  <2>3. acks' \in Seq(Slots)
    BY <1>2, <1>15, <2>1 DEF ServerReceives, AckOf, Packets
  <2> QED
    BY <1>1, <1>2, <1>4, <1>5, <1>15, <2>2, <2>3 DEF ServerReceives, TypeOK
<1>16. CASE PacketLost
  BY <1>2, <1>5, <1>7, <1>8, <1>16 DEF PacketLost
<1>17. CASE AckLost
  BY <1>2, <1>6, <1>7, <1>8, <1>17 DEF AckLost
<1>18. CASE UNCHANGED vars
  BY <1>2, <1>7, <1>18 DEF vars
<1> QED
  BY <1>9, <1>10, <1>11, <1>12, <1>13, <1>14, <1>15, <1>16, <1>17, <1>18
     DEF Next, Driver

(* The driver goes on in its iteration, or begins one.                     *)
LEMMA QuietStep ==
  ASSUME NEW l \in Nat, SenderAt(l),
         UNCHANGED <<bufferVars, timerVars, pkts, acks>>,
         SendFollows',
         LarPassed(l) /\ l = nsent /\ nsent < nread
           => "send" \in todo' /\ "ftpc" \notin todo'
  PROVE  SenderAt(l)'
<1> USE DEF bufferVars, timerVars
<1>1. CountersAgree(l)' /\ SlotsHold(l)' /\ TimersFor(l)' /\ Underway(l)'
  BY DEF SenderAt, CountersAgree, SlotsHold, TimersFor, Underway, Outstanding
<1>2. LarPassed(l) => LarPassed(l)'
  BY DEF LarPassed
<1>3. LarStuck(l) => LarStuck(l)'
  BY DEF LarStuck
<1> QED
  BY <1>1, <1>2, <1>3 DEF SenderAt

LEMMA RecordsIn ==
  ASSUME TypeOK
  PROVE  /\ pkts \in Seq([seq : Slots, data : BlockContents])
         /\ acks \in Seq(Slots) /\ resendq \in Seq(Slots) /\ armed \subseteq Slots
         /\ sendbuf \in [Slots -> BlockContents]
         /\ \A i \in 1 .. Len(acks) : acks[i] \in Slots
         /\ \A i \in 1 .. Len(resendq) : resendq[i] \in Slots
BY DEF TypeOK, ClientTypeOK

LEMMA HeadRecord ==
  ASSUME TypeOK, pkts # <<>>
  PROVE  Head(pkts) \in [seq : Slots, data : BlockContents]
<1> DEFINE S == [seq : Slots, data : BlockContents]
<1>1. pkts \in Seq(S)
  BY RecordsIn
<1> HIDE DEF S
<1>2. Head(pkts) \in S
  BY <1>1, TailOf
<1> QED
  BY <1>2 DEF S

(* A request from the timer: the frame of its slot is sent, and has its    *)
(* timer again.                                                            *)
LEMMA ResendStep ==
  ASSUME Fits, TypeOK, Inv, NEW l \in Nat, SenderAt(l), DriverResend
  PROVE  SenderAt(l)'
<1> USE DEF bufferVars
<1>1. /\ pkts \in Seq([seq : Slots, data : BlockContents])
      /\ resendq \in Seq(Slots) /\ armed \subseteq Slots
      /\ sendbuf \in [Slots -> BlockContents]
  BY RecordsIn
<1>2. "resend" \in todo /\ resendq # <<>> /\ todo' = todo \ {"resend"}
  BY DEF DriverResend, Resend, At, Finish, TypeOK, ClientTypeOK
<1> DEFINE h == Head(resendq)
           m == ResendPacket
<1>3. /\ armed' = armed \cup {h} /\ resendq' = Tail(resendq)
      /\ pkts' = Append(pkts, m)
      /\ UNCHANGED <<bufferVars, acks>>
  BY DEF DriverResend, Resend
<1>4. h \in Slots /\ In(h, resendq) /\ h \notin armed
  BY <1>1, <1>2, TailOf DEF SenderAt, TimersFor
<1>5. PICK k \in l + 1 .. nsent : h = SlotOf(k)
  BY <1>4 DEF SenderAt, TimersFor, Outstanding
<1>6. m.seq = h /\ m.data = k /\ m \in [seq : Slots, data : BlockContents]
  <2>1. Outstanding(SlotOf(k))
    BY <1>4, <1>5 DEF Outstanding
  <2>2. sendbuf[h] = k
    BY <1>5, <2>1 DEF SenderAt, SlotsHold
  <2> QED
    BY <1>1, <1>4, <2>2 DEF ResendPacket
<1> HIDE DEF h, m
<1>7. \A s : Outstanding(s)' <=> Outstanding(s)
  <2>1. \A s : In(s, resendq) <=> In(s, Tail(resendq)) \/ s = h
    BY <1>1, <1>2, TailOf DEF h
  <2> QED
    BY <1>3, <2>1 DEF Outstanding
<1>8. CountersAgree(l)' /\ SendFollows' /\ SlotsHold(l)'
  BY <1>2, <1>3, <1>7 DEF SenderAt, CountersAgree, SendFollows, SlotsHold
<1>9. LarPassed(l)' \/ LarStuck(l)'
  BY <1>2, <1>3 DEF SenderAt, LarPassed, LarStuck
<1>10. TimersFor(l)'
  <2>1. Distinct(Tail(resendq)) /\ ~In(h, Tail(resendq))
    BY <1>1, <1>2, DistinctTail DEF SenderAt, TimersFor, h
  <2>2. \A s : In(s, Tail(resendq)) => In(s, resendq)
    BY <1>1, <1>2, TailOf
  <2> QED
    BY <1>3, <1>7, <2>1, <2>2 DEF SenderAt, TimersFor
<1>11. Underway(l)'
  <2>1. ~In(h, acks)
    BY <1>4 DEF SenderAt, Underway, In
  <2>2. ~In(m, pkts)
    BY <1>4, <1>6 DEF SenderAt, Underway, In
  <2>3. Distinct(pkts')
    BY <1>1, <1>3, <1>6, <2>2, DistinctAppend DEF SenderAt, Underway
  <2>4. /\ Len(pkts') = Len(pkts) + 1
        /\ \A i \in 1 .. Len(pkts) : pkts'[i] = pkts[i]
        /\ pkts'[Len(pkts) + 1] = m
        /\ \A i \in 1 .. Len(pkts) + 1 : i \in 1 .. Len(pkts) \/ i = Len(pkts) + 1
    BY <1>1, <1>3, <1>6, AppendOf
  <2>5. ASSUME NEW i \in 1 .. Len(pkts')
        PROVE  /\ pkts'[i].data \in l + 1 .. nsent
               /\ pkts'[i].seq = SlotOf(pkts'[i].data)
               /\ pkts'[i].seq \in armed \cup {h}
               /\ ~In(pkts'[i].seq, acks)
    BY <1>5, <1>6, <2>1, <2>4 DEF SenderAt, Underway
  <2> QED
    BY <1>3, <2>3, <2>5 DEF SenderAt, Underway
<1> QED
  BY <1>8, <1>9, <1>10, <1>11 DEF SenderAt

(* A timer that expires when nothing about its frame is on the way.        *)
LEMMA TimeoutStep ==
  ASSUME Fits, TypeOK, Inv, NEW l \in Nat, SenderAt(l),
         NEW id \in Slots, TimerExpires(id), early' = early
  PROVE  SenderAt(l)'
<1> USE DEF bufferVars, netVars
<1>1. resendq \in Seq(Slots)
  BY RecordsIn
<1>2. /\ id \in armed
      /\ armed' = armed \ {id}
      /\ resendq' = Append(resendq, id)
      /\ UNCHANGED <<bufferVars, todo, pkts, acks>>
      /\ \A i \in 1 .. Len(pkts) : pkts[i].seq # id
      /\ \A i \in 1 .. Len(acks) : acks[i] # id
  <2>1. early \in Int
    BY DEF TypeOK
  <2>2. ~UnderWay(id)
    BY <2>1 DEF TimerExpires
  <2> QED
    BY <2>2 DEF TimerExpires, Timeout, UnderWay
<1>3. \A s : In(s, resendq') <=> In(s, resendq) \/ s = id
  BY <1>1, <1>2, AppendOf
<1>4. \A s : Outstanding(s)' <=> Outstanding(s)
  BY <1>2, <1>3 DEF Outstanding
<1>5. CountersAgree(l)' /\ SendFollows' /\ SlotsHold(l)'
  BY <1>2, <1>4 DEF SenderAt, CountersAgree, SendFollows, SlotsHold
<1>6. LarPassed(l)' \/ LarStuck(l)'
  BY <1>2 DEF SenderAt, LarPassed, LarStuck
<1>7. TimersFor(l)'
  <2>1. ~In(id, resendq)
    BY <1>2 DEF SenderAt, TimersFor
  <2>2. Distinct(resendq')
    BY <1>1, <1>2, <2>1, DistinctAppend DEF SenderAt, TimersFor
  <2> QED
    BY <1>2, <1>3, <1>4, <2>2 DEF SenderAt, TimersFor
<1>8. Underway(l)'
  BY <1>2 DEF SenderAt, Underway
<1> QED
  BY <1>5, <1>6, <1>7, <1>8 DEF SenderAt

(* A packet leaves the network: lost, or answered by the server.           *)
LEMMA PacketStep ==
  ASSUME Fits, TypeOK, Inv, NEW l \in Nat, SenderAt(l),
         pkts # <<>>, pkts' = Tail(pkts),
         acks' = acks \/ acks' = Append(acks, Head(pkts).seq),
         UNCHANGED clientVars
  PROVE  SenderAt(l)'
<1> USE DEF clientVars, bufferVars, timerVars
<1> DEFINE S == [seq : Slots, data : BlockContents]
           m == Head(pkts)
<1>1. pkts \in Seq(S) /\ acks \in Seq(Slots)
  BY RecordsIn
<1>2. \A i \in 1 .. Len(pkts) : pkts[i] \in S
  <2> HIDE DEF S
  <2> QED
    BY <1>1
<1>3. /\ 1 \in 1 .. Len(pkts) /\ m = pkts[1] /\ m \in S
      /\ \A i \in 1 .. Len(pkts') : /\ pkts'[i] = pkts[i + 1]
                                    /\ i + 1 \in 1 .. Len(pkts)
      /\ Distinct(pkts') /\ ~In(m, pkts')
  <2> HIDE DEF S
  <2>1. Distinct(pkts)
    BY DEF SenderAt, Underway
  <2>2. /\ m = pkts[1] /\ m \in S /\ Len(pkts) \in Nat /\ Len(pkts) >= 1
        /\ \A i \in 1 .. Len(pkts') : /\ pkts'[i] = pkts[i + 1]
                                      /\ i + 1 \in 1 .. Len(pkts)
    BY <1>1, TailOf
  <2>3. Distinct(pkts') /\ ~In(m, pkts')
    BY <1>1, <2>1, DistinctTail
  <2> QED
    BY <2>2, <2>3
<1>4. /\ m.seq \in Slots /\ m.seq \in armed /\ ~In(m.seq, acks)
      /\ m.seq = SlotOf(m.data) /\ m.data \in l + 1 .. nsent
  BY <1>3 DEF SenderAt, Underway
<1>5. \A i \in 1 .. Len(pkts') : pkts'[i].seq # m.seq
  <2> SUFFICES ASSUME NEW i \in 1 .. Len(pkts'), pkts'[i].seq = m.seq
               PROVE  FALSE
    OBVIOUS
  <2> DEFINE x == pkts'[i]
  <2>1. x \in S /\ x.data \in l + 1 .. nsent /\ x.seq = SlotOf(x.data)
    BY <1>2, <1>3 DEF SenderAt, Underway
  <2>2. \A k \in l + 1 .. nsent : k \in l + 1 .. l + N
    <3>1. N \in Nat /\ nsent \in Nat /\ nread \in Nat /\ nsent <= nread /\ nread <= l + N
      BY Numbers DEF SenderAt
    <3> QED
      BY <3>1
  <2>3. x.data = m.data
    BY <1>4, <2>1, <2>2, SlotsDiffer
  <2>4. x = m
    BY <1>3, <2>1, <2>3
  <2> QED
    BY <1>3, <2>4 DEF In
<1>6. CountersAgree(l)' /\ SendFollows' /\ SlotsHold(l)' /\ TimersFor(l)'
  BY DEF SenderAt, CountersAgree, SendFollows, SlotsHold, TimersFor, Outstanding
<1>7. LarPassed(l)' \/ LarStuck(l)'
  BY DEF SenderAt, LarPassed, LarStuck
<1>8. /\ Distinct(acks')
      /\ \A i \in 1 .. Len(acks') : acks'[i] \in armed
      /\ \A s : In(s, acks') => In(s, acks) \/ s = m.seq
  <2>1. Distinct(acks) /\ \A i \in 1 .. Len(acks) : acks[i] \in armed
    BY DEF SenderAt, Underway
  <2>2. CASE acks' = acks
    BY <2>1, <2>2
  <2>3. CASE acks' = Append(acks, m.seq)
    <3>1. Distinct(acks')
      BY <1>1, <1>4, <2>1, <2>3, DistinctAppend
    <3>2. /\ Len(acks') = Len(acks) + 1
          /\ \A i \in 1 .. Len(acks) : acks'[i] = acks[i]
          /\ acks'[Len(acks) + 1] = m.seq
          /\ \A i \in 1 .. Len(acks) + 1 : i \in 1 .. Len(acks) \/ i = Len(acks) + 1
          /\ \A s : In(s, acks') => In(s, acks) \/ s = m.seq
      BY <1>1, <1>4, <2>3, AppendOf
    <3> QED
      BY <1>4, <2>1, <3>1, <3>2
  <2> QED
    BY <2>2, <2>3
<1>9. Underway(l)'
  <2>1. ASSUME NEW i \in 1 .. Len(pkts')
        PROVE  /\ pkts'[i].data \in l + 1 .. nsent
               /\ pkts'[i].seq = SlotOf(pkts'[i].data)
               /\ pkts'[i].seq \in armed
               /\ ~In(pkts'[i].seq, acks')
    BY <1>3, <1>5, <1>8 DEF SenderAt, Underway
  <2> QED
    BY <1>3, <1>8, <2>1 DEF Underway
<1> QED
  BY <1>6, <1>7, <1>9 DEF SenderAt

(* What the test before a block is read amounts to: there is a free slot.  *)
LEMMA RoomForBlock ==
  ASSUME Fits, TypeOK, Inv, NEW l \in Nat, SenderAt(l), RoomToRead, "ftpc" \in todo
  PROVE  nread < l + N
<1>1. /\ N \in Nat /\ N >= 3 /\ lar \in -1 .. N - 1 /\ lfs \in -1 .. N - 2
      /\ nsent \in Nat /\ nread \in Nat
      /\ l <= nsent /\ nsent <= nread /\ nread <= l + N
      /\ bufpos \in 0 .. N - 1
  BY Numbers DEF SenderAt
<1>2. CASE LarStuck(l)
  BY <1>1, <1>2 DEF LarStuck
<1>3. CASE LarPassed(l) /\ nread = l + N
  <2>1. bufpos = IF lar = N - 1 THEN 0 ELSE lar + 1
    <3>1. l % N = IF lar = N - 1 THEN 0 ELSE lar + 1
      BY <1>3, LarSlot DEF SenderAt
    <3>2. (l + N) % N = l % N
      <4>1. l \in Int /\ l + N \in Int /\ N \in Int /\ N > 0 /\ l + N = l + N * 1 /\ 1 \in Int
        BY <1>1
      <4> QED
        BY <4>1, SameRemainder
    <3> QED
      BY <1>3, <3>1, <3>2 DEF SenderAt, CountersAgree
  <2>2. l # nsent
    BY <1>1, <1>3 DEF LarPassed
  <2> QED
    BY <1>1, <1>3, <2>1, <2>2 DEF RoomToRead, LarPassed
<1> QED
  BY <1>1, <1>2, <1>3 DEF SenderAt

(* A block from ftpc goes to a free slot.                                  *)
LEMMA ReadStep ==
  ASSUME Fits, TypeOK, Inv, NEW l \in Nat, SenderAt(l),
         ReadFtpc, UNCHANGED <<serverVars, netVars>>
  PROVE  /\ SenderAt(l)'
         /\ sendbuf[bufpos] \in {Empty, Junk}
<1> USE DEF netVars, timerVars
<1>1. /\ N \in Nat /\ N >= 3 /\ lar \in -1 .. N - 1 /\ lfs \in -1 .. N - 2
      /\ nsent \in Nat /\ nread \in Nat /\ K \in Nat
      /\ l <= nsent /\ nsent <= nread /\ nread < nsent + N
      /\ Slots = 0 .. N - 1 /\ bufpos \in Slots
  <2>1. CountersAgree(l)
    BY DEF SenderAt
  <2> QED
    BY <2>1, Numbers
<1>2. /\ "ftpc" \in todo /\ RoomToRead /\ todo' = todo \ {"ftpc"} /\ nread < K
      /\ "resend" \notin todo /\ "send" \in todo
  BY DEF ReadFtpc, At, Finish, TypeOK, ClientTypeOK, SenderAt, SendFollows
<1>3. nread < l + N
  BY <1>2, RoomForBlock
<1> DEFINE b == nread + 1
<1>4. b \in l + 1 .. l + N /\ b \in 1 .. K /\ b \in Nat
  BY <1>1, <1>2, <1>3
<1>5. SlotOf(b) = bufpos
  BY <1>1 DEF SlotOf, SenderAt, CountersAgree
<1>6. /\ sendbuf' = [sendbuf EXCEPT ![bufpos] = b]
      /\ nread' = b
      /\ UNCHANGED <<lar, lfs, nsent, armed, resendq, pkts, acks>>
      /\ sendbuf \in [Slots -> BlockContents]
  <2>1. File(b) = b
    BY <1>4 DEF File, Fits
  <2> QED
    BY <2>1, RecordsIn DEF ReadFtpc
<1>7. \A k \in l + 1 .. l + N :
        sendbuf'[SlotOf(k)] = IF k = b THEN b ELSE sendbuf[SlotOf(k)]
  <2> SUFFICES ASSUME NEW k \in l + 1 .. l + N
               PROVE  sendbuf'[SlotOf(k)] = IF k = b THEN b ELSE sendbuf[SlotOf(k)]
    OBVIOUS
  <2>1. SlotOf(k) = bufpos => k = b
    BY <1>4, <1>5, SlotsDiffer
  <2>2. SlotOf(k) \in Slots
    BY <1>1, SlotType
  <2> HIDE DEF b
  <2> QED
    BY <1>1, <1>5, <1>6, <2>1, <2>2
<1>8. SlotsHold(l)'
  <2>1. \A k \in l + 1 .. nsent : k \in l + 1 .. l + N /\ k # b
    BY <1>1, <1>3
  <2>2. \A k \in nsent + 1 .. b : k \in l + 1 .. l + N /\ (k = b \/ k \in nsent + 1 .. nread)
    BY <1>1, <1>3
  <2>3. \A k \in b + 1 .. l + N : k \in l + 1 .. l + N /\ k # b /\ k \in nread + 1 .. l + N
    BY <1>1, <1>3
  <2> HIDE DEF b
  <2>4. \A k \in l + 1 .. nsent :
          sendbuf'[SlotOf(k)] = IF Outstanding(SlotOf(k)) THEN k ELSE Empty
    BY <1>7, <2>1 DEF SenderAt, SlotsHold
  <2>5. \A k \in nsent + 1 .. b : sendbuf'[SlotOf(k)] = k
    BY <1>7, <2>2 DEF SenderAt, SlotsHold
  <2>6. \A k \in b + 1 .. l + N : /\ sendbuf'[SlotOf(k)] \in {Empty, Junk}
                                  /\ k > N => sendbuf'[SlotOf(k)] = Empty
    BY <1>7, <2>3 DEF SenderAt, SlotsHold
  <2> QED
    BY <1>6, <2>4, <2>5, <2>6 DEF SlotsHold, Outstanding
<1>9. CountersAgree(l)'
  <2>1. bufpos' = b % N
    <3>1. bufpos = nread % N
      BY DEF SenderAt, CountersAgree
    <3>2. bufpos' = IF bufpos + 1 = N THEN 0 ELSE bufpos + 1
      BY DEF ReadFtpc
    <3> DEFINE q == nread \div N
    <3>3. q \in Int /\ nread = N * q + bufpos /\ N > 0 /\ N \in Int
      BY <1>1, <3>1, QuotientType, QuotientRemainder
    <3>4. b = N * q + (bufpos + 1) /\ N * (q + 1) = N * q + N * 1
      BY <1>1, <3>3, Distribute
    <3> HIDE DEF q, b
    <3>5. b = N * q + bufpos' \/ b = N * (q + 1) + bufpos'
      BY <1>1, <3>2, <3>3, <3>4
    <3>6. bufpos' \in 0 .. N - 1
      BY <1>1, <3>2
    <3> DEFINE r == bufpos'
    <3>7. r \in 0 .. N - 1 /\ q + 1 \in Int
      BY <3>3, <3>6
    <3> HIDE DEF r
    <3>8. (N * q + r) % N = r /\ (N * (q + 1) + r) % N = r
      BY <3>3, <3>7, RemainderOf
    <3> QED
      BY <3>5, <3>8 DEF r
  <2>2. b < nsent + N
    <3>1. CASE LarPassed(l) /\ l = nsent
      BY <1>1, <1>2, <3>1 DEF LarPassed
    <3>2. CASE LarPassed(l) /\ l # nsent
      BY <1>1, <1>3, <3>2
    <3>3. CASE LarStuck(l)
      BY <1>1, <3>3 DEF LarStuck
    <3> QED
      BY <3>1, <3>2, <3>3 DEF SenderAt
  <2> QED
    BY <1>1, <1>3, <1>6, <2>1, <2>2 DEF SenderAt, CountersAgree
<1>10. LarPassed(l) => LarPassed(l)'
  BY <1>1, <1>2, <1>6 DEF LarPassed
<1>11. LarStuck(l) => LarStuck(l)'
  <2> SUFFICES ASSUME LarStuck(l) PROVE LarStuck(l)'
    OBVIOUS
  <2>1. /\ lfs < lar /\ lar <= N - 2 /\ nread <= lar + 1 /\ nsent = lfs + 1
        /\ sendbuf[lar + 1] = Junk
    BY DEF LarStuck
  <2>2. bufpos = nread
    <3>1. b \in 1 .. N
      BY <1>1, <2>1
    <3> QED
      BY <1>1, <1>5, <3>1, FirstRound
  <2>3. b <= lar + 1 /\ bufpos # lar + 1
    BY <1>1, <1>2, <2>1, <2>2 DEF RoomToRead
  <2>4. sendbuf'[lar + 1] = Junk
    <3>1. lar + 1 \in Slots
      BY <1>1, <2>1
    <3> HIDE DEF b
    <3> QED
      BY <1>6, <2>1, <2>3, <3>1
  <2> QED
    BY <1>6, <2>3, <2>4 DEF LarStuck, Junk
<1>12. SendFollows' /\ TimersFor(l)' /\ Underway(l)'
  BY <1>2, <1>6 DEF SenderAt, SendFollows, TimersFor, Underway, Outstanding
<1>13. sendbuf[bufpos] \in {Empty, Junk}
  <2>1. b \in nread + 1 .. l + N
    BY <1>1, <1>3
  <2> HIDE DEF b
  <2> QED
    BY <1>5, <2>1 DEF SenderAt, SlotsHold
<1> QED
  BY <1>8, <1>9, <1>10, <1>11, <1>12, <1>13 DEF SenderAt

(* What the test before a new frame is sent amounts to: its block is there *)
(* and the window, wrapped or not, has room for it.                        *)
LEMMA SendMoves ==
  ASSUME Fits, TypeOK, Inv, NEW l \in Nat, CountersAgree(l), RoomToSend,
         lfs' = (IF lfs + 1 = N - 1 THEN -1 ELSE lfs + 1), nsent' = nsent + 1,
         UNCHANGED <<lar, bufpos, nread>>
  PROVE  /\ nsent < nread
         /\ CountersAgree(l)'
         /\ LarPassed(l) => LarPassed(l)'
         /\ LarStuck(l) /\ UNCHANGED sendbuf => LarStuck(l)'
<1>1. /\ N \in Nat /\ W \in Nat /\ 1 <= W /\ N >= 3 /\ W + 1 < N
      /\ lar \in -1 .. N - 1 /\ lfs \in -1 .. N - 2 /\ bufpos \in 0 .. N - 1
      /\ nsent \in Nat /\ nread \in Nat
      /\ l <= nsent /\ nsent <= nread /\ nread <= l + N /\ nread < nsent + N
  BY Numbers
<1>2. lfs + 1 = nsent % N /\ bufpos = nread % N
  BY DEF CountersAgree
<1>3. \/ lfs >= lar /\ lfs - lar < W /\ (lfs + 1 < bufpos \/ bufpos <= lar)
      \/ lfs < lar /\ N - 1 - lar + lfs < W /\ lfs + 1 < bufpos
  BY DEF RoomToSend
<1>4. nsent < nread
  <2>1. nread = nsent => bufpos = lfs + 1
    BY <1>2
  <2> QED
    BY <1>1, <1>3, <2>1
<1>5. lfs' + 1 = nsent' % N
  <2> DEFINE q == nsent \div N
             r == lfs' + 1
  <2>1. q \in Int /\ nsent = N * q + (lfs + 1) /\ N > 0 /\ N \in Int
    BY <1>1, <1>2, QuotientType, QuotientRemainder
  <2>2. N * (q + 1) = N * q + N * 1 /\ N * q \in Int /\ q + 1 \in Int
    BY <2>1, Distribute
  <2> HIDE DEF q
  <2>3. r \in 0 .. N - 1
    BY <1>1
  <2>4. nsent' = N * q + r \/ nsent' = N * (q + 1) + r
    BY <1>1, <2>1, <2>2
  <2> HIDE DEF r
  <2>5. (N * q + r) % N = r /\ (N * (q + 1) + r) % N = r
    BY <2>1, <2>2, <2>3, RemainderOf
  <2> QED
    BY <2>4, <2>5 DEF r
<1>6. CountersAgree(l)'
  BY <1>1, <1>2, <1>4, <1>5 DEF CountersAgree
<1>7. LarPassed(l) => LarPassed(l)'
  <2> SUFFICES ASSUME LarPassed(l) PROVE LarPassed(l)'
    OBVIOUS
  <2>1. /\ l = nsent - (IF lfs >= lar THEN lfs - lar ELSE lfs - lar + N)
        /\ lfs >= lar => lfs - lar <= W
        /\ lfs < lar => N - 1 - lar + lfs <= W
        /\ lfs < lar /\ lfs = -1 => N - 1 - lar <= W
        /\ lar = -1 => nsent = lfs + 1
    BY DEF LarPassed
  <2>2. l # nsent'
    BY <1>1
  <2>3. CASE lfs >= lar /\ lfs < N - 2
    BY <1>1, <1>3, <2>1, <2>2, <2>3 DEF LarPassed
  <2>4. CASE lfs >= lar /\ lfs = N - 2
    BY <1>1, <1>3, <2>1, <2>2, <2>4 DEF LarPassed
  <2>5. CASE lfs < lar
    BY <1>1, <1>3, <2>1, <2>2, <2>5 DEF LarPassed
  <2> QED
    BY <1>1, <2>3, <2>4, <2>5
<1>8. LarStuck(l) /\ UNCHANGED sendbuf => LarStuck(l)'
  <2> SUFFICES ASSUME LarStuck(l), UNCHANGED sendbuf PROVE LarStuck(l)'
    OBVIOUS
  <2>1. /\ l = IF nsent <= W THEN 0 ELSE nsent
        /\ lfs < lar /\ lar <= N - 2
        /\ sendbuf[lar + 1] = Junk
        /\ nread <= lar + 1
        /\ nsent = lfs + 1 /\ 1 <= nsent
    BY DEF LarStuck
  <2> QED
    BY <1>1, <1>3, <2>1 DEF LarStuck, Junk
<1> QED
  BY <1>4, <1>6, <1>7, <1>8

(* The next frame is sent, and has a timer.                                *)
LEMMA SendStep ==
  ASSUME Fits, TypeOK, Inv, NEW l \in Nat, SenderAt(l), DriverSend
  PROVE  SenderAt(l)'
<1>1. /\ N \in Nat /\ nsent \in Nat /\ nread \in Nat
      /\ l <= nsent /\ nsent <= nread /\ nread <= l + N
      /\ Slots = 0 .. N - 1
  BY Numbers DEF SenderAt
<1>2. /\ pkts \in Seq([seq : Slots, data : BlockContents])
      /\ resendq \in Seq(Slots) /\ armed \subseteq Slots
      /\ sendbuf \in [Slots -> BlockContents]
  BY RecordsIn
<1> DEFINE h == lfs + 1
           b == nsent + 1
           m == NextPacket
<1>3. /\ RoomToSend /\ "send" \in todo /\ todo' = todo \ {"send"}
      /\ armed' = armed \cup {h}
      /\ lfs' = (IF lfs + 1 = N - 1 THEN -1 ELSE lfs + 1) /\ nsent' = b
      /\ pkts' = Append(pkts, m)
      /\ UNCHANGED <<sendbuf, lar, bufpos, nread, resendq, acks>>
  BY DEF DriverSend, SendNext, At, Finish
<1>4. /\ "resend" \notin todo /\ "ftpc" \notin todo /\ "ack" \notin todo
      /\ todo \subseteq {"resend", "ftpc", "ack", "send"}
  BY DEF DriverSend, SendNext, At, TypeOK, ClientTypeOK
<1>5. /\ nsent < nread
      /\ CountersAgree(l)'
      /\ LarPassed(l)' \/ LarStuck(l)'
  BY <1>3, SendMoves DEF SenderAt
<1>6. h = SlotOf(b) /\ b \in l + 1 .. l + N /\ b \in nsent + 1 .. nread /\ h \in Slots
  <2>1. b \in l + 1 .. l + N /\ b \in nsent + 1 .. nread /\ b \in Nat /\ b >= 1
    BY <1>1, <1>5
  <2>2. h = SlotOf(b)
    BY <1>1 DEF SlotOf, SenderAt, CountersAgree
  <2> QED
    BY <2>1, <2>2, SlotType
<1>7. m.seq = h /\ m.data = b /\ m \in [seq : Slots, data : BlockContents]
  <2>1. sendbuf[h] = b
    BY <1>6 DEF SenderAt, SlotsHold
  <2> QED
    BY <1>2, <1>6, <2>1 DEF NextPacket
<1>8. \A k \in l + 1 .. l + N : k # b => SlotOf(k) # h
  BY <1>6, SlotsDiffer
<1>9. ~Outstanding(h)
  <2>1. \A k \in l + 1 .. nsent : k \in l + 1 .. l + N /\ k # b
    BY <1>1
  <2> QED
    BY <1>6, <1>8, <2>1 DEF SenderAt, TimersFor
<1> HIDE DEF m
<1>10. \A s : Outstanding(s)' <=> Outstanding(s) \/ s = h
  BY <1>3 DEF Outstanding
<1>11. SlotsHold(l)'
  <2>1. ASSUME NEW k \in l + 1 .. b
        PROVE  k \in l + 1 .. l + N /\ (k = b \/ (k \in l + 1 .. nsent /\ k # b))
    <3>1. nsent < nread
      BY <1>5
    <3> QED
      BY <1>1, <3>1
  <2>2. \A k \in b + 1 .. nread : k \in nsent + 1 .. nread
    BY <1>1
  <2> HIDE DEF b, h
  <2>3. sendbuf[SlotOf(b)] = b
    BY <1>6 DEF SenderAt, SlotsHold
  <2>4. ASSUME NEW k \in l + 1 .. b
        PROVE  sendbuf[SlotOf(k)] = IF Outstanding(SlotOf(k))' THEN k ELSE Empty
    <3>1. CASE k = b
      BY <1>6, <1>10, <2>3, <3>1
    <3>2. CASE k \in l + 1 .. nsent /\ k # b
      <4>1. Outstanding(SlotOf(k))' <=> Outstanding(SlotOf(k))
        BY <1>8, <1>10, <2>1, <3>2
      <4>2. sendbuf[SlotOf(k)] = IF Outstanding(SlotOf(k)) THEN k ELSE Empty
        BY <3>2 DEF SenderAt, SlotsHold
      <4> QED
        BY <4>1, <4>2
    <3> QED
      BY <2>1, <3>1, <3>2
  <2>5. /\ \A k \in b + 1 .. nread : sendbuf[SlotOf(k)] = k
        /\ \A k \in nread + 1 .. l + N : /\ sendbuf[SlotOf(k)] \in {Empty, Junk}
                                         /\ k > N => sendbuf[SlotOf(k)] = Empty
    BY <2>2 DEF SenderAt, SlotsHold
  <2>6. \A k \in l + 1 .. b :
          sendbuf[SlotOf(k)] = IF Outstanding(SlotOf(k))' THEN k ELSE Empty
    BY <2>4
  <2> QED
    BY <1>3, <2>5, <2>6 DEF SlotsHold, Outstanding
<1>12. TimersFor(l)'
  <2>1. \A k \in l + 1 .. nsent : k \in l + 1 .. b
    BY <1>1
  <2>2. b \in l + 1 .. b
    BY <1>1
  <2> HIDE DEF b, h
  <2>3. \A s \in Slots : Outstanding(s)' => \E k \in l + 1 .. b : s = SlotOf(k)
    BY <1>6, <1>10, <2>1, <2>2 DEF SenderAt, TimersFor
  <2>4. \A s \in Slots : In(s, resendq) => s \notin armed'
    BY <1>3, <1>9 DEF SenderAt, TimersFor, Outstanding
  <2> QED
    BY <1>3, <2>3, <2>4 DEF SenderAt, TimersFor
<1>13. Underway(l)'
  <2>1. ~In(h, acks)
    BY <1>9 DEF SenderAt, Underway, In, Outstanding
  <2>2. ~In(m, pkts)
    BY <1>7, <1>9 DEF SenderAt, Underway, In, Outstanding
  <2>3. Distinct(pkts')
    BY <1>2, <1>3, <1>7, <2>2, DistinctAppend DEF SenderAt, Underway
  <2>4. /\ Len(pkts') = Len(pkts) + 1
        /\ \A i \in 1 .. Len(pkts) : pkts'[i] = pkts[i]
        /\ pkts'[Len(pkts) + 1] = m
        /\ \A i \in 1 .. Len(pkts) + 1 : i \in 1 .. Len(pkts) \/ i = Len(pkts) + 1
    BY <1>2, <1>3, <1>7, AppendOf
  <2>5. b \in l + 1 .. b /\ \A k \in l + 1 .. nsent : k \in l + 1 .. b
    BY <1>1
  <2> HIDE DEF b, h
  <2>6. ASSUME NEW i \in 1 .. Len(pkts')
        PROVE  /\ pkts'[i].data \in l + 1 .. b
               /\ pkts'[i].seq = SlotOf(pkts'[i].data)
               /\ pkts'[i].seq \in armed \cup {h}
               /\ ~In(pkts'[i].seq, acks)
    BY <1>6, <1>7, <2>1, <2>4, <2>5 DEF SenderAt, Underway
  <2> QED
    BY <1>3, <2>3, <2>6 DEF SenderAt, Underway
<1>14. SendFollows'
  BY <1>3, <1>4 DEF SendFollows
<1> QED
  BY <1>5, <1>11, <1>12, <1>13, <1>14 DEF SenderAt

(* When all is acknowledged, the driver does not end an iteration without  *)
(* sending a block that was read.                                          *)
LEMMA SentIfRead ==
  ASSUME Fits, TypeOK, Inv, NEW l \in Nat, CountersAgree(l), LarPassed(l),
         l = nsent, nsent < nread
  PROVE  RoomToSend
<1>1. /\ N \in Nat /\ W \in Nat /\ 1 <= W /\ N >= 3 /\ W + 1 < N
      /\ lar \in -1 .. N - 1 /\ lfs \in -1 .. N - 2 /\ bufpos \in 0 .. N - 1
      /\ nsent \in Nat /\ nread \in Nat /\ nread < nsent + N
  BY Numbers
<1>2. bufpos # lfs + 1
  <2>1. nread + 1 \in nsent + 1 .. nsent + N /\ nsent + 1 \in nsent + 1 .. nsent + N
    BY <1>1
  <2>2. SlotOf(nread + 1) = bufpos /\ SlotOf(nsent + 1) = lfs + 1
    BY <1>1 DEF SlotOf, CountersAgree
  <2>3. nread + 1 # nsent + 1
    BY <1>1
  <2> QED
    BY <1>1, <2>1, <2>2, <2>3, SlotsDiffer
<1>3. lfs = lar \/ (lar = N - 1 /\ lfs = -1)
  BY <1>1 DEF LarPassed
<1> QED
  BY <1>1, <1>2, <1>3 DEF RoomToSend

LEMMA IdleStep ==
  ASSUME Fits, TypeOK, Inv, NEW l \in Nat, SenderAt(l),
         \/ DriverSelect \/ DriverIdle
         \/ LeaveFtpc /\ UNCHANGED <<serverVars, netVars>>
  PROVE  SenderAt(l)'
<1> USE DEF netVars
<1>1. todo \subseteq {"resend", "ftpc", "ack", "send"}
  BY DEF TypeOK, ClientTypeOK
<1>2. CASE DriverSelect
  <2>1. /\ todo = {} /\ "send" \in todo'
        /\ UNCHANGED <<bufferVars, timerVars, pkts, acks>>
    BY <1>2 DEF DriverSelect, Select
  <2>2. SendFollows' /\ ~(LarPassed(l) /\ l = nsent /\ nsent < nread)
    BY <2>1 DEF SendFollows, LarPassed
  <2> QED
    BY <2>1, <2>2, QuietStep
<1>3. CASE DriverIdle
  <2>1. /\ todo' = {} /\ ~RoomToSend
        /\ UNCHANGED <<bufferVars, timerVars, pkts, acks>>
    BY <1>1, <1>3 DEF DriverIdle, NothingToSend, At, Finish
  <2>2. ~(LarPassed(l) /\ l = nsent /\ nsent < nread)
    BY <2>1, SentIfRead DEF SenderAt
  <2>3. SendFollows'
    BY <2>1 DEF SendFollows
  <2> QED
    BY <2>1, <2>2, <2>3, QuietStep
<1>4. CASE LeaveFtpc /\ UNCHANGED <<serverVars, netVars>>
  <2>1. /\ "ftpc" \in todo /\ todo' = todo \ {"ftpc"}
        /\ UNCHANGED <<bufferVars, timerVars, pkts, acks>>
    BY <1>4 DEF LeaveFtpc, At, Finish
  <2>2. SendFollows' /\ ~(LarPassed(l) /\ l = nsent /\ nsent < nread)
    BY <2>1 DEF SenderAt, SendFollows, LarPassed
  <2> QED
    BY <2>1, <2>2, QuietStep
<1> QED
  BY <1>2, <1>3, <1>4

(* An acknowledgement is lost on the way, or discarded by the driver.      *)
LEMMA AckGone ==
  ASSUME Fits, TypeOK, Inv, NEW l \in Nat, SenderAt(l),
         DriverBadAck \/ AckLost
  PROVE  SenderAt(l)'
<1> USE DEF bufferVars, timerVars, clientVars
<1>1. /\ acks # <<>> /\ acks' = Tail(acks)
      /\ UNCHANGED <<bufferVars, timerVars, pkts>>
      /\ \/ todo' = todo
         \/ "ack" \in todo /\ todo' = todo \ {"ack"}
  BY DEF DriverBadAck, DiscardAck, At, Finish, AckLost
<1>2. /\ Distinct(acks') /\ \A s : In(s, acks') => In(s, acks)
      /\ \A i \in 1 .. Len(acks') : acks'[i] \in armed
  <2>1. acks \in Seq(Slots) /\ Distinct(acks)
    BY RecordsIn DEF SenderAt, Underway
  <2>2. /\ \A i \in 1 .. Len(acks') : /\ acks'[i] = acks[i + 1]
                                      /\ i + 1 \in 1 .. Len(acks)
        /\ \A s : In(s, acks') => In(s, acks)
    BY <1>1, <2>1, TailOf
  <2>3. Distinct(acks')
    BY <1>1, <2>1, DistinctTail
  <2> QED
    BY <2>2, <2>3 DEF SenderAt, Underway
<1>3. Underway(l)'
  BY <1>1, <1>2 DEF SenderAt, Underway
<1>4. CountersAgree(l)' /\ SlotsHold(l)' /\ TimersFor(l)' /\ SendFollows'
  BY <1>1 DEF SenderAt, CountersAgree, SlotsHold, TimersFor, Outstanding, SendFollows
<1>5. LarPassed(l)' \/ LarStuck(l)'
  BY <1>1 DEF SenderAt, LarPassed, LarStuck
<1> QED
  BY <1>3, <1>4, <1>5 DEF SenderAt
-----------------------------------------------------------------------------
LEMMA RemainderAtMost == ASSUME Fits, NEW x \in Nat PROVE x % N <= x
<1>1. N \in Int /\ N > 0 /\ x \in Int
  BY Sizes
<1> DEFINE q == x \div N
           r == x % N
<1>2. q \in Int /\ r \in 0 .. N - 1 /\ x = N * q + r
  BY <1>1, QuotientType, QuotientRemainder
<1> HIDE DEF q, r
<1>3. q < 0 => N * q <= -N
  <2> SUFFICES ASSUME q < 0 PROVE N * q <= -N
    OBVIOUS
  <2>1. -q \in Nat /\ -q >= 1 /\ N \in Nat
    BY <1>1, <1>2
  <2>2. N * (-q) >= N
    BY <2>1, SMT
  <2>3. N * (-q) = -(N * q)
    BY <1>1, <1>2, SMT
  <2> QED
    BY <1>1, <1>2, <2>2, <2>3
<1>4. q >= 0 => N * q >= 0
  BY <1>1, <1>2, SMT
<1> QED
  BY <1>1, <1>2, <1>3, <1>4 DEF r

(* The scan after an acknowledgement, by the frames it finds acknowledged: *)
(* it stops at a frame under way, or before the next to be sent, or in the *)
(* first round runs on to garbage.                                         *)
LEMMA ScanPassed ==
  ASSUME Fits, TypeOK, Inv, NEW l \in Nat, CountersAgree(l), LarPassed(l), l < nsent,
         NEW buf \in [Slots -> BlockContents], AdvanceLar(buf),
         UNCHANGED <<lfs, nsent, nread>>, sendbuf' = buf,
         "send" \in todo', "ftpc" \notin todo',
         \A k \in nsent + 1 .. nread : buf[SlotOf(k)] = k,
         \A k \in nread + 1 .. l + N : /\ buf[SlotOf(k)] \in {Empty, Junk}
                                       /\ k > N => buf[SlotOf(k)] = Empty
  PROVE  \E n \in l .. nsent :
           /\ \A k \in l + 1 .. n : buf[SlotOf(k)] = Empty
           /\ \/ LarPassed(n)'
              \/ n = nsent /\ nread = nsent /\ \E r \in Nat : LarStuck(r)'
<1>1. /\ N \in Nat /\ W \in Nat /\ K \in Nat /\ 1 <= W /\ N >= 3 /\ W + 1 < N
      /\ lar \in -1 .. N - 1 /\ lfs \in -1 .. N - 2
      /\ nsent \in Nat /\ nread \in Nat
      /\ l <= nsent /\ nsent <= nread /\ nread <= l + N
  BY Numbers
<1>2. /\ l = nsent - (IF lfs >= lar THEN lfs - lar ELSE lfs - lar + N)
      /\ lfs >= lar => lfs - lar <= W
      /\ lfs < lar => N - 1 - lar + lfs <= W
      /\ lfs < lar /\ lfs = -1 => N - 1 - lar <= W
      /\ lar = -1 => nsent = lfs + 1
  BY DEF LarPassed
<1>3. PICK i \in lar + 1 .. N :
        /\ ScanStops(buf, i)
        /\ \A s \in lar + 1 .. i - 1 : ~ScanStops(buf, s)
        /\ IF i < N
           THEN lar' = i - 1
           ELSE \E j \in 0 .. lfs + 1 :
                  /\ \A s \in 0 .. j - 1 : buf[s] = Empty
                  /\ j <= lfs => buf[j] # Empty
                  /\ lar' = IF j # 0 THEN j - 1 ELSE N - 1
  BY DEF AdvanceLar
<1>4. \A s \in lar + 1 .. i - 1 : /\ buf[s] = Empty
                                  /\ ~(lfs = 0 /\ s <= (IF lfs >= lar THEN 1 ELSE 0))
  BY <1>1, <1>3 DEF ScanStops
<1>5. \A k \in l + 1 .. l + N :
        SlotOf(k) = IF lar = N - 1 THEN k - l - 1
                    ELSE IF lar + (k - l) <= N - 1 THEN lar + (k - l)
                    ELSE lar + (k - l) - N
  BY PassedSlots
<1> HIDE DEF Empty, Junk
<1>6. CASE lfs >= lar /\ i <= lfs + 1
  <2>1. PICK n \in l .. nsent : n = l + (i - 1 - lar)
    BY <1>1, <1>2, <1>6
  <2>2. lar' = i - 1
    BY <1>1, <1>3, <1>6
  <2>3. LarPassed(n)'
    BY <1>1, <1>2, <1>6, <2>1, <2>2 DEF LarPassed
  <2>4. ASSUME NEW k \in l + 1 .. n PROVE buf[SlotOf(k)] = Empty
    <3>1. k \in l + 1 .. l + N /\ lar + (k - l) \in lar + 1 .. i - 1
          /\ lar + (k - l) <= N - 1 /\ lar # N - 1
      BY <1>1, <1>6, <2>1
    <3>2. SlotOf(k) = lar + (k - l)
      BY <1>5, <3>1
    <3> QED
      BY <1>4, <3>1, <3>2
  <2> QED
    BY <2>3, <2>4
<1>7. ASSUME lfs >= lar, i > lfs + 1
      PROVE  /\ nread = nsent /\ lfs >= 0
             /\ \A k \in l + 1 .. nsent : buf[SlotOf(k)] = Empty
  <2>1. lfs >= 0
    BY <1>1, <1>2, <1>7
  <2>2. lfs + 1 \in lar + 1 .. i - 1 /\ buf[lfs + 1] = Empty
    BY <1>1, <1>4, <1>7
  <2>3. nread = nsent
    <3> SUFFICES ASSUME nsent < nread PROVE FALSE
      BY <1>1
    <3>1. nsent + 1 \in nsent + 1 .. nread /\ nsent + 1 \in Nat /\ nsent + 1 <= K
      BY <1>1, Numbers
    <3>2. SlotOf(nsent + 1) = lfs + 1
      BY <1>1 DEF SlotOf, CountersAgree
    <3>3. buf[lfs + 1] = nsent + 1
      BY <3>1, <3>2
    <3> QED
      BY <1>1, <2>2, <3>3 DEF Empty
  <2>4. ASSUME NEW k \in l + 1 .. nsent PROVE buf[SlotOf(k)] = Empty
    <3>1. k \in l + 1 .. l + N /\ lar + (k - l) \in lar + 1 .. i - 1
          /\ lar + (k - l) <= N - 1 /\ lar # N - 1
      BY <1>1, <1>2, <1>7
    <3>2. SlotOf(k) = lar + (k - l)
      BY <1>5, <3>1
    <3> QED
      BY <1>4, <3>1, <3>2
  <2> QED
    BY <2>1, <2>3, <2>4
<1>8. CASE lfs >= lar /\ i > lfs + 1 /\ i < N
  <2>1. /\ nread = nsent /\ lfs >= 0
        /\ \A k \in l + 1 .. nsent : buf[SlotOf(k)] = Empty
    BY <1>7, <1>8
  <2>2. lar' = i - 1 /\ buf[i] # Empty
    BY <1>1, <1>3, <1>8, <2>1 DEF ScanStops
  <2> DEFINE k == l + (i - lar)
  <2>3. k \in nread + 1 .. l + N /\ k \in l + 1 .. l + N /\ SlotOf(k) = i
        /\ k = nsent + (i - lfs)
    <3>1. k \in nread + 1 .. l + N /\ k \in l + 1 .. l + N /\ k = nsent + (i - lfs)
          /\ k - l = i - lar /\ lar # N - 1
      BY <1>1, <1>2, <1>8, <2>1
    <3>2. SlotOf(k) = IF lar = N - 1 THEN k - l - 1
                      ELSE IF lar + (k - l) <= N - 1 THEN lar + (k - l)
                      ELSE lar + (k - l) - N
      <4> HIDE DEF k
      <4> QED
        BY <1>5, <3>1
    <3> HIDE DEF k
    <3> QED
      BY <1>1, <1>8, <3>1, <3>2
  <2> HIDE DEF k
  <2>4. buf[i] = Junk /\ k <= N
    <3>1. buf[SlotOf(k)] \in {Empty, Junk} /\ (k > N => buf[SlotOf(k)] = Empty)
      BY <2>3
    <3> QED
      BY <1>1, <2>2, <2>3, <3>1
  <2>5. nsent = lfs + 1
    <3>1. k \in 1 .. N
      BY <1>1, <2>3, <2>4
    <3>2. SlotOf(k) = k - 1
      BY <3>1, FirstRound
    <3> QED
      BY <1>1, <2>3, <3>1, <3>2
  <2>6. PICK r \in Nat : r = IF nsent <= W THEN 0 ELSE nsent
    BY <1>1
  <2>7. sendbuf'[lar' + 1] = Junk'
    <3>1. lar' + 1 = i
      BY <1>1, <2>2
    <3> QED
      BY <2>4, <3>1 DEF Junk
  <2>8. LarStuck(r)'
    BY <1>1, <1>8, <2>1, <2>2, <2>5, <2>6, <2>7 DEF LarStuck
  <2>9. nsent \in l .. nsent
    BY <1>1
  <2> QED
    BY <2>1, <2>8, <2>9
<1>9. CASE lfs >= lar /\ i = N
  <2>1. /\ nread = nsent /\ lfs >= 0
        /\ \A k \in l + 1 .. nsent : buf[SlotOf(k)] = Empty
    BY <1>1, <1>7, <1>9
  <2>2. PICK j \in 0 .. lfs + 1 : /\ j <= lfs => buf[j] # Empty
                                  /\ lar' = IF j # 0 THEN j - 1 ELSE N - 1
    BY <1>1, <1>3, <1>9
  <2>3. j = lfs + 1
    <3> SUFFICES ASSUME j <= lfs PROVE FALSE
      BY <1>1, <2>2
    <3>1. buf[j] # Empty /\ j \in Nat
      BY <1>1, <2>2
    <3>2. CASE j > lar
      <4>1. j \in lar + 1 .. i - 1
        BY <1>1, <1>9, <3>1, <3>2
      <4> QED
        BY <1>4, <3>1, <4>1
    <3>3. CASE j <= lar
      <4> DEFINE k == l + (j - lar + N)
      <4>1. lfs + 1 <= nsent
        <5>1. lfs + 1 = nsent % N
          BY DEF CountersAgree
        <5> QED
          BY <1>1, <5>1, RemainderAtMost
      <4>2. k \in nread + 1 .. l + N /\ k \in l + 1 .. l + N /\ k > N
            /\ k - l = j - lar + N /\ lar # N - 1
        BY <1>1, <1>2, <1>9, <2>1, <3>1, <3>3, <4>1
      <4> HIDE DEF k
      <4>3. SlotOf(k) = IF lar = N - 1 THEN k - l - 1
                        ELSE IF lar + (k - l) <= N - 1 THEN lar + (k - l)
                        ELSE lar + (k - l) - N
        BY <1>5, <4>2
      <4>4. SlotOf(k) = j
        BY <1>1, <3>1, <4>2, <4>3
      <4>5. buf[SlotOf(k)] = Empty
        BY <4>2
      <4> QED
        BY <3>1, <4>4, <4>5
    <3> QED
      BY <1>1, <3>1, <3>2, <3>3
  <2>4. lar' = lfs
    BY <1>1, <2>1, <2>2, <2>3
  <2>5. PICK n \in l .. nsent : n = nsent
    BY <1>1
  <2>6. LarPassed(n)'
    BY <1>1, <2>1, <2>4, <2>5 DEF LarPassed
  <2> QED
    BY <2>1, <2>5, <2>6
<1>10. CASE lfs < lar /\ i < N
  <2>1. PICK n \in l .. nsent : n = l + (i - 1 - lar)
    BY <1>1, <1>2, <1>10
  <2>2. lar' = i - 1
    BY <1>3, <1>10
  <2>3. LarPassed(n)'
    BY <1>1, <1>2, <1>10, <2>1, <2>2 DEF LarPassed
  <2>4. ASSUME NEW k \in l + 1 .. n PROVE buf[SlotOf(k)] = Empty
    <3>1. k \in l + 1 .. l + N /\ lar + (k - l) \in lar + 1 .. i - 1
          /\ lar + (k - l) <= N - 1 /\ lar # N - 1
      BY <1>1, <1>10, <2>1
    <3>2. SlotOf(k) = lar + (k - l)
      BY <1>5, <3>1
    <3> QED
      BY <1>4, <3>1, <3>2
  <2> QED
    BY <2>3, <2>4
<1>11. CASE lfs < lar /\ i = N
  <2>1. PICK j \in 0 .. lfs + 1 : /\ \A s \in 0 .. j - 1 : buf[s] = Empty
                                  /\ lar' = IF j # 0 THEN j - 1 ELSE N - 1
    BY <1>1, <1>3, <1>11
  <2>2. PICK n \in l .. nsent : n = l + (N - 1 - lar) + j
    BY <1>1, <1>2, <1>11, <2>1
  <2>3. LarPassed(n)'
    <3>1. CASE j = 0
      BY <1>1, <1>2, <1>11, <2>1, <2>2, <3>1 DEF LarPassed
    <3>2. CASE j # 0
      BY <1>1, <1>2, <1>11, <2>1, <2>2, <3>2 DEF LarPassed
    <3> QED
      BY <3>1, <3>2
  <2>4. ASSUME NEW k \in l + 1 .. n PROVE buf[SlotOf(k)] = Empty
    <3>1. k \in l + 1 .. l + N
      BY <1>1, <1>2, <1>11, <2>1, <2>2
    <3>2. SlotOf(k) = IF lar = N - 1 THEN k - l - 1
                      ELSE IF lar + (k - l) <= N - 1 THEN lar + (k - l)
                      ELSE lar + (k - l) - N
      BY <1>5, <3>1
    <3>3. SlotOf(k) \in lar + 1 .. i - 1 \/ SlotOf(k) \in 0 .. j - 1
      BY <1>1, <1>11, <2>1, <2>2, <3>1, <3>2
    <3> QED
      BY <1>4, <2>1, <3>3
  <2> QED
    BY <2>3, <2>4
<1> QED
  BY <1>1, <1>6, <1>8, <1>9, <1>10, <1>11

(* Stuck before a slot of garbage, lar stays.                              *)
LEMMA ScanStuck ==
  ASSUME Fits, TypeOK, Inv, NEW l \in Nat, CountersAgree(l), LarStuck(l),
         NEW buf, AdvanceLar(buf), buf[lar + 1] = Junk
  PROVE  lar' = lar
<1>1. /\ N \in Nat /\ K \in Nat /\ lar \in -1 .. N - 1 /\ lfs \in -1 .. N - 2
      /\ lar + 1 < N /\ lfs < lar
  <2>1. N \in Nat /\ K \in Nat /\ lar \in -1 .. N - 1 /\ lfs \in -1 .. N - 2
    BY Numbers
  <2>2. lar <= N - 2 /\ lfs < lar
    BY DEF LarStuck
  <2> QED
    BY <2>1, <2>2
<1>2. PICK i \in lar + 1 .. N :
        /\ \A s \in lar + 1 .. i - 1 : ~ScanStops(buf, s)
        /\ i < N => lar' = i - 1
  BY DEF AdvanceLar
<1>3. ScanStops(buf, lar + 1)
  BY <1>1 DEF ScanStops, Junk, Empty
<1>4. i = lar + 1
  <2> SUFFICES ASSUME i # lar + 1 PROVE FALSE
    OBVIOUS
  <2>1. lar + 1 \in lar + 1 .. i - 1
    BY <1>1
  <2> QED
    BY <1>2, <1>3, <2>1
<1> QED
  BY <1>1, <1>2, <1>4

(* The acknowledgement of an outstanding frame: what its slot and its      *)
(* timer are afterwards.                                                   *)
LEMMA AckClears ==
  ASSUME Fits, TypeOK, Inv, NEW l \in Nat, SenderAt(l), DriverAck
  PROVE  /\ l < nsent
         /\ sendbuf' \in [Slots -> BlockContents] /\ AdvanceLar(sendbuf')
         /\ "send" \in todo' /\ "ftpc" \notin todo'
         /\ UNCHANGED <<lfs, bufpos, nread, nsent, resendq, pkts>>
         /\ armed' = armed \ {Head(acks)} /\ acks' = Tail(acks)
         /\ SlotsHold(l)' /\ TimersFor(l)' /\ Underway(l)'
         /\ \A s : s # Head(acks) => sendbuf'[s] = sendbuf[s]
         /\ \E k \in l + 1 .. nsent : Head(acks) = SlotOf(k)
<1>1. /\ N \in Nat /\ nsent \in Nat /\ nread \in Nat
      /\ l <= nsent /\ nsent <= nread /\ nread <= l + N
  BY Numbers DEF SenderAt
<1>2. /\ acks \in Seq(Slots) /\ acks # <<>>
      /\ resendq \in Seq(Slots) /\ armed \subseteq Slots
      /\ sendbuf \in [Slots -> BlockContents]
  BY RecordsIn DEF DriverAck
<1> DEFINE a == Head(acks)
<1>3. /\ armed' = armed \ {a}
      /\ sendbuf' = [sendbuf EXCEPT ![a] = Empty]
      /\ AdvanceLar(sendbuf')
      /\ todo' = todo \ {"ack"}
      /\ UNCHANGED <<lfs, bufpos, nread, nsent, resendq, pkts>>
      /\ acks' = Tail(acks)
  BY DEF DriverAck, ReceiveAck, Finish
<1>4. "ack" \in todo /\ "ftpc" \notin todo /\ "send" \in todo
  BY DEF DriverAck, ReceiveAck, At, SenderAt, SendFollows
<1>5. a \in Slots /\ a \in armed /\ ~In(a, resendq) /\ Outstanding(a)
  <2>1. In(a, acks) /\ a \in Slots
    BY <1>2, TailOf
  <2>2. a \in armed
    BY <2>1 DEF SenderAt, Underway, In
  <2> QED
    BY <2>1, <2>2 DEF SenderAt, TimersFor, Outstanding
<1>6. PICK m \in l + 1 .. nsent : a = SlotOf(m)
  BY <1>5 DEF SenderAt, TimersFor
<1>7. l < nsent
  BY <1>1
<1>8. sendbuf' \in [Slots -> BlockContents]
  <2>1. Empty \in BlockContents
    BY FileAssumption DEF BlockContents, Empty
  <2> QED
    BY <1>2, <1>3, <2>1
<1>9. \A s : s # a => sendbuf'[s] = sendbuf[s]
  <2>1. \A s : s \in Slots => sendbuf'[s] = IF s = a THEN Empty ELSE sendbuf[s]
    BY <1>2, <1>3
  <2>2. DOMAIN sendbuf = Slots
    BY <1>2
  <2> QED
    BY <1>3, <2>1, <2>2
<1> HIDE DEF a
<1>10. \A s : Outstanding(s)' <=> Outstanding(s) /\ s # a
  BY <1>3, <1>5 DEF Outstanding
<1>11. \A k \in l + 1 .. l + N : k # m => SlotOf(k) # a
  <2>1. m \in l + 1 .. l + N
    BY <1>1
  <2> QED
    BY <1>6, <2>1, SlotsDiffer
<1>12. SlotsHold(l)'
  <2>1. ASSUME NEW k \in l + 1 .. nsent
        PROVE  sendbuf'[SlotOf(k)] = IF Outstanding(SlotOf(k))' THEN k ELSE Empty
    <3>1. CASE k = m
      <4>1. ~Outstanding(SlotOf(k))'
        BY <1>6, <1>10, <3>1
      <4>2. sendbuf'[SlotOf(k)] = Empty
        BY <1>2, <1>3, <1>5, <1>6, <3>1
      <4> QED
        BY <4>1, <4>2
    <3>2. CASE k # m
      <4>1. SlotOf(k) # a
        BY <1>1, <1>11, <3>2
      <4>2. sendbuf[SlotOf(k)] = IF Outstanding(SlotOf(k)) THEN k ELSE Empty
        BY DEF SenderAt, SlotsHold
      <4>3. Outstanding(SlotOf(k))' <=> Outstanding(SlotOf(k))
        BY <1>10, <4>1
      <4> QED
        BY <1>9, <4>1, <4>2, <4>3
    <3> QED
      BY <3>1, <3>2
  <2>2. ASSUME NEW k \in nsent + 1 .. l + N
        PROVE  sendbuf'[SlotOf(k)] = sendbuf[SlotOf(k)]
    <3>1. k \in l + 1 .. l + N /\ k # m
      BY <1>1
    <3> QED
      BY <1>9, <1>11, <3>1
  <2>3. /\ \A k \in nsent + 1 .. nread : k \in nsent + 1 .. l + N
        /\ \A k \in nread + 1 .. l + N : k \in nsent + 1 .. l + N
    BY <1>1
  <2>4. \A k \in nsent + 1 .. nread : sendbuf'[SlotOf(k)] = k
    BY <2>2, <2>3 DEF SenderAt, SlotsHold
  <2>5. \A k \in nread + 1 .. l + N : /\ sendbuf'[SlotOf(k)] \in {Empty, Junk}
                                      /\ k > N => sendbuf'[SlotOf(k)] = Empty
    BY <2>2, <2>3 DEF SenderAt, SlotsHold
  <2> QED
    BY <1>3, <2>1, <2>4, <2>5 DEF SlotsHold
<1>13. TimersFor(l)'
  BY <1>3, <1>10 DEF SenderAt, TimersFor
<1>14. Underway(l)'
  <2>1. Distinct(acks') /\ ~In(a, acks')
    BY <1>2, <1>3, DistinctTail DEF SenderAt, Underway, a
  <2>2. \A s : In(s, acks') => In(s, acks)
    BY <1>2, <1>3, TailOf
  <2>3. \A i \in 1 .. Len(acks') : acks'[i] \in armed /\ acks'[i] # a
    <3>1. \A i \in 1 .. Len(acks') : In(acks'[i], acks')
      BY DEF In
    <3>2. \A s : In(s, acks) => s \in armed
      BY DEF In, SenderAt, Underway
    <3> QED
      BY <2>1, <2>2, <3>1, <3>2
  <2>4. In(a, acks)
    BY <1>2, TailOf DEF a
  <2>5. \A i \in 1 .. Len(pkts) : /\ pkts[i].seq \in armed /\ pkts[i].seq # a
                                  /\ ~In(pkts[i].seq, acks')
    BY <2>2, <2>4 DEF SenderAt, Underway
  <2> QED
    BY <1>3, <2>1, <2>3, <2>5 DEF SenderAt, Underway
<1> QED
  BY <1>3, <1>4, <1>6, <1>7, <1>8, <1>9, <1>12, <1>13, <1>14 DEF a

(* Frames that are acknowledged may be passed: their slots count as free.  *)
LEMMA PassFrames ==
  ASSUME Fits, TypeOK, Inv, NEW l \in Nat, CountersAgree(l),
         UNCHANGED <<lfs, bufpos, nread, nsent, pkts>>,
         SlotsHold(l)', TimersFor(l)', Underway(l)',
         NEW n \in l .. nsent, \A k \in l + 1 .. n : sendbuf'[SlotOf(k)] = Empty
  PROVE  CountersAgree(n)' /\ SlotsHold(n)' /\ TimersFor(n)' /\ Underway(n)'
<1>1. /\ N \in Nat /\ nsent \in Nat /\ nread \in Nat
      /\ l <= nsent /\ nsent <= nread /\ nread <= l + N /\ nread < nsent + N
      /\ n \in Nat /\ l <= n /\ n <= nsent
  BY Numbers
<1>2. CountersAgree(n)'
  BY <1>1 DEF CountersAgree
<1>3. \A k \in l + 1 .. n : ~Outstanding(SlotOf(k))'
  <2> SUFFICES ASSUME NEW k \in l + 1 .. n, Outstanding(SlotOf(k))'
               PROVE  FALSE
    OBVIOUS
  <2>1. k \in l + 1 .. nsent /\ k # 0
    BY <1>1
  <2>2. sendbuf'[SlotOf(k)] = k
    BY <2>1 DEF SlotsHold
  <2> QED
    BY <2>1, <2>2 DEF Empty
<1>4. SlotsHold(n)'
  <2>1. \A k \in n + 1 .. nsent : k \in l + 1 .. nsent
    BY <1>1
  <2>2. ASSUME NEW k \in nread + 1 .. n + N
        PROVE  /\ sendbuf'[SlotOf(k)] \in {Empty, Junk}
               /\ k > N => sendbuf'[SlotOf(k)] = Empty
    <3>1. CASE k <= l + N
      <4>1. k \in nread + 1 .. l + N
        BY <1>1, <3>1
      <4> QED
        BY <4>1 DEF SlotsHold
    <3>2. CASE k > l + N
      <4>1. k - N \in l + 1 .. n
        BY <1>1, <3>2
      <4>2. SlotOf(k) = SlotOf(k - N)
        <5>1. /\ k - N - 1 \in Int /\ k - 1 \in Int /\ N \in Int /\ N > 0 /\ 1 \in Int
              /\ k - 1 = (k - N - 1) + N * 1
          BY <1>1, <3>2, Sizes
        <5>2. (k - 1) % N = (k - N - 1) % N
          BY <5>1, SameRemainder
        <5> QED
          BY <5>2 DEF SlotOf
      <4> QED
        BY <4>1, <4>2
    <3> QED
      BY <1>1, <3>1, <3>2
  <2> QED
    BY <2>1, <2>2 DEF SlotsHold
<1>5. TimersFor(n)'
  <2> SUFFICES ASSUME NEW s \in Slots, Outstanding(s)'
               PROVE  \E k \in n + 1 .. nsent : s = SlotOf(k)
    BY DEF TimersFor
  <2>1. PICK k \in l + 1 .. nsent : s = SlotOf(k)
    BY DEF TimersFor
  <2>2. k \notin l + 1 .. n
    BY <1>3, <2>1
  <2>3. k \in n + 1 .. nsent
    BY <1>1, <2>2
  <2> QED
    BY <2>1, <2>3
<1>6. Underway(n)'
  <2> SUFFICES ASSUME NEW i \in 1 .. Len(pkts)
               PROVE  pkts[i].data \in n + 1 .. nsent
    BY DEF Underway
  <2>1. pkts[i].data \in l + 1 .. nsent /\ Outstanding(SlotOf(pkts[i].data))'
    BY DEF Underway, Outstanding
  <2>2. pkts[i].data \notin l + 1 .. n
    BY <1>3, <2>1
  <2> QED
    BY <1>1, <2>1, <2>2
<1> QED
  BY <1>2, <1>4, <1>5, <1>6

LEMMA AckStep ==
  ASSUME Fits, TypeOK, Inv, NEW l \in Nat, SenderAt(l), DriverAck
  PROVE  \E n \in Nat : SenderAt(n)'
<1>1. /\ N \in Nat /\ W \in Nat /\ nsent \in Nat /\ nread \in Nat /\ N > W
      /\ l <= nsent /\ nsent <= nread /\ nread <= l + N
      /\ lar \in -1 .. N - 1 /\ lfs \in -1 .. N - 2
  BY Numbers DEF SenderAt
<1>2. /\ l < nsent
      /\ sendbuf' \in [Slots -> BlockContents] /\ AdvanceLar(sendbuf')
      /\ "send" \in todo' /\ "ftpc" \notin todo'
      /\ UNCHANGED <<lfs, bufpos, nread, nsent, resendq, pkts>>
      /\ SlotsHold(l)' /\ TimersFor(l)' /\ Underway(l)'
      /\ \A s : s # Head(acks) => sendbuf'[s] = sendbuf[s]
      /\ \E k \in l + 1 .. nsent : Head(acks) = SlotOf(k)
  BY AckClears
<1>3. PICK b \in [Slots -> BlockContents] : b = sendbuf' /\ AdvanceLar(b)
  BY <1>2
<1>4. SendFollows'
  BY <1>2 DEF SendFollows
<1>5. ASSUME LarPassed(l) PROVE \E n \in Nat : SenderAt(n)'
  <2>1. /\ \A k \in nsent + 1 .. nread : b[SlotOf(k)] = k
        /\ \A k \in nread + 1 .. l + N : /\ b[SlotOf(k)] \in {Empty, Junk}
                                         /\ k > N => b[SlotOf(k)] = Empty
    BY <1>2, <1>3 DEF SlotsHold, Junk, Empty
  <2>2. PICK n \in l .. nsent :
           /\ \A k \in l + 1 .. n : b[SlotOf(k)] = Empty
           /\ \/ LarPassed(n)'
              \/ n = nsent /\ nread = nsent /\ \E r \in Nat : LarStuck(r)'
    BY <1>2, <1>3, <1>5, <2>1, ScanPassed DEF SenderAt
  <2>3. CountersAgree(n)' /\ SlotsHold(n)' /\ TimersFor(n)' /\ Underway(n)' /\ n \in Nat
    <3>1. n \in Nat
      BY <1>1
    <3> QED
      BY <1>2, <1>3, <2>2, <3>1, PassFrames DEF SenderAt
  <2>4. CASE LarPassed(n)'
    BY <1>4, <2>3, <2>4 DEF SenderAt
  <2>5. ASSUME n = nsent, nread = nsent, NEW r \in Nat, LarStuck(r)'
        PROVE  SenderAt(r)'
    <3>1. r = (IF nsent <= W THEN 0 ELSE nsent)
      BY <1>2, <2>5 DEF LarStuck
    <3>2. CASE r = n
      BY <1>4, <2>3, <2>5, <3>2 DEF SenderAt
    <3>3. CASE r = 0 /\ nsent <= W
      <4>1. CountersAgree(0)'
        BY <1>1, <1>2, <2>3, <2>5, <3>3 DEF CountersAgree
      <4>2. nsent + 1 .. nsent = {} /\ 0 + 1 .. nsent = 1 .. nsent /\ 0 + N = N
        BY <1>1
      <4>3. \A s \in Slots : ~Outstanding(s)'
        BY <1>2, <2>3, <2>5, <4>2 DEF TimersFor
      <4>4. ASSUME NEW k \in 1 .. nsent
            PROVE  sendbuf'[SlotOf(k)] = Empty /\ ~Outstanding(SlotOf(k))'
        <5>1. k + N \in nread + 1 .. nsent + N /\ k + N > N /\ k \in Nat /\ k >= 1
          BY <1>1, <2>5, <3>3
        <5>2. SlotOf(k + N) = SlotOf(k)
          <6>1. /\ k + N - 1 \in Int /\ k - 1 \in Int /\ N \in Int /\ N > 0 /\ 1 \in Int
                /\ k + N - 1 = (k - 1) + N * 1
            BY <1>1, Sizes
          <6>2. (k + N - 1) % N = (k - 1) % N
            BY <6>1, SameRemainder
          <6> QED
            BY <1>1, <6>1, <6>2 DEF SlotOf
        <5>3. sendbuf'[SlotOf(k + N)] = Empty
          BY <1>2, <2>3, <2>5, <5>1 DEF SlotsHold
        <5>4. SlotOf(k) \in Slots
          BY <5>1, SlotType
        <5> QED
          BY <4>3, <5>2, <5>3, <5>4
      <4>5. SlotsHold(0)'
        <5>1. \A k \in nread + 1 .. N : k \in nread + 1 .. nsent + N
          BY <1>1
        <5>2. /\ \A k \in nsent + 1 .. nread : sendbuf'[SlotOf(k)] = k
              /\ \A k \in nread + 1 .. N : /\ sendbuf'[SlotOf(k)] \in {Empty, Junk}
                                           /\ k > N => sendbuf'[SlotOf(k)] = Empty
          BY <1>2, <2>3, <2>5, <5>1 DEF SlotsHold, Junk
        <5> QED
          BY <1>2, <4>2, <4>4, <5>2 DEF SlotsHold, Junk
      <4>6. TimersFor(0)'
        BY <2>3, <4>3 DEF TimersFor
      <4>7. Underway(0)'
        <5>1. \A i \in 1 .. Len(pkts') : pkts'[i].data \in nsent + 1 .. nsent
          BY <1>2, <2>3, <2>5 DEF Underway
        <5> QED
          BY <2>3, <4>2, <5>1 DEF Underway
      <4> QED
        BY <1>4, <2>5, <3>3, <4>1, <4>5, <4>6, <4>7 DEF SenderAt
    <3> QED
      BY <2>5, <3>1, <3>2, <3>3
  <2> QED
    BY <2>2, <2>3, <2>4, <2>5
<1>6. ASSUME LarStuck(l) PROVE SenderAt(l)'
  <2>1. /\ l = IF nsent <= W THEN 0 ELSE nsent
        /\ lfs < lar /\ lar <= N - 2
        /\ sendbuf[lar + 1] = Junk
        /\ nread <= lar + 1
        /\ nsent = lfs + 1 /\ 1 <= nsent
    BY <1>6 DEF LarStuck
  <2>2. Head(acks) # lar + 1
    <3>1. PICK k \in l + 1 .. nsent : Head(acks) = SlotOf(k)
      BY <1>2
    <3>2. k \in 1 .. N /\ k - 1 < lar + 1
      BY <1>1, <2>1
    <3>3. SlotOf(k) = k - 1
      BY <3>2, FirstRound
    <3> QED
      BY <1>1, <3>1, <3>2, <3>3
  <2>3. sendbuf'[lar + 1] = Junk
    BY <1>2, <2>1, <2>2
  <2>4. lar' = lar
    BY <1>3, <1>6, <2>3, ScanStuck DEF SenderAt
  <2>5. LarStuck(l)'
    BY <1>2, <2>1, <2>3, <2>4 DEF LarStuck, Junk
  <2>6. CountersAgree(l)'
    BY <1>2 DEF SenderAt, CountersAgree
  <2> QED
    BY <1>2, <1>4, <2>5, <2>6 DEF SenderAt
<1> QED
  BY <1>5, <1>6 DEF SenderAt
-----------------------------------------------------------------------------
LEMMA SenderNext ==
  ASSUME Fits, SenderInv, [Next]_vars, early' = early
  PROVE  SenderInv'
<1>1. TypeOK /\ Inv /\ \E l \in Nat : SenderAt(l)
  BY DEF SenderInv
<1>2. PICK l \in Nat : SenderAt(l)
  BY <1>1
<1>3. TypeOK' /\ Inv'
  BY <1>1, TypeNext
<1> SUFFICES \E n \in Nat : SenderAt(n)'
  BY <1>3 DEF SenderInv
<1>4. CASE DriverSelect \/ DriverIdle
           \/ (LeaveFtpc /\ UNCHANGED <<serverVars, netVars>>)
  BY <1>1, <1>2, <1>4, IdleStep
<1>5. CASE DriverResend
  BY <1>1, <1>2, <1>5, ResendStep
<1>6. CASE ReadFtpc /\ UNCHANGED <<serverVars, netVars>>
  BY <1>1, <1>2, <1>6, ReadStep
<1>7. CASE DriverAck
  BY <1>1, <1>2, <1>7, AckStep
<1>8. CASE DriverBadAck \/ AckLost
  BY <1>1, <1>2, <1>8, AckGone
<1>9. CASE DriverSend
  BY <1>1, <1>2, <1>9, SendStep
<1>10. ASSUME NEW id \in Slots, TimerExpires(id)
       PROVE  SenderAt(l)'
  BY <1>1, <1>2, <1>10, TimeoutStep
<1>11. CASE ServerReceives \/ PacketLost
  <2>1. /\ pkts # <<>> /\ pkts' = Tail(pkts)
        /\ acks' = acks \/ acks' = Append(acks, Head(pkts).seq)
        /\ UNCHANGED clientVars
    BY <1>11 DEF ServerReceives, PacketLost, AckOf
  <2>2. SenderAt(l)'
    BY <1>1, <1>2, <2>1, PacketStep
  <2> QED
    BY <2>2
<1>12. CASE UNCHANGED vars
  <2>1. UNCHANGED <<bufferVars, todo, timerVars, pkts, acks>>
    BY <1>12 DEF vars, clientVars, netVars
  <2>2. SendFollows' /\ (LarPassed(l) /\ l = nsent /\ nsent < nread
                           => "send" \in todo' /\ "ftpc" \notin todo')
    BY <1>2, <2>1 DEF SenderAt, SendFollows, LarPassed
  <2>3. SenderAt(l)'
    BY <1>2, <2>1, <2>2, QuietStep
  <2> QED
    BY <2>3
<1> QED
  BY <1>4, <1>5, <1>6, <1>7, <1>8, <1>9, <1>10, <1>11, <1>12
     DEF Next, Driver, DriverRead

LEMMA TypeInvariance == ASSUME Fits PROVE Spec => [](TypeOK /\ Inv)
<1>1. Init => TypeOK /\ Inv
  BY CountersInit DEF SenderInv
<1>2. TypeOK /\ Inv /\ [Next]_vars => (TypeOK /\ Inv)'
  BY TypeNext
<1> QED
  BY <1>1, <1>2, PTL DEF Spec

(* The sender's invariant, over a network that loses what it likes, until  *)
(* a timer expires too early.                                              *)
SenderWhilePatient == TypeOK /\ Inv /\ (early = 0 => SenderInv)

LEMMA PatientUntil ==
  ASSUME TypeOK, [Next]_vars, early' = 0
  PROVE  early = 0
<1>1. early \in Nat
  BY DEF TypeOK
<1> QED
  BY <1>1, EarlyStays

THEOREM SenderInvariance == ASSUME Fits PROVE Spec => []SenderWhilePatient
<1>1. Init => SenderWhilePatient
  BY CountersInit DEF SenderInv, SenderWhilePatient
<1>2. SenderWhilePatient /\ [Next]_vars => SenderWhilePatient'
  BY SenderNext, TypeNext, PatientUntil DEF SenderWhilePatient
<1> QED
  BY <1>1, <1>2, PTL DEF Spec

(* Type correctness of the two daemons: every index they keep stays in its *)
(* array and every packet has the form the other side expects, for files   *)
(* of any length, whatever packets and acknowledgements the troll loses or *)
(* garbles and however many timers expire too early.                       *)
THEOREM FifoTypeCorrect == ASSUME Fits PROVE Spec => []TypeOK
BY TypeInvariance, PTL

(* The client of the two daemons is the client among arbitrary             *)
(* acknowledgements.                                                       *)
THEOREM ClientIsOne == ASSUME Fits PROVE Spec => ClientSpec
<1>1. Init => ClientInit
  BY DEF Init
<1>2. TypeOK /\ Inv /\ [Next]_vars => [ClientNext]_clientVars
  BY ClientSteps
<1> QED
  BY <1>1, <1>2, TypeInvariance, PTL DEF Spec, ClientSpec

(* A block from ftpc goes to a slot that holds no block, round after       *)
(* round, whatever is lost and however early the timers are: what is       *)
(* forgotten after an early timer is not overwritten by client()'s read.   *)
THEOREM ReadsIntoFreeSlots == ASSUME Fits PROVE Spec => NothingOverwritten
<1>1. W + 1 < N
  BY DEF Fits
<1> QED
  BY <1>1, ClientIsOne, ClientReadsIntoFreeSlots, PTL

LEMMA RequestsBound == ASSUME Fits, SenderInv, early = 0 PROVE RequestsFit
<1>1. PICK l \in Nat : SenderAt(l)
  BY DEF SenderInv
<1>2. /\ N \in Nat /\ W \in Nat /\ nsent \in Nat /\ l <= nsent
      /\ lar \in -1 .. N - 1 /\ lfs \in -1 .. N - 2
      /\ nsent <= nread /\ nread <= l + N /\ nread \in Nat
  BY <1>1, Numbers DEF SenderAt, SenderInv
<1>3. nsent - l <= W + 1
  <2>1. CASE LarPassed(l)
    BY <1>2, <2>1 DEF LarPassed
  <2>2. CASE LarStuck(l)
    BY <1>2, <2>2 DEF LarStuck
  <2> QED
    BY <1>1, <2>1, <2>2 DEF SenderAt
<1> DEFINE n == Len(resendq)
           R == {resendq[i] : i \in 1 .. n}
           F == l + 1 .. nsent
           O == armed \cup R
           f == [s \in O |-> CHOOSE k \in F : s = SlotOf(k)]
<1>4. /\ armed \subseteq Slots /\ resendq \in Seq(Slots) /\ n \in Nat
      /\ \A i \in 1 .. n : resendq[i] \in Slots
      /\ \A i \in 1 .. n : \A j \in 1 .. i - 1 : resendq[j] # resendq[i]
      /\ \A s \in Slots : s \in armed \/ In(s, resendq) => \E k \in F : s = SlotOf(k)
      /\ \A s \in Slots : In(s, resendq) => s \notin armed
  <2>1. TypeOK
    BY DEF SenderInv
  <2>2. Distinct(resendq)
    BY <1>1 DEF SenderAt, TimersFor
  <2>3. resendq \in Seq(Slots) /\ armed \subseteq Slots
        /\ \A i \in 1 .. n : resendq[i] \in Slots
    BY <2>1, RecordsIn
  <2>4. n \in Nat
    BY <2>3
  <2> QED
    BY <1>1, <2>2, <2>3, <2>4 DEF SenderAt, TimersFor, Distinct, Outstanding
<1>5. IsFiniteSet(F) /\ Cardinality(F) = nsent - l
  <2>1. l + 1 \in Int /\ nsent \in Int
    BY <1>2
  <2>2. IsFiniteSet(F) /\ Cardinality(F) = IF l + 1 > nsent THEN 0 ELSE nsent - (l + 1) + 1
    BY <2>1, FS_Interval
  <2> QED
    BY <1>2, <2>2
<1>6. \A s \in O : \E k \in F : s = SlotOf(k)
  BY <1>4 DEF In
<1>7. f \in Injection(O, F)
  <2>1. \A s \in O : f[s] \in F /\ s = SlotOf(f[s])
    BY <1>6
  <2>2. f \in [O -> F]
    BY <2>1
  <2>3. \A a, b \in O : f[a] = f[b] => a = b
    BY <2>1
  <2> HIDE DEF f, O, F
  <2> QED
    BY <2>2, <2>3, Fun_IsInj
<1>8. IsFiniteSet(O) /\ Cardinality(O) <= Cardinality(F)
  <2> HIDE DEF f, O, F
  <2> QED
    BY <1>5, <1>7, FS_Injection
<1>9. IsFiniteSet(R) /\ Cardinality(R) = n
  <2>1. IsFiniteSet(1 .. n) /\ Cardinality(1 .. n) = n
    <3>1. 1 \in Int /\ n \in Int
      BY <1>4
    <3>2. IsFiniteSet(1 .. n) /\ Cardinality(1 .. n) = IF 1 > n THEN 0 ELSE n - 1 + 1
      BY <3>1, FS_Interval
    <3> QED
      BY <1>4, <3>2
  <2> DEFINE g == [i \in 1 .. n |-> resendq[i]]
  <2>2. g \in [1 .. n -> R]
    OBVIOUS
  <2>3. \A a, b \in 1 .. n : g[a] = g[b] => a = b
    <3> SUFFICES ASSUME NEW a \in 1 .. n, NEW b \in 1 .. n,
                        resendq[a] = resendq[b], a # b
                 PROVE  FALSE
      OBVIOUS
    <3>1. a \in 1 .. b - 1 \/ b \in 1 .. a - 1
      BY <1>4
    <3> QED
      BY <1>4, <3>1
  <2>4. \A r \in R : \E i \in 1 .. n : g[i] = r
    OBVIOUS
  <2> HIDE DEF g, R
  <2>5. g \in Injection(1 .. n, R)
    BY <2>2, <2>3, Fun_IsInj
  <2>6. g \in Surjection(1 .. n, R)
    BY <2>2, <2>4, Fun_IsSurj
  <2> QED
    BY <2>1, <2>5, <2>6, FS_Surjection
<1>10. IsFiniteSet(armed) /\ armed \cap R = {}
  <2>1. armed \cap R = {}
    BY <1>4 DEF In
  <2>2. armed \in SUBSET O
    OBVIOUS
  <2> HIDE DEF O
  <2> QED
    BY <1>8, <2>1, <2>2, FS_Subset
<1>11. Cardinality(O) = Cardinality(armed) + n
  <2>1. Cardinality(O) = Cardinality(armed) + Cardinality(R) - Cardinality(armed \cap R)
    <3> HIDE DEF R
    <3> QED
      BY <1>9, <1>10, FS_Union
  <2>2. Cardinality(armed \cap R) = 0
    BY <1>10, FS_EmptySet
  <2>3. Cardinality(armed) \in Nat
    BY <1>10, FS_CardinalityType
  <2> HIDE DEF O, R, n
  <2> QED
    BY <1>4, <1>9, <2>1, <2>2, <2>3
<1>12. Cardinality(armed) \in Nat
  BY <1>10, FS_CardinalityType
<1> HIDE DEF O, F, n
<1> QED
  BY <1>2, <1>3, <1>4, <1>5, <1>8, <1>11, <1>12 DEF RequestsFit, n

(* As long as no timer expired too early, timers and requests are no more  *)
(* than the frames under way, W or, while the window wraps, one more: none *)
(* survives the frame it was started for.                                  *)
THEOREM RequestsAreFew ==
  ASSUME Fits
  PROVE  Spec => [](early = 0 => RequestsFit)
<1>1. SenderWhilePatient => (early = 0 => RequestsFit)
  BY RequestsBound DEF SenderWhilePatient
<1> QED
  BY <1>1, SenderInvariance, PTL
-----------------------------------------------------------------------------
(* Which losses of packets the transfer survives: those of frames of slots *)
(* 1..N-W-1, whose window does not reach round the end of the buffer.  The *)
(* window is less than half the buffer (40 < 64 in the code).              *)
Benign == 2 <= W /\ 2 * W < N /\ LossySlots \subseteq 1 .. N - W - 1

Guarded(s) == s \notin 1 .. N - W - 1

Got == Len(delivered)

(* Frame k was received: it is delivered or held in the receive buffer.    *)
Rec(k) == k <= Got \/ (k <= Got + W /\ recvbuf[SlotOf(k)] # Empty)

(* The sender still holds frame k. *)
Kept(k) == sendbuf[SlotOf(k)] = k

(* What is not received is kept; an acknowledgement on the way to a slot   *)
(* that holds a frame is of that frame.                                    *)
FramesKept ==
  /\ \A k \in 1 .. nsent : ~Rec(k) => Kept(k)
  /\ \A k \in 1 .. nsent : Kept(k) /\ In(SlotOf(k), acks) => Rec(k)

(* The receive buffer holds frames of the window only, and lfr is never    *)
(* the last slot, from where the server would leave a frame undelivered.   *)
WindowHolds ==
  /\ delivered = [i \in 1 .. Got |-> i]
  /\ Got <= nsent
  /\ lfr < N - 1
  /\ \A k \in Got + 1 .. Got + W : /\ recvbuf[SlotOf(k)] \in {Empty, k}
                                   /\ recvbuf[SlotOf(k)] # Empty => k <= nsent

(* A frame whose packet is never lost overtakes none and is overtaken by   *)
(* none until it is received.                                              *)
GuardedInOrder ==
  /\ \A k \in 1 .. nsent : ~Rec(k) /\ Guarded(SlotOf(k)) =>
       /\ \E i \in 1 .. Len(pkts) : pkts[i].data = k
       /\ \A m \in k .. nsent : ~Rec(m)
  /\ \A j \in 1 .. Len(pkts) : Guarded(pkts[j].seq) /\ ~Rec(pkts[j].data) =>
       \A i \in 1 .. j - 1 : pkts[i].data < pkts[j].data

ReceiverInv == WindowHolds /\ FramesKept /\ GuardedInOrder

FifoInv == SenderInv /\ ReceiverInv

LEMMA FifoInit == ASSUME Fits, Benign, Init PROVE FifoInv
<1>1. /\ pkts = <<>> /\ acks = <<>> /\ nsent = 0 /\ delivered = <<>> /\ lfr = -1
      /\ recvbuf = [s \in Slots |-> Empty] /\ Len(pkts) = 0 /\ Got = 0
  BY DEF Init, ClientInit, ServerInit, Got
<1>2. N \in Nat /\ N >= 3 /\ W \in Nat /\ W + 1 < N
  BY Sizes
<1>3. WindowHolds
  <2>1. \A k \in 1 .. W : SlotOf(k) \in Slots
    BY <1>2, SlotType
  <2> QED
    BY <1>1, <1>2, <2>1 DEF WindowHolds
<1>4. FramesKept /\ GuardedInOrder
  BY <1>1 DEF FramesKept, GuardedInOrder
<1> QED
  BY <1>3, <1>4, CountersInit DEF FifoInv, ReceiverInv

(* The frames the sender keeps are those after l that are outstanding.     *)
LEMMA KeptFrames ==
  ASSUME Fits, TypeOK, Inv, NEW l \in Nat, SenderAt(l), NEW k \in 1 .. nsent
  PROVE  Kept(k) <=> k \in l + 1 .. nsent /\ Outstanding(SlotOf(k))
<1>1. /\ N \in Nat /\ N >= 3 /\ nsent \in Nat /\ nread \in 0 .. K /\ K \in Nat
      /\ l <= nsent /\ nsent <= nread /\ nread <= l + N
  BY Numbers DEF SenderAt
<1>2. ASSUME Kept(k) PROVE k \in l + 1 .. nsent /\ Outstanding(SlotOf(k))
  <2>1. SlotOf(k) \in Slots
    BY SlotType
  <2>2. PICK b \in l + 1 .. l + N : SlotOf(k) = SlotOf(b)
    BY <2>1, SlotsCover
  <2>3. sendbuf[SlotOf(b)] = k /\ k # Empty /\ k # Junk
    BY <1>1, <1>2, <2>2 DEF Kept, Empty, Junk
  <2>4. CASE b \in l + 1 .. nsent
    <3>1. sendbuf[SlotOf(b)] = IF Outstanding(SlotOf(b)) THEN b ELSE Empty
      BY <2>4 DEF SenderAt, SlotsHold
    <3> QED
      BY <2>2, <2>3, <2>4, <3>1
  <2>5. CASE b \in nsent + 1 .. nread
    <3>1. sendbuf[SlotOf(b)] = b
      BY <2>5 DEF SenderAt, SlotsHold
    <3> QED
      BY <1>1, <2>3, <2>5, <3>1
  <2>6. CASE b \in nread + 1 .. l + N
    <3>1. sendbuf[SlotOf(b)] \in {Empty, Junk}
      BY <2>6 DEF SenderAt, SlotsHold
    <3> QED
      BY <2>3, <3>1
  <2> QED
    BY <1>1, <2>4, <2>5, <2>6
<1>3. ASSUME k \in l + 1 .. nsent, Outstanding(SlotOf(k)) PROVE Kept(k)
  BY <1>3 DEF SenderAt, SlotsHold, Kept
<1> QED
  BY <1>2, <1>3

(* A step of the client that sends nothing and gets no acknowledgement.    *)
LEMMA ServerUnmoved ==
  ASSUME ReceiverInv,
         UNCHANGED <<serverVars, pkts, acks, nsent>>,
         \A k \in 1 .. nsent : Kept(k)' <=> Kept(k)
  PROVE  ReceiverInv'
<1> USE DEF serverVars, ReceiverInv
<1>1. WindowHolds' /\ GuardedInOrder'
  BY DEF WindowHolds, GuardedInOrder, Got, Rec
<1>2. \A k : Rec(k)' <=> Rec(k)
  BY DEF Rec, Got
<1>3. FramesKept'
  BY <1>2 DEF FramesKept
<1> QED
  BY <1>1, <1>3

LEMMA FifoRead ==
  ASSUME Fits, TypeOK, Inv, NEW l \in Nat, SenderAt(l), ReceiverInv,
         ReadFtpc, UNCHANGED <<serverVars, netVars>>
  PROVE  ReceiverInv'
<1>1. /\ N \in Nat /\ nsent \in Nat /\ nread \in Nat /\ nsent <= nread
      /\ bufpos \in Slots /\ K \in Nat /\ nsent <= K
  <2>1. CountersAgree(l)
    BY DEF SenderAt
  <2> QED
    BY <2>1, Numbers
<1>2. sendbuf[bufpos] \in {Empty, Junk}
  BY ReadStep
<1>3. "ftpc" \in todo /\ nread < K
  BY DEF ReadFtpc, At, TypeOK, ClientTypeOK
<1>4. /\ sendbuf' = [sendbuf EXCEPT ![bufpos] = nread + 1]
      /\ sendbuf \in [Slots -> BlockContents]
      /\ nsent' = nsent /\ pkts' = pkts /\ acks' = acks /\ UNCHANGED serverVars
  <2>1. File(nread + 1) = nread + 1
    BY <1>1, <1>3 DEF File, Fits
  <2> QED
    BY <2>1, RecordsIn DEF ReadFtpc, netVars
<1>5. ASSUME NEW k \in 1 .. nsent PROVE Kept(k)' <=> Kept(k)
  <2>1. SlotOf(k) \in Slots
    BY SlotType
  <2>2. k # nread + 1 /\ k # Empty /\ k # Junk
    BY <1>1 DEF Empty, Junk
  <2>3. sendbuf'[SlotOf(k)] = IF SlotOf(k) = bufpos THEN nread + 1 ELSE sendbuf[SlotOf(k)]
    BY <1>4, <2>1
  <2> QED
    BY <1>2, <2>2, <2>3 DEF Kept
<1> QED
  BY <1>4, <1>5, ServerUnmoved

LEMMA FifoResend ==
  ASSUME Fits, TypeOK, Inv, NEW l \in Nat, SenderAt(l), ReceiverInv, DriverResend
  PROVE  ReceiverInv'
<1> USE DEF ReceiverInv
<1>1. /\ pkts \in Seq([seq : Slots, data : BlockContents])
      /\ resendq \in Seq(Slots) /\ sendbuf \in [Slots -> BlockContents]
  BY RecordsIn
<1>2. "resend" \in todo /\ resendq # <<>>
  BY DEF DriverResend, Resend, At, TypeOK, ClientTypeOK
<1> DEFINE h == Head(resendq)
           m == ResendPacket
<1>3. pkts' = Append(pkts, m) /\ UNCHANGED <<sendbuf, nsent, acks, serverVars>>
  BY DEF DriverResend, Resend, bufferVars
<1>4. h \in Slots /\ In(h, resendq) /\ h \notin armed /\ Outstanding(h)
  BY <1>1, <1>2, TailOf DEF SenderAt, TimersFor, Outstanding
<1>5. PICK k \in l + 1 .. nsent : h = SlotOf(k)
  BY <1>4 DEF SenderAt, TimersFor
<1>6. k \in 1 .. nsent
  BY Numbers DEF SenderAt
<1>7. Kept(k)
  BY <1>4, <1>5, <1>6, KeptFrames
<1>8. m.seq = h /\ m.data = k /\ m \in [seq : Slots, data : BlockContents]
  BY <1>1, <1>4, <1>5, <1>7 DEF ResendPacket, Kept
<1> HIDE DEF h, m
<1>9. ~(Guarded(h) /\ ~Rec(k))
  <2> SUFFICES ASSUME Guarded(h), ~Rec(k) PROVE FALSE
    OBVIOUS
  <2>1. PICK i \in 1 .. Len(pkts) : pkts[i].data = k
    BY <1>5, <1>6 DEF GuardedInOrder
  <2>2. pkts[i].seq = h /\ pkts[i].seq \in armed
    BY <1>5, <2>1 DEF SenderAt, Underway
  <2> QED
    BY <1>4, <2>2
<1>10. /\ Len(pkts') = Len(pkts) + 1 /\ Len(pkts) \in Nat
       /\ \A i \in 1 .. Len(pkts) : pkts'[i] = pkts[i]
       /\ pkts'[Len(pkts) + 1] = m
       /\ \A i \in 1 .. Len(pkts) + 1 : i \in 1 .. Len(pkts) \/ i = Len(pkts) + 1
  BY <1>1, <1>3, <1>8, AppendOf
<1>11. /\ \A x : Rec(x)' <=> Rec(x)
       /\ \A x : Kept(x)' <=> Kept(x)
  BY <1>3 DEF Rec, Kept, Got, serverVars
<1>12. WindowHolds'
  BY <1>3 DEF WindowHolds, Got, serverVars
<1>13. FramesKept'
  BY <1>3, <1>11 DEF FramesKept
<1>14. GuardedInOrder'
  <2>1. ASSUME NEW x \in 1 .. nsent, ~Rec(x), Guarded(SlotOf(x))
        PROVE  \E i \in 1 .. Len(pkts') : pkts'[i].data = x
    <3>1. PICK i \in 1 .. Len(pkts) : pkts[i].data = x
      BY <2>1 DEF GuardedInOrder
    <3>2. i \in 1 .. Len(pkts')
      BY <1>10
    <3> QED
      BY <1>10, <3>1, <3>2
  <2>2. ASSUME NEW j \in 1 .. Len(pkts'), Guarded(pkts'[j].seq),
               ~Rec(pkts'[j].data), NEW i \in 1 .. j - 1
        PROVE  pkts'[i].data < pkts'[j].data
    <3>1. j \in 1 .. Len(pkts)
      BY <1>8, <1>9, <1>10, <2>2
    <3>2. i \in 1 .. Len(pkts)
      BY <1>10, <3>1
    <3> QED
      BY <1>10, <2>2, <3>1, <3>2 DEF GuardedInOrder
  <2> QED
    BY <1>3, <1>11, <2>1, <2>2 DEF GuardedInOrder, Guarded
<1> QED
  BY <1>12, <1>13, <1>14

LEMMA FifoSend ==
  ASSUME Fits, TypeOK, Inv, NEW l \in Nat, SenderAt(l), ReceiverInv, DriverSend
  PROVE  ReceiverInv'
<1> USE DEF ReceiverInv
<1> DEFINE h == lfs + 1
           b == nsent + 1
           m == NextPacket
<1>1. /\ N \in Nat /\ W \in Nat /\ nsent \in Nat /\ nread \in Nat
      /\ l <= nsent /\ nsent <= nread /\ nread <= l + N
  BY Numbers DEF SenderAt
<1>2. /\ pkts \in Seq([seq : Slots, data : BlockContents])
      /\ sendbuf \in [Slots -> BlockContents]
  BY RecordsIn
<1>3. /\ RoomToSend /\ nsent' = b /\ pkts' = Append(pkts, m)
      /\ lfs' = (IF lfs + 1 = N - 1 THEN -1 ELSE lfs + 1)
      /\ UNCHANGED <<sendbuf, lar, bufpos, nread, acks, serverVars>>
  BY DEF DriverSend, SendNext
<1>4. nsent < nread
  BY <1>3, SendMoves DEF SenderAt
<1>5. h = SlotOf(b) /\ h \in Slots
  <2>1. b \in Nat /\ b >= 1
    BY <1>1
  <2>2. h = SlotOf(b)
    BY <1>1 DEF SlotOf, SenderAt, CountersAgree
  <2> QED
    BY <2>1, <2>2, SlotType
<1>6. Kept(b)
  <2>1. b \in nsent + 1 .. nread
    BY <1>1, <1>4
  <2> HIDE DEF b
  <2> QED
    BY <2>1 DEF SenderAt, SlotsHold, Kept
<1>7. m.seq = h /\ m.data = b /\ m \in [seq : Slots, data : BlockContents]
  BY <1>2, <1>5, <1>6 DEF NextPacket, Kept
<1>8. ~In(h, acks)
  <2> SUFFICES ASSUME In(h, acks) PROVE FALSE
    OBVIOUS
  <2>1. Outstanding(h)
    BY DEF SenderAt, Underway, In, Outstanding
  <2>2. PICK k \in l + 1 .. nsent : h = SlotOf(k)
    BY <1>5, <2>1 DEF SenderAt, TimersFor
  <2>3. b \in l + 1 .. l + N /\ k \in l + 1 .. l + N /\ k # b
    BY <1>1, <1>4
  <2> HIDE DEF b
  <2> QED
    BY <1>5, <2>2, <2>3, SlotsDiffer
<1> HIDE DEF m
<1>9. Got \in Nat /\ Got <= nsent
  BY <1>1 DEF WindowHolds, Got, TypeOK, ServerTypeOK
<1>10. ~Rec(b)
  <2>1. b <= Got + W => b \in Got + 1 .. Got + W
    BY <1>1, <1>9
  <2>2. ~(b <= nsent) /\ ~(b <= Got)
    BY <1>1, <1>9
  <2> HIDE DEF b
  <2> QED
    BY <2>1, <2>2 DEF Rec, WindowHolds
<1>11. /\ Len(pkts') = Len(pkts) + 1 /\ Len(pkts) \in Nat
       /\ \A i \in 1 .. Len(pkts) : pkts'[i] = pkts[i]
       /\ pkts'[Len(pkts) + 1] = m
       /\ \A i \in 1 .. Len(pkts) + 1 : i \in 1 .. Len(pkts) \/ i = Len(pkts) + 1
  BY <1>2, <1>3, <1>7, AppendOf
<1>12. /\ \A x : Rec(x)' <=> Rec(x)
       /\ \A x : Kept(x)' <=> Kept(x)
       /\ Got' = Got
  BY <1>3 DEF Rec, Kept, Got, serverVars
<1>13. \A k \in 1 .. b : k \in 1 .. nsent \/ k = b
  BY <1>1
<1>14. WindowHolds'
  <2>1. /\ \A k \in Got + 1 .. Got + W : /\ recvbuf[SlotOf(k)] \in {Empty, k}
                                         /\ recvbuf[SlotOf(k)] # Empty => k <= b
        /\ Got <= b
    BY <1>1, <1>9 DEF WindowHolds
  <2> HIDE DEF b
  <2> QED
    BY <1>3, <1>12, <2>1 DEF WindowHolds, serverVars
<1> HIDE DEF b, h
<1>15. FramesKept'
  <2>1. /\ \A k \in 1 .. b : ~Rec(k) => Kept(k)
        /\ \A k \in 1 .. b : Kept(k) /\ In(SlotOf(k), acks) => Rec(k)
    BY <1>5, <1>6, <1>8, <1>13 DEF FramesKept
  <2> QED
    BY <1>3, <1>12, <2>1 DEF FramesKept
<1>16. GuardedInOrder'
  <2>1. ASSUME NEW x \in 1 .. b, ~Rec(x), Guarded(SlotOf(x))
        PROVE  /\ \E i \in 1 .. Len(pkts') : pkts'[i].data = x
               /\ \A y \in x .. b : ~Rec(y)
    <3>1. CASE x = b
      <4>1. Len(pkts) + 1 \in 1 .. Len(pkts') /\ x .. b = {b}
        BY <1>1, <1>11, <3>1 DEF b
      <4> QED
        BY <1>7, <1>10, <1>11, <3>1, <4>1
    <3>2. CASE x \in 1 .. nsent
      <4>1. PICK i \in 1 .. Len(pkts) : pkts[i].data = x
        BY <2>1, <3>2 DEF GuardedInOrder
      <4>2. i \in 1 .. Len(pkts')
        BY <1>11
      <4>3. \A y \in x .. b : y \in x .. nsent \/ y = b
        BY <1>1, <3>2 DEF b
      <4>4. \A y \in x .. b : ~Rec(y)
        BY <1>10, <2>1, <3>2, <4>3 DEF GuardedInOrder
      <4> QED
        BY <1>11, <4>1, <4>2, <4>4
    <3> QED
      BY <1>13, <3>1, <3>2
  <2>2. ASSUME NEW j \in 1 .. Len(pkts'), Guarded(pkts'[j].seq),
               ~Rec(pkts'[j].data), NEW i \in 1 .. j - 1
        PROVE  pkts'[i].data < pkts'[j].data
    <3>1. CASE j \in 1 .. Len(pkts)
      <4>1. i \in 1 .. Len(pkts)
        BY <1>11, <3>1
      <4> QED
        BY <1>11, <2>2, <3>1, <4>1 DEF GuardedInOrder
    <3>2. CASE j = Len(pkts) + 1
      <4>1. i \in 1 .. Len(pkts)
        BY <1>11, <3>2
      <4>2. pkts[i].data \in l + 1 .. nsent
        BY <4>1 DEF SenderAt, Underway
      <4>3. pkts[i].data < b
        BY <1>1, <4>2 DEF b
      <4> QED
        BY <1>7, <1>11, <3>2, <4>1, <4>3
    <3> QED
      BY <1>11, <3>1, <3>2
  <2> QED
    BY <1>3, <1>12, <2>1, <2>2 DEF GuardedInOrder, Guarded
<1> QED
  BY <1>14, <1>15, <1>16

LEMMA FifoAck ==
  ASSUME Fits, TypeOK, Inv, NEW l \in Nat, SenderAt(l), ReceiverInv, DriverAck
  PROVE  ReceiverInv'
<1> USE DEF ReceiverInv
<1> DEFINE a == Head(acks)
<1>1. /\ acks \in Seq(Slots) /\ acks # <<>> /\ sendbuf \in [Slots -> BlockContents]
  BY RecordsIn DEF DriverAck
<1>2. /\ sendbuf' = [sendbuf EXCEPT ![a] = Empty]
      /\ acks' = Tail(acks) /\ UNCHANGED <<nsent, pkts, serverVars>>
  BY DEF DriverAck, ReceiveAck
<1>3. a \in Slots /\ In(a, acks)
  BY <1>1, TailOf
<1>4. \A s : s # a => (In(s, acks') <=> In(s, acks))
  BY <1>1, <1>2, TailOf
<1> HIDE DEF a
<1>5. ASSUME NEW k \in 1 .. nsent
      PROVE  Kept(k)' <=> Kept(k) /\ SlotOf(k) # a
  <2>1. SlotOf(k) \in Slots /\ k # Empty
    BY SlotType DEF Empty
  <2>2. sendbuf'[SlotOf(k)] = IF SlotOf(k) = a THEN Empty ELSE sendbuf[SlotOf(k)]
    BY <1>1, <1>2, <2>1
  <2> QED
    BY <2>1, <2>2 DEF Kept
<1>6. \A x : Rec(x)' <=> Rec(x)
  BY <1>2 DEF Rec, Got, serverVars
<1>7. WindowHolds' /\ GuardedInOrder'
  BY <1>2, <1>6 DEF WindowHolds, GuardedInOrder, Got, serverVars
<1>8. FramesKept'
  <2>1. \A k \in 1 .. nsent : ~Rec(k) => Kept(k)'
    BY <1>3, <1>5 DEF FramesKept
  <2>2. \A k \in 1 .. nsent : Kept(k)' /\ In(SlotOf(k), acks') => Rec(k)
    BY <1>4, <1>5 DEF FramesKept
  <2> QED
    BY <1>2, <1>6, <2>1, <2>2 DEF FramesKept
<1> QED
  BY <1>7, <1>8

(* A lost acknowledgement changes nothing for the frames.                  *)
LEMMA FifoAckGone ==
  ASSUME Fits, TypeOK, Inv, ReceiverInv, DriverBadAck \/ AckLost
  PROVE  ReceiverInv'
<1>1. /\ acks # <<>> /\ acks' = Tail(acks)
      /\ UNCHANGED <<nsent, pkts, sendbuf, serverVars>>
  BY DEF DriverBadAck, DiscardAck, AckLost, clientVars, bufferVars
<1>2. \A s : In(s, acks') => In(s, acks)
  BY <1>1, RecordsIn, TailOf
<1>3. /\ \A x : Rec(x)' <=> Rec(x)
      /\ \A x : Kept(x)' <=> Kept(x)
  BY <1>1 DEF Rec, Kept, Got, serverVars
<1>4. FramesKept'
  BY <1>1, <1>2, <1>3 DEF ReceiverInv, FramesKept
<1>5. WindowHolds' /\ GuardedInOrder'
  BY <1>1, <1>3 DEF ReceiverInv, WindowHolds, GuardedInOrder, Got, serverVars
<1> QED
  BY <1>4, <1>5 DEF ReceiverInv

(* The packet at the head of the network leaves it.                        *)
LEMMA HeadLeaves ==
  ASSUME Fits, TypeOK, Inv, NEW l \in Nat, SenderAt(l), GuardedInOrder,
         pkts # <<>>, pkts' = Tail(pkts)
  PROVE  /\ Head(pkts) = pkts[1] /\ 1 \in 1 .. Len(pkts)
         /\ Head(pkts).data \in l + 1 .. nsent
         /\ Head(pkts).seq = SlotOf(Head(pkts).data)
         /\ \A i \in 1 .. Len(pkts') : /\ pkts'[i] = pkts[i + 1]
                                       /\ i + 1 \in 1 .. Len(pkts)
                                       /\ pkts'[i].data # Head(pkts).data
         /\ \A i \in 1 .. Len(pkts) : pkts[i].data # Head(pkts).data =>
              \E j \in 1 .. Len(pkts') : pkts'[j] = pkts[i]
         /\ \A j \in 1 .. Len(pkts') :
              Guarded(pkts'[j].seq) /\ ~Rec(pkts'[j].data) =>
              \A i \in 1 .. j - 1 : pkts'[i].data < pkts'[j].data
<1> DEFINE S == [seq : Slots, data : BlockContents]
           m == Head(pkts)
<1>1. pkts \in Seq(S)
  BY RecordsIn
<1>2. \A i \in 1 .. Len(pkts) : pkts[i] \in S
  <2> HIDE DEF S
  <2> QED
    BY <1>1
<1>3. /\ 1 \in 1 .. Len(pkts) /\ m = pkts[1] /\ m \in S /\ Len(pkts) \in Nat
      /\ Len(pkts') = Len(pkts) - 1
      /\ \A i \in 1 .. Len(pkts') : /\ pkts'[i] = pkts[i + 1]
                                    /\ i + 1 \in 1 .. Len(pkts)
      /\ ~In(m, pkts')
  <2> HIDE DEF S
  <2>1. Distinct(pkts)
    BY DEF SenderAt, Underway
  <2>2. /\ m = pkts[1] /\ m \in S /\ Len(pkts) \in Nat /\ Len(pkts) >= 1
        /\ Len(pkts') = Len(pkts) - 1
        /\ \A i \in 1 .. Len(pkts') : /\ pkts'[i] = pkts[i + 1]
                                      /\ i + 1 \in 1 .. Len(pkts)
    BY <1>1, TailOf
  <2>3. ~In(m, pkts')
    BY <1>1, <2>1, DistinctTail
  <2> QED
    BY <2>2, <2>3
<1>4. m.data \in l + 1 .. nsent /\ m.seq = SlotOf(m.data)
  BY <1>3 DEF SenderAt, Underway
<1>5. ASSUME NEW i \in 1 .. Len(pkts') PROVE pkts'[i].data # m.data
  <2>1. pkts'[i] \in S /\ pkts'[i].seq = SlotOf(pkts'[i].data)
    BY <1>2, <1>3 DEF SenderAt, Underway
  <2>2. pkts'[i] # m
    BY <1>3 DEF In
  <2> QED
    BY <1>3, <1>4, <2>1, <2>2
<1>6. ASSUME NEW i \in 1 .. Len(pkts), pkts[i].data # m.data
      PROVE  \E j \in 1 .. Len(pkts') : pkts'[j] = pkts[i]
  <2>1. i # 1
    BY <1>3, <1>6
  <2>2. i - 1 \in 1 .. Len(pkts') /\ (i - 1) + 1 = i
    BY <1>3, <2>1
  <2> QED
    BY <1>3, <2>2
<1>7. ASSUME NEW j \in 1 .. Len(pkts'), Guarded(pkts'[j].seq),
             ~Rec(pkts'[j].data), NEW i \in 1 .. j - 1
      PROVE  pkts'[i].data < pkts'[j].data
  <2>1. i \in 1 .. Len(pkts') /\ i + 1 \in 1 .. (j + 1) - 1
    BY <1>3
  <2>2. /\ pkts'[i] = pkts[i + 1] /\ pkts'[j] = pkts[j + 1]
        /\ j + 1 \in 1 .. Len(pkts)
    BY <1>3, <2>1
  <2> QED
    BY <1>7, <2>1, <2>2 DEF GuardedInOrder
<1> QED
  BY <1>3, <1>4, <1>5, <1>6, <1>7

(* A loss the transfer survives.                                           *)
LEMMA FifoLost ==
  ASSUME Fits, Benign, TypeOK, Inv, NEW l \in Nat, SenderAt(l), ReceiverInv, PacketLost
  PROVE  ReceiverInv'
<1> USE DEF ReceiverInv
<1>1. /\ pkts # <<>> /\ pkts' = Tail(pkts) /\ Head(pkts).seq \in LossySlots
      /\ UNCHANGED <<nsent, sendbuf, acks, serverVars>>
  BY DEF PacketLost, clientVars, bufferVars
<1>2. /\ Head(pkts).seq = SlotOf(Head(pkts).data)
      /\ \A i \in 1 .. Len(pkts') : /\ pkts'[i] = pkts[i + 1]
                                    /\ i + 1 \in 1 .. Len(pkts)
      /\ \A i \in 1 .. Len(pkts) : pkts[i].data # Head(pkts).data =>
           \E j \in 1 .. Len(pkts') : pkts'[j] = pkts[i]
      /\ \A j \in 1 .. Len(pkts') :
           Guarded(pkts'[j].seq) /\ ~Rec(pkts'[j].data) =>
           \A i \in 1 .. j - 1 : pkts'[i].data < pkts'[j].data
  BY <1>1, HeadLeaves
<1>3. ~Guarded(SlotOf(Head(pkts).data))
  BY <1>1, <1>2 DEF Benign, Guarded
<1>4. /\ \A x : Rec(x)' <=> Rec(x)
      /\ \A x : Kept(x)' <=> Kept(x)
  BY <1>1 DEF Rec, Kept, Got, serverVars
<1>5. WindowHolds'
  BY <1>1 DEF WindowHolds, Got, serverVars
<1>6. FramesKept'
  BY <1>1, <1>4 DEF FramesKept
<1>7. GuardedInOrder'
  <2>1. ASSUME NEW k \in 1 .. nsent, ~Rec(k), Guarded(SlotOf(k))
        PROVE  \E i \in 1 .. Len(pkts') : pkts'[i].data = k
    <3>1. PICK i \in 1 .. Len(pkts) : pkts[i].data = k
      BY <2>1 DEF GuardedInOrder
    <3>2. pkts[i].data # Head(pkts).data
      BY <1>3, <2>1, <3>1
    <3> QED
      BY <1>2, <3>1, <3>2
  <2>2. \A k \in 1 .. nsent : ~Rec(k) /\ Guarded(SlotOf(k)) =>
          \A m \in k .. nsent : ~Rec(m)
    BY DEF GuardedInOrder
  <2> QED
    BY <1>1, <1>2, <1>4, <2>1, <2>2 DEF GuardedInOrder, Guarded
<1> QED
  BY <1>5, <1>6, <1>7

(* The slots of the frames of the server's window, round the buffer.       *)
LEMMA WindowSlots ==
  ASSUME Fits, NEW g \in Nat, NEW f \in -1 .. N - 2, g % N = (f + 1) % N,
         NEW o \in 1 .. W
  PROVE  SlotOf(g + o) = Place(f, o) /\ SlotOf(g + o) \in Slots
<1>1. N \in Nat /\ W \in Nat /\ W + 1 < N
  BY Sizes
<1>2. (f + 1) % N = f + 1
  <2>1. f + 2 \in 1 .. N /\ (f + 2) - 1 = f + 1
    BY <1>1
  <2>2. SlotOf(f + 2) = (f + 2) - 1
    BY <2>1, FirstRound
  <2> QED
    BY <2>1, <2>2 DEF SlotOf
<1>3. o \in 1 .. N
  BY <1>1
<1> DEFINE r == g % N
<1>4. SlotOf(g + o) = IF r + o <= N THEN r + o - 1 ELSE r + o - 1 - N
  BY <1>3, SlotShift
<1>5. r = f + 1
  BY <1>2
<1> HIDE DEF r
<1>6. SlotOf(g + o) = Place(f, o)
  BY <1>1, <1>4, <1>5 DEF Place
<1>7. SlotOf(g + o) \in Slots
  <2>1. g + o \in Nat /\ g + o >= 1
    BY <1>1
  <2> QED
    BY <2>1, SlotType
<1> QED
  BY <1>6, <1>7

(* lfr comes to the last slot only when a whole window that ends there is  *)
(* delivered at once.                                                      *)
LEMMA SlideToLast ==
  ASSUME Fits, Inv, lfr < N - 1, NEW buf \in [Slots -> Contents],
         SlideStraight(buf) \/ SlideToGap(buf) \/ SlideAround(buf),
         lfr' = N - 1
  PROVE  /\ lfr + W = N - 1
         /\ \A o \in 1 .. W : buf[lfr + o] # Empty
<1>1. /\ N \in Nat /\ W \in Nat /\ W + 1 < N /\ lfr \in -1 .. N - 1 /\ laf \in 0 .. N - 1
      /\ laf = IF lfr + W <= N - 1 THEN lfr + W ELSE lfr + W - N
  BY Sizes DEF Inv, ServerTypeOK, LafOfLfr
<1>2. CASE SlideStraight(buf)
  <2>1. PICK i \in lfr + 1 .. laf + 1 :
          /\ \A s \in lfr + 1 .. i - 1 : buf[s] # Empty
          /\ lfr' = IF i - 1 > N - 1 THEN -1 ELSE i - 1
    BY <1>2 DEF SlideStraight, IsFirstEmpty
  <2>2. i = N /\ lfr + W = N - 1
    BY <1>1, <2>1
  <2>3. \A o \in 1 .. W : lfr + o \in lfr + 1 .. i - 1
    BY <1>1, <2>2
  <2> QED
    BY <2>1, <2>2, <2>3
<1>3. CASE SlideToGap(buf)
  <2>1. PICK i \in lfr + 1 .. N : (i < N \/ i = lfr + 1) /\ lfr' = i - 1
    BY <1>3 DEF SlideToGap
  <2> QED
    BY <1>1, <2>1
<1>4. CASE SlideAround(buf)
  <2>1. laf < lfr /\ \E j \in 0 .. laf + 1 : lfr' = j - 1
    BY <1>4 DEF SlideAround
  <2> QED
    BY <1>1, <2>1
<1> QED
  BY <1>2, <1>3, <1>4

(* The numbers of the server's side.                                       *)
LEMMA ReceiverNumbers ==
  ASSUME Fits, TypeOK, Inv, WindowHolds
  PROVE  /\ Got \in Nat /\ Got <= nsent /\ lfr \in -1 .. N - 2
         /\ Got % N = (lfr + 1) % N
         /\ recvbuf \in [Slots -> Contents]
         /\ recvbuf[lfr + 1] = Empty /\ SlotOf(Got + 1) = lfr + 1
<1>1. /\ N \in Nat /\ W \in Nat /\ W >= 1 /\ W + 1 < N
  BY Sizes
<1>2. /\ lfr \in -1 .. N - 1 /\ recvbuf \in [Slots -> Contents]
      /\ delivered \in Seq(Blocks)
      /\ Len(delivered) % N = (lfr + 1) % N
      /\ lfr < N - 1 => recvbuf[lfr + 1] = Empty
  BY DEF Inv, ServerTypeOK, LfrCountsDelivered, FrontIsEmpty
<1>3. Got \in Nat /\ Got % N = (lfr + 1) % N
  BY <1>2 DEF Got
<1>4. lfr \in -1 .. N - 2 /\ lfr < N - 1 /\ Got <= nsent
  BY <1>1, <1>2 DEF WindowHolds
<1>5. SlotOf(Got + 1) = lfr + 1
  <2>1. 1 \in 1 .. W
    BY <1>1
  <2>2. SlotOf(Got + 1) = Place(lfr, 1)
    BY <1>3, <1>4, <2>1, WindowSlots
  <2> QED
    BY <1>1, <1>4, <2>2 DEF Place
<1> QED
  BY <1>2, <1>3, <1>4, <1>5

(* lar is never past lfr: the frame the server waits for is still kept.    *)
LEMMA ServerAhead ==
  ASSUME Fits, TypeOK, Inv, NEW l \in Nat, SenderAt(l), ReceiverInv
  PROVE  l <= Got
<1>1. /\ N \in Nat /\ nsent \in Nat /\ l <= nsent
  BY Numbers DEF SenderAt
<1>2. /\ Got \in Nat /\ recvbuf[SlotOf(Got + 1)] = Empty
  BY ReceiverNumbers DEF ReceiverInv
<1> SUFFICES ASSUME Got < l PROVE FALSE
  BY <1>1, <1>2
<1> DEFINE k == Got + 1
<1>3. k \in 1 .. nsent /\ k \notin l + 1 .. nsent /\ ~(k <= Got)
  BY <1>1, <1>2
<1>4. ~Rec(k)
  BY <1>2, <1>3 DEF Rec
<1> HIDE DEF k
<1>5. Kept(k)
  BY <1>3, <1>4 DEF ReceiverInv, FramesKept
<1> QED
  BY <1>3, <1>5, KeptFrames

(* What arrives is in the server's window: the packets before it in the    *)
(* window, whose loss would leave it behind, are never lost.               *)
LEMMA HeadInWindow ==
  ASSUME Fits, Benign, TypeOK, Inv, NEW l \in Nat, SenderAt(l), ReceiverInv,
         pkts # <<>>, pkts' = Tail(pkts), ~Rec(Head(pkts).data)
  PROVE  Head(pkts).data \in Got + 1 .. Got + W
<1> DEFINE j == Head(pkts).data
<1>1. /\ N \in Nat /\ W \in Nat /\ 1 <= W /\ W + 1 < N /\ nsent \in Nat
      /\ l <= nsent /\ lar \in -1 .. N - 1 /\ lfs \in -1 .. N - 2
      /\ nsent <= nread /\ nread <= l + N /\ nread \in Nat
  BY Numbers DEF SenderAt
<1>2. Got \in Nat /\ recvbuf[SlotOf(Got + 1)] = Empty
  BY ReceiverNumbers DEF ReceiverInv
<1>3. l <= Got
  BY ServerAhead
<1>4. j = pkts[1].data /\ 1 \in 1 .. Len(pkts) /\ j \in l + 1 .. nsent
  BY HeadLeaves DEF ReceiverInv
<1>5. ~Rec(j)
  OBVIOUS
<1>6. j > Got
  BY <1>1, <1>2, <1>4, <1>5 DEF Rec
<1> HIDE DEF j
<1> SUFFICES ASSUME j > Got + W PROVE FALSE
  BY <1>1, <1>2, <1>4, <1>6 DEF j
<1>7. CASE LarStuck(l)
  BY <1>1, <1>2, <1>3, <1>4, <1>7 DEF LarStuck
<1>8. CASE LarPassed(l)
  <2>1. /\ l = Got /\ nsent = l + W + 1
        /\ lfs < lar /\ N - 1 - lar + lfs = W /\ lfs >= 0
    BY <1>1, <1>2, <1>3, <1>4, <1>8 DEF LarPassed
  <2> DEFINE k == l + 1
  <2>2. /\ k \in l + 1 .. l + N /\ k \in 1 .. nsent /\ k < j /\ k = Got + 1
        /\ ~(k <= Got) /\ k - l = 1
    BY <1>1, <1>2, <1>4, <2>1
  <2>3. SlotOf(k) = IF lar = N - 1 THEN 0 ELSE lar + 1
    <3>1. SlotOf(k) = IF lar = N - 1 THEN k - l - 1
                      ELSE IF lar + (k - l) <= N - 1 THEN lar + (k - l)
                      ELSE lar + (k - l) - N
      <4> HIDE DEF k
      <4> QED
        BY <1>8, <2>2, PassedSlots DEF SenderAt
    <3>2. k - l = 1 /\ lar \in Int /\ N \in Int /\ lar <= N - 1
      BY <1>1, <2>2
    <3> HIDE DEF k
    <3> QED
      BY <3>1, <3>2
  <2>4. Guarded(SlotOf(k))
    BY <1>1, <2>1, <2>3 DEF Guarded
  <2>5. ~Rec(k)
    BY <1>2, <2>2 DEF Rec
  <2> HIDE DEF k
  <2>6. PICK i \in 1 .. Len(pkts) : pkts[i].data = k
    BY <2>2, <2>4, <2>5 DEF ReceiverInv, GuardedInOrder
  <2>7. Guarded(pkts[i].seq) /\ i # 1
    BY <1>1, <1>4, <2>2, <2>4, <2>6 DEF SenderAt, Underway
  <2>8. 1 \in 1 .. i - 1
    BY <2>7
  <2>9. pkts[1].data < pkts[i].data
    BY <2>5, <2>6, <2>7, <2>8 DEF ReceiverInv, GuardedInOrder
  <2>10. j < k
    BY <1>4, <2>6, <2>9
  <2>11. k < j /\ j \in Int /\ k \in Int
    BY <1>1, <1>4, <2>2
  <2> QED
    BY <2>10, <2>11
<1> QED
  BY <1>7, <1>8 DEF SenderAt

(* A frame that was received is not taken for another one, which has its   *)
(* slot a round later: the window is less than half the buffer.            *)
LEMMA ReceivedIgnored ==
  ASSUME Fits, Benign, TypeOK, Inv, NEW l \in Nat, SenderAt(l), ReceiverInv,
         ServerReceives, Rec(Head(pkts).data)
  PROVE  UNCHANGED serverVars
<1> DEFINE j == Head(pkts).data
<1>1. /\ N \in Nat /\ W \in Nat /\ 1 <= W /\ 2 * W < N /\ nsent \in Nat
      /\ l <= nsent /\ lar \in -1 .. N - 1 /\ lfs \in -1 .. N - 2
      /\ nsent <= nread /\ nread <= l + N /\ nread \in Nat
  BY Numbers DEF SenderAt, Benign
<1>2. /\ Got \in Nat /\ Got <= nsent /\ lfr \in -1 .. N - 2
      /\ Got % N = (lfr + 1) % N
  BY ReceiverNumbers DEF ReceiverInv
<1>3. /\ pkts # <<>> /\ pkts' = Tail(pkts) /\ ReceivePacket(Head(pkts))
  BY DEF ServerReceives
<1>4. Head(pkts).seq = SlotOf(j) /\ j \in l + 1 .. nsent
  BY <1>3, HeadLeaves DEF ReceiverInv
<1>5. SlotOf(j) \in Slots
  <2>1. j \in Nat /\ j >= 1
    BY <1>1, <1>4
  <2> QED
    BY <2>1, SlotType
<1> SUFFICES ASSUME InWindow(SlotOf(j)), recvbuf[SlotOf(j)] = Empty
             PROVE  FALSE
  BY <1>3, <1>4 DEF ReceivePacket, Store, Ignore
<1> HIDE DEF j
<1>6. PICK o \in 1 .. W : SlotOf(j) = Place(lfr, o)
  BY <1>5, PlaceOf
<1>7. SlotOf(Got + o) = SlotOf(j)
  BY <1>2, <1>6, WindowSlots
<1>8. j <= Got
  BY DEF Rec, j
<1>9. nsent <= l + W + 1
  <2>1. CASE LarPassed(l)
    BY <1>1, <2>1 DEF LarPassed
  <2>2. CASE LarStuck(l)
    BY <1>1, <2>2 DEF LarStuck
  <2> QED
    BY <2>1, <2>2 DEF SenderAt
<1>10. Got + o \in l + 1 .. l + N /\ j \in l + 1 .. l + N /\ j # Got + o
  BY <1>1, <1>2, <1>4, <1>8, <1>9
<1> QED
  BY <1>7, <1>10, SlotsDiffer

(* The frame at the head is stored at its place, and the run at the front  *)
(* of the window, none or some of the frames that follow, handed over.     *)
LEMMA StoreHead ==
  ASSUME Fits, Benign, TypeOK, Inv, NEW l \in Nat, SenderAt(l), ReceiverInv,
         ServerReceives, NEW j, j = Head(pkts).data, ~Rec(j)
  PROVE  \E n \in 0 .. W :
           /\ Got' = Got + n /\ Got + n <= nsent
           /\ delivered' = [i \in 1 .. Got + n |-> i]
           /\ lfr' < N - 1
           /\ \A k \in Got + 1 .. Got + n : k = j \/ recvbuf[SlotOf(k)] # Empty
           /\ \A k \in Got + n + 1 .. Got + n + W :
                recvbuf'[SlotOf(k)] = IF k <= Got + W
                                      THEN IF k = j THEN j ELSE recvbuf[SlotOf(k)]
                                      ELSE Empty
<1> DEFINE m == Head(pkts)
           buf == [recvbuf EXCEPT ![m.seq] = m.data]
<1>1. /\ N \in Nat /\ W \in Nat /\ 1 <= W /\ W + 1 < N /\ nsent \in Nat
      /\ l <= nsent
  BY Numbers DEF SenderAt
<1>2. /\ Got \in Nat /\ Got <= nsent /\ lfr \in -1 .. N - 2
      /\ Got % N = (lfr + 1) % N
      /\ recvbuf \in [Slots -> Contents]
      /\ recvbuf[lfr + 1] = Empty
  BY ReceiverNumbers DEF ReceiverInv
<1>3. pkts # <<>> /\ ReceivePacket(m) /\ pkts' = Tail(pkts)
  BY DEF ServerReceives
<1>4. /\ m = pkts[1] /\ 1 \in 1 .. Len(pkts)
      /\ j \in l + 1 .. nsent /\ m.seq = SlotOf(j) /\ m.data = j
  BY <1>3, HeadLeaves DEF ReceiverInv
<1>5. j \in Got + 1 .. Got + W
  BY <1>3, HeadInWindow
<1>6. m \in Packets /\ j \in Contents /\ SlotOf(j) \in Slots
  <2>1. m \in Packets
    <3>1. m \in [seq : Slots, data : BlockContents]
      BY <1>3, HeadRecord
    <3> QED
      BY <3>1, PacketsAllowed
  <2> HIDE DEF m
  <2> QED
    BY <1>4, <2>1 DEF Packets
<1>7. ~Rec(j) /\ j # Empty /\ j \in 1 .. nsent
  BY <1>1, <1>4 DEF Empty
<1>8. recvbuf[SlotOf(j)] = Empty
  BY <1>2, <1>5, <1>7 DEF Rec
<1>9. \A o \in 1 .. W : /\ SlotOf(Got + o) = Place(lfr, o)
                        /\ SlotOf(Got + o) \in Slots
                        /\ SlotOf(Got + o) = (lfr + o) % N
  <2>1. \A o \in 1 .. W : SlotOf(Got + o) = Place(lfr, o) /\ SlotOf(Got + o) \in Slots
    BY <1>2, WindowSlots
  <2>2. lfr \in -1 .. N - 1
    BY <1>1, <1>2
  <2>3. \A o \in 1 .. W : (lfr + o) % N = Place(lfr, o)
    BY <2>2, PlaceIsSlot
  <2> QED
    BY <2>1, <2>3
<1>10. InWindow(m.seq)
  <2>1. laf = IF lfr + W <= N - 1 THEN lfr + W ELSE lfr + W - N
    BY DEF Inv, LafOfLfr
  <2>2. PICK o \in 1 .. W : o = j - Got /\ Got + o = j
    BY <1>1, <1>2, <1>5
  <2>3. SlotOf(j) = IF lfr + o <= N - 1 THEN lfr + o ELSE lfr + o - N
    BY <1>9, <2>2 DEF Place
  <2> HIDE DEF m
  <2> QED
    BY <1>1, <1>2, <1>4, <2>1, <2>3 DEF InWindow
<1>11. Store(m)
  BY <1>3, <1>4, <1>8, <1>10 DEF ReceivePacket, Ignore
<1>12. /\ buf \in [Slots -> Contents] /\ Held(buf)
       /\ SlideStraight(buf) \/ SlideToGap(buf) \/ SlideAround(buf)
  <2>1. buf \in [Slots -> Contents] /\ Held(buf)
    BY <1>6, <1>10, StoredHeld
  <2> QED
    BY <1>11, <2>1 DEF Store
<1>13. Inv'
  BY <1>3, <1>6, NextInv DEF ServerNext
<1>14. \A k \in Got + 1 .. Got + W :
         /\ SlotOf(k) \in Slots
         /\ buf[SlotOf(k)] = IF k = j THEN j ELSE recvbuf[SlotOf(k)]
         /\ buf[SlotOf(k)] \in {Empty, k}
         /\ buf[SlotOf(k)] # Empty => k <= nsent
  <2> SUFFICES ASSUME NEW k \in Got + 1 .. Got + W
               PROVE  /\ SlotOf(k) \in Slots
                      /\ buf[SlotOf(k)] = IF k = j THEN j ELSE recvbuf[SlotOf(k)]
                      /\ buf[SlotOf(k)] \in {Empty, k}
                      /\ buf[SlotOf(k)] # Empty => k <= nsent
    OBVIOUS
  <2>1. k - Got \in 1 .. W /\ Got + (k - Got) = k
    BY <1>1, <1>2
  <2>2. SlotOf(k) \in Slots
    BY <1>9, <2>1
  <2>3. SlotOf(k) = SlotOf(j) => k = j
    <3>1. k \in Got + 1 .. Got + N /\ j \in Got + 1 .. Got + N
      BY <1>1, <1>2, <1>5
    <3> QED
      BY <1>2, <3>1, SlotsDiffer
  <2>4. buf[SlotOf(k)] = IF SlotOf(k) = m.seq THEN m.data ELSE recvbuf[SlotOf(k)]
    BY <1>2, <2>2
  <2> HIDE DEF buf, m
  <2>5. buf[SlotOf(k)] = IF k = j THEN j ELSE recvbuf[SlotOf(k)]
    BY <1>4, <2>3, <2>4
  <2>6. recvbuf[SlotOf(k)] \in {Empty, k} /\ (recvbuf[SlotOf(k)] # Empty => k <= nsent)
    BY DEF ReceiverInv, WindowHolds
  <2>7. j <= nsent
    BY <1>1, <1>4
  <2> QED
    BY <2>2, <2>5, <2>6, <2>7
<1> HIDE DEF buf, m
<1>15. PICK n \in 0 .. W : HandsOver(buf, n)
  BY <1>12, SlideHandsOver
<1>16. \A k \in 1 .. n : /\ k \in 1 .. W /\ Got + k \in Got + 1 .. Got + W
                         /\ buf[Place(lfr, k)] = Got + k
                         /\ Got + k <= nsent
  <2> SUFFICES ASSUME NEW k \in 1 .. n
               PROVE  /\ k \in 1 .. W /\ Got + k \in Got + 1 .. Got + W
                      /\ buf[Place(lfr, k)] = Got + k
                      /\ Got + k <= nsent
    OBVIOUS
  <2>1. k \in 1 .. W /\ Got + k \in Got + 1 .. Got + W
    BY <1>1, <1>2
  <2>2. buf[Place(lfr, k)] # Empty
    BY <1>15 DEF HandsOver
  <2> QED
    BY <1>9, <1>14, <2>1, <2>2
<1>17. /\ delivered = [i \in 1 .. Got |-> i]
       /\ delivered' = delivered \o [k \in 1 .. n |-> Got + k]
  <2>1. delivered = [i \in 1 .. Got |-> i]
    BY DEF ReceiverInv, WindowHolds
  <2>2. delivered' = delivered \o [k \in 1 .. n |-> buf[Place(lfr, k)]]
    BY <1>15 DEF HandsOver
  <2> QED
    BY <1>16, <2>1, <2>2
<1>18. delivered' = [i \in 1 .. Got + n |-> i] /\ Got' = Got + n
  <2> DEFINE g == Got
  <2>1. g \in Nat /\ n \in Nat
    BY <1>1, <1>2
  <2>2. delivered' = [i \in 1 .. g |-> i] \o [k \in 1 .. n |-> g + k]
    BY <1>17
  <2>3. Got' = Len(delivered')
    BY DEF Got
  <2> HIDE DEF g
  <2>4. [i \in 1 .. g |-> i] \o [k \in 1 .. n |-> g + k] = [i \in 1 .. g + n |-> i]
    BY <2>1
  <2>5. delivered' = [i \in 1 .. g + n |-> i]
    BY <2>2, <2>4
  <2>6. Len([i \in 1 .. g + n |-> i]) = g + n
    BY <2>1
  <2> QED
    BY <2>3, <2>5, <2>6 DEF g
<1>19. Got + n <= nsent
  <2>1. CASE n = 0
    BY <1>2, <2>1
  <2>2. CASE n # 0
    <3>1. n \in 1 .. n
      BY <1>1, <2>2
    <3> QED
      BY <1>16, <3>1
  <2> QED
    BY <2>1, <2>2
<1>20. lfr' \in -1 .. N - 1
  BY <1>13 DEF Inv, ServerTypeOK
<1>21. lfr' < N - 1
  <2> SUFFICES ASSUME lfr' = N - 1 PROVE FALSE
    BY <1>1, <1>20
  <2>1. lfr + W = N - 1 /\ \A o \in 1 .. W : buf[lfr + o] # Empty
    <3>1. lfr < N - 1
      BY <1>1, <1>2
    <3> QED
      BY <1>12, <3>1, SlideToLast
  <2>2. W >= 2
    BY DEF Benign
  <2>3. /\ 1 \in 1 .. W /\ 2 \in 1 .. W
        /\ Got + 1 \in Got + 1 .. Got + W /\ Got + 2 \in Got + 1 .. Got + W
        /\ lfr + 1 <= N - 1 /\ lfr + 2 <= N - 1 /\ lfr + 1 = N - W
    BY <1>1, <1>2, <2>1, <2>2
  <2>4. SlotOf(Got + 1) = lfr + 1 /\ SlotOf(Got + 2) = lfr + 2
    BY <1>9, <2>3 DEF Place
  <2>5. j = Got + 1
    BY <1>2, <1>14, <2>1, <2>3, <2>4
  <2>6. recvbuf[SlotOf(Got + 2)] # Empty /\ Got + 2 <= nsent
    <3>1. Got + 2 # j
      BY <1>2, <2>5
    <3>2. buf[SlotOf(Got + 2)] # Empty
      BY <2>1, <2>3, <2>4
    <3> QED
      BY <1>14, <2>3, <3>1, <3>2
  <2>7. Rec(Got + 2)
    BY <1>1, <1>2, <2>2, <2>6 DEF Rec
  <2>8. Guarded(SlotOf(j))
    BY <1>1, <2>3, <2>4, <2>5 DEF Guarded
  <2>9. \A k \in j .. nsent : ~Rec(k)
    BY <1>7, <2>8 DEF ReceiverInv, GuardedInOrder
  <2>10. Got + 2 \in j .. nsent
    BY <1>1, <1>2, <2>5, <2>6
  <2> QED
    BY <2>7, <2>9, <2>10
<1>22. \A k \in Got + 1 .. Got + n : k = j \/ recvbuf[SlotOf(k)] # Empty
  <2> SUFFICES ASSUME NEW k \in Got + 1 .. Got + n
               PROVE  k = j \/ recvbuf[SlotOf(k)] # Empty
    OBVIOUS
  <2>1. k - Got \in 1 .. n /\ Got + (k - Got) = k /\ k \in Got + 1 .. Got + W
    BY <1>1, <1>2
  <2>2. k - Got \in 1 .. W /\ buf[Place(lfr, k - Got)] = k
    BY <1>16, <2>1
  <2>3. SlotOf(k) = Place(lfr, k - Got)
    BY <1>9, <2>1, <2>2
  <2>4. k # Empty
    BY <1>1, <1>2 DEF Empty
  <2> QED
    BY <1>14, <2>1, <2>2, <2>3, <2>4
<1>23. ASSUME NEW k \in Got + n + 1 .. Got + n + W
       PROVE  recvbuf'[SlotOf(k)] = IF k <= Got + W
                                    THEN IF k = j THEN j ELSE recvbuf[SlotOf(k)]
                                    ELSE Empty
  <2>1. PICK f \in -1 .. N - 2 : f = lfr'
    BY <1>1, <1>20, <1>21
  <2>2. PICK o \in 1 .. W : o = k - (Got + n) /\ (Got + n) + o = k
    BY <1>1, <1>2
  <2>3. (Got + n) % N = (f + 1) % N
    <3>1. Len(delivered') % N = (lfr' + 1) % N
      BY <1>13 DEF Inv, LfrCountsDelivered
    <3>2. Len(delivered') = Got + n
      BY <1>18 DEF Got
    <3> QED
      BY <2>1, <3>1, <3>2
  <2>4. SlotOf(k) = (lfr' + o) % N
    <3>1. Got + n \in Nat
      BY <1>1, <1>2
    <3>2. SlotOf(k) = Place(f, o)
      BY <2>2, <2>3, <3>1, WindowSlots
    <3>3. f \in -1 .. N - 1
      BY <1>1
    <3>4. (f + o) % N = Place(f, o)
      BY <3>3, PlaceIsSlot
    <3> QED
      BY <2>1, <3>2, <3>4
  <2>5. recvbuf'[(lfr' + o) % N]
          = IF o + n <= W THEN buf[(lfr + (o + n)) % N] ELSE Empty
    BY <1>12, <1>15, <1>20, WindowMoves
  <2>6. CASE o + n <= W
    <3>1. o + n \in 1 .. W /\ Got + (o + n) = k /\ k <= Got + W /\ k \in Got + 1 .. Got + W
      BY <1>1, <1>2, <2>2, <2>6
    <3>2. SlotOf(k) = (lfr + (o + n)) % N
      BY <1>9, <3>1
    <3>3. buf[SlotOf(k)] = IF k = j THEN j ELSE recvbuf[SlotOf(k)]
      BY <1>14, <3>1
    <3>4. recvbuf'[SlotOf(k)] = buf[SlotOf(k)]
      BY <2>4, <2>5, <2>6, <3>2
    <3> QED
      BY <3>1, <3>3, <3>4
  <2>7. CASE ~(o + n <= W)
    <3>1. ~(k <= Got + W)
      BY <1>1, <1>2, <2>2, <2>7
    <3> QED
      BY <2>4, <2>5, <2>7, <3>1
  <2> QED
    BY <2>6, <2>7
<1> QED
  BY <1>18, <1>19, <1>21, <1>22, <1>23

LEMMA FifoStore ==
  ASSUME Fits, Benign, TypeOK, Inv, NEW l \in Nat, SenderAt(l), ReceiverInv,
         ServerReceives, ~Rec(Head(pkts).data)
  PROVE  ReceiverInv'
<1>1. /\ N \in Nat /\ W \in Nat /\ 1 <= W /\ W + 1 < N /\ nsent \in Nat
      /\ l <= nsent /\ nsent <= nread /\ nread <= l + N /\ nread \in Nat
  BY Numbers DEF SenderAt
<1>2. Got \in Nat /\ Got <= nsent
  BY ReceiverNumbers DEF ReceiverInv
<1>3. /\ pkts # <<>> /\ pkts' = Tail(pkts) /\ acks' = Append(acks, Head(pkts).seq)
      /\ UNCHANGED <<sendbuf, nsent>> /\ Head(pkts).seq \in Slots /\ acks \in Seq(Slots)
  <2>1. Head(pkts).seq = SlotOf(Head(pkts).data) /\ Head(pkts).data \in l + 1 .. nsent
    BY HeadLeaves DEF ServerReceives, ReceiverInv
  <2>2. SlotOf(Head(pkts).data) \in Slots
    <3>1. Head(pkts).data \in Nat /\ Head(pkts).data >= 1
      BY <1>1, <2>1
    <3> QED
      BY <3>1, SlotType
  <2> QED
    BY <2>1, <2>2, RecordsIn DEF ServerReceives, AckOf, clientVars, bufferVars
<1>4. PICK j : j = Head(pkts).data
  OBVIOUS
<1>5. /\ j = pkts[1].data /\ 1 \in 1 .. Len(pkts) /\ Head(pkts).seq = SlotOf(j)
      /\ j \in l + 1 .. nsent
      /\ \A i \in 1 .. Len(pkts') : /\ pkts'[i] = pkts[i + 1]
                                    /\ i + 1 \in 1 .. Len(pkts)
                                    /\ pkts'[i].data # j
      /\ \A i \in 1 .. Len(pkts) : pkts[i].data # j =>
           \E x \in 1 .. Len(pkts') : pkts'[x] = pkts[i]
      /\ \A x \in 1 .. Len(pkts') :
           Guarded(pkts'[x].seq) /\ ~Rec(pkts'[x].data) =>
           \A i \in 1 .. x - 1 : pkts'[i].data < pkts'[x].data
  BY <1>3, <1>4, HeadLeaves DEF ReceiverInv
<1>6. j \in Got + 1 .. Got + W
  BY <1>3, <1>4, HeadInWindow
<1>7. PICK n \in 0 .. W :
        /\ Got' = Got + n /\ Got + n <= nsent
        /\ delivered' = [i \in 1 .. Got + n |-> i]
        /\ lfr' < N - 1
        /\ \A k \in Got + 1 .. Got + n : k = j \/ recvbuf[SlotOf(k)] # Empty
        /\ \A k \in Got + n + 1 .. Got + n + W :
             recvbuf'[SlotOf(k)] = IF k <= Got + W
                                   THEN IF k = j THEN j ELSE recvbuf[SlotOf(k)]
                                   ELSE Empty
  BY <1>4, StoreHead
<1>8. \A k \in Got + 1 .. Got + W : /\ recvbuf[SlotOf(k)] \in {Empty, k}
                                    /\ recvbuf[SlotOf(k)] # Empty => k <= nsent
  BY DEF ReceiverInv, WindowHolds
<1>9. j # Empty /\ j \in Nat
  BY <1>1, <1>5 DEF Empty
<1>10. ASSUME NEW k \in Nat, k >= 1
       PROVE  Rec(k)' <=> Rec(k) \/ k = j
  <2>1. Rec(k)' <=> k <= Got + n \/ (k <= Got + n + W /\ recvbuf'[SlotOf(k)] # Empty)
    BY <1>7 DEF Rec
  <2>2. CASE k <= Got
    BY <1>1, <1>2, <2>1, <2>2 DEF Rec
  <2>3. CASE k \in Got + 1 .. Got + n
    <3>1. k <= Got + n /\ k <= Got + W
      BY <1>1, <1>2, <2>3
    <3>2. k = j \/ recvbuf[SlotOf(k)] # Empty
      BY <1>7, <2>3
    <3> QED
      BY <2>1, <3>1, <3>2 DEF Rec
  <2>4. CASE k \in Got + n + 1 .. Got + n + W
    <3>1. recvbuf'[SlotOf(k)] = IF k <= Got + W
                                THEN IF k = j THEN j ELSE recvbuf[SlotOf(k)]
                                ELSE Empty
      BY <1>7, <2>4
    <3>2. ~(k <= Got + n) /\ ~(k <= Got) /\ k <= Got + n + W
      BY <1>1, <1>2, <2>4
    <3>3. CASE k <= Got + W
      BY <1>9, <2>1, <3>1, <3>2, <3>3 DEF Rec
    <3>4. CASE ~(k <= Got + W)
      <4>1. k # j
        BY <1>1, <1>2, <1>6, <3>4
      <4> QED
        BY <2>1, <3>1, <3>2, <3>4, <4>1 DEF Rec
    <3> QED
      BY <3>3, <3>4
  <2>5. CASE k > Got + n + W
    <3>1. /\ ~(k <= Got + n) /\ ~(k <= Got) /\ ~(k <= Got + n + W)
          /\ ~(k <= Got + W) /\ k # j
      BY <1>1, <1>2, <1>6, <2>5
    <3> QED
      BY <2>1, <3>1 DEF Rec
  <2> QED
    BY <1>1, <1>2, <2>2, <2>3, <2>4, <2>5
<1>11. \A k \in 1 .. nsent : Rec(k)' <=> Rec(k) \/ k = j
  <2>1. \A k \in 1 .. nsent : k \in Nat /\ k >= 1
    OBVIOUS
  <2> QED
    BY <1>10, <2>1
<1>12. WindowHolds'
  <2>1. ASSUME NEW k \in Got + n + 1 .. Got + n + W
        PROVE  /\ recvbuf'[SlotOf(k)] \in {Empty, k}
               /\ recvbuf'[SlotOf(k)] # Empty => k <= nsent
    <3>1. recvbuf'[SlotOf(k)] = IF k <= Got + W
                                THEN IF k = j THEN j ELSE recvbuf[SlotOf(k)]
                                ELSE Empty
      BY <1>7
    <3>2. k <= Got + W => k \in Got + 1 .. Got + W
      BY <1>1, <1>2
    <3>3. j <= nsent
      BY <1>1, <1>5
    <3> QED
      BY <1>8, <3>1, <3>2, <3>3
  <2> QED
    BY <1>3, <1>7, <2>1 DEF WindowHolds, Empty
<1>13. \A x : Kept(x)' <=> Kept(x)
  BY <1>3 DEF Kept
<1>14. \A i \in 1 .. Len(pkts') : pkts'[i].data \in 1 .. nsent
  <2>1. \A i \in 1 .. Len(pkts) : pkts[i].data \in l + 1 .. nsent
    BY DEF SenderAt, Underway
  <2>2. \A k \in l + 1 .. nsent : k \in 1 .. nsent
    BY <1>1
  <2> QED
    BY <1>5, <2>1, <2>2
<1>15. FramesKept'
  <2>1. \A k \in 1 .. nsent : ~Rec(k)' => Kept(k)
    BY <1>11 DEF ReceiverInv, FramesKept
  <2>2. ASSUME NEW k \in 1 .. nsent, Kept(k), In(SlotOf(k), acks')
        PROVE  Rec(k)'
    <3>1. \A s : In(s, acks') <=> In(s, acks) \/ s = SlotOf(j)
      BY <1>3, <1>5, AppendOf
    <3>2. In(SlotOf(k), acks) => Rec(k)
      BY <2>2 DEF ReceiverInv, FramesKept
    <3>3. SlotOf(k) = SlotOf(j) => k = j
      <4>1. k \in l + 1 .. nsent
        BY <2>2, KeptFrames
      <4>2. k \in l + 1 .. l + N /\ j \in l + 1 .. l + N
        BY <1>1, <1>5, <4>1
      <4> QED
        BY <4>2, SlotsDiffer
    <3> QED
      BY <1>11, <2>2, <3>1, <3>2, <3>3
  <2>3. \A k \in 1 .. nsent : /\ ~Rec(k)' => Kept(k)'
                              /\ Kept(k)' /\ In(SlotOf(k), acks') => Rec(k)'
    BY <1>13, <2>1, <2>2
  <2> QED
    BY <1>3, <2>3 DEF FramesKept
<1>16. GuardedInOrder'
  <2>1. ASSUME NEW k \in 1 .. nsent, ~Rec(k)', Guarded(SlotOf(k))
        PROVE  /\ \E i \in 1 .. Len(pkts') : pkts'[i].data = k
               /\ \A x \in k .. nsent : ~Rec(x)'
    <3>1. ~Rec(k) /\ k # j
      BY <1>11, <2>1
    <3>2. PICK i \in 1 .. Len(pkts) : pkts[i].data = k
      BY <2>1, <3>1 DEF ReceiverInv, GuardedInOrder
    <3>3. \E x \in 1 .. Len(pkts') : pkts'[x].data = k
      BY <1>5, <3>1, <3>2
    <3>4. j < k
      <4>1. Guarded(pkts[i].seq) /\ i # 1
        BY <1>5, <2>1, <3>1, <3>2 DEF SenderAt, Underway
      <4>2. 1 \in 1 .. i - 1
        BY <4>1
      <4> QED
        BY <1>5, <3>1, <3>2, <4>1, <4>2 DEF ReceiverInv, GuardedInOrder
    <3>5. \A x \in k .. nsent : ~Rec(x) /\ x # j /\ x \in 1 .. nsent
      <4>1. \A x \in k .. nsent : ~Rec(x)
        BY <2>1, <3>1 DEF ReceiverInv, GuardedInOrder
      <4>2. \A x \in k .. nsent : x # j /\ x \in 1 .. nsent
        BY <1>1, <1>9, <3>4
      <4> QED
        BY <4>1, <4>2
    <3> QED
      BY <1>11, <3>3, <3>5
  <2>2. \A k \in 1 .. nsent : ~Rec(k)' /\ Guarded(SlotOf(k)) =>
          /\ \E i \in 1 .. Len(pkts') : pkts'[i].data = k
          /\ \A x \in k .. nsent : ~Rec(x)'
    BY <2>1
  <2>3. ASSUME NEW x \in 1 .. Len(pkts'), Guarded(pkts'[x].seq),
               ~Rec(pkts[x].data)', NEW i \in 1 .. x - 1
        PROVE  pkts'[i].data < pkts'[x].data
    <3>1. PICK k \in 1 .. nsent : k = pkts'[x].data
      BY <1>14
    <3>2. ~Rec(k)'
      <4>1. ~(k <= Got' \/ (k <= Got' + W /\ recvbuf'[SlotOf(k)] # Empty))
        BY <2>3, <3>1 DEF Rec
      <4> QED
        BY <4>1 DEF Rec
    <3>3. ~Rec(k)
      BY <1>11, <3>2
    <3> QED
      BY <1>5, <2>3, <3>1, <3>3
  <2> QED
    BY <1>3, <2>2, <2>3 DEF GuardedInOrder, Guarded
<1> QED
  BY <1>12, <1>15, <1>16 DEF ReceiverInv

(* A frame that comes again changes nothing, but is acknowledged again.    *)
LEMMA FifoIgnore ==
  ASSUME Fits, Benign, TypeOK, Inv, NEW l \in Nat, SenderAt(l), ReceiverInv,
         ServerReceives, Rec(Head(pkts).data)
  PROVE  ReceiverInv'
<1> DEFINE j == Head(pkts).data
<1>1. /\ N \in Nat /\ nsent \in Nat /\ nread \in Nat
      /\ l <= nsent /\ nsent <= nread /\ nread <= l + N
  BY Numbers DEF SenderAt
<1>2. /\ pkts # <<>> /\ pkts' = Tail(pkts) /\ acks' = Append(acks, Head(pkts).seq)
      /\ UNCHANGED <<sendbuf, nsent, serverVars>> /\ acks \in Seq(Slots)
  BY ReceivedIgnored, RecordsIn
     DEF ServerReceives, AckOf, clientVars, bufferVars
<1>3. /\ Head(pkts).seq = SlotOf(j) /\ j \in l + 1 .. nsent
      /\ \A i \in 1 .. Len(pkts) : pkts[i].data # j =>
           \E x \in 1 .. Len(pkts') : pkts'[x] = pkts[i]
      /\ \A x \in 1 .. Len(pkts') :
           Guarded(pkts'[x].seq) /\ ~Rec(pkts'[x].data) =>
             \A i \in 1 .. x - 1 : pkts'[i].data < pkts'[x].data
  BY <1>2, HeadLeaves DEF ReceiverInv
<1>4. SlotOf(j) \in Slots
  <2>1. j \in Nat /\ j >= 1
    BY <1>1, <1>3
  <2> QED
    BY <2>1, SlotType
<1>5. Rec(j)
  OBVIOUS
<1> HIDE DEF j
<1>6. /\ \A x : Rec(x)' <=> Rec(x)
      /\ \A x : Kept(x)' <=> Kept(x)
  BY <1>2 DEF Rec, Kept, Got, serverVars
<1>7. WindowHolds'
  BY <1>2 DEF ReceiverInv, WindowHolds, Got, serverVars
<1>8. FramesKept'
  <2>1. ASSUME NEW k \in 1 .. nsent, Kept(k), In(SlotOf(k), acks')
        PROVE  Rec(k)
    <3>1. In(SlotOf(k), acks) \/ SlotOf(k) = SlotOf(j)
      BY <1>2, <1>3, <1>4, <2>1, AppendOf
    <3>2. CASE In(SlotOf(k), acks)
      BY <2>1, <3>2 DEF ReceiverInv, FramesKept
    <3>3. CASE SlotOf(k) = SlotOf(j)
      <4>1. k \in l + 1 .. nsent
        BY <2>1, KeptFrames
      <4>2. k \in l + 1 .. l + N /\ j \in l + 1 .. l + N
        BY <1>1, <1>3, <4>1
      <4>3. k = j
        BY <3>3, <4>2, SlotsDiffer
      <4> QED
        BY <1>5, <4>3
    <3> QED
      BY <3>1, <3>2, <3>3
  <2> QED
    BY <1>2, <1>6, <2>1 DEF ReceiverInv, FramesKept
<1>9. GuardedInOrder'
  <2>1. ASSUME NEW k \in 1 .. nsent, ~Rec(k), Guarded(SlotOf(k))
        PROVE  /\ \E i \in 1 .. Len(pkts') : pkts'[i].data = k
               /\ \A x \in k .. nsent : ~Rec(x)
    <3>1. PICK i \in 1 .. Len(pkts) : pkts[i].data = k
      BY <2>1 DEF ReceiverInv, GuardedInOrder
    <3>2. pkts[i].data # j
      BY <1>5, <2>1, <3>1
    <3>3. \E x \in 1 .. Len(pkts') : pkts'[x].data = k
      BY <1>3, <3>1, <3>2
    <3> QED
      BY <2>1, <3>3 DEF ReceiverInv, GuardedInOrder
  <2> QED
    BY <1>2, <1>3, <1>6, <2>1 DEF GuardedInOrder, Guarded
<1> QED
  BY <1>7, <1>8, <1>9 DEF ReceiverInv

LEMMA FifoNext ==
  ASSUME Fits, Benign, FifoInv, [Next]_vars, early' = early
  PROVE  FifoInv'
<1>1. SenderInv /\ TypeOK /\ Inv /\ ReceiverInv
  BY DEF FifoInv, SenderInv
<1>2. PICK l \in Nat : SenderAt(l)
  BY <1>1 DEF SenderInv
<1>3. SenderInv'
  BY <1>1, SenderNext
<1> SUFFICES ReceiverInv'
  BY <1>3 DEF FifoInv
<1>4. ASSUME UNCHANGED <<serverVars, pkts, acks, nsent, sendbuf>>
      PROVE  ReceiverInv'
  <2>1. \A k \in 1 .. nsent : Kept(k)' <=> Kept(k)
    BY <1>4 DEF Kept
  <2> QED
    BY <1>1, <1>4, <2>1, ServerUnmoved
<1>5. CASE DriverSelect \/ DriverIdle
           \/ (LeaveFtpc /\ UNCHANGED <<serverVars, netVars>>)
  BY <1>4, <1>5 DEF DriverSelect, Select, DriverIdle, NothingToSend, LeaveFtpc,
                    netVars, bufferVars
<1>6. CASE DriverResend
  BY <1>1, <1>2, <1>6, FifoResend
<1>7. CASE ReadFtpc /\ UNCHANGED <<serverVars, netVars>>
  BY <1>1, <1>2, <1>7, FifoRead
<1>8. CASE DriverAck
  BY <1>1, <1>2, <1>8, FifoAck
<1>9. CASE DriverBadAck \/ AckLost
  BY <1>1, <1>9, FifoAckGone
<1>10. CASE DriverSend
  BY <1>1, <1>2, <1>10, FifoSend
<1>11. ASSUME NEW id \in Slots, TimerExpires(id)
       PROVE  ReceiverInv'
  BY <1>4, <1>11 DEF TimerExpires, Timeout, bufferVars
<1>12. CASE ServerReceives
  BY <1>1, <1>2, <1>12, FifoStore, FifoIgnore
<1>13. CASE PacketLost
  BY <1>1, <1>2, <1>13, FifoLost
<1>14. CASE UNCHANGED vars
  BY <1>4, <1>14 DEF vars, clientVars, bufferVars, netVars
<1> QED
  BY <1>5, <1>6, <1>7, <1>8, <1>9, <1>10, <1>11, <1>12, <1>13, <1>14
     DEF Next, Driver, DriverRead

(* The invariant of the two daemons together, when no packet of slot 0 or  *)
(* of the last W slots is lost, until a timer expires too early.           *)
FifoWhilePatient == TypeOK /\ Inv /\ (early = 0 => FifoInv)

THEOREM FifoInvariance == ASSUME Fits, Benign PROVE Spec => []FifoWhilePatient
<1>1. Init => FifoWhilePatient
  BY FifoInit DEF FifoInv, SenderInv, FifoWhilePatient
<1>2. FifoWhilePatient /\ [Next]_vars => FifoWhilePatient'
  BY FifoNext, TypeNext, PatientUntil DEF FifoWhilePatient
<1> QED
  BY <1>1, <1>2, PTL DEF Spec

(* As long as no timer expired too early, every block that was read is     *)
(* delivered, held by the server or still in the send buffer, in every     *)
(* round of the sequence numbers: the second acknowledgement of a frame    *)
(* whose first one was lost does not free a slot that was used again.      *)
THEOREM NoneForgotten == ASSUME Fits, Benign PROVE Spec => []NothingForgotten
<1>1. FifoWhilePatient => NothingForgotten
  <2> SUFFICES ASSUME FifoInv, NEW k \in 1 .. nread
               PROVE  Remembered(k)
    BY DEF NothingForgotten, FifoWhilePatient
  <2>1. PICK l \in Nat : SenderAt(l) /\ TypeOK /\ Inv
    BY DEF FifoInv, SenderInv
  <2>2. nread \in Nat /\ nsent \in Nat /\ nsent <= nread /\ W \in Nat
    BY <2>1, Numbers DEF SenderAt
  <2>3. CASE k \in nsent + 1 .. nread
    BY <2>1, <2>3 DEF SenderAt, SlotsHold, SlotOf, Remembered
  <2>4. CASE k \in 1 .. nsent /\ ~Rec(k)
    BY <2>4 DEF FifoInv, ReceiverInv, FramesKept, Kept, SlotOf, Remembered
  <2>5. CASE k \in 1 .. nsent /\ Rec(k) /\ ~(k <= Got)
    <3>1. Got \in Nat
      BY <2>1 DEF Got, TypeOK, ServerTypeOK
    <3>2. k \in Got + 1 .. Got + W /\ recvbuf[SlotOf(k)] # Empty
      BY <2>2, <2>5, <3>1 DEF Rec
    <3>3. recvbuf[SlotOf(k)] = k
      BY <3>2 DEF FifoInv, ReceiverInv, WindowHolds
    <3> QED
      BY <2>2, <2>5, <3>3 DEF SlotOf, Remembered
  <2> QED
    BY <2>2, <2>3, <2>4, <2>5 DEF Got, Remembered
<1> QED
  BY <1>1, FifoInvariance, PTL
-----------------------------------------------------------------------------
LEMMA ReceiveDelivers ==
  ASSUME Fits, Benign, FifoInv, ServerReceives, early = 0
  PROVE  [Transfer!Next]_(Transfer!vars)
<1>1. TypeOK /\ Inv /\ ReceiverInv /\ \E l \in Nat : SenderAt(l)
  BY DEF FifoInv, SenderInv
<1>2. PICK l \in Nat : SenderAt(l)
  BY <1>1
<1>3. /\ nsent \in Nat /\ nread \in Nat /\ nsent <= nread /\ Got \in Nat
      /\ delivered = [i \in 1 .. Got |-> i] /\ W \in Nat
  BY <1>1, <1>2, Numbers, ReceiverNumbers DEF SenderAt, ReceiverInv, WindowHolds
<1>4. nread' = nread /\ early' = early
  BY DEF ServerReceives, clientVars, bufferVars
<1>5. PICK j : j = Head(pkts).data
  OBVIOUS
<1>6. CASE Rec(j)
  <2>1. delivered' = delivered
    BY <1>1, <1>2, <1>5, <1>6, ReceivedIgnored DEF serverVars
  <2> QED
    BY <1>4, <2>1 DEF Transfer!vars
<1>7. CASE ~Rec(j)
  <2>1. PICK n \in 0 .. W : /\ Got + n <= nsent
                            /\ delivered' = [i \in 1 .. Got + n |-> i]
    <3>1. \E n \in 0 .. W : /\ Got' = Got + n /\ Got + n <= nsent
                            /\ delivered' = [i \in 1 .. Got + n |-> i]
      BY <1>1, <1>2, <1>5, <1>7, StoreHead
    <3> QED
      BY <3>1
  <2> DEFINE d == Got
  <2>2. delivered' = delivered \o [i \in 1 .. n |-> Len(delivered) + i]
    <3>1. d \in Nat /\ n \in Nat /\ Len(delivered) = d
      BY <1>3 DEF Got
    <3>2. delivered = [i \in 1 .. d |-> i] /\ delivered' = [i \in 1 .. d + n |-> i]
      BY <1>3, <2>1
    <3> HIDE DEF d
    <3>3. delivered' = delivered \o [i \in 1 .. n |-> d + i]
      BY <3>1, <3>2
    <3> QED
      BY <3>1, <3>3
  <2>3. CASE n = 0
    <3>1. Got + n = Got
      BY <1>3, <2>3
    <3>2. delivered' = delivered
      BY <1>3, <2>1, <3>1
    <3> QED
      BY <1>4, <3>2 DEF Transfer!vars
  <2>4. CASE n # 0
    <3>1. n \in 1 .. nread - Len(delivered)
      BY <1>3, <2>1, <2>4 DEF Got
    <3>2. Transfer!Deliver
      BY <1>4, <2>2, <3>1 DEF Transfer!Deliver
    <3> QED
      BY <3>2 DEF Transfer!Next
  <2> QED
    BY <2>3, <2>4
<1> QED
  BY <1>6, <1>7

(* Until a timer is too early every step is one of the transfer. *)
LEMMA PatientTransfer ==
  ASSUME Fits, Benign, FifoInv, [Next]_vars, early = 0, early' = 0
  PROVE  [Transfer!Next]_(Transfer!vars)
<1> USE DEF netVars, serverVars, clientVars, bufferVars
<1>1. CASE ReadFtpc /\ UNCHANGED serverVars
  <2>1. nread < K
    BY <1>1 DEF ReadFtpc, At, FifoInv, SenderInv, TypeOK, ClientTypeOK
  <2> QED
    BY <1>1, <2>1 DEF ReadFtpc, Transfer!Next, Transfer!HandOver
<1>2. CASE ServerReceives
  BY <1>2, ReceiveDelivers
<1>3. CASE UNCHANGED <<nread, delivered>>
  BY <1>3 DEF Transfer!vars
<1>4. CASE DriverSelect \/ DriverResend \/ DriverSend \/ DriverIdle \/ DriverAck
           \/ DriverBadAck
  BY <1>3, <1>4 DEF DriverSelect, Select, DriverResend, Resend, DriverSend,
                    SendNext, DriverIdle, NothingToSend, DriverAck, ReceiveAck,
                    DriverBadAck, DiscardAck
<1>5. CASE DriverRead
  BY <1>1, <1>3, <1>5 DEF DriverRead, LeaveFtpc
<1>6. ASSUME NEW id \in Slots, TimerExpires(id)
      PROVE  [Transfer!Next]_(Transfer!vars)
  BY <1>3, <1>6 DEF TimerExpires, Timeout
<1>7. CASE PacketLost \/ AckLost
  BY <1>3, <1>7 DEF PacketLost, AckLost
<1>8. CASE UNCHANGED vars
  BY <1>3, <1>8 DEF vars
<1> QED
  BY <1>2, <1>4, <1>5, <1>6, <1>7, <1>8 DEF Next, Driver

LEMMA FifoTransferNext ==
  ASSUME Fits, Benign, FifoWhilePatient, [Next]_vars
  PROVE  [Transfer!Next]_(Transfer!vars)
<1>1. TypeOK /\ early \in Nat
  BY DEF FifoWhilePatient, TypeOK
<1>2. early' \in Nat
  BY <1>1, EarlyStays
<1>3. CASE early' = 0
  BY <1>1, <1>3, PatientUntil, PatientTransfer DEF FifoWhilePatient
<1>4. CASE early' # 0
  BY <1>2, <1>4 DEF Transfer!Next, Transfer!Break
<1> QED
  BY <1>3, <1>4

(* The safety of the transfer for files of any length: as long as no timer *)
(* expires too early, ftps is given the blocks in order, each once and     *)
(* none that ftpc has not handed over, whatever packets of slots 1..N-W-1  *)
(* and whatever acknowledgements are lost or garbled.                      *)
THEOREM FifoTransferIsSafe ==
  ASSUME Fits, Benign
  PROVE  Spec => Transfer!SafeSpec
<1>1. Init => Transfer!Init
  BY DEF Init, ClientInit, ServerInit, Transfer!Init
<1>2. FifoWhilePatient /\ [Next]_vars => [Transfer!Next]_(Transfer!vars)
  BY FifoTransferNext
<1> QED
  BY <1>1, <1>2, FifoInvariance, PTL DEF Spec, Transfer!SafeSpec
=============================================================================
