---------------------------- MODULE TcpdEnds_proof ----------------------------
(***************************************************************************)
(* Theorems about each of the two daemons alone.  The receiving one, for   *)
(* every buffer size N, every window of at most half of it and arbitrary   *)
(* packets; then the sending one among arbitrary acknowledgements and      *)
(* timeouts, for every buffer size, window, file and contents of the       *)
(* unread stack.                                                           *)
(***************************************************************************)
EXTENDS TcpdServer, TcpdClient, ModularLemmas, TLAPS

(* laf as a function of lfr, without the modulus. *)
LafOfLfr == laf = IF lfr + W <= N - 1 THEN lfr + W ELSE lfr + W - N

(* Every occupied slot of buf is in the window. *)
Held(buf) == \A s \in Slots : buf[s] # Empty => InWindow(s)

(* The inductive invariant: where the window ends has to be known exactly, *)
(* and what lies outside it has to be empty, to know what the next slide   *)
(* can hand over.                                                          *)
Inv == /\ ServerTypeOK
       /\ LafOfLfr
       /\ HeldInWindow
       /\ FrontIsEmpty
       /\ LfrCountsDelivered
-----------------------------------------------------------------------------
(* Handing over the occupied slots a..b appends b+1-a blocks. *)
LEMMA RunType ==
  ASSUME NEW buf \in [Slots -> Contents], NEW a \in Nat, NEW b \in Int,
         a <= b + 1, b <= N - 1,
         \A s \in a .. b : buf[s] # Empty
  PROVE  Run(buf, a, b) \in Seq(Blocks) /\ Len(Run(buf, a, b)) = b + 1 - a
<1>1. \A k \in 1 .. b + 1 - a : buf[a + k - 1] \in Blocks
  BY SizesAssumption DEF Slots, Contents
<1>2. b + 1 - a \in Nat
  OBVIOUS
<1> QED
  BY <1>1, <1>2 DEF Run

LEMMA ZeroedType ==
  ASSUME NEW buf \in [Slots -> Contents], NEW S
  PROVE  Zeroed(buf, S) \in [Slots -> Contents]
BY DEF Zeroed, Contents

LEMMA ConcatType ==
  ASSUME NEW s \in Seq(Blocks), NEW t \in Seq(Blocks)
  PROVE  s \o t \in Seq(Blocks) /\ Len(s \o t) = Len(s) + Len(t)
OBVIOUS

(* Handing over c blocks moves the count of blocks and the slot alike. *)
LEMMA CountMoves ==
  \A l, f, c \in Int : l % N = f % N => (l + c) % N = (f + c) % N
<1>1. N \in Int /\ N > 0
  BY SizesAssumption
<1> QED
  BY <1>1, RemainderShift, Zenon

(* A slide that does not wrap keeps the invariant. *)
LEMMA SlideStraightInv ==
  ASSUME Inv, NEW buf \in [Slots -> Contents], Held(buf), SlideStraight(buf)
  PROVE  Inv'
<1> USE SizesAssumption DEF Slots
<1>1. /\ lfr \in -1 .. N - 1
      /\ laf \in Slots
      /\ laf > lfr
      /\ laf = lfr + W
      /\ delivered \in Seq(Blocks)
  BY DEF Inv, ServerTypeOK, LafOfLfr, SlideStraight
<1>2. PICK i \in lfr + 1 .. laf + 1 :
        /\ IsFirstEmpty(buf, lfr + 1, laf, i)
        /\ recvbuf' = Zeroed(buf, lfr + 1 .. i - 1)
        /\ delivered' = delivered \o Run(buf, lfr + 1, i - 1)
        /\ lfr' = IF i - 1 > N - 1 THEN -1 ELSE i - 1
        /\ laf' = IF i = lfr + 1 THEN laf
                  ELSE IF lfr' + W > N - 1 THEN lfr' + W - N ELSE lfr' + W
  BY DEF SlideStraight
<1>run. /\ Run(buf, lfr + 1, i - 1) \in Seq(Blocks)
      /\ Len(Run(buf, lfr + 1, i - 1)) = i - 1 - lfr
  <2>1. lfr + 1 \in Nat /\ i - 1 \in Int /\ lfr + 1 <= (i - 1) + 1 /\ i - 1 <= N - 1
    BY <1>1, <1>2
  <2>2. \A s \in lfr + 1 .. i - 1 : buf[s] # Empty
    BY <1>2 DEF IsFirstEmpty
  <2>3. (i - 1) + 1 - (lfr + 1) = i - 1 - lfr
    BY <1>1, <1>2
  <2> QED
    BY <2>1, <2>2, <2>3, RunType
<1>3. lfr' = i - 1 /\ lfr' \in -1 .. N - 1
  BY <1>1, <1>2
<1>4. LafOfLfr' /\ laf' \in Slots
  BY <1>1, <1>2, <1>3 DEF LafOfLfr
<1>5. recvbuf' \in [Slots -> Contents]
  BY <1>2, ZeroedType
<1>6. delivered' \in Seq(Blocks)
  BY <1>1, <1>2, <1>run
<1>7. HeldInWindow'
  <2> SUFFICES ASSUME NEW s \in Slots, recvbuf'[s] # Empty
               PROVE  InWindow(s)'
    BY DEF HeldInWindow
  <2>1. buf[s] # Empty /\ s \notin lfr + 1 .. i - 1
    BY <1>2 DEF Zeroed
  <2>2. s > lfr /\ s <= laf
    <3>1. InWindow(s)
      BY <2>1 DEF Held
    <3> QED
      BY <1>1, <3>1 DEF InWindow
  <2>3. s > lfr'
    BY <1>1, <1>3, <2>1, <2>2
  <2>4. laf' >= lfr' => s <= laf'
    BY <1>1, <1>2, <1>3, <2>2
  <2> QED
    BY <1>3, <1>4, <2>3, <2>4 DEF InWindow
<1>8. FrontIsEmpty'
  <2> SUFFICES ASSUME lfr' < N - 1
               PROVE  recvbuf'[i] = Empty
    BY <1>1, <1>2, <1>3 DEF FrontIsEmpty
  <2>1. CASE i <= laf
    BY <1>1, <1>2, <1>3, <2>1 DEF IsFirstEmpty, Zeroed
  <2>2. CASE i = laf + 1
    <3>1. ~InWindow(i) /\ i \in Slots
      BY <1>1, <1>3, <2>2 DEF InWindow
    <3>2. buf[i] = Empty
      BY <3>1 DEF Held
    <3> QED
      BY <1>2, <3>1, <3>2 DEF Zeroed
  <2> QED
    BY <1>1, <2>1, <2>2
<1>9. LfrCountsDelivered'
  <2>1. Len(delivered') = Len(delivered) + (i - 1 - lfr)
    BY <1>1, <1>2, <1>run, ConcatType
  <2>2. lfr' + 1 = (lfr + 1) + (i - 1 - lfr)
    BY <1>1, <1>3
  <2>3. Len(delivered) % N = (lfr + 1) % N
    BY DEF Inv, LfrCountsDelivered
  <2>4. Len(delivered) \in Nat /\ lfr + 1 \in Nat /\ i - 1 - lfr \in Nat
    BY <1>1
  <2> DEFINE l == Len(delivered)
             f == lfr + 1
             c == i - 1 - lfr
             l2 == Len(delivered')
             f2 == lfr' + 1
  <2>5. l \in Int /\ f \in Int /\ c \in Int /\ l % N = f % N
    BY <2>3, <2>4
  <2>6. l2 = l + c /\ f2 = f + c
    BY <2>1, <2>2
  <2> HIDE DEF l, f, c, l2, f2
  <2>7. (l + c) % N = (f + c) % N
    BY <2>5, CountMoves, Zenon
  <2> QED
    BY <2>6, <2>7 DEF l2, f2, LfrCountsDelivered
<1> QED
  BY <1>3, <1>4, <1>5, <1>6, <1>7, <1>8, <1>9 DEF Inv, ServerTypeOK

(* A slide that stops before the end of the buffer keeps the invariant. *)
LEMMA SlideToGapInv ==
  ASSUME Inv, NEW buf \in [Slots -> Contents], Held(buf), SlideToGap(buf)
  PROVE  Inv'
<1> USE SizesAssumption DEF Slots
<1>1. /\ lfr \in -1 .. N - 1
      /\ laf \in Slots
      /\ laf < lfr
      /\ laf = lfr + W - N
      /\ delivered \in Seq(Blocks)
  BY DEF Inv, ServerTypeOK, LafOfLfr, SlideToGap
<1>2. PICK i \in lfr + 1 .. N :
        /\ IsFirstEmpty(buf, lfr + 1, N - 1, i)
        /\ i < N \/ i = lfr + 1
        /\ recvbuf' = Zeroed(buf, lfr + 1 .. i - 1)
        /\ delivered' = delivered \o Run(buf, lfr + 1, i - 1)
        /\ lfr' = i - 1
        /\ laf' = laf + (i - lfr - 1)
  BY DEF SlideToGap
<1>run. /\ Run(buf, lfr + 1, i - 1) \in Seq(Blocks)
      /\ Len(Run(buf, lfr + 1, i - 1)) = i - 1 - lfr
  <2>1. lfr + 1 \in Nat /\ i - 1 \in Int /\ lfr + 1 <= (i - 1) + 1 /\ i - 1 <= N - 1
    BY <1>1, <1>2
  <2>2. \A s \in lfr + 1 .. i - 1 : buf[s] # Empty
    BY <1>2 DEF IsFirstEmpty
  <2>3. (i - 1) + 1 - (lfr + 1) = i - 1 - lfr
    BY <1>1, <1>2
  <2> QED
    BY <2>1, <2>2, <2>3, RunType
<1>3. lfr' \in -1 .. N - 1 /\ laf' \in Slots /\ LafOfLfr' /\ laf' < lfr'
  BY <1>1, <1>2 DEF LafOfLfr
<1>4. recvbuf' \in [Slots -> Contents]
  BY <1>2, ZeroedType
<1>5. delivered' \in Seq(Blocks)
  BY <1>1, <1>2, <1>run
<1>6. HeldInWindow'
  <2> SUFFICES ASSUME NEW s \in Slots, recvbuf'[s] # Empty
               PROVE  InWindow(s)'
    BY DEF HeldInWindow
  <2>1. buf[s] # Empty /\ s \notin lfr + 1 .. i - 1
    BY <1>2 DEF Zeroed
  <2>2. s > lfr \/ s <= laf
    BY <1>1, <2>1 DEF Held, InWindow
  <2>3. s > lfr' \/ s <= laf'
    BY <1>1, <1>2, <2>1, <2>2
  <2> QED
    BY <1>3, <2>3 DEF InWindow
<1>7. FrontIsEmpty'
  <2> SUFFICES ASSUME lfr' < N - 1
               PROVE  recvbuf'[i] = Empty
    BY <1>1, <1>2, <1>3 DEF FrontIsEmpty
  <2> QED
    BY <1>1, <1>2 DEF IsFirstEmpty, Zeroed
<1>8. LfrCountsDelivered'
  <2>1. Len(delivered') = Len(delivered) + (i - 1 - lfr)
    BY <1>1, <1>2, <1>run, ConcatType
  <2>2. lfr' + 1 = (lfr + 1) + (i - 1 - lfr)
    BY <1>1, <1>2
  <2>3. Len(delivered) % N = (lfr + 1) % N
    BY DEF Inv, LfrCountsDelivered
  <2>4. Len(delivered) \in Nat /\ lfr + 1 \in Nat /\ i - 1 - lfr \in Nat
    BY <1>1
  <2> DEFINE l == Len(delivered)
             f == lfr + 1
             c == i - 1 - lfr
             l2 == Len(delivered')
             f2 == lfr' + 1
  <2>5. l \in Int /\ f \in Int /\ c \in Int /\ l % N = f % N
    BY <2>3, <2>4
  <2>6. l2 = l + c /\ f2 = f + c
    BY <2>1, <2>2
  <2> HIDE DEF l, f, c, l2, f2
  <2>7. (l + c) % N = (f + c) % N
    BY <2>5, CountMoves, Zenon
  <2> QED
    BY <2>6, <2>7 DEF l2, f2, LfrCountsDelivered
<1> QED
  BY <1>3, <1>4, <1>5, <1>6, <1>7, <1>8 DEF Inv, ServerTypeOK

(* A slide round the end of the buffer keeps the invariant. *)
LEMMA SlideAroundInv ==
  ASSUME Inv, NEW buf \in [Slots -> Contents], Held(buf), SlideAround(buf)
  PROVE  Inv'
<1> USE SizesAssumption DEF Slots
<1>1. /\ lfr \in -1 .. N - 1
      /\ lfr < N - 1
      /\ laf \in Slots
      /\ laf < lfr
      /\ laf = lfr + W - N
      /\ delivered \in Seq(Blocks)
      /\ IsFirstEmpty(buf, lfr + 1, N - 1, N)
  BY DEF Inv, ServerTypeOK, LafOfLfr, SlideAround
<1>2. PICK j \in 0 .. laf + 1 :
        /\ IsFirstEmpty(buf, 0, laf, j)
        /\ recvbuf' = Zeroed(buf, (lfr + 1 .. N - 1) \cup (0 .. j - 1))
        /\ delivered' = delivered \o Run(buf, lfr + 1, N - 1)
                                  \o Run(buf, 0, j - 1)
        /\ lfr' = j - 1
        /\ laf' = lfr' + W
  BY DEF SlideAround
<1>run. /\ Run(buf, lfr + 1, N - 1) \in Seq(Blocks)
      /\ Len(Run(buf, lfr + 1, N - 1)) = N - 1 - lfr
  <2>1. lfr + 1 \in Nat /\ N - 1 \in Int /\ lfr + 1 <= (N - 1) + 1 /\ N - 1 <= N - 1
    BY <1>1
  <2>2. \A s \in lfr + 1 .. N - 1 : buf[s] # Empty
    BY <1>1 DEF IsFirstEmpty
  <2>3. (N - 1) + 1 - (lfr + 1) = N - 1 - lfr
    BY <1>1
  <2> QED
    BY <2>1, <2>2, <2>3, RunType
<1>wrapped. /\ Run(buf, 0, j - 1) \in Seq(Blocks)
      /\ Len(Run(buf, 0, j - 1)) = j
  <2>1. j - 1 \in Int /\ 0 <= (j - 1) + 1 /\ j - 1 <= N - 1
    BY <1>1, <1>2
  <2>2. \A s \in 0 .. j - 1 : buf[s] # Empty
    BY <1>2 DEF IsFirstEmpty
  <2>3. (j - 1) + 1 - 0 = j
    BY <1>1, <1>2
  <2> QED
    BY <2>1, <2>2, <2>3, RunType
<1>3. lfr' \in -1 .. N - 1 /\ laf' \in Slots /\ LafOfLfr' /\ laf' > lfr'
  BY <1>1, <1>2 DEF LafOfLfr
<1>4. recvbuf' \in [Slots -> Contents]
  BY <1>2, ZeroedType
<1>5. delivered' \in Seq(Blocks)
  BY <1>1, <1>2, <1>run, <1>wrapped
<1>6. HeldInWindow'
  <2> SUFFICES ASSUME NEW s \in Slots, recvbuf'[s] # Empty
               PROVE  InWindow(s)'
    BY DEF HeldInWindow
  <2>1. /\ buf[s] # Empty
        /\ s \notin lfr + 1 .. N - 1
        /\ s \notin 0 .. j - 1
    BY <1>2 DEF Zeroed
  <2>2. s <= laf
    BY <1>1, <2>1 DEF Held, InWindow
  <2>3. s > lfr' /\ s <= laf'
    BY <1>1, <1>2, <2>1, <2>2
  <2> QED
    BY <1>3, <2>3 DEF InWindow
<1>7. FrontIsEmpty'
  <2>0. j \in Slots /\ j = lfr' + 1
    BY <1>1, <1>2
  <2> SUFFICES recvbuf'[j] = Empty
    BY <2>0 DEF FrontIsEmpty
  <2>1. CASE j <= laf
    BY <1>1, <1>2, <2>0, <2>1 DEF IsFirstEmpty, Zeroed
  <2>2. CASE j = laf + 1
    <3>1. ~InWindow(j)
      BY <1>1, <2>2 DEF InWindow
    <3>2. buf[j] = Empty
      BY <2>0, <3>1 DEF Held
    <3> QED
      BY <1>2, <2>0, <3>2 DEF Zeroed
  <2> QED
    BY <1>1, <2>1, <2>2
<1>8. LfrCountsDelivered'
  <2>1. Len(delivered') = Len(delivered) + ((N - 1 - lfr) + j)
    <3>1. /\ delivered \o Run(buf, lfr + 1, N - 1) \in Seq(Blocks)
          /\ Len(delivered \o Run(buf, lfr + 1, N - 1))
               = Len(delivered) + (N - 1 - lfr)
      BY <1>1, <1>run, ConcatType
    <3>2. Len(delivered') = Len(delivered) + (N - 1 - lfr) + j
      BY <1>2, <1>wrapped, <3>1, ConcatType
    <3> QED
      BY <1>1, <3>2
  <2>2. j + N = (lfr + 1) + ((N - 1 - lfr) + j) /\ lfr' + 1 = j
    BY <1>1, <1>2
  <2>3. Len(delivered) % N = (lfr + 1) % N
    BY DEF Inv, LfrCountsDelivered
  <2>4. /\ Len(delivered) \in Nat
        /\ lfr + 1 \in Nat
        /\ (N - 1 - lfr) + j \in Nat
    BY <1>1
  <2>5. Len(delivered') % N = (j + N) % N
    <3> DEFINE l == Len(delivered)
               f == lfr + 1
               c == (N - 1 - lfr) + j
               l2 == Len(delivered')
               f2 == j + N
    <3>1. l \in Int /\ f \in Int /\ c \in Int /\ l % N = f % N
      BY <2>3, <2>4
    <3>2. l2 = l + c /\ f2 = f + c
      BY <2>1, <2>2
    <3> HIDE DEF l, f, c, l2, f2
    <3>3. (l + c) % N = (f + c) % N
      BY <3>1, CountMoves, Zenon
    <3> QED
      BY <3>2, <3>3 DEF l2, f2
  <2>6. (j + N) % N = j % N
    <3> DEFINE x == j + N
    <3>1. x \in Int /\ j \in Int /\ N \in Int /\ N > 0 /\ x = j + N * 1
      BY <1>1
    <3> HIDE DEF x
    <3>2. \E k \in Int : x = j + N * k
      BY <3>1
    <3>3. x % N = j % N
      BY <3>1, <3>2, SameRemainder
    <3> QED
      BY <3>3 DEF x
  <2> QED
    BY <2>2, <2>5, <2>6 DEF LfrCountsDelivered
<1> QED
  BY <1>3, <1>4, <1>5, <1>6, <1>7, <1>8 DEF Inv, ServerTypeOK
-----------------------------------------------------------------------------
LEMMA InitInv == ServerInit => Inv
BY SizesAssumption
   DEF ServerInit, Inv, ServerTypeOK, LafOfLfr, HeldInWindow, FrontIsEmpty,
       LfrCountsDelivered, Slots, Contents

(* The buffer with an acceptable packet in it satisfies Held. *)
LEMMA StoredHeld ==
  ASSUME Inv, NEW p \in Packets, InWindow(p.seq)
  PROVE  /\ [recvbuf EXCEPT ![p.seq] = p.data] \in [Slots -> Contents]
         /\ Held([recvbuf EXCEPT ![p.seq] = p.data])
BY DEF Inv, ServerTypeOK, HeldInWindow, Held, Packets

LEMMA NextInv == Inv /\ [ServerNext]_serverVars => Inv'
<1> SUFFICES ASSUME Inv, [ServerNext]_serverVars
             PROVE  Inv'
  OBVIOUS
<1>1. ASSUME NEW p \in Packets, Store(p)
      PROVE  Inv'
  <2> DEFINE buf == [recvbuf EXCEPT ![p.seq] = p.data]
  <2>1. buf \in [Slots -> Contents] /\ Held(buf)
    BY <1>1, StoredHeld DEF Store
  <2>2. SlideStraight(buf) \/ SlideToGap(buf) \/ SlideAround(buf)
    BY <1>1 DEF Store
  <2> HIDE DEF buf
  <2> QED
    BY <2>1, <2>2, SlideStraightInv, SlideToGapInv, SlideAroundInv
<1>2. ASSUME UNCHANGED serverVars
      PROVE  Inv'
  BY <1>2 DEF serverVars, Inv, ServerTypeOK, LafOfLfr, HeldInWindow, InWindow,
              FrontIsEmpty, LfrCountsDelivered
<1> QED
  BY <1>1, <1>2 DEF ServerNext, ReceivePacket, Ignore

THEOREM Invariance == ServerSpec => []Inv
BY InitInv, NextInv, PTL DEF ServerSpec

(* lfr and laf stay indices of the buffer, and only blocks that were       *)
(* packets' contents are handed over (the window update of server()).      *)
THEOREM TypeCorrect == ServerSpec => []ServerTypeOK
<1>1. Inv => ServerTypeOK
  BY DEF Inv
<1> QED
  BY <1>1, Invariance, PTL

(* The window is W wide whichever of the three updates computed laf.       *)
THEOREM WindowIsWide == ServerSpec => []WindowWidth
<1>1. Inv => WindowWidth
  BY SizesAssumption DEF Inv, ServerTypeOK, LafOfLfr, WindowWidth, Slots
<1> QED
  BY <1>1, Invariance, PTL

(* No block is held outside the window.                                    *)
THEOREM HoldsInWindow == ServerSpec => []HeldInWindow
<1>1. Inv => HeldInWindow
  BY DEF Inv
<1> QED
  BY <1>1, Invariance, PTL

(* Unless lfr is the last slot, nothing deliverable stays behind: the scan *)
(* for the first empty block went far enough.                              *)
THEOREM FrontStaysEmpty == ServerSpec => []FrontIsEmpty
<1>1. Inv => FrontIsEmpty
  BY DEF Inv
<1> QED
  BY <1>1, Invariance, PTL

(* lfr counts the blocks ftps was sent, modulo the buffer size, whatever   *)
(* mixture of slides brought it where it is.                               *)
THEOREM LfrCounts == ServerSpec => []LfrCountsDelivered
<1>1. Inv => LfrCountsDelivered
  BY DEF Inv
<1> QED
  BY <1>1, Invariance, PTL

-----------------------------------------------------------------------------
(* The server implements the reorder window.  Place o of the window is the *)
(* slot o after lfr, round the end of the buffer.                          *)
Place(l, o) == IF l + o <= N - 1 THEN l + o ELSE l + o - N

LEMMA PlaceIsSlot ==
  ASSUME NEW l \in -1 .. N - 1, NEW o \in 1 .. W
  PROVE  (l + o) % N = Place(l, o) /\ Place(l, o) \in Slots
<1>1. N \in Nat /\ W \in Nat /\ W < N
  BY SizesAssumption
<1> DEFINE r == Place(l, o)
<1>2. r \in 0 .. N - 1 /\ N > 0 /\ l + o \in Int
  BY <1>1 DEF Place
<1>3. N * 0 + r = l + o \/ N * 1 + r = l + o
  BY <1>1 DEF Place
<1> HIDE DEF r
<1>4. (N * 0 + r) % N = r /\ (N * 1 + r) % N = r
  BY <1>1, <1>2, RemainderOf
<1>5. (l + o) % N = r
  BY <1>3, <1>4, Zenon
<1> QED
  BY <1>2, <1>5 DEF Slots, r

(* The n blocks at the front of the window leave. *)
HandsOver(buf, n) ==
  /\ lfr' = lfr + n \/ lfr' = lfr + n - N
  /\ recvbuf' = [s \in Slots |->
                   IF \E k \in 1 .. n : s = Place(lfr, k) THEN Empty ELSE buf[s]]
  /\ delivered' = delivered \o [k \in 1 .. n |-> buf[Place(lfr, k)]]
  /\ \A k \in 1 .. n : buf[Place(lfr, k)] # Empty

(* A run of n slots after lfr that does not go round the end. *)
LEMMA StraightRun ==
  ASSUME NEW buf, NEW n \in Nat, lfr \in -1 .. N - 1, lfr + n <= N - 1,
         \A s \in lfr + 1 .. lfr + n : buf[s] # Empty,
         recvbuf' = Zeroed(buf, lfr + 1 .. lfr + n),
         delivered' = delivered \o Run(buf, lfr + 1, lfr + n),
         lfr' = lfr + n
  PROVE  HandsOver(buf, n)
<1>1. N \in Nat
  BY SizesAssumption
<1>2. \A k \in 1 .. n : /\ Place(lfr, k) = lfr + k
                        /\ lfr + k \in lfr + 1 .. lfr + n
                        /\ lfr + 1 + k - 1 = lfr + k
  BY <1>1 DEF Place
<1>3. \A s \in Slots : s \in lfr + 1 .. lfr + n <=> \E k \in 1 .. n : s = Place(lfr, k)
  <2> SUFFICES ASSUME NEW s \in Slots, s \in lfr + 1 .. lfr + n
               PROVE  \E k \in 1 .. n : s = Place(lfr, k)
    BY <1>2
  <2>1. s - lfr \in 1 .. n /\ s = lfr + (s - lfr)
    BY <1>1 DEF Slots
  <2> QED
    BY <1>2, <2>1
<1>4. recvbuf' = [s \in Slots |->
         IF \E k \in 1 .. n : s = Place(lfr, k) THEN Empty ELSE buf[s]]
  BY <1>3 DEF Zeroed
<1>5. Run(buf, lfr + 1, lfr + n) = [k \in 1 .. n |-> buf[Place(lfr, k)]]
  <2>1. lfr + n + 1 - (lfr + 1) = n
    BY <1>1
  <2>2. Run(buf, lfr + 1, lfr + n) = [k \in 1 .. n |-> buf[lfr + 1 + k - 1]]
    BY <2>1 DEF Run
  <2> QED
    BY <1>2, <2>2
<1>6. \A k \in 1 .. n : buf[Place(lfr, k)] # Empty
  BY <1>2
<1> QED
  BY <1>4, <1>5, <1>6 DEF HandsOver

LEMMA SlideHandsOver ==
  ASSUME Inv, NEW buf \in [Slots -> Contents],
         SlideStraight(buf) \/ SlideToGap(buf) \/ SlideAround(buf)
  PROVE  \E n \in 0 .. W : HandsOver(buf, n)
<1>1. /\ N \in Nat /\ W \in Nat /\ W < N
      /\ lfr \in -1 .. N - 1
      /\ laf \in 0 .. N - 1
      /\ laf = lfr + W \/ laf = lfr + W - N
      /\ delivered \in Seq(Blocks)
  BY SizesAssumption DEF Inv, ServerTypeOK, LafOfLfr, Slots
<1>2. CASE SlideStraight(buf)
  <2>1. PICK i \in lfr + 1 .. laf + 1 :
          /\ \A s \in lfr + 1 .. i - 1 : buf[s] # Empty
          /\ recvbuf' = Zeroed(buf, lfr + 1 .. i - 1)
          /\ delivered' = delivered \o Run(buf, lfr + 1, i - 1)
          /\ lfr' = IF i - 1 > N - 1 THEN -1 ELSE i - 1
    BY <1>2 DEF SlideStraight, IsFirstEmpty
  <2>2. laf = lfr + W
    BY <1>1, <1>2 DEF SlideStraight
  <2> DEFINE n == i - 1 - lfr
  <2>3. /\ n \in Nat /\ n \in 0 .. W /\ i - 1 = lfr + n /\ lfr + n <= N - 1
        /\ ~(i - 1 > N - 1)
    BY <1>1, <2>2
  <2> HIDE DEF n
  <2>4. HandsOver(buf, n)
    BY <1>1, <2>1, <2>3, StraightRun
  <2> QED
    BY <2>3, <2>4
<1>3. CASE SlideToGap(buf)
  <2>1. PICK i \in lfr + 1 .. N :
          /\ \A s \in lfr + 1 .. i - 1 : buf[s] # Empty
          /\ recvbuf' = Zeroed(buf, lfr + 1 .. i - 1)
          /\ delivered' = delivered \o Run(buf, lfr + 1, i - 1)
          /\ lfr' = i - 1
    BY <1>3 DEF SlideToGap, IsFirstEmpty
  <2>2. laf = lfr + W - N
    BY <1>1, <1>3 DEF SlideToGap
  <2> DEFINE n == i - 1 - lfr
  <2>3. n \in Nat /\ n \in 0 .. W /\ i - 1 = lfr + n /\ lfr + n <= N - 1
    BY <1>1, <2>2
  <2> HIDE DEF n
  <2>4. HandsOver(buf, n)
    BY <1>1, <2>1, <2>3, StraightRun
  <2> QED
    BY <2>3, <2>4
<1>4. CASE SlideAround(buf)
  <2>1. PICK j \in 0 .. laf + 1 :
          /\ \A s \in 0 .. j - 1 : buf[s] # Empty
          /\ recvbuf' = Zeroed(buf, (lfr + 1 .. N - 1) \cup (0 .. j - 1))
          /\ delivered' = delivered \o Run(buf, lfr + 1, N - 1)
                                    \o Run(buf, 0, j - 1)
          /\ lfr' = j - 1
    BY <1>4 DEF SlideAround, IsFirstEmpty
  <2>2. /\ laf = lfr + W - N /\ laf < lfr
        /\ \A s \in lfr + 1 .. N - 1 : buf[s] # Empty
    BY <1>1, <1>4 DEF SlideAround, IsFirstEmpty
  <2> DEFINE m == N - 1 - lfr
             n == m + j
  <2>3. /\ m \in Nat /\ n \in 0 .. W /\ n = m + j
        /\ lfr + m = N - 1 /\ lfr' = lfr + n - N
        /\ j \in Nat /\ j - 1 <= laf
    BY <1>1, <2>1, <2>2
  <2> HIDE DEF m, n
  <2>4. \A k \in 1 .. n :
          /\ k <= m => Place(lfr, k) = lfr + k /\ lfr + k \in lfr + 1 .. N - 1
          /\ k > m => Place(lfr, k) = k - m - 1 /\ k - m - 1 \in 0 .. j - 1
    BY <1>1, <2>3 DEF Place
  <2>5. \A k \in 1 .. n : buf[Place(lfr, k)] # Empty
    BY <2>1, <2>2, <2>3, <2>4
  <2>6. \A s \in Slots : s \in (lfr + 1 .. N - 1) \cup (0 .. j - 1)
                           <=> \E k \in 1 .. n : s = Place(lfr, k)
    <3>1. ASSUME NEW s \in Slots, NEW k \in 1 .. n, s = Place(lfr, k)
          PROVE  s \in (lfr + 1 .. N - 1) \cup (0 .. j - 1)
      BY <2>3, <2>4, <3>1
    <3>2. ASSUME NEW s \in lfr + 1 .. N - 1
          PROVE  \E k \in 1 .. n : s = Place(lfr, k)
      <4>1. s - lfr \in 1 .. n /\ s - lfr <= m /\ lfr + (s - lfr) = s
        BY <1>1, <2>3
      <4> QED
        BY <2>4, <4>1
    <3>3. ASSUME NEW s \in 0 .. j - 1
          PROVE  \E k \in 1 .. n : s = Place(lfr, k)
      <4>1. s + m + 1 \in 1 .. n /\ s + m + 1 > m /\ (s + m + 1) - m - 1 = s
        BY <1>1, <2>3
      <4> QED
        BY <2>4, <4>1
    <3> QED
      BY <3>1, <3>2, <3>3
  <2>7. recvbuf' = [s \in Slots |->
         IF \E k \in 1 .. n : s = Place(lfr, k) THEN Empty ELSE buf[s]]
    BY <2>1, <2>6 DEF Zeroed
  <2>8. delivered' = delivered \o [k \in 1 .. n |-> buf[Place(lfr, k)]]
    <3>1. Run(buf, lfr + 1, N - 1) = [k \in 1 .. m |-> buf[Place(lfr, k)]]
      <4>1. N - 1 + 1 - (lfr + 1) = m
        BY <1>1, <2>3
      <4>2. \A k \in 1 .. m : k \in 1 .. n /\ Place(lfr, k) = lfr + 1 + k - 1
        BY <1>1, <2>3, <2>4
      <4>3. Run(buf, lfr + 1, N - 1) = [k \in 1 .. m |-> buf[lfr + 1 + k - 1]]
        BY <4>1 DEF Run
      <4> QED
        BY <4>2, <4>3
    <3>2. Run(buf, 0, j - 1) = [k \in 1 .. j |-> buf[Place(lfr, m + k)]]
      <4>1. j - 1 + 1 - 0 = j
        BY <2>3
      <4>2. \A k \in 1 .. j : m + k \in 1 .. n /\ Place(lfr, m + k) = 0 + k - 1
        BY <1>1, <2>3, <2>4
      <4>3. Run(buf, 0, j - 1) = [k \in 1 .. j |-> buf[0 + k - 1]]
        BY <4>1 DEF Run
      <4> QED
        BY <4>2, <4>3
    <3>3. \A k \in 1 .. n : buf[Place(lfr, k)] \in Contents
      BY <2>3, <2>4, <1>1 DEF Slots
    <3> DEFINE f == [k \in 1 .. n |-> buf[Place(lfr, k)]]
               g == [k \in 1 .. m |-> f[k]]
               h == [k \in 1 .. j |-> f[m + k]]
    <3>4. f \in Seq(Contents) /\ Len(f) = m + j
      BY <2>3, <3>3
    <3>5. Run(buf, lfr + 1, N - 1) = g /\ Run(buf, 0, j - 1) = h
      <4>1. \A k \in 1 .. m : k \in 1 .. n
        BY <2>3
      <4>2. \A k \in 1 .. j : m + k \in 1 .. n
        BY <2>3
      <4> QED
        BY <3>1, <3>2, <4>1, <4>2
    <3> HIDE DEF f
    <3>6. g \in Seq(Contents) /\ h \in Seq(Contents) /\ Len(g) = m /\ Len(h) = j
      <4>1. \A k \in 1 .. m + j : f[k] \in Contents
        BY <3>4
      <4> QED
        BY <2>3, <4>1
    <3>7. g \o h = f
      BY <2>3, <3>4, <3>6
    <3>8. delivered \in Seq(Contents)
      BY <1>1 DEF Contents
    <3> HIDE DEF g, h
    <3>9. (delivered \o g) \o h = delivered \o (g \o h)
      BY <3>6, <3>8
    <3> QED
      BY <2>1, <3>5, <3>7, <3>9 DEF f
  <2>9. HandsOver(buf, n)
    BY <2>3, <2>5, <2>7, <2>8 DEF HandsOver
  <2> QED
    BY <2>3, <2>9
<1> QED
  BY <1>2, <1>3, <1>4

(* The window after n blocks were handed over: what was n places further   *)
(* on, then nothing.                                                       *)
LEMMA WindowMoves ==
  ASSUME Inv, NEW buf \in [Slots -> Contents], Held(buf),
         NEW n \in 0 .. W, HandsOver(buf, n), lfr' \in -1 .. N - 1,
         NEW k \in 1 .. W
  PROVE  recvbuf'[(lfr' + k) % N]
           = IF k + n <= W THEN buf[(lfr + (k + n)) % N] ELSE Empty
<1>1. /\ N \in Nat /\ W \in Nat /\ W < N
      /\ lfr \in -1 .. N - 1
      /\ laf \in 0 .. N - 1
      /\ laf = IF lfr + W <= N - 1 THEN lfr + W ELSE lfr + W - N
  BY SizesAssumption DEF Inv, ServerTypeOK, LafOfLfr, Slots
<1>l. PICK l \in -1 .. N - 1 : l = lfr'
  BY Zenon
<1>2. l = lfr + n \/ l = lfr + n - N
  BY <1>l DEF HandsOver
<1> DEFINE s == Place(l, k)
<1>3. (l + k) % N = s /\ s \in Slots
  BY PlaceIsSlot
<1>4. recvbuf'[s] = IF \E i \in 1 .. n : s = Place(lfr, i) THEN Empty ELSE buf[s]
  BY <1>3 DEF HandsOver
<1>5. CASE k + n <= W
  <2>1. k + n \in 1 .. W
    BY <1>1, <1>5
  <2>2. s = Place(lfr, k + n)
    BY <1>1, <1>2, <1>5 DEF Place
  <2>3. \A i \in 1 .. n : s # Place(lfr, i)
    BY <1>1, <1>2, <1>5 DEF Place
  <2>4. (lfr + (k + n)) % N = Place(lfr, k + n)
    BY <1>1, <2>1, PlaceIsSlot
  <2>5. recvbuf'[s] = buf[Place(lfr, k + n)]
    BY <1>4, <2>2, <2>3
  <2> HIDE DEF s
  <2>6. (lfr' + k) % N = s
    BY <1>l, <1>3, Zenon
  <2>7. recvbuf'[(lfr' + k) % N] = buf[(lfr + (k + n)) % N]
    BY <2>4, <2>5, <2>6, Zenon
  <2> QED
    BY <1>5, <2>7, Zenon
<1>6. CASE ~(k + n <= W)
  <2>1. ASSUME ~\E i \in 1 .. n : s = Place(lfr, i)
        PROVE  buf[s] = Empty
    <3>1. CASE k + n < N + 1
      <4>1. s = IF lfr + (k + n) <= N - 1 THEN lfr + (k + n)
                ELSE lfr + (k + n) - N
        BY <1>1, <1>2, <1>6, <3>1 DEF Place
      <4>2. ~InWindow(s)
        <5> DEFINE e == k + n
        <5>1. e \in Int /\ W < e /\ e <= N
          BY <1>1, <1>6, <3>1
        <5>2. s = IF lfr + e <= N - 1 THEN lfr + e ELSE lfr + e - N
          BY <4>1
        <5> HIDE DEF e, s
        <5>3. CASE lfr + W <= N - 1
          BY <1>1, <5>1, <5>2, <5>3 DEF InWindow
        <5>4. CASE ~(lfr + W <= N - 1)
          <6>1. lfr + e > N - 1
            BY <1>1, <5>1, <5>4
          <6>2. s = lfr + e - N /\ laf = lfr + W - N
            BY <1>1, <5>2, <5>4, <6>1
          <6> QED
            BY <1>1, <5>1, <6>2 DEF InWindow
        <5> QED
          BY <5>3, <5>4
      <4> QED
        BY <1>3, <4>2 DEF Held
    <3>2. CASE k + n >= N + 1
      <4>1. k + n - N \in 1 .. n
        BY <1>1, <3>2
      <4>2. s = Place(lfr, k + n - N)
        BY <1>1, <1>2, <3>2, <4>1 DEF Place
      <4> QED
        BY <2>1, <4>1, <4>2
    <3> QED
      BY <1>1, <3>1, <3>2
  <2>2. recvbuf'[s] = Empty
    BY <2>1, <1>4
  <2> HIDE DEF s
  <2>3. (lfr' + k) % N = s
    BY <1>l, <1>3, Zenon
  <2>4. recvbuf'[(lfr' + k) % N] = Empty
    BY <2>2, <2>3, Zenon
  <2> QED
    BY <1>6, <2>4, Zenon
<1> QED
  BY <1>5, <1>6

(* Every acceptable sequence number is a place of the window, its own. *)
LEMMA PlaceOf ==
  ASSUME Inv, NEW s \in Slots, InWindow(s)
  PROVE  \E o \in 1 .. W : s = Place(lfr, o)
<1>1. /\ N \in Nat /\ W \in Nat /\ W < N
      /\ lfr \in -1 .. N - 1
      /\ laf \in 0 .. N - 1
      /\ laf = IF lfr + W <= N - 1 THEN lfr + W ELSE lfr + W - N
      /\ s \in 0 .. N - 1
  BY SizesAssumption DEF Inv, ServerTypeOK, LafOfLfr, Slots
<1>2. CASE s > lfr
  <2>1. s - lfr \in 1 .. W
    BY <1>1, <1>2 DEF InWindow
  <2>2. s = Place(lfr, s - lfr)
    BY <1>1, <1>2 DEF Place
  <2> QED
    BY <2>1, <2>2
<1>3. CASE ~(s > lfr)
  <2>1. s + N - lfr \in 1 .. W
    BY <1>1, <1>3 DEF InWindow
  <2>2. s = Place(lfr, s + N - lfr)
    BY <1>1, <1>3 DEF Place
  <2> QED
    BY <2>1, <2>2
<1> QED
  BY <1>2, <1>3

LEMMA PlacesDiffer ==
  ASSUME NEW l \in -1 .. N - 1, NEW o \in 1 .. W, NEW k \in 1 .. W,
         Place(l, o) = Place(l, k)
  PROVE  o = k
<1>1. N \in Nat /\ W \in Nat /\ W < N
  BY SizesAssumption
<1> QED
  BY <1>1 DEF Place

(* Storing a packet is an arrival at its place. *)
LEMMA StoreReceives ==
  ASSUME Inv, NEW p \in Packets, Store(p)
  PROVE  Window!Next
<1> DEFINE buf == [recvbuf EXCEPT ![p.seq] = p.data]
           window == [k \in 1 .. W |-> recvbuf[(lfr + k) % N]]
<1>1. /\ p.seq \in Slots /\ p.data \in Contents
      /\ InWindow(p.seq) /\ recvbuf[p.seq] = Empty
      /\ recvbuf \in [Slots -> Contents]
      /\ lfr \in -1 .. N - 1
  BY DEF Store, Packets, Inv, ServerTypeOK
<1>2. buf \in [Slots -> Contents] /\ Held(buf)
  BY <1>1, StoredHeld
<1>3. SlideStraight(buf) \/ SlideToGap(buf) \/ SlideAround(buf)
  BY DEF Store
<1>4. PICK o \in 1 .. W : p.seq = Place(lfr, o)
  BY <1>1, PlaceOf
<1> DEFINE filled == [window EXCEPT ![o] = p.data]
<1>5. \A k \in 1 .. W : (lfr + k) % N = Place(lfr, k) /\ (lfr + k) % N \in Slots
  BY <1>1, PlaceIsSlot
<1>6. window[o] = Empty
  BY <1>1, <1>4, <1>5
<1>7. \A k \in 1 .. W : filled[k] = buf[Place(lfr, k)]
  <2> SUFFICES ASSUME NEW k \in 1 .. W
               PROVE  filled[k] = buf[Place(lfr, k)]
    OBVIOUS
  <2>1. Place(lfr, k) = p.seq <=> k = o
    BY <1>1, <1>4, PlacesDiffer
  <2>2. window[k] = recvbuf[Place(lfr, k)] /\ Place(lfr, k) \in Slots
    BY <1>5
  <2>3. filled[k] = IF k = o THEN p.data ELSE window[k]
    OBVIOUS
  <2> HIDE DEF window
  <2> QED
    BY <1>1, <2>1, <2>2, <2>3
<1> HIDE DEF buf
<1>8. PICK n \in 0 .. W : HandsOver(buf, n)
  BY <1>2, <1>3, SlideHandsOver
<1>9. lfr' \in -1 .. N - 1
  <2>1. ServerNext
    BY DEF ServerNext, ReceivePacket
  <2> QED
    BY <2>1, NextInv DEF Inv, ServerTypeOK
<1>10. \A k \in 1 .. n : k \in 1 .. W
  BY SizesAssumption
<1>11. \A k \in 1 .. n : filled[k] # Empty
  BY <1>7, <1>8, <1>10 DEF HandsOver
<1>12. delivered' = delivered \o [k \in 1 .. n |-> filled[k]]
  BY <1>7, <1>8, <1>10 DEF HandsOver
<1>13. window' = [k \in 1 .. W |-> IF k + n <= W THEN filled[k + n] ELSE Empty]
  <2>1. ASSUME NEW k \in 1 .. W
        PROVE  recvbuf'[(lfr' + k) % N]
                 = IF k + n <= W THEN filled[k + n] ELSE Empty
    <3>1. recvbuf'[(lfr' + k) % N]
            = IF k + n <= W THEN buf[(lfr + (k + n)) % N] ELSE Empty
      BY <1>2, <1>8, <1>9, WindowMoves
    <3>2. k + n <= W => k + n \in 1 .. W
      BY SizesAssumption
    <3>3. k + n <= W => buf[(lfr + (k + n)) % N] = filled[k + n]
      BY <3>2, <1>5, <1>7, Zenon
    <3> HIDE DEF filled
    <3> QED
      BY <3>1, <3>3, Zenon
  <2> HIDE DEF filled
  <2>2. window' = [k \in 1 .. W |-> recvbuf'[(lfr' + k) % N]]
    OBVIOUS
  <2> QED
    BY <2>1, <2>2, Zenon
<1>14. Window!Receive(o, p.data)
  <2>1. \E m \in 0 .. W :
           /\ \A k \in 1 .. m : filled[k] # Empty
           /\ delivered' = delivered \o [k \in 1 .. m |-> filled[k]]
           /\ window' = [k \in 1 .. W |->
                           IF k + m <= W THEN filled[k + m] ELSE Empty]
    BY <1>11, <1>12, <1>13, Zenon
  <2> QED
    BY <1>6, <2>1, Zenon DEF Window!Receive
<1> QED
  BY <1>1, <1>14 DEF Window!Next

LEMMA WindowInit == ServerInit => Window!Init
<1> SUFFICES ASSUME ServerInit PROVE Window!Init
  OBVIOUS
<1>1. lfr \in -1 .. N - 1 /\ recvbuf = [s \in Slots |-> Empty] /\ delivered = <<>>
  BY SizesAssumption DEF ServerInit
<1>2. \A k \in 1 .. W : (lfr + k) % N \in Slots
  BY <1>1, PlaceIsSlot
<1>3. \A k \in 1 .. W : recvbuf[(lfr + k) % N] = Empty
  BY <1>1, <1>2
<1> QED
  BY <1>1, <1>3, Zenon DEF Window!Init

(* The server implements the reorder window: each of the three slides,     *)
(* also round the end of the buffer, hands over the front of the window    *)
(* and moves everything behind it, whatever packets come.                  *)
THEOREM WindowImplemented == ServerSpec => ImplementsWindow
<1>1. ServerInit => Window!Init
  BY WindowInit
<1>2. Inv /\ [ServerNext]_serverVars
        => [Window!Next]_<<delivered, [o \in 1 .. W |-> recvbuf[(lfr + o) % N]]>>
  <2> SUFFICES ASSUME Inv, [ServerNext]_serverVars
               PROVE  [Window!Next]_<<delivered,
                         [o \in 1 .. W |-> recvbuf[(lfr + o) % N]]>>
    OBVIOUS
  <2>1. ASSUME NEW p \in Packets, Store(p) PROVE Window!Next
    BY <2>1, StoreReceives
  <2>2. CASE UNCHANGED serverVars
    BY <2>2 DEF serverVars
  <2> QED
    BY <2>1, <2>2 DEF ServerNext, ReceivePacket, Ignore
<1> QED
  BY <1>1, <1>2, Invariance, PTL DEF ServerSpec, ImplementsWindow, Window!Spec
-----------------------------------------------------------------------------
(* The sending daemon. *)
LEMMA SizesType == N \in Nat /\ W \in Nat /\ N > 1
BY SizesAssumption

(* A zeroed or filled slot keeps the buffer's type. *)
LEMMA FileType == ASSUME NEW k \in 1 .. K PROVE File(k) \in BlockContents
BY FileAssumption DEF File, BlockContents, Empty

LEMMA InitType == ClientInit => ClientTypeOK
<1> SUFFICES ASSUME ClientInit PROVE ClientTypeOK
  OBVIOUS
<1>1. sendbuf \in [Slots -> BlockContents]
  BY FileAssumption DEF ClientInit, BlockContents, Empty, Junk
<1>2. lar \in -1 .. N - 1 /\ lfs \in -1 .. N - 2 /\ bufpos \in Slots
  BY SizesType DEF ClientInit, Slots
<1>3. nread \in 0 .. K /\ nsent \in Nat
  BY FileAssumption DEF ClientInit
<1> QED
  BY <1>1, <1>2, <1>3 DEF ClientInit, ClientTypeOK

(* Wherever its two scans stop, lar is an index of the buffer or -1. *)
LEMMA AdvanceLarType ==
  ASSUME ClientTypeOK, NEW buf, AdvanceLar(buf)
  PROVE  lar' \in -1 .. N - 1
<1>1. lar \in -1 .. N - 1 /\ lfs \in -1 .. N - 2
  BY DEF ClientTypeOK
<1>2. PICK i \in lar + 1 .. N :
        IF i < N
        THEN lar' = i - 1
        ELSE \E j \in 0 .. lfs + 1 : lar' = IF j # 0 THEN j - 1 ELSE N - 1
  BY DEF AdvanceLar
<1>3. CASE i < N
  BY <1>1, <1>2, <1>3, SizesType
<1>4. CASE ~(i < N)
  <2>1. PICK j \in 0 .. lfs + 1 : lar' = IF j # 0 THEN j - 1 ELSE N - 1
    BY <1>2, <1>4
  <2> QED
    BY <1>1, <2>1, SizesType
<1> QED
  BY <1>3, <1>4

LEMMA NextType == ClientTypeOK /\ [ClientNext]_clientVars => ClientTypeOK'
<1> SUFFICES ASSUME ClientTypeOK, [ClientNext]_clientVars
             PROVE  ClientTypeOK'
  OBVIOUS
<1> USE DEF ClientTypeOK, bufferVars, timerVars
<1>1. CASE Select(TRUE)
  BY <1>1 DEF Select
<1>2. CASE Resend
  <2>1. resendq # <<>> /\ Head(resendq) \in Slots /\ Tail(resendq) \in Seq(Slots)
    BY <1>2 DEF Resend, At
  <2> QED
    BY <1>2, <2>1 DEF Resend, Finish
<1>3. CASE ReadFtpc
  <2>1. nread + 1 \in 1 .. K
    BY <1>3, FileAssumption DEF ReadFtpc, At
  <2>2. sendbuf' \in [Slots -> BlockContents]
    BY <1>3, <2>1, FileType DEF ReadFtpc
  <2>3. bufpos' \in Slots
    BY <1>3, SizesType DEF ReadFtpc, Slots
  <2>4. nread' \in 0 .. K /\ todo' \subseteq todo /\ "ftpc" \notin todo'
    BY <1>3, <2>1, FileAssumption DEF ReadFtpc, Finish
  <2> QED
    BY <1>3, <2>2, <2>3, <2>4 DEF ReadFtpc
<1>4. CASE LeaveFtpc
  BY <1>4 DEF LeaveFtpc, Finish
<1>5. ASSUME NEW a \in Slots, ReceiveAck(a)
      PROVE  ClientTypeOK'
  <2>1. sendbuf' \in [Slots -> BlockContents]
    BY <1>5, FileAssumption DEF ReceiveAck, BlockContents, Empty
  <2>2. lar' \in -1 .. N - 1
    BY <1>5, AdvanceLarType DEF ReceiveAck
  <2> QED
    BY <1>5, <2>1, <2>2 DEF ReceiveAck, Finish
<1>6. CASE DiscardAck
  BY <1>6 DEF DiscardAck, Finish
<1>7. CASE SendNext
  <2>1. lfs' \in -1 .. N - 2 /\ lfs + 1 \in Slots
    BY <1>7, SizesType DEF SendNext, Slots
  <2> QED
    BY <1>7, <2>1 DEF SendNext, Finish
<1>8. CASE NothingToSend
  BY <1>8 DEF NothingToSend, Finish
<1>9. ASSUME NEW id \in Slots, Timeout(id)
      PROVE  ClientTypeOK'
  <2>1. resendq' \in Seq(Slots) /\ resendq' # <<>>
    BY <1>9 DEF Timeout
  <2> QED
    BY <1>9, <2>1 DEF Timeout
<1>10. CASE UNCHANGED clientVars
  BY <1>10 DEF clientVars
<1> QED
  BY <1>1, <1>2, <1>3, <1>4, <1>5, <1>6, <1>7, <1>8, <1>9, <1>10 DEF ClientNext

(* Whatever acknowledgements come, lar, lfs and bufpos stay indices of the *)
(* send buffer (or -1), also round its end and with the scan of client()   *)
(* that runs past lfs: every slot the driver sends, fills or zeros is one  *)
(* of the array.  It says nothing of what that scan itself reads, which is *)
(* also the slot after the last.                                           *)
THEOREM ClientTypeCorrect == ClientSpec => []ClientTypeOK
BY InitType, NextType, PTL DEF ClientSpec
-----------------------------------------------------------------------------
(* The slots the driver may read blocks into before lar or lfs moves. *)
Free == IF lfs >= lar
        THEN IF bufpos > lfs THEN (bufpos .. N - 1) \cup (0 .. lar)
                             ELSE bufpos .. lar
        ELSE IF bufpos > lfs THEN bufpos .. lar ELSE {}

FreeIsEmpty == \A s \in Free : sendbuf[s] \in {Empty, Junk}

(* Every frame sent is acknowledged. *)
Level == lar = lfs \/ (lfs = -1 /\ lar = N - 1)

(* When every frame is acknowledged, bufpos does not tell a full buffer    *)
(* from an empty one; but no block waits then, unless it was read in this  *)
(* very iteration.                                                         *)
LevelMeansEmpty ==
  Level => \/ bufpos = lfs + 1
           \/ "send" \in todo /\ "ftpc" \notin todo

ReadInv == /\ ClientTypeOK
           /\ FreeIsEmpty
           /\ LevelMeansEmpty
           /\ todo # {} => "send" \in todo

(* The scan of the acknowledged slots frees only slots that are empty. *)
LEMMA ScanKeepsFree ==
  ASSUME ReadInv, NEW a \in Slots, ReceiveAck(a)
  PROVE  FreeIsEmpty'
<1> USE DEF Slots
<1>1. /\ lar \in -1 .. N - 1 /\ lfs \in -1 .. N - 2 /\ bufpos \in 0 .. N - 1
      /\ N \in Nat /\ lfs' = lfs /\ bufpos' = bufpos
  BY SizesType DEF ReadInv, ClientTypeOK, ReceiveAck
<1> DEFINE Zero(s) == sendbuf'[s] \in {Empty, Junk}
<1>2. \A s \in Slots : sendbuf[s] \in {Empty, Junk} => Zero(s)
  BY DEF ReadInv, ClientTypeOK, ReceiveAck
<1>3. /\ AdvanceLar(sendbuf')
      /\ Free \subseteq Slots
  BY <1>1 DEF ReceiveAck, Free
<1>4. \A s \in Free : Zero(s)
  BY <1>2, <1>3 DEF ReadInv, FreeIsEmpty
<1>5. PICK i \in lar + 1 .. N :
        /\ \A s \in lar + 1 .. i - 1 : ~ScanStops(sendbuf', s)
        /\ IF i < N
           THEN lar' = i - 1
           ELSE \E j \in 0 .. lfs + 1 :
                  /\ \A s \in 0 .. j - 1 : sendbuf'[s] = Empty
                  /\ lar' = IF j # 0 THEN j - 1 ELSE N - 1
  BY <1>3 DEF AdvanceLar
<1>6. \A s \in lar + 1 .. i - 1 : Zero(s)
  BY <1>1, <1>5 DEF ScanStops
<1> HIDE DEF Zero
<1>7. CASE i < N
  <2>1. lar' = i - 1 /\ i - 1 >= lar /\ i \in Int
    BY <1>1, <1>5, <1>7
  <2>2. \A s \in Free' : s \in Free \/ s \in lar + 1 .. i - 1
    BY <1>1, <2>1 DEF Free
  <2>3. \A s \in Free' : Zero(s)
    BY <1>4, <1>6, <2>2
  <2> QED
    BY <2>3 DEF FreeIsEmpty, Zero
<1>8. CASE ~(i < N)
  <2>0. i = N
    BY <1>1, <1>8
  <2>1. PICK j \in 0 .. lfs + 1 :
          /\ \A s \in 0 .. j - 1 : sendbuf'[s] = Empty
          /\ lar' = IF j # 0 THEN j - 1 ELSE N - 1
    BY <1>5, <1>8
  <2>2. \A s \in Free' : \/ s \in Free
                        \/ s \in lar + 1 .. i - 1
                        \/ s \in 0 .. j - 1
    BY <1>1, <2>0, <2>1 DEF Free
  <2>3. \A s \in 0 .. j - 1 : Zero(s)
    BY <2>1 DEF Zero
  <2>4. \A s \in Free' : Zero(s)
    BY <1>4, <1>6, <2>2, <2>3
  <2> QED
    BY <2>4 DEF FreeIsEmpty, Zero
<1> QED
  BY <1>7, <1>8

LEMMA ReadInvNext ==
  ASSUME W + 1 < N, ReadInv, [ClientNext]_clientVars
  PROVE  ReadInv'
<1>1. /\ ClientTypeOK /\ N \in Nat /\ W \in Nat /\ N > 1 /\ W >= 1
      /\ lar \in -1 .. N - 1 /\ lfs \in -1 .. N - 2 /\ bufpos \in 0 .. N - 1
  BY SizesAssumption DEF ReadInv, ClientTypeOK, Slots
<1>2. ClientTypeOK'
  BY <1>1, NextType
<1> USE DEF bufferVars, timerVars
<1>3. ASSUME UNCHANGED <<sendbuf, lar, lfs, bufpos>>
      PROVE  FreeIsEmpty'
  BY <1>3 DEF ReadInv, FreeIsEmpty, Free
<1>4. ASSUME UNCHANGED <<lar, lfs, bufpos>>, "send" \in todo' <=> "send" \in todo,
             "ftpc" \in todo' => "ftpc" \in todo
      PROVE  LevelMeansEmpty'
  BY <1>4 DEF ReadInv, LevelMeansEmpty, Level
<1>5. CASE Select(TRUE)
  <2>1. bufpos = lfs + 1 \/ ~Level
    BY <1>5 DEF Select, ReadInv, LevelMeansEmpty
  <2>2. LevelMeansEmpty'
    BY <1>5, <2>1 DEF Select, LevelMeansEmpty, Level
  <2> QED
    BY <1>2, <1>3, <1>5, <2>2 DEF Select, ReadInv
<1>6. CASE Resend \/ LeaveFtpc \/ DiscardAck
  <2>1. /\ UNCHANGED <<sendbuf, lar, lfs, bufpos>>
        /\ "send" \in todo' <=> "send" \in todo
        /\ "ftpc" \in todo' => "ftpc" \in todo
        /\ todo' \subseteq todo
    BY <1>6 DEF Resend, LeaveFtpc, DiscardAck, Finish
  <2> QED
    BY <1>2, <1>3, <1>4, <2>1 DEF ReadInv
<1>7. CASE ReadFtpc
  <2>1. /\ lar' = lar /\ lfs' = lfs /\ RoomToRead
        /\ bufpos' = (IF bufpos + 1 = N THEN 0 ELSE bufpos + 1)
        /\ sendbuf' = [sendbuf EXCEPT ![bufpos] = File(nread + 1)]
        /\ "ftpc" \in todo /\ "ftpc" \notin todo' /\ todo' = todo \ {"ftpc"}
    BY <1>7 DEF ReadFtpc, At, Finish
  <2>2. Level => bufpos = lfs + 1
    BY <2>1 DEF ReadInv, LevelMeansEmpty
  <2>3. Free' \subseteq Free \ {bufpos}
    BY <1>1, <2>1, <2>2 DEF Free, Level, RoomToRead
  <2>4. \A s \in Free' : s \in Slots /\ s # bufpos
    BY <1>1, <2>3 DEF Free, Slots
  <2>5. \A s \in Free' : sendbuf'[s] = sendbuf[s]
    BY <2>1, <2>4 DEF ReadInv, ClientTypeOK
  <2>6. FreeIsEmpty'
    BY <2>3, <2>5 DEF ReadInv, FreeIsEmpty
  <2>7. "send" \in todo'
    BY <2>1 DEF ReadInv
  <2> QED
    BY <1>2, <2>1, <2>6, <2>7 DEF ReadInv, LevelMeansEmpty
<1>8. ASSUME NEW a \in Slots, ReceiveAck(a)
      PROVE  ReadInv'
  <2>1. "send" \in todo' /\ "ftpc" \notin todo'
    BY <1>8 DEF ReceiveAck, At, Finish, ReadInv
  <2> QED
    BY <1>2, <1>8, <2>1, ScanKeepsFree DEF ReadInv, LevelMeansEmpty
<1>9. CASE SendNext
  <2>1. /\ UNCHANGED <<sendbuf, lar, bufpos>> /\ RoomToSend
        /\ lfs' = IF lfs + 1 = N - 1 THEN -1 ELSE lfs + 1
    BY <1>9 DEF SendNext
  <2>2. Free' \subseteq Free /\ ~Level'
    BY <1>1, <2>1 DEF Free, Level, RoomToSend
  <2>3. todo' = {}
    BY <1>9 DEF SendNext, At, Finish, ReadInv, ClientTypeOK
  <2> QED
    BY <1>2, <2>1, <2>2, <2>3 DEF ReadInv, FreeIsEmpty, LevelMeansEmpty
<1>10. CASE NothingToSend
  <2>1. ~RoomToSend /\ UNCHANGED <<sendbuf, lar, lfs, bufpos>>
    BY <1>10 DEF NothingToSend
  <2>2. Level => bufpos = lfs + 1
    BY <1>1, <2>1 DEF Level, RoomToSend
  <2>3. LevelMeansEmpty'
    BY <2>1, <2>2 DEF Level, LevelMeansEmpty
  <2>4. todo' = {}
    BY <1>10 DEF NothingToSend, At, Finish, ReadInv, ClientTypeOK
  <2> QED
    BY <1>2, <1>3, <2>1, <2>3, <2>4 DEF ReadInv
<1>11. ASSUME NEW id \in Slots, Timeout(id)
       PROVE  ReadInv'
  BY <1>2, <1>3, <1>4, <1>11 DEF Timeout, ReadInv
<1>12. CASE UNCHANGED clientVars
  BY <1>2, <1>3, <1>4, <1>12 DEF clientVars, ReadInv
<1> QED
  BY <1>5, <1>6, <1>7, <1>8, <1>9, <1>10, <1>11, <1>12 DEF ClientNext

(* Only ReadFtpc reads a block, and into a free slot. *)
LEMMA ReadOnlyIntoFree ==
  ASSUME ReadInv, [ClientNext]_clientVars
  PROVE  nread' > nread => sendbuf[bufpos] \in {Empty, Junk}
<1>1. nread \in Int
  BY DEF ReadInv, ClientTypeOK
<1>2. CASE ReadFtpc
  <2>1. /\ RoomToRead /\ N \in Nat /\ lar \in -1 .. N - 1
        /\ lfs \in -1 .. N - 2 /\ bufpos \in 0 .. N - 1
    BY <1>2, SizesType DEF ReadFtpc, ReadInv, ClientTypeOK, Slots
  <2>2. bufpos \in Free
    BY <2>1 DEF Free, RoomToRead
  <2> QED
    BY <2>2 DEF ReadInv, FreeIsEmpty
<1>3. CASE ~ReadFtpc
  <2>1. nread' = nread
    BY <1>3 DEF ClientNext, Select, Resend, LeaveFtpc, ReceiveAck, DiscardAck,
                SendNext, NothingToSend, Timeout, clientVars, bufferVars
  <2> QED
    BY <1>1, <2>1
<1> QED
  BY <1>2, <1>3

(* A block is read from ftpc only into a slot that holds nothing but what  *)
(* the stack held, in every round of the indices and whatever              *)
(* acknowledgements and resend requests come: the test of client() tells a *)
(* full buffer from an empty one although bufpos alone cannot.             *)
THEOREM ClientReadsIntoFreeSlots ==
  ASSUME W + 1 < N
  PROVE  ClientSpec => NothingOverwritten
<1>1. ClientInit => ReadInv
  <2>1. ASSUME ClientInit PROVE FreeIsEmpty
    BY <2>1, SizesType DEF ClientInit, FreeIsEmpty, Free, Slots
  <2> QED
    BY <2>1, InitType DEF ClientInit, ReadInv, LevelMeansEmpty
<1>2. ReadInv /\ [ClientNext]_clientVars => ReadInv'
  BY ReadInvNext
<1>3. ReadInv /\ [ClientNext]_clientVars
        => [nread' > nread => sendbuf[bufpos] \in {Empty, Junk}]_clientVars
  BY ReadOnlyIntoFree
<1> QED
  BY <1>1, <1>2, <1>3, PTL DEF ClientSpec, NothingOverwritten
=============================================================================
