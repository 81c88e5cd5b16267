----------------------------- MODULE TcpdServer -----------------------------
(***************************************************************************)
(* server() of tcpd.c: the receiving daemon.  It keeps a circular buffer   *)
(* of N blocks, the largest frame received in order (lfr) and the largest  *)
(* acceptable frame (laf), hands consecutive blocks to ftps and sends an   *)
(* acknowledgement for every packet whose checksum is right.               *)
(*                                                                         *)
(* The specification of this module is the server among arbitrary packets: *)
(* any sequence number of the buffer with any contents, at any time.       *)
(***************************************************************************)
EXTENDS TcpdBase

CONSTANT Blocks   \* the blocks, other than the all-zero one, packets carry

(* The all-zero block is not among them. *)
ASSUME BlocksAssumption == Blocks \subseteq Nat \ {Empty}

Contents == Blocks \cup {Empty}

Packets == [seq : Slots, data : Contents]

VARIABLES recvbuf,     \* the receive buffer
          lfr,         \* largest frame received, -1 before slot 0
          laf,         \* largest acceptable frame
          delivered    \* history: the blocks sent to ftps, in order

serverVars == <<recvbuf, lfr, laf, delivered>>

ServerInit ==
  /\ recvbuf = [s \in Slots |-> Empty]
  /\ lfr = -1
  /\ laf = lfr + W
  /\ delivered = <<>>
-----------------------------------------------------------------------------
(* The window test on the sequence number. *)
InWindow(seq) ==
  \/ laf >= lfr /\ seq > lfr /\ seq <= laf
  \/ laf < lfr /\ (seq > lfr \/ seq <= laf)

(* Mutant: laf is not brought back into the buffer.                        *)
SlideStraightUnreduced(buf) ==
  /\ laf > lfr
  /\ \E i \in lfr + 1 .. laf + 1 :
       /\ IsFirstEmpty(buf, lfr + 1, laf, i)
       /\ recvbuf' = Zeroed(buf, lfr + 1 .. i - 1)
       /\ delivered' = delivered \o Run(buf, lfr + 1, i - 1)
       /\ lfr' = i - 1
       /\ laf' = lfr' + W

(* The window does not wrap: deliver from lfr+1 up to the first empty slot.*)
SlideStraight(buf) ==
  /\ laf > lfr
  /\ \E i \in lfr + 1 .. laf + 1 :
       /\ IsFirstEmpty(buf, lfr + 1, laf, i)
       /\ recvbuf' = Zeroed(buf, lfr + 1 .. i - 1)
       /\ delivered' = delivered \o Run(buf, lfr + 1, i - 1)
       /\ lfr' = IF i - 1 > N - 1 THEN -1 ELSE i - 1
       /\ laf' = IF i = lfr + 1 THEN laf
                 ELSE IF lfr' + W > N - 1 THEN lfr' + W - N ELSE lfr' + W

(* Mutant: laf moves by one too many.                                      *)
SlideToGapTooFar(buf) ==
  /\ laf < lfr
  /\ \E i \in lfr + 1 .. N :
       /\ IsFirstEmpty(buf, lfr + 1, N - 1, i)
       /\ i < N \/ i = lfr + 1
       /\ recvbuf' = Zeroed(buf, lfr + 1 .. i - 1)
       /\ delivered' = delivered \o Run(buf, lfr + 1, i - 1)
       /\ lfr' = i - 1
       /\ laf' = laf + (i - lfr)

(* The window wraps and the run ends before the end of the buffer, or is   *)
(* empty.                                                                  *)
SlideToGap(buf) ==
  /\ laf < lfr
  /\ \E i \in lfr + 1 .. N :
       /\ IsFirstEmpty(buf, lfr + 1, N - 1, i)
       /\ i < N \/ i = lfr + 1
       /\ recvbuf' = Zeroed(buf, lfr + 1 .. i - 1)
       /\ delivered' = delivered \o Run(buf, lfr + 1, i - 1)
       /\ lfr' = i - 1
       /\ laf' = laf + (i - lfr - 1)

(* Mutant: the run stops at the end of the buffer.                         *)
SlideAroundStops(buf) ==
  /\ laf < lfr
  /\ lfr < N - 1
  /\ IsFirstEmpty(buf, lfr + 1, N - 1, N)
  /\ recvbuf' = Zeroed(buf, lfr + 1 .. N - 1)
  /\ delivered' = delivered \o Run(buf, lfr + 1, N - 1)
  /\ lfr' = -1
  /\ laf' = lfr' + W

(* Mutant: lfr is the first empty slot, not the one before it.             *)
SlideAroundOffByOne(buf) ==
  /\ laf < lfr
  /\ lfr < N - 1
  /\ IsFirstEmpty(buf, lfr + 1, N - 1, N)
  /\ \E j \in 0 .. laf + 1 :
       /\ IsFirstEmpty(buf, 0, laf, j)
       /\ recvbuf' = Zeroed(buf, (lfr + 1 .. N - 1) \cup (0 .. j - 1))
       /\ delivered' = delivered \o Run(buf, lfr + 1, N - 1)
                                 \o Run(buf, 0, j - 1)
       /\ lfr' = j
       /\ laf' = lfr' + W

(* The window wraps and the run reaches the end of the buffer: it goes on  *)
(* from slot 0.                                                            *)
SlideAround(buf) ==
  /\ laf < lfr
  /\ lfr < N - 1
  /\ IsFirstEmpty(buf, lfr + 1, N - 1, N)
  /\ \E j \in 0 .. laf + 1 :
       /\ IsFirstEmpty(buf, 0, laf, j)
       /\ recvbuf' = Zeroed(buf, (lfr + 1 .. N - 1) \cup (0 .. j - 1))
       /\ delivered' = delivered \o Run(buf, lfr + 1, N - 1)
                                 \o Run(buf, 0, j - 1)
       /\ lfr' = j - 1
       /\ laf' = lfr' + W

(* Mutant: a packet out of the window is stored.                           *)
StoreAnywhere(p) ==
  LET buf == [recvbuf EXCEPT ![p.seq] = p.data]
  IN  /\ recvbuf[p.seq] = Empty
      /\ SlideStraight(buf) \/ SlideToGap(buf) \/ SlideAround(buf)

(* Mutant: a duplicate of a held packet replaces it.                       *)
StoreDuplicate(p) ==
  LET buf == [recvbuf EXCEPT ![p.seq] = p.data]
  IN  /\ InWindow(p.seq)
      /\ SlideStraight(buf) \/ SlideToGap(buf) \/ SlideAround(buf)

(* The packet is stored and the run at the front of the window delivered.  *)
Store(p) ==
  LET buf == [recvbuf EXCEPT ![p.seq] = p.data]
  IN  /\ InWindow(p.seq)
      /\ recvbuf[p.seq] = Empty
      /\ SlideStraight(buf) \/ SlideToGap(buf) \/ SlideAround(buf)

(* Out of the window or a duplicate: nothing is stored. *)
Ignore(p) ==
  /\ ~(InWindow(p.seq) /\ recvbuf[p.seq] = Empty)
  /\ UNCHANGED serverVars

(* The handler of a packet with a right checksum.  In every case it ends   *)
(* by sending AckOf(p) to the troll.                                       *)
ReceivePacket(p) == Store(p) \/ Ignore(p)

AckOf(p) == p.seq

ServerNext == \E p \in Packets : ReceivePacket(p)

ServerSpec == ServerInit /\ [][ServerNext]_serverVars
-----------------------------------------------------------------------------
(* Type correctness: lfr and laf stay indices of the buffer.               *)
ServerTypeOK ==
  /\ recvbuf \in [Slots -> Contents]
  /\ lfr \in -1 .. N - 1
  /\ laf \in Slots
  /\ delivered \in Seq(Blocks)

(* The window is always W wide: the three places that compute laf (after a *)
(* straight run, incrementally, after a wrap) agree with lfr + WINDOW.     *)
WindowWidth == laf = (lfr + W) % N

(* A block is held only inside the window: no block is left behind in a    *)
(* slot where it would later pass for a duplicate of another frame.        *)
HeldInWindow == \A s \in Slots : recvbuf[s] # Empty => InWindow(s)

(* lfr counts what ftps has been sent: the next slot to deliver is the     *)
(* number of blocks delivered modulo the buffer size.                      *)
LfrCountsDelivered == Len(delivered) % N = (lfr + 1) % N

(* Unless lfr is the last slot, nothing deliverable stays behind.          *)
FrontIsEmpty == lfr < N - 1 => recvbuf[lfr + 1] = Empty

(* Nothing deliverable ever stays behind: the scan for "the first empty    *)
(* block" (tcpd.c:842-843) leaves the slot after lfr empty.                *)
NothingDeliverableStays == recvbuf[(lfr + 1) % N] = Empty

(* The server implements the reorder window: slot (lfr + o) mod N is place *)
(* o of the window.                                                        *)
Window == INSTANCE ReorderWindow WITH
            out <- delivered,
            held <- [o \in 1 .. W |-> recvbuf[(lfr + o) % N]]

ImplementsWindow == Window!Spec
=============================================================================
