------------------------------ MODULE TcpdBase ------------------------------
(***************************************************************************)
(* What both ends of the TCP daemon (tcpd.c) share: the circular buffers   *)
(* of N blocks, the window of W frames and the emptiness test.             *)
(*                                                                         *)
(* A block of BUFFSIZE bytes is a natural number: the number of the block  *)
(* in the file.  Empty stands for BUFFSIZE zero bytes: the code has no     *)
(* other mark for a free slot (checkEmpty), so a file block that is all    *)
(* zeros IS Empty.                                                         *)
(***************************************************************************)
EXTENDS Integers, Sequences

CONSTANTS N,    \* SEND_RECV_BUF_SIZE, 64 in head.h
          W     \* WINDOW, 20 in head.h

(* The arithmetic on the window limits relies on the window being at most  *)
(* half the buffer, rounded up: 2*20 <= 64+1.  With a wider one laf would  *)
(* leave the array after a run that goes round the end of the buffer.      *)
ASSUME SizesAssumption == /\ N \in Nat
                          /\ W \in Nat
                          /\ 1 <= W
                          /\ W < N
                          /\ 2 * W <= N + 1

Slots == 0 .. N - 1

Empty == 0

(* The end of a scan for the first empty block among slots a..b: the first *)
(* i with an empty slot, b+1 when there is none.                           *)
IsFirstEmpty(buf, a, b, i) ==
  /\ i \in a .. b + 1
  /\ \A s \in a .. i - 1 : buf[s] # Empty
  /\ i <= b => buf[i] = Empty

(* The blocks of slots a..b, in slot order. *)
Run(buf, a, b) == [k \in 1 .. b + 1 - a |-> buf[a + k - 1]]

(* bzero of the slots in S. *)
Zeroed(buf, S) == [s \in Slots |-> IF s \in S THEN Empty ELSE buf[s]]
=============================================================================
