----------------------------- MODULE TcpdClient -----------------------------
(***************************************************************************)
(* client() of tcpd.c: two processes made by fork().  The driver reads     *)
(* blocks from ftpc into a circular buffer, sends the next frame of its    *)
(* window, handles acknowledgements and resends what the timer asks for.   *)
(* The timer process keeps one timer per frame number and writes a resend  *)
(* request to the driver's pipe when a timer expires.                      *)
(*                                                                         *)
(* The driver is a loop around select(): what was readable when select()   *)
(* returned is handled in a fixed order, then at most one new frame is     *)
(* sent.  todo holds the parts of the iteration still to run.  The         *)
(* driver's pipe to the timer is not a variable: a start or cancel takes   *)
(* effect when it is written, and the time it spends in the pipe is part   *)
(* of the time a request takes to reach the driver (see the README).       *)
(*                                                                         *)
(* The specification of this module is the client among arbitrary          *)
(* acknowledgements.                                                       *)
(***************************************************************************)
EXTENDS TcpdBase

CONSTANTS K,           \* number of blocks ftpc sends
          ZeroBlocks,  \* those of 1..K that are all zeros
          JunkSlots    \* slots of sendbuf that may not be zero at the start

ASSUME FileAssumption == /\ K \in Nat
                         /\ ZeroBlocks \subseteq 1 .. K
                         /\ JunkSlots \subseteq Slots

(* What uninitialised stack memory holds: not a block of the file. *)
Junk == K + 1

BlockContents == 0 .. K + 1

(* The contents of the k-th block of the file. *)
File(k) == IF k \in ZeroBlocks THEN Empty ELSE k

VARIABLES sendbuf,   \* the send buffer
          lar,       \* last acknowledgement received, -1 before slot 0
          lfs,       \* last frame sent
          bufpos,    \* the slot the next block from ftpc goes to
          nread,     \* how many blocks were read from ftpc
          nsent,     \* history: how many new frames were sent
          todo,      \* the parts of the driver's iteration still to run
          armed,     \* the timer process' list: the frames with a timer
          resendq    \* the pipe from the timer to the driver

bufferVars == <<sendbuf, lar, lfs, bufpos, nread, nsent>>
timerVars == <<armed, resendq>>
clientVars == <<bufferVars, todo, timerVars>>

ClientInit ==
  /\ sendbuf \in [Slots -> {Empty, Junk}]
  /\ \A s \in Slots \ JunkSlots : sendbuf[s] = Empty
  /\ lar = -1 /\ lfs = -1 /\ bufpos = 0
  /\ nread = 0 /\ nsent = 0
  /\ todo = {}
  /\ armed = {} /\ resendq = <<>>
-----------------------------------------------------------------------------
(* Mutant: the pipe from the timer is read without asking whether it holds *)
(* a request.                                                              *)
SelectUnasked(ackPending) ==
  /\ todo = {}
  /\ \E ready \in SUBSET {"ftpc", "ack"} :
       /\ "ftpc" \in ready => nread < K
       /\ "ack" \in ready => ackPending
       /\ todo' = ready \cup {"send", "resend"}
  /\ UNCHANGED <<bufferVars, timerVars>>

(* select(): a request from the timer, a block from ftpc or an             *)
(* acknowledgement may or may not have arrived.                            *)
Select(ackPending) ==
  /\ todo = {}
  /\ \E ready \in SUBSET {"resend", "ftpc", "ack"} :
       /\ "resend" \in ready => resendq # <<>>
       /\ "ftpc" \in ready => nread < K
       /\ "ack" \in ready => ackPending
       /\ todo' = ready \cup {"send"}
  /\ UNCHANGED <<bufferVars, timerVars>>

(* Part p of the iteration is the next to run. *)
At(p) ==
  /\ p \in todo
  /\ p # "resend" => "resend" \notin todo
  /\ p \in {"ack", "send"} => "ftpc" \notin todo
  /\ p = "send" => "ack" \notin todo

Finish(p) == todo' = todo \ {p}

(* The packet sendto() gets for the resend request at the head of the pipe.*)
ResendPacket == [seq |-> Head(resendq), data |-> sendbuf[Head(resendq)]]

(* Mutant: no timer is started after a resend.                             *)
ResendUntimed ==
  /\ At("resend")
  /\ resendq' = Tail(resendq)
  /\ Finish("resend")
  /\ UNCHANGED <<bufferVars, armed>>

(* A resend request: whatever the slot now holds is sent, and the timer is *)
(* started again.                                                          *)
Resend ==
  /\ At("resend")
  /\ resendq' = Tail(resendq)
  /\ armed' = armed \cup {Head(resendq)}
  /\ Finish("resend")
  /\ UNCHANGED bufferVars

(* Mutant: a wrapped window is not taken into account.                     *)
RoomToReadUnwrapped == bufpos > lfs \/ bufpos <= lar

(* The test that slot bufpos is out of the window. *)
RoomToRead ==
  \/ lfs >= lar /\ (bufpos > lfs \/ bufpos <= lar)
  \/ lfs < lar /\ bufpos <= lar /\ bufpos > lfs

ReadFtpc ==
  /\ At("ftpc")
  /\ RoomToRead
  /\ sendbuf' = [sendbuf EXCEPT ![bufpos] = File(nread + 1)]
  /\ bufpos' = (IF bufpos + 1 = N THEN 0 ELSE bufpos + 1)
  /\ nread' = nread + 1
  /\ Finish("ftpc")
  /\ UNCHANGED <<lar, lfs, nsent, timerVars>>

(* No room: the block stays in the socket. *)
LeaveFtpc ==
  /\ At("ftpc")
  /\ ~RoomToRead
  /\ Finish("ftpc")
  /\ UNCHANGED <<bufferVars, timerVars>>
-----------------------------------------------------------------------------
(* Where the scan for the first block not acknowledged stops.  The loop    *)
(* condition reads i <= (lfs>=lar) ? lfs : 63, which C parses as           *)
(* (i <= (lfs>=lar)) ? lfs : 63: it is false only when lfs is 0 and i at   *)
(* most the truth value of lfs>=lar.  So the scan runs past lfs; at i = N  *)
(* it reads past the array, into the frame's saved registers and return    *)
(* address, which are not zero.                                            *)
ScanStops(buf, i) ==
  i < N => \/ buf[i] # Empty
           \/ lfs = 0 /\ i <= (IF lfs >= lar THEN 1 ELSE 0)

(* The scan from lar+1, and, when it reaches the end, again from slot 0. *)
AdvanceLar(buf) ==
  \E i \in lar + 1 .. N :
    /\ ScanStops(buf, i)
    /\ \A s \in lar + 1 .. i - 1 : ~ScanStops(buf, s)
    /\ IF i < N
       THEN lar' = i - 1
       ELSE \E j \in 0 .. lfs + 1 :
              /\ \A s \in 0 .. j - 1 : buf[s] = Empty
              /\ j <= lfs => buf[j] # Empty
              /\ lar' = IF j # 0 THEN j - 1 ELSE N - 1

(* Mutant: acknowledgements are taken to come in order.                    *)
ReceiveAckInOrder(a) ==
  /\ At("ack")
  /\ armed' = armed \ {a}
  /\ sendbuf' = [sendbuf EXCEPT ![(lar + 1) % N] = Empty]
  /\ AdvanceLar([sendbuf EXCEPT ![(lar + 1) % N] = Empty])
  /\ Finish("ack")
  /\ UNCHANGED <<lfs, bufpos, nread, nsent, resendq>>

(* An acknowledgement with a right checksum. *)
ReceiveAck(a) ==
  /\ At("ack")
  /\ armed' = armed \ {a}
  /\ sendbuf' = [sendbuf EXCEPT ![a] = Empty]
  /\ AdvanceLar([sendbuf EXCEPT ![a] = Empty])
  /\ Finish("ack")
  /\ UNCHANGED <<lfs, bufpos, nread, nsent, resendq>>

(* A garbled acknowledgement. *)
DiscardAck ==
  /\ At("ack")
  /\ Finish("ack")
  /\ UNCHANGED <<bufferVars, timerVars>>
-----------------------------------------------------------------------------
(* Mutant: a frame is sent before its block was read.                      *)
RoomToSendUnfilled ==
  \/ lfs >= lar /\ lfs - lar < W /\ (lfs + 1 <= bufpos \/ bufpos <= lar)
  \/ lfs < lar /\ N - 1 - lar + lfs < W /\ lfs + 1 < bufpos

(* Mutant: the window is one frame too wide.                               *)
RoomToSendWide ==
  \/ lfs >= lar /\ lfs - lar <= W /\ (lfs + 1 < bufpos \/ bufpos <= lar)
  \/ lfs < lar /\ N - 1 - lar + lfs < W /\ lfs + 1 < bufpos

(* The test that frame lfs+1 is filled and inside the window. *)
RoomToSend ==
  \/ lfs >= lar /\ lfs - lar < W /\ (lfs + 1 < bufpos \/ bufpos <= lar)
  \/ lfs < lar /\ N - 1 - lar + lfs < W /\ lfs + 1 < bufpos

NextPacket == [seq |-> lfs + 1, data |-> sendbuf[lfs + 1]]

(* Mutant: lfs does not wrap.                                              *)
SendNextUnwrapped ==
  /\ At("send")
  /\ RoomToSend
  /\ armed' = armed \cup {lfs + 1}
  /\ lfs' = lfs + 1
  /\ nsent' = nsent + 1
  /\ Finish("send")
  /\ UNCHANGED <<sendbuf, lar, bufpos, nread, resendq>>

SendNext ==
  /\ At("send")
  /\ RoomToSend
  /\ armed' = armed \cup {lfs + 1}
  /\ lfs' = IF lfs + 1 = N - 1 THEN -1 ELSE lfs + 1
  /\ nsent' = nsent + 1
  /\ Finish("send")
  /\ UNCHANGED <<sendbuf, lar, bufpos, nread, resendq>>

NothingToSend ==
  /\ At("send")
  /\ ~RoomToSend
  /\ Finish("send")
  /\ UNCHANGED <<bufferVars, timerVars>>
-----------------------------------------------------------------------------
(* Mutant: the timer stays in the list when it has expired.                *)
TimeoutStays(id) ==
  /\ id \in armed
  /\ resendq' = Append(resendq, id)
  /\ UNCHANGED <<bufferVars, todo, armed>>

(* The timer process: the timer of frame id expires. *)
Timeout(id) ==
  /\ id \in armed
  /\ armed' = armed \ {id}
  /\ resendq' = Append(resendq, id)
  /\ UNCHANGED <<bufferVars, todo>>

ClientNext ==
  \/ Select(TRUE)
  \/ Resend
  \/ ReadFtpc \/ LeaveFtpc
  \/ \E a \in Slots : ReceiveAck(a)
  \/ DiscardAck
  \/ SendNext \/ NothingToSend
  \/ \E id \in Slots : Timeout(id)

ClientSpec == ClientInit /\ [][ClientNext]_clientVars
-----------------------------------------------------------------------------
(* Type correctness.  With it every slot the driver sends or writes is one *)
(* of the array, lfs + 1 included; only the scan of AdvanceLar reads past  *)
(* its end.                                                                *)
ClientTypeOK ==
  /\ sendbuf \in [Slots -> BlockContents]
  /\ lar \in -1 .. N - 1
  /\ lfs \in -1 .. N - 2
  /\ bufpos \in Slots
  /\ nread \in 0 .. K
  /\ nsent \in Nat
  /\ todo \subseteq {"resend", "ftpc", "ack", "send"}
  /\ "ftpc" \in todo => nread < K
  /\ "resend" \in todo => resendq # <<>>
  /\ armed \subseteq Slots
  /\ resendq \in Seq(Slots)

(* Reading from ftpc never overwrites a block that waits to be sent or     *)
(* acknowledged, round after round and whatever acknowledgements come.     *)
NothingOverwritten ==
  [][nread' > nread => sendbuf[bufpos] \in {Empty, Junk}]_clientVars
=============================================================================
