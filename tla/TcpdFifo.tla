------------------------------ MODULE TcpdFifo ------------------------------
(***************************************************************************)
(* The two daemons over a network that keeps packets in order and does not *)
(* duplicate them: the files longer than the circular buffers, where       *)
(* sequence numbers come round again.  The troll loses or garbles at most  *)
(* MaxLosses messages in a run: acknowledgements of any frame, packets of  *)
(* frames in LossySlots only, for the protocol does not survive every loss *)
(* once the sequence numbers come round.                                   *)
(*                                                                         *)
(* A timer may expire at any time.  When the frame's packet or its         *)
(* acknowledgement is still on its way the timer was too short, and early  *)
(* remembers it: the daemons promise nothing for the rest of such a run,   *)
(* because a frame sent twice is acknowledged twice, and the second        *)
(* acknowledgement may free a slot that holds another frame by then.       *)
(***************************************************************************)
EXTENDS TcpdClient, TcpdServer, FiniteSets

CONSTANTS MaxLosses,   \* bound on the messages the troll drops or garbles
          LossySlots,  \* the slots whose packets it may drop or garble
          MaxEarly     \* bound on the timers that are too short

ASSUME LossAssumption == /\ MaxLosses \in Nat /\ MaxEarly \in Nat
                         /\ LossySlots \subseteq Slots

VARIABLES pkts,    \* packets on the way to the server, oldest first
          acks,    \* acknowledgements on the way to the client
          losses,  \* how many of both were lost so far
          early    \* history: how many timers expired too early

netVars == <<pkts, acks, losses, early>>
vars == <<clientVars, serverVars, netVars>>

Init == /\ ClientInit
        /\ ServerInit
        /\ pkts = <<>> /\ acks = <<>> /\ losses = 0 /\ early = 0
-----------------------------------------------------------------------------
DriverSelect == Select(acks # <<>>) /\ UNCHANGED <<serverVars, netVars>>

DriverResend ==
  /\ Resend
  /\ pkts' = Append(pkts, ResendPacket)
  /\ UNCHANGED <<serverVars, acks, losses, early>>

DriverRead == (ReadFtpc \/ LeaveFtpc) /\ UNCHANGED <<serverVars, netVars>>

DriverAck ==
  /\ acks # <<>>
  /\ ReceiveAck(Head(acks))
  /\ acks' = Tail(acks)
  /\ UNCHANGED <<serverVars, pkts, losses, early>>

(* A garbled acknowledgement. *)
DriverBadAck ==
  /\ losses < MaxLosses
  /\ acks # <<>>
  /\ DiscardAck
  /\ acks' = Tail(acks)
  /\ losses' = losses + 1
  /\ UNCHANGED <<serverVars, pkts, early>>

DriverSend ==
  /\ SendNext
  /\ pkts' = Append(pkts, NextPacket)
  /\ UNCHANGED <<serverVars, acks, losses, early>>

DriverIdle == NothingToSend /\ UNCHANGED <<serverVars, netVars>>

Driver == \/ DriverSelect \/ DriverResend \/ DriverRead
          \/ DriverAck \/ DriverBadAck \/ DriverSend \/ DriverIdle

(* Something about slot id is on its way. *)
UnderWay(id) == \/ \E i \in 1 .. Len(pkts) : pkts[i].seq = id
                \/ \E i \in 1 .. Len(acks) : acks[i] = id

TimerExpires(id) ==
  /\ Timeout(id)
  /\ early' = early + (IF UnderWay(id) THEN 1 ELSE 0)
  /\ early' <= MaxEarly
  /\ UNCHANGED <<serverVars, pkts, acks, losses>>

ServerReceives ==
  /\ pkts # <<>>
  /\ ReceivePacket(Head(pkts))
  /\ pkts' = Tail(pkts)
  /\ acks' = Append(acks, AckOf(Head(pkts)))
  /\ UNCHANGED <<clientVars, losses, early>>

(* The packet is dropped by the troll or by the server's checksum test. *)
PacketLost ==
  /\ losses < MaxLosses
  /\ pkts # <<>>
  /\ Head(pkts).seq \in LossySlots
  /\ pkts' = Tail(pkts)
  /\ losses' = losses + 1
  /\ UNCHANGED <<clientVars, serverVars, acks, early>>

(* The troll drops an acknowledgement before select() has seen it. *)
AckLost ==
  /\ losses < MaxLosses
  /\ acks # <<>> /\ "ack" \notin todo
  /\ acks' = Tail(acks)
  /\ losses' = losses + 1
  /\ UNCHANGED <<clientVars, serverVars, pkts, early>>

Next == \/ Driver
        \/ \E id \in Slots : TimerExpires(id)
        \/ ServerReceives \/ PacketLost \/ AckLost

Spec == Init /\ [][Next]_vars

(* Both daemons and the timer process keep running, the blocks of ftpc and *)
(* the acknowledgements on the way arrive.                                 *)
Fairness ==
  /\ WF_vars(Driver)
  /\ WF_vars(ServerReceives)
  /\ \A id \in Slots : WF_vars(TimerExpires(id))
  /\ SF_vars(DriverSelect /\ "resend" \in todo')
  /\ SF_vars(DriverSelect /\ "ftpc" \in todo')
  /\ SF_vars(DriverSelect /\ "ack" \in todo')

FairSpec == Spec /\ Fairness
-----------------------------------------------------------------------------
(* Type correctness of the composition. *)
TypeOK == /\ ClientTypeOK
          /\ ServerTypeOK
          /\ pkts \in Seq([seq : Slots, data : BlockContents])
          /\ acks \in Seq(Slots)
          /\ losses \in 0 .. MaxLosses
          /\ early \in 0 .. MaxEarly

(* The sender's window lies inside the receiver's ("if lfs-lar<sws, then   *)
(* we can send the next packet in the window", tcpd.c:639).                *)
WindowsAgree == nsent <= Len(delivered) + W

(* A block read from ftpc is in the send buffer or received.               *)
Remembered(k) == \/ k <= Len(delivered)
                 \/ k <= nsent /\ recvbuf[(k - 1) % N] = k
                 \/ sendbuf[(k - 1) % N] = k

(* As long as no timer was too short, no block is forgotten: whatever      *)
(* acknowledgements are lost, a frame sent again does not free a slot that *)
(* a later frame has taken over (tcpd.c:605).                              *)
NothingForgotten == early = 0 => \A k \in 1 .. nread : Remembered(k)

(* ftps receives what the client reads ("client, send file to server",     *)
(* README:9), early timers or not.                                         *)
NeverForgotten == \A k \in 1 .. nread : Remembered(k)

(* Timers and resend requests are together no more than the frames under   *)
(* way, which are W, and one more when the sender's window is wrapped, in  *)
(* every round: none is left behind by the frame that had the slot before. *)
(* Every timer that was too short may leave one more behind.               *)
RequestsFit == Cardinality(armed) + Len(resendq) <= W + 1 + early

(* As long as no timer was too short the daemons implement the transfer of *)
(* the file: in order, each block once, and all of it.                     *)
Transfer == INSTANCE FileTransfer WITH
              sent <- nread, received <- delivered, broken <- early > 0

ImplementsTransfer == Transfer!Spec

(* ftps receives the whole file (README:11, "server, receive file from     *)
(* client").                                                               *)
FileArrives == <>(Len(delivered) = K)
=============================================================================
