-------------------------------- MODULE Tcpd --------------------------------
(***************************************************************************)
(* The two daemons and the troll between them: a datagram network that     *)
(* loses, garbles, duplicates, delays and reorders packets and             *)
(* acknowledgements.  What is in flight is a set: a message is consumed or *)
(* stays for a second delivery, and comes in any order.  Timers expire at  *)
(* any time, so also before the acknowledgement had a chance to arrive.    *)
(***************************************************************************)
EXTENDS TcpdClient, TcpdServer, FiniteSetsExt

CONSTANT MaxInFlight   \* bound on the messages in flight in each direction

VARIABLES pkts,   \* packets in flight to the server
          acks    \* acknowledgements in flight to the client

netVars == <<pkts, acks>>
vars == <<clientVars, serverVars, netVars>>

Init == /\ ClientInit
        /\ ServerInit
        /\ pkts = {} /\ acks = {}
-----------------------------------------------------------------------------
(* sendto(); a message the bound has no place for is one more lost one. *)
Sent(net, m) == IF Cardinality(net) < MaxInFlight THEN net \cup {m} ELSE net

(* After a delivery a message is gone, or a duplicate of it is on its way. *)
Consumed(net, m) == {net, net \ {m}}

DriverSelect == Select(acks # {}) /\ UNCHANGED <<serverVars, netVars>>

DriverResend ==
  /\ Resend
  /\ pkts' = Sent(pkts, ResendPacket)
  /\ UNCHANGED <<serverVars, acks>>

DriverRead == (ReadFtpc \/ LeaveFtpc) /\ UNCHANGED <<serverVars, netVars>>

(* "ack" \in todo says that an acknowledgement has arrived: the one read.  *)
DriverAck(a) ==
  /\ a \in acks
  /\ ReceiveAck(a)
  /\ acks' \in Consumed(acks, a)
  /\ UNCHANGED <<serverVars, pkts>>

(* A garbled acknowledgement; one the troll drops has the same effect.     *)
DriverBadAck(a) ==
  /\ a \in acks
  /\ DiscardAck
  /\ acks' = acks \ {a}
  /\ UNCHANGED <<serverVars, pkts>>

DriverSend ==
  /\ SendNext
  /\ pkts' = Sent(pkts, NextPacket)
  /\ UNCHANGED <<serverVars, acks>>

DriverIdle == NothingToSend /\ UNCHANGED <<serverVars, netVars>>

Driver == \/ DriverSelect \/ DriverResend \/ DriverRead
          \/ \E a \in Slots : DriverAck(a) \/ DriverBadAck(a)
          \/ DriverSend \/ DriverIdle

TimerExpires(id) == Timeout(id) /\ UNCHANGED <<serverVars, netVars>>

(* Mutant: a packet that is not stored is not acknowledged.                *)
ServerReceivesSilent(p) ==
  /\ p \in pkts
  /\ ReceivePacket(p)
  /\ pkts' \in Consumed(pkts, p)
  /\ acks' = IF serverVars' # serverVars THEN Sent(acks, AckOf(p)) ELSE acks
  /\ UNCHANGED clientVars

ServerReceives(p) ==
  /\ p \in pkts
  /\ ReceivePacket(p)
  /\ pkts' \in Consumed(pkts, p)
  /\ acks' = Sent(acks, AckOf(p))
  /\ UNCHANGED clientVars

(* Mutant: a garbled packet is acknowledged.                               *)
PacketLostAcknowledged(p) ==
  /\ p \in pkts
  /\ pkts' = pkts \ {p}
  /\ acks' = Sent(acks, AckOf(p))
  /\ UNCHANGED <<clientVars, serverVars>>

(* The troll drops a packet, or garbles it and the server's checksum test  *)
(* discards it without an answer.                                          *)
PacketLost(p) ==
  /\ p \in pkts
  /\ pkts' = pkts \ {p}
  /\ UNCHANGED <<clientVars, serverVars, acks>>

Next == \/ Driver
        \/ \E id \in Slots : TimerExpires(id)
        \/ \E p \in pkts : ServerReceives(p) \/ PacketLost(p)

Spec == Init /\ [][Next]_vars
-----------------------------------------------------------------------------
SlotOf(k) == (k - 1) % N

(* Frame k was sent and the server neither delivered nor holds it. *)
Lacking(k) == /\ k \in Len(delivered) + 1 .. nsent
              /\ recvbuf[SlotOf(k)] = Empty

(* A packet whose block is still to be acknowledged reaches the server; an *)
(* acknowledgement of such a block reaches the driver.                     *)
NewsArrives == \E p \in pkts : /\ p.data # Empty
                               /\ p.data = sendbuf[p.seq]
                               /\ ServerReceives(p)
AckNewsArrives == \E a \in acks : sendbuf[a] # Empty /\ DriverAck(a)

(* The two processes keep running, an armed timer expires, ftpc's blocks   *)
(* arrive.  The troll may lose every message any number of times but not   *)
(* for ever: what is sent again and again is received in the end.          *)
Fairness ==
  /\ WF_vars(Driver)
  /\ \A k \in 1 .. K : WF_vars(TimerExpires(SlotOf(k)))
  /\ SF_vars(DriverSelect /\ "resend" \in todo')
  /\ SF_vars(DriverSelect /\ "ftpc" \in todo')
  /\ SF_vars(DriverSelect /\ "ack" \in todo')
  /\ SF_vars(NewsArrives)
  /\ SF_vars(AckNewsArrives)

FairSpec == Spec /\ Fairness
-----------------------------------------------------------------------------
(* Type correctness of the composition. *)
TypeOK == /\ ClientTypeOK
          /\ ServerTypeOK
          /\ pkts \subseteq [seq : Slots, data : BlockContents]
          /\ acks \subseteq Slots

(* ftps gets the blocks of the file, in order, each once and none of them  *)
(* made of uninitialised memory or of a slot zeroed by an acknowledgement. *)
InOrder == delivered = [i \in 1 .. Len(delivered) |-> i]

(* The sender's window lies inside the receiver's: no new frame is sent    *)
(* that the server would find beyond laf ("if lfs-lar<sws, then we can     *)
(* send the next packet in the window", tcpd.c:639).                       *)
WindowsAgree == nsent <= Len(delivered) + W

(* A frame the server lacks is still in the send buffer: no                *)
(* acknowledgement frees a slot before its frame has been received.        *)
KeepsWhatIsLacking ==
  \A k \in 1 .. K : Lacking(k) => sendbuf[SlotOf(k)] = k

(* A frame the server lacks will be sent again: its timer runs or its      *)
(* resend request is in the pipe, whatever order expiry, acknowledgement   *)
(* and restart came in.                                                    *)
TimerForWhatIsLacking ==
  \A k \in 1 .. K : Lacking(k) =>
      \/ SlotOf(k) \in armed
      \/ \E i \in 1 .. Len(resendq) : resendq[i] = SlotOf(k)

(* A frame has a timer, or one resend request in the pipe, or none of the  *)
(* two.  So the requests are never more than the frames under way (counted *)
(* in TcpdFifo), and the timer process finds room in the pipe              *)
(* (tcpd.c:1281): it and the driver do not end up each writing to a full   *)
(* pipe that the other does not read.                                      *)
OneRequestPerFrame ==
  \A i \in 1 .. Len(resendq) :
    /\ resendq[i] \notin armed
    /\ \A j \in 1 .. i - 1 : resendq[j] # resendq[i]

(* The daemons implement the transfer of the file. *)
Transfer == INSTANCE FileTransfer WITH
              sent <- nread, received <- delivered, broken <- FALSE

ImplementsTransfer == Transfer!Spec

(* In the end every block is acknowledged and its slot free again.         *)
AllAcknowledged == <>[](nread = K /\ \A s \in Slots : sendbuf[s] = Empty)
=============================================================================
