---------------------------- MODULE FtpDatagram -----------------------------
(***************************************************************************)
(* ftpc and ftps of project1.  ftpc sends a datagram with size and name    *)
(* and one for each block, with a pause but without waiting for anyone.  A *)
(* socket that is full drops what comes.                                   *)
(*                                                                         *)
(* The two daemons are not translated here but abstracted to the promise   *)
(* of FileTransfer, which Tcpd and TcpdFifo examine: they take datagrams   *)
(* while they have room for them and give them out in order, each a full   *)
(* buffer, until the promise is broken.  From then on they may stop, for   *)
(* ever, or give an old block instead of the next.                         *)
(***************************************************************************)
EXTENDS FileSize, Sequences

CONSTANTS DaemonRoom,  \* datagrams the socket of the daemon holds,
          CarryRoom,   \* the two daemons, between them,
          FtpsRoom     \* and the socket of ftps

ASSUME RoomAssumption == {DaemonRoom, CarryRoom, FtpsRoom} \subseteq Nat \ {0}

VARIABLES ftpc,     \* "start", "sends", "ended"
          fileSize,
          sent,     \* blocks read from the file
          atDaemon, carried, atFtps,   \* datagrams on their way; 0 is the first
          broken,   \* the daemons do not keep their promise any more
          ftps,     \* "waits", "receives", "finished"
          toCome,   \* size in the code: what ftps still counts on
          stored,   \* the blocks it wrote,
          length,   \* and how many bytes that was
          dropped   \* history: a datagram found a socket full

datagramVars == <<ftpc, fileSize, sent, atDaemon, carried, atFtps, broken, ftps,
                  toCome, stored, length, dropped>>

ftpcVars == <<ftpc, fileSize, sent>>
ftpsVars == <<ftps, toCome, stored, length>>

DatagramInit ==
  /\ ftpc = "start" /\ fileSize = 0 /\ sent = 0
  /\ atDaemon = <<>> /\ carried = <<>> /\ atFtps = <<>>
  /\ ftps = "waits" /\ toCome = 0 /\ stored = <<>> /\ length = 0
  /\ broken = FALSE /\ dropped = FALSE

BlocksOf(n) == (n + BuffSize - 1) \div BuffSize

Queued(queue, d, room) == IF Len(queue) < room THEN Append(queue, d) ELSE queue

SendInfo == /\ ftpc = "start" /\ ftpc' = "sends"
            /\ \E n \in Sizes : fileSize' = n
            /\ atDaemon' = Queued(atDaemon, 0, DaemonRoom)
            /\ UNCHANGED <<sent, carried, atFtps, broken, dropped>>
            /\ UNCHANGED ftpsVars

SendFileBlock ==
  /\ ftpc = "sends" /\ sent < BlocksOf(fileSize)
  /\ sent' = sent + 1
  /\ atDaemon' = Queued(atDaemon, sent + 1, DaemonRoom)
  /\ dropped' = (dropped \/ Len(atDaemon) = DaemonRoom)
  /\ UNCHANGED <<ftpc, fileSize, carried, atFtps, broken>>
  /\ UNCHANGED ftpsVars

FtpcEnds == /\ ftpc = "sends" /\ sent = BlocksOf(fileSize)
            /\ ftpc' = "ended"
            /\ UNCHANGED <<fileSize, sent, atDaemon, carried, atFtps, broken, dropped>>
            /\ UNCHANGED ftpsVars
-----------------------------------------------------------------------------
DaemonTakes == /\ atDaemon # <<>> /\ Len(carried) < CarryRoom
               /\ carried' = Append(carried, Head(atDaemon))
               /\ atDaemon' = Tail(atDaemon)
               /\ UNCHANGED <<atFtps, broken, dropped>>
               /\ UNCHANGED ftpcVars /\ UNCHANGED ftpsVars

(* Datagram d comes out in the place of the next. *)
Given(d) == /\ carried # <<>>
            /\ atFtps' = Queued(atFtps, d, FtpsRoom)
            /\ carried' = Tail(carried)
            /\ dropped' = (dropped \/ Len(atFtps) = FtpsRoom)
            /\ UNCHANGED <<atDaemon, broken>>
            /\ UNCHANGED ftpcVars /\ UNCHANGED ftpsVars

DaemonGives == ~broken /\ Given(Head(carried))

PromiseBreaks == /\ ~broken /\ broken' = TRUE
                 /\ UNCHANGED <<atDaemon, carried, atFtps, dropped>>
                 /\ UNCHANGED ftpcVars /\ UNCHANGED ftpsVars

(* An old block or, still, the next. *)
DaemonGivesOld == /\ broken /\ carried # <<>>
                  /\ \E d \in 1 .. Head(carried) : Given(d)
-----------------------------------------------------------------------------
FtpsReceivesInfo ==
  /\ ftps = "waits" /\ atFtps # <<>>
  /\ ftps' = "receives" /\ atFtps' = Tail(atFtps)
  /\ toCome' = Announced(fileSize)
  /\ UNCHANGED <<atDaemon, carried, broken, stored, length, dropped>>
  /\ UNCHANGED ftpcVars

(* Mutant: the padding of the last block is written as well.               *)
FtpsStoresPadded ==
  /\ ftps = "receives" /\ toCome > 0 /\ atFtps # <<>>
  /\ atFtps' = Tail(atFtps)
  /\ stored' = Append(stored, Head(atFtps))
  /\ length' = length + BuffSize
  /\ toCome' = toCome - BuffSize
  /\ UNCHANGED <<atDaemon, carried, broken, ftps, dropped>>
  /\ UNCHANGED ftpcVars

FtpsStores ==
  /\ ftps = "receives" /\ toCome > 0 /\ atFtps # <<>>
  /\ atFtps' = Tail(atFtps)
  /\ stored' = Append(stored, Head(atFtps))
  /\ length' = length + (IF toCome > BuffSize THEN BuffSize ELSE toCome)
  /\ toCome' = toCome - BuffSize
  /\ UNCHANGED <<atDaemon, carried, broken, ftps, dropped>>
  /\ UNCHANGED ftpcVars

(* Mutant: ftps counts down to exactly 0.                                  *)
FtpsFinishesAtZero ==
  /\ ftps = "receives" /\ toCome = 0
  /\ ftps' = "finished"
  /\ UNCHANGED <<atDaemon, carried, atFtps, broken, toCome, stored, length, dropped>>
  /\ UNCHANGED ftpcVars

FtpsFinishes ==
  /\ ftps = "receives" /\ toCome <= 0
  /\ ftps' = "finished"
  /\ UNCHANGED <<atDaemon, carried, atFtps, broken, toCome, stored, length, dropped>>
  /\ UNCHANGED ftpcVars

FtpcSteps == SendInfo \/ SendFileBlock \/ FtpcEnds
FtpsSteps == FtpsReceivesInfo \/ FtpsStores \/ FtpsFinishes

DatagramNext == \/ FtpcSteps \/ FtpsSteps
                \/ DaemonTakes \/ DaemonGives \/ PromiseBreaks \/ DaemonGivesOld

(* Without fairness of DaemonGivesOld broken daemons may stop. *)
DatagramSpec ==
  /\ DatagramInit /\ [][DatagramNext]_datagramVars
  /\ WF_datagramVars(FtpcSteps) /\ WF_datagramVars(DaemonTakes)
  /\ WF_datagramVars(DaemonGives) /\ WF_datagramVars(FtpsSteps)
-----------------------------------------------------------------------------
(* A file ftps finished has the length that was announced and, if the      *)
(* daemons kept their promise, it is the file ftpc read, block for block   *)
(* and to the byte, although sockets may drop blocks and the last one      *)
(* comes padded: a transfer that lost a block does not end.  If the size   *)
(* could not be announced, it is what of the file was announced, but for   *)
(* drops.                                                                  *)
DatagramWhole ==
  ftps = "finished" =>
    /\ length = Awaited(fileSize)
    /\ ~broken /\ (Announceable(fileSize) \/ ~dropped) =>
         stored = [i \in 1 .. BlocksOf(length) |-> i]
    /\ Announceable(fileSize) => length = fileSize

(* ftps waits for ever only for a block that a full socket dropped or for  *)
(* daemons that broke their promise.                                       *)
DatagramEnds == ftpc = "sends" ~> ftps = "finished" \/ dropped \/ broken
=============================================================================
