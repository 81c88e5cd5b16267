-------------------------- MODULE Programs_proof ----------------------------
(***************************************************************************)
(* What a finished transfer of lab2 and of project1 has stored, for every  *)
(* value of a byte, size of a buffer, set of file sizes and room in the    *)
(* sockets; and what lab1/count.c counts, for every length of a chunk,     *)
(* every set of files and every set of strings without a line end.         *)
(***************************************************************************)
EXTENDS FtpStream, FtpDatagram, Count, FiniteSetTheorems, ModularLemmas

LEMMA BufferType == BuffSize \in Nat /\ BuffSize > 0 /\ Base \in Nat /\ Base >= 2
BY FileSizeAssumption

(* The sizes a variable may hold: that of a file, or 0 before there is one.*)
FileSizes == Sizes \cup {0}

LEMMA WeightType == \A k \in 0 .. SizeBytes : Weight(k) \in Nat /\ Weight(k) > 0
<1>1. /\ Base * Base \in Nat /\ Base * Base > 0
      /\ Base * Base * Base \in Nat /\ Base * Base * Base > 0
      /\ Base * Base * Base * Base \in Nat /\ Base * Base * Base * Base > 0
  BY BufferType
<1> QED
  BY <1>1, BufferType DEF Weight, SizeBytes

LEMMA SizeType == \A n \in FileSizes : n \in Nat /\ n < Weight(SizeBytes)
<1>1. Weight(SizeBytes) \in Nat /\ Weight(SizeBytes) > 0
  BY WeightType DEF SizeBytes
<1> QED
  BY <1>1, FileSizeAssumption DEF FileSizes

(* A set of byte numbers, with SizeBytes among them, has a smallest one. *)
LEMMA SmallestByte ==
  ASSUME NEW S \in SUBSET (0 .. SizeBytes), SizeBytes \in S
  PROVE  Min(S) \in S
<1>1. \E m \in S : \A k \in S : m <= k
  <2>1. CASE 0 \in S
    BY <2>1 DEF SizeBytes
  <2>2. CASE 0 \notin S /\ 1 \in S
    BY <2>2 DEF SizeBytes
  <2>3. CASE 0 \notin S /\ 1 \notin S /\ 2 \in S
    BY <2>3 DEF SizeBytes
  <2>4. CASE 0 \notin S /\ 1 \notin S /\ 2 \notin S /\ 3 \in S
    BY <2>4 DEF SizeBytes
  <2>5. CASE 0 \notin S /\ 1 \notin S /\ 2 \notin S /\ 3 \notin S
    BY <2>5 DEF SizeBytes
  <2> QED
    BY <2>1, <2>2, <2>3, <2>4, <2>5
<1> QED
  BY <1>1, Zenon DEF Min

(* No more is copied than the size, and the size itself if each of its     *)
(* bytes that count can be copied.                                         *)
LEMMA CopiedSize ==
  ASSUME NEW n \in FileSizes
  PROVE  /\ Copied(n) \in 0 .. n
         /\ Announceable(n) => Copied(n) = n
<1> DEFINE ends == {k \in 0 .. SizeBytes - 1 : Byte(n, k) = 0} \cup {SizeBytes}
           m == Min(ends)
           w == Weight(m)
<1>1. m \in ends
  <2>1. ends \in SUBSET (0 .. SizeBytes) /\ SizeBytes \in ends
    BY DEF SizeBytes
  <2> HIDE DEF ends
  <2> QED
    BY <2>1, SmallestByte
<1> HIDE DEF m
<1>2. m \in 0 .. SizeBytes
  BY <1>1 DEF SizeBytes
<1>3. n \in Nat /\ w \in Nat /\ w > 0
  BY <1>2, SizeType, WeightType
<1>4. Copied(n) = n % w
  BY DEF Copied, m
<1>5. Announceable(n) => n < w
  <2>1. CASE m = SizeBytes
    BY <2>1, SizeType
  <2>2. CASE m # SizeBytes
    BY <1>1, <1>3, <2>2 DEF Announceable
  <2> QED
    BY <2>1, <2>2
<1> HIDE DEF w
<1>6. n % w \in 0 .. n
  BY <1>3
<1>7. n < w => n % w = n
  <2>1. n < w => (w * 0 + n) % w = n
    BY <1>3, RemainderOf
  <2>2. w * 0 + n = n
    BY <1>3
  <2> QED
    BY <2>1, <2>2, Zenon
<1> QED
  BY <1>4, <1>5, <1>6, <1>7

(* A receiver waits for no more than the size, and for the size itself if  *)
(* it could be announced.                                                  *)
LEMMA AnnouncedSize ==
  ASSUME NEW n \in FileSizes
  PROVE  /\ Announced(n) \in Int
         /\ Awaited(n) = (IF Announced(n) > 0 THEN Announced(n) ELSE 0)
         /\ Awaited(n) \in 0 .. n
         /\ Announceable(n) => Awaited(n) = n
<1> DEFINE c == Copied(n)
           w == Weight(SizeBytes)
<1>1. /\ n \in Nat /\ w \in Nat /\ n < w
      /\ c \in 0 .. n
      /\ Announceable(n) => c = n
  BY SizeType, WeightType, CopiedSize DEF SizeBytes
<1>2. Announceable(n) => 2 * n < w
  BY DEF Announceable
<1>3. Announced(n) = (IF 2 * c >= w THEN c - w ELSE c)
  BY Zenon DEF Announced
<1>4. Awaited(n) = (IF Announced(n) > 0 THEN Announced(n) ELSE 0)
  BY Zenon DEF Awaited
<1> HIDE DEF c, w
<1> QED
  BY <1>1, <1>2, <1>3, <1>4
-----------------------------------------------------------------------------
(* lab2: the server's count and its place in the stream belong together,   *)
(* and it never reads more than was written.                               *)
StreamInv ==
  /\ size \in FileSizes
  /\ written \in Nat /\ read \in Nat /\ left \in Int
  /\ read <= written /\ written <= BuffSize + size
  /\ client = "start" => written = 0
  /\ server = "waits" => read = 0
  /\ server \in {"receives", "finished"} =>
       /\ read >= BuffSize
       /\ InFile = Announced(size) - left
       /\ left > -BuffSize \/ InFile = 0
  /\ server = "finished" => left <= 0

LEMMA StreamInvInit == StreamInit => StreamInv
BY BufferType DEF StreamInit, StreamInv, FileSizes

LEMMA StreamInvNext == StreamInv /\ [StreamNext]_streamVars => StreamInv'
<1> SUFFICES ASSUME StreamInv, [StreamNext]_streamVars
             PROVE  StreamInv'
  OBVIOUS
<1>1. /\ BuffSize \in Nat /\ BuffSize > 0
      /\ size \in Nat /\ Announced(size) \in Int
  BY BufferType, SizeType, AnnouncedSize DEF StreamInv
<1>2. CASE SendInformation
  <2>1. /\ size' \in FileSizes /\ size' \in Nat
        /\ written' = BuffSize /\ read = 0 /\ server # "receives"
        /\ client' = "sends" /\ UNCHANGED <<server, read, left>>
        /\ server \notin {"receives", "finished"}
    <3>1. size' \in FileSizes
      BY <1>2 DEF SendInformation, FileSizes
    <3> QED
      BY <1>1, <1>2, <3>1, SizeType DEF SendInformation, StreamInv, ServerEnded
  <2>2. written' <= BuffSize + size'
    <3>1. PICK n \in Nat : n = size'
      BY <2>1, Zenon
    <3>2. BuffSize <= BuffSize + n
      BY <1>1
    <3> QED
      BY <2>1, <3>1, <3>2, Zenon
  <2>3. written' \in Nat /\ read' \in Nat /\ read' <= written' /\ left' \in Int
    BY <1>1, <2>1 DEF StreamInv
  <2> QED
    BY <2>1, <2>2, <2>3 DEF StreamInv
<1>3. CASE SendBlock
  BY <1>1, <1>3 DEF SendBlock, StreamInv, Unsent, AtMost, InFile
<1>4. CASE EndOfFile
  BY <1>4 DEF EndOfFile, StreamInv, InFile
<1>5. CASE ReadReply
  BY <1>5 DEF ReadReply, StreamInv, InFile
<1>6. CASE ClientCutOff
  BY <1>6 DEF ClientCutOff, StreamInv, InFile
<1>7. CASE ReceiveInformation
  BY <1>1, <1>7 DEF ReceiveInformation, StreamInv, InStream, InFile
<1>8. ASSUME NEW n \in 1 .. BuffSize, ReceivePart(n)
      PROVE  StreamInv'
  BY <1>1, <1>8 DEF ReceivePart, StreamInv, InStream, InFile
<1>9. CASE Finish
  BY <1>9 DEF Finish, StreamInv, InFile
<1>10. CASE ClientDies
  BY <1>10 DEF ClientDies, StreamInv, InFile
<1>11. CASE ServerFails
  BY <1>11 DEF ServerFails, StreamInv, InFile
<1>12. CASE UNCHANGED streamVars
  BY <1>12 DEF streamVars, StreamInv, InFile
<1> QED
  BY <1>2, <1>3, <1>4, <1>5, <1>6, <1>7, <1>8, <1>9, <1>10, <1>11, <1>12
     DEF StreamNext, StreamClient, StreamServer

(* However TCP cuts the stream up and whoever dies, a file that ftps of    *)
(* lab2 finished has all that was announced, and is the whole file if its  *)
(* size could be announced.                                                *)
THEOREM StreamIsWhole == StreamSpec => []StreamWhole
<1>1. StreamInv => StreamWhole
  <2> SUFFICES ASSUME StreamInv, server = "finished"
               PROVE  /\ Announceable(size) => InFile = size
                      /\ Awaited(size) <= InFile
                      /\ InFile < Awaited(size) + BuffSize
    BY DEF StreamWhole
  <2>1. /\ BuffSize \in Nat /\ BuffSize > 0 /\ size \in Nat
        /\ Announced(size) \in Int
        /\ Awaited(size) = (IF Announced(size) > 0 THEN Announced(size) ELSE 0)
        /\ Announceable(size) => Awaited(size) = size
    BY BufferType, SizeType, AnnouncedSize DEF StreamInv
  <2>2. /\ InFile = Announced(size) - left
        /\ left > -BuffSize \/ InFile = 0
        /\ left <= 0 /\ left \in Int
        /\ InFile <= size /\ InFile \in Nat
    BY <2>1 DEF StreamInv, InFile
  <2> QED
    BY <2>1, <2>2
<1> QED
  BY <1>1, StreamInvInit, StreamInvNext, PTL DEF StreamSpec

-----------------------------------------------------------------------------
(* project1: the numbers from b on, one after the other. *)
CountsFrom(q, b) == \A i \in 1 .. Len(q) : q[i] = b + i - 1

LEMMA AppendOne ==
  ASSUME NEW q \in Seq(Nat), NEW d \in Nat, NEW b \in Nat
  PROVE  /\ Append(q, d) \in Seq(Nat)
         /\ Len(Append(q, d)) = Len(q) + 1
         /\ CountsFrom(q, b) /\ d = b + Len(q) => CountsFrom(Append(q, d), b)
<1>1. /\ Len(q) \in Nat
      /\ Append(q, d) \in Seq(Nat) /\ Len(Append(q, d)) = Len(q) + 1
      /\ \A i \in 1 .. Len(q) : Append(q, d)[i] = q[i]
      /\ Append(q, d)[Len(q) + 1] = d
  OBVIOUS
<1> DEFINE a == Append(q, d)
           n == Len(q)
<1>2. \A i \in 1 .. n + 1 : i \in 1 .. n \/ i = n + 1
  BY <1>1
<1> HIDE DEF a, n
<1>3. ASSUME CountsFrom(q, b), d = b + n
      PROVE  CountsFrom(a, b)
  <2> SUFFICES ASSUME NEW i \in 1 .. n + 1 PROVE a[i] = b + i - 1
    BY <1>1 DEF CountsFrom, a, n
  <2>1. CASE i \in 1 .. n
    BY <1>1, <1>3, <2>1 DEF CountsFrom, a, n
  <2>2. CASE i = n + 1
    BY <1>1, <1>3, <2>2 DEF a, n
  <2> QED
    BY <1>2, <2>1, <2>2
<1> QED
  BY <1>1, <1>3 DEF a, n

LEMMA TakeOne ==
  ASSUME NEW q \in Seq(Nat), q # <<>>, NEW b \in Nat
  PROVE  /\ Head(q) \in Nat /\ Tail(q) \in Seq(Nat)
         /\ Len(q) \in Nat /\ Len(q) >= 1 /\ Len(Tail(q)) = Len(q) - 1
         /\ CountsFrom(q, b) => Head(q) = b /\ CountsFrom(Tail(q), b + 1)
<1>1. /\ Len(q) \in Nat /\ Len(q) >= 1
      /\ Head(q) = q[1] /\ Head(q) \in Nat
      /\ Tail(q) \in Seq(Nat) /\ Len(Tail(q)) = Len(q) - 1
      /\ \A i \in 1 .. Len(q) - 1 : Tail(q)[i] = q[i + 1]
  OBVIOUS
<1>2. \A i \in 1 .. Len(q) - 1 : i + 1 \in 1 .. Len(q)
  BY <1>1
<1> DEFINE t == Tail(q)
<1> HIDE DEF t
<1>3. CountsFrom(q, b) => q[1] = b /\ CountsFrom(t, b + 1)
  BY <1>1, <1>2 DEF CountsFrom, t
<1> QED
  BY <1>1, <1>3 DEF t

(* The datagram ftps expects next, the first being 0, and how many are on  *)
(* their way.                                                              *)
Expected == IF ftps = "waits" THEN 0 ELSE Len(stored) + 1
UnderWay == Len(atFtps) + Len(carried) + Len(atDaemon)

DatagramType ==
  /\ fileSize \in FileSizes
  /\ sent \in Nat
  /\ atDaemon \in Seq(Nat) /\ Len(atDaemon) <= DaemonRoom
  /\ atFtps \in Seq(Nat) /\ Len(atFtps) <= FtpsRoom
  /\ broken \in BOOLEAN
  /\ carried \in Seq(Nat) /\ stored \in Seq(Nat)
  /\ length \in Nat /\ toCome \in Int
  /\ dropped \in BOOLEAN
  /\ ftpc = "start" => /\ ftps = "waits" /\ sent = 0 /\ ~dropped
                       /\ atDaemon = <<>> /\ carried = <<>> /\ atFtps = <<>>
  /\ ftps = "waits" => stored = <<>> /\ length = 0

(* A socket that was full lost at least one of the datagrams sent. *)
NoneTwice ==
  ftpc # "start" => Expected + UnderWay <= IF dropped THEN sent ELSE sent + 1

(* Until then, and while the daemons keep their promise, they come in turn *)
(* and none is missing.                                                    *)
InTurn ==
  ~dropped /\ ~broken =>
    /\ ftpc # "start" => Expected + UnderWay = sent + 1
    /\ CountsFrom(stored, 1)
    /\ CountsFrom(atFtps, Expected)
    /\ CountsFrom(carried, Expected + Len(atFtps))
    /\ CountsFrom(atDaemon, Expected + Len(atFtps) + Len(carried))

(* What ftps still counts on is what was announced, less a full buffer for *)
(* each block it stored; the last one is cut to what was left.  If a       *)
(* negative number was announced it stores nothing.                        *)
CountsDown ==
  ftps # "waits" =>
    /\ ftps = "receives" \/ (ftps = "finished" /\ toCome <= 0)
    /\ toCome = Announced(fileSize) - BuffSize * Len(stored)
    /\ toCome > -BuffSize \/ Len(stored) = 0
    /\ toCome > 0 => length = BuffSize * Len(stored)
    /\ toCome <= 0 => length = Awaited(fileSize)

DatagramInv == /\ DatagramType
               /\ ftpc # "start" => sent <= BlocksOf(fileSize)
               /\ NoneTwice
               /\ InTurn
               /\ CountsDown

LEMMA DatagramInvInit == DatagramInit => DatagramInv
<1> SUFFICES ASSUME DatagramInit PROVE DatagramInv
  OBVIOUS
<1>1. DatagramType
  <2>1. /\ fileSize \in FileSizes /\ sent \in Nat /\ length \in Nat /\ toCome \in Int
        /\ ftps = "waits" /\ sent = 0 /\ length = 0
        /\ dropped = FALSE /\ broken = FALSE
        /\ atDaemon = <<>> /\ carried = <<>> /\ atFtps = <<>> /\ stored = <<>>
    BY DEF DatagramInit, FileSizes
  <2>2. <<>> \in Seq(Nat) /\ Len(<<>>) = 0 /\ DaemonRoom \in Nat /\ FtpsRoom \in Nat
    BY RoomAssumption
  <2>3. /\ atDaemon \in Seq(Nat) /\ Len(atDaemon) <= DaemonRoom
        /\ atFtps \in Seq(Nat) /\ Len(atFtps) <= FtpsRoom
        /\ carried \in Seq(Nat) /\ stored \in Seq(Nat)
    BY <2>1, <2>2
  <2> QED
    BY <2>1, <2>3 DEF DatagramType
<1>2. InTurn
  BY DEF DatagramInit, InTurn, CountsFrom
<1> QED
  BY <1>1, <1>2 DEF DatagramInit, DatagramInv, NoneTwice, CountsDown

LEMMA QueuedOne ==
  ASSUME NEW q \in Seq(Nat), NEW d \in Nat, NEW room \in Nat, Len(q) <= room
  PROVE  /\ Queued(q, d, room) \in Seq(Nat)
         /\ Len(Queued(q, d, room)) <= room
         /\ Len(Queued(q, d, room)) = IF Len(q) = room THEN Len(q) ELSE Len(q) + 1
         /\ Len(q) # room => Queued(q, d, room) = Append(q, d)
<1>1. /\ Len(q) \in Nat
      /\ Append(q, d) \in Seq(Nat) /\ Len(Append(q, d)) = Len(q) + 1
  OBVIOUS
<1> QED
  BY <1>1 DEF Queued

LEMMA Lengths ==
  ASSUME DatagramType
  PROVE  /\ Len(atDaemon) \in Nat /\ Len(carried) \in Nat
         /\ Len(atFtps) \in Nat /\ Len(stored) \in Nat
         /\ Expected \in Nat /\ UnderWay \in Nat /\ sent \in Nat
         /\ DaemonRoom \in Nat /\ DaemonRoom > 0 /\ FtpsRoom \in Nat /\ FtpsRoom > 0
BY RoomAssumption DEF DatagramType, Expected, UnderWay

LEMMA BlocksType == \A n \in Nat : BlocksOf(n) \in Nat
<1> SUFFICES ASSUME NEW n \in Nat PROVE (n + BuffSize - 1) \div BuffSize \in Nat
  BY DEF BlocksOf
<1>1. n + BuffSize - 1 \in Nat
  BY BufferType
<1> QED
  BY <1>1, BufferType

(* The first datagram finds the sockets empty. *)
LEMMA SendInfoStep ==
  ASSUME DatagramInv, SendInfo
  PROVE  DatagramInv'
<1>1. DatagramType /\ InTurn /\ CountsDown
  BY DEF DatagramInv
<1>2. /\ ftps = "waits" /\ sent = 0 /\ dropped = FALSE
      /\ atDaemon = <<>> /\ carried = <<>> /\ atFtps = <<>> /\ stored = <<>>
      /\ fileSize' \in FileSizes
      /\ ftpc' = "sends"
      /\ UNCHANGED <<sent, carried, atFtps, broken, ftps, toCome, stored, length,
                     dropped>>
  BY <1>1 DEF SendInfo, DatagramType, FileSizes, ftpsVars
<1>3. atDaemon' = <<0>>
  <2>1. Len(<<>>) < DaemonRoom
    BY RoomAssumption
  <2>2. atDaemon' = IF Len(<<>>) < DaemonRoom THEN Append(<<>>, 0) ELSE <<>>
    BY <1>2 DEF SendInfo, Queued
  <2> QED
    BY <2>1, <2>2
<1>4. <<0>> \in Seq(Nat) /\ Len(<<0>>) = 1 /\ <<0>>[1] = 0 /\ Len(<<>>) = 0
  OBVIOUS
<1>5. DatagramType'
  <2>1. 1 <= DaemonRoom
    BY RoomAssumption
  <2> QED
    BY <1>1, <1>2, <1>3, <1>4, <2>1 DEF DatagramType
<1>6. Expected' = 0 /\ UnderWay' = 1
  BY <1>2, <1>3, <1>4 DEF Expected, UnderWay
<1>7. NoneTwice'
  BY <1>2, <1>6 DEF NoneTwice
<1>8. InTurn'
  <2>1. CountsFrom(<<>>, 1) /\ CountsFrom(<<>>, 0) /\ CountsFrom(<<0>>, 0)
    BY <1>4 DEF CountsFrom
  <2>2. /\ stored' = <<>> /\ atFtps' = <<>> /\ carried' = <<>>
        /\ Len(atFtps') = 0 /\ Len(carried') = 0
    BY <1>2, <1>4
  <2> QED
    BY <1>2, <1>3, <1>6, <2>1, <2>2 DEF InTurn
<1>9. CountsDown'
  BY <1>2 DEF CountsDown
<1>10. sent' <= BlocksOf(fileSize')
  <2>1. PICK n \in Nat : n = fileSize'
    BY <1>2, SizeType, Zenon
  <2>2. 0 <= BlocksOf(n)
    BY BlocksType
  <2>3. sent' = 0
    BY <1>2
  <2> QED
    BY <2>1, <2>2, <2>3, Zenon
<1> QED
  BY <1>2, <1>5, <1>7, <1>8, <1>9, <1>10 DEF DatagramInv

(* A block is queued behind those on their way, or finds the socket full.  *)
LEMMA SendBlockStep ==
  ASSUME DatagramInv, SendFileBlock
  PROVE  DatagramInv'
<1>1. DatagramType /\ NoneTwice /\ InTurn /\ CountsDown
  BY DEF DatagramInv
<1>2. /\ ftpc = "sends" /\ sent < BlocksOf(fileSize)
      /\ sent' = sent + 1
      /\ atDaemon' = Queued(atDaemon, sent + 1, DaemonRoom)
      /\ dropped' = (dropped \/ Len(atDaemon) = DaemonRoom)
      /\ UNCHANGED <<ftpc, fileSize, carried, atFtps, broken, ftps, toCome, stored,
                     length>>
  BY DEF SendFileBlock, ftpsVars
<1>3. /\ Len(atDaemon) \in Nat /\ Len(carried) \in Nat
      /\ Len(atFtps) \in Nat /\ Len(stored) \in Nat
      /\ Expected \in Nat /\ UnderWay \in Nat /\ sent \in Nat /\ sent + 1 \in Nat
      /\ DaemonRoom \in Nat
      /\ atDaemon \in Seq(Nat) /\ Len(atDaemon) <= DaemonRoom
  BY <1>1, Lengths DEF DatagramType
<1>4. /\ atDaemon' \in Seq(Nat) /\ Len(atDaemon') <= DaemonRoom
      /\ Len(atDaemon') = IF Len(atDaemon) = DaemonRoom THEN Len(atDaemon)
                          ELSE Len(atDaemon) + 1
      /\ Len(atDaemon) # DaemonRoom => atDaemon' = Append(atDaemon, sent + 1)
  BY <1>2, <1>3, QueuedOne
<1>5. DatagramType'
  BY <1>1, <1>2, <1>3, <1>4 DEF DatagramType
<1>6. /\ Expected' = Expected
      /\ UnderWay' = IF Len(atDaemon) = DaemonRoom THEN UnderWay ELSE UnderWay + 1
  <2>1. /\ Expected' = Expected
        /\ UnderWay' = Len(atFtps) + Len(carried) + Len(atDaemon')
    BY <1>2, Zenon DEF Expected, UnderWay
  <2>2. Len(atFtps) + Len(carried) + (Len(atDaemon) + 1) = UnderWay + 1
    BY <1>3 DEF UnderWay
  <2>3. CASE Len(atDaemon) = DaemonRoom
    BY <1>4, <2>1, <2>3, Zenon DEF UnderWay
  <2>4. CASE Len(atDaemon) # DaemonRoom
    BY <1>4, <2>1, <2>2, <2>4, Zenon
  <2> QED
    BY <2>1, <2>3, <2>4, Zenon
<1>7. NoneTwice'
  <2>1. /\ Expected + UnderWay <= IF dropped THEN sent ELSE sent + 1
        /\ dropped \in BOOLEAN
    BY <1>1, <1>2 DEF NoneTwice, DatagramType
  <2>2. /\ Expected + UnderWay <= sent + 1
        /\ Expected + (UnderWay + 1) <= IF dropped THEN sent + 1 ELSE (sent + 1) + 1
    BY <1>3, <2>1
  <2>3. CASE Len(atDaemon) = DaemonRoom
    <3>1. dropped' = TRUE /\ UnderWay' = UnderWay
      BY <1>2, <1>6, <2>3, Zenon
    <3> QED
      BY <1>2, <1>6, <2>2, <3>1, Zenon DEF NoneTwice
  <2>4. CASE Len(atDaemon) # DaemonRoom
    <3>1. dropped' = dropped /\ UnderWay' = UnderWay + 1
      BY <1>2, <1>6, <2>1, <2>4, Zenon
    <3> QED
      BY <1>2, <1>6, <2>2, <3>1, Zenon DEF NoneTwice
  <2> QED
    BY <2>3, <2>4
<1>8. InTurn'
  <2> SUFFICES ASSUME ~dropped', ~broken' PROVE InTurn'
    BY DEF InTurn
  <2>1. /\ ~dropped /\ ~broken /\ Len(atDaemon) # DaemonRoom
        /\ atDaemon' = Append(atDaemon, sent + 1)
        /\ UnderWay' = UnderWay + 1
    BY <1>2, <1>4, <1>6
  <2>2. /\ Expected + UnderWay = sent + 1
        /\ CountsFrom(stored, 1)
        /\ CountsFrom(atFtps, Expected)
        /\ CountsFrom(carried, Expected + Len(atFtps))
        /\ CountsFrom(atDaemon, Expected + Len(atFtps) + Len(carried))
    BY <1>1, <1>2, <2>1 DEF InTurn
  <2> DEFINE b == Expected + Len(atFtps) + Len(carried)
  <2>3. b \in Nat /\ sent + 1 = b + Len(atDaemon)
    BY <1>3, <2>2 DEF UnderWay
  <2> HIDE DEF b
  <2>4. CountsFrom(atDaemon, b)
    BY <2>2 DEF b
  <2>5. CountsFrom(atDaemon', b)
    BY <1>3, <2>1, <2>3, <2>4, AppendOne
  <2>6. CountsFrom(atDaemon', Expected' + Len(atFtps') + Len(carried'))
    BY <1>2, <1>6, <2>5 DEF b
  <2>7. Expected' + UnderWay' = sent' + 1
    BY <1>2, <1>3, <1>6, <2>1, <2>2
  <2> QED
    BY <1>2, <1>6, <2>2, <2>6, <2>7 DEF InTurn
<1>9. CountsDown'
  BY <1>1, <1>2 DEF CountsDown
<1>10. sent' <= BlocksOf(fileSize')
  <2> DEFINE n == BlocksOf(fileSize)
  <2>1. fileSize \in Nat /\ BuffSize \in Nat /\ BuffSize > 0
    BY <1>1, BufferType, SizeType DEF DatagramType
  <2>2. n \in Int
    BY <2>1 DEF BlocksOf
  <2> HIDE DEF n
  <2>3. sent + 1 <= n
    BY <1>2, <1>3, <2>2 DEF n
  <2> QED
    BY <1>2, <2>3 DEF n
<1> QED
  BY <1>5, <1>7, <1>8, <1>9, <1>10 DEF DatagramInv

(* tcpd takes a datagram from its socket into the transfer. *)
LEMMA DaemonTakesStep ==
  ASSUME DatagramInv, DaemonTakes
  PROVE  DatagramInv'
<1>1. DatagramType /\ NoneTwice /\ InTurn /\ CountsDown
  BY DEF DatagramInv
<1>2. /\ atDaemon # <<>>
      /\ carried' = Append(carried, Head(atDaemon))
      /\ atDaemon' = Tail(atDaemon)
      /\ UNCHANGED <<ftpc, fileSize, sent, atFtps, broken, ftps, toCome, stored,
                     length, dropped>>
  BY DEF DaemonTakes, ftpcVars, ftpsVars
<1>3. /\ Len(carried) \in Nat /\ Len(atFtps) \in Nat
      /\ Expected \in Nat /\ DaemonRoom \in Nat
      /\ atDaemon \in Seq(Nat) /\ carried \in Seq(Nat) /\ Len(atDaemon) <= DaemonRoom
  BY <1>1, Lengths DEF DatagramType
<1> DEFINE b == Expected + Len(atFtps) + Len(carried)
           d == Head(atDaemon)
           t == Tail(atDaemon)
           c == Append(carried, d)
<1>4. /\ d \in Nat /\ t \in Seq(Nat)
      /\ Len(atDaemon) \in Nat /\ Len(t) \in Nat /\ Len(t) = Len(atDaemon) - 1
      /\ b \in Nat
      /\ CountsFrom(atDaemon, b) => d = b /\ CountsFrom(t, b + 1)
  BY <1>2, <1>3, TakeOne
<1>5. /\ c \in Seq(Nat) /\ Len(c) = Len(carried) + 1
      /\ CountsFrom(carried, Expected + Len(atFtps)) /\ d = b
           => CountsFrom(c, Expected + Len(atFtps))
  BY <1>3, <1>4, AppendOne
<1> HIDE DEF d, t, c
<1>6. /\ Len(t) <= DaemonRoom
      /\ Len(atFtps) + Len(c) + Len(t) = UnderWay
      /\ Expected + Len(atFtps) + Len(c) = b + 1
  BY <1>3, <1>4, <1>5 DEF UnderWay
<1>7. carried' = c /\ atDaemon' = t
  BY <1>2 DEF c, d, t
<1>8. Expected' = Expected /\ UnderWay' = UnderWay
  BY <1>2, <1>6, <1>7, Zenon DEF Expected, UnderWay
<1>9. DatagramType'
  BY <1>1, <1>2, <1>4, <1>5, <1>6, <1>7 DEF DatagramType
<1>10. NoneTwice'
  BY <1>1, <1>2, <1>8, Zenon DEF NoneTwice
<1>11. InTurn'
  <2>1. ASSUME ~dropped, ~broken
        PROVE  /\ CountsFrom(c, Expected + Len(atFtps))
               /\ CountsFrom(t, Expected + Len(atFtps) + Len(c))
    BY <1>1, <1>4, <1>5, <1>6, <2>1 DEF InTurn
  <2> QED
    BY <1>1, <1>2, <1>7, <1>8, <2>1, Zenon DEF InTurn
<1>12. CountsDown'
  BY <1>1, <1>2, Zenon DEF CountsDown
<1> QED
  BY <1>2, <1>9, <1>10, <1>11, <1>12, Zenon DEF DatagramInv

(* What comes out reaches the socket of ftps, or finds it full. *)
LEMMA GivenStep ==
  ASSUME DatagramInv, NEW d \in Nat, Given(d), broken \/ d = Head(carried)
  PROVE  DatagramInv'
<1>1. DatagramType /\ NoneTwice /\ InTurn /\ CountsDown
  BY DEF DatagramInv
<1>2. /\ carried # <<>>
      /\ atFtps' = Queued(atFtps, d, FtpsRoom)
      /\ carried' = Tail(carried)
      /\ dropped' = (dropped \/ Len(atFtps) = FtpsRoom)
      /\ UNCHANGED <<ftpc, fileSize, sent, atDaemon, broken, ftps, toCome, stored,
                     length>>
  BY DEF Given, ftpcVars, ftpsVars
<1>3. /\ Len(atDaemon) \in Nat /\ Len(atFtps) \in Nat /\ UnderWay \in Nat
      /\ Expected \in Nat /\ FtpsRoom \in Nat /\ sent \in Nat /\ dropped \in BOOLEAN
      /\ atFtps \in Seq(Nat) /\ carried \in Seq(Nat) /\ Len(atFtps) <= FtpsRoom
  BY <1>1, Lengths DEF DatagramType
<1> DEFINE b == Expected + Len(atFtps)
           t == Tail(carried)
           a == Queued(atFtps, d, FtpsRoom)
<1>4. /\ t \in Seq(Nat)
      /\ Len(carried) \in Nat /\ Len(t) \in Nat /\ Len(t) = Len(carried) - 1
      /\ b \in Nat
      /\ CountsFrom(carried, b) => Head(carried) = b /\ CountsFrom(t, b + 1)
  BY <1>2, <1>3, TakeOne
<1>5. /\ a \in Seq(Nat) /\ Len(a) <= FtpsRoom /\ Len(a) \in Nat
      /\ Len(a) = IF Len(atFtps) = FtpsRoom THEN Len(atFtps) ELSE Len(atFtps) + 1
      /\ Len(atFtps) # FtpsRoom => a = Append(atFtps, d)
  <2>1. atFtps \in Seq(Nat) /\ d \in Nat /\ FtpsRoom \in Nat /\ Len(atFtps) <= FtpsRoom
    BY <1>3, <1>4
  <2>2. /\ a \in Seq(Nat) /\ Len(a) <= FtpsRoom
        /\ Len(a) = IF Len(atFtps) = FtpsRoom THEN Len(atFtps) ELSE Len(atFtps) + 1
        /\ Len(atFtps) # FtpsRoom => a = Append(atFtps, d)
    BY <2>1, QueuedOne
  <2> HIDE DEF a
  <2>3. Len(a) \in Nat
    BY <2>2
  <2> QED
    BY <2>2, <2>3
<1> HIDE DEF t, a
<1>6. CountsFrom(atFtps, Expected) /\ d = b /\ Len(atFtps) # FtpsRoom
        => CountsFrom(a, Expected)
  <2> SUFFICES ASSUME CountsFrom(atFtps, Expected), d = b, Len(atFtps) # FtpsRoom
               PROVE  CountsFrom(a, Expected)
    OBVIOUS
  <2>1. a = Append(atFtps, d) /\ d = Expected + Len(atFtps)
    BY <1>5
  <2>2. CountsFrom(Append(atFtps, d), Expected)
    BY <1>3, <1>4, <2>1, AppendOne
  <2> QED
    BY <2>1, <2>2
<1>7. carried' = t /\ atFtps' = a
  BY <1>2 DEF a, t
<1>8. /\ Expected' = Expected
      /\ UnderWay' = Len(a) + Len(t) + Len(atDaemon)
  BY <1>2, <1>7, Zenon DEF Expected, UnderWay
<1>9. DatagramType'
  BY <1>1, <1>2, <1>3, <1>4, <1>5, <1>7 DEF DatagramType
<1>10. ASSUME Len(atFtps) = FtpsRoom PROVE NoneTwice' /\ InTurn'
  <2>1. dropped' = TRUE
    BY <1>2, <1>10
  <2>2. ftpc # "start" => Expected + (Len(a) + Len(t) + Len(atDaemon)) <= sent
    BY <1>1, <1>3, <1>4, <1>5, <1>10 DEF NoneTwice, UnderWay
  <2> QED
    BY <1>2, <1>8, <2>1, <2>2, Zenon DEF NoneTwice, InTurn
<1>11. ASSUME Len(atFtps) # FtpsRoom PROVE NoneTwice' /\ InTurn'
  <2>1. dropped' = dropped
    BY <1>2, <1>3, <1>11, Zenon
  <2>2. Len(a) + Len(t) + Len(atDaemon) = UnderWay /\ Expected + Len(a) = b + 1
    BY <1>3, <1>4, <1>5, <1>11 DEF UnderWay
  <2>3. UnderWay' = UnderWay
    BY <1>8, <2>2, Zenon
  <2>4. NoneTwice'
    <3>1. ftpc # "start" => Expected + UnderWay <= IF dropped THEN sent ELSE sent + 1
      BY <1>1 DEF NoneTwice
    <3>2. CASE dropped
      BY <1>2, <1>8, <2>1, <2>3, <3>1, <3>2, Zenon DEF NoneTwice
    <3>3. CASE ~dropped
      <4>1. ~dropped'
        BY <2>1, <3>3
      <4> QED
        BY <1>2, <1>8, <2>3, <3>1, <3>3, <4>1, Zenon DEF NoneTwice
    <3> QED
      BY <3>2, <3>3
  <2>5. InTurn'
    <3>1. ASSUME ~dropped, ~broken
          PROVE  /\ CountsFrom(a, Expected)
                 /\ CountsFrom(t, Expected + Len(a))
                 /\ CountsFrom(atDaemon, Expected + Len(a) + Len(t))
      <4>1. CountsFrom(carried, b) /\ CountsFrom(atFtps, Expected)
        BY <1>1, <3>1 DEF InTurn
      <4>2. b + Len(carried) = Expected + Len(a) + Len(t)
        BY <1>3, <1>4, <1>5, <1>11
      <4> QED
        BY <1>1, <1>4, <1>6, <1>11, <2>2, <3>1, <4>1, <4>2 DEF InTurn
    <3> QED
      BY <1>1, <1>2, <1>7, <1>8, <2>1, <2>3, <3>1, Zenon DEF InTurn
  <2> QED
    BY <2>4, <2>5
<1>12. CountsDown'
  BY <1>1, <1>2, Zenon DEF CountsDown
<1> QED
  BY <1>2, <1>9, <1>10, <1>11, <1>12, Zenon DEF DatagramInv

(* ftps takes the first datagram for that with the size. *)
LEMMA FtpsReceivesInfoStep ==
  ASSUME DatagramInv, FtpsReceivesInfo
  PROVE  DatagramInv'
<1>1. DatagramType /\ NoneTwice /\ InTurn /\ CountsDown
  BY DEF DatagramInv
<1>2. /\ ftps = "waits" /\ atFtps # <<>> /\ stored = <<>> /\ length = 0
      /\ ftpc # "start"
      /\ ftps' = "receives" /\ atFtps' = Tail(atFtps)
      /\ toCome' = Announced(fileSize)
      /\ UNCHANGED <<ftpc, fileSize, sent, atDaemon, carried, broken, stored, length,
                     dropped>>
  BY <1>1 DEF FtpsReceivesInfo, DatagramType, ftpcVars
<1>3. /\ Len(atDaemon) \in Nat /\ Len(carried) \in Nat /\ Len(stored) = 0
      /\ FtpsRoom \in Nat /\ sent \in Nat /\ dropped \in BOOLEAN
      /\ atFtps \in Seq(Nat) /\ Len(atFtps) <= FtpsRoom
      /\ Expected = 0
  BY <1>1, <1>2, Lengths DEF DatagramType, Expected
<1> DEFINE t == Tail(atFtps)
<1>4. /\ t \in Seq(Nat)
      /\ Len(atFtps) \in Nat /\ Len(t) \in Nat /\ Len(t) = Len(atFtps) - 1
      /\ CountsFrom(atFtps, 0) => CountsFrom(t, 1)
  BY <1>2, <1>3, TakeOne
<1> HIDE DEF t
<1>5. atFtps' = t
  BY <1>2 DEF t
<1>6. Expected' = 1 /\ UnderWay' = Len(t) + Len(carried) + Len(atDaemon)
  <2>1. /\ Expected' = Len(stored) + 1
        /\ UnderWay' = Len(t) + Len(carried) + Len(atDaemon)
    BY <1>2, <1>5, Zenon DEF Expected, UnderWay
  <2> QED
    BY <1>3, <2>1
<1>7. 1 + (Len(t) + Len(carried) + Len(atDaemon)) = Expected + UnderWay
  BY <1>3, <1>4 DEF UnderWay
<1>8. Expected' + UnderWay' = Expected + UnderWay
  BY <1>6, <1>7, Zenon
<1>9. /\ Announced(fileSize) \in Int /\ BuffSize \in Nat /\ BuffSize > 0
      /\ Announced(fileSize) <= 0 => Awaited(fileSize) = 0
  BY <1>1, AnnouncedSize, BufferType, SizeType DEF DatagramType
<1>10. DatagramType'
  <2>1. Len(t) <= FtpsRoom
    BY <1>3, <1>4
  <2> QED
    BY <1>1, <1>2, <1>4, <1>5, <1>9, <2>1 DEF DatagramType
<1>11. NoneTwice'
  BY <1>1, <1>2, <1>8, Zenon DEF NoneTwice
<1>12. InTurn'
  <2>1. ASSUME ~dropped, ~broken
        PROVE  /\ Expected + UnderWay = sent + 1
               /\ CountsFrom(stored, 1)
               /\ CountsFrom(t, 1)
               /\ CountsFrom(carried, 1 + Len(t))
               /\ CountsFrom(atDaemon, 1 + Len(t) + Len(carried))
    <3>1. 1 + Len(t) = Expected + Len(atFtps)
      BY <1>3, <1>4
    <3> QED
      BY <1>1, <1>2, <1>3, <1>4, <2>1, <3>1 DEF InTurn
  <2> QED
    BY <1>2, <1>5, <1>6, <1>8, <2>1, Zenon DEF InTurn
<1>13. CountsDown'
  <2>1. /\ Announced(fileSize) = Announced(fileSize) - BuffSize * Len(stored)
        /\ Announced(fileSize) > 0 => length = BuffSize * Len(stored)
        /\ Announced(fileSize) <= 0 => length = Awaited(fileSize)
    BY <1>2, <1>3, <1>9
  <2>2. /\ toCome' = Announced(fileSize') - BuffSize * Len(stored')
        /\ Len(stored') = 0
    BY <1>2, <1>3, <2>1, Zenon
  <2>3. toCome' > 0 => length' = BuffSize * Len(stored')
    BY <1>2, <2>1, Zenon
  <2>4. toCome' <= 0 => length' = Awaited(fileSize')
    BY <1>2, <2>1, Zenon
  <2> QED
    BY <1>2, <2>2, <2>3, <2>4 DEF CountsDown
<1> QED
  BY <1>1, <1>2, <1>10, <1>11, <1>12, <1>13, Zenon DEF DatagramInv

(* It writes a block, and of the last one as much as it counts on. *)
LEMMA FtpsStoresStep ==
  ASSUME DatagramInv, FtpsStores
  PROVE  DatagramInv'
<1>1. DatagramType /\ NoneTwice /\ InTurn /\ CountsDown
  BY DEF DatagramInv
<1>2. /\ ftps = "receives" /\ toCome > 0 /\ atFtps # <<>>
      /\ ftpc # "start"
      /\ atFtps' = Tail(atFtps) /\ stored' = Append(stored, Head(atFtps))
      /\ length' = length + (IF toCome > BuffSize THEN BuffSize ELSE toCome)
      /\ toCome' = toCome - BuffSize
      /\ UNCHANGED <<ftpc, fileSize, sent, atDaemon, carried, broken, ftps, dropped>>
  BY <1>1 DEF FtpsStores, DatagramType, ftpcVars
<1>3. /\ Len(atDaemon) \in Nat /\ Len(carried) \in Nat /\ Len(stored) \in Nat
      /\ FtpsRoom \in Nat /\ sent \in Nat /\ dropped \in BOOLEAN
      /\ atFtps \in Seq(Nat) /\ Len(atFtps) <= FtpsRoom /\ stored \in Seq(Nat)
      /\ Expected = Len(stored) + 1
  BY <1>1, <1>2, Lengths DEF DatagramType, Expected
<1> DEFINE b == Len(stored) + 1
           d == Head(atFtps)
           t == Tail(atFtps)
           s == Append(stored, d)
<1>4. /\ d \in Nat /\ t \in Seq(Nat)
      /\ Len(atFtps) \in Nat /\ Len(t) \in Nat /\ Len(t) = Len(atFtps) - 1
      /\ b \in Nat
      /\ CountsFrom(atFtps, b) => d = b /\ CountsFrom(t, b + 1)
  BY <1>2, <1>3, TakeOne
<1>5. /\ s \in Seq(Nat) /\ Len(s) = Len(stored) + 1
      /\ CountsFrom(stored, 1) /\ d = 1 + Len(stored) => CountsFrom(s, 1)
  BY <1>3, <1>4, AppendOne
<1> HIDE DEF d, t, s
<1>6. atFtps' = t /\ stored' = s
  BY <1>2 DEF s, d, t
<1>7. /\ Expected' = Len(s) + 1
      /\ UnderWay' = Len(t) + Len(carried) + Len(atDaemon)
  BY <1>2, <1>6, Zenon DEF Expected, UnderWay
<1>8. Len(s) + 1 + (Len(t) + Len(carried) + Len(atDaemon)) = Expected + UnderWay
  BY <1>3, <1>4, <1>5 DEF UnderWay
<1>9. Expected' + UnderWay' = Expected + UnderWay
  BY <1>7, <1>8, Zenon
<1> DEFINE A == Announced(fileSize)
           part == IF toCome > BuffSize THEN BuffSize ELSE toCome
<1>10. /\ A \in Int /\ BuffSize \in Nat /\ BuffSize > 0
       /\ length \in Nat /\ toCome \in Int
       /\ toCome = A - BuffSize * Len(stored)
       /\ length = BuffSize * Len(stored)
       /\ A > 0 => Awaited(fileSize) = A
  BY <1>1, <1>2, AnnouncedSize, BufferType, SizeType DEF DatagramType, CountsDown
<1> HIDE DEF A
<1>11. /\ BuffSize * Len(stored) \in Nat
       /\ BuffSize * Len(s) = BuffSize * Len(stored) + BuffSize
  BY <1>3, <1>5, <1>10, Distribute
<1>12. /\ length + part \in Nat
       /\ toCome - BuffSize \in Int
       /\ toCome - BuffSize = A - BuffSize * Len(s)
       /\ toCome - BuffSize > -BuffSize
       /\ toCome - BuffSize > 0 => length + part = BuffSize * Len(s)
       /\ toCome - BuffSize <= 0 => length + part = Awaited(fileSize)
  <2> DEFINE p == BuffSize * Len(stored)
             q == BuffSize * Len(s)
  <2>1. /\ p \in Nat /\ q = p + BuffSize /\ toCome = A - p /\ length = p
        /\ BuffSize \in Nat /\ BuffSize > 0 /\ A \in Int /\ toCome \in Int
        /\ toCome > 0
    BY <1>2, <1>10, <1>11
  <2> HIDE DEF p, q
  <2>2. /\ length + part \in Nat
        /\ toCome - BuffSize \in Int
        /\ toCome - BuffSize = A - q
        /\ toCome - BuffSize > -BuffSize
        /\ toCome - BuffSize > 0 => length + part = q
        /\ toCome - BuffSize <= 0 => length + part = A
        /\ A > 0
    BY <2>1
  <2> QED
    BY <1>10, <2>2 DEF q
<1>13. DatagramType'
  <2>1. Len(t) <= FtpsRoom
    BY <1>3, <1>4
  <2>2. length' \in Nat /\ toCome' \in Int
    BY <1>2, <1>12
  <2> QED
    BY <1>1, <1>2, <1>4, <1>5, <1>6, <2>1, <2>2, Zenon DEF DatagramType
<1>14. NoneTwice'
  BY <1>1, <1>2, <1>9, Zenon DEF NoneTwice
<1>15. InTurn'
  <2>1. ASSUME ~dropped, ~broken
        PROVE  /\ Expected + UnderWay = sent + 1
               /\ CountsFrom(s, 1)
               /\ CountsFrom(t, Len(s) + 1)
               /\ CountsFrom(carried, Len(s) + 1 + Len(t))
               /\ CountsFrom(atDaemon, Len(s) + 1 + Len(t) + Len(carried))
    <3>1. /\ Len(s) + 1 + Len(t) = Expected + Len(atFtps)
          /\ Len(s) + 1 = b + 1 /\ b = 1 + Len(stored)
      BY <1>3, <1>4, <1>5
    <3> QED
      BY <1>1, <1>2, <1>3, <1>4, <1>5, <2>1, <3>1 DEF InTurn
  <2> QED
    BY <1>2, <1>6, <1>7, <1>9, <2>1, Zenon DEF InTurn
<1>16. CountsDown'
  BY <1>2, <1>6, <1>12, Zenon DEF CountsDown, A
<1> QED
  BY <1>1, <1>2, <1>13, <1>14, <1>15, <1>16, Zenon DEF DatagramInv

LEMMA FtpsFinishesStep ==
  ASSUME DatagramInv, FtpsFinishes
  PROVE  DatagramInv'
<1>1. DatagramType /\ NoneTwice /\ InTurn /\ CountsDown
  BY DEF DatagramInv
<1>2. /\ ftps = "receives" /\ toCome <= 0 /\ ftps' = "finished"
      /\ ftpc # "start"
      /\ UNCHANGED <<ftpc, fileSize, sent, atDaemon, carried, atFtps, broken,
                     toCome, stored, length, dropped>>
  BY <1>1 DEF FtpsFinishes, DatagramType, ftpcVars
<1>3. Expected' = Expected /\ UnderWay' = UnderWay
  BY <1>2 DEF Expected, UnderWay
<1>4. DatagramType'
  BY <1>1, <1>2 DEF DatagramType
<1>5. NoneTwice'
  BY <1>1, <1>2, <1>3, Zenon DEF NoneTwice
<1>6. InTurn'
  BY <1>1, <1>2, <1>3, Zenon DEF InTurn
<1>7. CountsDown'
  BY <1>1, <1>2, Zenon DEF CountsDown
<1> QED
  BY <1>2, <1>4, <1>5, <1>6, <1>7, Zenon DEF DatagramInv

LEMMA DatagramInvNext == DatagramInv /\ [DatagramNext]_datagramVars => DatagramInv'
<1> SUFFICES ASSUME DatagramInv, [DatagramNext]_datagramVars
             PROVE  DatagramInv'
  OBVIOUS
<1>1. CASE FtpcEnds
  <2>1. /\ ftpc = "sends" /\ ftpc' = "ended"
        /\ UNCHANGED <<fileSize, sent, atDaemon, carried, atFtps, broken, ftps,
                       toCome, stored, length, dropped>>
    BY <1>1 DEF FtpcEnds, ftpsVars
  <2>2. Expected' = Expected /\ UnderWay' = UnderWay
    BY <2>1 DEF Expected, UnderWay
  <2>3. ftpc # "start" /\ ftpc' # "start"
    BY <2>1
  <2>4. DatagramType' /\ NoneTwice'
    BY <2>1, <2>2, <2>3 DEF DatagramInv, DatagramType, NoneTwice
  <2>5. InTurn' /\ CountsDown'
    BY <2>1, <2>2, <2>3, Zenon DEF DatagramInv, InTurn, CountsDown
  <2> QED
    BY <2>1, <2>3, <2>4, <2>5, Zenon DEF DatagramInv
<1>2. CASE UNCHANGED datagramVars
  <2>1. Expected' = Expected /\ UnderWay' = UnderWay
    BY <1>2 DEF datagramVars, Expected, UnderWay
  <2>2. DatagramType' /\ NoneTwice'
    BY <1>2, <2>1 DEF datagramVars, DatagramInv, DatagramType, NoneTwice
  <2>3. InTurn' /\ CountsDown'
    BY <1>2, <2>1, Zenon DEF datagramVars, DatagramInv, InTurn, CountsDown
  <2> QED
    BY <1>2, <2>2, <2>3, Zenon DEF datagramVars, DatagramInv
<1>3. CASE PromiseBreaks
  <2>1. /\ broken' = TRUE
        /\ UNCHANGED <<ftpc, fileSize, sent, atDaemon, carried, atFtps, ftps,
                       toCome, stored, length, dropped>>
    BY <1>3 DEF PromiseBreaks, ftpcVars, ftpsVars
  <2>2. Expected' = Expected /\ UnderWay' = UnderWay
    BY <2>1 DEF Expected, UnderWay
  <2>3. DatagramType' /\ NoneTwice'
    BY <2>1, <2>2 DEF DatagramInv, DatagramType, NoneTwice
  <2>4. InTurn' /\ CountsDown'
    BY <2>1, Zenon DEF DatagramInv, InTurn, CountsDown
  <2> QED
    BY <2>1, <2>3, <2>4, Zenon DEF DatagramInv
<1>4. CASE DaemonGives
  <2>1. Given(Head(carried)) /\ carried # <<>>
    BY <1>4 DEF DaemonGives, Given
  <2>2. Head(carried) \in Nat
    BY <2>1, TakeOne DEF DatagramInv, DatagramType
  <2> QED
    BY <2>1, <2>2, GivenStep
<1>5. CASE DaemonGivesOld
  <2>1. broken /\ carried # <<>>
    BY <1>5 DEF DaemonGivesOld
  <2>2. PICK d \in 1 .. Head(carried) : Given(d)
    BY <1>5 DEF DaemonGivesOld
  <2>3. d \in Nat
    OBVIOUS
  <2> QED
    BY <2>1, <2>2, <2>3, GivenStep
<1> QED
  BY <1>1, <1>2, <1>3, <1>4, <1>5, SendInfoStep, SendBlockStep, DaemonTakesStep,
     FtpsReceivesInfoStep, FtpsStoresStep, FtpsFinishesStep
     DEF DatagramNext, FtpcSteps, FtpsSteps

(* What fills s buffers, the last one at least in part, has s blocks. *)
LEMMA BlocksStored ==
  ASSUME NEW n \in Nat, NEW s \in Nat, NEW c \in Int,
         c = n - BuffSize * s, c <= 0, c > -BuffSize
  PROVE  BlocksOf(n) = s
<1>1. BuffSize \in Int /\ BuffSize > 0
  BY BufferType
<1> DEFINE r == c + BuffSize - 1
           p == BuffSize * s
<1>2. p \in Int /\ c = n - p
  BY <1>1
<1>3. r \in 0 .. BuffSize - 1 /\ n + BuffSize - 1 = p + r
  <2> HIDE DEF p
  <2> QED
    BY <1>1, <1>2
<1> HIDE DEF r
<1>4. (BuffSize * s + r) \div BuffSize = s
  BY <1>1, <1>3, QuotientOf
<1> QED
  BY <1>3, <1>4, Zenon DEF BlocksOf, p

(* Although sockets may drop datagrams and the last block comes padded, a  *)
(* file ftps finished has the length that was announced and, if the        *)
(* daemons kept their promise, is block for block and to the byte the file *)
(* ftpc read if its size could be announced, and otherwise what was        *)
(* announced of it, unless something was dropped.                          *)
THEOREM DatagramIsWhole == DatagramSpec => []DatagramWhole
<1>1. DatagramInv => DatagramWhole
  <2> SUFFICES ASSUME DatagramInv, ftps = "finished"
               PROVE  /\ length = Awaited(fileSize)
                      /\ ~broken /\ (Announceable(fileSize) \/ ~dropped) =>
                           stored = [i \in 1 .. BlocksOf(length) |-> i]
                      /\ Announceable(fileSize) => length = fileSize
    BY DEF DatagramWhole
  <2>1. DatagramType /\ NoneTwice /\ InTurn /\ CountsDown
    BY DEF DatagramInv
  <2>2. /\ Announced(fileSize) \in Int /\ Awaited(fileSize) \in Nat
        /\ Awaited(fileSize) = (IF Announced(fileSize) > 0
                                THEN Announced(fileSize) ELSE 0)
        /\ Announceable(fileSize) => Awaited(fileSize) = fileSize
    BY <2>1, AnnouncedSize, SizeType DEF DatagramType
  <2>3. /\ toCome \in Int /\ toCome <= 0
        /\ toCome > -BuffSize \/ Len(stored) = 0
        /\ toCome = Announced(fileSize) - BuffSize * Len(stored)
        /\ length = Awaited(fileSize)
    BY <2>1 DEF DatagramType, CountsDown
  <2>4. /\ Len(stored) \in Nat /\ UnderWay \in Nat /\ sent \in Nat
        /\ Expected = Len(stored) + 1
        /\ ftpc # "start"
    BY <2>1, Lengths DEF DatagramType, Expected
  <2>5. BlocksOf(Awaited(fileSize)) = Len(stored)
    <3>1. BuffSize \in Nat /\ BuffSize > 0
      BY BufferType
    <3>2. CASE Len(stored) = 0
      <4>1. /\ Awaited(fileSize) = 0 /\ 0 = 0 - BuffSize * Len(stored)
            /\ 0 > -BuffSize
        BY <2>2, <2>3, <3>1, <3>2
      <4> QED
        BY <2>4, <4>1, BlocksStored
    <3>3. CASE Len(stored) > 0
      <4> DEFINE p == BuffSize * Len(stored)
      <4>1. p \in Nat /\ p >= BuffSize
        BY <2>4, <3>1, <3>3, MultipleBound
      <4>2. toCome > -BuffSize /\ toCome = Announced(fileSize) - p
        BY <2>3, <3>3
      <4> HIDE DEF p
      <4>3. Awaited(fileSize) = Announced(fileSize)
        BY <2>2, <2>3, <3>1, <4>1, <4>2
      <4> QED
        BY <2>2, <2>3, <2>4, <4>2, <4>3, BlocksStored
    <3> QED
      BY <2>4, <3>2, <3>3
  <2>6. Announceable(fileSize) => ~dropped
    <3> SUFFICES ASSUME Announceable(fileSize), dropped PROVE FALSE
      OBVIOUS
    <3>1. sent <= BlocksOf(fileSize) /\ Expected + UnderWay <= sent
      BY <2>1, <2>4 DEF DatagramInv, NoneTwice
    <3>2. sent <= Len(stored)
      BY <2>2, <2>5, <3>1, Zenon
    <3> QED
      BY <2>4, <3>1, <3>2
  <2>7. ~dropped /\ ~broken => stored = [i \in 1 .. Len(stored) |-> i]
    <3> SUFFICES ASSUME ~dropped, ~broken PROVE stored = [i \in 1 .. Len(stored) |-> i]
      OBVIOUS
    <3>1. \A i \in 1 .. Len(stored) : stored[i] = i
      BY <2>1, <2>4 DEF InTurn, CountsFrom
    <3>2. stored = [i \in 1 .. Len(stored) |-> stored[i]]
      BY <2>1 DEF DatagramType
    <3> QED
      BY <3>1, <3>2, Zenon
  <2> QED
    BY <2>2, <2>3, <2>5, <2>6, <2>7
<1> QED
  BY <1>1, DatagramInvInit, DatagramInvNext, PTL DEF DatagramSpec

-----------------------------------------------------------------------------
(***************************************************************************)
(* lab1's count.                                                           *)
(***************************************************************************)

L == Len(target)

CountType ==
  /\ counting \in {"start", "reads", "ended"}
  /\ file \in Seq(Characters) /\ target \in Seq(Characters \ {Newline})
  /\ counting = "start" => pos = 0 /\ found = {} /\ file = <<>> /\ target = <<>>
  /\ counting # "start" => target # <<>>
  /\ pos \in Nat /\ pos <= Len(file)
  /\ counting = "ended" => pos = Len(file)

(* What was counted ends before the place in the file: where it goes back  *)
(* to comes after the last chunk with an occurrence.  A string longer than *)
(* a chunk is found nowhere, for then it goes back further than it read.   *)
Counted == /\ IsFiniteSet(found)
           /\ CountedOnce
           /\ IF L > Chunk THEN found = {} ELSE \A i \in found : i + L - 1 <= pos

CountInv == CountType /\ Counted

LEMMA ChunkType == Chunk \in Nat /\ Chunk >= 2
BY CountAssumption

LEMMA SmallestNumber ==
  ASSUME NEW S \in SUBSET Nat, S # {}
  PROVE  Min(S) \in S /\ \A k \in S : Min(S) <= k
<1>1. \E m \in S : \A k \in S : m <= k
  BY Smallest
<1> QED
  BY <1>1, Zenon DEF Min

(* fgets ends at the chunk, the file or a line end, at whichever is first. *)
LEMMA ChunkEnds ==
  ASSUME CountType
  PROVE  /\ ChunkEnd \in Nat
         /\ pos <= ChunkEnd /\ ChunkEnd <= pos + Chunk /\ ChunkEnd <= Len(file)
<1> DEFINE lines == {i \in pos + 1 .. Len(file) : file[i] = Newline}
           S == {pos + Chunk, Len(file)} \cup lines
<1>1. /\ pos \in Nat /\ Len(file) \in Nat /\ pos <= Len(file)
      /\ Chunk \in Nat
  BY ChunkType DEF CountType
<1>2. /\ S \in SUBSET Nat /\ S # {}
      /\ pos + Chunk \in S /\ Len(file) \in S
      /\ \A k \in S : pos <= k
  BY <1>1
<1>3. ChunkEnd \in S /\ \A k \in S : ChunkEnd <= k
  <2>1. ChunkEnd = Min(S)
    BY DEF ChunkEnd
  <2> HIDE DEF S
  <2> QED
    BY <1>2, <2>1, SmallestNumber
<1> HIDE DEF S
<1>4. /\ ChunkEnd \in Nat /\ pos <= ChunkEnd
      /\ ChunkEnd <= pos + Chunk /\ ChunkEnd <= Len(file)
  BY <1>2, <1>3
<1> QED
  BY <1>4

LEMMA OccurrencesType ==
  ASSUME CountType
  PROVE  /\ L \in Nat /\ Len(file) \in Nat
         /\ counting # "start" => L >= 1
         /\ \A i \in Occurrences : /\ i \in Nat /\ i >= 1 /\ i + L - 1 <= Len(file)
                                   /\ \A j \in 1 .. L : file[i + j - 1] = target[j]
BY DEF CountType, Occurrences, L

(* The occurrences in a chunk are finitely many, come after its beginning  *)
(* and fit the chunk.                                                      *)
LEMMA MatchesType ==
  ASSUME CountType
  PROVE  /\ Matches \subseteq Occurrences /\ IsFiniteSet(Matches)
         /\ \A i \in Matches : pos < i /\ i + L - 1 <= ChunkEnd
         /\ L > Chunk => Matches = {}
<1>1. /\ L \in Nat /\ ChunkEnd \in Nat /\ ChunkEnd <= pos + Chunk
      /\ pos \in Nat /\ Chunk \in Nat /\ Len(file) \in Nat
      /\ \A i \in Occurrences : i \in Nat /\ i >= 1 /\ i + L - 1 <= Len(file)
  BY ChunkEnds, ChunkType, OccurrencesType DEF CountType
<1>2. /\ Matches \subseteq Occurrences
      /\ \A i \in Matches : pos < i /\ i + L - 1 <= ChunkEnd
  BY DEF Matches, L
<1>3. IsFiniteSet(Matches)
  <2>1. \A i \in Occurrences : i <= Len(file) + 1
    BY <1>1
  <2>2. Matches \in SUBSET Nat /\ \A i \in Matches : i <= Len(file) + 1
    BY <1>1, <1>2, <2>1
  <2>3. Len(file) + 1 \in Nat
    BY <1>1
  <2> HIDE DEF Matches
  <2> QED
    BY <2>2, <2>3, FS_BoundedSetOfNaturals
<1>4. L > Chunk => Matches = {}
  <2> SUFFICES ASSUME L > Chunk, NEW i \in Matches PROVE FALSE
    OBVIOUS
  <2>1. i \in Nat /\ pos < i /\ i + L - 1 <= ChunkEnd
    BY <1>1, <1>2
  <2> QED
    BY <1>1, <2>1
<1> QED
  BY <1>2, <1>3, <1>4

LEMMA CountInvInit == CountInit => CountInv
<1> SUFFICES ASSUME CountInit PROVE CountInv
  OBVIOUS
<1>1. /\ counting = "start" /\ file = <<>> /\ target = <<>> /\ pos = 0
      /\ count = 0 /\ found = {}
      /\ Len(<<>>) = 0
  BY DEF CountInit
<1>2. CountType
  <2>1. <<>> \in Seq(Characters) /\ <<>> \in Seq(Characters \ {Newline})
    OBVIOUS
  <2> QED
    BY <1>1, <2>1 DEF CountType
<1>3. Counted
  BY <1>1, FS_EmptySet DEF Counted, CountedOnce
<1> QED
  BY <1>2, <1>3 DEF CountInv

LEMMA OpenFileStep == CountInv /\ OpenFile => CountInv'
<1> SUFFICES ASSUME CountInv, OpenFile PROVE CountInv'
  OBVIOUS
<1>1. /\ CountType /\ IsFiniteSet(found) /\ count = Cardinality(found)
      /\ found = {} /\ pos = 0
      /\ counting' = "reads" /\ file' \in Files /\ target' \in Targets
      /\ UNCHANGED <<pos, count, found>>
  BY DEF CountInv, CountType, Counted, CountedOnce, OpenFile
<1>2. CountType'
  <2>1. /\ file' \in Seq(Characters) /\ target' \in Seq(Characters \ {Newline})
        /\ target' # <<>>
    BY <1>1, CountAssumption
  <2>2. Len(file') \in Nat
    BY <2>1
  <2>3. pos' = 0 /\ pos' <= Len(file')
    BY <1>1, <2>2
  <2> QED
    BY <1>1, <2>1, <2>3 DEF CountType
<1>3. Counted'
  BY <1>1 DEF Counted, CountedOnce
<1> QED
  BY <1>2, <1>3 DEF CountInv

(* The chunk that is passed over is a single character. *)
LEMMA PassOverStep == CountInv /\ PassOver => CountInv'
<1> SUFFICES ASSUME CountInv, PassOver PROVE CountInv'
  OBVIOUS
<1>1. CountType /\ Counted
  BY DEF CountInv
<1>2. /\ counting = "reads" /\ ChunkEnd - pos = 1
      /\ pos' = ChunkEnd
      /\ UNCHANGED <<counting, file, target, count, found>>
  BY DEF PassOver
<1>3. /\ L \in Nat /\ L >= 1 /\ pos \in Nat /\ Chunk \in Nat /\ Chunk >= 2
      /\ ChunkEnd \in Nat /\ ChunkEnd <= Len(file) /\ ChunkEnd > pos
      /\ ~ IsFull
  BY <1>1, <1>2, ChunkEnds, ChunkType, OccurrencesType DEF CountType, IsFull
<1>4. Occurrences' = Occurrences /\ L' = L
  BY <1>2 DEF Occurrences, L
<1>5. CountType'
  BY <1>1, <1>2, <1>3 DEF CountType
<1>6. Counted'
  <2>1. CountedOnce'
    BY <1>1, <1>2, <1>4 DEF Counted, CountedOnce
  <2>2. found \subseteq Occurrences
    BY <1>1 DEF Counted, CountedOnce
  <2>3. \A i \in found : i + L - 1 <= pos => i + L - 1 <= ChunkEnd
    BY <1>1, <1>3, <2>2, OccurrencesType
  <2>4. IF L > Chunk THEN found = {} ELSE \A i \in found : i + L - 1 <= ChunkEnd
    BY <1>1, <2>3 DEF Counted
  <2> QED
    BY <1>1, <1>2, <1>4, <2>1, <2>4, Zenon DEF Counted
<1> QED
  BY <1>5, <1>6 DEF CountInv

(* Where a chunk leads to: its end, or the length of the string before it, *)
(* which is further back than where it began only if the string does not   *)
(* fit a chunk.                                                            *)
LEMMA WhereTo ==
  ASSUME CountType, counting = "reads"
  PROVE  LET to == IF GoesBack THEN Back ELSE ChunkEnd
         IN  /\ to \in Nat /\ to <= Len(file) /\ to <= ChunkEnd
             /\ L <= Chunk => pos <= to
             /\ ~IsFull \/ Matches # {} => to = ChunkEnd
<1> DEFINE to == IF GoesBack THEN Back ELSE ChunkEnd
<1>1. /\ L \in Nat /\ pos \in Nat /\ Chunk \in Nat /\ ChunkEnd \in Nat
      /\ ChunkEnd <= Len(file) /\ Len(file) \in Nat /\ pos <= ChunkEnd
      /\ IsFull <=> ChunkEnd - pos = Chunk
  BY ChunkEnds, ChunkType, OccurrencesType DEF CountType, IsFull
<1>2. CASE ~GoesBack
  <2>1. to = ChunkEnd /\ ~ (Matches = {} /\ IsFull)
    BY <1>2 DEF GoesBack
  <2> QED
    BY <1>1, <2>1
<1>3. CASE GoesBack /\ ChunkEnd < L
  <2>1. to = ChunkEnd /\ IsFull /\ Matches = {}
    BY <1>3, <1>1 DEF GoesBack, Back, L
  <2> QED
    BY <1>1, <1>3, <2>1
<1>4. CASE GoesBack /\ ~(ChunkEnd < L)
  <2>1. to = ChunkEnd - L /\ IsFull /\ Matches = {}
    BY <1>4, <1>1 DEF GoesBack, Back, L
  <2> QED
    BY <1>1, <1>4, <2>1
<1> QED
  BY <1>2, <1>3, <1>4

LEMMA CountChunkStep == CountInv /\ CountChunk => CountInv'
<1> SUFFICES ASSUME CountInv, CountChunk PROVE CountInv'
  OBVIOUS
<1> DEFINE to == IF GoesBack THEN Back ELSE ChunkEnd
<1>1. CountType /\ Counted
  BY DEF CountInv
<1>2. /\ counting = "reads" /\ ChunkEnd - pos > 1
      /\ count' = count + Cardinality(Matches)
      /\ found' = found \cup Matches
      /\ pos' = to
      /\ UNCHANGED <<counting, file, target>>
  BY DEF CountChunk
<1>3. /\ to \in Nat /\ to <= Len(file) /\ to <= ChunkEnd
      /\ L <= Chunk => pos <= to
      /\ ~IsFull \/ Matches # {} => to = ChunkEnd
  BY <1>1, <1>2, WhereTo
<1> HIDE DEF to
<1>4. /\ L \in Nat /\ L >= 1 /\ pos \in Nat /\ Chunk \in Nat /\ Chunk >= 2
      /\ ChunkEnd \in Nat /\ ChunkEnd <= Len(file) /\ ChunkEnd > pos
      /\ Len(file) \in Nat
      /\ \A i \in Occurrences : i \in Nat /\ i + L - 1 <= Len(file)
  BY <1>1, <1>2, ChunkEnds, ChunkType, OccurrencesType DEF CountType
<1>5. Occurrences' = Occurrences /\ L' = L
  BY <1>2 DEF Occurrences, L
<1>6. /\ IsFiniteSet(found) /\ count = Cardinality(found) /\ found \subseteq Occurrences
      /\ L > Chunk => found = {}
      /\ L <= Chunk => \A i \in found : i + L - 1 <= pos
  BY <1>1, <1>4 DEF Counted, CountedOnce
<1>7. /\ Matches \subseteq Occurrences /\ IsFiniteSet(Matches)
      /\ \A i \in Matches : pos < i /\ i + L - 1 <= ChunkEnd
      /\ L > Chunk => Matches = {}
  BY <1>1, MatchesType
<1>8. CountType'
  BY <1>1, <1>2, <1>3 DEF CountType
<1>9. Counted'
  <2>1. found \cap Matches = {}
    <3> SUFFICES ASSUME NEW i \in found, i \in Matches PROVE FALSE
      OBVIOUS
    <3>1. i \in Nat /\ pos < i /\ L <= Chunk /\ i + L - 1 <= pos
      BY <1>4, <1>6, <1>7
    <3> QED
      BY <1>4, <3>1
  <2>2. /\ IsFiniteSet(found \cup Matches)
        /\ Cardinality(found \cup Matches) = Cardinality(found) + Cardinality(Matches)
    <3>1. /\ IsFiniteSet(found \cup Matches)
          /\ Cardinality(found \cup Matches)
               = Cardinality(found) + Cardinality(Matches) - Cardinality({})
      BY <1>6, <1>7, <2>1, FS_Union, Zenon
    <3>2. Cardinality(found) \in Nat /\ Cardinality(Matches) \in Nat
      BY <1>6, <1>7, FS_CardinalityType
    <3> QED
      BY <3>1, <3>2, FS_EmptySet
  <2>3. CountedOnce'
    BY <1>2, <1>5, <1>6, <1>7, <2>2, Zenon DEF CountedOnce
  <2>4. IF L > Chunk THEN found \cup Matches = {}
        ELSE \A i \in found \cup Matches : i + L - 1 <= to
    <3>1. ASSUME L <= Chunk, NEW i \in found PROVE i + L - 1 <= to
      BY <1>3, <1>4, <1>6, <3>1
    <3>2. ASSUME NEW i \in Matches PROVE i + L - 1 <= to
      BY <1>3, <1>7, <3>2
    <3> QED
      BY <1>4, <1>6, <1>7, <3>1, <3>2
  <2> QED
    BY <1>2, <1>5, <2>2, <2>3, <2>4, Zenon DEF Counted
<1> QED
  BY <1>8, <1>9 DEF CountInv

LEMMA CountInvNext == CountInv /\ [CountNext]_countVars => CountInv'
<1> SUFFICES ASSUME CountInv, [CountNext]_countVars PROVE CountInv'
  OBVIOUS
<1>1. CASE Report
  <2>1. /\ counting = "reads" /\ pos = Len(file) /\ counting' = "ended"
        /\ UNCHANGED <<file, target, pos, count, found>>
    BY <1>1 DEF Report
  <2>2. CountType'
    BY <2>1 DEF CountInv, CountType
  <2> QED
    BY <2>1, <2>2, Zenon
       DEF CountInv, Counted, CountedOnce, Occurrences, L
<1>2. CASE UNCHANGED countVars
  <2>1. CountType'
    BY <1>2 DEF CountInv, CountType, countVars
  <2> QED
    BY <1>2, <2>1, Zenon DEF CountInv, Counted, CountedOnce, Occurrences, L,
                            countVars
<1> QED
  BY <1>1, <1>2, OpenFileStep, PassOverStep, CountChunkStep DEF CountNext

LEMMA CountInvariance == CountSpec => []CountInv
BY CountInvInit, CountInvNext, PTL DEF CountSpec

(* No occurrence is counted twice, although count goes back in the file    *)
(* and reads parts of it again.                                            *)
THEOREM CountsOnce == CountSpec => []CountedOnce
<1>1. CountInv => CountedOnce
  BY DEF CountInv, Counted
<1> QED
  BY <1>1, CountInvariance, PTL
=============================================================================
