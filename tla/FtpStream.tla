----------------------------- MODULE FtpStream ------------------------------
(***************************************************************************)
(* ftpc and ftps of lab2, over a TCP connection.  What is in the stream is *)
(* known from how far it was written and read: a buffer with the size and  *)
(* the name, and the file.                                                 *)
(***************************************************************************)
EXTENDS FileSize

CONSTANT SocketRoom   \* bytes the connection takes before send() blocks

ASSUME SocketAssumption == SocketRoom \in Nat /\ SocketRoom >= BuffSize

VARIABLES client,    \* "start", "sends", "waits", then "told" if it read the
                     \* reply, "blank" if it read nothing, or "dead"
          server,    \* "waits", "receives", then "finished" or "failed"
          size,      \* of the file
          written,   \* bytes the client has put in the stream
          read,      \* bytes the server took out of it
          left       \* the server's count of what is to come

streamVars == <<client, server, size, written, read, left>>

StreamInit == /\ client = "start" /\ server = "waits" /\ size = 0
              /\ written = 0 /\ read = 0 /\ left = 0

ClientLives == client \in {"start", "sends", "waits"}
ServerEnded == server \in {"finished", "failed"}
InStream == written - read
AtMost(n, m) == IF n < m THEN n ELSE m

(* Connected and with an open file, the client sends size and name. *)
SendInformation == /\ client = "start" /\ ~ServerEnded
                   /\ \E n \in Sizes : size' = n
                   /\ client' = "sends" /\ written' = BuffSize
                   /\ UNCHANGED <<server, read, left>>

Unsent == BuffSize + size - written

(* fread() and send() of a block, which waits until there is room. *)
SendBlock == LET n == AtMost(BuffSize, Unsent)
             IN  /\ client = "sends" /\ Unsent > 0 /\ ~ServerEnded
                 /\ InStream + n <= SocketRoom
                 /\ written' = written + n
                 /\ UNCHANGED <<client, server, size, read, left>>

EndOfFile == /\ client = "sends" /\ Unsent = 0
             /\ client' = "waits"
             /\ UNCHANGED <<server, size, written, read, left>>

(* The server closed the connection: send() fails, and so may read() when  *)
(* bytes were left unread, which resets the connection.                    *)
ClientCutOff == /\ ServerEnded
                /\ \/ client \in {"start", "sends"}
                   \/ client = "waits" /\ InStream > 0
                /\ client' = "dead"
                /\ UNCHANGED <<server, size, written, read, left>>

(* read() returns the reply, or 0 if the server ended without one. *)
ReadReply == /\ client = "waits" /\ ServerEnded
             /\ client' = IF server = "finished" THEN "told" ELSE "blank"
             /\ UNCHANGED <<server, size, written, read, left>>

(* It is killed, or finds no such file. *)
ClientDies == /\ ClientLives
              /\ client' = "dead"
              /\ UNCHANGED <<server, size, written, read, left>>
-----------------------------------------------------------------------------
(* recv() with MSG_WAITALL: the whole first buffer. *)
ReceiveInformation == /\ server = "waits" /\ InStream >= BuffSize
                      /\ server' = "receives"
                      /\ read' = BuffSize /\ left' = Announced(size)
                      /\ UNCHANGED <<client, size, written>>

(* Mutant: the part of the buffer that was not filled counts as well.      *)
ReceivePartFull(n) == /\ server = "receives" /\ left > 0
                      /\ n <= InStream
                      /\ read' = read + n /\ left' = left - BuffSize
                      /\ UNCHANGED <<client, server, size, written>>

(* recv() and fwrite() of n bytes.  When the client has closed the         *)
(* connection n is 0, for ever: nothing changes in the loop.               *)
ReceivePart(n) == /\ server = "receives" /\ left > 0
                  /\ n <= InStream
                  /\ read' = read + n /\ left' = left - n
                  /\ UNCHANGED <<client, server, size, written>>

(* Mutant: the server waits for one byte more.                             *)
FinishLate == /\ server = "receives" /\ left < 0
              /\ server' = "finished"
              /\ UNCHANGED <<client, size, written, read, left>>

Finish == /\ server = "receives" /\ left <= 0
          /\ server' = "finished"
          /\ UNCHANGED <<client, size, written, read, left>>

(* mkdir(), fopen(), fwrite() or recv() fails; also when the client closed *)
(* without a word, for then the file name is empty.                        *)
ServerFails == /\ ~ServerEnded
               /\ server' = "failed"
               /\ UNCHANGED <<client, size, written, read, left>>

StreamServer == \/ ReceiveInformation
                \/ \E n \in 1 .. BuffSize : ReceivePart(n)
                \/ Finish
StreamClient == \/ SendInformation \/ SendBlock \/ EndOfFile
                \/ ReadReply \/ ClientCutOff

StreamNext == StreamClient \/ StreamServer \/ ClientDies \/ ServerFails

StreamSpec == /\ StreamInit /\ [][StreamNext]_streamVars
              /\ WF_streamVars(StreamServer) /\ WF_streamVars(StreamClient)
-----------------------------------------------------------------------------
InFile == read - BuffSize

(* However the bytes were cut up on their way and whoever died meanwhile,  *)
(* a file the server finished has all that was announced, and that is the  *)
(* whole file if its size could be announced.  Otherwise what comes after  *)
(* the buffer with the last byte announced is missing.                     *)
StreamWhole ==
  server = "finished" =>
    /\ Announceable(size) => InFile = size
    /\ Awaited(size) <= InFile
    /\ InFile < Awaited(size) + BuffSize

(* What the server finished is the file that was sent ("2. ftpc.c The      *)
(* client, send file", "3. ftps.c The server, receive file.",              *)
(* lab2/README:4-5; "set the file size and file name to the buffer",       *)
(* lab2/ftpc.c:64).                                                        *)
FileReceivedWhole == server = "finished" => InFile = size

(* Neither waits for ever for the other, unless the client died: then the  *)
(* server may go round its loop for ever.                                  *)
StreamEnds ==
  client # "start" ~> \/ ServerEnded /\ ~ClientLives
                      \/ client = "dead"
=============================================================================
