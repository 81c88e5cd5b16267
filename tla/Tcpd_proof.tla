----------------------------- MODULE Tcpd_proof -----------------------------
(***************************************************************************)
(* The two daemons over the worst network: whatever is lost, garbled,      *)
(* duplicated, delayed or reordered, and however often timers expire       *)
(* early, for every buffer size, window and bound on the messages in       *)
(* flight, and whatever the stack held that sendbuf was made of.  The file *)
(* has no all-zero block and at most N - W blocks: a longer one wraps, and *)
(* then a late duplicate can pass for another frame (run stale).           *)
(***************************************************************************)
EXTENDS Tcpd, TcpdEnds_proof

ShortFile == /\ K <= N - W
             /\ ZeroBlocks = {}
             /\ 1 .. K \subseteq Blocks

(* The frame of slot s has reached the server. *)
Received(s) == s < Len(delivered) \/ recvbuf[s] # Empty

(* Nothing wraps: counters and slots are the same. *)
CountersAgree == /\ nsent = lfs + 1
                 /\ nread = bufpos
                 /\ nsent <= nread
                 /\ Len(delivered) = lfr + 1
                 /\ lfr + 1 <= nsent
                 /\ nsent <= lfr + 1 + W

(* A slot of the receive buffer holds its own frame, if any, and one that  *)
(* was sent.                                                               *)
HoldsOwnFrames ==
  \A s \in Slots : recvbuf[s] # Empty => recvbuf[s] = s + 1 /\ s < nsent

(* A slot of the send buffer that was filled holds its own frame until     *)
(* that has been received, then perhaps nothing.                           *)
KeepsOwnFrames ==
  \A s \in Slots : s < nread =>
    /\ sendbuf[s] \in {Empty, s + 1}
    /\ ~Received(s) => sendbuf[s] = s + 1

(* A packet holds the frame of its slot; one sent again after its          *)
(* acknowledgement may hold nothing.                                       *)
PacketsAreFrames ==
  \A p \in pkts : /\ p.seq < nsent
                  /\ p.data \in {Empty, p.seq + 1}
                  /\ p.data = Empty => Received(p.seq)

(* What is acknowledged has been received. *)
AcksAreTrue == \A a \in acks : a < nsent /\ Received(a)

TimersAreFrames == /\ \A s \in armed : s < nsent
                   /\ \A i \in 1 .. Len(resendq) : resendq[i] < nsent
                   /\ OneRequestPerFrame

TimerForFrames ==
  \A s \in Slots : s < nsent /\ ~Received(s) =>
      \/ s \in armed
      \/ \E i \in 1 .. Len(resendq) : resendq[i] = s

(* Where lar can be: it only passes what was received, unless it ran past  *)
(* all of the frames sent over slots that happen to be zero.               *)
LarIsSafe == /\ lar <= N - 2
             /\ lar >= 0 => nsent >= 1 /\ sendbuf[0] = Empty
             /\ lar <= lfs => lar <= lfr

DaemonsInv == /\ TypeOK
              /\ Inv
              /\ InOrder
              /\ CountersAgree
              /\ HoldsOwnFrames
              /\ KeepsOwnFrames
              /\ PacketsAreFrames
              /\ AcksAreTrue
              /\ TimersAreFrames
              /\ TimerForFrames
              /\ LarIsSafe
-----------------------------------------------------------------------------
(* The sizes, and the window of the receiver, which does not wrap. *)
LEMMA NoWrap ==
  ASSUME ShortFile, DaemonsInv
  PROVE  /\ N \in Nat /\ W \in Nat /\ K \in Nat
         /\ 1 <= W /\ N > 1 /\ K <= N - W
         /\ lfr \in -1 .. N - 1 - W
         /\ laf = lfr + W
         /\ lfs \in -1 .. N - 2
         /\ lar \in -1 .. N - 2
         /\ nsent \in 0 .. K /\ nread \in 0 .. K
         /\ bufpos = nread /\ lfs = nsent - 1 /\ nsent <= nread
         /\ Len(delivered) = lfr + 1 /\ lfr + 1 <= nsent
         /\ nsent <= lfr + 1 + W
<1>1. N \in Nat /\ W \in Nat /\ K \in Nat /\ 1 <= W /\ N > 1 /\ K <= N - W
  BY SizesAssumption, FileAssumption DEF ShortFile
<1>2. /\ lfr \in -1 .. N - 1 /\ lfs \in -1 .. N - 2
      /\ lar \in -1 .. N - 2 /\ nread \in 0 .. K /\ nsent \in Nat
      /\ bufpos = nread /\ nsent = lfs + 1 /\ nsent <= nread
      /\ Len(delivered) = lfr + 1 /\ lfr + 1 <= nsent
      /\ nsent <= lfr + 1 + W
      /\ laf = IF lfr + W <= N - 1 THEN lfr + W ELSE lfr + W - N
  BY <1>1 DEF DaemonsInv, TypeOK, ClientTypeOK, Inv, ServerTypeOK, LafOfLfr,
              CountersAgree, LarIsSafe
<1> QED
  BY <1>1, <1>2

LEMMA DaemonsInit == ShortFile /\ Init => DaemonsInv
<1> SUFFICES ASSUME ShortFile, Init PROVE DaemonsInv
  OBVIOUS
<1>1. ClientTypeOK /\ Inv /\ ServerTypeOK
  BY InitType, InitInv DEF Init, Inv
<1>2. TypeOK
  BY <1>1 DEF Init, TypeOK
<1>3. InOrder
  BY DEF Init, ServerInit, InOrder
<1>4. CountersAgree
  BY SizesAssumption DEF Init, ServerInit, ClientInit, CountersAgree
<1>5. HoldsOwnFrames /\ KeepsOwnFrames
  BY DEF Init, ServerInit, ClientInit, HoldsOwnFrames, KeepsOwnFrames, Slots
<1>6. PacketsAreFrames /\ AcksAreTrue
  BY DEF Init, PacketsAreFrames, AcksAreTrue
<1>7. TimersAreFrames /\ TimerForFrames
  BY DEF Init, ClientInit, TimersAreFrames, OneRequestPerFrame,
         TimerForFrames, Slots
<1>8. LarIsSafe
  <2>1. N \in Nat /\ N > 1
    BY SizesAssumption
  <2>2. lar = -1 /\ lfs = -1 /\ lfr = -1
    BY DEF Init, ClientInit, ServerInit
  <2> QED
    BY <2>1, <2>2 DEF LarIsSafe
<1> QED
  BY <1>1, <1>2, <1>3, <1>4, <1>5, <1>6, <1>7, <1>8 DEF DaemonsInv

(* The server's part of the invariant under a step of the client. *)
LEMMA ServerUntouched ==
  ASSUME DaemonsInv, UNCHANGED serverVars
  PROVE  /\ Inv' /\ ServerTypeOK' /\ InOrder'
         /\ \A s \in Slots : Received(s)' <=> Received(s)
BY DEF serverVars, DaemonsInv, Inv, ServerTypeOK, LafOfLfr, HeldInWindow,
       InWindow, FrontIsEmpty, LfrCountsDelivered, InOrder, Received

(* What changes neither the buffers nor the timers: an iteration begins or *)
(* has nothing to do, a message is lost.                                   *)
LEMMA QuietStep ==
  ASSUME DaemonsInv, ClientTypeOK',
         UNCHANGED <<bufferVars, timerVars, serverVars>>,
         pkts' \subseteq pkts, acks' \subseteq acks
  PROVE  DaemonsInv'
<1> USE DEF bufferVars, timerVars
<1>1. Inv' /\ ServerTypeOK' /\ InOrder'
  BY ServerUntouched
<1>2. TypeOK'
  BY <1>1 DEF DaemonsInv, TypeOK
<1>3. CountersAgree' /\ HoldsOwnFrames' /\ KeepsOwnFrames' /\ LarIsSafe'
  BY DEF DaemonsInv, CountersAgree, HoldsOwnFrames, KeepsOwnFrames, LarIsSafe,
         Received, serverVars
<1>4. PacketsAreFrames' /\ AcksAreTrue'
  BY DEF DaemonsInv, PacketsAreFrames, AcksAreTrue, Received, serverVars
<1>5. TimersAreFrames' /\ TimerForFrames'
  BY DEF DaemonsInv, TimersAreFrames, OneRequestPerFrame, TimerForFrames,
         Received, serverVars
<1> QED
  BY <1>1, <1>2, <1>3, <1>4, <1>5 DEF DaemonsInv

(* sendto() adds one message, or loses it. *)
LEMMA SentAdds == \A net, m : Sent(net, m) \subseteq net \cup {m}
BY DEF Sent

(* A request from the timer: the slot's contents are sent, empty only if   *)
(* the frame has been received, and the frame's timer replaces its request.*)
LEMMA ResendStep ==
  ASSUME ShortFile, DaemonsInv, DriverResend
  PROVE  DaemonsInv'
<1> USE DEF bufferVars
<1>1. /\ resendq \in Seq(Slots) /\ resendq # <<>>
      /\ armed \subseteq Slots
  BY DEF DaemonsInv, TypeOK, ClientTypeOK, DriverResend, Resend, At
<1> DEFINE h == Head(resendq)
<1>2. /\ resendq' = Tail(resendq) /\ armed' = armed \cup {h}
      /\ UNCHANGED <<bufferVars, serverVars, acks>>
      /\ pkts' \subseteq pkts \cup {ResendPacket}
  BY SentAdds DEF DriverResend, Resend
<1>3. Inv' /\ ServerTypeOK' /\ InOrder' /\ \A s \in Slots : Received(s)' <=> Received(s)
  BY <1>2, ServerUntouched
<1>4. ClientTypeOK'
  BY NextType DEF DriverResend, ClientNext, DaemonsInv, TypeOK
<1>5. /\ h \in Slots /\ h = resendq[1] /\ h < nsent
      /\ Tail(resendq) \in Seq(Slots)
      /\ Len(Tail(resendq)) = Len(resendq) - 1
      /\ \A i \in 1 .. Len(resendq) - 1 : Tail(resendq)[i] = resendq[i + 1]
  <2>1. h \in Slots /\ h = resendq[1]
    BY <1>1
  <2>2. 1 \in 1 .. Len(resendq)
    BY <1>1
  <2>3. h < nsent
    BY <2>1, <2>2 DEF DaemonsInv, TimersAreFrames
  <2> QED
    BY <1>1, <2>1, <2>3
<1>6. /\ ResendPacket.seq = h /\ ResendPacket.data = sendbuf[h]
      /\ ResendPacket \in [seq : Slots, data : BlockContents]
  BY <1>5 DEF ResendPacket, DaemonsInv, TypeOK, ClientTypeOK
<1>7. /\ sendbuf[h] \in {Empty, h + 1}
      /\ sendbuf[h] = Empty => Received(h)
  <2>1. h \in Slots /\ h < nsent
    BY <1>5
  <2>2. nsent \in Nat /\ nread \in Nat /\ nsent <= nread /\ N \in Nat
    BY NoWrap
  <2> HIDE DEF h
  <2>3. h < nread /\ h + 1 # 0
    BY <2>1, <2>2 DEF Slots
  <2> QED
    BY <2>1, <2>3 DEF DaemonsInv, KeepsOwnFrames, Empty
<1>8. TypeOK'
  BY <1>2, <1>3, <1>4, <1>6 DEF TypeOK, DaemonsInv
<1>9. CountersAgree' /\ HoldsOwnFrames' /\ KeepsOwnFrames' /\ LarIsSafe' /\ AcksAreTrue'
  BY <1>2 DEF DaemonsInv, CountersAgree, HoldsOwnFrames, KeepsOwnFrames,
              LarIsSafe, AcksAreTrue, Received, serverVars
<1>10. PacketsAreFrames'
  <2> SUFFICES ASSUME NEW p \in pkts'
               PROVE  /\ p.seq < nsent
                      /\ p.data \in {Empty, p.seq + 1}
                      /\ p.data = Empty => Received(p.seq)
    BY <1>2, <1>3, <1>8 DEF PacketsAreFrames, TypeOK
  <2>1. CASE p \in pkts
    BY <2>1 DEF DaemonsInv, PacketsAreFrames
  <2>2. CASE p = ResendPacket
    BY <2>2, <1>5, <1>6, <1>7
  <2> QED
    BY <2>1, <2>2, <1>2
<1> DEFINE q == resendq
           t == Tail(resendq)
<1>11. /\ q \in Seq(Slots) /\ Len(q) \in Nat /\ Len(q) >= 1
       /\ t = q' /\ Len(q') = Len(q) - 1
       /\ \A i \in 1 .. Len(q) - 1 : q'[i] = q[i + 1]
       /\ h = q[1]
  BY <1>1, <1>2, <1>5
<1>12. TimersAreFrames'
  <2>1. \A i \in 1 .. Len(q') : i + 1 \in 1 .. Len(q) /\ q'[i] = q[i + 1]
    BY <1>11
  <2>2. \A i \in 1 .. Len(q) : /\ q[i] < nsent /\ q[i] \notin armed
                               /\ \A j \in 1 .. i - 1 : q[j] # q[i]
    BY DEF DaemonsInv, TimersAreFrames, OneRequestPerFrame
  <2>3. \A i \in 1 .. Len(q') : q'[i] < nsent /\ q'[i] \notin armed /\ q'[i] # h
    <3> SUFFICES ASSUME NEW i \in 1 .. Len(q')
                 PROVE  q'[i] < nsent /\ q'[i] \notin armed /\ q'[i] # h
      OBVIOUS
    <3> DEFINE k == i + 1
    <3>1. k \in 1 .. Len(q) /\ q'[i] = q[k] /\ 1 \in 1 .. k - 1
      <4>1. Len(q') \in Nat
        BY <1>11
      <4> QED
        BY <2>1, <4>1
    <3> HIDE DEF k
    <3>2. q[k] < nsent /\ q[k] \notin armed /\ q[1] # q[k]
      BY <2>2, <3>1
    <3> QED
      BY <1>11, <3>1, <3>2, Zenon
  <2>4. \A i \in 1 .. Len(q') : \A j \in 1 .. i - 1 : q'[j] # q'[i]
    BY <2>1, <2>2, <1>11
  <2>5. \A s \in armed' : s < nsent
    BY <1>2, <1>5 DEF DaemonsInv, TimersAreFrames
  <2> QED
    BY <1>2, <2>3, <2>4, <2>5 DEF TimersAreFrames, OneRequestPerFrame
<1>13. TimerForFrames'
  <2> SUFFICES ASSUME NEW s \in Slots, s < nsent, ~Received(s)
               PROVE  s \in armed' \/ \E i \in 1 .. Len(q') : q'[i] = s
    BY <1>2, <1>3 DEF TimerForFrames
  <2>1. CASE s \in armed
    BY <1>2, <2>1
  <2>2. ASSUME NEW i \in 1 .. Len(q), q[i] = s, i # 1
        PROVE  \E k \in 1 .. Len(q') : q'[k] = s
    <3>1. i - 1 \in 1 .. Len(q') /\ q'[i - 1] = s
      BY <1>11, <2>2
    <3> QED
      BY <3>1
  <2>3. CASE s = q[1]
    BY <1>2, <1>11, <2>3
  <2> QED
    BY <2>1, <2>2, <2>3 DEF DaemonsInv, TimerForFrames
<1> QED
  BY <1>3, <1>8, <1>9, <1>10, <1>12, <1>13 DEF DaemonsInv

(* A timer expires: its frame goes from the list to the pipe. *)
LEMMA TimeoutStep ==
  ASSUME DaemonsInv, NEW id \in Slots, TimerExpires(id)
  PROVE  DaemonsInv'
<1> USE DEF bufferVars, netVars
<1> DEFINE q == resendq
<1>1. /\ q \in Seq(Slots) /\ Len(q) \in Nat
      /\ id \in armed
      /\ armed' = armed \ {id}
      /\ q' = Append(q, id)
      /\ UNCHANGED <<bufferVars, serverVars, pkts, acks>>
  BY DEF DaemonsInv, TypeOK, ClientTypeOK, TimerExpires, Timeout
<1>2. Inv' /\ ServerTypeOK' /\ InOrder' /\ \A s \in Slots : Received(s)' <=> Received(s)
  BY <1>1, ServerUntouched
<1>3. ClientTypeOK'
  BY NextType DEF TimerExpires, ClientNext, DaemonsInv, TypeOK
<1>4. TypeOK'
  BY <1>1, <1>2, <1>3 DEF TypeOK, DaemonsInv
<1>5. CountersAgree' /\ HoldsOwnFrames' /\ KeepsOwnFrames' /\ LarIsSafe'
  BY <1>1 DEF DaemonsInv, CountersAgree, HoldsOwnFrames, KeepsOwnFrames,
              LarIsSafe, Received, serverVars
<1>6. AcksAreTrue' /\ PacketsAreFrames'
  BY <1>1 DEF DaemonsInv, AcksAreTrue, PacketsAreFrames, Received, serverVars
<1>7. /\ Len(q') = Len(q) + 1
      /\ q'[Len(q) + 1] = id
      /\ \A i \in 1 .. Len(q) : q'[i] = q[i]
      /\ \A i \in 1 .. Len(q') : i \in 1 .. Len(q) \/ i = Len(q) + 1
  BY <1>1
<1> HIDE DEF q
<1>8. TimersAreFrames'
  <2>1. \A i \in 1 .. Len(q) : /\ q[i] < nsent /\ q[i] \notin armed
                               /\ \A j \in 1 .. i - 1 : q[j] # q[i]
    BY DEF DaemonsInv, TimersAreFrames, OneRequestPerFrame, q
  <2>2. id < nsent
    BY <1>1 DEF DaemonsInv, TimersAreFrames
  <2>3. \A i \in 1 .. Len(q') : q'[i] < nsent /\ q'[i] \notin armed'
    BY <1>1, <1>7, <2>1, <2>2
  <2>4. ASSUME NEW i \in 1 .. Len(q'), NEW j \in 1 .. i - 1
        PROVE  q'[j] # q'[i]
    <3>1. j \in 1 .. Len(q) /\ q'[j] = q[j] /\ q[j] # id
      BY <1>1, <1>7, <2>1
    <3>2. CASE i = Len(q) + 1
      BY <1>7, <3>1, <3>2
    <3>3. CASE i \in 1 .. Len(q)
      BY <1>7, <2>1, <3>1, <3>3
    <3> QED
      BY <1>7, <3>2, <3>3
  <2>5. \A s \in armed' : s < nsent
    BY <1>1 DEF DaemonsInv, TimersAreFrames
  <2> QED
    BY <1>1, <2>3, <2>4, <2>5 DEF TimersAreFrames, OneRequestPerFrame, q
<1>9. TimerForFrames'
  <2> SUFFICES ASSUME NEW s \in Slots, s < nsent, ~Received(s)
               PROVE  s \in armed' \/ \E i \in 1 .. Len(q') : q'[i] = s
    BY <1>1, <1>2 DEF TimerForFrames, q
  <2>1. CASE s = id
    <3>1. Len(q) + 1 \in 1 .. Len(q')
      BY <1>1, <1>7
    <3> QED
      BY <1>7, <2>1, <3>1
  <2>2. CASE s \in armed /\ s # id
    BY <1>1, <2>2
  <2>3. ASSUME NEW i \in 1 .. Len(q), q[i] = s
        PROVE  \E k \in 1 .. Len(q') : q'[k] = s
    <3>1. i \in 1 .. Len(q')
      BY <1>1, <1>7
    <3> QED
      BY <1>7, <2>3, <3>1
  <2> QED
    BY <2>1, <2>2, <2>3 DEF DaemonsInv, TimerForFrames, q
<1> QED
  BY <1>2, <1>4, <1>5, <1>6, <1>8, <1>9 DEF DaemonsInv

(* A block from ftpc goes to a slot beyond all that was sent. *)
LEMMA ReadStep ==
  ASSUME ShortFile, DaemonsInv, ReadFtpc, UNCHANGED <<serverVars, netVars>>
  PROVE  DaemonsInv'
<1> USE DEF netVars, timerVars
<1>1. /\ N \in Nat /\ W \in Nat /\ K \in Nat /\ 1 <= W /\ K <= N - W
      /\ nsent \in 0 .. K /\ nread \in 0 .. K
      /\ bufpos = nread /\ nsent <= nread
  BY NoWrap
<1>2. nread + 1 \in 1 .. K
  BY <1>1 DEF ReadFtpc, At, DaemonsInv, TypeOK, ClientTypeOK
<1>3. File(nread + 1) = nread + 1
  BY <1>2 DEF File, ShortFile
<1>4. /\ sendbuf \in [Slots -> BlockContents]
      /\ sendbuf' = [sendbuf EXCEPT ![nread] = nread + 1]
      /\ bufpos' = nread + 1
      /\ nread' = nread + 1
      /\ UNCHANGED <<lar, lfs, nsent, armed, resendq, serverVars, pkts, acks>>
  <2>1. bufpos' = nread + 1
    BY <1>1, <1>2 DEF ReadFtpc
  <2> QED
    BY <1>1, <1>3, <2>1 DEF ReadFtpc, DaemonsInv, TypeOK, ClientTypeOK
<1>5. Inv' /\ ServerTypeOK' /\ InOrder' /\ \A s \in Slots : Received(s)' <=> Received(s)
  BY <1>4, ServerUntouched
<1>6. ClientTypeOK'
  BY NextType DEF ClientNext, DaemonsInv, TypeOK
<1>7. TypeOK'
  BY <1>4, <1>5, <1>6 DEF TypeOK, DaemonsInv
<1>8. CountersAgree'
  BY <1>1, <1>4 DEF DaemonsInv, CountersAgree, serverVars
<1>9. HoldsOwnFrames' /\ AcksAreTrue' /\ PacketsAreFrames'
  BY <1>4 DEF DaemonsInv, HoldsOwnFrames, AcksAreTrue, PacketsAreFrames,
              Received, serverVars
<1>10. TimersAreFrames' /\ TimerForFrames'
  BY <1>4 DEF DaemonsInv, TimersAreFrames, OneRequestPerFrame, TimerForFrames,
              Received, serverVars
<1>11. KeepsOwnFrames'
  <2> SUFFICES ASSUME NEW s \in Slots, s < nread + 1
               PROVE  /\ sendbuf'[s] \in {Empty, s + 1}
                      /\ ~Received(s) => sendbuf'[s] = s + 1
    BY <1>4, <1>5 DEF KeepsOwnFrames
  <2>1. CASE s = nread
    BY <1>4, <2>1
  <2>2. CASE s # nread
    <3>1. s < nread /\ sendbuf'[s] = sendbuf[s]
      BY <1>1, <1>4, <2>2 DEF Slots
    <3> QED
      BY <3>1 DEF DaemonsInv, KeepsOwnFrames
  <2> QED
    BY <2>1, <2>2
<1>12. LarIsSafe'
  <2>1. lar >= 0 => sendbuf'[0] = sendbuf[0]
    BY <1>1, <1>4 DEF DaemonsInv, LarIsSafe, Slots
  <2> QED
    BY <1>4, <2>1 DEF DaemonsInv, LarIsSafe, serverVars
<1> QED
  BY <1>5, <1>7, <1>8, <1>9, <1>10, <1>11, <1>12 DEF DaemonsInv

(* What the test before a new frame is sent amounts to: a block for it was *)
(* read, and the receiver's window has room for it.  lar may have run past *)
(* the frames sent only if the server has all of them.                     *)
LEMMA RoomForFrame ==
  ASSUME ShortFile, DaemonsInv, RoomToSend
  PROVE  /\ nsent < nread
         /\ nsent < lfr + 1 + W
         /\ lar <= nsent => lar <= lfr
<1>1. /\ N \in Nat /\ W \in Nat /\ K \in Nat /\ 1 <= W /\ K <= N - W
      /\ lfr \in -1 .. N - 1 - W
      /\ lfs \in -1 .. N - 2
      /\ lar \in -1 .. N - 2
      /\ nsent \in 0 .. K /\ nread \in 0 .. K
      /\ bufpos = nread /\ lfs = nsent - 1 /\ nsent <= nread
  BY NoWrap
<1>2. /\ lar >= 0 => nsent >= 1
      /\ lar <= lfs => lar <= lfr
  BY DEF DaemonsInv, LarIsSafe
<1>3. CASE lfs >= lar /\ lfs - lar < W /\ (lfs + 1 < bufpos \/ bufpos <= lar)
  BY <1>1, <1>2, <1>3
<1>4. CASE lfs < lar /\ N - 1 - lar + lfs < W /\ lfs + 1 < bufpos
  BY <1>1, <1>2, <1>4
<1> QED
  BY <1>3, <1>4 DEF RoomToSend

(* The next frame is sent and its timer started. *)
LEMMA SendStep ==
  ASSUME ShortFile, DaemonsInv, DriverSend
  PROVE  DaemonsInv'
<1>1. /\ N \in Nat /\ W \in Nat /\ K \in Nat /\ 1 <= W /\ K <= N - W
      /\ lfr \in -1 .. N - 1 - W
      /\ lfs \in -1 .. N - 2
      /\ lar \in -1 .. N - 2
      /\ nsent \in 0 .. K /\ nread \in 0 .. K
      /\ bufpos = nread /\ lfs = nsent - 1 /\ nsent <= nread
      /\ Len(delivered) = lfr + 1 /\ lfr + 1 <= nsent
  BY NoWrap
<1>2. RoomToSend
  BY DEF DriverSend, SendNext
<1>3. nsent < nread /\ nsent < lfr + 1 + W /\ (lar <= nsent => lar <= lfr)
  BY <1>2, RoomForFrame
<1>4. nsent \in Slots /\ nsent = lfs + 1
  BY <1>1, <1>3 DEF Slots
<1>5. /\ armed' = armed \cup {nsent}
      /\ nsent' = nsent + 1
      /\ UNCHANGED <<sendbuf, lar, bufpos, nread, resendq, serverVars, acks>>
      /\ pkts' \subseteq pkts \cup {NextPacket}
  BY <1>4, SentAdds DEF DriverSend, SendNext
<1>6. lfs' = nsent
  <2>1. lfs + 1 # N - 1
    BY <1>1, <1>3
  <2> QED
    BY <1>4, <2>1 DEF DriverSend, SendNext
<1>7. Inv' /\ ServerTypeOK' /\ InOrder' /\ \A s \in Slots : Received(s)' <=> Received(s)
  BY <1>5, ServerUntouched
<1>8. ClientTypeOK'
  BY NextType DEF DriverSend, ClientNext, DaemonsInv, TypeOK
<1>9. ~Received(nsent)
  BY <1>1, <1>4 DEF Received, DaemonsInv, HoldsOwnFrames
<1>10. /\ NextPacket.seq = nsent
       /\ NextPacket.data = nsent + 1
       /\ NextPacket \in [seq : Slots, data : BlockContents]
  <2>1. sendbuf[nsent] = nsent + 1
    BY <1>3, <1>4, <1>9 DEF DaemonsInv, KeepsOwnFrames
  <2> QED
    BY <1>4, <2>1 DEF NextPacket, DaemonsInv, TypeOK, ClientTypeOK
<1>11. TypeOK'
  BY <1>5, <1>7, <1>8, <1>10 DEF TypeOK, DaemonsInv
<1>12. CountersAgree'
  BY <1>1, <1>3, <1>5, <1>6 DEF CountersAgree, serverVars
<1>13. HoldsOwnFrames' /\ AcksAreTrue'
  <2>1. \A s \in Slots : s < nsent => s < nsent'
    BY <1>1, <1>5 DEF Slots
  <2> QED
    BY <1>5, <1>7, <2>1 DEF DaemonsInv, TypeOK, HoldsOwnFrames, AcksAreTrue,
                            serverVars
<1>14. KeepsOwnFrames'
  BY <1>5, <1>7 DEF DaemonsInv, KeepsOwnFrames
<1>15. PacketsAreFrames'
  <2> SUFFICES ASSUME NEW p \in pkts'
               PROVE  /\ p.seq < nsent + 1
                      /\ p.data \in {Empty, p.seq + 1}
                      /\ p.data = Empty => Received(p.seq)
    BY <1>5, <1>7, <1>11 DEF PacketsAreFrames, TypeOK
  <2>1. CASE p \in pkts
    <3>1. p.seq \in Int /\ p.seq < nsent
      BY <2>1 DEF DaemonsInv, PacketsAreFrames, TypeOK, Slots
    <3> QED
      BY <1>1, <2>1, <3>1 DEF DaemonsInv, PacketsAreFrames
  <2>2. CASE p = NextPacket
    BY <1>1, <1>10, <2>2 DEF Empty
  <2> QED
    BY <2>1, <2>2, <1>5
<1>16. TimersAreFrames'
  <2>1. armed \subseteq Slots /\ resendq \in Seq(Slots)
    BY DEF DaemonsInv, TypeOK, ClientTypeOK
  <2>2. \A s \in armed' : s < nsent'
    BY <1>1, <1>5, <2>1 DEF DaemonsInv, TimersAreFrames, Slots
  <2>3. \A i \in 1 .. Len(resendq) : resendq[i] \in Int /\ resendq[i] < nsent
    <3>1. \A i \in 1 .. Len(resendq) : resendq[i] \in Slots
      BY <2>1
    <3>2. Slots \subseteq Int
      BY <1>1 DEF Slots
    <3> QED
      BY <3>1, <3>2 DEF DaemonsInv, TimersAreFrames
  <2>4. \A i \in 1 .. Len(resendq) : resendq[i] < nsent' /\ resendq[i] # nsent
    BY <1>1, <1>5, <2>3
  <2>5. \A i \in 1 .. Len(resendq) : resendq[i] \notin armed'
    BY <1>5, <2>4 DEF DaemonsInv, TimersAreFrames, OneRequestPerFrame
  <2> QED
    BY <1>5, <2>2, <2>4, <2>5
       DEF DaemonsInv, TimersAreFrames, OneRequestPerFrame
<1>17. TimerForFrames'
  <2> SUFFICES ASSUME NEW s \in Slots, s < nsent + 1, ~Received(s)
               PROVE  s \in armed' \/ \E i \in 1 .. Len(resendq) : resendq[i] = s
    BY <1>5, <1>7 DEF TimerForFrames
  <2>1. s < nsent \/ s = nsent
    BY <1>1 DEF Slots
  <2> QED
    BY <1>5, <2>1 DEF DaemonsInv, TimerForFrames
<1>18. LarIsSafe'
  <2>1. lar' = lar /\ lfr' = lfr /\ sendbuf' = sendbuf
    BY <1>5 DEF serverVars
  <2> QED
    BY <1>1, <1>3, <1>5, <1>6, <2>1 DEF DaemonsInv, LarIsSafe
<1> QED
  BY <1>7, <1>11, <1>12, <1>13, <1>14, <1>15, <1>16, <1>17, <1>18 DEF DaemonsInv

(* The first frame the server lacks is still in the send buffer, also when *)
(* a frame that was received is acknowledged.                              *)
LEMMA FirstLacking ==
  ASSUME ShortFile, DaemonsInv, NEW a \in Slots, Received(a),
         lfr + 1 < nsent
  PROVE  [sendbuf EXCEPT ![a] = Empty][lfr + 1] # Empty
<1>1. /\ N \in Nat /\ W \in Nat /\ K \in Nat /\ 1 <= W /\ K <= N - W
      /\ lfr \in -1 .. N - 1 - W
      /\ nsent \in 0 .. K /\ nread \in 0 .. K
      /\ nsent <= nread
      /\ Len(delivered) = lfr + 1
  BY NoWrap
<1> DEFINE s == lfr + 1
<1>2. s \in Slots /\ s \in Nat /\ s < nread /\ lfr < N - 1
  BY <1>1 DEF Slots
<1>3. ~Received(s)
  <2>1. recvbuf[s] = Empty
    BY <1>2 DEF DaemonsInv, Inv, FrontIsEmpty
  <2> QED
    BY <1>1, <2>1 DEF Received
<1> HIDE DEF s
<1>4. sendbuf[s] = s + 1 /\ s # a
  BY <1>2, <1>3 DEF DaemonsInv, KeepsOwnFrames
<1>5. [sendbuf EXCEPT ![a] = Empty][s] = s + 1
  BY <1>2, <1>4 DEF DaemonsInv, TypeOK, ClientTypeOK
<1>6. s + 1 # Empty
  BY <1>2 DEF Empty
<1> QED
  BY <1>5, <1>6 DEF s

(* Wherever the scan for the first block not acknowledged stops, it has    *)
(* not passed a frame that the server lacks, unless it ran past all of the *)
(* frames sent; and it does not go round to slot 0 and leave lar at N-1.   *)
LEMMA LarStops ==
  ASSUME ShortFile, DaemonsInv, NEW a \in Slots, a < nsent, Received(a),
         AdvanceLar([sendbuf EXCEPT ![a] = Empty])
  PROVE  /\ lar' <= N - 2
         /\ lar' >= 0 => [sendbuf EXCEPT ![a] = Empty][0] = Empty
         /\ lar' <= lfs => lar' <= lfr
<1> DEFINE buf == [sendbuf EXCEPT ![a] = Empty]
<1>1. /\ N \in Nat /\ W \in Nat /\ N > 1 /\ 1 <= W
      /\ lfr \in -1 .. N - 1 - W
      /\ lfs \in -1 .. N - 2
      /\ lar \in -1 .. N - 2
      /\ nsent \in Nat /\ lfs = nsent - 1
  BY NoWrap
<1>2. lfs >= 0
  BY <1>1 DEF Slots
<1>3. /\ lar >= 0 => buf[0] = Empty
      /\ lar <= lfs => lar <= lfr
  <2>1. 0 \in Slots
    BY <1>1 DEF Slots
  <2> QED
    BY <2>1 DEF DaemonsInv, LarIsSafe, TypeOK, ClientTypeOK
<1>4. lfr + 1 <= lfs => buf[lfr + 1] # Empty
  <2>1. lfr + 1 <= lfs => lfr + 1 < nsent
    BY <1>1
  <2> QED
    BY <2>1, FirstLacking
<1> HIDE DEF buf
<1>5. PICK i \in lar + 1 .. N :
        /\ \A s \in lar + 1 .. i - 1 : ~ScanStops(buf, s)
        /\ IF i < N
           THEN lar' = i - 1
           ELSE \E j \in 0 .. lfs + 1 :
                  /\ \A s \in 0 .. j - 1 : buf[s] = Empty
                  /\ j <= lfs => buf[j] # Empty
                  /\ lar' = IF j # 0 THEN j - 1 ELSE N - 1
  BY DEF AdvanceLar, buf
<1>6. \A s \in lar + 1 .. i - 1 : buf[s] = Empty
  BY <1>1, <1>5 DEF ScanStops
<1>7. i >= 1 => buf[0] = Empty
  <2>1. CASE lar >= 0
    BY <1>3, <2>1
  <2>2. CASE ~(lar >= 0)
    BY <1>1, <1>6, <2>2
  <2> QED
    BY <2>1, <2>2
<1>8. CASE i < N
  <2>1. lar' = i - 1 /\ lar' <= N - 2
    BY <1>1, <1>5, <1>8
  <2>2. lar' >= 0 => buf[0] = Empty
    BY <1>1, <1>7, <2>1
  <2>3. ASSUME lar' <= lfs, lar' > lfr PROVE FALSE
    <3>1. lfr + 1 <= i - 1 /\ lfr + 1 <= lfs /\ i - 1 <= lfs
      BY <1>1, <2>1, <2>3
    <3>2. lar <= lfr
      BY <1>1, <1>3, <1>5, <3>1
    <3>3. lfr + 1 \in lar + 1 .. i - 1
      BY <1>1, <3>1, <3>2
    <3> QED
      BY <1>4, <1>6, <3>1, <3>3
  <2> QED
    BY <1>1, <2>1, <2>2, <2>3 DEF buf
<1>9. CASE ~(i < N)
  <2>1. PICK j \in 0 .. lfs + 1 :
          /\ \A s \in 0 .. j - 1 : buf[s] = Empty
          /\ j <= lfs => buf[j] # Empty
          /\ lar' = IF j # 0 THEN j - 1 ELSE N - 1
    BY <1>5, <1>9
  <2>2. buf[0] = Empty
    BY <1>1, <1>5, <1>7, <1>9
  <2>3. j # 0
    BY <1>1, <1>2, <2>1, <2>2
  <2>4. lar' = j - 1 /\ lar' <= N - 2
    BY <1>1, <2>1, <2>3
  <2>5. ASSUME lar' > lfr PROVE FALSE
    <3>1. lfr + 1 \in 0 .. j - 1 /\ lfr + 1 <= lfs
      BY <1>1, <2>1, <2>4, <2>5
    <3> QED
      BY <1>4, <2>1, <3>1
  <2> QED
    BY <1>1, <2>2, <2>4, <2>5 DEF buf
<1> QED
  BY <1>8, <1>9

(* An acknowledgement frees a slot and stops the timer of a frame that has *)
(* been received.                                                          *)
LEMMA AckStep ==
  ASSUME ShortFile, DaemonsInv, NEW a \in Slots, DriverAck(a)
  PROVE  DaemonsInv'
<1>1. a < nsent /\ Received(a)
  BY DEF DriverAck, DaemonsInv, AcksAreTrue
<1>2. /\ armed' = armed \ {a}
      /\ sendbuf' = [sendbuf EXCEPT ![a] = Empty]
      /\ AdvanceLar([sendbuf EXCEPT ![a] = Empty])
      /\ UNCHANGED <<lfs, bufpos, nread, nsent, resendq, serverVars, pkts>>
      /\ acks' \subseteq acks
  BY DEF DriverAck, ReceiveAck, Consumed
<1>3. Inv' /\ ServerTypeOK' /\ InOrder' /\ \A s \in Slots : Received(s)' <=> Received(s)
  BY <1>2, ServerUntouched
<1>4. ClientTypeOK'
  BY NextType DEF DriverAck, ClientNext, DaemonsInv, TypeOK
<1>5. TypeOK'
  BY <1>2, <1>3, <1>4 DEF TypeOK, DaemonsInv
<1>6. CountersAgree' /\ HoldsOwnFrames' /\ PacketsAreFrames' /\ AcksAreTrue'
  BY <1>2 DEF DaemonsInv, CountersAgree, HoldsOwnFrames, PacketsAreFrames,
              AcksAreTrue, Received, serverVars
<1>7. KeepsOwnFrames'
  <2> SUFFICES ASSUME NEW s \in Slots, s < nread
               PROVE  /\ sendbuf'[s] \in {Empty, s + 1}
                      /\ ~Received(s) => sendbuf'[s] = s + 1
    BY <1>2, <1>3 DEF KeepsOwnFrames
  <2>1. sendbuf'[s] = IF s = a THEN Empty ELSE sendbuf[s]
    BY <1>2 DEF DaemonsInv, TypeOK, ClientTypeOK
  <2> QED
    BY <1>1, <2>1 DEF DaemonsInv, KeepsOwnFrames
<1>8. TimersAreFrames'
  BY <1>2 DEF DaemonsInv, TimersAreFrames, OneRequestPerFrame
<1>9. TimerForFrames'
  BY <1>1, <1>2, <1>3 DEF DaemonsInv, TimerForFrames
<1>10. LarIsSafe'
  <2>1. nsent >= 1
    BY <1>1, NoWrap DEF Slots
  <2>2. /\ lar' <= N - 2
        /\ lar' >= 0 => sendbuf'[0] = Empty
        /\ lar' <= lfs => lar' <= lfr
    BY <1>1, <1>2, LarStops
  <2> QED
    BY <1>2, <2>1, <2>2 DEF LarIsSafe, serverVars
<1> QED
  BY <1>3, <1>5, <1>6, <1>7, <1>8, <1>9, <1>10 DEF DaemonsInv

(* A packet that is stored is one of the frames the server lacks, and what *)
(* follows it without a gap is handed over: the window moves up to the     *)
(* first frame that is lacking and does not wrap.                          *)
LEMMA StoreGrows ==
  ASSUME ShortFile, DaemonsInv, NEW p \in pkts, Store(p)
  PROVE  /\ InOrder'
         /\ Len(delivered') = lfr' + 1
         /\ lfr <= lfr' /\ lfr' + 1 <= nsent
         /\ \A s \in Slots : recvbuf'[s] # Empty =>
              recvbuf'[s] = s + 1 /\ s < nsent
         /\ \A s \in Slots : Received(s) \/ s = p.seq => Received(s)'
<1>1. /\ N \in Nat /\ W \in Nat /\ K \in Nat /\ 1 <= W /\ K <= N - W
      /\ lfr \in -1 .. N - 1 - W
      /\ laf = lfr + W
      /\ nsent \in 0 .. K
      /\ Len(delivered) = lfr + 1 /\ lfr + 1 <= nsent
      /\ p.seq \in Slots
      /\ recvbuf \in [Slots -> Contents]
      /\ delivered \in Seq(Blocks)
  BY NoWrap DEF DaemonsInv, TypeOK, ServerTypeOK
<1>2. InWindow(p.seq) /\ recvbuf[p.seq] = Empty
  BY DEF Store
<1>3. p.seq < nsent /\ p.seq \in Nat
  BY <1>1 DEF DaemonsInv, PacketsAreFrames, Slots
<1>4. lfr < p.seq /\ p.seq <= laf
  BY <1>1, <1>2, <1>3 DEF InWindow
<1>5. ~Received(p.seq)
  BY <1>1, <1>2, <1>3, <1>4 DEF Received
<1>6. p.data = p.seq + 1
  BY <1>5 DEF DaemonsInv, PacketsAreFrames
<1> DEFINE buf == [recvbuf EXCEPT ![p.seq] = p.data]
<1>7. \A s \in Slots : buf[s] # Empty => buf[s] = s + 1 /\ s < nsent
  BY <1>1, <1>3, <1>6 DEF DaemonsInv, HoldsOwnFrames
<1>8. \A s \in Slots : recvbuf[s] # Empty \/ s = p.seq => buf[s] # Empty
  BY <1>1, <1>3, <1>6 DEF Empty
<1>9. SlideStraight(buf)
  BY <1>1 DEF Store, SlideToGap, SlideAround
<1> HIDE DEF buf
<1>10. PICK i \in lfr + 1 .. laf + 1 :
        /\ \A s \in lfr + 1 .. i - 1 : buf[s] # Empty
        /\ recvbuf' = Zeroed(buf, lfr + 1 .. i - 1)
        /\ delivered' = delivered \o Run(buf, lfr + 1, i - 1)
        /\ lfr' = i - 1
  <2>1. PICK i \in lfr + 1 .. laf + 1 :
           /\ IsFirstEmpty(buf, lfr + 1, laf, i)
           /\ recvbuf' = Zeroed(buf, lfr + 1 .. i - 1)
           /\ delivered' = delivered \o Run(buf, lfr + 1, i - 1)
           /\ lfr' = IF i - 1 > N - 1 THEN -1 ELSE i - 1
    BY <1>9 DEF SlideStraight
  <2>2. lfr' = i - 1
    BY <1>1, <2>1
  <2> QED
    BY <2>1, <2>2 DEF IsFirstEmpty
<1>11. \A s \in lfr + 1 .. i - 1 : s \in Slots /\ buf[s] = s + 1 /\ s < nsent
  <2>1. \A s \in lfr + 1 .. i - 1 : s \in Slots
    BY <1>1 DEF Slots
  <2> QED
    BY <1>7, <1>10, <2>1
<1>12. i <= nsent /\ i \in Nat
  <2>1. CASE i = lfr + 1
    BY <1>1, <2>1
  <2>2. CASE i # lfr + 1
    <3>1. i - 1 \in lfr + 1 .. i - 1
      BY <1>1, <2>2
    <3>2. i - 1 < nsent
      BY <1>11, <3>1
    <3> QED
      BY <1>1, <3>2
  <2> QED
    BY <2>1, <2>2
<1> DEFINE r == Run(buf, lfr + 1, i - 1)
<1>13. r = [k \in 1 .. i - (lfr + 1) |-> lfr + 1 + k]
  <2>1. (i - 1) + 1 - (lfr + 1) = i - (lfr + 1)
    BY <1>1, <1>12
  <2>2. r = [k \in 1 .. i - (lfr + 1) |-> buf[(lfr + 1) + k - 1]]
    BY <2>1 DEF Run
  <2>3. ASSUME NEW k \in 1 .. i - (lfr + 1)
        PROVE  buf[(lfr + 1) + k - 1] = lfr + 1 + k
    <3>1. (lfr + 1) + k - 1 \in lfr + 1 .. i - 1
      BY <1>1, <1>12
    <3>2. (lfr + 1) + k - 1 + 1 = lfr + 1 + k
      BY <1>1
    <3> QED
      BY <1>11, <3>1, <3>2
  <2> QED
    BY <2>2, <2>3
<1> HIDE DEF r
<1>14. /\ Len(delivered') = i
       /\ delivered' = [k \in 1 .. i |-> k]
  <2> DEFINE n == lfr + 1
             m == i - (lfr + 1)
  <2>1. n \in Nat /\ m \in Nat /\ n + m = i
    BY <1>1, <1>12
  <2>2. delivered = [k \in 1 .. n |-> k]
    BY <1>1 DEF DaemonsInv, InOrder
  <2>3. r = [k \in 1 .. m |-> n + k]
    BY <1>13
  <2>4. delivered' = delivered \o r
    BY <1>10 DEF r
  <2> HIDE DEF n, m
  <2>5. delivered \o r = [k \in 1 .. n + m |-> k]
    BY <2>1, <2>2, <2>3
  <2>6. Len([k \in 1 .. n + m |-> k]) = n + m
    BY <2>1
  <2> QED
    BY <2>1, <2>4, <2>5, <2>6
<1>15. InOrder'
  BY <1>14 DEF InOrder
<1>16. \A s \in Slots : recvbuf'[s] # Empty =>
              recvbuf'[s] = s + 1 /\ s < nsent
  BY <1>7, <1>10 DEF Zeroed
<1>17. \A s \in Slots : Received(s) \/ s = p.seq => Received(s)'
  <2> SUFFICES ASSUME NEW s \in Slots, Received(s) \/ s = p.seq
               PROVE  s < i \/ recvbuf'[s] # Empty
    BY <1>14 DEF Received
  <2>1. s \in Int
    BY <1>1 DEF Slots
  <2>2. CASE s < lfr + 1
    BY <1>1, <1>12, <2>1, <2>2
  <2>3. CASE buf[s] # Empty /\ ~(s < lfr + 1)
    <3>1. s < i \/ s \notin lfr + 1 .. i - 1
      BY <1>1, <1>12, <2>1
    <3> QED
      BY <1>10, <2>3, <3>1 DEF Zeroed
  <2> QED
    BY <1>1, <1>8, <2>2, <2>3 DEF Received
<1> QED
  BY <1>1, <1>10, <1>12, <1>14, <1>15, <1>16, <1>17

(* What is in flight to the server is one of the packets its own           *)
(* specification allows.                                                   *)
LEMMA PacketsAllowed ==
  ASSUME ShortFile, DaemonsInv, NEW p \in pkts
  PROVE  p \in Packets
<1>1. p \in [seq : Slots, data : BlockContents]
  BY DEF DaemonsInv, TypeOK
<1>2. /\ p.seq \in Slots /\ p.seq < nsent
      /\ p.data \in {Empty, p.seq + 1}
  BY <1>1 DEF DaemonsInv, PacketsAreFrames
<1>3. K \in Nat /\ N \in Nat /\ nsent \in 0 .. K
  BY NoWrap
<1>4. p.seq + 1 \in 1 .. K
  BY <1>2, <1>3 DEF Slots
<1>5. p.data \in Contents
  BY <1>2, <1>4 DEF Contents, ShortFile
<1> QED
  BY <1>1, <1>5 DEF Packets

(* A packet reaches the server, which answers it. *)
LEMMA ServerStep ==
  ASSUME ShortFile, DaemonsInv, NEW p \in pkts, ServerReceives(p)
  PROVE  DaemonsInv'
<1> USE DEF clientVars, bufferVars, timerVars
<1>1. /\ N \in Nat /\ W \in Nat /\ K \in Nat /\ 1 <= W /\ K <= N - W
      /\ lfr \in -1 .. N - 1 - W
      /\ laf = lfr + W
      /\ nsent \in 0 .. K
      /\ Len(delivered) = lfr + 1 /\ lfr + 1 <= nsent
      /\ nsent <= lfr + 1 + W
  BY NoWrap
<1>2. p \in Packets
  BY PacketsAllowed
<1>3. /\ p.seq \in Slots /\ p.seq < nsent
      /\ p.seq \in Nat
  BY <1>1, <1>2 DEF Packets, DaemonsInv, PacketsAreFrames, Slots
<1>4. /\ ReceivePacket(p)
      /\ UNCHANGED clientVars
      /\ pkts' \subseteq pkts
      /\ acks' \subseteq acks \cup {p.seq}
  BY SentAdds DEF ServerReceives, Consumed, AckOf
<1>5. Inv' /\ ServerTypeOK'
  <2>1. ServerNext
    BY <1>2, <1>4 DEF ServerNext
  <2> QED
    BY <2>1, NextInv DEF DaemonsInv, Inv
<1>6. /\ InOrder'
      /\ Len(delivered') = lfr' + 1
      /\ lfr <= lfr' /\ lfr' + 1 <= nsent
      /\ \A s \in Slots : recvbuf'[s] # Empty =>
           recvbuf'[s] = s + 1 /\ s < nsent
      /\ \A s \in Slots : Received(s) \/ s = p.seq => Received(s)'
  <2>1. CASE Store(p)
    BY <2>1, StoreGrows
  <2>2. CASE Ignore(p)
    <3>1. UNCHANGED serverVars
      BY <2>2 DEF Ignore
    <3>2. Received(p.seq)
      <4>1. CASE recvbuf[p.seq] # Empty
        BY <4>1 DEF Received
      <4>2. CASE ~InWindow(p.seq)
        <5>1. ~(p.seq > lfr /\ p.seq <= laf)
          BY <1>1, <4>2 DEF InWindow
        <5> QED
          BY <1>1, <1>3, <5>1 DEF Received
      <4> QED
        BY <2>2, <4>1, <4>2 DEF Ignore
    <3> QED
      BY <1>1, <3>1, <3>2
         DEF serverVars, DaemonsInv, InOrder, HoldsOwnFrames, Received
  <2> QED
    BY <1>4, <2>1, <2>2 DEF ReceivePacket
<1>7. TypeOK'
  BY <1>3, <1>4, <1>5 DEF DaemonsInv, TypeOK, ClientTypeOK
<1>8. CountersAgree'
  <2>1. lfr' \in Int
    BY <1>5 DEF ServerTypeOK
  <2> QED
    BY <1>1, <1>4, <1>6, <2>1 DEF DaemonsInv, CountersAgree
<1>9. HoldsOwnFrames'
  BY <1>4, <1>6 DEF HoldsOwnFrames
<1>10. KeepsOwnFrames'
  BY <1>4, <1>6 DEF DaemonsInv, KeepsOwnFrames
<1>11. PacketsAreFrames'
  <2>1. \A m \in pkts : m.seq \in Slots
    BY DEF DaemonsInv, TypeOK
  <2> QED
    BY <1>4, <1>6, <2>1 DEF DaemonsInv, PacketsAreFrames
<1>12. AcksAreTrue'
  <2>1. acks \subseteq Slots
    BY DEF DaemonsInv, TypeOK
  <2> QED
    BY <1>3, <1>4, <1>6, <2>1 DEF DaemonsInv, AcksAreTrue
<1>13. TimersAreFrames'
  BY <1>4 DEF DaemonsInv, TimersAreFrames, OneRequestPerFrame
<1>14. TimerForFrames'
  BY <1>4, <1>6 DEF DaemonsInv, TimerForFrames
<1>15. LarIsSafe'
  <2>1. lar \in Int /\ lfs \in Int /\ lfr' \in Int
    BY <1>5 DEF DaemonsInv, TypeOK, ClientTypeOK, ServerTypeOK
  <2> QED
    BY <1>1, <1>4, <1>6, <2>1 DEF DaemonsInv, LarIsSafe
<1> QED
  BY <1>5, <1>6, <1>7, <1>8, <1>9, <1>10, <1>11, <1>12, <1>13, <1>14, <1>15
     DEF DaemonsInv

LEMMA DaemonsNext == ShortFile /\ DaemonsInv /\ [Next]_vars => DaemonsInv'
<1> SUFFICES ASSUME ShortFile, DaemonsInv, [Next]_vars
             PROVE  DaemonsInv'
  OBVIOUS
<1> USE DEF netVars
<1>type. ASSUME ClientNext PROVE ClientTypeOK'
  BY <1>type, NextType DEF DaemonsInv, TypeOK
<1>1. CASE DriverSelect
  <2>1. ClientNext /\ UNCHANGED <<bufferVars, timerVars>>
    BY <1>1 DEF DriverSelect, Select, ClientNext
  <2> QED
    BY <1>1, <1>type, <2>1, QuietStep DEF DriverSelect
<1>2. CASE DriverResend
  BY <1>2, ResendStep
<1>3. CASE DriverRead
  <2>1. CASE ReadFtpc
    BY <1>3, <2>1, ReadStep DEF DriverRead
  <2>2. CASE LeaveFtpc
    <3>1. ClientNext /\ UNCHANGED <<bufferVars, timerVars>>
      BY <2>2 DEF LeaveFtpc, ClientNext
    <3> QED
      BY <1>3, <1>type, <3>1, QuietStep DEF DriverRead
  <2> QED
    BY <1>3, <2>1, <2>2 DEF DriverRead
<1>4. ASSUME NEW a \in Slots, DriverAck(a) PROVE DaemonsInv'
  BY <1>4, AckStep
<1>5. ASSUME NEW a \in Slots, DriverBadAck(a) PROVE DaemonsInv'
  <2>1. ClientNext /\ UNCHANGED <<bufferVars, timerVars>>
    BY <1>5 DEF DriverBadAck, DiscardAck, ClientNext
  <2> QED
    BY <1>5, <1>type, <2>1, QuietStep DEF DriverBadAck
<1>6. CASE DriverSend
  BY <1>6, SendStep
<1>7. CASE DriverIdle
  <2>1. ClientNext /\ UNCHANGED <<bufferVars, timerVars>>
    BY <1>7 DEF DriverIdle, NothingToSend, ClientNext
  <2> QED
    BY <1>7, <1>type, <2>1, QuietStep DEF DriverIdle
<1>8. ASSUME NEW id \in Slots, TimerExpires(id) PROVE DaemonsInv'
  BY <1>8, TimeoutStep
<1>9. ASSUME NEW p \in pkts, ServerReceives(p) PROVE DaemonsInv'
  BY <1>9, ServerStep
<1>10. ASSUME NEW p \in pkts, PacketLost(p) PROVE DaemonsInv'
  <2>1. UNCHANGED clientVars
    BY <1>10 DEF PacketLost
  <2>2. ClientTypeOK'
    BY <2>1, NextType DEF DaemonsInv, TypeOK
  <2> QED
    BY <1>10, <2>1, <2>2, QuietStep DEF PacketLost, clientVars
<1>11. CASE UNCHANGED vars
  <2>1. UNCHANGED clientVars /\ UNCHANGED serverVars /\ UNCHANGED netVars
    BY <1>11 DEF vars
  <2>2. ClientTypeOK'
    BY <2>1, NextType DEF DaemonsInv, TypeOK
  <2> QED
    BY <2>1, <2>2, QuietStep DEF clientVars
<1> QED
  BY <1>1, <1>2, <1>3, <1>4, <1>5, <1>6, <1>7, <1>8, <1>9, <1>10, <1>11
     DEF Next, Driver

(* The invariant, for a file that does not wrap. *)
THEOREM DaemonsInvariance == ASSUME ShortFile PROVE Spec => []DaemonsInv
<1>1. Init => DaemonsInv
  BY DaemonsInit
<1>2. DaemonsInv /\ [Next]_vars => DaemonsInv'
  BY DaemonsNext
<1> QED
  BY <1>1, <1>2, PTL DEF Spec

(* No slot, counter or queue entry of the two daemons leaves its range.    *)
THEOREM DaemonsType == ASSUME ShortFile PROVE Spec => []TypeOK
<1>1. DaemonsInv => TypeOK
  BY DEF DaemonsInv
<1> QED
  BY <1>1, DaemonsInvariance, PTL

(* ftps gets the blocks in order, each once, whatever the network does and *)
(* whatever the stack held that sendbuf was made of.                       *)
THEOREM DeliversInOrder == ASSUME ShortFile PROVE Spec => []InOrder
<1>1. DaemonsInv => InOrder
  BY DEF DaemonsInv
<1> QED
  BY <1>1, DaemonsInvariance, PTL

(* Frame k has slot k - 1 until the slots wrap. *)
LEMMA SlotOfFrame ==
  ASSUME ShortFile, DaemonsInv, NEW k \in 1 .. K
  PROVE  SlotOf(k) = k - 1 /\ SlotOf(k) \in Slots
<1>1. N \in Nat /\ W \in Nat /\ K \in Nat /\ 1 <= W /\ K <= N - W
  BY NoWrap
<1> DEFINE r == k - 1
<1>2. r \in 0 .. N - 1 /\ N > 0 /\ N * 0 + r = r
  BY <1>1
<1> HIDE DEF r
<1>3. (N * 0 + r) % N = r
  BY <1>1, <1>2, RemainderOf
<1>4. r % N = r
  BY <1>2, <1>3
<1> QED
  BY <1>2, <1>4 DEF SlotOf, Slots, r

(* A frame the server lacks, in the terms of the invariant. *)
LEMMA LackingSlot ==
  ASSUME ShortFile, DaemonsInv, NEW k \in 1 .. K, Lacking(k)
  PROVE  /\ SlotOf(k) = k - 1 /\ SlotOf(k) \in Slots
         /\ SlotOf(k) < nsent
         /\ ~Received(SlotOf(k))
<1>1. SlotOf(k) = k - 1 /\ SlotOf(k) \in Slots
  BY SlotOfFrame
<1>2. /\ k \in Len(delivered) + 1 .. nsent
      /\ recvbuf[SlotOf(k)] = Empty
  BY DEF Lacking
<1>3. Len(delivered) \in Nat /\ nsent \in Nat
  BY NoWrap DEF DaemonsInv, TypeOK, ServerTypeOK
<1>4. SlotOf(k) < nsent /\ ~(SlotOf(k) < Len(delivered))
  BY <1>1, <1>2, <1>3
<1> QED
  BY <1>1, <1>2, <1>4 DEF Received

(* No new frame is sent that the server would find beyond laf, although    *)
(* the sender's lar and the receiver's lfr never meet: the test before     *)
(* sending lets a frame go only if what lar has passed was received.       *)
THEOREM WindowsStayAgreed == ASSUME ShortFile PROVE Spec => []WindowsAgree
<1>1. DaemonsInv => WindowsAgree
  BY NoWrap DEF WindowsAgree
<1> QED
  BY <1>1, DaemonsInvariance, PTL

(* A frame the server lacks is never zeroed in the send buffer.            *)
THEOREM LackingIsKept == ASSUME ShortFile PROVE Spec => []KeepsWhatIsLacking
<1>1. DaemonsInv => KeepsWhatIsLacking
  <2> SUFFICES ASSUME DaemonsInv, NEW k \in 1 .. K, Lacking(k)
               PROVE  sendbuf[SlotOf(k)] = k
    BY DEF KeepsWhatIsLacking
  <2>1. /\ SlotOf(k) = k - 1 /\ SlotOf(k) \in Slots
        /\ SlotOf(k) < nsent
        /\ ~Received(SlotOf(k))
    BY LackingSlot
  <2>2. nsent \in Nat /\ nread \in Nat /\ nsent <= nread /\ k - 1 + 1 = k
    BY NoWrap
  <2>3. SlotOf(k) < nread
    BY <2>1, <2>2
  <2> QED
    BY <2>1, <2>2, <2>3 DEF DaemonsInv, KeepsOwnFrames
<1> QED
  BY <1>1, DaemonsInvariance, PTL

(* A frame the server lacks is timed, or the request to send it again is   *)
(* in the pipe.                                                            *)
THEOREM LackingIsTimed == ASSUME ShortFile PROVE Spec => []TimerForWhatIsLacking
<1>1. DaemonsInv => TimerForWhatIsLacking
  BY LackingSlot DEF TimerForWhatIsLacking, DaemonsInv, TimerForFrames
<1> QED
  BY <1>1, DaemonsInvariance, PTL

(* Never two requests for a frame in the pipe, nor one beside its timer.   *)
THEOREM OneRequest == ASSUME ShortFile PROVE Spec => []OneRequestPerFrame
<1>1. DaemonsInv => OneRequestPerFrame
  BY DEF DaemonsInv, TimersAreFrames
<1> QED
  BY <1>1, DaemonsInvariance, PTL
-----------------------------------------------------------------------------
(* The safety part of the refinement: each block comes out in its turn,    *)
(* only after ftpc has handed it over.                                     *)

LEMMA TransferInit == Init => Transfer!Init
BY DEF Init, ClientInit, ServerInit, Transfer!Init

(* A packet that is stored delivers the next blocks, or none. *)
LEMMA StoreDelivers ==
  ASSUME ShortFile, DaemonsInv, NEW p \in pkts, ServerReceives(p)
  PROVE  [Transfer!Next]_(Transfer!vars)
<1>1. UNCHANGED nread
  BY DEF ServerReceives, clientVars, bufferVars
<1>2. CASE UNCHANGED delivered
  BY <1>1, <1>2 DEF Transfer!vars
<1>3. CASE Store(p)
  <2>1. /\ Len(delivered) = lfr + 1 /\ nsent <= nread
        /\ lfr \in Int /\ lfr + 1 >= 0 /\ nread \in Nat /\ nsent \in Nat
    BY NoWrap
  <2>2. InOrder' /\ Len(delivered') = lfr' + 1 /\ lfr <= lfr' /\ lfr' + 1 <= nsent
    BY <1>3, StoreGrows
  <2>3. lfr' \in Int
    BY ServerStep DEF DaemonsInv, TypeOK, ServerTypeOK
  <2>f. PICK f \in Int : f = lfr' /\ Len(delivered') = f + 1
                        /\ lfr <= f /\ f + 1 <= nsent
    BY <2>2, <2>3, Zenon
  <2> DEFINE d == lfr + 1
             n == f - lfr
  <2>4. /\ d \in Nat /\ n \in Nat /\ Len(delivered) = d
        /\ Len(delivered') = d + n /\ n <= nread - d
    <3>1. lfr <= f /\ f + 1 <= nsent
      BY <2>f, Zenon
    <3>2. /\ d \in Nat /\ Len(delivered) = d
          /\ n \in Nat /\ f + 1 = d + n /\ n <= nread - d
      BY <2>1, <3>1
    <3> QED
      BY <2>f, <3>2, Zenon
  <2>5. /\ delivered = [i \in 1 .. d |-> i]
        /\ delivered' = [i \in 1 .. d + n |-> i]
    BY <2>2, <2>4 DEF InOrder, DaemonsInv
  <2> HIDE DEF d, n
  <2>6. delivered' = delivered \o [i \in 1 .. n |-> d + i]
    BY <2>4, <2>5
  <2>7. CASE n = 0
    <3>1. delivered' = delivered
      BY <2>4, <2>5, <2>7
    <3> QED
      BY <1>2, <3>1
  <2>8. CASE n # 0
    <3>1. n \in 1 .. nread - Len(delivered)
      BY <2>1, <2>4, <2>8
    <3>2. delivered' = delivered \o [i \in 1 .. n |-> Len(delivered) + i]
      BY <2>4, <2>6
    <3>3. Transfer!Deliver
      BY <1>1, <3>1, <3>2 DEF Transfer!Deliver
    <3> QED
      BY <3>3 DEF Transfer!Next
  <2> QED
    BY <2>7, <2>8
<1> QED
  BY <1>2, <1>3 DEF ServerReceives, ReceivePacket, Ignore, serverVars

LEMMA TransferNext ==
  ShortFile /\ DaemonsInv /\ [Next]_vars => [Transfer!Next]_(Transfer!vars)
<1> SUFFICES ASSUME ShortFile, DaemonsInv, [Next]_vars
             PROVE  [Transfer!Next]_(Transfer!vars)
  OBVIOUS
<1> USE DEF netVars, serverVars, clientVars, bufferVars
<1>1. CASE ReadFtpc /\ UNCHANGED serverVars
  <2>1. nread < K
    BY <1>1 DEF ReadFtpc, At, DaemonsInv, TypeOK, ClientTypeOK
  <2> QED
    BY <1>1, <2>1 DEF ReadFtpc, Transfer!Next, Transfer!HandOver
<1>2. ASSUME NEW p \in pkts, ServerReceives(p)
      PROVE  [Transfer!Next]_(Transfer!vars)
  BY <1>2, StoreDelivers
<1>3. CASE UNCHANGED <<nread, delivered>>
  BY <1>3 DEF Transfer!vars
<1>4. CASE DriverSelect \/ DriverResend \/ DriverSend \/ DriverIdle
  BY <1>3, <1>4 DEF DriverSelect, Select, DriverResend, Resend, DriverSend,
                    SendNext, DriverIdle, NothingToSend
<1>5. CASE DriverRead
  BY <1>1, <1>3, <1>5 DEF DriverRead, LeaveFtpc
<1>6. ASSUME NEW a \in Slots, DriverAck(a) \/ DriverBadAck(a)
      PROVE  [Transfer!Next]_(Transfer!vars)
  BY <1>3, <1>6 DEF DriverAck, ReceiveAck, DriverBadAck, DiscardAck
<1>7. ASSUME NEW id \in Slots, TimerExpires(id)
      PROVE  [Transfer!Next]_(Transfer!vars)
  BY <1>3, <1>7 DEF TimerExpires, Timeout
<1>8. ASSUME NEW p \in pkts, PacketLost(p)
      PROVE  [Transfer!Next]_(Transfer!vars)
  BY <1>3, <1>8 DEF PacketLost
<1>9. CASE UNCHANGED vars
  BY <1>3, <1>9 DEF vars
<1> QED
  BY <1>2, <1>4, <1>5, <1>6, <1>7, <1>8, <1>9 DEF Next, Driver

(* The daemons implement the safety of the transfer: what ftps is given is *)
(* at every moment a prefix of what ftpc handed over, extended only by the *)
(* blocks that follow.                                                     *)
THEOREM TransferIsSafe == ASSUME ShortFile PROVE Spec => Transfer!SafeSpec
<1>1. Init => Transfer!Init
  BY TransferInit
<1>2. DaemonsInv /\ [Next]_vars => [Transfer!Next]_(Transfer!vars)
  BY TransferNext
<1> QED
  BY <1>1, <1>2, DaemonsInvariance, PTL DEF Spec, Transfer!SafeSpec
=============================================================================
