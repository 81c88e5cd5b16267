---------------------------- MODULE TimerService ----------------------------
(***************************************************************************)
(* What the driver counts on (module TcpdClient): the timer process keeps  *)
(* one timer per frame number.  A timer that was started and not cancelled *)
(* asks once for a resend, and is then no longer kept.  When is left open. *)
(***************************************************************************)
EXTENDS Naturals, Sequences

CONSTANT Ids   \* frame numbers

VARIABLES armed,   \* the frames with a timer
          fired    \* the resend requests the last step wrote, in order

Init == armed = {} /\ fired = <<>>

Start(id) == armed' = armed \cup {id} /\ fired' = <<>>

Cancel(id) == armed' = armed \ {id} /\ fired' = <<>>

(* The timers of the frames in f expire, one after the other. *)
Expire == \E F \in SUBSET armed :
            /\ armed' = armed \ F
            /\ fired' \in [1 .. Len(fired') -> F]
            /\ \A id \in F : \E i \in 1 .. Len(fired') :
                 fired'[i] = id /\ \A j \in 1 .. Len(fired') : fired'[j] = id => j = i

Next == (\E id \in Ids : Start(id) \/ Cancel(id)) \/ Expire

Spec == Init /\ [][Next]_<<armed, fired>>
=============================================================================
