---------------------------- MODULE FileTransfer ----------------------------
(***************************************************************************)
(* What the two daemons promise their applications: ftps receives the      *)
(* blocks ftpc sent, each once and in order, and, if the daemons and the   *)
(* network keep working, all of them.  The promise may be broken, and      *)
(* nothing is said of what happens after that.                             *)
(***************************************************************************)
EXTENDS Naturals, Sequences

CONSTANT K   \* number of blocks of the file

VARIABLES sent,      \* how many blocks ftpc has handed over
          received,  \* what ftps was given
          broken     \* the promise does not hold any more

vars == <<sent, received, broken>>

Init == sent = 0 /\ received = <<>> /\ broken = FALSE

HandOver == /\ ~broken /\ sent < K
            /\ sent' = sent + 1
            /\ UNCHANGED <<received, broken>>

(* The next n blocks come out. *)
Deliver == \E n \in 1 .. sent - Len(received) :
             /\ ~broken
             /\ received' = received \o [i \in 1 .. n |-> Len(received) + i]
             /\ UNCHANGED <<sent, broken>>

(* From here on anything may be handed over or come out. *)
Break == broken'

Next == HandOver \/ Deliver \/ Break

SafeSpec == Init /\ [][Next]_vars

Spec == SafeSpec /\ WF_vars(HandOver) /\ WF_vars(Deliver)
=============================================================================
