--------------------------- MODULE ReorderWindow ----------------------------
(***************************************************************************)
(* What the receiving daemon promises, whatever the network hands it: a    *)
(* window of W places ahead of the last block handed to the application.   *)
(* A block is put in a free place, at most once; blocks leave the window   *)
(* only from its front, in order and without a gap.  How many leave in a   *)
(* step is left open: this is the safety part of the promise.              *)
(***************************************************************************)
EXTENDS Integers, Sequences

CONSTANTS W, Contents, Empty

VARIABLES out,    \* the blocks handed to the application
          held    \* held[o]: the block o places after the last one in out

Init == out = <<>> /\ held = [o \in 1 .. W |-> Empty]

(* A block d arrives for place o; the n blocks at the front leave. *)
Receive(o, d) ==
  LET filled == [held EXCEPT ![o] = d]
  IN  /\ held[o] = Empty
      /\ \E n \in 0 .. W :
           /\ \A k \in 1 .. n : filled[k] # Empty
           /\ out' = out \o [k \in 1 .. n |-> filled[k]]
           /\ held' = [k \in 1 .. W |->
                         IF k + n <= W THEN filled[k + n] ELSE Empty]

Next == \E o \in 1 .. W, d \in Contents : Receive(o, d)

Spec == Init /\ [][Next]_<<out, held>>
=============================================================================
