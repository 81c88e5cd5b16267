---------------------------- MODULE MCTcpdServer ----------------------------
(* The receiving daemon among arbitrary packets, up to MaxDelivered blocks. *)
EXTENDS TcpdServer

CONSTANT MaxDelivered   \* no packet is received once this many are delivered

MCNext == Len(delivered) < MaxDelivered /\ ServerNext

MCSpec == ServerInit /\ [][MCNext]_serverVars
=============================================================================
