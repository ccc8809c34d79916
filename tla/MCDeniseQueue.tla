--------------------------- MODULE MCDeniseQueue ---------------------------
(* A small instance of DeniseQueue.                                        *)
EXTENDS DeniseQueue

(* Once the queue is torn nothing is claimed: the run stops there.         *)
Untorn == ~Torn
=============================================================================
