--------------------------- MODULE MCNodeService ---------------------------
(***************************************************************************)
(* Clients of the Android service: who may start the node and who may stop *)
(* it, and enough thread objects for a stop that still holds an old one.   *)
(***************************************************************************)
EXTENDS NodeNotify

CONSTANTS a1, b1, th1, th2, k1, k2

OneA == {a1}
OneB == {b1}
Threads == {th1, th2}
Clients == {k1, k2}
=============================================================================
