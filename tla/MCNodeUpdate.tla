---------------------------- MODULE MCNodeUpdate ----------------------------
(***************************************************************************)
(* Pids of 3, 5 and 7 digits for serialised starts: 3 and 5 share locked   *)
(* bytes, 3 and 7 do not (LockLen is 4).  For overlapping starts two pids  *)
(* whose locked regions intersect: one for the unit's process and one for  *)
(* a node started by hand, in either role.                                 *)
(***************************************************************************)
EXTENDS NodeUpdate

CONSTANTS p3, p5, p7

Three == {p3, p5, p7}
Two == {p3, p5}
Lengths == [p \in Three |-> CASE p = p3 -> 3 [] p = p5 -> 5 [] p = p7 -> 7]
CloseLengthsOf == [p \in Two |-> Lengths[p]]
=============================================================================
