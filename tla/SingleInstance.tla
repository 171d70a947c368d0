--------------------------- MODULE SingleInstance ---------------------------
(***************************************************************************)
(* What the single-instance check promises to the rest of the node: at any *)
(* moment nobody or one process owns the node's directory, and it changes  *)
(* hands only through nobody.  How a start is refused, and what the pid    *)
(* file holds, is not visible here.                                        *)
(***************************************************************************)
CONSTANT Proc       \* the processes that may own the directory
VARIABLE owners     \* the processes past the check

Init == owners = {}

\* A process gets past the check.
Acquire(p) == owners = {} /\ owners' = {p}

\* The owner ends, by itself or with the host.
Release == owners # {} /\ owners' = {}

Next == (\E p \in Proc : Acquire(p)) \/ Release

Spec == Init /\ [][Next]_owners
=============================================================================
