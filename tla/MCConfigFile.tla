---------------------------- MODULE MCConfigFile ----------------------------
(***************************************************************************)
(* Sequences of commands that start on every file of at most three lines.  *)
(***************************************************************************)
EXTENDS ConfigFile, TLC

CONSTANTS g1, g2, p1, p2, v1, v2, t1

Groups == {g1, g2}
Params == {p1, p2}
TwoValues == {v1, v2}
\* Values are interchangeable; sections and parameters are not (the template).
Interchange == Permutations(TwoValues)
OneTool == {t1}

AllFiles == UNION {[1..k -> FileLine] : k \in 0..3}
SmallTemplate == << Heading(g1), Pair(p1, NoValue), Blank >>
=============================================================================
