---------------------------- MODULE MCMacInstall ----------------------------
(***************************************************************************)
(* Two tools and the postinstall script of macOS on one network.           *)
(***************************************************************************)
EXTENDS MacInstall, TLC

CONSTANTS n1, t1, t2

OneNet == {n1}
TwoTools == {t1, t2}
\* The tools are interchangeable in every property.
Interchange == Permutations(TwoTools)

AllOps == OpNames
=============================================================================
