--------------------------- MODULE MCNetworkConfig ---------------------------
(***************************************************************************)
(* One tool on one network, for what the documentation of its commands     *)
(* says of them.                                                           *)
(***************************************************************************)
EXTENDS NetworkConfig

CONSTANTS n1, t1

OneNet == {n1}
OneTool == {t1}

DefaultOps == {"default", "ensure", "tmpl_default"}
=============================================================================
