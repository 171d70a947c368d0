----------------------------- MODULE MCKeyStore -----------------------------
(***************************************************************************)
(* Two tools, two certificates, one wallet and one export path.  No        *)
(* command compares keys, so one key is enough to follow.  All commands    *)
(* but "wallet create", which is "wallet create_wp" without a password.    *)
(***************************************************************************)
EXTENDS KeyStore, TLC

Interchange == Permutations(Tool) \cup Permutations(Cert)
RunOps == AllOps \ {"wallet_create"}
=============================================================================
