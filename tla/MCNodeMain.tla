----------------------------- MODULE MCNodeMain -----------------------------
(***************************************************************************)
(* All configurations; the event loop ends with success, an error of       *)
(* either sign, or the first code whose tenfold is a multiple of 256.      *)
(***************************************************************************)
EXTENDS NodeMain

MCLoopCodes == {0, 1, -1, 128}
=============================================================================
