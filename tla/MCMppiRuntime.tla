--------------------------- MODULE MCMppiRuntime ----------------------------
(* Instance of MppiRuntime for TLC; the .cfg files give the bounds.        *)
EXTENDS MppiRuntime
=============================================================================
