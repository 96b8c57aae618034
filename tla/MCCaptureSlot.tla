--------------------------- MODULE MCCaptureSlot ----------------------------
(* Instance of CaptureSlot for TLC; the .cfg files give the bounds.        *)
EXTENDS CaptureSlot
=============================================================================
