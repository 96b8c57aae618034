------------------------- MODULE MCObstaclePipeline -------------------------
(* Instance of ObstaclePipeline for TLC; the .cfg files give the bounds.   *)
EXTENDS ObstaclePipeline
=============================================================================
