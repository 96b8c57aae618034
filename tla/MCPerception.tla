---------------------------- MODULE MCPerception ----------------------------
(* Perception on small instances: see perception.cfg.                      *)
EXTENDS Perception
\* Within the association distance of each other, in two cells of the index.
MCPlaces == {<<2, 0>>, <<3, -1>>}
=============================================================================
