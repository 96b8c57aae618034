----------------------------- MODULE MCPlanner ------------------------------
(* Planner on small instances: see planner.cfg.                            *)
EXTENDS Planner
MCControlMin == -1
MCNoise == {-2, 1}
MCMeasured == {-3, 0}
=============================================================================
