------------------------- MODULE MCRolloutKernels --------------------------
(* RolloutKernels on small instances: see rollout_kernels.cfg.             *)
EXTENDS RolloutKernels

\* Every term has a weight of its own, so that no two errors cancel.
MCWeight ==
  [shape |-> 1, crash |-> 7, sideslip_kill |-> 100, obstacle_latching |-> 300,
   control |-> 3, importance |-> 1, acceleration |-> 5, deceleration |-> 11,
   progress |-> 2]

\* A discount of one half.
MCDiscounts == [t \in 0 .. Horizon |-> 2 ^ (Horizon - t)]

State(speed, sideslip, lateral, path) ==
  [speed |-> speed, sideslip |-> sideslip, lateral |-> lateral, path |-> path]

\* At rest before the obstacle; fast at the seam of the lap; off the track and sliding.
MCInitialStates == {State(0, 0, 0, 3), State(2, 0, 1, 24), State(1, 1, 3, 10)}

Control(torque, steering) == [torque |-> torque, steering |-> steering]
MCControls == {Control(1, 0), Control(-1, -1), Control(0, 1)}
MCPreviousControl == Control(1, 1)
MCNominals == {[t \in Stages |-> Control(0, 0)], [t \in Stages |-> Control(t, -1)]}
=============================================================================
