---------------------------- MODULE RolloutCosts ----------------------------
(***************************************************************************)
(* The cost of a rollout, as the code computes it four times over: in one  *)
(* kernel for the analytic models (RolloutAndCost), in a sequence of       *)
(* kernels around TensorRT for the learned one (module RolloutKernels), in *)
(* a kernel that splits it into terms (EvaluateCostBreakdown), and on the  *)
(* host (CostEvaluator::Evaluate).                                         *)
(*                                                                         *)
(* A state keeps what the costs branch on: speed, sideslip, lateral        *)
(* deviation and arc length, integrated by an integer stand-in for the     *)
(* dynamics.  The smooth penalties of a state are one term, "shape"; the   *)
(* three latches, the control terms and progress keep their own.           *)
(***************************************************************************)
EXTENDS Integers, FiniteSetsExt

CONSTANTS
  Horizon, Substeps,          \* horizon, integration_substeps
  Lap,                        \* length of the closed track, an odd number
  Span,                       \* search_span: how far a projection looks
  HalfWidth,                  \* |lateral deviation| the boundary allows
  PassLimit,                  \* pass_limit_s
  MaximumSideslip,            \* maximum_sideslip
  Obstacle,                   \* the obstacle's place on the lap
  LatchThreshold,             \* obstacle_latch_threshold
  MaximumSpeed,               \* above it the dynamics diverge
  Gamma,                      \* control_cost_gamma over the squared sigma
  Weight,                     \* the weight of every term
  Discounts,                  \* crash_discount ^ t, scaled to whole numbers
  NotFinite                   \* a state or a cost that is NaN or infinite

Terms == {"shape", "crash", "sideslip_kill", "obstacle_latching", "control",
          "importance", "acceleration", "deceleration", "progress"}

ASSUME SizesAssumption ==
  /\ Horizon \in Nat \ {0}
  /\ Substeps \in Nat \ {0}
  /\ Lap \in Nat
  /\ Lap % 2 = 1
  /\ Span \in Nat

ASSUME WeightAssumption ==
  /\ Gamma \in Nat
  /\ Weight \in [Terms -> Nat]
  /\ Discounts \in [0 .. Horizon -> Nat]
  /\ NotFinite \notin Int

ASSUME LimitsAssumption ==
  {HalfWidth, PassLimit, MaximumSideslip, Obstacle, LatchThreshold, MaximumSpeed}
    \subseteq Int

Stages == 0 .. Horizon - 1
Square(x) == x * x
Magnitude(x) == IF x < 0 THEN -x ELSE x

\* IEEE addition, as far as it matters here: what is not finite stays so.
Plus(a, b) == IF NotFinite \in {a, b} THEN NotFinite ELSE a + b

States == [{"speed", "sideslip", "lateral", "path"} -> Int]
ControlValues == [{"torque", "steering"} -> Int]

-----------------------------------------------------------------------------
(* Dynamics and projection.                                                *)

\* EvaluateDerivative and the learned model: a stand-in that may diverge.
Derivative(state, control) ==
  IF state = NotFinite \/ state.speed > MaximumSpeed THEN NotFinite
  ELSE [speed |-> control.torque, sideslip |-> control.steering,
        lateral |-> state.sideslip, path |-> state.speed]

\* One Euler step; the step is one unit of time.
EulerStep(state, derivative) ==
  IF NotFinite \in {state, derivative} THEN NotFinite
  ELSE [x \in {"speed", "sideslip", "lateral", "path"} |-> state[x] + derivative[x]]

\* IntegrateAnalyticStep.
IntegrateAnalyticStep(state, control) ==
  LET after[n \in 0 .. Substeps] ==
        IF n = 0 THEN state
        ELSE EulerStep(after[n - 1], Derivative(after[n - 1], control))
  IN  after[Substeps]

\* ProjectOnTrack: a place on the lap, taken on the lap nearest to the hint and
\* no farther from it than the window.
ProjectOnTrack(place, hint) ==
  LET unwrapped == place + ((2 * (hint - place) + Lap) \div (2 * Lap)) * Lap
  IN  CASE unwrapped < hint - Span -> hint - Span
        [] unwrapped > hint + Span -> hint + Span
        [] OTHER -> unwrapped

\* FrameView, path_evolution: the state's own in the Frenet frame.
PathEvolution(cartesian, state, hint) ==
  IF NotFinite \in {state, hint} THEN NotFinite
  ELSE IF cartesian THEN ProjectOnTrack(state.path % Lap, hint) ELSE state.path

\* VehicleObstacleClearance: the way to the obstacle around the lap.
Clearance(state) ==
  Magnitude(ProjectOnTrack(Obstacle, state.path) - state.path)

-----------------------------------------------------------------------------
(* StateCost.                                                              *)

NoLatches == [crashed |-> FALSE, sliding |-> FALSE, close |-> FALSE]

\* The penalties that depend on the state alone.
Shape(state) ==
  Weight["shape"] * (Square(state.speed) + Square(state.sideslip)
                       + Square(state.lateral))

\* The latches after a state; what an earlier state latched stays latched.
Latch(state, path, before, latch_violations) ==
  [crashed |-> before.crashed \/ (latch_violations /\
                 (Magnitude(state.lateral) > HalfWidth \/ path > PassLimit)),
   sliding |-> before.sliding \/ (latch_violations /\
                 Magnitude(state.sideslip) > MaximumSideslip),
   close |-> before.close \/ (latch_violations /\ Clearance(state) < LatchThreshold)]

\* Faulty variant: latching begins one step late.
LatchesLate(t) == t > 1

\* The initial state, which no control can help, latches nothing.
LatchesAt(t) == t # 0

\* The terms a state adds once its latches are known.
StateTerms(state, latches, discount) ==
  [x \in Terms |->
     CASE x = "shape" -> Shape(state)
       [] x = "crash" /\ latches.crashed -> Weight[x] * discount
       [] x = "sideslip_kill" /\ latches.sliding -> Weight[x]
       [] x = "obstacle_latching" /\ latches.close -> Weight[x]
       [] OTHER -> 0]

SumTerms(terms) ==
  terms["shape"] + terms["crash"] + terms["sideslip_kill"] + terms["obstacle_latching"]
    + terms["control"] + terms["importance"] + terms["acceleration"]
    + terms["deceleration"] + terms["progress"]

\* The cost of a state, StateCost without the breakdown.
StateCost(state, path, latches, discount) ==
  IF NotFinite \in {state, path} THEN NotFinite
  ELSE SumTerms(StateTerms(state, latches, discount))

StateLatches(state, path, before, latch_violations) ==
  IF NotFinite \in {state, path} THEN before
  ELSE Latch(state, path, before, latch_violations)

Discount(t) == Discounts[t]

\* The terms of the control at one stage: effort, smoothness and rate as one,
\* and the importance-sampling term around the nominal.
ControlCost(control, prior) ==
  Weight["control"] *
    (Square(control.torque) + Square(control.steering)
       + Square(control.torque - prior.torque)
       + Square(control.steering - prior.steering))

Importance(control, nominal) ==
  Gamma * (nominal.torque * (control.torque - nominal.torque)
             + nominal.steering * (control.steering - nominal.steering))

AccelerationCost(before, after) ==
  IF NotFinite \in {before, after} THEN NotFinite
  ELSE LET change == after.speed - before.speed
       IN  Weight[IF change >= 0 THEN "acceleration" ELSE "deceleration"]
             * Square(change)

Prior(controls, previous, t) == IF t = 0 THEN previous ELSE controls[t - 1]

-----------------------------------------------------------------------------
(* RolloutAndCost, one thread: the rollout after t steps.                  *)

RolloutStart(initial, initial_path, cartesian) ==
  [state |-> initial, path |-> PathEvolution(cartesian, initial, initial_path),
   hint |-> initial_path, latches |-> NoLatches, cost |-> 0]

RolloutStep(before, control, prior, nominal, t, cartesian) ==
  LET latches == StateLatches(before.state, before.path, before.latches, LatchesAt(t))
      state == IntegrateAnalyticStep(before.state, control)
      path == PathEvolution(cartesian, state, before.hint)
      staged == Plus(StateCost(before.state, before.path, latches, Discount(t)),
                     ControlCost(control, prior) + Importance(control, nominal))
  IN  [state |-> state, path |-> path, hint |-> path, latches |-> latches,
       cost |-> Plus(Plus(before.cost, staged), AccelerationCost(before.state, state))]

Rollout(initial, initial_path, previous, controls, nominal, cartesian) ==
  LET after[t \in 0 .. Horizon] ==
        IF t = 0 THEN RolloutStart(initial, initial_path, cartesian)
        ELSE RolloutStep(after[t - 1], controls[t - 1], Prior(controls, previous, t - 1),
                         nominal[t - 1], t - 1, cartesian)
  IN  after

\* The terminal state, and the reward for the way that was made.
RolloutCost(rollout, initial_path) ==
  LET last == rollout[Horizon]
      latches == StateLatches(last.state, last.path, last.latches, TRUE)
      total == Plus(last.cost, StateCost(last.state, last.path, latches,
                                         Discount(Horizon)))
  IN  IF last.path = NotFinite THEN NotFinite
      ELSE Plus(total, -Weight["progress"] * (last.path - initial_path))

-----------------------------------------------------------------------------
(* EvaluateCostBreakdown: the same walk over recorded states.              *)

Paths(states, initial_path, cartesian) ==
  LET path[t \in 0 .. Horizon] ==
        PathEvolution(cartesian, states[t],
                      IF t <= 1 THEN initial_path ELSE path[t - 1])
  IN  path

LatchesAlong(states, paths, latch_first) ==
  LET latches[t \in 0 .. Horizon] ==
        StateLatches(states[t], paths[t],
                     IF t = 0 THEN NoLatches ELSE latches[t - 1],
                     latch_first \/ LatchesAt(t))
  IN  latches

\* What f adds up to after each of its values.
PrefixSums(f, length) ==
  LET sum[n \in 0 .. length] == IF n = 0 THEN 0 ELSE sum[n - 1] + f[n - 1]
  IN  sum

AlongStages(f) == PrefixSums(f, Horizon)[Horizon]
AlongStates(f) == PrefixSums(f, Horizon + 1)[Horizon + 1]

\* Faulty variant: the control before the first is taken to be at rest.
BreakdownPriorFaulty(controls, previous, t) ==
  IF t = 0 THEN [torque |-> 0, steering |-> 0] ELSE controls[t - 1]

BreakdownPrior(controls, previous, t) == IF t = 0 THEN previous ELSE controls[t - 1]

CostTerms(states, initial_path, previous, controls, nominal, cartesian) ==
  LET paths == Paths(states, initial_path, cartesian)
      latches == LatchesAlong(states, paths, FALSE)
      Speeding(t) == states[t + 1].speed >= states[t].speed
      OfStates(x) ==
        AlongStates([t \in 0 .. Horizon |->
                       StateTerms(states[t], latches[t], Discount(t))[x]])
  IN  [shape |-> OfStates("shape"),
       crash |-> OfStates("crash"),
       sideslip_kill |-> OfStates("sideslip_kill"),
       obstacle_latching |-> OfStates("obstacle_latching"),
       control |->
         AlongStages([t \in Stages |->
           ControlCost(controls[t], BreakdownPrior(controls, previous, t))]),
       importance |->
         AlongStages([t \in Stages |-> Importance(controls[t], nominal[t])]),
       acceleration |->
         AlongStages([t \in Stages |->
           IF Speeding(t) THEN AccelerationCost(states[t], states[t + 1]) ELSE 0]),
       deceleration |->
         AlongStages([t \in Stages |->
           IF Speeding(t) THEN 0 ELSE AccelerationCost(states[t], states[t + 1])]),
       progress |-> -Weight["progress"] * (paths[Horizon] - initial_path)]

-----------------------------------------------------------------------------
(* CostEvaluator::Evaluate, the reference on the host: Frenet states, no   *)
(* importance term, and the first state latches too.                       *)

HostCost(states, previous, controls) ==
  LET paths == [t \in 0 .. Horizon |-> states[t].path]
      latches == LatchesAlong(states, paths, TRUE)
  IN  AlongStates([t \in 0 .. Horizon |->
                     StateCost(states[t], paths[t], latches[t], Discount(t))])
        - Weight["progress"] * (paths[Horizon] - paths[0])
        + AlongStages([t \in Stages |->
            ControlCost(controls[t], Prior(controls, previous, t))
              + AccelerationCost(states[t], states[t + 1])])

=============================================================================
