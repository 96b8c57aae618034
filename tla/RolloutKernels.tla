--------------------------- MODULE RolloutKernels ---------------------------
(***************************************************************************)
(* The kernels CudaMppiController::Solve puts on its stream between the    *)
(* candidates and the capture.  With an analytic model one kernel rolls    *)
(* out every sample; with the learned one TensorRT sits between the stage  *)
(* kernels, so that everything a rollout carries from step to step lives   *)
(* in arrays.  Then the costs become weights, and the heaviest rollouts    *)
(* are picked for visualization.  A kernel is a step for all samples.      *)
(***************************************************************************)
EXTENDS RolloutCosts, Sequences

CONSTANTS
  SampleCount,                \* num_samples
  InitialStates,              \* the states a solve may start from
  Controls,                   \* the controls a candidate may hold
  Nominals,                   \* the nominal sequences
  PreviousControl,            \* previous_control
  Underflow,                  \* cost, in lambdas, at which a weight is zero
  Lambda,                     \* lambda
  SelectCount                 \* rollouts picked for visualization

ASSUME SamplesAssumption ==
  /\ SampleCount \in Nat \ {0}
  /\ SelectCount \in 1 .. SampleCount
  /\ Underflow \in Nat \ {0}
  /\ Lambda \in Nat \ {0}

\* The controller checks the observation a solve starts from, and candidates are
\* put in the box of the controls.
ASSUME StatesAssumption ==
  \A state \in InitialStates : state # NotFinite /\ state \in States

ASSUME ControlsAssumption ==
  /\ Controls \subseteq ControlValues
  /\ Nominals \subseteq [Stages -> ControlValues]
  /\ PreviousControl \in ControlValues

Samples == 0 .. SampleCount - 1

VARIABLES
  cartesian,                  \* frame: FrameKind::kCartesian
  neural,                     \* model_kind: kTensorRtNeuralDerivative
  initial_state,
  nominal,
  candidates,
  kernel,                     \* the kernel to be run next
  time_index, substep,
  current_states,             \* neural_states_
  model_input,                \* neural_input_: state and control of a sample
  derivatives,                \* neural_derivative_
  trajectories,
  costs,
  latches,                    \* crash_latches_, sideslip_, obstacle_latches_
  path_s_hint,
  weights,
  selected                    \* the picks so far, heaviest first

inputVars == <<cartesian, neural, initial_state, nominal, candidates>>
loopVars == <<kernel, time_index, substep>>
modelVars == <<current_states, model_input, derivatives>>
costVars == <<trajectories, costs, latches, path_s_hint>>
pickVars == <<weights, selected>>
vars == <<inputVars, loopVars, modelVars, costVars, pickVars>>

InitialPath == initial_state.path

Init ==
  /\ cartesian \in BOOLEAN
  /\ neural \in BOOLEAN
  /\ initial_state \in InitialStates
  /\ nominal \in Nominals
  /\ candidates \in [Samples -> [Stages -> Controls]]
  /\ kernel = "rollout"
  /\ time_index = 0
  /\ substep = 0
  /\ current_states = [k \in Samples |-> NotFinite]
  /\ model_input = [k \in Samples |-> NotFinite]
  /\ derivatives = [k \in Samples |-> NotFinite]
  /\ trajectories = [k \in Samples |-> <<>>]
  /\ costs = [k \in Samples |-> 0]
  /\ latches = [k \in Samples |-> NoLatches]
  /\ path_s_hint = [k \in Samples |-> 0]
  /\ weights = [k \in Samples |-> 0]
  /\ selected = <<>>

-----------------------------------------------------------------------------
(* Rollouts and their costs.                                               *)

SampleRollout(k) ==
  Rollout(initial_state, InitialPath, PreviousControl, candidates[k], nominal,
          cartesian)

RolloutAndCost ==
  /\ kernel = "rollout"
  /\ ~neural
  /\ trajectories' =
       [k \in Samples |-> [t \in 0 .. Horizon |-> SampleRollout(k)[t].state]]
  /\ costs' = [k \in Samples |-> RolloutCost(SampleRollout(k), InitialPath)]
  /\ kernel' = "weigh"
  /\ UNCHANGED <<inputVars, time_index, substep, modelVars, latches, path_s_hint,
                 pickVars>>

InitializeNeuralRollouts ==
  /\ kernel = "rollout"
  /\ neural
  /\ current_states' = [k \in Samples |-> initial_state]
  /\ path_s_hint' = [k \in Samples |-> InitialPath]
  /\ trajectories' = [k \in Samples |-> [t \in 0 .. 0 |-> initial_state]]
  /\ costs' = [k \in Samples |-> 0]
  /\ latches' = [k \in Samples |-> NoLatches]
  /\ kernel' = "stage"
  /\ UNCHANGED <<inputVars, time_index, substep, model_input, derivatives, pickVars>>

Packed ==
  [k \in Samples |-> [state |-> current_states[k],
                      control |-> candidates[k][time_index]]]

NewHints ==
  [k \in Samples |-> PathEvolution(cartesian, current_states[k], path_s_hint[k])]

NewLatches(latch_violations) ==
  [k \in Samples |->
     StateLatches(current_states[k], NewHints[k], latches[k], latch_violations)]

\* Faulty variant: latches are not written back.
NeuralStageForgetsLatches ==
  /\ kernel = "stage"
  /\ path_s_hint' = NewHints
  /\ costs' =
       [k \in Samples |->
          Plus(costs[k],
               Plus(StateCost(current_states[k], NewHints[k],
                              NewLatches(LatchesAt(time_index))[k], Discount(time_index)),
                    ControlCost(candidates[k][time_index],
                                Prior(candidates[k], PreviousControl, time_index))
                      + Importance(candidates[k][time_index], nominal[time_index])))]
  /\ model_input' = Packed
  /\ kernel' = "infer"
  /\ UNCHANGED <<inputVars, time_index, substep, current_states, derivatives,
                 trajectories, latches, pickVars>>

NeuralStageCostAndPack ==
  /\ kernel = "stage"
  /\ path_s_hint' = NewHints
  /\ latches' = NewLatches(LatchesAt(time_index))
  /\ costs' =
       [k \in Samples |->
          Plus(costs[k],
               Plus(StateCost(current_states[k], NewHints[k], latches'[k],
                              Discount(time_index)),
                    ControlCost(candidates[k][time_index],
                                Prior(candidates[k], PreviousControl, time_index))
                      + Importance(candidates[k][time_index], nominal[time_index])))]
  /\ model_input' = Packed
  /\ kernel' = "infer"
  /\ UNCHANGED <<inputVars, time_index, substep, current_states, derivatives,
                 trajectories, pickVars>>

PackNeuralInputs ==
  /\ kernel = "pack"
  /\ model_input' = Packed
  /\ kernel' = "infer"
  /\ UNCHANGED <<inputVars, time_index, substep, current_states, derivatives,
                 costVars, pickVars>>

\* TensorRtDerivativeModel::InferAsync, on the same stream.
InferAsync ==
  /\ kernel = "infer"
  /\ derivatives' =
       [k \in Samples |-> Derivative(model_input[k].state, model_input[k].control)]
  /\ kernel' = "integrate"
  /\ UNCHANGED <<inputVars, time_index, substep, current_states, model_input,
                 costVars, pickVars>>

\* NeuralIntegrateAndStore; the last substep stores the state and pays for the
\* acceleration since the one stored before.
NeuralIntegrateAndStore ==
  /\ kernel = "integrate"
  /\ current_states' =
       [k \in Samples |-> EulerStep(current_states[k], derivatives[k])]
  /\ IF substep + 1 = Substeps
       THEN /\ trajectories' =
                 [k \in Samples |-> [t \in 0 .. time_index + 1 |->
                    IF t <= time_index THEN trajectories[k][t] ELSE current_states'[k]]]
            /\ costs' =
                 [k \in Samples |->
                    Plus(costs[k], AccelerationCost(trajectories[k][time_index],
                                                    current_states'[k]))]
            /\ substep' = 0
            /\ time_index' = time_index + 1
            /\ kernel' = IF time_index + 1 = Horizon THEN "finalize" ELSE "stage"
       ELSE /\ substep' = substep + 1
            /\ kernel' = "pack"
            /\ UNCHANGED <<trajectories, costs, time_index>>
  /\ UNCHANGED <<inputVars, model_input, derivatives, latches, path_s_hint, pickVars>>

\* FinalizeNeuralCosts: the terminal state and the progress.
FinalizeNeuralCosts ==
  /\ kernel = "finalize"
  /\ costs' =
       [k \in Samples |->
          Plus(Plus(costs[k],
                    StateCost(current_states[k], NewHints[k], NewLatches(TRUE)[k],
                              Discount(Horizon))),
               IF NewHints[k] = NotFinite THEN NotFinite
                 ELSE -Weight["progress"] * (NewHints[k] - InitialPath))]
  /\ kernel' = "weigh"
  /\ UNCHANGED <<inputVars, time_index, substep, modelVars, trajectories, latches,
                 path_s_hint, pickVars>>

-----------------------------------------------------------------------------
(* Weights and selection.                                                  *)

\* PrepareReductionInputs and the reductions.
FiniteCosts == {costs[k] : k \in Samples} \ {NotFinite}

\* exp(-(cost - minimum) / lambda), a falling function that ends in zero.
Softmax(excess) ==
  IF excess \div Lambda >= Underflow THEN 0 ELSE Underflow - excess \div Lambda

\* Faulty variant: a rollout that diverged takes the least cost.
SanitizedToLeast(k) ==
  IF FiniteCosts = {} THEN 0
  ELSE IF costs[k] = NotFinite THEN Min(FiniteCosts) ELSE costs[k]

\* A rollout that diverged takes the worst finite cost.
Sanitized(k) ==
  IF FiniteCosts = {} THEN 0
  ELSE IF costs[k] = NotFinite THEN Max(FiniteCosts) ELSE costs[k]

\* ComputeUnnormalizedWeights; dividing by the sum keeps the order.
ComputeWeights ==
  /\ kernel = "weigh"
  /\ costs' = [k \in Samples |-> Sanitized(k)]
  /\ weights' =
       [k \in Samples |->
          IF FiniteCosts = {} THEN 1
          ELSE Softmax(Sanitized(k) - Min(FiniteCosts))]
  /\ kernel' = "select"
  /\ UNCHANGED <<inputVars, time_index, substep, modelVars, trajectories, latches,
                 path_s_hint, selected>>

RanksBefore(a, b) ==
  \/ weights[a] > weights[b]
  \/ weights[a] = weights[b] /\ a < b

\* What the next round may pick, after the previous pick in that order.
Eligible(k, last) == last = SampleCount \/ RanksBefore(last, k)

\* SelectHeaviestRollouts, one round.  With nothing to pick the index would stay
\* at num_samples.
SelectHeaviest ==
  /\ kernel = "select"
  /\ Len(selected) < SelectCount
  /\ LET last == IF selected = <<>> THEN SampleCount ELSE selected[Len(selected)]
         eligible == {k \in Samples : Eligible(k, last)}
         best == {k \in eligible : \A j \in eligible \ {k} : RanksBefore(k, j)}
     IN  selected' =
           Append(selected, IF best = {} THEN SampleCount ELSE Min(best))
  /\ UNCHANGED <<inputVars, loopVars, modelVars, costVars, weights>>

\* The stream has run dry.
Finished ==
  /\ kernel = "select"
  /\ Len(selected) = SelectCount
  /\ UNCHANGED vars

Next ==
  \/ RolloutAndCost
  \/ InitializeNeuralRollouts
  \/ NeuralStageCostAndPack
  \/ PackNeuralInputs
  \/ InferAsync
  \/ NeuralIntegrateAndStore
  \/ FinalizeNeuralCosts
  \/ ComputeWeights
  \/ SelectHeaviest
  \/ Finished

Spec == Init /\ [][Next]_vars

-----------------------------------------------------------------------------
(* Properties                                                              *)

Diverged(k) == NotFinite \in {trajectories[k][t] : t \in 0 .. Horizon}

\* The kernels around TensorRT leave every sample with the trajectory and the
\* cost that the one kernel of the analytic models computes, latches, discount,
\* hints and substeps included.
KernelsAgree ==
  kernel = "weigh" =>
    \A k \in Samples :
      /\ trajectories[k] = [t \in 0 .. Horizon |-> SampleRollout(k)[t].state]
      /\ costs[k] = RolloutCost(SampleRollout(k), InitialPath)

\* types.hpp:267: the terms of the breakdown sum exactly to the cost the solver
\* gave the trajectory they are measured on.
BreakdownSumsToCost ==
  kernel = "weigh" =>
    \A k \in Samples :
      ~Diverged(k) =>
        costs[k] = SumTerms(CostTerms(trajectories[k], InitialPath, PreviousControl,
                                      candidates[k], nominal, cartesian))

\* No step is longer than a projection on the track can follow.
Followed(states) ==
  \A t \in Stages :
    LET way == Magnitude(states[t + 1].path - states[t].path)
    IN  way <= Span /\ 2 * way < Lap

\* Where the nominal is at rest and the first state violates nothing, the host's
\* evaluator gives the same cost as the kernels, in the Cartesian frame as long
\* as the projection can follow; where the first state does violate something,
\* the kernels, which never latch it, charge no more.
HostAgreesFromCleanStart ==
  kernel = "weigh" /\ (\A t \in Stages : nominal[t] = [torque |-> 0, steering |-> 0]) =>
    \A k \in Samples :
      ~Diverged(k) /\ (cartesian => Followed(trajectories[k])) =>
        LET host == HostCost(trajectories[k], PreviousControl, candidates[k])
            clean == Latch(initial_state, InitialPath, NoLatches, TRUE) = NoLatches
        IN  costs[k] <= host /\ (clean => costs[k] = host)

\* The rollouts picked for visualization are all different and none left out
\* weighs more; one that diverged goes before one that did not only when the
\* two are level.
PicksAreBest ==
  \A i \in DOMAIN selected :
    /\ selected[i] \in Samples
    /\ \A j \in 1 .. i - 1 : selected[j] # selected[i]
    /\ \A j \in Samples \ {selected[n] : n \in 1 .. i} :
         /\ weights[j] <= weights[selected[i]]
         /\ Diverged(selected[i]) /\ ~Diverged(j) => weights[j] = weights[selected[i]]

=============================================================================
