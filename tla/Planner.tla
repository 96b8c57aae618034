------------------------------ MODULE Planner -------------------------------
(***************************************************************************)
(* From an EKF message to a solution: what MppiNode::StateCallback lets    *)
(* through, MppiController, and the warm start the optimizer keeps from    *)
(* one solve to the next.                                                  *)
(*                                                                         *)
(* MppiRuntime models how the threads hand observations over, and names    *)
(* them by their generation; here they carry the pose time and the         *)
(* measured control that the node and the controller compute with, and a   *)
(* critical section is a step.  Times are in ticks of the EKF clock.       *)
(***************************************************************************)
EXTENDS SamplingUpdate

CONSTANTS
  MaxTime,                    \* bound on the clock
  MaxEpoch,                   \* bound on reset_epoch_
  ResetCounters,              \* the values of the EKF's reset counter
  Measured,                   \* the controls the car may measure
  MaximumAge,                 \* maximum_state_age_s; 0 turns the check off
  FutureTolerance,            \* future_tolerance_s
  MaximumShift,               \* the second after which a plan is not shifted
  None                        \* an empty optional

ASSUME TimesAssumption ==
  /\ MaxTime \in Nat \ {0}
  /\ MaxEpoch \in Nat
  /\ MaximumAge \in Nat
  /\ FutureTolerance \in Nat
  /\ MaximumShift \in Nat

ASSUME MeasuredAssumption == Measured \subseteq Int

PoseTime == 1 .. MaxTime + FutureTolerance
Epoch == 0 .. MaxEpoch

\* An accepted VehicleObservation, and the epoch it was accepted in.
Observation == [pose_time : PoseTime, measured : Measured, epoch : Epoch]

\* A sequence of controls: the pose it was computed from, and the command the
\* slew limit started from.
Plan == [pose_time : PoseTime, epoch : Epoch, previous : Int, controls : Sequences]

ASSUME NoneAssumption ==
  None \notin PoseTime \cup Int \cup ResetCounters \cup Observation \cup Plan

VARIABLES
  clock,                      \* the node's clock
  node_pose_time,             \* MppiNode::previous_pose_time_ns_
  previous_reset_counter,
  latest_observation,         \* MppiRosRuntime: the observation mailbox
  waiting,                    \* observation_generation_ # solved_generation_
  reset_epoch,
  reset_requested,
  pending_published_control,
  latest_solution,
  solver_pc,                  \* solver thread: "wait", "update", "plan"
  observation,                \* the observation being solved
  previous_pose_time,         \* MppiController::previous_pose_time_ns_
  last_applied_control,
  reset_next,
  nominal,                    \* CudaMppiController: the nominal sequence
  use_measured_control_feedback   \* a switch of the configuration

nodeVars == <<clock, node_pose_time, previous_reset_counter>>
mailboxVars == <<latest_observation, waiting>>
resetVars == <<reset_epoch, reset_requested>>
solutionVars == <<pending_published_control, latest_solution>>
solverVars == <<solver_pc, observation>>
controllerVars == <<previous_pose_time, last_applied_control, reset_next>>
vars == <<nodeVars, mailboxVars, resetVars, solutionVars, solverVars,
          controllerVars, nominal, use_measured_control_feedback>>

Init ==
  /\ clock = 1
  /\ node_pose_time = None
  /\ previous_reset_counter = None
  /\ latest_observation = None
  /\ waiting = FALSE
  /\ reset_epoch = 0
  /\ reset_requested = FALSE
  /\ pending_published_control = None
  /\ latest_solution = None
  /\ solver_pc = "wait"
  /\ observation = None
  /\ previous_pose_time = None
  /\ last_applied_control = 0
  /\ reset_next = TRUE
  /\ nominal = None
  /\ use_measured_control_feedback \in BOOLEAN

Tick ==
  /\ clock < MaxTime
  /\ clock' = clock + 1
  /\ UNCHANGED <<node_pose_time, previous_reset_counter, mailboxVars, resetVars,
                 solutionVars, solverVars, controllerVars, nominal,
                 use_measured_control_feedback>>

-----------------------------------------------------------------------------
(* MppiNode::StateCallback.  A message may be late, repeated or out of     *)
(* order.                                                                  *)

ResetChanged(counter) ==
  /\ previous_reset_counter # None
  /\ previous_reset_counter # counter

\* ValidateObservationTime: neither stale nor from the future, and after the
\* previous pose unless the reset counter changed.
ObservationTimely(time, counter) ==
  /\ MaximumAge = 0 \/ clock - time <= MaximumAge
  /\ time - clock <= FutureTolerance
  /\ ~ResetChanged(counter) /\ node_pose_time # None => node_pose_time < time

\* MppiRosRuntime::Reset.
RuntimeReset ==
  /\ reset_epoch < MaxEpoch
  /\ reset_epoch' = reset_epoch + 1
  /\ reset_requested' = TRUE
  /\ pending_published_control' = None
  /\ latest_solution' = None

\* MppiRosRuntime::OnObservation, and what the node remembers of the message.
OnObservation(time, counter, measured) ==
  /\ latest_observation' =
       [pose_time |-> time, measured |-> measured, epoch |-> reset_epoch']
  /\ waiting' = TRUE
  /\ node_pose_time' = time
  /\ previous_reset_counter' = counter

\* The adapter, ValidateObservationTime or, without a reset, OnObservation throws.
RejectState == UNCHANGED vars

AcceptState(time, counter, measured) ==
  /\ ObservationTimely(time, counter)
  /\ ~ResetChanged(counter)
  /\ UNCHANGED <<resetVars, solutionVars>>
  /\ OnObservation(time, counter, measured)
  /\ UNCHANGED <<clock, solverVars, controllerVars, nominal,
                 use_measured_control_feedback>>

ResetAndAcceptState(time, counter, measured) ==
  /\ ObservationTimely(time, counter)
  /\ ResetChanged(counter)
  /\ RuntimeReset
  /\ OnObservation(time, counter, measured)
  /\ UNCHANGED <<clock, solverVars, controllerVars, nominal,
                 use_measured_control_feedback>>

\* OnObservation throws after Reset has run: a moving car without a sideslip.
\* The reset counter stays, so that the next message resets again.
ResetAndRejectState(time, counter) ==
  /\ ObservationTimely(time, counter)
  /\ ResetChanged(counter)
  /\ RuntimeReset
  /\ latest_observation' = None
  /\ waiting' = TRUE
  /\ node_pose_time' = None
  /\ UNCHANGED <<clock, previous_reset_counter, solverVars, controllerVars,
                 nominal, use_measured_control_feedback>>

StateCallback ==
  \E time \in PoseTime, counter \in ResetCounters :
    \/ \E measured \in Measured : AcceptState(time, counter, measured)
    \/ \E measured \in Measured : ResetAndAcceptState(time, counter, measured)
    \/ ResetAndRejectState(time, counter)
    \/ RejectState

-----------------------------------------------------------------------------
(* The solver thread: MppiRosRuntime::SolverWorker and SolveOnce around    *)
(* MppiController.                                                         *)

\* Faulty variant: a reset leaves nothing to take, and it is taken.
TakeAnyWaiting ==
  /\ waiting
  /\ observation' = latest_observation
  /\ waiting' = FALSE
  /\ solver_pc' = "update"

TakeWaiting ==
  /\ waiting
  /\ latest_observation # None
  /\ observation' = latest_observation
  /\ waiting' = FALSE
  /\ solver_pc' = "update"

\* RecordPublishedControl of the command taken with the observation.
RecordPublishedControl(before) ==
  last_applied_control' =
    IF pending_published_control # None THEN pending_published_control ELSE before

TakeObservation ==
  /\ solver_pc = "wait"
  /\ ~reset_requested
  /\ TakeWaiting
  /\ RecordPublishedControl(last_applied_control)
  /\ UNCHANGED <<nodeVars, latest_observation, resetVars, solutionVars,
                 previous_pose_time, reset_next, nominal,
                 use_measured_control_feedback>>

\* Faulty variant: the time of the last solve survives the reset.
TakeResetKeepsPoseTime ==
  /\ solver_pc = "wait"
  /\ reset_requested
  /\ reset_requested' = FALSE
  /\ reset_next' = TRUE
  /\ \/ TakeWaiting /\ RecordPublishedControl(0)
     \/ last_applied_control' = 0 /\ UNCHANGED <<waiting, solverVars>>
  /\ UNCHANGED <<nodeVars, latest_observation, reset_epoch, solutionVars,
                 previous_pose_time, nominal, use_measured_control_feedback>>

\* MppiController::Reset, then the observation if one is taken with it.
TakeReset ==
  /\ solver_pc = "wait"
  /\ reset_requested
  /\ reset_requested' = FALSE
  /\ previous_pose_time' = None
  /\ reset_next' = TRUE
  /\ \/ TakeWaiting /\ RecordPublishedControl(0)
     \/ last_applied_control' = 0 /\ UNCHANGED <<waiting, solverVars>>
  /\ UNCHANGED <<nodeVars, latest_observation, reset_epoch, solutionVars,
                 nominal, use_measured_control_feedback>>

\* UpdateObservation: a pose off the raceline ends the solve.
UpdateObservation ==
  /\ solver_pc = "update"
  /\ \/ solver_pc' = "plan" /\ UNCHANGED reset_next
     \/ solver_pc' = "wait" /\ reset_next' = TRUE
  /\ UNCHANGED <<nodeVars, mailboxVars, resetVars, solutionVars, observation,
                 previous_pose_time, last_applied_control, nominal,
                 use_measured_control_feedback>>

Elapsed == observation.pose_time - previous_pose_time

\* Faulty variant: a long gap shifts the plan instead of dropping it.
PlanResetsOnlyWhenTold == reset_next

\* PlanLatest: the warm start is dropped when told so and after a gap.
PlanResets ==
  \/ reset_next
  \/ previous_pose_time # None /\ (Elapsed < 0 \/ Elapsed > MaximumShift)

\* The ticks the nominal is shifted by.
Shift ==
  IF previous_pose_time = None \/ Elapsed < 0 \/ Elapsed > MaximumShift
    THEN 0 ELSE Elapsed

\* MppiController::PreviousControl.
PreviousControl ==
  IF use_measured_control_feedback THEN observation.measured
                                   ELSE last_applied_control

PlanFromPose(controls) ==
  [pose_time |-> observation.pose_time, epoch |-> observation.epoch,
   previous |-> PreviousControl, controls |-> controls]

\* The sequence the candidates are drawn around.
SampledNominal ==
  IF PlanResets THEN PlanFromPose(SeedNominal) ELSE nominal

\* CudaMppiController::Solve draws around the nominal and leaves the shifted
\* update as the next one.
Shifted(updated) == PlanFromPose(ShiftNominal(updated, Shift))

PlanLatest ==
  /\ solver_pc = "plan"
  /\ \E updated \in Updates(SampledNominal.controls, PreviousControl) :
       /\ nominal' = Shifted(updated)
       /\ latest_solution' =
            IF observation.epoch = reset_epoch
              THEN PlanFromPose(updated)
              ELSE latest_solution
  /\ previous_pose_time' = observation.pose_time
  /\ reset_next' = FALSE
  /\ solver_pc' = "wait"
  /\ UNCHANGED <<nodeVars, mailboxVars, resetVars, pending_published_control,
                 observation, last_applied_control, use_measured_control_feedback>>

\* Something throws, a CUDA call or what comes before: the nominal may have been
\* left as it was, seeded or shifted, and the controller does not remember the pose.
PlanFails ==
  /\ solver_pc = "plan"
  /\ \/ UNCHANGED nominal
     \/ nominal' = SampledNominal
     \/ \E updated \in Updates(SampledNominal.controls, PreviousControl) :
          nominal' = Shifted(updated)
  /\ solver_pc' = "wait"
  /\ UNCHANGED <<nodeVars, mailboxVars, resetVars, solutionVars, observation,
                 controllerVars, use_measured_control_feedback>>

\* ControlWorker sends the first control of the newest solution, or as much of
\* the way to it from the last one sent as the output slew limit allows.
PublishControl ==
  /\ latest_solution # None
  /\ pending_published_control' \in ControlMin .. ControlMax
  /\ UNCHANGED <<nodeVars, mailboxVars, resetVars, latest_solution, solverVars,
                 controllerVars, nominal, use_measured_control_feedback>>

Next ==
  \/ Tick
  \/ StateCallback
  \/ TakeObservation
  \/ TakeReset
  \/ UpdateObservation
  \/ PlanLatest
  \/ PlanFails
  \/ PublishControl

Spec == Init /\ [][Next]_vars

-----------------------------------------------------------------------------
(* Properties                                                              *)

\* Every variable keeps its type.
TypeOK ==
  /\ clock \in 1 .. MaxTime
  /\ node_pose_time \in PoseTime \cup {None}
  /\ previous_reset_counter \in ResetCounters \cup {None}
  /\ latest_observation \in Observation \cup {None}
  /\ waiting \in BOOLEAN
  /\ reset_epoch \in Epoch
  /\ reset_requested \in BOOLEAN
  /\ pending_published_control \in Int \cup {None}
  /\ latest_solution \in Plan \cup {None}
  /\ solver_pc \in {"wait", "update", "plan"}
  /\ observation \in Observation \cup {None}
  /\ solver_pc # "wait" => observation # None
  /\ previous_pose_time \in PoseTime \cup {None}
  /\ last_applied_control \in Int
  /\ reset_next \in BOOLEAN
  /\ nominal \in Plan \cup {None}
  /\ use_measured_control_feedback \in BOOLEAN

\* The controller never plans a pose that is not newer than the one it planned
\* before, whatever the node lost, repeated, reordered or rejected half-way:
\* the branch of PlanLatest for a negative elapsed time is never taken.
ElapsedIsPositive ==
  solver_pc = "plan" /\ previous_pose_time # None => Elapsed > 0

\* A solve that does not start afresh draws its candidates around a sequence of
\* its own EKF epoch, computed from an older pose no more than the second of
\* PlanLatest before; failed solves and projections in between included.
NominalIsRecent ==
  solver_pc = "plan" /\ ~PlanResets =>
    /\ nominal # None
    /\ nominal.epoch = observation.epoch
    /\ nominal.pose_time < observation.pose_time
    /\ observation.pose_time - nominal.pose_time <= MaximumShift

\* From a command inside the box, no step of a solution and not its first
\* control either moves by more than the slew limit: the box, the mean and
\* the shift of an earlier plan do not undo LimitControlRate.
SlewLimited ==
  latest_solution # None /\ RateStep > 0 =>
    \A t \in Time :
      LET prior == IF t = 0 THEN latest_solution.previous
                            ELSE latest_solution.controls[t - 1]
          step == latest_solution.controls[t] - prior
      IN  t > 0 \/ InBox(prior) => -RateStep <= step /\ step <= RateStep

=============================================================================
