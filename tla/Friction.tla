------------------------------ MODULE Friction ------------------------------
(***************************************************************************)
(* The friction estimate and the grip status of MppiRosRuntime: two        *)
(* threads that look at the newest observation on clocks of their own.     *)
(* One fits the friction coefficient and hands it to the solver; the other *)
(* compares the acceleration of the plan being applied with the measured   *)
(* one and latches a flag.                                                 *)
(*                                                                         *)
(* Accelerations are not computed here.  A filtered value is told by the   *)
(* oldest observation whose measurement is still mixed into it, and whether *)
(* the shortfall condition holds is left open where the code can come to   *)
(* either result.                                                          *)
(***************************************************************************)
EXTENDS Sequences, Integers

CONSTANTS
  MaxTime, MaxEpoch,          \* bounds on the pose time and on reset_epoch_
  MaxApplied,                 \* bound on applied_vehicle_generation_
  LatchTime,                  \* latch_time_s
  PeakWindow,                 \* peak_window_s
  LongestStep,                \* the second after which the filters start over
  Mus,                        \* friction coefficients, in steps of the grid
  NominalMu,                  \* that of vehicle.yaml
  ApplyMuMin, ApplyMuMax,     \* apply_mu_min, apply_mu_max
  Apply,                      \* mu_estimate.apply
  Threads,                    \* sets of threads that may be enabled: "grip", "mu"
  HasTires,                   \* the model predicts tire forces
  None                        \* nothing, or a value that is not finite

ASSUME TimesAssumption ==
  /\ {MaxTime, MaxEpoch, MaxApplied, LatchTime, PeakWindow, LongestStep} \subseteq Nat
  /\ LatchTime <= PeakWindow

ASSUME MuAssumption ==
  /\ Mus \subseteq Nat
  /\ {NominalMu, ApplyMuMin, ApplyMuMax} \subseteq Nat
  /\ ApplyMuMin <= ApplyMuMax

ASSUME ThreadsAssumption == Threads \subseteq SUBSET {"grip", "mu"}

ASSUME NoneAssumption == None \notin Int

VARIABLES
  enabled,                    \* grip_status.enabled, mu_estimate.enabled
  latest_observation,         \* pose time, epoch, is the lateral acceleration finite
  previous_pose_time,         \* the newest pose time of the epoch, 0 without one
  reset_epoch,
  latest_solution,            \* epoch and vehicle generation of the plan
  published_solution,
  sending,                    \* the solution a publication has in hand
  clearing,                   \* Reset has still to clear the solutions
  applied_vehicle,            \* the coefficient handed over, or None
  applied_vehicle_generation,
  solver_vehicle,             \* the coefficient the solver plans with
  solver_vehicle_generation,
  solving,                    \* the observation being solved, or None
  offered,                    \* the applied generation when it was taken
  grip_pc,                    \* grip thread: "wait", "solution", "update"
  grip_observation,
  grip_epoch,                 \* the epoch read with it
  grip_reset_epoch, grip_last_pose_time,
  monitor,                    \* GripMonitor
  mu_observation,             \* friction thread: the observation read, or None
  mu_last_pose_time, estimate, mu_applied

nodeVars == <<latest_observation, previous_pose_time, reset_epoch, clearing>>
solutionVars == <<latest_solution, published_solution, sending>>
appliedVars == <<applied_vehicle, applied_vehicle_generation>>
solverVars == <<solver_vehicle, solver_vehicle_generation, solving, offered>>
gripVars == <<grip_pc, grip_observation, grip_epoch, grip_reset_epoch,
              grip_last_pose_time, monitor>>
muVars == <<mu_observation, mu_last_pose_time, estimate, mu_applied>>
vars == <<enabled, nodeVars, solutionVars, appliedVars, solverVars, gripVars, muVars>>

\* GripMonitor::Reset.  What the monitor measured before stays in the filter.
\* `started` is history: the first observation since the monitor started over.
Unlatched(filtered) ==
  [initialized |-> FALSE, started |-> None, last_time |-> 0, measured |-> filtered,
   latched |-> FALSE, condition_time |-> 0, peak_window |-> <<>>]

Init ==
  /\ enabled \in Threads
  /\ latest_observation = None
  /\ previous_pose_time = 0
  /\ reset_epoch = 0
  /\ latest_solution = None
  /\ published_solution = None
  /\ sending = None
  /\ clearing = FALSE
  /\ applied_vehicle = None
  /\ applied_vehicle_generation = 0
  /\ solver_vehicle = NominalMu
  /\ solver_vehicle_generation = 0
  /\ solving = None
  /\ offered = 0
  /\ grip_pc = "wait"
  /\ grip_observation = None
  /\ grip_epoch = 0
  /\ grip_reset_epoch = 0
  /\ grip_last_pose_time = 0
  /\ monitor = Unlatched(None)
  /\ mu_observation = None
  /\ mu_last_pose_time = 0
  /\ estimate = None
  /\ mu_applied = None

-----------------------------------------------------------------------------
(* The state callback.                                                     *)

OnObservation ==
  /\ ~clearing
  /\ \E time \in previous_pose_time + 1 .. MaxTime, finite \in BOOLEAN :
       /\ latest_observation' =
            [pose_time |-> time, epoch |-> reset_epoch, finite |-> finite]
       /\ previous_pose_time' = time
  /\ UNCHANGED <<enabled, reset_epoch, clearing, solutionVars, appliedVars,
                 solverVars, gripVars, muVars>>

\* Reset, under worker_mutex_ ...
Reset ==
  /\ ~clearing
  /\ reset_epoch < MaxEpoch
  /\ reset_epoch' = reset_epoch + 1
  /\ latest_observation' = None
  /\ previous_pose_time' = 0
  /\ clearing' = TRUE
  /\ UNCHANGED <<enabled, solutionVars, appliedVars, solverVars, gripVars,
                 muVars>>

\* ... and under solution_mutex_.
ResetSolutions ==
  /\ clearing
  /\ clearing' = FALSE
  /\ latest_solution' = None
  /\ published_solution' = None
  /\ UNCHANGED <<enabled, latest_observation, previous_pose_time, reset_epoch,
                 sending, appliedVars, solverVars, gripVars, muVars>>

-----------------------------------------------------------------------------
(* The solver and the publication of its plans.  MppiRuntime tells when an *)
(* observation is new; here one may be solved again.                       *)

TakeObservation ==
  /\ solving = None
  /\ latest_observation # None
  /\ solving' = latest_observation
  /\ offered' = applied_vehicle_generation
  /\ UNCHANGED <<enabled, nodeVars, solutionVars, appliedVars, solver_vehicle,
                 solver_vehicle_generation, gripVars, muVars>>

\* Faulty variant: only the first coefficient is taken over.
TakesVehicleOnce ==
  IF applied_vehicle # None /\ solver_vehicle_generation = 0
    THEN /\ solver_vehicle' = applied_vehicle
         /\ solver_vehicle_generation' = applied_vehicle_generation
    ELSE UNCHANGED <<solver_vehicle, solver_vehicle_generation>>

\* SolveOnce, under applied_vehicle_mutex_.
TakesVehicle ==
  IF applied_vehicle # None /\ applied_vehicle_generation # solver_vehicle_generation
    THEN /\ solver_vehicle' = applied_vehicle
         /\ solver_vehicle_generation' = applied_vehicle_generation
    ELSE UNCHANGED <<solver_vehicle, solver_vehicle_generation>>

\* The solve; a plan of an old epoch is dropped.
Solve ==
  /\ solving # None
  /\ TakesVehicle
  /\ latest_solution' =
       IF solving.epoch = reset_epoch
         THEN [epoch |-> solving.epoch, offered |-> offered,
               vehicle |-> solver_vehicle', generation |-> solver_vehicle_generation']
         ELSE latest_solution
  /\ solving' = None
  /\ UNCHANGED <<enabled, nodeVars, published_solution, sending, appliedVars,
                 offered, gripVars, muVars>>

\* UpdateObservation throws before, or PlanLatest after the vehicle is taken over.
SolveFails ==
  /\ solving # None
  /\ TakesVehicle \/ UNCHANGED <<solver_vehicle, solver_vehicle_generation>>
  /\ solving' = None
  /\ UNCHANGED <<enabled, nodeVars, solutionVars, appliedVars, offered,
                 gripVars, muVars>>

BeginPublication ==
  /\ sending = None
  /\ latest_solution # None
  /\ sending' = latest_solution
  /\ UNCHANGED <<enabled, nodeVars, latest_solution, published_solution,
                 appliedVars, solverVars, gripVars, muVars>>

EndPublication ==
  /\ sending # None
  /\ sending' = None
  /\ published_solution' = sending
  /\ UNCHANGED <<enabled, nodeVars, latest_solution, appliedVars, solverVars,
                 gripVars, muVars>>

-----------------------------------------------------------------------------
(* GripWorker and PublishGripStatus.                                       *)

GripReadsObservation ==
  /\ "grip" \in enabled
  /\ grip_pc = "wait"
  /\ grip_observation' = latest_observation
  /\ grip_epoch' = reset_epoch
  /\ grip_pc' = "solution"
  /\ UNCHANGED <<enabled, nodeVars, solutionVars, appliedVars, solverVars,
                 grip_reset_epoch, grip_last_pose_time, monitor, muVars>>

\* Faulty variant: the epoch is remembered and the monitor goes on.
GripForgetsMonitor ==
  /\ grip_reset_epoch' = grip_epoch
  /\ UNCHANGED monitor

GripResets ==
  IF grip_epoch # grip_reset_epoch
    THEN /\ monitor' = Unlatched(monitor.measured)
         /\ grip_reset_epoch' = grip_epoch
    ELSE UNCHANGED <<monitor, grip_reset_epoch>>

\* Without an observation, a plan, or anything new there is nothing to compare.
GripReadsSolution ==
  /\ grip_pc = "solution"
  /\ GripResets
  /\ IF /\ grip_observation # None
        /\ published_solution # None
        /\ grip_observation.pose_time # grip_last_pose_time
       THEN /\ grip_last_pose_time' = grip_observation.pose_time
            /\ grip_pc' = "update"
       ELSE /\ grip_pc' = "wait"
            /\ UNCHANGED grip_last_pose_time
  /\ UNCHANGED <<enabled, nodeVars, solutionVars, appliedVars, solverVars,
                 grip_observation, grip_epoch, muVars>>

\* A long pause or a step back starts the filters over.
Restarts(time) ==
  /\ monitor.initialized
  /\ time < monitor.last_time \/ time - monitor.last_time > LongestStep

\* Faulty variant: the time of disagreement is not given up on agreement.
ConditionTimeKept(before, condition, step) ==
  IF condition # before.latched THEN before.condition_time + step
                                ELSE before.condition_time

\* How long the condition has disagreed with the latch.
ConditionTime(before, condition, step) ==
  IF condition # before.latched THEN before.condition_time + step ELSE 0

\* The loop at its end drops entries from the front, up to the first that is recent
\* enough; the newest always is.
WithinPeakWindow(window, time) ==
  LET recent == {i \in DOMAIN window : time - window[i].time <= PeakWindow}
  IN  SubSeq(window, CHOOSE i \in recent : \A j \in recent : i <= j, Len(window))

\* The first measurement since the monitor started over replaces what the filter
\* holds, if it is finite; a later one is mixed with it, and one that is not finite
\* leaves it alone.  The oldest one mixed in is None for the zero the filter begins
\* with.
Filter(before, observed) ==
  IF observed.finite /\ ~before.initialized THEN observed ELSE before.measured

\* GripMonitor::Update; an entry of the window keeps where its value comes from,
\* and the condition the update came to.
MonitorUpdate(before, observed, condition) ==
  LET time == observed.pose_time
      measured == Filter(before, observed)
      step == IF before.initialized THEN time - before.last_time ELSE 0
      held == ConditionTime(before, condition, step)
      entry == [time |-> time, epoch |-> observed.epoch, measured |-> measured,
                condition |-> condition]
  IN  [initialized |-> TRUE,
       started |-> IF before.initialized THEN before.started ELSE observed,
       last_time |-> time, measured |-> measured,
       latched |-> IF held >= LatchTime THEN condition ELSE before.latched,
       condition_time |-> IF held >= LatchTime THEN 0 ELSE held,
       peak_window |-> WithinPeakWindow(Append(before.peak_window, entry), time)]

\* Without tires the prediction is not finite and the condition is false.
GripUpdatesMonitor ==
  /\ grip_pc = "update"
  /\ LET before == IF Restarts(grip_observation.pose_time)
                     THEN Unlatched(monitor.measured) ELSE monitor
     IN  \E condition \in BOOLEAN :
           /\ condition => HasTires
           /\ monitor' = MonitorUpdate(before, grip_observation, condition)
  /\ grip_pc' = "wait"
  /\ UNCHANGED <<enabled, nodeVars, solutionVars, appliedVars, solverVars,
                 grip_observation, grip_epoch, grip_reset_epoch,
                 grip_last_pose_time, muVars>>

-----------------------------------------------------------------------------
(* MuWorker and PublishMuEstimate.  The estimator is kept across resets.   *)

MuReadsObservation ==
  /\ "mu" \in enabled
  /\ mu_observation = None
  /\ latest_observation # None
  /\ latest_observation.pose_time # mu_last_pose_time
  /\ mu_observation' = latest_observation
  /\ mu_last_pose_time' = latest_observation.pose_time
  /\ UNCHANGED <<enabled, nodeVars, solutionVars, appliedVars, solverVars,
                 gripVars, estimate, mu_applied>>

Between(a, b) == {m \in Mus : (a <= m /\ m <= b) \/ (b <= m /\ m <= a)}

\* MuEstimator::Update: a sample that passes the gates draws the weighted mean
\* towards its fit; without samples the weight may fade away.
Estimates ==
  \/ UNCHANGED estimate
  \/ estimate' = None
  \/ /\ mu_observation.finite
     /\ \E fitted \in Mus :
          estimate' \in IF estimate = None THEN {fitted} ELSE Between(estimate, fitted)

Clamped(mu) ==
  CASE mu < ApplyMuMin -> ApplyMuMin
    [] mu > ApplyMuMax -> ApplyMuMax
    [] OTHER -> mu

HandsOver(mu) ==
  /\ applied_vehicle_generation < MaxApplied
  /\ applied_vehicle' = mu
  /\ applied_vehicle_generation' = applied_vehicle_generation + 1

MuUpdates ==
  /\ mu_observation # None
  /\ Estimates
  /\ IF Apply /\ estimate' # None /\ Clamped(estimate') # mu_applied
       THEN /\ mu_applied' = Clamped(estimate')
            /\ HandsOver(Clamped(estimate'))
       ELSE UNCHANGED <<mu_applied, appliedVars>>
  /\ mu_observation' = None
  /\ UNCHANGED <<enabled, nodeVars, solutionVars, solverVars, gripVars,
                 mu_last_pose_time>>

Next ==
  \/ OnObservation
  \/ Reset
  \/ ResetSolutions
  \/ TakeObservation
  \/ Solve
  \/ SolveFails
  \/ BeginPublication
  \/ EndPublication
  \/ GripReadsObservation
  \/ GripReadsSolution
  \/ GripUpdatesMonitor
  \/ MuReadsObservation
  \/ MuUpdates

Spec == Init /\ [][Next]_vars

-----------------------------------------------------------------------------
(* Properties                                                              *)

\* A plan was made with a coefficient no older than the one on offer when its
\* observation was taken, and with the one its generation stands for: none is
\* lost in the hand-over, whichever solves failed in between.
PlanUsesFrictionOnOffer ==
  /\ latest_solution # None => latest_solution.generation >= latest_solution.offered
  /\ applied_vehicle # None /\ solver_vehicle_generation = applied_vehicle_generation =>
       solver_vehicle = applied_vehicle

\* grip_monitor.hpp:19-20: the flag turns only after the condition has held for
\* latch_time_s: no update within that time of the newest one says otherwise,
\* and in between the flag is cleared by nothing but a reset.
LatchFollowsSteadyCondition ==
  [][monitor'.latched # monitor.latched =>
       \/ ~monitor'.latched /\ (~monitor'.initialized \/ Restarts(monitor'.last_time))
       \/ \A i \in DOMAIN monitor'.peak_window :
            LET entry == monitor'.peak_window[i]
            IN  entry.time > monitor'.last_time - LatchTime =>
                  entry.condition = monitor'.latched
    ]_monitor

\* The entries of the window are of the epoch the monitor is in, and if the first
\* measurement since it started over was finite, no value in them has an older one
\* mixed in: not of an epoch before, and not of before a pause.
PeaksOfOneEpoch ==
  \A i \in DOMAIN monitor.peak_window :
    LET entry == monitor.peak_window[i]
    IN  /\ entry.epoch = grip_reset_epoch
        /\ monitor.started.finite =>
             /\ entry.measured = monitor.started
             /\ entry.measured.epoch = entry.epoch

\* "A time jump (bag restart, long pause) starts the filters over"
\* (grip_monitor.cpp:30): nothing measured before the observation that the monitor
\* started with is mixed into the peaks.
FiltersStartOver ==
  \A i \in DOMAIN monitor.peak_window :
    LET oldest == monitor.peak_window[i].measured
    IN  oldest # None =>
          /\ oldest.epoch = monitor.started.epoch
          /\ oldest.pose_time >= monitor.started.pose_time

=============================================================================
