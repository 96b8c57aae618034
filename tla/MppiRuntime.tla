---------------------------- MODULE MppiRuntime -----------------------------
(***************************************************************************)
(* MppiRosRuntime: the path from an accepted EKF state to a command, and   *)
(* the EKF reset that cuts across it.                                      *)
(*                                                                         *)
(* Three threads share it.  The state callback replaces the one-element    *)
(* observation mailbox and, when the EKF reset counter changes, runs       *)
(* Reset, which is three critical sections under three mutexes.  The       *)
(* solver thread takes the newest observation, updates the controller      *)
(* outside any lock and installs the solution.  The control thread takes   *)
(* the newest solution, sends it outside any lock and records what it      *)
(* sent, so that the next solve starts from it.  One action here is one    *)
(* critical section, or one stretch of code between two of them.           *)
(*                                                                         *)
(* An observation is named by its generation and by the EKF epoch it was   *)
(* measured in; a solution and a command by those of the observation they  *)
(* were computed from.  The controller's warm state (projection hint,      *)
(* previous pose time, last applied control, nominal control sequence) is  *)
(* reduced to the origin of each part, which is all that mixing state      *)
(* across a reset could get wrong.  Obstacle fields, captures and applied  *)
(* friction travel beside this path and are left to their own modules.     *)
(***************************************************************************)
EXTENDS Naturals

CONSTANTS
  MaxGeneration,              \* bound on observation_generation_
  MaxEpoch,                   \* bound on reset_epoch_
  LimitPublicationRate,       \* limit_control_publication_rate_
  None                        \* an empty optional or a null pointer

ASSUME BoundsAssumption ==
  /\ MaxGeneration \in Nat
  /\ MaxEpoch \in Nat

ASSUME SwitchAssumption == LimitPublicationRate \in BOOLEAN

Generation == 1 .. MaxGeneration
Epoch == 0 .. MaxEpoch

\* Where an observation, the solution for it, or the command of that solution
\* comes from.
Origin == [generation : Generation, epoch : Epoch]

ASSUME NoneAssumption ==
  /\ None \notin Origin
  /\ None \notin Epoch

VARIABLES
  \* under worker_mutex_
  latest_observation,          \* the mailbox: an Origin or None
  observation_generation,
  solved_generation,
  reset_epoch,
  reset_requested,
  control_work_pending,
  pending_published_control,   \* Origin of the command to feed back, or None
  stop_workers,
  \* under solution_mutex_
  latest_solution,             \* an Origin or None
  latest_solution_generation,
  published_solution,          \* an Origin or None
  published_solution_generation,
  \* the state callback
  callback_pc,
  \* locals of the solver thread
  solver_pc,
  observation,                 \* the observation taken, or None
  generation,
  solve_epoch,
  published_control,
  \* the controller, owned by the solver thread
  s_hint,                      \* Epoch of the projection hint, or None
  previous_pose_time,          \* Epoch of the last planned pose, or None
  nominal,                     \* Epoch the nominal controls descend from, or None
  last_applied_control,        \* Origin of the command fed back last, or None
  reset_next,
  \* locals of the control thread
  control_pc,
  sending,                     \* the solution copied, or None
  last_sent_control            \* Origin of the command sent last, or None

mailboxVars == <<latest_observation, observation_generation, solved_generation>>
resetVars == <<reset_epoch, reset_requested>>
handoffVars == <<control_work_pending, pending_published_control>>
solutionVars ==
  <<latest_solution, latest_solution_generation, published_solution,
    published_solution_generation>>
sharedVars ==
  <<mailboxVars, resetVars, handoffVars, stop_workers, solutionVars, callback_pc>>
takenVars == <<observation, generation, solve_epoch, published_control>>
solverVars == <<solver_pc, takenVars>>
controllerVars ==
  <<s_hint, previous_pose_time, nominal, last_applied_control, reset_next>>
controlVars == <<control_pc, sending, last_sent_control>>
workerVars == <<solverVars, controllerVars, controlVars>>

vars == <<sharedVars, workerVars>>

Init ==
  /\ latest_observation = None
  /\ observation_generation = 0
  /\ solved_generation = 0
  /\ reset_epoch = 0
  /\ reset_requested = FALSE
  /\ control_work_pending = FALSE
  /\ pending_published_control = None
  /\ stop_workers = FALSE
  /\ latest_solution = None
  /\ latest_solution_generation = 0
  /\ published_solution = None
  /\ published_solution_generation = 0
  /\ callback_pc = "idle"
  /\ solver_pc = "wait"
  /\ observation = None
  /\ generation = 0
  /\ solve_epoch = 0
  /\ published_control = None
  /\ s_hint = None
  /\ previous_pose_time = None
  /\ nominal = None
  /\ last_applied_control = None
  /\ reset_next = TRUE
  /\ control_pc = "wait"
  /\ sending = None
  /\ last_sent_control = None

-----------------------------------------------------------------------------
(* The state callback: MppiNode::StateCallback calls Reset, then           *)
(* OnObservation, from one mutually exclusive callback group.              *)

\* OnObservation: replace the mailbox.
OnObservation ==
  /\ ~stop_workers
  /\ callback_pc \in {"idle", "deliver"}
  /\ observation_generation < MaxGeneration
  /\ observation_generation' = observation_generation + 1
  /\ latest_observation' =
       [generation |-> observation_generation + 1, epoch |-> reset_epoch]
  /\ callback_pc' = "idle"
  /\ UNCHANGED <<solved_generation, resetVars, handoffVars, stop_workers,
                 solutionVars, workerVars>>

\* OnObservation throws on a non-finite value.  After a Reset that leaves the
\* runtime without an observation; without one it changes nothing.
OnObservationRejected ==
  /\ callback_pc = "deliver"
  /\ callback_pc' = "idle"
  /\ UNCHANGED <<mailboxVars, resetVars, handoffVars, stop_workers, solutionVars,
                 workerVars>>

\* Reset, first critical section (worker_mutex_).
ResetWorkers ==
  /\ ~stop_workers
  /\ callback_pc = "idle"
  /\ reset_epoch < MaxEpoch
  /\ observation_generation < MaxGeneration
  /\ latest_observation' = None
  /\ pending_published_control' = None
  /\ observation_generation' = observation_generation + 1
  /\ reset_epoch' = reset_epoch + 1
  /\ reset_requested' = TRUE
  /\ control_work_pending' = FALSE
  /\ callback_pc' = "reset_solution"
  /\ UNCHANGED <<solved_generation, stop_workers, solutionVars, workerVars>>

\* Reset, second critical section (solution_mutex_).
ResetSolution ==
  /\ callback_pc = "reset_solution"
  /\ latest_solution' = None
  /\ published_solution' = None
  /\ latest_solution_generation' = 0
  /\ published_solution_generation' = 0
  /\ callback_pc' = "deliver"
  /\ UNCHANGED <<mailboxVars, resetVars, handoffVars, stop_workers, workerVars>>

\* The destructor: it runs once the executor no longer calls back.
Stop ==
  /\ ~stop_workers
  /\ callback_pc = "idle"
  /\ stop_workers' = TRUE
  /\ UNCHANGED <<mailboxVars, resetVars, handoffVars, solutionVars, callback_pc,
                 workerVars>>

-----------------------------------------------------------------------------
(* The solver thread.                                                      *)

ObservationWaiting ==
  /\ latest_observation # None
  /\ observation_generation # solved_generation

\* SolverWorker leaves its wait with an observation.  std::move leaves
\* pending_published_control_ engaged, so it is read and not cleared.
TakeObservation ==
  /\ observation' = latest_observation
  /\ generation' = observation_generation
  /\ solve_epoch' = reset_epoch
  /\ published_control' = pending_published_control

\* Faulty variant: the flag is polled only when there is an observation to solve.
SolverTakesResetWithObservation ==
  /\ solver_pc = "wait"
  /\ ~stop_workers
  /\ reset_requested
  /\ reset_requested' = FALSE
  /\ ObservationWaiting
  /\ TakeObservation
  /\ solver_pc' = "reset"
  /\ UNCHANGED <<mailboxVars, reset_epoch, handoffVars, stop_workers,
                 solutionVars, callback_pc, controllerVars, controlVars>>

\* A requested reset is looked at before the observation; whether the
\* observation is taken in the same section depends on next_solve.
SolverTakesReset ==
  /\ solver_pc = "wait"
  /\ ~stop_workers
  /\ reset_requested
  /\ reset_requested' = FALSE
  /\ \/ /\ ObservationWaiting
        /\ TakeObservation
     \/ /\ observation' = None
        /\ UNCHANGED <<generation, solve_epoch, published_control>>
  /\ solver_pc' = "reset"
  /\ UNCHANGED <<mailboxVars, reset_epoch, handoffVars, stop_workers,
                 solutionVars, callback_pc, controllerVars, controlVars>>

\* Faulty variant: an observation is taken although a reset is requested.
SolverTakesObservationFirst ==
  /\ solver_pc = "wait"
  /\ ~stop_workers
  /\ ObservationWaiting
  /\ TakeObservation
  /\ solver_pc' = "update"
  /\ UNCHANGED <<sharedVars, controllerVars, controlVars>>

SolverTakesObservation ==
  /\ solver_pc = "wait"
  /\ ~stop_workers
  /\ ~reset_requested
  /\ ObservationWaiting
  /\ TakeObservation
  /\ solver_pc' = "update"
  /\ UNCHANGED <<sharedVars, controllerVars, controlVars>>

\* Faulty variant: the solver goes on without an observation.
ControllerResetGoesOn ==
  /\ solver_pc = "reset"
  /\ s_hint' = None
  /\ previous_pose_time' = None
  /\ last_applied_control' = None
  /\ reset_next' = TRUE
  /\ solver_pc' = "update"
  /\ UNCHANGED <<sharedVars, takenVars, nominal, controlVars>>

\* MppiController::Reset, on the solver thread and outside the locks.
ControllerReset ==
  /\ solver_pc = "reset"
  /\ s_hint' = None
  /\ previous_pose_time' = None
  /\ last_applied_control' = None
  /\ reset_next' = TRUE
  /\ solver_pc' = IF observation = None THEN "wait" ELSE "update"
  /\ UNCHANGED <<sharedVars, takenVars, nominal, controlVars>>

RecordPublishedControl ==
  last_applied_control' =
    IF published_control # None THEN published_control ELSE last_applied_control

\* SolveOnce up to UpdateObservation: the projection keeps its hint on success;
\* on failure the solve is over and the next one starts from the reference.
UpdateObservation ==
  /\ solver_pc = "update"
  /\ RecordPublishedControl
  /\ \/ /\ s_hint' = observation.epoch
        /\ solver_pc' = "plan"
        /\ UNCHANGED reset_next
     \/ /\ reset_next' = TRUE
        /\ solver_pc' = "solved"
        /\ UNCHANGED s_hint
  /\ UNCHANGED <<sharedVars, takenVars, previous_pose_time, nominal, controlVars>>

\* PlanLatest.  A solve that throws may or may not have shifted the nominal.
PlanLatest ==
  /\ solver_pc = "plan"
  /\ \/ /\ previous_pose_time' = observation.epoch
        /\ nominal' = observation.epoch
        /\ reset_next' = FALSE
        /\ solver_pc' = "install"
     \/ /\ nominal' \in {nominal, observation.epoch}
        /\ solver_pc' = "solved"
        /\ UNCHANGED <<previous_pose_time, reset_next>>
  /\ UNCHANGED <<sharedVars, takenVars, s_hint, last_applied_control,
                 controlVars>>

\* Faulty variant: the epoch is not checked again after the solve.
InstallUnchecked ==
  /\ solver_pc = "install"
  /\ latest_solution' = observation
  /\ latest_solution_generation' = generation
  /\ control_work_pending' = TRUE
  /\ solver_pc' = "solved"
  /\ UNCHANGED <<mailboxVars, resetVars, pending_published_control, stop_workers,
                 published_solution, published_solution_generation, callback_pc,
                 takenVars, controllerVars, controlVars>>

\* The end of SolveOnce: solution_mutex_ taken inside worker_mutex_, so that no
\* Reset falls between the epoch check and the write.
InstallSolution ==
  /\ solver_pc = "install"
  /\ IF solve_epoch = reset_epoch
       THEN /\ latest_solution' = observation
            /\ latest_solution_generation' = generation
            /\ control_work_pending' = TRUE
       ELSE UNCHANGED <<latest_solution, latest_solution_generation,
                        control_work_pending>>
  /\ solver_pc' = "solved"
  /\ UNCHANGED <<mailboxVars, resetVars, pending_published_control, stop_workers,
                 published_solution, published_solution_generation, callback_pc,
                 takenVars, controllerVars, controlVars>>

\* Faulty variant: what arrived during the solve counts as solved too.
FinishSolveNewest ==
  /\ solver_pc = "solved"
  /\ solved_generation' = observation_generation
  /\ solver_pc' = "wait"
  /\ UNCHANGED <<latest_observation, observation_generation, resetVars,
                 handoffVars, stop_workers, solutionVars, callback_pc, takenVars,
                 controllerVars, controlVars>>

\* Whatever came of it, the generation counts as solved.
FinishSolve ==
  /\ solver_pc = "solved"
  /\ solved_generation' = generation
  /\ solver_pc' = "wait"
  /\ UNCHANGED <<latest_observation, observation_generation, resetVars,
                 handoffVars, stop_workers, solutionVars, callback_pc, takenVars,
                 controllerVars, controlVars>>

SolverExits ==
  /\ solver_pc = "wait"
  /\ stop_workers
  /\ solver_pc' = "stopped"
  /\ UNCHANGED <<sharedVars, takenVars, controllerVars, controlVars>>

Solver ==
  \/ SolverTakesReset
  \/ SolverTakesObservation
  \/ ControllerReset
  \/ UpdateObservation
  \/ PlanLatest
  \/ InstallSolution
  \/ FinishSolve
  \/ SolverExits

-----------------------------------------------------------------------------
(* The control thread.                                                     *)

\* ControlWorker finds work.  Before next_publication it gives the lock up and
\* waits for that time; a Reset in the meantime does not call it back.
ControlWakes ==
  /\ control_pc = "wait"
  /\ ~stop_workers
  /\ control_work_pending
  /\ \/ /\ control_work_pending' = FALSE
        /\ control_pc' = "copy"
     \/ /\ LimitPublicationRate
        /\ control_pc' = "rate"
        /\ UNCHANGED control_work_pending
  /\ UNCHANGED <<mailboxVars, resetVars, pending_published_control, stop_workers,
                 solutionVars, callback_pc, solverVars, controllerVars, sending,
                 last_sent_control>>

ControlDue ==
  /\ control_pc = "rate"
  /\ ~stop_workers
  /\ control_work_pending' = FALSE
  /\ control_pc' = "copy"
  /\ UNCHANGED <<mailboxVars, resetVars, pending_published_control, stop_workers,
                 solutionVars, callback_pc, solverVars, controllerVars, sending,
                 last_sent_control>>

\* Faulty variant: the solution is sent again at every wake.
CopyAnySolution ==
  /\ control_pc = "copy"
  /\ IF latest_solution = None
       THEN /\ control_pc' = "wait"
            /\ UNCHANGED sending
       ELSE /\ control_pc' = "send"
            /\ sending' = latest_solution
  /\ UNCHANGED <<sharedVars, solverVars, controllerVars, last_sent_control>>

\* ControlPublicationCallback, first critical section (solution_mutex_).
CopySolution ==
  /\ control_pc = "copy"
  /\ IF latest_solution = None
          \/ latest_solution_generation = published_solution_generation
       THEN /\ control_pc' = "wait"
            /\ UNCHANGED sending
       ELSE /\ control_pc' = "send"
            /\ sending' = latest_solution
  /\ UNCHANGED <<sharedVars, solverVars, controllerVars, last_sent_control>>

\* The copied solution is older than maximum_solution_age_s.
SkipStaleSolution ==
  /\ control_pc = "send"
  /\ published_solution_generation' =
       IF sending.generation = latest_solution_generation
         THEN sending.generation
         ELSE published_solution_generation
  /\ control_pc' = "wait"
  /\ UNCHANGED <<mailboxVars, resetVars, handoffVars, stop_workers,
                 latest_solution, latest_solution_generation, published_solution,
                 callback_pc, solverVars, controllerVars, sending,
                 last_sent_control>>

\* Faulty variant: a refused command is recorded like one that was sent.
SendCommandRegardless ==
  /\ control_pc = "send"
  /\ last_sent_control' \in {sending, last_sent_control}
  /\ control_pc' = "record"
  /\ UNCHANGED <<sharedVars, solverVars, controllerVars, sending>>

\* The publisher accepts the command, or throws: then nothing is recorded.
SendCommand ==
  /\ control_pc = "send"
  /\ \/ /\ last_sent_control' = sending
        /\ control_pc' = "record"
     \/ /\ control_pc' = "wait"
        /\ UNCHANGED last_sent_control
  /\ UNCHANGED <<sharedVars, solverVars, controllerVars, sending>>

\* What was sent becomes the feedback of the next solve (worker_mutex_).
RecordCommand ==
  /\ control_pc = "record"
  /\ pending_published_control' = sending
  /\ control_pc' = "mark"
  /\ UNCHANGED <<mailboxVars, resetVars, control_work_pending, stop_workers,
                 solutionVars, callback_pc, solverVars, controllerVars, sending,
                 last_sent_control>>

\* Faulty variant: the newest solution is marked, not the one sent.
MarkNewest ==
  /\ control_pc = "mark"
  /\ published_solution_generation' = latest_solution_generation
  /\ published_solution' = sending
  /\ control_pc' = "wait"
  /\ UNCHANGED <<mailboxVars, resetVars, handoffVars, stop_workers,
                 latest_solution, latest_solution_generation, callback_pc,
                 solverVars, controllerVars, sending, last_sent_control>>

\* Faulty variant: the work flag is cleared after the publication, not before.
MarkAndClear ==
  /\ control_pc = "mark"
  /\ published_solution_generation' = sending.generation
  /\ published_solution' = sending
  /\ control_work_pending' = FALSE
  /\ control_pc' = "wait"
  /\ UNCHANGED <<mailboxVars, resetVars, pending_published_control, stop_workers,
                 latest_solution, latest_solution_generation, callback_pc,
                 solverVars, controllerVars, sending, last_sent_control>>

\* The last critical section (solution_mutex_) marks the solution actually sent.
MarkPublished ==
  /\ control_pc = "mark"
  /\ published_solution_generation' =
       IF sending.generation > published_solution_generation
         THEN sending.generation
         ELSE published_solution_generation
  /\ published_solution' = sending
  /\ control_pc' = "wait"
  /\ UNCHANGED <<mailboxVars, resetVars, handoffVars, stop_workers,
                 latest_solution, latest_solution_generation, callback_pc,
                 solverVars, controllerVars, sending, last_sent_control>>

\* Faulty variant: pending work has to be done before the thread may stop.
ControlExitsIdle ==
  /\ control_pc \in {"wait", "rate"}
  /\ stop_workers
  /\ ~control_work_pending
  /\ control_pc' = "stopped"
  /\ UNCHANGED <<sharedVars, solverVars, controllerVars, sending,
                 last_sent_control>>

ControlExits ==
  /\ control_pc \in {"wait", "rate"}
  /\ stop_workers
  /\ control_pc' = "stopped"
  /\ UNCHANGED <<sharedVars, solverVars, controllerVars, sending,
                 last_sent_control>>

Control ==
  \/ ControlWakes
  \/ ControlDue
  \/ CopySolution
  \/ SkipStaleSolution
  \/ SendCommand
  \/ RecordCommand
  \/ MarkPublished
  \/ ControlExits

-----------------------------------------------------------------------------

\* Both threads joined: the destructor is done.
Terminated ==
  /\ solver_pc = "stopped"
  /\ control_pc = "stopped"
  /\ UNCHANGED vars

Next ==
  \/ OnObservation
  \/ OnObservationRejected
  \/ ResetWorkers
  \/ ResetSolution
  \/ Stop
  \/ Solver
  \/ Control
  \/ Terminated

\* A thread that can take its next step takes it: mutexes are held for a few
\* instructions, waits end on a notification or a time, and a Reset under way is
\* finished.  Nothing says that the EKF keeps sending or that the node stops.
Fairness ==
  /\ WF_vars(Solver)
  /\ WF_vars(Control)
  /\ WF_vars(ResetSolution)

Spec == Init /\ [][Next]_vars

FairSpec == Spec /\ Fairness

-----------------------------------------------------------------------------
(* Properties.                                                             *)

OptionalOrigin == Origin \cup {None}
OptionalEpoch == Epoch \cup {None}

FlagTypes ==
  /\ reset_requested \in BOOLEAN
  /\ control_work_pending \in BOOLEAN
  /\ stop_workers \in BOOLEAN
  /\ reset_next \in BOOLEAN

ValueTypes ==
  /\ latest_observation \in OptionalOrigin
  /\ observation_generation \in 0 .. MaxGeneration
  /\ solved_generation \in 0 .. MaxGeneration
  /\ reset_epoch \in Epoch
  /\ pending_published_control \in OptionalOrigin
  /\ latest_solution \in OptionalOrigin
  /\ latest_solution_generation \in 0 .. MaxGeneration
  /\ published_solution \in OptionalOrigin
  /\ published_solution_generation \in 0 .. MaxGeneration
  /\ callback_pc \in {"idle", "reset_solution", "deliver"}
  /\ solver_pc \in
       {"wait", "reset", "update", "plan", "install", "solved", "stopped"}
  /\ observation \in OptionalOrigin
  /\ generation \in 0 .. MaxGeneration
  /\ solve_epoch \in Epoch
  /\ published_control \in OptionalOrigin
  /\ s_hint \in OptionalEpoch
  /\ previous_pose_time \in OptionalEpoch
  /\ nominal \in OptionalEpoch
  /\ last_applied_control \in OptionalOrigin
  /\ control_pc \in
       {"wait", "rate", "copy", "send", "record", "mark", "stopped"}
  /\ sending \in OptionalOrigin
  /\ last_sent_control \in OptionalOrigin
  /\ solver_pc \in {"update", "plan", "install", "solved"} => observation # None
  /\ control_pc \in {"send", "record", "mark"} => sending # None

\* The type invariant: every variable keeps its type, the solver holds an
\* observation whenever it is past its wait, and the control thread a solution
\* whenever it is sending one.
TypeOK == FlagTypes /\ ValueTypes

\* No solve mixes the controller's state across an EKF reset: the projection
\* starts from no hint or from one of this epoch, and the plan measures elapsed
\* time from a pose of this epoch and continues a nominal sequence of this epoch,
\* or starts both afresh.  The reset reaches the controller through one flag that
\* the solver polls, while the new observation arrives through another.
WarmStateOfOneEpoch ==
  /\ solver_pc = "update" => s_hint \in {None, observation.epoch}
  /\ solver_pc = "plan" =>
       /\ previous_pose_time \in {None, observation.epoch}
       /\ ~reset_next => nominal = observation.epoch

\* A solution computed before an EKF reset is not installed after it, however
\* long the solve took: except inside Reset itself, between its two critical
\* sections, the latest solution is of the current epoch.
SolutionOfCurrentEpoch ==
  latest_solution # None /\ callback_pc # "reset_solution" =>
    latest_solution.epoch = reset_epoch

\* What the solver will take as the applied control, and what the information
\* and grip threads report, is the command that really went out last: not one
\* that was planned, skipped as too old or refused by the publisher.
FeedbackIsLastSent ==
  /\ control_pc # "record" /\ pending_published_control # None =>
       pending_published_control = last_sent_control
  /\ control_pc \notin {"record", "mark"} /\ published_solution # None =>
       published_solution = last_sent_control

\* The publisher looks for a generation that differs from the published one, so
\* the published one must never run into a solution nobody has looked at: a
\* newer solve that completes during a publication stays eligible.
NewerStaysEligible ==
  latest_solution # None
    /\ published_solution_generation = latest_solution_generation
    => sending = latest_solution

\* The command fed back to a solve is one of the solve's own epoch.  This is what
\* docs/ros_integration.md says of the warm start after a reset_counter change.
\* It does not hold: see the run feedback_across_reset.
FeedbackOfOneEpoch ==
  solver_pc = "plan" /\ last_applied_control # None =>
    last_applied_control.epoch = observation.epoch

\* The solver is at work on an observation it took.
Holding ==
  \/ solver_pc \in {"update", "plan", "install", "solved"}
  \/ solver_pc = "reset" /\ observation # None

\* Generations are solved at most once and newest first, and commands leave at
\* most once and in order: the runtime implements FreshestOnly.
Promise == INSTANCE FreshestOnly WITH
  accepted <- observation_generation,
  started <- generation,
  solving <- Holding,
  sent <- IF last_sent_control = None THEN 0 ELSE last_sent_control.generation,
  publishing <- control_pc \in {"record", "mark"}

ImplementsFreshestOnly == Promise!Spec

\* No accepted observation is forgotten: a solve starts on it or on a newer one,
\* unless a reset or the shutdown drops it.
ObservationIsTaken ==
  \A g \in Generation :
    latest_observation # None /\ observation_generation = g
      ~> generation >= g \/ latest_observation = None \/ stop_workers

\* No installed solution is forgotten: the control thread picks up that one or a
\* newer one, unless a reset or the shutdown drops it.  A notification that came
\* while the thread was busy, or waiting for its rate, must not be lost.
SolutionReachesControl ==
  \A g \in Generation :
    latest_solution # None /\ latest_solution.generation = g
      ~> \/ sending # None /\ sending.generation >= g
         \/ latest_solution = None
         \/ stop_workers

\* A requested reset reaches the controller even if no observation follows it.
ResetReachesController == reset_requested ~> solver_pc = "reset" \/ stop_workers

\* The destructor's joins return, whatever the two threads were doing.
ShutdownCompletes == stop_workers ~> solver_pc = "stopped" /\ control_pc = "stopped"

=============================================================================
