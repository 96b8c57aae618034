-------------------------- MODULE ObstaclePipeline --------------------------
(***************************************************************************)
(* From a laser scan to the distance field the rollouts are costed with.   *)
(*                                                                         *)
(* Four parties share it.  The state callback keeps the pose history and,  *)
(* when the EKF reset counter changes, clears it and resets the runtime.   *)
(* The scan callback replaces a one-element mailbox.  The obstacle worker  *)
(* takes the newest scan, deskews it against a copy of the poses, updates  *)
(* the temporal tracks, builds a field and hands it to the runtime, all    *)
(* outside the locks its inputs were read under.  The solver thread loads  *)
(* the field from an atomic pointer and uploads it to the GPU when its     *)
(* generation is new to it.  The node counts epochs in pose_epoch_ and the *)
(* runtime in reset_epoch_, under different mutexes.                       *)
(*                                                                         *)
(* Poses, tracks and the points of a field are reduced to the epochs they  *)
(* come from.  The costmap, which SetObstacleField also queues for the     *)
(* visualization thread, and the installation of the solution, which is    *)
(* in MppiRuntime, are left out.                                           *)
(***************************************************************************)
EXTENDS Naturals

CONSTANTS
  MaxField,        \* bound on obstacle_generation_
  MaxEpoch,        \* bound on pose_epoch_ and reset_epoch_
  None             \* an empty pointer

ASSUME BoundsAssumption ==
  /\ MaxField \in Nat
  /\ MaxEpoch \in Nat

Epoch == 0 .. MaxEpoch

\* A field: its number, the epoch its scan was deskewed in, and the epochs that
\* its obstacle points come from.
Field == [generation : 1 .. MaxField, epoch : Epoch, sources : SUBSET Epoch]

ASSUME NoneAssumption ==
  /\ None \notin Field
  /\ None \notin Epoch

VARIABLES
  \* the node, under pose_history_mutex_ and scan_mutex_
  pose_history,           \* the epochs of the poses it holds
  pose_epoch,
  pending_scan,           \* whether the mailbox holds a scan
  stop_obstacle_worker,
  \* the runtime, under worker_mutex_
  observation_waiting,    \* an observation that no solve has taken
  reset_epoch,
  reset_requested,
  pending_field,          \* the atomic pointer
  \* the state callback
  callback_pc,
  \* the obstacle worker
  worker_pc,
  snapshot,               \* the poses and the epoch it copied
  temporal_epoch,         \* None until the first scan
  tracks,                 \* the epochs of the temporal tracks
  obstacle_generation,
  built,                  \* the field it built, or None
  \* the solver thread
  solver_pc,
  solving,                \* it holds an observation
  solve_epoch,
  field,                  \* the field it loaded, or None
  device_field,           \* the field on the GPU, or None
  applied_generation

nodeVars == <<pose_history, pose_epoch, pending_scan, stop_obstacle_worker>>
mailboxVars == <<observation_waiting, reset_epoch, reset_requested>>
runtimeVars == <<mailboxVars, pending_field>>
filterVars == <<temporal_epoch, tracks, obstacle_generation, built>>
workerVars == <<worker_pc, snapshot, filterVars>>
deviceVars == <<device_field, applied_generation>>
solverVars == <<solver_pc, solving, solve_epoch, field, deviceVars>>

vars == <<nodeVars, runtimeVars, callback_pc, workerVars, solverVars>>

Init ==
  /\ pose_history = {}
  /\ pose_epoch = 0
  /\ pending_scan = FALSE
  /\ stop_obstacle_worker = FALSE
  /\ observation_waiting = FALSE
  /\ reset_epoch = 0
  /\ reset_requested = FALSE
  /\ pending_field = None
  /\ callback_pc = "idle"
  /\ worker_pc = "wait"
  /\ snapshot = [poses |-> {}, epoch |-> 0]
  /\ temporal_epoch = None
  /\ tracks = {}
  /\ obstacle_generation = 0
  /\ built = None
  /\ solver_pc = "wait"
  /\ solving = FALSE
  /\ solve_epoch = 0
  /\ field = None
  /\ device_field = None
  /\ applied_generation = 0

-----------------------------------------------------------------------------
(* The state and scan callbacks, and the end of the node.                  *)

\* A reset counter to compare with is known once an observation was accepted.
CounterKnown == pose_epoch > 0 \/ pose_history # {}

\* The reset counter changed: the history is cleared and the node's epoch moves
\* on before the runtime hears of it.
NewEpoch ==
  /\ callback_pc = "idle"
  /\ CounterKnown
  /\ ~stop_obstacle_worker
  /\ pose_epoch < MaxEpoch
  /\ pose_history' = {}
  /\ pose_epoch' = pose_epoch + 1
  /\ callback_pc' = "reset"
  /\ UNCHANGED <<pending_scan, stop_obstacle_worker, runtimeVars, workerVars,
                 solverVars>>

\* MppiRosRuntime::Reset, first critical section.
ResetRuntime ==
  /\ callback_pc = "reset"
  /\ observation_waiting' = FALSE
  /\ reset_epoch' = reset_epoch + 1
  /\ reset_requested' = TRUE
  /\ pending_field' = None
  /\ callback_pc' = "deliver"
  /\ UNCHANGED <<nodeVars, workerVars, solverVars>>

OnObservation ==
  /\ callback_pc \in {"idle", "deliver"}
  /\ ~stop_obstacle_worker
  /\ observation_waiting' = TRUE
  /\ callback_pc' = "pose"
  /\ UNCHANGED <<nodeVars, reset_epoch, reset_requested, pending_field, workerVars,
                 solverVars>>

\* The runtime refuses the observation after the reset; its pose is not kept.
OnObservationRejected ==
  /\ callback_pc = "deliver"
  /\ callback_pc' = "idle"
  /\ UNCHANGED <<nodeVars, runtimeVars, workerVars, solverVars>>

AddPose ==
  /\ callback_pc = "pose"
  /\ pose_history' = pose_history \cup {pose_epoch}
  /\ callback_pc' = "idle"
  /\ UNCHANGED <<pose_epoch, pending_scan, stop_obstacle_worker, runtimeVars,
                 workerVars, solverVars>>

\* ScanCallback replaces the mailbox.
ScanCallback ==
  /\ ~stop_obstacle_worker
  /\ pending_scan' = TRUE
  /\ UNCHANGED <<pose_history, pose_epoch, stop_obstacle_worker, runtimeVars,
                 callback_pc, workerVars, solverVars>>

\* The node's destructor, once the executor no longer calls back.
StopNode ==
  /\ callback_pc = "idle"
  /\ ~stop_obstacle_worker
  /\ stop_obstacle_worker' = TRUE
  /\ pending_scan' = FALSE
  /\ UNCHANGED <<pose_history, pose_epoch, runtimeVars, callback_pc, workerVars,
                 solverVars>>

-----------------------------------------------------------------------------
(* The obstacle worker.                                                    *)

\* The bound on the generation keeps the worker from taking more scans.
TakeScan ==
  /\ worker_pc = "wait"
  /\ ~stop_obstacle_worker
  /\ pending_scan
  /\ obstacle_generation < MaxField
  /\ pending_scan' = FALSE
  /\ worker_pc' = "snapshot"
  /\ UNCHANGED <<pose_history, pose_epoch, stop_obstacle_worker, runtimeVars,
                 callback_pc, snapshot, filterVars, solverVars>>

\* The static laser transform is not known yet.
DropScan ==
  /\ worker_pc = "snapshot"
  /\ worker_pc' = "wait"
  /\ UNCHANGED <<nodeVars, runtimeVars, callback_pc, snapshot, filterVars,
                 solverVars>>

\* Faulty variant: a scan without poses is taken for deskewed.
DeskewWithoutPoses ==
  /\ worker_pc = "snapshot"
  /\ snapshot' = [poses |-> pose_history, epoch |-> pose_epoch]
  /\ worker_pc' \in {"check", "wait"}
  /\ UNCHANGED <<nodeVars, runtimeVars, callback_pc, filterVars, solverVars>>

\* The history and its epoch are copied, and the scan is deskewed against the
\* copy: without poses, or when they do not cover its rays, it is dropped.
DeskewScan ==
  /\ worker_pc = "snapshot"
  /\ snapshot' = [poses |-> pose_history, epoch |-> pose_epoch]
  /\ worker_pc' \in {IF pose_history = {} THEN "wait" ELSE "check", "wait"}
  /\ UNCHANGED <<nodeVars, runtimeVars, callback_pc, filterVars, solverVars>>

\* The epoch is looked at once before the tracks are touched.
CheckEpoch ==
  /\ worker_pc = "check"
  /\ worker_pc' = IF snapshot.epoch = pose_epoch THEN "update" ELSE "wait"
  /\ UNCHANGED <<nodeVars, runtimeVars, callback_pc, snapshot, filterVars,
                 solverVars>>

\* Tracks of another epoch are dropped; then the scan's returns move, add and
\* age tracks, and the confirmed ones become the points of a new field.
BuildField ==
  /\ worker_pc = "update"
  /\ temporal_epoch' = snapshot.epoch
  /\ \E kept \in SUBSET (IF temporal_epoch = snapshot.epoch THEN tracks ELSE {}),
        seen \in {{}, snapshot.poses} :
       tracks' = kept \cup seen
  /\ \E confirmed \in SUBSET tracks' :
       built' = [generation |-> obstacle_generation + 1, epoch |-> snapshot.epoch,
                 sources |-> confirmed]
  /\ obstacle_generation' = obstacle_generation + 1
  /\ worker_pc' = "recheck"
  /\ UNCHANGED <<nodeVars, runtimeVars, callback_pc, snapshot, solverVars>>

\* And once more before the field leaves the node.
RecheckEpoch ==
  /\ worker_pc = "recheck"
  /\ worker_pc' = IF snapshot.epoch = pose_epoch THEN "set" ELSE "wait"
  /\ UNCHANGED <<nodeVars, runtimeVars, callback_pc, snapshot, filterVars,
                 solverVars>>

\* Faulty variant: the runtime trusts the node's checks.
SetFieldUnchecked ==
  /\ worker_pc = "set"
  /\ pending_field' = built
  /\ worker_pc' = "wait"
  /\ UNCHANGED <<nodeVars, mailboxVars, callback_pc, snapshot, filterVars,
                 solverVars>>

\* SetObstacleField compares with the runtime's own epoch, under its mutex.
SetObstacleField ==
  /\ worker_pc = "set"
  /\ pending_field' = IF built.epoch = reset_epoch THEN built ELSE pending_field
  /\ worker_pc' = "wait"
  /\ UNCHANGED <<nodeVars, mailboxVars, callback_pc, snapshot, filterVars,
                 solverVars>>

\* Faulty variant: the worker waits for a scan even when it is to stop.
WorkerExitsWithScan ==
  /\ worker_pc = "wait"
  /\ stop_obstacle_worker
  /\ pending_scan
  /\ worker_pc' = "stopped"
  /\ UNCHANGED <<nodeVars, runtimeVars, callback_pc, snapshot, filterVars,
                 solverVars>>

WorkerExits ==
  /\ worker_pc = "wait"
  /\ stop_obstacle_worker
  /\ worker_pc' = "stopped"
  /\ UNCHANGED <<nodeVars, runtimeVars, callback_pc, snapshot, filterVars,
                 solverVars>>

ObstacleWorker ==
  \/ TakeScan
  \/ DropScan
  \/ DeskewScan
  \/ CheckEpoch
  \/ BuildField
  \/ RecheckEpoch
  \/ SetObstacleField
  \/ WorkerExits

-----------------------------------------------------------------------------
(* The solver thread, as far as the field is concerned.                    *)

TakeObservation ==
  /\ observation_waiting
  /\ observation_waiting' = FALSE
  /\ solving' = TRUE
  /\ solve_epoch' = reset_epoch

\* Faulty variant: the flag is polled only when there is an observation to solve.
SolverTakesResetWithObservation ==
  /\ solver_pc = "wait"
  /\ reset_requested
  /\ reset_requested' = FALSE
  /\ TakeObservation
  /\ solver_pc' = "reset"
  /\ UNCHANGED <<nodeVars, reset_epoch, pending_field, callback_pc, workerVars,
                 field, deviceVars>>

\* A requested reset comes first; the observation is taken with it when the
\* next solve is due.
SolverTakesReset ==
  /\ solver_pc = "wait"
  /\ reset_requested
  /\ reset_requested' = FALSE
  /\ \/ TakeObservation
     \/ /\ solving' = FALSE
        /\ UNCHANGED <<observation_waiting, solve_epoch>>
  /\ solver_pc' = "reset"
  /\ UNCHANGED <<nodeVars, reset_epoch, pending_field, callback_pc, workerVars,
                 field, deviceVars>>

SolverTakesObservation ==
  /\ solver_pc = "wait"
  /\ ~reset_requested
  /\ TakeObservation
  /\ solver_pc' = "load"
  /\ UNCHANGED <<nodeVars, reset_epoch, reset_requested, pending_field, callback_pc,
                 workerVars, field, deviceVars>>

\* Faulty variant: the controller is reset but its field stays.
ResetKeepsField ==
  /\ solver_pc = "reset"
  /\ solver_pc' = IF solving THEN "load" ELSE "wait"
  /\ applied_generation' = 0
  /\ UNCHANGED <<nodeVars, runtimeVars, callback_pc, workerVars, solving,
                 solve_epoch, field, device_field>>

\* Faulty variant: the generation of the cleared field is remembered.
ClearRemembersGeneration ==
  /\ solver_pc = "reset"
  /\ device_field' = None
  /\ solver_pc' = IF solving THEN "load" ELSE "wait"
  /\ UNCHANGED <<nodeVars, runtimeVars, callback_pc, workerVars, solving,
                 solve_epoch, field, applied_generation>>

\* ClearObstacleField, and the generation it had is forgotten.
ClearField ==
  /\ solver_pc = "reset"
  /\ device_field' = None
  /\ applied_generation' = 0
  /\ solver_pc' = IF solving THEN "load" ELSE "wait"
  /\ UNCHANGED <<nodeVars, runtimeVars, callback_pc, workerVars, solving,
                 solve_epoch, field>>

\* SolveOnce loads the pointer without a lock; the observation may have been
\* refused before that.
LoadField ==
  /\ solver_pc = "load"
  /\ \/ /\ field' = pending_field
        /\ solver_pc' =
             IF pending_field # None
                  /\ pending_field.generation # applied_generation
               THEN "upload"
               ELSE "plan"
     \/ /\ solver_pc' = "wait"
        /\ UNCHANGED field
  /\ UNCHANGED <<nodeVars, runtimeVars, callback_pc, workerVars, solving,
                 solve_epoch, deviceVars>>

\* A throw may leave the GPU with the new field, but its generation unknown.
UploadField ==
  /\ solver_pc = "upload"
  /\ \/ /\ device_field' = field
        /\ applied_generation' = field.generation
        /\ solver_pc' = "plan"
     \/ /\ device_field' \in {device_field, field}
        /\ solver_pc' = "wait"
        /\ UNCHANGED applied_generation
  /\ UNCHANGED <<nodeVars, runtimeVars, callback_pc, workerVars, solving,
                 solve_epoch, field>>

\* The rollouts are costed with the field on the GPU.
PlanLatest ==
  /\ solver_pc = "plan"
  /\ solver_pc' = "wait"
  /\ UNCHANGED <<nodeVars, runtimeVars, callback_pc, workerVars, solving,
                 solve_epoch, field, deviceVars>>

Solver ==
  \/ SolverTakesReset
  \/ SolverTakesObservation
  \/ ClearField
  \/ LoadField
  \/ UploadField
  \/ PlanLatest

-----------------------------------------------------------------------------

\* The worker is joined and the solver has nothing left to do; the runtime's own
\* shutdown is in MppiRuntime.
Terminated ==
  /\ worker_pc = "stopped"
  /\ solver_pc = "wait"
  /\ UNCHANGED vars

Next ==
  \/ NewEpoch
  \/ ResetRuntime
  \/ OnObservation
  \/ OnObservationRejected
  \/ AddPose
  \/ ScanCallback
  \/ StopNode
  \/ ObstacleWorker
  \/ Solver
  \/ Terminated

\* Both threads run.  Nothing says that scans or states keep coming.
Fairness ==
  /\ WF_vars(ObstacleWorker)
  /\ WF_vars(Solver)

Spec == Init /\ [][Next]_vars

FairSpec == Spec /\ Fairness

-----------------------------------------------------------------------------
(* Properties.                                                             *)

FlagTypes ==
  /\ pending_scan \in BOOLEAN
  /\ stop_obstacle_worker \in BOOLEAN
  /\ observation_waiting \in BOOLEAN
  /\ reset_requested \in BOOLEAN
  /\ solving \in BOOLEAN

ValueTypes ==
  /\ pose_history \in SUBSET Epoch
  /\ pose_epoch \in Epoch
  /\ reset_epoch \in Epoch
  /\ pending_field \in Field \cup {None}
  /\ callback_pc \in {"idle", "reset", "deliver", "pose"}
  /\ worker_pc \in
       {"wait", "snapshot", "check", "update", "recheck", "set", "stopped"}
  /\ snapshot \in [poses : SUBSET Epoch, epoch : Epoch]
  /\ temporal_epoch \in Epoch \cup {None}
  /\ tracks \in SUBSET Epoch
  /\ obstacle_generation \in 0 .. MaxField
  /\ worker_pc \in {"snapshot", "check", "update"} => obstacle_generation < MaxField
  /\ built \in Field \cup {None}
  /\ solver_pc \in {"wait", "reset", "load", "upload", "plan"}
  /\ solve_epoch \in Epoch
  /\ field \in Field \cup {None}
  /\ device_field \in Field \cup {None}
  /\ applied_generation \in 0 .. MaxField
  /\ worker_pc \in {"check", "update"} => snapshot.poses # {}
  /\ worker_pc \in {"recheck", "set"} => built # None
  /\ solver_pc = "upload" => field # None

\* The type invariant: fields keep their types, the worker is past its deskewing
\* only with poses, and hands over or uploads only a field there is.
TypeOK == FlagTypes /\ ValueTypes

\* The field on offer belongs to the runtime's epoch, whatever the worker was
\* doing during an EKF reset, and every point in it was placed with a pose of
\* that epoch: neither poses nor temporal tracks of an older map frame get in.
FieldOfCurrentEpoch ==
  pending_field # None =>
    /\ pending_field.epoch = reset_epoch
    /\ pending_field.sources \subseteq {reset_epoch}

\* A field of an older epoch stays on the GPU only as long as the reset that
\* outdated it has not been carried out, even if the solver had loaded it before
\* the reset and uploads it after.
OldFieldIsBeingCleared ==
  device_field # None /\ device_field.epoch # reset_epoch =>
    reset_requested \/ solver_pc = "reset"

\* A plan that a reset has not overtaken is costed with exactly the field that
\* was on offer when its solve looked: the remembered generation never keeps the
\* solver from an upload that it needs, after a reset or a failed upload either.
PlanSeesFieldOnOffer ==
  solver_pc = "plan" /\ solve_epoch = reset_epoch => device_field = field

\* An EKF reset clears the active field, also when no observation, and hence no
\* solve, follows it.
OldFieldIsCleared ==
  \A e \in Epoch :
    reset_epoch = e ~> device_field = None \/ device_field.epoch >= e

\* The worker's join returns, whatever the worker was doing.
WorkerStops == stop_obstacle_worker ~> worker_pc = "stopped"

=============================================================================
