----------------------- MODULE ObstaclePipelineProofs -----------------------
(***************************************************************************)
(* Proofs about ObstaclePipeline for every bound on fields and epochs.     *)
(* One inductive invariant, IInv, carries the safety properties: the type  *)
(* invariant, what is known of the epochs that poses, tracks and fields    *)
(* come from (WorkerInv, SolverInv), and the order of the fields' numbers  *)
(* between worker and GPU (GenerationInv).                                 *)
(***************************************************************************)
EXTENDS ObstaclePipeline, TLAPS

\* The runtime's epoch is the node's, one behind while a reset is on its way.
EpochsAgree ==
  pose_epoch = IF callback_pc = "reset" THEN reset_epoch + 1 ELSE reset_epoch

\* What the worker holds comes from one epoch, which both counts have reached.
WorkerInv ==
  /\ EpochsAgree
  /\ pose_history \subseteq {pose_epoch}
  /\ callback_pc = "reset" => pose_history = {}
  /\ snapshot.poses \subseteq {snapshot.epoch}
  /\ worker_pc \in {"check", "update"} => snapshot.epoch <= reset_epoch
  /\ tracks \subseteq {temporal_epoch}
  /\ worker_pc \in {"recheck", "set"} =>
       /\ built.epoch = snapshot.epoch
       /\ built.sources \subseteq {built.epoch}
  /\ FieldOfCurrentEpoch

\* The solver has taken an observation.
Working ==
  \/ solver_pc \in {"load", "upload", "plan"}
  \/ solver_pc = "reset" /\ solving

\* While the solver works on an observation, a requested reset and a newer epoch
\* are the same thing; a field in its hands or on the GPU is of the current epoch
\* or a reset is on its way to the solver.
SolverInv ==
  /\ solve_epoch <= reset_epoch
  /\ Working => (reset_requested <=> solve_epoch < reset_epoch)
  /\ solver_pc = "upload" =>
       /\ field.epoch <= reset_epoch
       /\ field.epoch < reset_epoch => reset_requested
       /\ field.epoch = reset_epoch => pending_field # None
  /\ device_field # None =>
       /\ device_field.epoch <= reset_epoch
       /\ device_field.epoch = reset_epoch => pending_field # None
  /\ OldFieldIsBeingCleared

\* The worker's field is newer than any other; the field on offer is not older
\* than the one uploaded last, and is that one when their numbers agree.
GenerationInv ==
  /\ applied_generation <= obstacle_generation
  /\ pending_field # None =>
       /\ pending_field.generation <= obstacle_generation
       /\ pending_field.generation >= applied_generation
       /\ pending_field.generation = applied_generation => device_field = pending_field
  /\ solver_pc = "upload" =>
       /\ field.generation > applied_generation
       /\ field.generation <= obstacle_generation
       /\ pending_field # None =>
            /\ pending_field.generation >= field.generation
            /\ pending_field.generation = field.generation => pending_field = field
  /\ worker_pc \in {"recheck", "set"} =>
       /\ built.generation = obstacle_generation
       /\ applied_generation < obstacle_generation
       /\ pending_field # None => pending_field.generation < obstacle_generation
       /\ solver_pc = "upload" => field.generation < obstacle_generation

IInv ==
  /\ TypeOK
  /\ WorkerInv
  /\ SolverInv
  /\ GenerationInv
  /\ PlanSeesFieldOnOffer

-----------------------------------------------------------------------------

USE DEF nodeVars, mailboxVars, runtimeVars, filterVars, workerVars, deviceVars,
        solverVars, vars

\* The pipeline starts with every member of its type.
LEMMA TypeInit == Init => TypeOK
<1> SUFFICES ASSUME Init PROVE TypeOK
  OBVIOUS
<1>1. FlagTypes
  BY DEF Init, FlagTypes
<1>2. ValueTypes
  BY BoundsAssumption DEF Init, ValueTypes, Epoch
<1> QED
  BY <1>1, <1>2 DEF TypeOK

\* Every step leaves the Boolean members Boolean.
LEMMA FlagStep == FlagTypes /\ [Next]_vars => FlagTypes'
  BY DEF FlagTypes, Next, ObstacleWorker, Solver, Terminated, TakeObservation,
         NewEpoch, ResetRuntime, OnObservation, OnObservationRejected, AddPose,
         ScanCallback, StopNode, TakeScan, DropScan, DeskewScan, CheckEpoch,
         BuildField, RecheckEpoch, SetObstacleField, WorkerExits,
         SolverTakesReset, SolverTakesObservation, ClearField, LoadField,
         UploadField, PlanLatest

\* Every step leaves the other members of their types, the worker with poses
\* while it deskews and with a field while it hands it over.
LEMMA ValueStep == ValueTypes /\ EpochsAgree /\ [Next]_vars => ValueTypes'
<1> SUFFICES ASSUME ValueTypes, EpochsAgree, [Next]_vars PROVE ValueTypes'
  OBVIOUS
<1> USE BoundsAssumption, NoneAssumption
<1> USE DEF ValueTypes, EpochsAgree, Field, Epoch
<1>1. CASE NewEpoch
  BY <1>1 DEF NewEpoch
<1>2. CASE ResetRuntime
  BY <1>2 DEF ResetRuntime
<1>3. CASE OnObservation
  BY <1>3 DEF OnObservation
<1>4. CASE OnObservationRejected
  BY <1>4 DEF OnObservationRejected
<1>5. CASE AddPose
  BY <1>5 DEF AddPose
<1>6. CASE ScanCallback
  BY <1>6 DEF ScanCallback
<1>7. CASE StopNode
  BY <1>7 DEF StopNode
<1>8. CASE TakeScan
  BY <1>8 DEF TakeScan
<1>9. CASE DropScan
  BY <1>9 DEF DropScan
<1>10. CASE DeskewScan
  BY <1>10 DEF DeskewScan
<1>11. CASE CheckEpoch
  BY <1>11 DEF CheckEpoch
<1>12. CASE BuildField
  <2>1. PICK kept \in SUBSET (IF temporal_epoch = snapshot.epoch THEN tracks ELSE {}),
             seen \in {{}, snapshot.poses} :
          tracks' = kept \cup seen
    BY <1>12 DEF BuildField
  <2>2. tracks' \in SUBSET Epoch
    BY <2>1
  <2>3. PICK confirmed \in SUBSET tracks' :
          built' = [generation |-> obstacle_generation + 1, epoch |-> snapshot.epoch,
                    sources |-> confirmed]
    BY <1>12 DEF BuildField
  <2>4. obstacle_generation' \in 1 .. MaxField
    BY <1>12 DEF BuildField
  <2>5. built' \in Field
    BY <1>12, <2>2, <2>3, <2>4 DEF BuildField
  <2>6. /\ temporal_epoch' = snapshot.epoch
        /\ worker_pc' = "recheck"
        /\ UNCHANGED <<nodeVars, runtimeVars, callback_pc, snapshot, solverVars>>
    BY <1>12, Zenon DEF BuildField
  <2> QED
    BY <2>2, <2>4, <2>5, <2>6
<1>13. CASE RecheckEpoch
  BY <1>13 DEF RecheckEpoch
<1>14. CASE SetObstacleField
  BY <1>14 DEF SetObstacleField
<1>15. CASE WorkerExits
  BY <1>15 DEF WorkerExits
<1>16. CASE SolverTakesReset
  BY <1>16 DEF SolverTakesReset, TakeObservation
<1>17. CASE SolverTakesObservation
  BY <1>17 DEF SolverTakesObservation, TakeObservation
<1>18. CASE ClearField
  BY <1>18 DEF ClearField
<1>19. CASE LoadField
  BY <1>19 DEF LoadField
<1>20. CASE UploadField
  BY <1>20 DEF UploadField
<1>21. CASE PlanLatest
  BY <1>21 DEF PlanLatest
<1>22. CASE UNCHANGED vars
  BY <1>22
<1> QED
  BY <1>1, <1>2, <1>3, <1>4, <1>5, <1>6, <1>7, <1>8, <1>9, <1>10, <1>11, <1>12,
     <1>13, <1>14, <1>15, <1>16, <1>17, <1>18, <1>19, <1>20, <1>21, <1>22
  DEF Next, ObstacleWorker, Solver, Terminated

-----------------------------------------------------------------------------

\* No step lets a pose, a track or a field of an older epoch into a newer one.
LEMMA WorkerStep == TypeOK /\ WorkerInv /\ [Next]_vars => WorkerInv'
<1> SUFFICES ASSUME TypeOK, WorkerInv, [Next]_vars PROVE WorkerInv'
  OBVIOUS
<1> USE BoundsAssumption, NoneAssumption
<1> USE DEF TypeOK, ValueTypes, Field, Epoch, EpochsAgree, WorkerInv,
            FieldOfCurrentEpoch
<1>1. CASE NewEpoch
  BY <1>1 DEF NewEpoch
<1>2. CASE ResetRuntime
  BY <1>2 DEF ResetRuntime
<1>3. CASE OnObservation
  BY <1>3 DEF OnObservation
<1>4. CASE OnObservationRejected
  BY <1>4 DEF OnObservationRejected
<1>5. CASE AddPose
  BY <1>5 DEF AddPose
<1>6. CASE ScanCallback
  BY <1>6 DEF ScanCallback
<1>7. CASE StopNode
  BY <1>7 DEF StopNode
<1>8. CASE TakeScan
  BY <1>8 DEF TakeScan
<1>9. CASE DropScan
  BY <1>9 DEF DropScan
<1>10. CASE DeskewScan
  BY <1>10 DEF DeskewScan
<1>11. CASE CheckEpoch
  BY <1>11 DEF CheckEpoch
<1>12. CASE BuildField
  <2>1. PICK kept \in SUBSET (IF temporal_epoch = snapshot.epoch THEN tracks ELSE {}),
             seen \in {{}, snapshot.poses} :
          tracks' = kept \cup seen
    BY <1>12 DEF BuildField
  <2>2. tracks' \subseteq {snapshot.epoch}
    BY <2>1
  <2>3. PICK confirmed \in SUBSET tracks' :
          built' = [generation |-> obstacle_generation + 1, epoch |-> snapshot.epoch,
                    sources |-> confirmed]
    BY <1>12 DEF BuildField
  <2>4. built'.epoch = snapshot.epoch /\ built'.sources \subseteq {built'.epoch}
    BY <2>2, <2>3
  <2> QED
    BY <1>12, <2>2, <2>4 DEF BuildField
<1>13. CASE RecheckEpoch
  BY <1>13 DEF RecheckEpoch
<1>14. CASE SetObstacleField
  BY <1>14 DEF SetObstacleField
<1>15. CASE WorkerExits
  BY <1>15 DEF WorkerExits
<1>16. CASE SolverTakesReset
  BY <1>16 DEF SolverTakesReset, TakeObservation
<1>17. CASE SolverTakesObservation
  BY <1>17 DEF SolverTakesObservation, TakeObservation
<1>18. CASE ClearField
  BY <1>18 DEF ClearField
<1>19. CASE LoadField
  BY <1>19 DEF LoadField
<1>20. CASE UploadField
  BY <1>20 DEF UploadField
<1>21. CASE PlanLatest
  BY <1>21 DEF PlanLatest
<1>22. CASE UNCHANGED vars
  BY <1>22
<1> QED
  BY <1>1, <1>2, <1>3, <1>4, <1>5, <1>6, <1>7, <1>8, <1>9, <1>10, <1>11, <1>12,
     <1>13, <1>14, <1>15, <1>16, <1>17, <1>18, <1>19, <1>20, <1>21, <1>22
  DEF Next, ObstacleWorker, Solver, Terminated

\* No step leaves a field of an older epoch with the solver without a reset on
\* its way to it.
LEMMA SolverStep ==
  TypeOK /\ WorkerInv /\ SolverInv /\ [Next]_vars => SolverInv'
<1> SUFFICES ASSUME TypeOK, WorkerInv, SolverInv, [Next]_vars PROVE SolverInv'
  OBVIOUS
<1> USE BoundsAssumption, NoneAssumption
<1> USE DEF TypeOK, FlagTypes, ValueTypes, Field, Epoch, EpochsAgree,
            WorkerInv, FieldOfCurrentEpoch, SolverInv, Working, OldFieldIsBeingCleared
<1>1. CASE NewEpoch
  BY <1>1 DEF NewEpoch
<1>2. CASE ResetRuntime
  BY <1>2 DEF ResetRuntime
<1>3. CASE OnObservation
  BY <1>3 DEF OnObservation
<1>4. CASE OnObservationRejected
  BY <1>4 DEF OnObservationRejected
<1>5. CASE AddPose
  BY <1>5 DEF AddPose
<1>6. CASE ScanCallback
  BY <1>6 DEF ScanCallback
<1>7. CASE StopNode
  BY <1>7 DEF StopNode
<1>8. CASE TakeScan
  BY <1>8 DEF TakeScan
<1>9. CASE DropScan
  BY <1>9 DEF DropScan
<1>10. CASE DeskewScan
  BY <1>10 DEF DeskewScan
<1>11. CASE CheckEpoch
  BY <1>11 DEF CheckEpoch
<1>12. CASE BuildField
  BY <1>12 DEF BuildField
<1>13. CASE RecheckEpoch
  BY <1>13 DEF RecheckEpoch
<1>14. CASE SetObstacleField
  BY <1>14 DEF SetObstacleField
<1>15. CASE WorkerExits
  BY <1>15 DEF WorkerExits
<1>16. CASE SolverTakesReset
  BY <1>16 DEF SolverTakesReset, TakeObservation
<1>17. CASE SolverTakesObservation
  BY <1>17 DEF SolverTakesObservation, TakeObservation
<1>18. CASE ClearField
  BY <1>18 DEF ClearField
<1>19. CASE LoadField
  BY <1>19 DEF LoadField
<1>20. CASE UploadField
  BY <1>20 DEF UploadField
<1>21. CASE PlanLatest
  BY <1>21 DEF PlanLatest
<1>22. CASE UNCHANGED vars
  BY <1>22
<1> QED
  BY <1>1, <1>2, <1>3, <1>4, <1>5, <1>6, <1>7, <1>8, <1>9, <1>10, <1>11, <1>12,
     <1>13, <1>14, <1>15, <1>16, <1>17, <1>18, <1>19, <1>20, <1>21, <1>22
  DEF Next, ObstacleWorker, Solver, Terminated

\* No step breaks the order of the fields' numbers.
LEMMA GenerationStep ==
  TypeOK /\ GenerationInv /\ [Next]_vars => GenerationInv'
<1> SUFFICES ASSUME TypeOK, GenerationInv, [Next]_vars PROVE GenerationInv'
  OBVIOUS
<1> USE BoundsAssumption, NoneAssumption
<1> USE DEF TypeOK, ValueTypes, Field, Epoch, GenerationInv
<1>1. CASE NewEpoch
  BY <1>1 DEF NewEpoch
<1>2. CASE ResetRuntime
  BY <1>2 DEF ResetRuntime
<1>3. CASE OnObservation
  BY <1>3 DEF OnObservation
<1>4. CASE OnObservationRejected
  BY <1>4 DEF OnObservationRejected
<1>5. CASE AddPose
  BY <1>5 DEF AddPose
<1>6. CASE ScanCallback
  BY <1>6 DEF ScanCallback
<1>7. CASE StopNode
  BY <1>7 DEF StopNode
<1>8. CASE TakeScan
  BY <1>8 DEF TakeScan
<1>9. CASE DropScan
  BY <1>9 DEF DropScan
<1>10. CASE DeskewScan
  BY <1>10 DEF DeskewScan
<1>11. CASE CheckEpoch
  BY <1>11 DEF CheckEpoch
<1>12. CASE BuildField
  BY <1>12 DEF BuildField
<1>13. CASE RecheckEpoch
  BY <1>13 DEF RecheckEpoch
<1>14. CASE SetObstacleField
  BY <1>14 DEF SetObstacleField
<1>15. CASE WorkerExits
  BY <1>15 DEF WorkerExits
<1>16. CASE SolverTakesReset
  BY <1>16 DEF SolverTakesReset, TakeObservation
<1>17. CASE SolverTakesObservation
  BY <1>17 DEF SolverTakesObservation, TakeObservation
<1>18. CASE ClearField
  BY <1>18 DEF ClearField
<1>19. CASE LoadField
  BY <1>19 DEF LoadField
<1>20. CASE UploadField
  BY <1>20 DEF UploadField
<1>21. CASE PlanLatest
  BY <1>21 DEF PlanLatest
<1>22. CASE UNCHANGED vars
  BY <1>22
<1> QED
  BY <1>1, <1>2, <1>3, <1>4, <1>5, <1>6, <1>7, <1>8, <1>9, <1>10, <1>11, <1>12,
     <1>13, <1>14, <1>15, <1>16, <1>17, <1>18, <1>19, <1>20, <1>21, <1>22
  DEF Next, ObstacleWorker, Solver, Terminated

\* No step makes a plan that counts see another field than the one on offer.
LEMMA PlanStep ==
  IInv /\ [Next]_vars => PlanSeesFieldOnOffer'
<1> SUFFICES ASSUME IInv, [Next]_vars PROVE PlanSeesFieldOnOffer'
  OBVIOUS
<1> USE BoundsAssumption, NoneAssumption
<1> USE DEF IInv, TypeOK, FlagTypes, ValueTypes, Field, Epoch, SolverInv, Working,
            OldFieldIsBeingCleared, GenerationInv, PlanSeesFieldOnOffer
<1>1. CASE NewEpoch
  BY <1>1 DEF NewEpoch
<1>2. CASE ResetRuntime
  BY <1>2 DEF ResetRuntime
<1>3. CASE OnObservation
  BY <1>3 DEF OnObservation
<1>4. CASE OnObservationRejected
  BY <1>4 DEF OnObservationRejected
<1>5. CASE AddPose
  BY <1>5 DEF AddPose
<1>6. CASE ScanCallback
  BY <1>6 DEF ScanCallback
<1>7. CASE StopNode
  BY <1>7 DEF StopNode
<1>8. CASE TakeScan
  BY <1>8 DEF TakeScan
<1>9. CASE DropScan
  BY <1>9 DEF DropScan
<1>10. CASE DeskewScan
  BY <1>10 DEF DeskewScan
<1>11. CASE CheckEpoch
  BY <1>11 DEF CheckEpoch
<1>12. CASE BuildField
  BY <1>12 DEF BuildField
<1>13. CASE RecheckEpoch
  BY <1>13 DEF RecheckEpoch
<1>14. CASE SetObstacleField
  BY <1>14 DEF SetObstacleField
<1>15. CASE WorkerExits
  BY <1>15 DEF WorkerExits
<1>16. CASE SolverTakesReset
  BY <1>16 DEF SolverTakesReset, TakeObservation
<1>17. CASE SolverTakesObservation
  BY <1>17 DEF SolverTakesObservation, TakeObservation
<1>18. CASE ClearField
  BY <1>18 DEF ClearField
<1>19. CASE LoadField
  BY <1>19 DEF LoadField
<1>20. CASE UploadField
  BY <1>20 DEF UploadField
<1>21. CASE PlanLatest
  BY <1>21 DEF PlanLatest
<1>22. CASE UNCHANGED vars
  BY <1>22
<1> QED
  BY <1>1, <1>2, <1>3, <1>4, <1>5, <1>6, <1>7, <1>8, <1>9, <1>10, <1>11, <1>12,
     <1>13, <1>14, <1>15, <1>16, <1>17, <1>18, <1>19, <1>20, <1>21, <1>22
  DEF Next, ObstacleWorker, Solver, Terminated

\* The pipeline starts in the invariant.
LEMMA InvInit == Init => IInv
  BY TypeInit, BoundsAssumption
  DEF Init, IInv, EpochsAgree, WorkerInv, SolverInv, Working, GenerationInv,
      FieldOfCurrentEpoch, OldFieldIsBeingCleared, PlanSeesFieldOnOffer

\* Every step keeps the invariant.
LEMMA InvStep == IInv /\ [Next]_vars => IInv'
<1> SUFFICES ASSUME IInv, [Next]_vars PROVE IInv'
  OBVIOUS
<1>1. TypeOK'
  BY FlagStep, ValueStep DEF IInv, TypeOK, WorkerInv
<1>2. WorkerInv'
  BY WorkerStep DEF IInv
<1>3. SolverInv'
  BY SolverStep DEF IInv
<1>4. GenerationInv'
  BY GenerationStep DEF IInv
<1>5. PlanSeesFieldOnOffer'
  BY PlanStep
<1> QED
  BY <1>1, <1>2, <1>3, <1>4, <1>5 DEF IInv

\* The invariant holds of the pipeline in every state it reaches.
THEOREM Invariance == Spec => []IInv
  BY InvInit, InvStep, PTL DEF Spec

\* Every member keeps its type: the solver never dereferences a null field, and
\* the worker never builds one from a scan without poses.
THEOREM TypeCorrect == Spec => []TypeOK
<1>1. IInv => TypeOK
  BY DEF IInv
<1> QED
  BY <1>1, Invariance, PTL

\* No field on offer mixes poses or tracks of two map frames, or outlives the
\* epoch it was built in.
THEOREM FieldCorrect == Spec => []FieldOfCurrentEpoch
<1>1. IInv => FieldOfCurrentEpoch
  BY DEF IInv, WorkerInv
<1> QED
  BY <1>1, Invariance, PTL

\* A field of an older epoch is on the GPU only until the reset is carried out.
THEOREM ClearingCorrect == Spec => []OldFieldIsBeingCleared
<1>1. IInv => OldFieldIsBeingCleared
  BY DEF IInv, SolverInv
<1> QED
  BY <1>1, Invariance, PTL

\* The solver never skips an upload that a plan depends on.
THEOREM PlanCorrect == Spec => []PlanSeesFieldOnOffer
<1>1. IInv => PlanSeesFieldOnOffer
  BY DEF IInv
<1> QED
  BY <1>1, Invariance, PTL

=============================================================================
