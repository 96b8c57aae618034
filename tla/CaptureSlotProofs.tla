-------------------------- MODULE CaptureSlotProofs -------------------------
(***************************************************************************)
(* Proofs about CaptureSlot for every bound on captures and epochs.  The   *)
(* inductive invariant, IInv, says where a busy slot is: with the solver   *)
(* that fills it, in the queue or with the worker, at one place at a time, *)
(* and that the work item beside it is the one it was staged for.          *)
(***************************************************************************)
EXTENDS CaptureSlot, TLAPS

\* The slot holds the capture of work item w.
Holds(w) ==
  /\ capture_busy
  /\ slot.id = w.id
  /\ slot.parts = w.parts

WorkerHolds == worker_pc \in {"collect", "read", "release"}

\* A free slot is the solver's; a busy one is on its way to the queue, in the
\* queue or in the worker's hands, never at two of these places.
SlotInv ==
  /\ slot.id = next_capture_id
  /\ solver_pc \in {"stage", "staged"} => ~capture_busy
  /\ solver_pc = "staged" => slot.parts = parts
  /\ solver_pc = "finish" =>
       /\ capture_busy
       /\ slot.parts = parts
       /\ pending_capture = None
       /\ ~WorkerHolds
  /\ pending_capture # None => Holds(pending_capture) /\ ~WorkerHolds
  /\ WorkerHolds => Holds(capture_work)
  /\ worker_pc = "release" /\ capture # None => capture.id = capture_work.id
  /\ worker_pc \in {"check", "publish"} => capture.id = capture_work.id
  /\ BusySlotIsCollected

IInv == TypeOK /\ SlotInv

-----------------------------------------------------------------------------

USE DEF slotVars, stopVars, runtimeVars, solverVars, workerVars, vars

\* The slot starts with every field of its type.
LEMMA TypeInit == Init => TypeOK
<1> SUFFICES ASSUME Init PROVE TypeOK
  OBVIOUS
<1>1. FlagTypes
  BY DEF Init, FlagTypes
<1>2. ValueTypes
  BY BoundsAssumption DEF Init, ValueTypes, Capture, Epoch
<1> QED
  BY <1>1, <1>2 DEF TypeOK

\* Every step leaves the flags Boolean.
LEMMA FlagStep == FlagTypes /\ [Next]_vars => FlagTypes'
  BY DEF FlagTypes, Next, Solver, Worker, Terminated,
         StartSolve, CheckSlot, StageCapture, HandOver, SolveThrows, QueueCapture,
         SolverExits, CaptureCompletes, TakeCapture, FindSlot, ReadSlot, Release,
         CheckCapture, PublishCapture, WorkerExits, ResetWorkers, ResetSolution,
         ResetVisualization, Stop, StopVisualization

\* Every step leaves the other fields of their types, and the worker with a work
\* item while it has one to handle.
LEMMA ValueStep == ValueTypes /\ [Next]_vars => ValueTypes'
<1> SUFFICES ASSUME ValueTypes, [Next]_vars PROVE ValueTypes'
  OBVIOUS
<1> USE BoundsAssumption, NoneAssumption
<1> USE DEF ValueTypes, Capture, Work, CaptureId, Epoch
<1>1. CASE StartSolve
  BY <1>1 DEF StartSolve
<1>2. CASE CheckSlot
  BY <1>2 DEF CheckSlot
<1>3. CASE StageCapture
  BY <1>3 DEF StageCapture
<1>4. CASE HandOver
  BY <1>4 DEF HandOver
<1>5. CASE SolveThrows
  BY <1>5 DEF SolveThrows
<1>6. CASE QueueCapture
  BY <1>6 DEF QueueCapture
<1>7. CASE SolverExits
  BY <1>7 DEF SolverExits
<1>8. CASE CaptureCompletes
  BY <1>8 DEF CaptureCompletes
<1>9. CASE TakeCapture
  BY <1>9 DEF TakeCapture
<1>10. CASE FindSlot
  BY <1>10 DEF FindSlot
<1>11. CASE ReadSlot
  BY <1>11 DEF ReadSlot
<1>12. CASE Release
  BY <1>12 DEF Release
<1>13. CASE CheckCapture
  BY <1>13 DEF CheckCapture
<1>14. CASE PublishCapture
  BY <1>14 DEF PublishCapture
<1>15. CASE WorkerExits
  BY <1>15 DEF WorkerExits
<1>16. CASE ResetWorkers
  BY <1>16 DEF ResetWorkers
<1>17. CASE ResetSolution
  BY <1>17 DEF ResetSolution
<1>18. CASE ResetVisualization
  BY <1>18 DEF ResetVisualization
<1>19. CASE Stop
  BY <1>19 DEF Stop
<1>20. CASE StopVisualization
  BY <1>20 DEF StopVisualization
<1>21. CASE UNCHANGED vars
  BY <1>21
<1> QED
  BY <1>1, <1>2, <1>3, <1>4, <1>5, <1>6, <1>7, <1>8, <1>9, <1>10, <1>11, <1>12,
     <1>13, <1>14, <1>15, <1>16, <1>17, <1>18, <1>19, <1>20, <1>21
  DEF Next, Solver, Worker, Terminated

\* Every field keeps its type: the worker never handles an empty work item, nor
\* publishes a capture it did not get.
THEOREM TypeCorrect == Spec => []TypeOK
<1>1. FlagTypes /\ ValueTypes /\ [Next]_vars => FlagTypes' /\ ValueTypes'
  BY FlagStep, ValueStep
<1> QED
  BY <1>1, TypeInit, PTL DEF Spec, TypeOK

-----------------------------------------------------------------------------

\* No step gives the slot two owners, or takes it from all of them.
LEMMA SlotStep == TypeOK /\ SlotInv /\ [Next]_vars => SlotInv'
<1> SUFFICES ASSUME TypeOK, SlotInv, [Next]_vars PROVE SlotInv'
  OBVIOUS
<1> USE BoundsAssumption, NoneAssumption
<1> USE DEF TypeOK, FlagTypes, ValueTypes, Capture, Work, CaptureId, Epoch, SlotInv,
            Holds, WorkerHolds, BusySlotIsCollected, Collecting
<1>1. CASE StartSolve
  BY <1>1 DEF StartSolve
<1>2. CASE CheckSlot
  BY <1>2 DEF CheckSlot
<1>3. CASE StageCapture
  BY <1>3 DEF StageCapture
<1>4. CASE HandOver
  BY <1>4 DEF HandOver
<1>5. CASE SolveThrows
  BY <1>5 DEF SolveThrows
<1>6. CASE QueueCapture
  BY <1>6 DEF QueueCapture
<1>7. CASE SolverExits
  BY <1>7 DEF SolverExits
<1>8. CASE CaptureCompletes
  BY <1>8 DEF CaptureCompletes
<1>9. CASE TakeCapture
  BY <1>9 DEF TakeCapture
<1>10. CASE FindSlot
  BY <1>10 DEF FindSlot
<1>11. CASE ReadSlot
  BY <1>11 DEF ReadSlot
<1>12. CASE Release
  BY <1>12 DEF Release
<1>13. CASE CheckCapture
  BY <1>13 DEF CheckCapture
<1>14. CASE PublishCapture
  BY <1>14 DEF PublishCapture
<1>15. CASE WorkerExits
  BY <1>15 DEF WorkerExits
<1>16. CASE ResetWorkers
  BY <1>16 DEF ResetWorkers
<1>17. CASE ResetSolution
  BY <1>17 DEF ResetSolution
<1>18. CASE ResetVisualization
  BY <1>18 DEF ResetVisualization
<1>19. CASE Stop
  BY <1>19 DEF Stop
<1>20. CASE StopVisualization
  BY <1>20 DEF StopVisualization
<1>21. CASE UNCHANGED vars
  BY <1>21
<1> QED
  BY <1>1, <1>2, <1>3, <1>4, <1>5, <1>6, <1>7, <1>8, <1>9, <1>10, <1>11, <1>12,
     <1>13, <1>14, <1>15, <1>16, <1>17, <1>18, <1>19, <1>20, <1>21
  DEF Next, Solver, Worker, Terminated

\* The slot starts in the invariant.
LEMMA InvInit == Init => IInv
  BY TypeInit DEF Init, IInv, SlotInv, Holds, WorkerHolds, BusySlotIsCollected

\* Every step keeps the invariant.
LEMMA InvStep == IInv /\ [Next]_vars => IInv'
<1> SUFFICES ASSUME IInv, [Next]_vars PROVE IInv'
  OBVIOUS
<1>1. TypeOK'
  BY FlagStep, ValueStep DEF IInv, TypeOK
<1>2. SlotInv'
  BY SlotStep DEF IInv
<1> QED
  BY <1>1, <1>2 DEF IInv

\* The invariant holds of the slot in every state it reaches.
THEOREM Invariance == Spec => []IInv
  BY InvInit, InvStep, PTL DEF Spec

\* The solver never writes a slot that the collector reads.
THEOREM OwnerCorrect == Spec => []SlotHasOneOwner
<1>1. IInv => SlotHasOneOwner
  BY DEF IInv, SlotInv, Holds, WorkerHolds, SlotHasOneOwner
<1> QED
  BY <1>1, Invariance, PTL

\* No reset and no failing readback loses a busy slot.
THEOREM CollectionCorrect == Spec => []BusySlotIsCollected
<1>1. IInv => BusySlotIsCollected
  BY DEF IInv, SlotInv
<1> QED
  BY <1>1, Invariance, PTL

\* No capture is lost or paired with another solve's trajectory.
THEOREM PairingCorrect == Spec => []CaptureIsOfItsWork
<1>1. IInv => CaptureIsOfItsWork
  BY DEF IInv, SlotInv, Holds, WorkerHolds, CaptureIsOfItsWork
<1> QED
  BY <1>1, Invariance, PTL

=============================================================================
