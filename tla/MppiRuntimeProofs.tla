------------------------- MODULE MppiRuntimeProofs --------------------------
(***************************************************************************)
(* Proofs about MppiRuntime for every bound on generations and epochs and  *)
(* both publication modes.  One inductive invariant, IInv, carries all of  *)
(* them: the type invariant, what a step may know of the EKF epoch it      *)
(* works in (EpochInv), and the order of the generations along the path    *)
(* from the mailbox to the last command (OrderInv).                        *)
(***************************************************************************)
EXTENDS MppiRuntime, TLAPS

\* The solver has taken an observation and has not yet handled its solution.
Solving ==
  \/ solver_pc \in {"update", "plan", "install"}
  \/ solver_pc = "reset" /\ observation # None

\* The controller's warm state comes from epoch e or from nothing.
WarmStateOf(e) ==
  /\ s_hint \in {None, e}
  /\ previous_pose_time \in {None, e}
  /\ ~reset_next => nominal = e

\* The mailbox and the observation in the solver's hands are of the current
\* epoch, or a reset is still requested; so is the controller's warm state,
\* except while the solver is on its way to reset it.
EpochInv ==
  /\ latest_observation # None =>
       /\ latest_observation.epoch = reset_epoch
       /\ latest_observation.generation = observation_generation
  /\ Holding =>
       /\ observation.epoch = solve_epoch
       /\ observation.generation = generation
       /\ solve_epoch <= reset_epoch
       /\ ~reset_requested => solve_epoch = reset_epoch
  /\ ~reset_requested /\ solver_pc # "reset" => WarmStateOf(reset_epoch)
  /\ solver_pc \in {"update", "plan"} => WarmStateOf(observation.epoch)
  /\ SolutionOfCurrentEpoch

\* Generations only grow from the command sent last, over the solution in the
\* control thread's hands and the latest solution, to the one being solved.
OrderInv ==
  /\ generation <= observation_generation
  /\ ~Holding => solved_generation = generation
  /\ latest_solution # None =>
       /\ latest_solution.generation = latest_solution_generation
       /\ latest_solution_generation <= generation
       /\ Solving => latest_solution_generation < generation
  /\ sending # None =>
       /\ sending.generation <= generation
       /\ Solving => sending.generation < generation
  /\ latest_solution # None /\ sending # None =>
       /\ sending.generation <= latest_solution_generation
       /\ sending.generation = latest_solution_generation => sending = latest_solution
  /\ last_sent_control # None =>
       /\ sending # None
       /\ last_sent_control.generation <= sending.generation
       /\ control_pc = "send" => last_sent_control.generation < sending.generation
  /\ control_pc \in {"record", "mark"} => last_sent_control = sending
  /\ IF sending = None
       THEN published_solution_generation = 0
       ELSE published_solution_generation <= sending.generation
  /\ control_pc \notin {"send", "record", "mark"}
       /\ latest_solution # None /\ last_sent_control # None
       /\ last_sent_control.generation = latest_solution_generation
       => published_solution_generation = latest_solution_generation

IInv == TypeOK /\ EpochInv /\ OrderInv /\ FeedbackIsLastSent

-----------------------------------------------------------------------------

USE DEF mailboxVars, resetVars, handoffVars, solutionVars, sharedVars, takenVars,
        solverVars, controllerVars, controlVars, workerVars, vars

\* The runtime starts with every member of its type.
LEMMA TypeInit == Init => TypeOK
<1> SUFFICES ASSUME Init PROVE TypeOK
  OBVIOUS
<1>1. FlagTypes
  BY DEF Init, FlagTypes
<1>2. ValueTypes
  BY BoundsAssumption DEF Init, ValueTypes, OptionalOrigin, OptionalEpoch, Epoch
<1> QED
  BY <1>1, <1>2 DEF TypeOK

\* Every critical section leaves the Boolean members Boolean.
LEMMA FlagStep == FlagTypes /\ [Next]_vars => FlagTypes'
  BY DEF FlagTypes, Next, Solver, Control, Terminated,
         OnObservation, OnObservationRejected, ResetWorkers, ResetSolution,
         Stop, SolverTakesReset, SolverTakesObservation, ControllerReset,
         UpdateObservation, PlanLatest, InstallSolution, FinishSolve,
         SolverExits, ControlWakes, ControlDue, CopySolution,
         SkipStaleSolution, SendCommand, RecordCommand, MarkPublished,
         ControlExits

\* Every critical section leaves the other members of their types, the solver
\* with an observation while it works and the control thread with a solution
\* while it sends.
LEMMA ValueStep == ValueTypes /\ [Next]_vars => ValueTypes'
<1> SUFFICES ASSUME ValueTypes, [Next]_vars PROVE ValueTypes'
  OBVIOUS
<1> USE BoundsAssumption, NoneAssumption
<1> USE DEF ValueTypes, OptionalOrigin, OptionalEpoch, Origin, Generation, Epoch
<1>1. CASE OnObservation
  BY <1>1 DEF OnObservation
<1>2. CASE OnObservationRejected
  BY <1>2 DEF OnObservationRejected
<1>3. CASE ResetWorkers
  BY <1>3 DEF ResetWorkers
<1>4. CASE ResetSolution
  BY <1>4 DEF ResetSolution
<1>5. CASE Stop
  BY <1>5 DEF Stop
<1>6. CASE SolverTakesReset
  BY <1>6 DEF SolverTakesReset, ObservationWaiting, TakeObservation
<1>7. CASE SolverTakesObservation
  BY <1>7 DEF SolverTakesObservation, ObservationWaiting, TakeObservation
<1>8. CASE ControllerReset
  BY <1>8 DEF ControllerReset
<1>9. CASE UpdateObservation
  BY <1>9 DEF UpdateObservation, RecordPublishedControl
<1>10. CASE PlanLatest
  BY <1>10 DEF PlanLatest
<1>11. CASE InstallSolution
  BY <1>11 DEF InstallSolution
<1>12. CASE FinishSolve
  BY <1>12 DEF FinishSolve
<1>13. CASE SolverExits
  BY <1>13 DEF SolverExits
<1>14. CASE ControlWakes
  <2>1. control_pc' \in {"copy", "rate"}
    BY <1>14, Zenon DEF ControlWakes
  <2>2. UNCHANGED <<mailboxVars, reset_epoch, pending_published_control,
                    solutionVars, callback_pc, solverVars, controllerVars, sending,
                    last_sent_control>>
    BY <1>14, Zenon DEF ControlWakes
  <2> QED
    BY <2>1, <2>2
<1>15. CASE ControlDue
  BY <1>15 DEF ControlDue
<1>16. CASE CopySolution
  BY <1>16 DEF CopySolution
<1>17. CASE SkipStaleSolution
  BY <1>17 DEF SkipStaleSolution
<1>18. CASE SendCommand
  BY <1>18 DEF SendCommand
<1>19. CASE RecordCommand
  BY <1>19 DEF RecordCommand
<1>20. CASE MarkPublished
  BY <1>20 DEF MarkPublished
<1>21. CASE ControlExits
  BY <1>21 DEF ControlExits
<1>22. CASE UNCHANGED vars
  BY <1>22
<1> QED
  BY <1>1, <1>2, <1>3, <1>4, <1>5, <1>6, <1>7, <1>8, <1>9, <1>10, <1>11,
     <1>12, <1>13, <1>14, <1>15, <1>16, <1>17, <1>18, <1>19, <1>20, <1>21, <1>22
  DEF Next, Solver, Control, Terminated


\* Every member keeps its type: the solver never dereferences an empty
\* observation, nor the control thread a null solution.
THEOREM TypeCorrect == Spec => []TypeOK
<1>1. FlagTypes /\ ValueTypes /\ [Next]_vars => FlagTypes' /\ ValueTypes'
  BY FlagStep, ValueStep
<1> QED
  BY <1>1, TypeInit, PTL DEF Spec, TypeOK

-----------------------------------------------------------------------------

\* No critical section lets an observation, a warm state or a solution of an older
\* EKF epoch pass for one of the current epoch.
LEMMA EpochStep == TypeOK /\ EpochInv /\ [Next]_vars => EpochInv'
<1> SUFFICES ASSUME TypeOK, EpochInv, [Next]_vars PROVE EpochInv'
  OBVIOUS
<1> USE BoundsAssumption, NoneAssumption
<1> USE DEF TypeOK, ValueTypes, FlagTypes, OptionalOrigin, OptionalEpoch, Origin,
            Generation, Epoch, EpochInv, Holding, Solving, WarmStateOf,
            SolutionOfCurrentEpoch
<1>1. CASE OnObservation
  BY <1>1 DEF OnObservation
<1>2. CASE OnObservationRejected
  BY <1>2 DEF OnObservationRejected
<1>3. CASE ResetWorkers
  BY <1>3 DEF ResetWorkers
<1>4. CASE ResetSolution
  BY <1>4 DEF ResetSolution
<1>5. CASE Stop
  BY <1>5 DEF Stop
<1>6. CASE SolverTakesReset
  BY <1>6 DEF SolverTakesReset, ObservationWaiting, TakeObservation
<1>7. CASE SolverTakesObservation
  BY <1>7 DEF SolverTakesObservation, ObservationWaiting, TakeObservation
<1>8. CASE ControllerReset
  BY <1>8 DEF ControllerReset
<1>9. CASE UpdateObservation
  BY <1>9 DEF UpdateObservation, RecordPublishedControl
<1>10. CASE PlanLatest
  BY <1>10 DEF PlanLatest
<1>11. CASE InstallSolution
  BY <1>11 DEF InstallSolution
<1>12. CASE FinishSolve
  BY <1>12 DEF FinishSolve
<1>13. CASE SolverExits
  BY <1>13 DEF SolverExits
<1>14. CASE ControlWakes
  BY <1>14 DEF ControlWakes
<1>15. CASE ControlDue
  BY <1>15 DEF ControlDue
<1>16. CASE CopySolution
  BY <1>16 DEF CopySolution
<1>17. CASE SkipStaleSolution
  BY <1>17 DEF SkipStaleSolution
<1>18. CASE SendCommand
  BY <1>18 DEF SendCommand
<1>19. CASE RecordCommand
  BY <1>19 DEF RecordCommand
<1>20. CASE MarkPublished
  BY <1>20 DEF MarkPublished
<1>21. CASE ControlExits
  BY <1>21 DEF ControlExits
<1>22. CASE UNCHANGED vars
  BY <1>22
<1> QED
  BY <1>1, <1>2, <1>3, <1>4, <1>5, <1>6, <1>7, <1>8, <1>9, <1>10, <1>11,
     <1>12, <1>13, <1>14, <1>15, <1>16, <1>17, <1>18, <1>19, <1>20, <1>21, <1>22
  DEF Next, Solver, Control, Terminated

\* No critical section breaks the order of the generations along the path.
LEMMA OrderStep == TypeOK /\ EpochInv /\ OrderInv /\ [Next]_vars => OrderInv'
<1> SUFFICES ASSUME TypeOK, EpochInv, OrderInv, [Next]_vars PROVE OrderInv'
  OBVIOUS
<1> USE BoundsAssumption, NoneAssumption
<1> USE DEF TypeOK, ValueTypes, FlagTypes, OptionalOrigin, OptionalEpoch, Origin,
            Generation, Epoch, EpochInv, OrderInv, Holding, Solving
<1>1. CASE OnObservation
  BY <1>1 DEF OnObservation
<1>2. CASE OnObservationRejected
  BY <1>2 DEF OnObservationRejected
<1>3. CASE ResetWorkers
  BY <1>3 DEF ResetWorkers
<1>4. CASE ResetSolution
  BY <1>4 DEF ResetSolution
<1>5. CASE Stop
  BY <1>5 DEF Stop
<1>6. CASE SolverTakesReset
  BY <1>6 DEF SolverTakesReset, ObservationWaiting, TakeObservation
<1>7. CASE SolverTakesObservation
  BY <1>7 DEF SolverTakesObservation, ObservationWaiting, TakeObservation
<1>8. CASE ControllerReset
  BY <1>8 DEF ControllerReset
<1>9. CASE UpdateObservation
  BY <1>9 DEF UpdateObservation, RecordPublishedControl
<1>10. CASE PlanLatest
  BY <1>10 DEF PlanLatest
<1>11. CASE InstallSolution
  BY <1>11 DEF InstallSolution
<1>12. CASE FinishSolve
  BY <1>12 DEF FinishSolve
<1>13. CASE SolverExits
  BY <1>13 DEF SolverExits
<1>14. CASE ControlWakes
  BY <1>14 DEF ControlWakes
<1>15. CASE ControlDue
  BY <1>15 DEF ControlDue
<1>16. CASE CopySolution
  BY <1>16 DEF CopySolution
<1>17. CASE SkipStaleSolution
  BY <1>17 DEF SkipStaleSolution
<1>18. CASE SendCommand
  BY <1>18 DEF SendCommand
<1>19. CASE RecordCommand
  BY <1>19 DEF RecordCommand
<1>20. CASE MarkPublished
  BY <1>20 DEF MarkPublished
<1>21. CASE ControlExits
  BY <1>21 DEF ControlExits
<1>22. CASE UNCHANGED vars
  BY <1>22
<1> QED
  BY <1>1, <1>2, <1>3, <1>4, <1>5, <1>6, <1>7, <1>8, <1>9, <1>10, <1>11,
     <1>12, <1>13, <1>14, <1>15, <1>16, <1>17, <1>18, <1>19, <1>20, <1>21, <1>22
  DEF Next, Solver, Control, Terminated

\* Only a command that was sent is ever recorded as applied or as published.
LEMMA FeedbackStep ==
  OrderInv /\ FeedbackIsLastSent /\ [Next]_vars => FeedbackIsLastSent'
<1> SUFFICES ASSUME OrderInv, FeedbackIsLastSent, [Next]_vars
             PROVE  FeedbackIsLastSent'
  OBVIOUS
<1> USE DEF OrderInv, FeedbackIsLastSent
<1>1. CASE OnObservation
  BY <1>1 DEF OnObservation
<1>2. CASE OnObservationRejected
  BY <1>2 DEF OnObservationRejected
<1>3. CASE ResetWorkers
  BY <1>3 DEF ResetWorkers
<1>4. CASE ResetSolution
  BY <1>4 DEF ResetSolution
<1>5. CASE Stop
  BY <1>5 DEF Stop
<1>6. CASE SolverTakesReset
  BY <1>6 DEF SolverTakesReset, ObservationWaiting, TakeObservation
<1>7. CASE SolverTakesObservation
  BY <1>7 DEF SolverTakesObservation, ObservationWaiting, TakeObservation
<1>8. CASE ControllerReset
  BY <1>8 DEF ControllerReset
<1>9. CASE UpdateObservation
  BY <1>9 DEF UpdateObservation, RecordPublishedControl
<1>10. CASE PlanLatest
  BY <1>10 DEF PlanLatest
<1>11. CASE InstallSolution
  BY <1>11 DEF InstallSolution
<1>12. CASE FinishSolve
  BY <1>12 DEF FinishSolve
<1>13. CASE SolverExits
  BY <1>13 DEF SolverExits
<1>14. CASE ControlWakes
  BY <1>14 DEF ControlWakes
<1>15. CASE ControlDue
  BY <1>15 DEF ControlDue
<1>16. CASE CopySolution
  BY <1>16 DEF CopySolution
<1>17. CASE SkipStaleSolution
  BY <1>17 DEF SkipStaleSolution
<1>18. CASE SendCommand
  BY <1>18 DEF SendCommand
<1>19. CASE RecordCommand
  BY <1>19 DEF RecordCommand
<1>20. CASE MarkPublished
  BY <1>20 DEF MarkPublished
<1>21. CASE ControlExits
  BY <1>21 DEF ControlExits
<1>22. CASE UNCHANGED vars
  BY <1>22
<1> QED
  BY <1>1, <1>2, <1>3, <1>4, <1>5, <1>6, <1>7, <1>8, <1>9, <1>10, <1>11,
     <1>12, <1>13, <1>14, <1>15, <1>16, <1>17, <1>18, <1>19, <1>20, <1>21, <1>22
  DEF Next, Solver, Control, Terminated


\* The inductive invariant holds when the threads start.
LEMMA InvInit == Init => IInv
<1> SUFFICES ASSUME Init PROVE IInv
  OBVIOUS
<1>1. TypeOK
  BY TypeInit
<1>2. EpochInv
  BY DEF Init, EpochInv, Holding, Solving, WarmStateOf, SolutionOfCurrentEpoch
<1>3. OrderInv
  BY DEF Init, OrderInv, Holding, Solving
<1>4. FeedbackIsLastSent
  BY DEF Init, FeedbackIsLastSent
<1> QED
  BY <1>1, <1>2, <1>3, <1>4 DEF IInv

\* Every critical section preserves the inductive invariant.
LEMMA InvStep == IInv /\ [Next]_vars => IInv'
<1>1. TypeOK /\ [Next]_vars => TypeOK'
  BY FlagStep, ValueStep DEF TypeOK
<1> QED
  BY <1>1, EpochStep, OrderStep, FeedbackStep DEF IInv

\* The inductive invariant holds at every point of every execution.
THEOREM Invariance == Spec => []IInv
  BY InvInit, InvStep, PTL DEF Spec

\* No solve of any length, and no reset at any point of it, mixes the warm state
\* of two EKF epochs.
THEOREM WarmStateCorrect == Spec => []WarmStateOfOneEpoch
<1>1. IInv => WarmStateOfOneEpoch
  BY DEF IInv, EpochInv, WarmStateOf, WarmStateOfOneEpoch
<1> QED
  BY <1>1, Invariance, PTL

\* InstallSolution never installs, and a finished Reset never leaves behind, a
\* solution of an older EKF epoch, for any number of resets.
THEOREM SolutionCorrect == Spec => []SolutionOfCurrentEpoch
<1>1. IInv => SolutionOfCurrentEpoch
  BY DEF IInv, EpochInv
<1> QED
  BY <1>1, Invariance, PTL

\* A command that was skipped as too old or refused by the publisher is never
\* recorded as applied or as published.
THEOREM FeedbackCorrect == Spec => []FeedbackIsLastSent
<1>1. IInv => FeedbackIsLastSent
  BY DEF IInv
<1> QED
  BY <1>1, Invariance, PTL

\* Marking a publication never hides a newer solution that was completed while the
\* publication was under way.
THEOREM EligibilityCorrect == Spec => []NewerStaysEligible
<1>1. IInv => NewerStaysEligible
  <2> SUFFICES ASSUME IInv, latest_solution # None,
                      published_solution_generation = latest_solution_generation
               PROVE  sending = latest_solution
    BY DEF NewerStaysEligible
  <2>1. latest_solution_generation >= 1 /\ latest_solution_generation \in Nat
    BY BoundsAssumption
    DEF IInv, TypeOK, ValueTypes, OptionalOrigin, Origin, Generation, OrderInv
  <2>2. sending # None /\ latest_solution_generation <= sending.generation
    BY <2>1 DEF IInv, OrderInv
  <2>3. sending.generation <= latest_solution_generation
    BY <2>2 DEF IInv, OrderInv
  <2>4. sending.generation \in Nat
    BY <2>2 DEF IInv, TypeOK, ValueTypes, OptionalOrigin, Origin, Generation
  <2> QED
    BY <2>1, <2>2, <2>3, <2>4 DEF IInv, OrderInv
<1> QED
  BY <1>1, Invariance, PTL

-----------------------------------------------------------------------------
(* The runtime implements FreshestOnly.                                    *)

\* The threads start where FreshestOnly starts.
LEMMA PromiseInit == Init => Promise!Init
  BY DEF Init, Promise!Init, Holding

\* Every critical section accepts a generation, starts a solve on the newest one,
\* sends a command of one not sent before, or does nothing FreshestOnly can see.
LEMMA PromiseStep == IInv /\ [Next]_vars => [Promise!Next]_(Promise!vars)
<1> SUFFICES ASSUME IInv, [Next]_vars PROVE [Promise!Next]_(Promise!vars)
  OBVIOUS
<1> USE BoundsAssumption, NoneAssumption
<1> DEFINE Publishing == control_pc \in {"record", "mark"}
<1> DEFINE Sent == IF last_sent_control = None THEN 0
                   ELSE last_sent_control.generation
<1>1. CASE OnObservation \/ ResetWorkers
  <2>1. /\ observation_generation' = observation_generation + 1
        /\ UNCHANGED workerVars
    BY <1>1 DEF OnObservation, ResetWorkers
  <2>2. Promise!Accept
    BY <2>1 DEF Promise!Accept, Holding
  <2> QED
    BY <2>2 DEF Promise!Next
<1>2. CASE SolverTakesReset \/ SolverTakesObservation
  <2>1. UNCHANGED <<observation_generation, controlVars>> /\ solver_pc = "wait"
    BY <1>2 DEF SolverTakesReset, SolverTakesObservation
  <2>2. ~Holding
    BY <2>1 DEF Holding
  <2>3. CASE ObservationWaiting /\ TakeObservation
    <3>1. generation < observation_generation
      BY <2>2, <2>3 DEF ObservationWaiting, IInv, TypeOK, ValueTypes, OrderInv
    <3>2. Holding'
      BY <1>2, <2>3
      DEF SolverTakesReset, SolverTakesObservation, ObservationWaiting,
          TakeObservation, Holding
    <3>3. generation' = observation_generation
      BY <2>3 DEF TakeObservation
    <3>4. Promise!Start
      BY <2>1, <2>2, <3>1, <3>2, <3>3 DEF Promise!Start, IInv, TypeOK, ValueTypes
    <3> QED
      BY <3>4 DEF Promise!Next
  <2>4. CASE ~(ObservationWaiting /\ TakeObservation)
    <3>1. UNCHANGED generation /\ observation' = None /\ solver_pc' = "reset"
      BY <1>2, <2>4 DEF SolverTakesReset, SolverTakesObservation
    <3>2. ~Holding'
      BY <3>1 DEF Holding
    <3> QED
      BY <2>1, <2>2, <3>1, <3>2 DEF Promise!vars, Holding
  <2> QED
    BY <2>3, <2>4
<1>3. CASE SendCommand
  <2>1. /\ UNCHANGED <<sharedVars, solverVars, controllerVars, sending>>
        /\ control_pc = "send"
    BY <1>3 DEF SendCommand
  <2>2. CASE last_sent_control' = sending /\ control_pc' = "record"
    <3>1. sending # None /\ sending.generation \in Nat /\ sending.generation >= 1
      BY <2>1 DEF IInv, TypeOK, ValueTypes, OptionalOrigin, Origin, Generation
    <3>2. sending.generation <= generation /\ generation \in Nat
      BY <3>1 DEF IInv, OrderInv, TypeOK, ValueTypes
    <3>3. last_sent_control # None =>
            /\ last_sent_control.generation \in Nat
            /\ last_sent_control.generation < sending.generation
      BY <2>1 DEF IInv, OrderInv, TypeOK, ValueTypes, OptionalOrigin, Origin,
                  Generation
    <3>4. Sent' \in (Sent + 1) .. generation
      BY <2>2, <3>1, <3>2, <3>3
    <3>5. ~Publishing /\ Publishing'
      BY <2>1, <2>2
    <3>6. Promise!Send
      BY <2>1, <3>4, <3>5 DEF Promise!Send, Holding
    <3> QED
      BY <3>6 DEF Promise!Next
  <2>3. CASE UNCHANGED last_sent_control /\ control_pc' = "wait"
    BY <2>1, <2>3 DEF Promise!vars, Holding
  <2> QED
    BY <1>3, <2>2, <2>3 DEF SendCommand
<1>4. CASE FinishSolve
  <2>1. /\ UNCHANGED <<observation_generation, takenVars, controlVars>>
        /\ solver_pc = "solved"
        /\ solver_pc' = "wait"
    BY <1>4 DEF FinishSolve
  <2>2. Holding /\ ~Holding'
    BY <2>1 DEF Holding
  <2>3. Promise!FinishSolving
    BY <2>1, <2>2 DEF Promise!FinishSolving
  <2> QED
    BY <2>3 DEF Promise!Next
<1>5. CASE MarkPublished
  <2>1. /\ UNCHANGED <<mailboxVars, solverVars, last_sent_control>>
        /\ control_pc = "mark"
        /\ control_pc' = "wait"
    BY <1>5 DEF MarkPublished
  <2>2. Promise!FinishPublishing
    BY <2>1 DEF Promise!FinishPublishing, Holding
  <2> QED
    BY <2>2 DEF Promise!Next
<1>6. CASE OnObservationRejected \/ ResetSolution \/ Stop
  <2>1. UNCHANGED <<mailboxVars, workerVars>>
    BY <1>6 DEF OnObservationRejected, ResetSolution, Stop
  <2> QED
    BY <2>1 DEF Promise!vars, Holding
<1>7. CASE \/ ControllerReset \/ UpdateObservation \/ PlanLatest
          \/ InstallSolution \/ SolverExits
  <2>1. UNCHANGED <<mailboxVars, takenVars, controlVars>>
    BY <1>7 DEF ControllerReset, UpdateObservation, PlanLatest, InstallSolution,
                SolverExits
  <2>2. Holding' <=> Holding
    BY <1>7 DEF ControllerReset, UpdateObservation, PlanLatest, InstallSolution,
                SolverExits, Holding
  <2> QED
    BY <2>1, <2>2 DEF Promise!vars, Holding
<1>8. CASE \/ ControlWakes \/ ControlDue \/ CopySolution \/ SkipStaleSolution
          \/ RecordCommand \/ ControlExits
  <2>1. UNCHANGED <<mailboxVars, solverVars, last_sent_control>>
    BY <1>8 DEF ControlWakes, ControlDue, CopySolution, SkipStaleSolution,
                RecordCommand, ControlExits
  <2>2. Publishing' <=> Publishing
    BY <1>8 DEF ControlWakes, ControlDue, CopySolution, SkipStaleSolution,
                RecordCommand, ControlExits
  <2> QED
    BY <2>1, <2>2 DEF Promise!vars, Holding
<1>9. CASE UNCHANGED vars
  BY <1>9 DEF Promise!vars, Holding
<1> QED
  BY <1>1, <1>2, <1>3, <1>4, <1>5, <1>6, <1>7, <1>8, <1>9
  DEF Next, Solver, Control, Terminated

\* At most one solve per accepted generation, on the newest one, and commands that
\* leave once and in order, for any number of observations and resets.
THEOREM Implementation == Spec => ImplementsFreshestOnly
  BY PromiseInit, PromiseStep, Invariance, PTL
  DEF Spec, ImplementsFreshestOnly, Promise!Spec

=============================================================================
