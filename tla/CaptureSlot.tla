---------------------------- MODULE CaptureSlot -----------------------------
(***************************************************************************)
(* The one capture slot of the CUDA optimizer: rollouts and cost terms of  *)
(* a solve on their way to the visualization thread.                       *)
(*                                                                         *)
(* The solver thread stages a capture in the slot when the slot is free    *)
(* and only enqueues its GPU work; QueueCapture hands the solution it      *)
(* belongs to over to the visualization worker, which waits for the GPU,   *)
(* reads the slot and frees it.  The flag capture_busy_ is an atomic and   *)
(* no mutex orders the slot's fields, so one action is one access to the   *)
(* flag, or the accesses to the fields between two of them.  An EKF reset  *)
(* and the shutdown cut across both threads.                               *)
(***************************************************************************)
EXTENDS Naturals

CONSTANTS
  MaxCapture,        \* bound on next_capture_id_
  MaxEpoch,          \* bound on reset_epoch_
  None               \* an empty optional

ASSUME BoundsAssumption ==
  /\ MaxCapture \in Nat
  /\ MaxEpoch \in Nat

\* What a solve may be asked to capture.
Part == {"rollouts", "cost_terms"}

CaptureId == 1 .. MaxCapture
Epoch == 0 .. MaxEpoch

\* What the slot's fields hold, and what CollectCapture returns.
Capture == [id : 0 .. MaxCapture, parts : SUBSET Part]

\* A CaptureWork: the solution it belongs to knows the id of its capture.
Work == [id : CaptureId, parts : SUBSET Part, epoch : Epoch]

ASSUME NoneAssumption ==
  /\ None \notin Capture
  /\ None \notin Work
  /\ None \notin Epoch

VARIABLES
  \* the optimizer's slot
  capture_busy,         \* the atomic flag
  slot,                 \* capture_id_, capture_rollouts_ and capture_cost_terms_
  next_capture_id,
  gpu,                  \* whether capture_event_ has completed
  \* under the runtime's mutexes
  reset_epoch,
  pending_capture,
  latest_cost_terms,    \* epoch of the cost terms the information thread logs
  stop_workers,
  stop_visualization,
  callback_pc,
  \* the solver thread
  solver_pc,
  solve_epoch,
  parts,                \* what this solve captures
  leaked,               \* auxiliary: a solve threw after it had staged a capture
  \* the visualization thread
  worker_pc,
  capture_work,
  capture               \* what CollectCapture returned, or None

slotVars == <<capture_busy, slot, next_capture_id, gpu>>
stopVars == <<stop_workers, stop_visualization>>
runtimeVars ==
  <<reset_epoch, pending_capture, latest_cost_terms, stopVars, callback_pc>>
solverVars == <<solver_pc, solve_epoch, parts, leaked>>
workerVars == <<worker_pc, capture_work, capture>>

vars == <<slotVars, runtimeVars, solverVars, workerVars>>

Init ==
  /\ capture_busy = FALSE
  /\ slot = [id |-> 0, parts |-> {}]
  /\ next_capture_id = 0
  /\ gpu = "done"
  /\ reset_epoch = 0
  /\ pending_capture = None
  /\ latest_cost_terms = None
  /\ stop_workers = FALSE
  /\ stop_visualization = FALSE
  /\ callback_pc = "idle"
  /\ solver_pc = "idle"
  /\ solve_epoch = 0
  /\ parts = {}
  /\ leaked = FALSE
  /\ worker_pc = "wait"
  /\ capture_work = None
  /\ capture = None

-----------------------------------------------------------------------------
(* The solver thread.                                                      *)

\* A solve starts; the two capture periods decide what it is asked to capture.
StartSolve ==
  /\ solver_pc = "idle"
  /\ ~stop_workers
  /\ next_capture_id < MaxCapture
  /\ solve_epoch' = reset_epoch
  /\ parts' \in SUBSET Part
  /\ solver_pc' = "solve"
  /\ UNCHANGED <<slotVars, runtimeVars, leaked, workerVars>>

\* Faulty variant: the slot is not looked at.
CheckSlotNever ==
  /\ solver_pc = "solve"
  /\ solver_pc' \in {IF parts = {} THEN "idle" ELSE "stage", "idle"}
  /\ UNCHANGED <<slotVars, runtimeVars, solve_epoch, parts, leaked, workerVars>>

\* Solve looks at the slot when it starts and stages much later.  A request that
\* finds the slot busy is dropped; so is one whose solve throws.
CheckSlot ==
  /\ solver_pc = "solve"
  /\ solver_pc' \in {IF capture_busy \/ parts = {} THEN "idle" ELSE "stage", "idle"}
  /\ UNCHANGED <<slotVars, runtimeVars, solve_epoch, parts, leaked, workerVars>>

\* StageCapture up to its last store: GPU work is enqueued, then the fields are
\* written.  A CUDA error on the way throws before any field is touched.
StageCapture ==
  /\ solver_pc = "stage"
  /\ \/ /\ gpu' = "running"
        /\ slot' = [id |-> next_capture_id + 1, parts |-> parts]
        /\ next_capture_id' = next_capture_id + 1
        /\ solver_pc' = "staged"
     \/ /\ gpu' \in {gpu, "running"}
        /\ solver_pc' = "idle"
        /\ UNCHANGED <<slot, next_capture_id>>
  /\ UNCHANGED <<capture_busy, runtimeVars, solve_epoch, parts, leaked, workerVars>>

\* The store that hands the slot to the collector.
HandOver ==
  /\ solver_pc = "staged"
  /\ capture_busy' = TRUE
  /\ solver_pc' = "finish"
  /\ UNCHANGED <<slot, next_capture_id, gpu, runtimeVars, solve_epoch, parts,
                 leaked, workerVars>>

\* The rest of Solve and PlanLatest throws: SolveOnce returns without the id.
SolveThrows ==
  /\ solver_pc = "finish"
  /\ leaked' = TRUE
  /\ solver_pc' = "idle"
  /\ UNCHANGED <<slotVars, runtimeVars, solve_epoch, parts, workerVars>>

\* Queued even if a reset has made the solve stale.
QueueCapture ==
  /\ solver_pc = "finish"
  /\ pending_capture' = [id |-> slot.id, parts |-> parts, epoch |-> solve_epoch]
  /\ solver_pc' = "idle"
  /\ UNCHANGED <<slotVars, reset_epoch, latest_cost_terms, stopVars, callback_pc,
                 solve_epoch, parts, leaked, workerVars>>

SolverExits ==
  /\ solver_pc = "idle"
  /\ stop_workers
  /\ solver_pc' = "stopped"
  /\ UNCHANGED <<slotVars, runtimeVars, solve_epoch, parts, leaked, workerVars>>

-----------------------------------------------------------------------------
(* The GPU: capture_event_ completes when the work before it is done.      *)

CaptureCompletes ==
  /\ gpu = "running"
  /\ gpu' = "done"
  /\ UNCHANGED <<capture_busy, slot, next_capture_id, runtimeVars, solverVars,
                 workerVars>>

-----------------------------------------------------------------------------
(* The visualization thread.                                               *)

\* Faulty variant: the worker trusts every wake-up, also the one for static paths.
TakeAnyWork ==
  /\ worker_pc = "wait"
  /\ ~stop_visualization
  /\ capture_work' = pending_capture
  /\ pending_capture' = None
  /\ worker_pc' = "collect"
  /\ UNCHANGED <<slotVars, reset_epoch, latest_cost_terms, stopVars, callback_pc,
                 solverVars, capture>>

TakeCapture ==
  /\ worker_pc = "wait"
  /\ ~stop_visualization
  /\ pending_capture # None
  /\ capture_work' = pending_capture
  /\ pending_capture' = None
  /\ worker_pc' = "collect"
  /\ UNCHANGED <<slotVars, reset_epoch, latest_cost_terms, stopVars, callback_pc,
                 solverVars, capture>>

\* CollectCapture returns nothing when the slot is free.
FindSlot ==
  /\ worker_pc = "collect"
  /\ worker_pc' = IF capture_busy THEN "read" ELSE "wait"
  /\ UNCHANGED <<slotVars, runtimeVars, solverVars, capture_work, capture>>

\* Faulty variant: the slot is freed before it is read.
ReadFreedSlot ==
  /\ worker_pc = "read"
  /\ capture_busy' = FALSE
  /\ gpu = "done"
  /\ capture' \in {slot, None}
  /\ worker_pc' = "release"
  /\ UNCHANGED <<slot, next_capture_id, gpu, runtimeVars, solverVars, capture_work>>

\* Faulty variant: the worker gives up when the readback fails.
ReadOrGiveUp ==
  /\ worker_pc = "read"
  /\ \/ /\ gpu = "done"
        /\ capture' = slot
        /\ worker_pc' = "release"
     \/ /\ capture' = None
        /\ worker_pc' = "wait"
  /\ UNCHANGED <<slotVars, runtimeVars, solverVars, capture_work>>

\* The worker sleeps until the GPU is done and copies the slot; the wait or an
\* allocation may throw instead, and Release runs all the same.
ReadSlot ==
  /\ worker_pc = "read"
  /\ \/ /\ gpu = "done"
        /\ capture' = slot
     \/ capture' = None
  /\ worker_pc' = "release"
  /\ UNCHANGED <<slotVars, runtimeVars, solverVars, capture_work>>

Release ==
  /\ worker_pc = "release"
  /\ capture_busy' = FALSE
  /\ worker_pc' = IF capture = None THEN "wait" ELSE "check"
  /\ UNCHANGED <<slot, next_capture_id, gpu, runtimeVars, solverVars, capture_work,
                 capture>>

\* A capture of another solve, or of another epoch, is not published.
CheckCapture ==
  /\ worker_pc = "check"
  /\ worker_pc' =
       IF capture.id = capture_work.id /\ capture_work.epoch = reset_epoch
         THEN "publish"
         ELSE "wait"
  /\ UNCHANGED <<slotVars, runtimeVars, solverVars, capture_work, capture>>

\* Markers and cost terms go out; total() of the terms may not be finite.
PublishCapture ==
  /\ worker_pc = "publish"
  /\ \/ /\ "cost_terms" \in capture.parts
        /\ latest_cost_terms' = capture_work.epoch
     \/ UNCHANGED latest_cost_terms
  /\ worker_pc' = "wait"
  /\ UNCHANGED <<slotVars, reset_epoch, pending_capture, stopVars, callback_pc,
                 solverVars, capture_work, capture>>

WorkerExits ==
  /\ worker_pc = "wait"
  /\ stop_visualization
  /\ worker_pc' = "stopped"
  /\ UNCHANGED <<slotVars, runtimeVars, solverVars, capture_work, capture>>

-----------------------------------------------------------------------------
(* Reset and the destructor, from the node's thread.                       *)

ResetWorkers ==
  /\ callback_pc = "idle"
  /\ ~stop_workers
  /\ reset_epoch < MaxEpoch
  /\ reset_epoch' = reset_epoch + 1
  /\ callback_pc' = "reset_solution"
  /\ UNCHANGED <<slotVars, pending_capture, latest_cost_terms, stopVars, solverVars,
                 workerVars>>

ResetSolution ==
  /\ callback_pc = "reset_solution"
  /\ latest_cost_terms' = None
  /\ callback_pc' = "reset_visualization"
  /\ UNCHANGED <<slotVars, reset_epoch, pending_capture, stopVars, solverVars,
                 workerVars>>

\* Faulty variant: the pending capture is dropped with the rest.
ResetAllVisualization ==
  /\ callback_pc = "reset_visualization"
  /\ pending_capture' = None
  /\ callback_pc' = "idle"
  /\ UNCHANGED <<slotVars, reset_epoch, latest_cost_terms, stopVars, solverVars,
                 workerVars>>

\* The pending capture is kept: the worker has to collect it to free the slot.
ResetVisualization ==
  /\ callback_pc = "reset_visualization"
  /\ callback_pc' = "idle"
  /\ UNCHANGED <<slotVars, reset_epoch, pending_capture, latest_cost_terms,
                 stopVars, solverVars, workerVars>>

Stop ==
  /\ callback_pc = "idle"
  /\ ~stop_workers
  /\ stop_workers' = TRUE
  /\ UNCHANGED <<slotVars, reset_epoch, pending_capture, latest_cost_terms,
                 stop_visualization, callback_pc, solverVars, workerVars>>

\* The visualization thread is stopped after the solver thread was joined.
StopVisualization ==
  /\ stop_workers
  /\ solver_pc = "stopped"
  /\ ~stop_visualization
  /\ stop_visualization' = TRUE
  /\ pending_capture' = None
  /\ UNCHANGED <<slotVars, reset_epoch, latest_cost_terms, stop_workers,
                 callback_pc, solverVars, workerVars>>

-----------------------------------------------------------------------------

Solver ==
  \/ StartSolve
  \/ CheckSlot
  \/ StageCapture
  \/ HandOver
  \/ SolveThrows
  \/ QueueCapture
  \/ SolverExits

Worker ==
  \/ TakeCapture
  \/ FindSlot
  \/ ReadSlot
  \/ Release
  \/ CheckCapture
  \/ PublishCapture
  \/ WorkerExits

\* Both threads joined: the destructor is done.
Terminated ==
  /\ solver_pc = "stopped"
  /\ worker_pc = "stopped"
  /\ UNCHANGED vars

Next ==
  \/ Solver
  \/ Worker
  \/ CaptureCompletes
  \/ ResetWorkers
  \/ ResetSolution
  \/ ResetVisualization
  \/ Stop
  \/ StopVisualization
  \/ Terminated

\* Both threads run and the GPU finishes what it was given.
Fairness ==
  /\ WF_vars(Solver)
  /\ WF_vars(Worker)
  /\ WF_vars(CaptureCompletes)

Spec == Init /\ [][Next]_vars

FairSpec == Spec /\ Fairness

-----------------------------------------------------------------------------
(* Properties.                                                             *)

FlagTypes ==
  /\ capture_busy \in BOOLEAN
  /\ stop_workers \in BOOLEAN
  /\ stop_visualization \in BOOLEAN
  /\ leaked \in BOOLEAN

ValueTypes ==
  /\ slot \in Capture
  /\ next_capture_id \in 0 .. MaxCapture
  /\ gpu \in {"running", "done"}
  /\ reset_epoch \in Epoch
  /\ pending_capture \in Work \cup {None}
  /\ latest_cost_terms \in Epoch \cup {None}
  /\ callback_pc \in {"idle", "reset_solution", "reset_visualization"}
  /\ solver_pc \in {"idle", "solve", "stage", "staged", "finish", "stopped"}
  /\ solver_pc \in {"solve", "stage"} => next_capture_id < MaxCapture
  /\ solver_pc \in {"staged", "finish"} => slot.id > 0
  /\ solve_epoch \in Epoch
  /\ parts \in SUBSET Part
  /\ worker_pc \in
       {"wait", "collect", "read", "release", "check", "publish", "stopped"}
  /\ capture_work \in Work \cup {None}
  /\ capture \in Capture \cup {None}
  /\ worker_pc \in {"collect", "read", "release", "check", "publish"} =>
       capture_work # None
  /\ worker_pc \in {"check", "publish"} => capture # None

\* The type invariant: fields keep their types, the worker has a work item
\* whenever it is past its wait, and a capture once it has read one.
TypeOK == FlagTypes /\ ValueTypes

\* The solver writes the slot's fields only while the collector does not read
\* them, though it looked at the flag long before: what cuda_mppi.cu says of the
\* slot at its declaration.
SlotHasOneOwner ==
  solver_pc \in {"stage", "staged"} => worker_pc \notin {"read", "release"}

Collecting ==
  \/ solver_pc = "finish"
  \/ pending_capture # None
  \/ worker_pc \in {"collect", "read", "release"}

\* While the runtime runs and no solve threw after staging, a busy slot is on its
\* way to the queue, in the queue, or in the worker's hands: no reset and no
\* failing readback loses it.
BusySlotIsCollected ==
  capture_busy /\ ~stop_visualization /\ ~leaked => Collecting

\* Every staged capture reaches the worker, or the slot is never freed and
\* captures stop: what runtime.hpp says of pending_capture_.  It does not hold
\* when a solve throws after staging: see the run capture_leak.
EveryCaptureReachesWorker ==
  capture_busy /\ ~stop_visualization => Collecting

\* No capture is lost and none is paired with another solve's trajectory: the
\* worker finds the slot busy, and finds in it the capture, with the parts, that
\* the solution it was handed was staged with.
CaptureIsOfItsWork ==
  /\ worker_pc \in {"collect", "read"} =>
       /\ capture_busy
       /\ slot.id = capture_work.id
       /\ slot.parts = capture_work.parts
  /\ worker_pc \in {"check", "publish"} => capture.id = capture_work.id
  /\ pending_capture # None => solver_pc \notin {"stage", "staged", "finish"}

\* The slot does not stay busy: whatever a reset or a failing readback does, the
\* next capture can be staged after a while, unless a solve threw after staging.
SlotIsFreed == capture_busy ~> ~capture_busy \/ stop_visualization \/ leaked

=============================================================================
