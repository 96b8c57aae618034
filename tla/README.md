# Verification of xx_mppi

TLA+ models, TLC runs and TLAPS proofs for the MPPI controller node in this
repository. One half is about what the node's threads do to each other: a 100 Hz
solver, a command publisher, a visualization worker, an obstacle worker, a
friction and a grip thread and two ROS callbacks share mailboxes, a warm state
and a GPU, and an EKF reset cuts across all of them. The other half is about
sequential code in which an order, a stale value or a boundary is easy to get
wrong: the warm start over a sequence of messages and failures, the rollout that
is cut into kernels, the temporal filter, the distance transform, and start-up.
Paths below are relative to the repository.

## 1. The system

### Components

| component | code | state it keeps | operations |
|---|---|---|---|
| node: state intake | `src/ros/mppi_node.cpp`, `ekf_state_adapter.cpp` | last accepted time and reset counter, no-overtake flag, pose history and its epoch | `StateCallback`: adapt, validate the time, on a new reset counter clear the poses and `Reset` the runtime, then `OnObservation`, then add the pose |
| node: obstacle worker | `mppi_node.cpp`, `src/obstacles/` | one-element scan mailbox, cached laser transform, temporal tracks, field generation | `ScanCallback`, `ObstacleWorker`: copy poses, deskew, check the epoch, update tracks, build a field, check again, hand over |
| runtime: solver | `src/ros/runtime.cpp` | one-element observation mailbox, generations, reset epoch and flag, pending field, fed-back command | `OnObservation`, `SetObstacleField`, `Reset`, `SolverWorker`, `SolveOnce` |
| runtime: command publication | `runtime.cpp` | latest and published solution with their generations, work flag, last command and time | `ControlWorker`, `ControlPublicationCallback` |
| runtime: visualization | `runtime.cpp` | pending capture, static paths and costmap, latest cost terms | `QueueCapture`, `VisualizationWorker`, `PublishCapture` |
| runtime: friction, grip, information | `runtime.cpp`, `grip_monitor.cpp`, `mu_estimator.cpp` | applied vehicle parameters with a generation, filters, latch | `MuEstimateWorker`, grip status, information log |
| controller | `src/controller/mppi_controller.cpp` | projection hint, previous pose time, last applied control, `reset_next_` | `UpdateObservation`, `PlanLatest`, `Reset`, `RecordPublishedControl` |
| CUDA optimizer | `src/cuda/cuda_mppi.cu` | nominal controls, adaptation state, field on the GPU, capture slot | `Solve`, `StageCapture`, `CollectCapture`, `UpdateObstacleField`, `ClearObstacleField`, `ShiftNominal` |
| distance field | `src/obstacles/signed_distance_field.cpp` | scratch rows | `Build`, `SquaredDistanceTransform`, sampling |
| raceline | `src/reference/raceline.cpp` | hint of the continuous projection | wrap, unwrap, project, sample |
| costs, dynamics, TensorRT | `src/costs`, `src/dynamics` | latches along one rollout | closed formulas, integration |
| start-up and configuration | `ros/main.cpp`, the constructors, `src/controller/config.cpp`, `builder.cpp` | the options, and what has been built so far | check and construct in order; unwind on an exception |
| messages, tools | `src/ros/*_message.cpp`, `launch`, `tools` | none | convert |

### How they interact

- **Mailboxes.** States and scans are latest-only: a callback replaces one
  element, a worker takes it. Generations tell a worker that there is something
  new; they are compared, never queued.
- **Mutexes.** `worker_mutex_` guards mailbox, epoch, reset flag, work flag and
  fed-back command; `solution_mutex_` the latest and the published solution;
  `visualization_mutex_` what the visualization worker is handed;
  `applied_vehicle_mutex_` the friction hand-over; `pose_history_mutex_` and
  `scan_mutex_` the node's own. `SolveOnce` takes the second inside the first;
  `Reset` takes them one after the other. Solving, publishing, deskewing and
  building happen outside all of them.
- **Atomics.** The pending field is a shared pointer loaded without a lock; the
  capture slot is guarded by one atomic flag.
- **Condition variables.** Solver, publisher and visualization wait on
  predicates that differ from each other, the first two also on a time.
- **Epochs.** An EKF reset moves `pose_epoch_` in the node and `reset_epoch_` in
  the runtime, in that order and under different mutexes. Whoever worked
  unlocked compares its epoch before it hands its result over.

### What is hard, and what makes each part correct

- *Publication path.* A reset between any two critical sections of a solve or a
  publication; a solve finishing during a publication; a throw in the solver, or
  in a publisher. Correct: no state, solution or warm start of one EKF epoch is
  used in another; a generation is solved and sent at most once and in order;
  what is recorded as applied was sent; nothing is forgotten; the node can stop.
- *Capture slot.* Two threads around one atomic flag, with throws on both sides.
  Correct: one owner at a time, each capture paired with its solve, the slot
  always freed.
- *Obstacle pipeline.* Two epoch counts, two early checks and one check that
  decides; a field loaded before a reset and uploaded after; a remembered
  generation. Correct: no map frames mixed, no field outlives its epoch, each
  plan sees the field on offer.
- *State intake and warm start.* Messages that are late, repeated or out of order,
  an observation rejected after the reset it brought was carried out, a solve that
  throws after it has shifted the nominal sequence. Correct: the controller only
  ever moves forward in time, a warm start is recent and of its own epoch, and the
  slew limit survives clamping, averaging and shifting.
- *Rollouts.* The same cost is computed by one kernel, by a sequence of kernels
  around TensorRT, by a breakdown and by the host; rollouts diverge. Correct: they
  agree, and a diverged rollout is neither weighted nor picked before a finite one.
- *Friction and grip.* Two more threads with clocks and epochs of their own.
  Correct: a plan is made with the coefficient on offer, the flag follows a
  condition that held, the peaks are of the epoch and of nothing measured before.
- *Pose history, temporal filter, distance field.* Results depend on order
  (tracks), on a stale index, on a stale intermediate value (the lower envelope).
  Correct: the documented or mathematical definition, on every input.
- *Start-up.* Constructors that throw after threads have been started; two layers
  of checks that treat NaN and infinity differently. Correct: a failing start-up
  leaves nothing behind and says so, and what the loader accepted can be built.
- *Raceline.* Wrap-around at the seam and the window around the hint.

`PROJECT.json` lists each hazard at its line.

## 2. The modules

| module | models |
|---|---|
| `FreshestOnly` | the abstract promise: newest generation first, each solved and sent at most once, in order |
| `MppiRuntime` | state callback, `Reset`, solver thread, control thread, destructor; the controller's warm state by origin |
| `MppiRuntimeProofs` | its theorems, and that it implements `FreshestOnly` |
| `CaptureSlot` | `StageCapture`, `QueueCapture`, `VisualizationWorker`, `CollectCapture`, `PublishCapture`, `Reset` and destructor as they touch the slot |
| `CaptureSlotProofs` | its theorems |
| `ObstaclePipeline` | the node's two callbacks, `ObstacleWorker`, `SetObstacleField`, and the solver's load, upload and clearing of the field |
| `ObstaclePipelineProofs` | its theorems |
| `SamplingUpdate` | one iteration of the sampling update for one control channel: seed, candidates, slew limit, mean, shift (operators) |
| `Planner` | from an EKF message to a solution: state callback, mailbox, `MppiController`, and the optimizer's nominal sequence |
| `PlannerProofs` | its theorems, and lemmas about the operators of `SamplingUpdate`, for every horizon |
| `RolloutCosts` | projection, dynamics stand-in and the cost of a rollout, as the device, the breakdown and the host compute it (operators) |
| `RolloutKernels` | the kernels of a solve: analytic or around TensorRT, then weights and selection |
| `RolloutKernelsProofs` | its theorems |
| `ObstacleMap` | pose history, deskewing, temporal filter, rasterising and distance transform (operators) |
| `Perception` | a car that drives, adds poses, scans; poses and scans may be lost, the epoch may change |
| `PerceptionProofs` | its theorems, and lemmas about the operators of `ObstacleMap` |
| `Friction` | friction thread, grip thread, and the solver's end of the hand-over |
| `FrictionProofs` | its theorems |
| `Startup` | `main` and the constructors in order, with what each rejects and what unwinding leaves |
| `StartupProofs` | its theorems |
| `MC*` | the instances TLC runs |

`MppiRuntime`, `CaptureSlot` and `ObstaclePipeline` cut the same threads along different
shared state, and each keeps of the others what it needs: the solver appears in all
three. `Planner` repeats the mailbox of `MppiRuntime` with a step per critical section
and adds what the generations hide: times and controls. It EXTENDS `SamplingUpdate`;
`RolloutKernels` is what lies between its candidates and its weights. `Perception` fills
in what `ObstaclePipeline` treats as an epoch.

### Correspondence

One action is one critical section, or one stretch of unlocked code between two.
A variable has the name of the member it stands for (without the underscore) or
of the local; `*_pc` says where a thread is. Definitions called a *faulty variant*
are no part of the models: each is what the action after it would be with a
plausible bug, and is what a property is tested against.

`MppiRuntime`. An observation is its generation and EKF epoch, and so are the
solution and the command that come from it. `OnObservation` and the sections
`ResetWorkers` and `ResetSolution` are the callback's; the callback group is
mutually exclusive, so they do not overlap. `Reset`'s third section touches only
visualization and is in `CaptureSlot`. `SolverTakesReset` and
`SolverTakesObservation` are the wait loop of `SolverWorker`: whether the
observation is taken in the section that consumes the reset flag depends on
`next_solve`, hence the choice. `UpdateObservation`, `PlanLatest`,
`InstallSolution` and `FinishSolve` are `SolveOnce` and what follows it, each with
its failure: a throw ends the solve, and the generation counts as solved.
`PlanLatest` that throws may or may not have shifted the nominal sequence.
`ControlWakes`, `ControlDue` and the five actions after them are `ControlWorker`
and `ControlPublicationCallback`, with the skip of an old solution and a publisher
that throws. The command fed back is *copied* by the solver (`std::move` from an
optional leaves it engaged), so it is not cleared.

`CaptureSlot`. The slot is the id and the parts (rollouts, cost terms) it holds;
`capture_busy` is the atomic. Looking at the flag (`CheckSlot`), writing the
fields (`StageCapture`) and setting the flag (`HandOver`) are separate steps, as are
looking (`FindSlot`), reading (`ReadSlot`) and freeing (`Release`). The GPU is one
external action, `CaptureCompletes`. `leaked` is auxiliary: it records that a solve
threw after it had staged.

`ObstaclePipeline`. Poses, tracks and points are reduced to the epochs they come
from, a field to its generation, epoch and the epochs of its points. `DeskewScan`
is the copy of the history together with the deskewing, which reads only the copy;
coverage is a choice. `BuildField` is `Clear` (if the epoch changed), `Update` and
`Build`: any tracks may be lost or confirmed, those of the scan come in. The solver is
reduced to what concerns the field; `observation_waiting` stands for "an observation
whose generation is not the solved one". A failed upload may leave the new field
on the GPU with its generation unrecorded.

`SamplingUpdate`. A control is an integer. Candidates are those of `BuildCandidates`: noise
from a small set, and the special samples (nominal, reference, lowest torque). The
weighted mean of any two candidates, rounded down, stands for the softmax mean, so every
weighting of two of them that the solver could come to is among the choices, up to the
rounding. A shift is counted in ticks, `Dt` to a step, so fractional shifts interpolate
as `ShiftNominal` does.

`Planner`. `StateCallback` is one step with four outcomes: rejected, accepted, accepted with a
reset, and *rejected after the reset it brought* (`ResetAndRejectState`), which leaves the old
reset counter and no accepted time. The solver's steps are those of `MppiRuntime`. `PlanFails`
leaves the nominal sequence untouched, even where it should have been seeded, or seeded, or
shifted; the controller does not remember the pose in either case. `PublishControl` sends any
control of the box: the output slew limit of the publisher may stop anywhere on the way. The
time checks of `OnObservation` repeat the node's and are part of the same step.

`RolloutCosts` and `RolloutKernels`. A kernel is a step for all samples; the stream keeps
them in order. State is what the cost branches on: speed, sideslip, lateral deviation and
arc length; the dynamics are an integer stand-in that may diverge (`NotFinite`), which is
enough because no property depends on what they compute. The smooth penalties of a state
are one term, the three latches, the two control terms, acceleration, deceleration and
progress are separate ones. Latches, hints and costs that the learned model's kernels
pass on through device arrays are variables; for the analytic kernel they are local.
`InferAsync` is external. `Softmax` is any falling function that ends in zero. The powers of
`crash_discount` are a table, `Discounts`: integers have no use for a base below one.

`ObstacleMap` and `Perception`. The car drives along one axis; a pose is its position and
speed, a point a pair of cells. `DeskewLaserScan`, `Update` and `Build` are operators of the
code's control flow: order of returns, the index that stays while tracks move, the
do-while of the lower envelope with the value it leaves behind. Loops of the code are
recursive functions of the loop counter (`Associations`, `FitParabola`, `LowerEnvelope`,
`Pieces`). Distances are squared.
`ProcessScan` is one step, since `ObstaclePipeline` has its interruptions.

`Friction`. Accelerations are not computed: a filtered measurement is the oldest observation
that is still mixed into it (the first finite one after the monitor has started over replaces
the filter, later ones are blended with it, and `Reset` leaves it alone), and whether the
shortfall condition holds is a choice at each update. The time constant of the filter is
positive, as its default is and as nothing overrides. The filtered prediction needs no such
history: a value that is not finite makes it NaN, and the next replaces it. The fit is a choice
between the old estimate and any value of the grid. `GripReadsObservation`,
`GripReadsSolution` and `GripUpdatesMonitor` are the two critical sections of
`PublishGripStatus` and what follows them. `offered`, the fields `offered` and
`condition` of the records and `started` of the monitor are history for the properties.

`Startup`. One action per constructor or group of statements that may throw. Numbers are
small integers, `Infinity` or `NaN` and compare as IEEE numbers do (`Less`, `AtMost` are
false of NaN, their negations true), which is how the loader's checks let them pass.
Options that the same comparison checks in the same place share a field. A malformed topic name
is rejected when its publisher or subscription is created, an empty one where the code looks for
it. The GPU is one switch, `device`; only an infinite obstacle grid may fail there by itself.

## 3. The runs

| run | bounds | states | shows |
|---|---|---|---|
| `runtime` | 5 generations, 2 resets, rate limit on | about 183 000 | `TypeOK`, `WarmStateOfOneEpoch`, `SolutionOfCurrentEpoch`, `FeedbackIsLastSent`, `NewerStaysEligible`, the refinement `ImplementsFreshestOnly`, and the liveness properties `ObservationIsTaken`, `SolutionReachesControl`, `ResetReachesController`, `ShutdownCompletes` |
| `capture_slot` | 3 captures, 2 resets | about 230 000 | `SlotHasOneOwner`, `BusySlotIsCollected`, `CaptureIsOfItsWork`, `SlotIsFreed` |
| `obstacle_pipeline` | 3 fields, 2 resets | about 690 000 | `FieldOfCurrentEpoch`, `OldFieldIsBeingCleared`, `PlanSeesFieldOnOffer`, `OldFieldIsCleared`, `WorkerStops` |
| `planner` | horizon 3, 1 delayed step, 2 ticks a step, slew limit 1, 4 ticks, 1 reset, 2 reset counters | about 990 000 | `TypeOK`, `ElapsedIsPositive`, `NominalIsRecent`, `SlewLimited` |
| `rollout_kernels` | horizon 2, 2 substeps, 3 samples, 3 initial states, both frames, both models | about 200 000 | `KernelsAgree`, `BreakdownSumsToCost`, `HostAgreesFromCleanStart`, `PicksAreBest` |
| `perception` | 4 ticks, 1 reset, 2 rays, 2 places, 2 speeds, 4x2 grid | about 91 000 | `StandingPlacesStand`, `SpatialIndexIsExact`, `FieldPointsAreRecent`, `ConfirmedByConsecutiveScans`, `FieldHasRightSide` |
| `friction` | 5 pose times, 1 reset, 2 hand-overs, one thread at a time | about 5 350 000 | `PlanUsesFrictionOnOffer`, `LatchFollowsSteadyCondition`, `PeaksOfOneEpoch` |
| `startup` | a usable set of options, and all that differ from it at one or two places | about 126 000 | `AbruptExitIsAboutFriction`, `AcceptedOptionsBuild`, `NodeIsWholeOrGone` |
| `feedback_across_reset` | 4 generations, 1 reset | | violated: `FeedbackOfOneEpoch` |
| `capture_leak` | 2 captures, 1 reset | | violated: `EveryCaptureReachesWorker` |
| `distance_field` | as `perception` | | violated: `FieldIsEuclidean` |
| `filters_start_over` | 4 pose times, 1 reset, grip thread only | | violated: `FiltersStartOver` |

*Why the bounds suffice.* In the runs about threads all bounds count events, not threads: the
threads are the code's own. A reset uses one generation up, so five generations and two resets
leave three observations to be solved: one before, between and after the resets; with one reset
or none there are more to overtake each other. Nothing compares more than two epochs or more
than three generations (one in the mailbox, one being solved, one being sent). Three captures
reuse the slot twice. Three fields are two of one epoch and one of another, which is what the
remembered generation can confuse. The safety theorems hold without the bounds (section 5). With
the rate limit on, the control thread may also go on at once, so the behaviours of the other
mode are included.

- `planner`: the horizon has a delayed step, a free one and a last one that is held; a step of
  two ticks makes half-step shifts. The largest gap that still shifts is two ticks, so four
  ticks hold a gap that shifts, one that drops the plan, and a failed solve between two that
  succeed. The box is as wide as two slew steps, the measured command may lie outside it, and
  the noise exceeds the limit, so that limit, box and mean all bite.
- `rollout_kernels`: two stages of two substeps are the least that separate first, inner and
  last kernels, and let a latch of one stage be paid in the next. The initial states are at rest
  before an obstacle, fast across the seam of the lap (and may diverge), and off the track. Each
  term has a weight of its own, so that errors do not cancel. Three samples with two picks give
  ties and rests.
- `perception`: two scans confirm and one may be missed. Two places lie in different cells
  of the index and within the association distance, which is what the search of the
  nine cells is about; the retention of one tick trims the history within four.
- `friction`: latch time, peak window and the pause that starts the filters over are two ticks
  each, so five ticks set the latch and clear it again. Friction thread and grip thread share
  only the observation both read, so a state of both is a pair of states of each.
- `startup`: a check looks at one option, at two in a comparison, or is switched on by a second
  one; any two options differ from the usable set together. `StartupProofs` needs no such bound.

*Fairness.* Weak fairness of the solver, of the control thread or worker, of a `Reset`
under way and of the GPU's completion. The code justifies it: mutexes are held for a few
instructions, every wait has a notification or a time that ends it, callbacks run to
their end, and a stream finishes what was enqueued. Nothing is assumed of the EKF, of
the scanner, or of the shutdown, so no property promises progress without input.
A thread that loops is fair as a whole and not per action: a solve may fail every time.

*Deadlock* is checked in every run; where the code comes to an end the model says so
(`Terminated`, `Finished`, `Exited`). `Planner` and `Perception` reject a message by
stuttering (`RejectState`, `DropScan`), as the code does.

## 4. Findings

- **The command of an old epoch is fed back after a reset** (`feedback_across_reset`,
  `src/ros/runtime.cpp:952`). `docs/ros_integration.md:61` says a reset-counter change
  resets the warm start before the new state is installed. `Reset` clears
  `pending_published_control_`, but a control thread that copied the old solution before
  `solution_mutex_` was taken sends it and then fills that member again, without
  comparing epochs. The first solve of the new epoch takes it as the last applied control.
  What does hold, and is proved, is the rest of the warm state (`WarmStateOfOneEpoch`)
  and that the command fed back really was the one sent last (`FeedbackIsLastSent`).
- **A staged capture can leak its slot** (`capture_leak`,
  `src/cuda/cuda_mppi.cu:1833`). `runtime.hpp:177` says every staged capture must reach
  the worker. When the rest of `Solve` or of `PlanLatest` throws after `StageCapture`,
  `SolveOnce` returns without an id, nothing is queued, and no path frees the slot. What
  holds, and is proved, is `BusySlotIsCollected`: nothing else loses it.
- **The distance field is not Euclidean** (`distance_field`,
  `src/obstacles/signed_distance_field.cpp:32`). `docs/obstacle_avoidance.md:14` names a
  signed Euclidean distance field. The do-while of the lower envelope removes a piece and
  then tests its condition with the intersection it computed *for the removed piece*; if
  that lies right of the piece below, the loop ends and the stale value becomes a
  boundary. The row `[0, L, 0]` (`L` a free cell) gives `[4, 1, 0]` where the distance is
  `[0, 1, 0]`; `[L, 0, L, L]` leaves a cell at its large value. What
  does hold is that the sign is right and that no cell is taken for nearer than it is
  (`FieldHasRightSide`): a clearance read from the field is too large in magnitude,
  never too small.

- **A filter that starts over may keep what it held** (`filters_start_over`,
  `src/controller/grip_monitor.cpp:41`). Line 30 there says that a time jump starts the
  filters over. `Reset` leaves `measured_filtered_` in place, and only a finite measurement
  that comes *first* replaces it: after a NaN, which the adapter lets through, the old value
  goes into the window of peaks and every later measurement is blended with it. The runtime
  resets the monitor for a new EKF epoch the same way, so the peaks of the new epoch then hold
  acceleration of the old one. What does hold, and is proved, is `PeaksOfOneEpoch`: the entries
  are of observations of the epoch, and if the first measurement was finite, so is what is
  mixed into them.
Without a run of their own, but worth knowing:

- An exception from the grip or friction options (`src/ros/runtime.cpp:160-212`) comes after
  three threads were started in the same constructor; the members are destroyed with joinable
  threads and the process ends in `std::terminate` instead of the message `main` prints.
  `AbruptExitIsAboutFriction` says that these options are the only ones.
- A loader check of the form `value < 0` lets NaN pass, and infinity passes all of
  them; `LoaderGap` lists what a later constructor then rejects.
- `SlewLimited` speaks of plans from a command inside the box. A measured command outside
  of it makes the first step larger: the mean is clamped to the box after the limit.
- A solve that throws after the shift has its nominal sequence shifted again by the next
  one. `NominalIsRecent` bounds the error by the largest gap that still shifts.
- `docs/architecture.md:109` says that each iteration shifts the previous nominal sequence by
  the measured time and then samples. The code samples first and shifts its own result at the
  end (`src/cuda/cuda_mppi.cu:1799`), by the time that passed *before* the solve; the next solve
  draws around that, whatever time has passed since, and around an unshifted result after the
  first solve. Evenly spaced poses hide the difference. The model does what the code does;
  `NominalIsRecent` bounds how far the two may be apart, and does not tell them apart.
- The grip status evaluates the published plan with the vehicle parameters handed over last
  (`src/ros/runtime.cpp:794-800`); until the next solve the solver still plans with older ones.
  `PlanUsesFrictionOnOffer` is about the plans only.
- `test/test_config_message.cpp:281` expects a key `crash: padding` that
  `src/controller/config.cpp:382` does not read; only `buffer` is. The names of keys are not
  modelled.

## 5. The proofs

TLAPS checks, for every value of the constants, every safety and action property of the
passing runs, and that `MppiRuntime` implements `FreshestOnly`. Only liveness is left to TLC.

The assumptions are the named ones in the modules. Most say that a bound is a natural
number, a switch a Boolean, or that `None` is no value of the data. The others:

- `LargeAssumption`: `kLargeDistance` is no less than the sides of the grid and the cut
  distance. It is 1e20 in the code.
- `GridAssumption`: an intersection of two parabolas is a whole number of `Scale`-ths of a
  cell, so that comparing intersections is exact. The grid has at least two cells a side,
  which the start-up checks see to.
- `DriveAssumption`: places are pairs of integers, and one speed is the highest.
- `TimesAssumption` of `Friction`: the peak window is at least as long as the latch time (5 s
  and 0.3 s, which nothing overrides). The latch itself does not need it: the window is the
  history that `LatchFollowsSteadyCondition` looks back on.
- `WeightAssumption`: weights and discounts are not negative. That is what they mean, but the
  loader checks it of only some of them (`src/controller/config.cpp:470`, `:491-500`,
  `:516-519`). The inequality of `HostAgreesFromCleanStart` depends on it.
- `SizesAssumption` of `RolloutCosts`: a lap is an odd number, so that no arc length is as
  near to one lap as to the next.

Each proof module follows one argument: an inductive invariant, that `Init` implies it, one
lemma or case per action for `[Next]_vars`, then each property from the invariant.

- **`MppiRuntimeProofs`.** `IInv` is `TypeOK`, `EpochInv`, `OrderInv` and `FeedbackIsLastSent`.
  `WarmStateOfOneEpoch` alone is not inductive: it speaks of the solver at work, and the warm
  state is fixed earlier, by a reset request that travels separately from the observation.
  `EpochInv` says what links them: whenever no reset is requested and the solver is not carrying
  one out, the warm state, and the observation in its hands, are of the current epoch.
  `NewerStaysEligible` and the refinement need `OrderInv`: generations only grow from the last
  command over the solution in the control thread's hands and the latest solution to the one
  being solved, and a published generation never exceeds the one last taken, also after `Reset`
  set it to zero. The theorem `Implementation` maps every step to a step of `FreshestOnly` or to
  a stutter: `Accept` is `OnObservation` or `ResetWorkers`, `Start` the taking of an
  observation, `FinishSolving` is `FinishSolve`, `Send` is `SendCommand`, `FinishPublishing` is
  `MarkPublished`.
- **`CaptureSlotProofs`.** The flag alone does not say who owns a busy slot. `SlotInv`
  does: it is with the solver between `HandOver` and `QueueCapture`, in the queue, or with
  the worker from `TakeCapture` to `Release`, never at two places, and the work item beside
  it carries its id and parts.
- **`ObstaclePipelineProofs`.** `WorkerInv` relates the two epoch counts (equal, or one
  apart while `StateCallback` is between them) and says that each of history, copy, tracks
  and field is of one epoch. `SolverInv` says that while the solver holds an observation, a
  requested reset and a newer epoch are the same thing. `GenerationInv` is what makes
  remembering only a number safe: the worker's number is newer than all others, and equal
  numbers mean equal fields.
- **`PlannerProofs`.** `ElapsedIsPositive` relates the pose being planned to the one planned
  last, but what guarantees it is the order of poses *on the way*: last planned, being
  solved, in the mailbox. `PoseInv` and `MailboxInv` carry that order through the hands
  they pass, and suspend it while a requested reset is still to be taken, when an older
  pose is legal. `NominalInv` puts the nominal sequence into the same order: after
  a failed solve it may be newer than the remembered pose, never newer than the one being
  solved. `SlewLimited` is inductive beside `IInv`, and rests on lemmas about `SamplingUpdate`:
  the slew limit is a recursion along the horizon, and since induction over data cannot
  be cited, `LimitControlRateUnfolds` proves its recursion equation by a least
  counterexample (`LeastNumber`, from the well-foundedness of `<`). From it
  `LimitControlRateLimits`, and by the two facts that clamping and averaging do not
  increase a step, `UpdatesLimited`.
- **`FrictionProofs`.** `HandOverInv` orders the generations: the solver's, and the one on offer
  when its observation was taken, never exceed the one handed over, and equal generations mean
  equal coefficients. It assumes nothing about the estimate but that it is a number or missing.
  The grip thread has an invariant of its own, `GripInv`. The epoch of an observation travels
  with it (`ObservationOfEpoch`) and the monitor is reset before it sees one of another epoch,
  so every entry of its window is of its epoch (`PeaksOfOneEpoch`). The filter outlives the
  reset; `OfEpoch` says that it is as old as the observation the monitor started with if that
  was finite, and nothing of it otherwise. For the latch the invariant has to tie a *time* to a
  *history*: `CountsDisagreement` says that every entry of the window younger than
  `condition_time` disagrees with the flag. What makes that enough is that trimming takes the
  oldest entries only (`WindowIsTail`) and none younger than the latch time.
- **`StartupProofs`.** One conjunct for each stage: what has been accepted (`Progress`), which
  threads and publishers exist (`ThreadInv`), and what a failure says (`FailureInv`).
  `AcceptedOptionsCorrect` then is arithmetic about the two layers of checks
  (`LoadedOptimizer`, `LoadedPerception`); the number of cells is the one nonlinear step
  (`GridHasTwoCells`).
- **`RolloutKernelsProofs`.** `KernelsAgree` compares the end of a sequence of kernels with a
  recursive function. The invariant compares the arrays with a *prefix* of it at every kernel:
  `StageInv` between two steps, `WithinInv` between two substeps, `StoredInv` the states stored
  so far. So the induction is over steps of the machine; all that is needed of the two
  recursions, rollout and substeps, is that they unfold (`RolloutUnfolds`, `SubstatesUnfold`,
  again by a least counterexample). One fact is about the track: the analytic kernel looks for
  the first step near the initial arc length, the others near where they have just found the
  initial state. `ProjectionOfItself` and `HintIsPath` show that this is the same. Costs are
  compared as the kernels add them up, term by term; rounding of a regrouped sum is outside of
  the model. `BreakdownSumsToCost` then is about two orders of adding: along the steps for the
  cost, along the terms for the breakdown (`BreakdownOfRollout`, from prefix sums of each term).
  `HostAgreesFromCleanStart` needs that the host's evaluator sees the same arc lengths: in the
  Cartesian frame the kernels project again at every step, and `ProjectionFollows` shows that
  they find the state's own arc length as long as a step is within the search span and shorter
  than half a lap (`Followed`). The host also latches the first state, which the kernels do not,
  so its latches are the kernels' or more (`HostLatchesMore`, `LatchingMonotone`) and more
  latches never cost less (`LatchesCost`). `PicksAreBest` needs that each round of the selection
  has exactly one first (`FirstRanked`: ties go to the lower index), and that weights fall with
  costs (`SoftmaxFalls`, `CostsBounded`).
- **`PerceptionProofs`.** `PerceptionInv` has two halves. `PosesInv` says that the history is a
  contiguous part of the way driven, so that interpolation and a short extrapolation give the
  place where the car was (`PoseAtIsWay`); adding, trimming and restarting keep that
  (`AddKeepsHistory`). `TracksInv` says of every track that its point is of the scan it was last
  matched in (`Remembers`), and of one not yet confirmed that each of its hits is a return of a
  scan of its own among those remembered in `recent` (`Traced`), the point having moved no
  further than the association distance at each (`OneFurther`, the triangle inequality). A scan
  keeps it by an induction over its returns, the loop of `Update` (`MatchKeepsMatched`).
  `SpatialIndexIsExact` is about that loop: a track moves at most once in a scan and is then
  matched (`AssociationsTouchMatched`), so the index built before it is stale only for tracks
  that are no longer candidates; and a point within the association distance lies in one of the
  nine cells (`NearIsNeighbour`). `FieldHasRightSide` does *not* need a correct lower envelope,
  which is as well (section 4): the arrays stay within their bounds (`LowerEnvelopeType`,
  `PiecesType`), so each value is the way to *some* cell of the set (`TransformIsOfACell`,
  `DistanceIsOfAFeature`), and the way to some cell is no less than the way to the nearest. The
  stale intersection can therefore err to one side only. Recursive functions are used through
  their equations; `StepsCompose` gives those, by a least counterexample once more.

*Only model-checked.* The liveness properties: `ObservationIsTaken`,
`SolutionReachesControl`, `ResetReachesController`, `ShutdownCompletes`, `SlotIsFreed`,
`OldFieldIsCleared` and `WorkerStops`. TLAPS does not reason about `ENABLED` and fairness
here. The four properties that fail are for TLC by their nature. *Out of the prover's reach* in
general: induction over data by the library's theorems, for which the proofs use a least
counterexample instead, and any module with a `RECURSIVE` operator; there is none here.

## 6. Not modelled

- Floating-point arithmetic: vehicle dynamics, tyres, integrators, the formulas of the single
  penalties, bilinear sampling, the fit of the friction coefficient. TLC has integers; the
  control flow around them is modelled, their results are choices or stand-ins.
- The geometry of the raceline (`Project`, `Interpolate`, `Sample`), of the lead gap and of
  the no-overtake zones. Unwrapping and the window of the device's projection are in
  `RolloutCosts`.
- Adaptation of lambda and sigma: numbers only, and nothing reads them but the sampling.
- The expected states (`WeightedStates`, `src/cuda/cuda_mppi.cu:1010`): a weighted sum of
  the rollouts. Zero times NaN is NaN, so a single diverged rollout may leave the states of
  the solution without finite values while its controls are sound. It concerns what a
  trajectory message and the breakdown show, not the command.
- TensorRT: loading and inference are the library's.
- YAML parsing, launch files, tools, benchmarks, the build without CUDA: run once, or
  outside the node.
- Message conversion: pure; that it may throw is in `SendCommand`.
- The costmap half of `SetObstacleField`, and the static paths of the visualization thread:
  nothing reads them back.
- Real time: periods, the age limit and the rate limit are choices between "due" and
  "not due"; the EKF's clock is a counter in `Planner`, `Perception` and `Friction`.

## 7. Plan

1. `Raceline`: wrapping and the windowed projection on a small closed track in integers.
2. The expected states and the adaptation, once a property needs them.
3. Abstract specifications beside `FreshestOnly`: a latest-only hand-over that observation
   mailbox, scan mailbox and field implement, and one owner at a time for the slot of
   `CaptureSlot`.
