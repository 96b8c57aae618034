----------------------------- MODULE StartupProofs --------------------------
(***************************************************************************)
(* Proofs about Startup for every set of configurations: TLC looks at      *)
(* those that differ from a usable one at two places.  The inductive       *)
(* invariant says, for each constructor about to run, what its             *)
(* predecessors accepted and created, and for each that threw, what it     *)
(* rejected.                                                               *)
(***************************************************************************)
EXTENDS Startup, FiniteSetTheorems, TLAPS

Steps == {"node_options", "controller_config", "raceline", "optimizer",
          "publishers", "workers", "grip", "mu", "visualization",
          "state_subscription", "perception"}
Loaded == {"raceline", "optimizer", "publishers", "workers", "grip", "mu",
           "visualization", "state_subscription", "perception", "running"}
Published == {"workers", "grip", "mu", "visualization", "state_subscription",
              "perception", "running"}
Threaded == Published \ {"workers"}
Complete == {"state_subscription", "perception", "running"}

\* What goes on has been accepted, and has what was made so far.
Progress ==
  /\ options \in Configurations
  /\ step \in Steps \cup {"running", "unwinding", "reported", "terminated", "stopped"}
  /\ step \in Loaded => LoaderAccepts(options)
  /\ step \in Loaded \ {"raceline"} => options.raceline_points >= 2
  /\ step \in Published =>
       publishers = {options.transport}
         \union (IF options.visualization THEN {"rollouts"} ELSE {})
         \union (IF options.costmap /\ options.obstacles THEN {"costmap"} ELSE {})
         \union (IF options.cost_terms THEN {"cost_terms"} ELSE {})

\* The threads, by what was started.
ThreadInv ==
  /\ step \in Steps \ Threaded => threads = {}
  /\ threads \subseteq Workers \cup {"grip", "mu", "visualization", "obstacle"}
  /\ step \in Threaded => Workers \subseteq threads
  /\ step = "grip" => threads = Workers
  /\ step \in Threaded \ {"grip"} => ("grip" \in threads <=> options.grip)
  /\ step \in {"grip", "mu"} => "mu" \notin threads
  /\ step \in Threaded \ {"grip", "mu"} => ("mu" \in threads <=> options.mu)
  /\ step \in Complete => "visualization" \in threads
  /\ step \in Steps => "obstacle" \notin threads
  /\ step = "running" => ("obstacle" \in threads <=> options.obstacles)

\* What a constructor threw over.
FailureInv ==
  /\ step \in {"unwinding", "reported", "terminated"} => failed_at \in Steps
  /\ step \in Steps \cup {"running", "stopped"} => failed_at = None
  /\ step = "reported" => threads = {}
  /\ failed_at = "optimizer" =>
       /\ LoaderAccepts(options) /\ options.raceline_points >= 2
       /\ ~ OptimizerAccepts(options) \/ GridMayFail(options)
  /\ failed_at = "perception" =>
       LoaderAccepts(options) /\ options.obstacles /\ ~ PerceptionValid(options)
  /\ step \in {"unwinding", "terminated"} /\ failed_at \in RuntimeSteps /\ threads # {} =>
       \/ options.grip /\ ~ GripValid(options)
       \/ options.mu /\ ~ MuValid(options)
       \/ ~ options.mu /\ options.apply
  /\ step = "terminated" => failed_at \in RuntimeSteps /\ threads # {}

IInv == Progress /\ ThreadInv /\ FailureInv

-----------------------------------------------------------------------------

USE DEF vars

\* A process starts with nothing created and nothing rejected.
LEMMA InvInit == Init => IInv
  BY NoneAssumption
  DEF Init, IInv, Progress, ThreadInv, FailureInv, Steps, Loaded, Published, Threaded,
      Complete, Workers

\* Every constructor that returns leaves what the next one relies on.
LEMMA InvStep == IInv /\ [Next]_vars => IInv'
<1> SUFFICES ASSUME IInv, [Next]_vars PROVE IInv'
  OBVIOUS
<1> USE NoneAssumption
<1> USE DEF IInv, Progress, ThreadInv, FailureInv, Steps, Loaded, Published, Threaded,
            Complete, Workers, At, Throw, Continue, RuntimeSteps
<1>1. CASE ReadNodeOptions
  BY <1>1 DEF ReadNodeOptions
<1>2. CASE LoadControllerConfig
  BY <1>2 DEF LoadControllerConfig
<1>3. CASE LoadCsv
  BY <1>3 DEF LoadCsv
<1>4. CASE BuildOptimizer
  BY <1>4 DEF BuildOptimizer
<1>5. CASE CreatePublishers
  BY <1>5 DEF CreatePublishers
<1>6. CASE StartWorkers
  BY <1>6 DEF StartWorkers
<1>7. CASE StartGripWorker
  BY <1>7 DEF StartGripWorker
<1>8. CASE StartMuWorker
  BY <1>8 DEF StartMuWorker
<1>9. CASE StartVisualizationWorker
  BY <1>9 DEF StartVisualizationWorker
<1>10. CASE SubscribeToState
  BY <1>10 DEF SubscribeToState
<1>11. CASE StartObstacleWorker
  BY <1>11 DEF StartObstacleWorker
<1>12. CASE Unwind
  BY <1>12 DEF Unwind
<1>13. CASE Shutdown
  BY <1>13 DEF Shutdown
<1>14. CASE Exited \/ UNCHANGED vars
  <2>1. /\ options' = options /\ step' = step /\ failed_at' = failed_at
        /\ threads' = threads /\ publishers' = publishers
    BY <1>14 DEF Exited
  <2>2. Progress' /\ ThreadInv'
    BY <2>1
  <2>3. FailureInv'
    BY <2>1
  <2> QED
    BY <2>2, <2>3
<1> QED
  BY <1>1, <1>2, <1>3, <1>4, <1>5, <1>6, <1>7, <1>8, <1>9, <1>10, <1>11, <1>12,
     <1>13, <1>14
  DEF Next

\* What each constructor relies on holds when it runs.
THEOREM Invariance == Spec => []IInv
  BY InvInit, InvStep, PTL DEF Spec

\* The process is never terminated over options other than the friction ones.
THEOREM AbruptExitCorrect == Spec => []AbruptExitIsAboutFriction
<1>1. IInv => AbruptExitIsAboutFriction
  BY DEF IInv, FailureInv, AbruptExitIsAboutFriction
<1> QED
  BY <1>1, Invariance, PTL

-----------------------------------------------------------------------------

\* What the loader accepts, the optimizer does.
LEMMA LoadedOptimizer ==
  ASSUME NEW o, LoaderAccepts(o), o.raceline_points >= 2, ~ OptimizerAccepts(o)
  PROVE  ~ o.device \/ (IsNeural(o) /\ ~ NeuralComplete(o))
  BY DEF LoaderAccepts, OptimizerAccepts, DimensionsValid, FinitePositive

\* A grid wider than a cell has two of them.
LEMMA GridHasTwoCells ==
  ASSUME NEW width \in Int, NEW resolution \in Int, 0 < resolution, resolution < width
  PROVE  (width + resolution - 1) \div resolution >= 2
<1> DEFINE total == width + resolution - 1
           cells == total \div resolution
<1>1. total \in Int /\ total >= 2 * resolution
  OBVIOUS
<1>2. cells \in Int /\ resolution * cells <= total /\ total < resolution * (cells + 1)
  BY <1>1
<1> HIDE DEF total, cells
<1>3. ASSUME cells + 1 <= 2 PROVE FALSE
  <2>1. resolution * (cells + 1) <= resolution * 2
    BY <1>2, <1>3
  <2> QED
    BY <1>1, <1>2, <2>1
<1>4. cells >= 2
  BY <1>2, <1>3
<1> QED
  BY <1>4 DEF cells, total

\* What the loader accepts, the parts of the obstacle worker do, unless a number
\* is infinite, NaN, or no time.
LEMMA LoadedPerception ==
  ASSUME NEW o \in Configurations, LoaderAccepts(o), o.obstacles, ~ LoaderGap(o),
         o.scan_topic = "usable", o.laser_frames
  PROVE  PerceptionValid(o)
<1> USE NumberAssumption, ConfigurationsAssumption
<1> USE DEF Positive, Less, AtMost, Finite
<1>1. ObstaclesValid(o)
  BY DEF LoaderAccepts
<1>2. /\ o.extrapolation \in Int /\ o.pose_history \in Int /\ o.width \in Int
      /\ o.association_distance \in Int /\ o.resolution \in Int
  BY <1>1 DEF ObstaclesValid, LoaderGap
<1>3. PoseHistoryValid(o)
  <2>1. SecondsToNanoseconds(o.pose_history) > 0
    BY <1>1, <1>2 DEF ObstaclesValid, LoaderGap, SecondsToNanoseconds
  <2> QED
    BY <1>1, <1>2, <2>1 DEF ObstaclesValid, LoaderGap, PoseHistoryValid
<1>4. BuilderValid(o)
  BY <1>1, <1>2, GridHasTwoCells DEF ObstaclesValid, LoaderGap, BuilderValid
<1>5. FilterValid(o)
  BY <1>1, <1>2 DEF ObstaclesValid, LoaderGap, FilterValid, FinitePositive
<1> QED
  BY <1>3, <1>4, <1>5 DEF PerceptionValid

\* No option the loader accepted is rejected later, for every set of options.
THEOREM AcceptedOptionsCorrect == Spec => []AcceptedOptionsBuild
<1>1. IInv => AcceptedOptionsBuild
  BY LoadedOptimizer, LoadedPerception
  DEF IInv, Progress, FailureInv, GridMayFail, AcceptedOptionsBuild
<1> QED
  BY <1>1, Invariance, PTL

\* A channel is sampled where it may move, and nowhere else.
LEMMA LoadedChannel ==
  ASSUME NEW channel, ChannelValid(channel)
  PROVE  Positive(channel.sigma) <=> Active(channel)
  BY NumberAssumption DEF ChannelValid, Active, Pinned, Positive, Less

\* A node that runs has the threads, publishers and channels of its options.
THEOREM WholeNodeCorrect == Spec => []NodeIsWholeOrGone
<1>1. IInv => NodeIsWholeOrGone
  <2> SUFFICES ASSUME IInv PROVE NodeIsWholeOrGone
    OBVIOUS
  <2>1. step = "running" =>
          /\ Workers \union {"visualization"} \subseteq threads
          /\ "grip" \in threads <=> options.grip
          /\ "mu" \in threads <=> options.mu
          /\ "obstacle" \in threads <=> options.obstacles
    BY DEF IInv, ThreadInv, Published, Threaded, Complete
  <2>2. step = "running" => publishers \intersect Transports = {options.transport}
    BY ConfigurationsAssumption DEF IInv, Progress, Published, Transports
  <2>3. Cardinality({options.transport}) = 1
    BY FS_Singleton
  <2>4. step = "running" => ("costmap" \in publishers => options.obstacles)
    BY ConfigurationsAssumption DEF IInv, Progress, Published, Transports
  <2>5. step = "running" =>
          \A c \in Channels :
            Positive(Channel(options, c).sigma) <=> Active(Channel(options, c))
    BY LoadedChannel DEF IInv, Progress, Loaded, LoaderAccepts
  <2>6. step = "reported" => threads = {} /\ failed_at # None
    BY NoneAssumption DEF IInv, FailureInv, Steps
  <2> QED
    BY <2>1, <2>2, <2>3, <2>4, <2>5, <2>6 DEF NodeIsWholeOrGone
<1> QED
  BY <1>1, Invariance, PTL

=============================================================================
