------------------------------ MODULE Startup ------------------------------
(***************************************************************************)
(* How the node comes up: main, the constructors it runs in order, and     *)
(* what an exception leaves behind at each of them.  Every option of the   *)
(* YAML files and of the ROS parameters that a constructor checks is a     *)
(* field of options; options checked alike are represented by one of them. *)
(* Numbers are small integers, Infinity or NaN, and compare as floats do.  *)
(* A topic is "empty", "malformed" (ROS rejects the name) or "usable";     *)
(* where both faults throw at the same place, a Boolean says if it is      *)
(* usable.  A std::thread that cannot be created is not modelled.          *)
(***************************************************************************)
EXTENDS Integers, FiniteSets

CONSTANTS
  NaN,
  Infinity,
  None,
  Configurations              \* the options the node may be started with

ASSUME NumberAssumption ==
  /\ Infinity \in Int
  /\ NaN \notin Int

Transports == {"twist", "four_wheel", "trajectory"}

\* The transport is an enumeration; the obstacle worker computes with numbers.
ASSUME ConfigurationsAssumption ==
  \A o \in Configurations :
    /\ o.transport \in Transports
    /\ {o.resolution, o.width, o.pose_history, o.extrapolation, o.inflation,
        o.association_distance} \subseteq Int \cup {NaN}

ASSUME NoneAssumption ==
  None \notin {"node_options", "controller_config", "raceline", "optimizer",
               "publishers", "workers", "grip", "mu", "visualization",
               "state_subscription", "perception"}

VARIABLES
  options,                    \* what the files and parameters say
  step,                       \* the constructor that runs, or the outcome
  failed_at,                  \* the constructor that threw
  threads,                    \* running std::threads of the process
  publishers                  \* publishers the runtime has created

vars == <<options, step, failed_at, threads, publishers>>

Less(a, b) == a # NaN /\ b # NaN /\ a < b
AtMost(a, b) == a # NaN /\ b # NaN /\ a <= b
Finite(a) == a \notin {NaN, Infinity}
Positive(a) == Less(0, a)
FinitePositive(a) == Finite(a) /\ Positive(a)

(***************************************************************************)
(* What each constructor accepts.                                          *)
(***************************************************************************)
DirectControlValid(o, scale) ==
  /\ o.direct_topic # "empty"
  /\ Finite(scale) /\ scale # 0
  /\ o.control_mode = "torque" => o.transport = "four_wheel"
  /\ o.transport = "four_wheel" => scale = 1

RosRuntimeConfigValid(o) ==
  /\ o.files
  /\ o.control_mode \in {"duty_cycle", "torque"}
  /\ DirectControlValid(o, o.yaml_steering_scale)

ObservationTimeValid(o) == Finite(o.maximum_state_age) /\ AtMost(0, o.maximum_state_age)

NodeOptionsValid(o) ==
  /\ RosRuntimeConfigValid(o)
  /\ o.state_topic # "empty"
  /\ o.transport = "trajectory" => o.trajectory_topic # "empty"
  /\ o.qos_depth > 0
  /\ ObservationTimeValid(o)
  /\ o.transport # "trajectory" => DirectControlValid(o, o.steering_scale)

SteersRearAxle(o) == o.model = "dynamic_bicycle_fiala_4ws"
HasStiffWheel(o) == o.model \in {"dynamic_bicycle_fiala", "dynamic_bicycle_fiala_4ws"}

Channels == {"steering", "rear_steering"}
Pinned == [sigma |-> 0, least |-> 0, most |-> 0]

\* The channel as it is planned with: a model that does not steer the rear
\* axle has its rear channel pinned, whatever the file says.
Channel(o, c) ==
  CASE c = "steering" -> o.steering
    [] c = "rear_steering" -> IF SteersRearAxle(o) THEN o.rear_steering ELSE Pinned

Active(channel) == Positive(channel.sigma) /\ Less(channel.least, channel.most)

\* Faulty variant: only the interval is looked at, not what is sampled in it.
ChannelValidByBounds(channel) ==
  /\ Finite(channel.sigma) /\ Finite(channel.least) /\ Finite(channel.most)
  /\ AtMost(channel.least, channel.most)

ChannelValid(channel) ==
  /\ Finite(channel.sigma) /\ Finite(channel.least) /\ Finite(channel.most)
  /\ Active(channel) \/ channel = Pinned

DimensionsValid(o) ==
  /\ o.num_samples > 3
  /\ o.horizon \notin {0, 65535}
  /\ o.control_delay_steps < o.horizon
  /\ o.num_rollouts \in 1 .. o.num_samples
  /\ FinitePositive(o.dt) /\ FinitePositive(o.rate_hz)
  /\ Finite(o.maximum_solution_age) /\ AtMost(0, o.maximum_solution_age)
  /\ FinitePositive(o.projection_window)

CostsAndVehicleValid(o) == Positive(o.boundary_margin) /\ Positive(o.mass)

\* Faulty variant: the width need not exceed a cell.
ObstaclesValidAnyWidth(o) ==
  /\ Positive(o.resolution) /\ Positive(o.width)
  /\ Positive(o.pose_history) /\ ~ Less(o.extrapolation, 0)
  /\ ~ Less(o.inflation, 0)
  /\ o.confirmation_updates > 0 /\ Positive(o.association_distance)

ObstaclesValid(o) ==
  /\ Positive(o.resolution) /\ Less(o.resolution, o.width)
  /\ Positive(o.pose_history) /\ ~ Less(o.extrapolation, 0)
  /\ ~ Less(o.inflation, 0)
  /\ o.confirmation_updates > 0 /\ Positive(o.association_distance)

NoOvertakeValid(o) == AtMost(0, o.pass_limit_gap) /\ AtMost(o.pass_limit_gap, o.gap_minimum)

\* The step times the rate of the driven wheel's mode, in hundredths, has to
\* stay within three quarters of the method's stability interval.
WheelIsStable(o) ==
  LET substeps == IF o.integration_substeps = 0 THEN 1 ELSE o.integration_substeps
      limit == IF o.integrator = "rk4" THEN 208 ELSE 150
  IN  100 * o.dt * o.slip_rate <= limit * substeps

LoaderAccepts(o) ==
  /\ o.integrator \in {"euler", "rk4"}
  /\ o.model # "unknown"
  /\ DimensionsValid(o)
  /\ \A c \in Channels : ChannelValid(Channel(o, c))
  /\ CostsAndVehicleValid(o)
  /\ o.obstacles => ObstaclesValid(o)
  /\ o.raceline_path
  /\ NoOvertakeValid(o)
  /\ HasStiffWheel(o) => WheelIsStable(o)

IsNeural(o) == o.model = "tensorrt_neural_derivative"

NeuralComplete(o) == o.engine /\ o.integrator = "euler" /\ o.expected_trajectory

\* `device` is every CUDA call and allocation of Impl, that of a finite obstacle grid
\* included.
OptimizerAccepts(o) ==
  /\ Positive(o.projection_window)
  /\ o.num_samples > 3 /\ o.horizon \notin {0, 65535} /\ Positive(o.dt)
  /\ o.raceline_points >= 2
  /\ IsNeural(o) => NeuralComplete(o)
  /\ o.device

\* An infinite obstacle grid has no number of cells; what the conversion makes of it may
\* be more than the GPU has.
GridMayFail(o) == o.obstacles /\ ~ Finite(o.width)

\* ROS rejects a malformed name only when the publisher is created.
PublishersValid(o) ==
  /\ o.transport = "twist" => o.direct_topic = "usable"
  /\ o.transport = "four_wheel" => o.four_wheel_topic
  /\ o.transport = "trajectory" => o.trajectory_topic = "usable"
  /\ o.visualization => o.visualization_topics
  /\ o.costmap => o.costmap_topic # "empty"
  /\ o.costmap /\ o.obstacles => o.costmap_topic = "usable"
  /\ o.cost_terms => o.cost_terms_topic

GripValid(o) == o.grip_topic /\ FinitePositive(o.grip_rate)

\* The grid needs three points; an infinite one cannot be reserved.
EstimatorValid(o) ==
  /\ Positive(o.mu_min) /\ Less(o.mu_min, o.mu_max) /\ Finite(o.mu_max)
  /\ Positive(o.mu_step) /\ Positive(o.friction_coefficient)
  /\ (o.mu_max - o.mu_min) \div o.mu_step >= 2

ApplyValid(o) ==
  Positive(o.apply_mu_min) /\ AtMost(o.apply_mu_min, o.apply_mu_max) /\ Finite(o.apply_mu_max)

MuValid(o) ==
  /\ o.mu_topic /\ FinitePositive(o.mu_rate)
  /\ EstimatorValid(o)
  /\ o.apply => ApplyValid(o)

\* Times of the pose history are in quarters of a nanosecond here.
SecondsToNanoseconds(seconds) == (seconds + 2) \div 4

PoseHistoryValid(o) ==
  /\ Finite(o.pose_history) /\ AtMost(0, o.pose_history)
  /\ Finite(o.extrapolation) /\ AtMost(0, o.extrapolation)
  /\ SecondsToNanoseconds(o.pose_history) > 0

\* An infinite width has no number of cells: whatever the conversion makes of
\* it, the grid is too small or too large to be allocated.
BuilderValid(o) ==
  /\ Positive(o.resolution) /\ Positive(o.width) /\ ~ Less(o.inflation, 0)
  /\ Finite(o.width)
  /\ (o.width + o.resolution - 1) \div o.resolution >= 2

FilterValid(o) == o.confirmation_updates > 0 /\ FinitePositive(o.association_distance)

PerceptionValid(o) ==
  /\ o.scan_topic = "usable" /\ o.laser_frames
  /\ PoseHistoryValid(o) /\ BuilderValid(o) /\ FilterValid(o)

(***************************************************************************)
(* The steps.  A constructor either throws or goes on with the next one.   *)
(***************************************************************************)
Init ==
  /\ options \in Configurations
  /\ step = "node_options"
  /\ failed_at = None
  /\ threads = {}
  /\ publishers = {}

At(here) == step = here /\ UNCHANGED options

Throw ==
  /\ step' = "unwinding"
  /\ failed_at' = step
  /\ UNCHANGED <<threads, publishers>>

Continue(next) == step' = next /\ UNCHANGED failed_at

ReadNodeOptions ==
  /\ At("node_options")
  /\ \/ ~ NodeOptionsValid(options) /\ Throw
     \/ /\ NodeOptionsValid(options)
        /\ Continue("controller_config")
        /\ UNCHANGED <<threads, publishers>>

LoadControllerConfig ==
  /\ At("controller_config")
  /\ \/ ~ LoaderAccepts(options) /\ Throw
     \/ /\ LoaderAccepts(options)
        /\ Continue("raceline")
        /\ UNCHANGED <<threads, publishers>>

LoadCsv ==
  /\ At("raceline")
  /\ \/ options.raceline_points < 2 /\ Throw
     \/ /\ options.raceline_points >= 2
        /\ Continue("optimizer")
        /\ UNCHANGED <<threads, publishers>>

BuildOptimizer ==
  /\ At("optimizer")
  /\ \/ ~ OptimizerAccepts(options) /\ Throw
     \/ GridMayFail(options) /\ Throw
     \/ /\ OptimizerAccepts(options)
        /\ Continue("publishers")
        /\ UNCHANGED <<threads, publishers>>

Workers == {"solver", "control", "info"}

\* Faulty variant: the threads are started before the topics are checked.
CreatePublishersWithThreads ==
  /\ At("publishers")
  /\ threads' = Workers
  /\ \/ /\ ~ PublishersValid(options)
        /\ step' = "unwinding"
        /\ failed_at' = step
        /\ UNCHANGED publishers
     \/ /\ PublishersValid(options)
        /\ publishers' = {options.transport}
        /\ Continue("workers")

\* Exactly one transport, and a costmap only where there are obstacles.
CreatePublishers ==
  /\ At("publishers")
  /\ \/ ~ PublishersValid(options) /\ Throw
     \/ /\ PublishersValid(options)
        /\ publishers' = {options.transport}
             \union (IF options.visualization THEN {"rollouts"} ELSE {})
             \union (IF options.costmap /\ options.obstacles THEN {"costmap"} ELSE {})
             \union (IF options.cost_terms THEN {"cost_terms"} ELSE {})
        /\ Continue("workers")
        /\ UNCHANGED threads

StartWorkers ==
  /\ At("workers")
  /\ threads' = threads \union Workers
  /\ Continue("grip")
  /\ UNCHANGED publishers

StartGripWorker ==
  /\ At("grip")
  /\ \/ options.grip /\ ~ GripValid(options) /\ Throw
     \/ /\ options.grip => GripValid(options)
        /\ threads' = threads \union (IF options.grip THEN {"grip"} ELSE {})
        /\ Continue("mu")
        /\ UNCHANGED publishers

StartMuWorker ==
  /\ At("mu")
  /\ \/ (IF options.mu THEN ~ MuValid(options) ELSE options.apply) /\ Throw
     \/ /\ IF options.mu THEN MuValid(options) ELSE ~ options.apply
        /\ threads' = threads \union (IF options.mu THEN {"mu"} ELSE {})
        /\ Continue("visualization")
        /\ UNCHANGED publishers

StartVisualizationWorker ==
  /\ At("visualization")
  /\ threads' = threads \union {"visualization"}
  /\ Continue("state_subscription")
  /\ UNCHANGED publishers

SubscribeToState ==
  /\ At("state_subscription")
  /\ \/ options.state_topic # "usable" /\ Throw
     \/ /\ options.state_topic = "usable"
        /\ Continue("perception")
        /\ UNCHANGED <<threads, publishers>>

StartObstacleWorker ==
  /\ At("perception")
  /\ \/ options.obstacles /\ ~ PerceptionValid(options) /\ Throw
     \/ /\ options.obstacles => PerceptionValid(options)
        /\ threads' = threads \union (IF options.obstacles THEN {"obstacle"} ELSE {})
        /\ Continue("running")
        /\ UNCHANGED publishers

RuntimeSteps == {"publishers", "workers", "grip", "mu", "visualization"}

\* The members constructed so far are destroyed.  A complete runtime_ joins
\* its threads; of a runtime whose own constructor threw only the members are
\* destroyed, and a joinable std::thread among them calls std::terminate
\* before main's handler is reached.
Unwind ==
  /\ At("unwinding")
  /\ IF failed_at \in RuntimeSteps /\ threads # {}
       THEN step' = "terminated" /\ UNCHANGED <<threads, publishers>>
       ELSE step' = "reported" /\ threads' = {} /\ publishers' = {}
  /\ UNCHANGED failed_at

\* spin returns and the node is destroyed.
Shutdown ==
  /\ At("running")
  /\ step' = "stopped"
  /\ threads' = {}
  /\ publishers' = {}
  /\ UNCHANGED failed_at

Exited ==
  /\ step \in {"reported", "terminated", "stopped"}
  /\ UNCHANGED vars

Next ==
  \/ ReadNodeOptions \/ LoadControllerConfig \/ LoadCsv \/ BuildOptimizer
  \/ CreatePublishers \/ StartWorkers \/ StartGripWorker \/ StartMuWorker
  \/ StartVisualizationWorker \/ SubscribeToState \/ StartObstacleWorker
  \/ Unwind \/ Shutdown \/ Exited

Spec == Init /\ [][Next]_vars

(***************************************************************************)
(* Properties.                                                             *)
(***************************************************************************)

\* The process dies without main's "Startup failed" only over the options of
\* the friction publishers: every other check comes before the first thread
\* or after the runtime is complete.
AbruptExitIsAboutFriction ==
  step = "terminated" =>
    \/ options.grip /\ ~ GripValid(options)
    \/ options.mu /\ ~ MuValid(options)
    \/ ~ options.mu /\ options.apply

\* Numbers the loader lets pass and the obstacle worker's parts do not take.
LoaderGap(o) ==
  \/ ~ Finite(o.extrapolation) \/ ~ Finite(o.pose_history) \/ ~ Finite(o.width)
  \/ ~ Finite(o.association_distance) \/ SecondsToNanoseconds(o.pose_history) = 0

\* Options the loader accepts are not rejected again by what is built from
\* them: the optimizer fails only over the GPU, an incomplete neural model or an
\* infinite obstacle grid, and the obstacle worker only over its topic and frames
\* or a number that is infinite, NaN or rounds to no time at all.
AcceptedOptionsBuild ==
  /\ failed_at = "optimizer" =>
       \/ ~ options.device
       \/ IsNeural(options) /\ ~ NeuralComplete(options)
       \/ options.obstacles /\ ~ Finite(options.width)
  /\ failed_at = "perception" =>
       \/ options.scan_topic # "usable" \/ ~ options.laser_frames
       \/ LoaderGap(options)

\* A node that runs is what its options ask for: every worker they name and
\* no other, one transport, a costmap only with an obstacle worker to feed
\* it, and a rear axle that is sampled only by a model that steers it.  A
\* start-up that was reported leaves no thread behind.
NodeIsWholeOrGone ==
  /\ step = "running" =>
       /\ Workers \union {"visualization"} \subseteq threads
       /\ "grip" \in threads <=> options.grip
       /\ "mu" \in threads <=> options.mu
       /\ "obstacle" \in threads <=> options.obstacles
       /\ Cardinality(publishers \intersect Transports) = 1
       /\ "costmap" \in publishers => "obstacle" \in threads
       /\ \A c \in Channels :
            Positive(Channel(options, c).sigma) <=> Active(Channel(options, c))
  /\ step = "reported" => threads = {} /\ failed_at # None
=============================================================================
