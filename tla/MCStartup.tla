------------------------------ MODULE MCStartup ------------------------------
EXTENDS Startup

ChannelValues(sigmas) == [sigma : sigmas, least : {-1, 0}, most : {0, 1}]

\* A complete set of options, and the values each may take instead.
Usual == [
  files |-> TRUE, control_mode |-> "duty_cycle", transport |-> "trajectory",
  direct_topic |-> "usable", four_wheel_topic |-> TRUE, trajectory_topic |-> "usable",
  yaml_steering_scale |-> 1, steering_scale |-> 1, state_topic |-> "usable",
  qos_depth |-> 1, maximum_state_age |-> 1,
  num_samples |-> 4, horizon |-> 3, control_delay_steps |-> 1, num_rollouts |-> 2,
  dt |-> 1, rate_hz |-> 1, maximum_solution_age |-> 0, projection_window |-> 1,
  steering |-> [sigma |-> 1, least |-> -1, most |-> 1],
  rear_steering |-> [sigma |-> 1, least |-> -1, most |-> 1],
  model |-> "dynamic_bicycle_fiala", integrator |-> "euler",
  integration_substeps |-> 1, slip_rate |-> 1, engine |-> TRUE,
  expected_trajectory |-> TRUE, boundary_margin |-> 1, mass |-> 1,
  raceline_path |-> TRUE, raceline_points |-> 2, pass_limit_gap |-> 1,
  gap_minimum |-> 1, device |-> TRUE,
  obstacles |-> TRUE, resolution |-> 1, width |-> 2, pose_history |-> 4,
  extrapolation |-> 1, inflation |-> 0, confirmation_updates |-> 1,
  association_distance |-> 1, scan_topic |-> "usable", laser_frames |-> TRUE,
  visualization |-> FALSE, visualization_topics |-> TRUE, costmap |-> FALSE,
  costmap_topic |-> "usable", cost_terms |-> FALSE, cost_terms_topic |-> TRUE,
  grip |-> TRUE, grip_topic |-> TRUE, grip_rate |-> 1,
  mu |-> TRUE, mu_topic |-> TRUE, mu_rate |-> 1, mu_min |-> 1, mu_max |-> 3,
  mu_step |-> 1, friction_coefficient |-> 1, apply |-> FALSE,
  apply_mu_min |-> 1, apply_mu_max |-> 1]

Numbers == {NaN, -1, 0, 1, 2, Infinity}

Measured == {
  "yaml_steering_scale", "steering_scale", "maximum_state_age", "dt", "rate_hz",
  "maximum_solution_age", "projection_window", "boundary_margin", "mass",
  "pass_limit_gap", "gap_minimum", "resolution", "width", "extrapolation",
  "inflation", "association_distance", "grip_rate", "mu_rate", "mu_min", "mu_max",
  "mu_step", "apply_mu_min", "apply_mu_max"}

Values == [option \in DOMAIN Usual |->
  CASE option = "control_mode" -> {"torque", "unknown"}
    [] option = "transport" -> {"twist", "four_wheel"}
    [] option \in {"state_topic", "scan_topic", "direct_topic", "trajectory_topic",
                   "costmap_topic"} -> {"empty", "malformed"}
    [] option \in {"qos_depth", "confirmation_updates", "friction_coefficient"} -> {0}
    [] option = "num_samples" -> {3}
    [] option = "horizon" -> {0, 1, 65535}
    [] option = "control_delay_steps" -> {0, 3}
    [] option = "num_rollouts" -> {0, 5}
    [] option = "steering" -> ChannelValues({NaN, -1, 0, 1, Infinity})
    [] option = "rear_steering" -> ChannelValues({0, 1})
    [] option = "model" -> {"kinematic_bicycle", "dynamic_bicycle_fiala_4ws",
                            "tensorrt_neural_derivative", "unknown"}
    [] option = "integrator" -> {"rk4", "unknown"}
    [] option = "integration_substeps" -> {0, 2}
    [] option = "slip_rate" -> {2, 4}
    [] option = "raceline_points" -> {0, 1}
    [] option = "pose_history" -> Numbers \union {4}
    [] option \in Measured -> Numbers
    [] OTHER -> BOOLEAN]

\* At most two options are off at once.
Changes == UNION {{<<option, value>> : value \in Values[option]} : option \in DOMAIN Usual}

MCConfigurations ==
  {[Usual EXCEPT ![first[1]] = first[2], ![second[1]] = second[2]] :
     first \in Changes, second \in Changes}
=============================================================================
