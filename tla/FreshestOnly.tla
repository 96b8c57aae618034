---------------------------- MODULE FreshestOnly ----------------------------
(***************************************************************************)
(* What the documentation promises of the path from an EKF state to a      *)
(* command, whatever the threads do: a solve starts at most once per       *)
(* accepted generation and always on the newest one, and a solution leaves *)
(* the node at most once and never after a newer one                       *)
(* (docs/ros_integration.md, docs/architecture.md).  A generation is the   *)
(* number the runtime gives to an accepted observation; an EKF reset uses  *)
(* one up without an observation.                                          *)
(***************************************************************************)
EXTENDS Naturals

VARIABLES
  accepted,     \* the newest generation handed out
  started,      \* the generation of the newest solve, 0 before the first
  solving,      \* that solve is not over yet
  sent,         \* the generation of the newest command, 0 before the first
  publishing    \* that command's publication is not over yet

vars == <<accepted, started, solving, sent, publishing>>

Init ==
  /\ accepted = 0
  /\ started = 0
  /\ solving = FALSE
  /\ sent = 0
  /\ publishing = FALSE

Accept ==
  /\ accepted' = accepted + 1
  /\ UNCHANGED <<started, solving, sent, publishing>>

\* A solve takes the newest generation there is, once: generations the solver
\* was too slow for are dropped, never queued.
Start ==
  /\ ~solving
  /\ accepted > started
  /\ started' = accepted
  /\ solving' = TRUE
  /\ UNCHANGED <<accepted, sent, publishing>>

FinishSolving ==
  /\ solving
  /\ solving' = FALSE
  /\ UNCHANGED <<accepted, started, sent, publishing>>

\* A command comes from a solve newer than the one of the last command.
Send ==
  /\ ~publishing
  /\ sent' \in (sent + 1) .. started
  /\ publishing' = TRUE
  /\ UNCHANGED <<accepted, started, solving>>

FinishPublishing ==
  /\ publishing
  /\ publishing' = FALSE
  /\ UNCHANGED <<accepted, started, solving, sent>>

Next == Accept \/ Start \/ FinishSolving \/ Send \/ FinishPublishing

Spec == Init /\ [][Next]_vars

=============================================================================
