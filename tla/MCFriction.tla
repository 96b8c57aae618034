----------------------------- MODULE MCFriction -----------------------------
(* Friction on small instances: see friction.cfg.                          *)
EXTENDS Friction
=============================================================================
