--------------------------- MODULE SamplingUpdate ---------------------------
(***************************************************************************)
(* One iteration of the sampling update of cuda_mppi.cu, for one control   *)
(* channel: the candidates drawn around the nominal sequence, the slew     *)
(* limit, the weighted mean and the shift of the nominal.                  *)
(*                                                                         *)
(* A control is an integer, one unit being what the instance chooses; the  *)
(* weighted mean of any two candidates, rounded down, stands for the       *)
(* softmax mean.  A shift is counted in ticks, Dt of them to a step of the *)
(* horizon, so that a fractional shift interpolates as the kernel does.    *)
(***************************************************************************)
EXTENDS Integers

CONSTANTS
  Horizon,                    \* horizon: controls in a sequence
  DelaySteps,                 \* control_delay_steps
  Dt,                         \* dt_s, in ticks
  ControlMin, ControlMax,     \* control_min, control_max of the channel
  RateStep,                   \* control_rate_limit * dt_s; 0 leaves it unlimited
  Noise,                      \* the values a smoothed perturbation may take
  ReferenceControl,           \* controls of the reference horizon
  UseReferenceControls        \* use_reference_controls

ASSUME SizesAssumption ==
  /\ Horizon \in Nat \ {0}
  /\ DelaySteps \in Nat
  /\ Dt \in Nat \ {0}

ASSUME ControlsAssumption ==
  /\ ControlMin \in Int
  /\ ControlMax \in Int
  /\ ControlMin <= ControlMax
  /\ RateStep \in Nat
  /\ Noise \subseteq Int
  /\ ReferenceControl \in Int
  /\ UseReferenceControls \in BOOLEAN

Time == 0 .. Horizon - 1
Sequences == [Time -> Int]

Least(a, b) == IF a <= b THEN a ELSE b
Most(a, b) == IF a >= b THEN a ELSE b
Clamp(x, low, high) == Least(Most(x, low), high)
InBox(x) == ControlMin <= x /\ x <= ControlMax

\* Solve on a reset: the nominal starts from the reference controls or from rest.
SeedNominal ==
  [t \in Time |-> IF UseReferenceControls THEN ReferenceControl ELSE 0]

\* The perturbations of BuildCandidates: the noise of an ordinary sample, and
\* those that turn a special sample into the nominal, the reference and the
\* lowest torque.
Perturbations(nominal) ==
  [Time -> Noise]
    \cup {[t \in Time |-> 0], [t \in Time |-> ControlMin - nominal[t]]}
    \cup (IF UseReferenceControls
            THEN {[t \in Time |-> ReferenceControl - nominal[t]]} ELSE {})

\* BuildCandidates: the delayed steps keep the nominal; all are put in the box.
BuildCandidate(nominal, epsilon) ==
  [t \in Time |->
     Clamp(nominal[t] + (IF t < DelaySteps THEN 0 ELSE epsilon[t]),
           ControlMin, ControlMax)]

\* Faulty variant: every step is limited against the previous command.
LimitAgainstFirst(candidate, previous) ==
  [t \in Time |-> Clamp(candidate[t], previous - RateStep, previous + RateStep)]

\* LimitControlRate, after the box: each step against the one before it.
LimitControlRate(candidate, previous) ==
  LET limited[t \in Time] ==
        LET prior == IF t = 0 THEN previous ELSE limited[t - 1]
        IN  Clamp(candidate[t], prior - RateStep, prior + RateStep)
  IN  IF RateStep > 0 THEN limited ELSE candidate

Candidates(nominal, previous) ==
  {LimitControlRate(BuildCandidate(nominal, e), previous) : e \in Perturbations(nominal)}

\* WeightedControls: the mean is put back in the box.
WeightedControls(a, b) ==
  [t \in Time |-> Clamp((a[t] + b[t]) \div 2, ControlMin, ControlMax)]

Updates(nominal, previous) ==
  LET drawn == Candidates(nominal, previous)
  IN  {WeightedControls(a, b) : a \in drawn, b \in drawn}

\* ShiftNominal: interpolate the updated controls shift ticks later; beyond the
\* end the last control is held.
ShiftNominal(updated, shift) ==
  [t \in Time |->
     LET last == Horizon - 1
         query == t * Dt + Most(shift, 0)
         low == Least(query \div Dt, last)
         high == Least(low + 1, last)
         fraction == Least(query - low * Dt, Dt)
     IN  ((Dt - fraction) * updated[low] + fraction * updated[high]) \div Dt]

=============================================================================
