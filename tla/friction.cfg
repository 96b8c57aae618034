\* Five pose times let the latch set and clear and the filters start over; one reset and
\* two coefficients handed over cut across them.
SPECIFICATION Spec
CONSTANTS
  MaxTime = 5
  MaxEpoch = 1
  MaxApplied = 2
  LatchTime = 2
  PeakWindow = 2
  LongestStep = 2
  Mus = {3, 4}
  NominalMu = 5
  ApplyMuMin = 3
  ApplyMuMax = 4
  Apply = TRUE
  Threads = {{"grip"}, {"mu"}}
  HasTires = TRUE
  None = None
INVARIANTS
  PlanUsesFrictionOnOffer
  PeaksOfOneEpoch
PROPERTY
  LatchFollowsSteadyCondition
