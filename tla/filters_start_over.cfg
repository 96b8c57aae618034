\* A measurement, a reset or a pause, one that is not finite, and one that is.
SPECIFICATION Spec
CONSTANTS
  MaxTime = 4
  MaxEpoch = 1
  MaxApplied = 0
  LatchTime = 2
  PeakWindow = 2
  LongestStep = 1
  Mus = {3}
  NominalMu = 3
  ApplyMuMin = 3
  ApplyMuMax = 3
  Apply = FALSE
  Threads = {{"grip"}}
  HasTires = TRUE
  None = None
INVARIANT
  FiltersStartOver
