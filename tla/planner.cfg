SPECIFICATION Spec
CONSTANTS
  Horizon = 3
  DelaySteps = 1
  Dt = 2
  ControlMin <- MCControlMin
  ControlMax = 1
  RateStep = 1
  Noise <- MCNoise
  ReferenceControl = 1
  UseReferenceControls = TRUE
  MaxTime = 4
  MaxEpoch = 1
  ResetCounters = {0, 1}
  Measured <- MCMeasured
  MaximumAge = 2
  FutureTolerance = 0
  MaximumShift = 2
  None = None
INVARIANTS
  TypeOK
  ElapsedIsPositive
  NominalIsRecent
  SlewLimited
