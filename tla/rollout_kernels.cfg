SPECIFICATION Spec
CONSTANTS
  Horizon = 2
  Substeps = 2
  Lap = 25
  Span = 12
  HalfWidth = 2
  PassLimit = 27
  MaximumSideslip = 2
  Obstacle = 6
  LatchThreshold = 2
  MaximumSpeed = 2
  Gamma = 2
  Weight <- MCWeight
  Discounts <- MCDiscounts
  NotFinite = NotFinite
  SampleCount = 3
  InitialStates <- MCInitialStates
  Controls <- MCControls
  Nominals <- MCNominals
  PreviousControl <- MCPreviousControl
  Underflow = 8
  Lambda = 40
  SelectCount = 2
INVARIANTS
  KernelsAgree
  BreakdownSumsToCost
  HostAgreesFromCleanStart
  PicksAreBest
