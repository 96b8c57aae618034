SPECIFICATION Spec
CONSTANTS
  NaN = NaN
  None = None
  Infinity = 99
  Configurations <- MCConfigurations
INVARIANTS
  AbruptExitIsAboutFriction
  AcceptedOptionsBuild
  NodeIsWholeOrGone
