\* Two confirming scans and one point in the grid are enough.
SPECIFICATION Spec
CONSTANTS
  Retention = 1
  MaximumExtrapolation = 1
  ConfirmationUpdates = 2
  PersistenceUpdates = 1
  AssociationDistance = 2
  InflationSquared = 0
  MaximumSquared = 6
  GridWidth = 4
  GridHeight = 2
  Large = 1000
  Scale = 1680
  None = None
  Places <- MCPlaces
  Speeds = {0, 1}
  RayCount = 2
  MaxTime = 4
  MaxEpoch = 1
INVARIANT
  FieldIsEuclidean
