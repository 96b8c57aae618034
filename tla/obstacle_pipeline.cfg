\* Three fields and two resets: two fields of one epoch and one of another, with a
\* reset anywhere on their way.
SPECIFICATION FairSpec
CONSTANTS
  MaxField = 3
  MaxEpoch = 2
  None = None
INVARIANTS
  TypeOK
  FieldOfCurrentEpoch
  OldFieldIsBeingCleared
  PlanSeesFieldOnOffer
PROPERTIES
  OldFieldIsCleared
  WorkerStops
