\* Three captures and two resets: a slot is reused twice, with a reset anywhere.
SPECIFICATION FairSpec
CONSTANTS
  MaxCapture = 3
  MaxEpoch = 2
  None = None
INVARIANTS
  TypeOK
  SlotHasOneOwner
  BusySlotIsCollected
  CaptureIsOfItsWork
PROPERTIES
  SlotIsFreed
