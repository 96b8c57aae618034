\* One capture is enough: its solve throws between StageCapture and its return.
SPECIFICATION Spec
CONSTANTS
  MaxCapture = 2
  MaxEpoch = 1
  None = None
INVARIANTS
  EveryCaptureReachesWorker
