\* One reset is enough: the command sent just before it is fed back after it.
SPECIFICATION Spec
CONSTANTS
  MaxGeneration = 4
  MaxEpoch = 1
  LimitPublicationRate = FALSE
  None = None
INVARIANTS
  FeedbackOfOneEpoch
