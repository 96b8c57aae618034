\* Five generations and two resets: a reset can fall anywhere in a solve and in a
\* publication, twice, with an observation before, between and after.
SPECIFICATION FairSpec
CONSTANTS
  MaxGeneration = 5
  MaxEpoch = 2
  LimitPublicationRate = TRUE
  None = None
INVARIANTS
  TypeOK
  WarmStateOfOneEpoch
  SolutionOfCurrentEpoch
  FeedbackIsLastSent
  NewerStaysEligible
PROPERTIES
  ImplementsFreshestOnly
  ObservationIsTaken
  SolutionReachesControl
  ResetReachesController
  ShutdownCompletes
