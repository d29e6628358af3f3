\* Idle stop with three activity or command events, two LanguageClient
\* objects, one closure and no deactivation.
SPECIFICATION Spec
CONSTANTS
  CandidateCounts <- MCCandidateCounts
  IdleEnabled = TRUE
  MayDeactivate = FALSE
  MaxClients = 2
  MaxEvents = 3
  MaxClosures = 1
  ResolutionError = ResolutionError
PROPERTY IdleEventuallyReleases
PROPERTY RefinesSessionLifecycle
PROPERTY QueueProgressOnceUserAnswers
CHECK_DEADLOCK FALSE
