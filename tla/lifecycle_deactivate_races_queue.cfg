\* deactivate stops the client directly while lifecycle tasks stay queued.
SPECIFICATION Spec
CONSTANTS
  CandidateCounts <- MCCandidateCounts
  IdleEnabled = FALSE
  MayDeactivate = TRUE
  MaxClients = 3
  MaxEvents = 2
  MaxClosures = 2
  ResolutionError = ResolutionError
INVARIANT NoServerAfterDeactivate
CHECK_DEADLOCK FALSE
