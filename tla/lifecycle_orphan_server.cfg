\* A candidate that loses the 10 s start race, or a client the library is
\* restarting, is given to safeStopClient while not running; no
\* deactivation, so the orphan comes from the queue's own paths.
SPECIFICATION Spec
CONSTANTS
  CandidateCounts <- MCCandidateCounts
  IdleEnabled = TRUE
  MayDeactivate = FALSE
  MaxClients = 3
  MaxEvents = 2
  MaxClosures = 2
  ResolutionError = ResolutionError
INVARIANT NoOrphanServer
CHECK_DEADLOCK FALSE
