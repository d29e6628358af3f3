\* Start, stop, restart, idle stop, activity, closures, diagnostics and
\* deactivate interleaved; the extension may rest once its bounded events
\* are spent, so a state with nothing left to do is not an error.
SPECIFICATION Spec
CONSTANTS
  CandidateCounts <- MCCandidateCounts
  IdleEnabled = TRUE
  MayDeactivate = TRUE
  MaxClients = 2
  MaxEvents = 2
  MaxClosures = 6
  ResolutionError = ResolutionError
INVARIANT TypeOK
INVARIANT HeldClientUsable
CHECK_DEADLOCK FALSE
