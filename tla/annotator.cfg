\* The middleware on stale and current diagnostics of an edited document.
CONSTANTS
  Codes <- MCCodes
  NoCode = NoCode
  Texts <- MCTexts
  Messages <- MCMessages
  Severities <- MCSeverities
SPECIFICATION Spec
INVARIANT NormalizedRangeVisible
INVARIANT LintBarShowsCache
