\* Up to seven closures between t = 100 s and t = 161 s.
\* The clock is bounded: once it reaches MaxTime and the closure budget is
\* spent nothing is left to happen, which is not a deadlock of the code.
CONSTANTS
  StartTime = 100
  MaxTime = 161
  TimeSteps <- MCTimeSteps
  MaxClosures = 7
SPECIFICATION Spec
INVARIANT GiveUpJustified
CHECK_DEADLOCK FALSE
