\* A second Configure Server Path command started while the first still
\* awaits its updates; change events precede the update's resolution.
SPECIFICATION Spec
CONSTANTS
  EventsBeforeResolve = TRUE
  SettingValues <- MCSettingValues
  Cmds <- MCTwoCmds
  MaxApplies = 2
  MaxUserEdits = 0
INVARIANT SelfWritesDoNotRestart
CHECK_DEADLOCK FALSE
