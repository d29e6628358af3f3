\* Three Configure Server Path commands, one after the other, and three user edits, with change
\* events delivered before the update that caused them resolves.  Once
\* the bounded commands and edits are spent, the extension waits.
SPECIFICATION Spec
CONSTANTS
  EventsBeforeResolve = TRUE
  SettingValues <- MCSettingValues
  Cmds <- MCOneCmd
  MaxApplies = 3
  MaxUserEdits = 3
INVARIANT SelfWritesDoNotRestart
INVARIANT SnapshotWithinSpec
PROPERTY UserEditTakesEffect
CHECK_DEADLOCK FALSE
