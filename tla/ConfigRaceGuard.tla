--------------------------- MODULE ConfigRaceGuard ---------------------------
(***************************************************************************)
(* The restart-on-configuration-change path of src/tools/vscode-parus/src/ *)
(* extension.ts and the flag that keeps the extension's own writes off it: *)
(* applyServerPathConfig (616-633), called by the Configure Server Path    *)
(* command, sets suppressConfigRestart, awaits two cfg.update calls        *)
(* (server.path, then server.mode), clears the flag in `finally` and       *)
(* enqueues one restart itself; the onDidChangeConfiguration handler       *)
(* (366-404) enqueues a restart for a path or mode change unless the flag  *)
(* is set.  Every write, the extension's or the user's in settings.json,   *)
(* reaches the handler as an event some time after it is made; whether     *)
(* VS Code delivers it before the update's promise resolves is the         *)
(* constant EventsBeforeResolve.  The command may be invoked again while   *)
(* an earlier invocation still awaits its updates: Cmds are the            *)
(* invocations that may overlap.  A handler for an event that also changes *)
(* trace.server awaits client.setTrace before it looks at the flag.        *)
(* The snapshot the handler reads first (readConfig, 378) is the          *)
(* ConfigSnapshot module; its values only feed setTrace and the log here.  *)
(***************************************************************************)
EXTENDS Naturals, Sequences, ConfigSnapshot

CONSTANTS
  EventsBeforeResolve,  \* an update's change event precedes its resolution
  Cmds,                 \* overlapping invocations of Configure Server Path
  MaxApplies,           \* bound on Configure Server Path commands
  MaxUserEdits          \* bound on the user's own edits of path or mode

ASSUME EventsBeforeResolve \in BOOLEAN
ASSUME {MaxApplies, MaxUserEdits} \subseteq Nat
ASSUME Cmds \subseteq Nat \ {0}

\* Events of the user's own edits; invocations are numbered from 1.
User == 0

VARIABLES
  apply,      \* per invocation: "idle", awaiting the "path" or "mode" update
  suppress,   \* suppressConfigRestart
  events,     \* change events not yet delivered, in order: [from, trace]
  awaiting,   \* handlers suspended in client.setTrace, all for user edits
  restarts,   \* restarts enqueued, by origin: "apply", "self", "user"
  applies,    \* commands run so far
  edits,      \* user edits so far
  stale,      \* a user edit has no restart enqueued after it yet
  settings,   \* settings.json as the handler's readConfig sees it
  snapshot    \* the ParusConfig the handler last read

vars == <<apply, suppress, events, awaiting, restarts, applies, edits, stale,
          settings, snapshot>>

\* No event of invocation c's own writes is still undelivered.
OwnEventsDelivered(c) == \A i \in DOMAIN events : events[i].from # c

Init ==
  /\ apply = [c \in Cmds |-> "idle"]
  /\ suppress = FALSE
  /\ events = <<>>
  /\ awaiting = 0
  /\ restarts = <<>>
  /\ applies = 0
  /\ edits = 0
  /\ stale = FALSE
  /\ settings \in Settings
  /\ snapshot = ReadConfig(settings)

\* applyServerPathConfig begins: the flag is set and cfg.update writes
\* server.path, whose change event is now on its way.
ApplyServerPathConfig(c) ==
  /\ apply[c] = "idle"
  /\ applies < MaxApplies
  /\ applies' = applies + 1
  /\ suppress' = TRUE
  /\ events' = Append(events, [from |-> c, trace |-> FALSE])
  /\ apply' = [apply EXCEPT ![c] = "path"]
  /\ UNCHANGED <<awaiting, restarts, edits, stale, settings, snapshot>>

\* Mutant of PathUpdated (SelfWritesDoNotRestart): the flag is cleared as
\* soon as the first update resolves.
PathUpdatedEarlyReset(c) ==
  /\ apply[c] = "path"
  /\ EventsBeforeResolve => OwnEventsDelivered(c)
  /\ \E modeChanged \in BOOLEAN :
       events' = IF modeChanged THEN Append(events, [from |-> c, trace |-> FALSE]) ELSE events
  /\ apply' = [apply EXCEPT ![c] = "mode"]
  /\ suppress' = FALSE
  /\ UNCHANGED <<awaiting, restarts, applies, edits, stale, settings, snapshot>>

\* The server.path update resolves; server.mode is written, which fires
\* an event only if the mode changes.
PathUpdated(c) ==
  /\ apply[c] = "path"
  /\ EventsBeforeResolve => OwnEventsDelivered(c)
  /\ \E modeChanged \in BOOLEAN :
       events' = IF modeChanged THEN Append(events, [from |-> c, trace |-> FALSE]) ELSE events
  /\ apply' = [apply EXCEPT ![c] = "mode"]
  /\ UNCHANGED <<suppress, awaiting, restarts, applies, edits, stale, settings, snapshot>>

\* Mutant of ModeUpdated (UserEditTakesEffect): the command relies on the
\* change events and enqueues no restart of its own.
ModeUpdatedNoRestart(c) ==
  /\ apply[c] = "mode"
  /\ EventsBeforeResolve => OwnEventsDelivered(c)
  /\ suppress' = FALSE
  /\ apply' = [apply EXCEPT ![c] = "idle"]
  /\ UNCHANGED <<events, awaiting, restarts, applies, edits, stale, settings, snapshot>>

\* The server.mode update resolves: `finally` clears the flag, whoever
\* set it, and the command enqueues its restart, which reads the settings
\* when it runs.
ModeUpdated(c) ==
  /\ apply[c] = "mode"
  /\ EventsBeforeResolve => OwnEventsDelivered(c)
  /\ suppress' = FALSE
  /\ apply' = [apply EXCEPT ![c] = "idle"]
  /\ restarts' = Append(restarts, "apply")
  /\ stale' = FALSE
  /\ UNCHANGED <<events, awaiting, applies, edits, settings, snapshot>>

\* The user edits server.path or server.mode in the settings, possibly
\* with trace.server in the same save.
UserEdit ==
  /\ edits < MaxUserEdits
  /\ edits' = edits + 1
  /\ \E trace \in BOOLEAN : events' = Append(events, [from |-> User, trace |-> trace])
  /\ stale' = TRUE
  /\ UNCHANGED <<apply, suppress, awaiting, restarts, applies, settings, snapshot>>

\* The handler's check at the flag: a path or mode change enqueues a
\* restart unless suppressConfigRestart is set.
CheckSuppress(origin) ==
  IF suppress
  THEN UNCHANGED <<restarts, stale>>
  ELSE /\ restarts' = Append(restarts, origin)
       /\ stale' = FALSE

\* onDidChangeConfiguration runs for the oldest event: it reads the
\* snapshot and, with trace.server changed too (and a client running),
\* first awaits client.setTrace.
DeliverEvent ==
  /\ events # <<>>
  /\ events' = Tail(events)
  /\ IF Head(events).trace
     THEN /\ awaiting' = awaiting + 1
          /\ UNCHANGED <<restarts, stale>>
     ELSE /\ CheckSuppress(IF Head(events).from = User THEN "user" ELSE "self")
          /\ UNCHANGED awaiting
  /\ snapshot' = ReadConfig(settings)
  /\ UNCHANGED <<apply, suppress, applies, edits, settings>>

\* client.setTrace resolves for a suspended handler, which goes on to the
\* flag as it is now.
TraceApplied ==
  /\ awaiting > 0
  /\ awaiting' = awaiting - 1
  /\ CheckSuppress("user")
  /\ UNCHANGED <<apply, suppress, events, applies, edits, settings, snapshot>>

Next ==
  \/ \E c \in Cmds : ApplyServerPathConfig(c) \/ PathUpdated(c) \/ ModeUpdated(c)
  \/ UserEdit
  \/ DeliverEvent
  \/ TraceApplied

\* Events are delivered, updates and setTrace resolve: the host's doing.
Spec == Init /\ [][Next]_vars
          /\ WF_vars(DeliverEvent) /\ WF_vars(TraceApplied)
          /\ \A c \in Cmds : WF_vars(PathUpdated(c)) /\ WF_vars(ModeUpdated(c))

-----------------------------------------------------------------------------
(* Properties.                                                             *)

\* The extension's own writes never restart the server through the
\* configuration handler (spec 7, ConfigRaceGuard): a Configure Server
\* Path command restarts it once, by its own enqueue.
SelfWritesDoNotRestart ==
  \A i \in DOMAIN restarts : restarts[i] # "self"

\* The snapshot the handler reads keeps the promise of spec 2
\* (ConfigSnapshot): debounceMs and idleTimeoutSec are integers clamped to
\* 0-5000 and 0-3600 whatever settings.json holds; a number within the
\* range moves by less than one, one below it is the minimum and one above
\* it the maximum.
SnapshotWithinSpec == SnapshotOf(settings, snapshot)

\* A change the user makes to server.path or server.mode is always
\* followed by a restart, even when it lands while the flag is set.
UserEditTakesEffect == stale ~> ~stale
====
