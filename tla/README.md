# TLA+ models of the Parus VS Code extension

These modules model the language-server sidecar management of the Parus VS Code
extension, `src/tools/vscode-parus/src/extension.ts`. That file is the only
entry point. Every behaviour below is translated from it. Line numbers refer to
that file unless another file is named.

## 1. The system

`extension.ts` runs on the single-threaded extension-host event loop. Nothing
runs in parallel, but every `await`, timer and library callback is a point where
other handlers interleave. The parts:

| Part | Code | State it keeps | Operations |
|---|---|---|---|
| Lifecycle orchestrator | `activate`, `deactivate`, `startLanguageClient`, `stopLanguageClient`, `restartLanguageClient`, `enqueueLifecycle`, `onParusActivity` (329-799, 1340-1379) | `client`, `lifecycleQueue` (a promise chain), `changeDebouncer`, `idleStopController` | queued start / stop / restart tasks; activity; restart command; deactivate |
| Configuration handler | `onDidChangeConfiguration` (366-404), `applyServerPathConfig` (616-633) | `suppressConfigRestart` | a settings change enqueues a restart unless the flag is set; the Configure Server Path command writes path and mode under the flag, then enqueues its own restart |
| Idle timer | `IdleStopController` (298-327) | one `setTimeout` handle | `touch` (re-arm or clear), `clear`, the timer's `onIdle` (enqueue a stop if a client exists) |
| Change debouncer | `ChangeDebouncer` (164-296) | `Map<uri, bucket>`; each bucket has a queue of `{event, next, resolvers}`, a timer and `flushing` | `didChange`, `didClose`, flush, cancel, `dispose` |
| Error recovery policy | `createErrorHandler` (1023-1059) | `closeCount`, `windowStart`, one pair per start | `closed()` → Restart / DoNotRestart; `error()` → Continue |
| Executable resolver | `resolveLaunchCandidates` … `buildExecutable` (835-1013) | none (reads the file system and `PATH`) | explicit path, direct mode (parusd) or driver mode (parusc, then parusd) |
| Diagnostic annotator | `enhanceDiagnostics` … `inferDiagnosticCategory` (1096-1208), `cacheParusDiagnostics` (1210-1219) | `parusDiagnosticsByUri` | prefix `[category/code]`, widen zero-width ranges, cache per document |
| Configure Server Path command | `configureServerPathFromStatusBar`, `pickExecutableWithFinder` (467-614) | the open dialog | quick pick (auto, workspace parusc/parusd, Finder, typed path), then `applyServerPathConfig` |
| UI | lint status bar item (1221-1275), server path item, completion providers | lint item: `parusDiagnosticsByUri` and the active editor; others text only | render |

How they interact:

- Editor events call `onParusActivity`. It touches the idle timer and, when there
  is no `client`, enqueues a start.
- A start resolves candidates, replaces the debouncer and builds one error
  handler. It then tries each candidate in turn: `client = new LanguageClient`,
  then `start()` raced against 10 s, then `setTrace`. On success it touches the
  idle timer. On failure it runs `safeStopClient` and moves to the next candidate.
  `safeStopClient` calls the library's `stop()` and only logs an error. The
  promise-based client (v8+; `start()` is awaited) stops only a running
  client, and throws for one still starting or being restarted.
  After the last candidate it awaits an error notification.
- The library sends every `didChange` through the debouncer's middleware, and
  every `publishDiagnostics` through `handleDiagnostics` into the cache.
- When the connection closes, the library asks `closed()`. On Restart it
  restarts the server by itself, outside the lifecycle queue.
- The idle timer enqueues a stop. `deactivate` calls `stopLanguageClient`
  directly.
- A settings change to `server.path` or `server.mode` enqueues a restart, unless
  `suppressConfigRestart` is set. The Configure Server Path command sets it
  around its own two `cfg.update` calls. When `trace.server` changed too, the
  handler first awaits `client.setTrace`, and only then looks at the flag.

The files under `core/`, `lsp/` and `features/` are imported by nobody. They are
an unfinished refactor with no behaviour in the extension.

### What is hard

- The lifecycle queue serialises tasks, but the handlers outside it interleave
  with every await of a task. Those handlers are activity, the idle timer,
  closures with the library's own restart, diagnostics and deactivate.
- A start's candidate loop has a timeout race, a failing `setTrace`, and a
  `client` that is cleared only "if still ours".
- Debouncer buckets are objects. A flush holds one across an await while
  close/reopen replaces it in the Map.
- The restart budget depends on when closures fall relative to the window.
- `stop()` only acts on a running client, so which candidate or client a stop
  reaches, and in which library state, decides whether its server goes down.
- `suppressConfigRestart` is one boolean, held across awaits. Whether it
  covers a write depends on when VS Code delivers that write's change event, and
  on whether another Configure command is also in flight.
- The annotator normalises a range against the text of the document when the
  notification arrives, which may not be the text the server analysed.

### What makes each part correct

- **Debouncer:**
  - no change is stranded while its document is open;
  - delivery order is arrival order;
  - no abandoned change is delivered;
  - every change's promise settles.
- **Recovery policy:**
  - it gives up only after six closures within 60 s;
  - no minute has more than five restarts (spec §2 and §7; the code keeps
    the fixed window of §3 and §4.4 and violates it).
- **Lifecycle:**
  - every live server is the one `client` holds (violated: a timed-out
    candidate survives);
  - `client` never holds a dead client, so activity can always start one;
  - diagnostics are cleared when the server stops;
  - nothing runs after deactivate;
  - queued tasks make progress;
  - with idle stop on, the extension eventually lets go of its client;
  - seen from outside, it is the one-request-at-a-time session machine of
    spec §4.2, the stops and restarts that handlers outside the queue cause
    included.
- **Resolver:** it picks the candidates of spec §4.1, in order, and raises
  ResolutionError where the spec says. The binary the Configure command
  writes is the one launched.
- **Configuration snapshot:** debounce and idle timeout are integers within
  their ranges, whatever a hand-edited `settings.json` holds.
- **Configuration handler:**
  - the extension's own writes never restart the server through the handler;
  - every user change of path or mode is followed by a restart.
- **Annotator:**
  - a zero-width range ends up one character wide, on a line that exists;
  - the lint item always sums up the cache of the active document.

## 2. Modules

### `ChangeDebouncer.tla` (+ `MC_ChangeDebouncer.tla`)

This module models the debouncer class.

- **Buckets.** A bucket has an identity (`bk[b]` = document and debouncer
  generation), so a bucket the Map has forgotten still exists while a flush holds
  it. `buckets[d]` is the Map, `queue[b]` the bucket's queue, `armed` the buckets
  with a pending timer, `flushing[b]` the flag, and `inflight[b]` the change whose
  `await entry.next(...)` is pending.
- **`gen`.** It counts `dispose` calls. A restart replaces the debouncer, and
  `gen` marks the buckets of an old instance.
- **Actions:**
  - `DidChangeImmediate` / `DidChangeQueued`: `didChange`, split on the debounce
    value;
  - `FlushSkipped` / `FlushStarts`: the timer callback;
  - `DeliveryDone`: the await returns; the rest of the loop body and the
    `finally` are in `Drain`;
  - `Cancel` / `DidClose`;
  - `Reopen`;
  - `SetDebounce`: the setting read at every `didChange`;
  - `Dispose`.
- **History variables.** `arrivals`, `delivered`, `settled` and `abandoned`
  exist for the properties.

### `ErrorRecoveryPolicy.tla` (+ `MC_ErrorRecoveryPolicy.tla`)

This module models `closed()`.

- **Operators.** The decision is a set of operators: `WindowExpired`,
  `CountAfter` and `CloseAction`. The backoff hint is only logged and is
  left out.
- **State.** The clock `now` is a bounded variable in seconds.
- **Actions.** `Closed` is the whole handler body. `UserRestart` is a new start,
  which builds a new handler.
- **History.** `log` records every answer.

### `LifecycleOrchestrator.tla` (+ `MC_LifecycleOrchestrator.tla`)

This module models the lifecycle.

- **Queue state.** `tasks` are the tasks chained on `lifecycleQueue` that have not
  begun. `run` is the running task's program counter, one value per await:
  `resolving`, `starting`, `settrace`, `abandoning`, `notifying` and `stopping`.
- **Client state.** `cstate[c]` is what the library does with LanguageClient
  `c`: starting, running, restarting, closed, stopping or stopped. `client` is
  the global of that name.
- **Other state:**
  - `idleArmed`: the idle timer;
  - `cache`: the clients whose diagnostics are cached;
  - `deactivated` / `dstop`: deactivate and the stop it awaits;
  - `initialized`: clients that have answered initialize.
- **Queued-task actions:**
  - `TaskBegin`: the chain calls the next task, and its synchronous prefix
    (`StartBegin` / `StopBegin`) runs in the same step;
  - `StopDone`;
  - `Resolved(r)`: `r` is the resolution outcome;
  - `StartSucceeded` / `StartFailed(rejected)`: `start()` rejected (no server
    is left), or the 10 s timer won and the client is still starting;
  - `SetTraceDone(ok)`;
  - `CandidateAbandoned`;
  - `NotifyDismissed`.
- **Actions outside the queue:**
  - `Activity`;
  - `RestartCommand`;
  - `IdleFires`;
  - `Closure(c)`: it uses `ErrorRecoveryPolicy!CloseAction` through
    `INSTANCE`, and the clock decides whether the window expired;
  - `LibraryRestarted(c)`;
  - `LateStartSettled(c, ok)`: the `start()` of a client whose race was lost
    settles later, up or failed;
  - `Diagnostics(c)`;
  - `Deactivate` / `DeactivateDone`.
- **Helpers.** `Touch` and `ClearIdle` are the idle timer's `touch()` and
  `clear()`. `SafeStopClient(cs, c)` is `safeStopClient`: a running client
  goes to stopping, a closed one (the library has it Stopped) to stopped, and
  any other is left as it is, because `stop()` throws and the error is only
  logged. `StopSettled(c)` is the awaited `stop()` returning. Every stop uses
  them: `StopBegin`, `StartFailed`, `SetTraceDone`, `Deactivate`.

Abstractions in this module:

- The resolution outcome is an input: an error, or 0, 1 or 2 candidates.
- `closeCount` is kept per client. The code shares one handler between the
  candidates of one start. Only an orphaned candidate can close at the same
  time as the current one, and no property looks at the count then.
- The library is not in this repository. The model takes the behaviour of
  the v8+ `stop()`, which the awaited `start()` implies. It returns at once
  for a stopped client and returns the pending stop for a stopping one. It
  throws for any client not running, including one starting or restarting.

### `SessionLifecycle.tla`: the abstract lifecycle

This module states what spec §4.2 promises, without the code.

- **State.** `session` is the one session: Stopped, Starting, Running or
  Stopping. `pending` is the FIFO of requests. `current` is the request in
  flight. A restart whose stop has finished counts as a start.
- **Actions.** `Request(k)` queues a request. `Begin` takes the oldest one. A
  start with a session, or a stop without one, ends at once. `StopEnd`,
  `Launch`, `Started`, `Fail`, `GiveUp` and `Finish` follow one request.
- **Fairness.** A request begins when none is in flight. A session never stays
  Starting, because initialize races a timeout. It never stays Stopping
  either: a stop completes, and a start then tries the next candidate or gives
  up. A launch from Stopped is not promised, because resolution may find no
  candidate. Finishing a start is not promised either, because it may wait on
  a notification the user must dismiss.

At the end of `LifecycleOrchestrator.tla`, `Abstract` instantiates it with this
refinement mapping:

- `session <- SessionOf`, computed from `run`, `client` and `cstate`:
  - a task awaiting `safeStopClient` (a stop's, or a failed candidate's) is
    Stopping;
  - otherwise the held client starting is Starting;
  - running, library-restarting or closed is Running;
  - no client is Stopped.

  A client nobody holds is not the session. This includes the orphans of
  `lifecycle_orphan_server`.
- `pending <- tasks`.
- `current <- CurrentRequest`, computed from the running task's `run.pc`.

`RefinesSessionLifecycle` is `Abstract!ASpec`, checked as a PROPERTY. It holds
because every stop of the held client happens in a queued task: `IdleFires`
enqueues its stop. The closures and the library's own restarts never leave the
session without a request that covers them.

### `ExecutableResolver.tla` (+ `MC_ExecutableResolver.tla`)

This module models `resolveLaunchCandidates` and its helpers as operators.

- **File system.** A file is a record of directory, name stem and extension.
  The directories are:
  - `wsCompiler` (`<root>/build/compiler/parusc`) and `wsBuild` (`<root>/build`);
  - the `PATH` entries `p1` and `p2`;
  - `abs`, the directory an absolute `server.path` names;
  - `wsRel` or `cwd`, where a relative one resolves.
- **State.** `exec` is the set of files `fs.access(X_OK)` accepts. The other
  variables are the settings (`serverPath`, `serverMode`), the workspace,
  `PATH` and the platform.
- **Operators.** There is one per function, in the code's order of search:
  - `ExpandExecutable`: win32 also tries `.exe`;
  - `FirstExecutable`, `ResolveInPath`, `ResolveFromWorkspaceBuild`,
    `ResolveAutoCommand`, `ResolveConfiguredCommand`;
  - `DetectModeFromCommand`, `Candidate`;
  - `ResolveLaunchCandidates`.
- **Actions.** `ToggleFile`, `SetServerPath` and `SetServerMode` are a binary
  being built or deleted, and an edit of the settings. Every start resolves
  from the current settings and files, so the properties look at
  `ResolveLaunchCandidates` in every state.
- **Configure Server Path.** `dialog` is the open step of the command:
  `picking`, `finder` or `input`. `items` holds the workspace `parusc` and
  `parusd` resolved when it opened. `dialogMode` is the `serverMode` read
  then, which is the fallback mode of a Finder or typed binary. `picked` is the
  binary and mode the command last wrote; a user edit of the settings clears
  it. The actions:
  - `ConfigureOpen`;
  - `PickAuto`, `PickWorkspace(stem)` and `GoTo` (Finder or typed path);
  - `FinderSelect(f)`: `resolveExecutableFile` must accept the file;
  - `InputSubmit(sp)`: empty is automatic search; a path that does not
    resolve throws, and the command's catch reports it;
  - `Cancel`.

  `ApplyServerPathConfig` writes both settings in one step. How its change
  events race the handler is `ConfigRaceGuard`'s subject. `PathOf` is the
  absolute path written, or the bare name `PATH` did not resolve, so a
  configured path now carries a directory.
- **Reference.** `SpecResolution` restates spec §4.1 over sets. It picks the
  file of least rank: workspace before `PATH`, `PATH` in order, and a plain name
  before `.exe`. `ResolverMatchesSpec` compares the two.
- **`PickLaunched`.** Once the command has written a binary that is still
  executable, resolution returns exactly that binary, in the mode written,
  with no correction. This holds whichever of the three ways produced it, and
  whatever changed while the dialog was open.

### `ConfigRaceGuard.tla` (+ `MC_ConfigRaceGuard.tla`)

This module models the configuration handler and `applyServerPathConfig`.

- **State:**
  - `apply[c]`: where invocation `c` of the command is, either idle or awaiting
    the `path` or `mode` update;
  - `suppress`: the flag;
  - `events`: the change events not yet delivered, tagged with the invocation
    that wrote them or the user (0), and whether `trace.server` changed too;
  - `awaiting`: handlers suspended in `client.setTrace`;
  - `restarts`: the restarts enqueued, by origin.
- **Actions:**
  - `ApplyServerPathConfig(c)`, `PathUpdated(c)` and `ModeUpdated(c)`:
    `ModeUpdated` is the `finally` and the command's own enqueue;
  - `UserEdit`;
  - `DeliverEvent`: the handler up to its first await, or to the flag;
  - `TraceApplied`: the rest after `setTrace` resolves (`CheckSuppress`).
- **Constants.** `EventsBeforeResolve` says whether VS Code delivers a write's
  change event before `cfg.update` resolves. `Cmds` are the invocations that may
  overlap.
- **Left out.** The restarts are counted, not run: the queue is
  LifecycleOrchestrator's. The dialogs before `applyServerPathConfig` are
  modelled in `ExecutableResolver`.

### `ConfigSnapshot.tla`

This module models `readConfig` and `clampNumber` (801-816, 1309-1314) as
operators. `ConfigRaceGuard` extends it, because the handler reads the
snapshot first (378). There, `settings` is the file's content, chosen
initially from every combination of the tried values. `snapshot` is what the
handler's `readConfig` last returned, and `SnapshotWithinSpec` relates the
two.

- **Values.** A setting is any JSON value a hand-edited `settings.json` may
  hold:
  - a number, n or n + ½, so that `Math.floor` shows;
  - a literal too large for a double, which parses as an infinity;
  - a string that does or does not convert to a number;
  - a boolean, or null.
- **JavaScript numbers.** `ToNumber`, `MathMax` and `MathMin` give the
  conversions and the NaN rule of `Math.max` and `Math.min`.
- **Refactored clamp.** `ClampNumberRefactored` is the `clampNumber` of the
  unwired `core/config.ts` (52-55). It tests `Number.isNaN` where the wired one
  tests `Number.isFinite`, and it does not floor. It is the mutant of
  `SnapshotWithinSpec`, and it violates it. A debounce of 2.5 stays 2.5, and
  a string that is not a number gives NaN. Wiring `core/config.ts` in as it
  stands would break spec §2.

### `DiagnosticAnnotator.tla` (+ `MC_DiagnosticAnnotator.tla`)

This module models the `handleDiagnostics` middleware as a whole:
`enhanceDiagnostics`, then `cacheParusDiagnostics` (which refreshes the lint
status bar item), then `next()`. It also models the other three places that
change the cache or the item: closing the document, switching the active
editor, and a server stop.

- **Operators.** There is one per function: `DiagnosticCodeToString`,
  `InferDiagnosticCategory`, `Prefix`, `StartsWith`, `Clamp` (`clampNumber`),
  `NormalizeDiagnosticRange`, `EnhanceOneDiagnostic`, `EnhanceDiagnostics`,
  `CacheParusDiagnostics` and `RefreshLintStatusBar`.
- **Codes.** A code is abstracted to what the rules test: its text, its
  `C_`/`L_`/`B_` prefix, the lookup table that holds it, and the keyword
  patterns it matches. Each rule is exercised by one code of
  `MC_DiagnosticAnnotator`.
- **Messages.** A message is a sequence of pieces, so "starts with the prefix"
  means "its first piece is the prefix".
- **State.** `lines` holds the document's line lengths and `open` whether it is
  in `textDocuments`. `published` is the server's notification, computed on the
  text as it was. `shown` / `shownOn` are what was passed to `next()` and the
  text it was normalised against. `cached` is the document's entry of
  `parusDiagnosticsByUri`, reduced to severities. `active` says whether the
  active editor shows the document. `bar` is the lint item: hidden, clean, or
  a count per severity.
- **Actions.** `Publish`, `Edit`, `DocOpen` and `DocClose` let the text change
  or the document close before `HandleDiagnostics` runs. `DocClose` is
  `onDidCloseTextDocument` (420-423). `ActiveEditor` is
  `onDidChangeActiveTextEditor` (405-410). `StopClearsCache` is the clearing
  in `stopLanguageClient` (788-789).
- **Bar property.** `LintBarShowsCache` says the item always sums up the
  cache of the active document. Its mutant caches without refreshing.

## 3. Runs

All cfgs use small model values and bounds. Each bound is named as a CONSTANT.

| Run | Expect | Properties | What it shows |
|---|---|---|---|
| `debounce_open_docs` | pass | `NoChangeLost`, `DeliveredInOrder`, `EveryChangeSettles` | With documents open and a 200 ms debounce, every queued change sits in a live bucket that is armed or flushing. Delivery order is arrival order, including changes that arrive while a flush awaits. Every change is eventually delivered or resolved, across a restart's `dispose`. |
| `debounce_close_reopen` | pass | `NoAbandonedDelivery` | A close during a flush never delivers an abandoned change, and at most one change is in flight per bucket. The debounce switches between 0 and 200. |
| `debounce_reopen_orphans` | violation | `NoChangeLost` | Close and reopen during a flush: the old flush deletes the new bucket. |
| `recovery_policy` | pass | `GiveUpJustified` | DoNotRestart only after six closures of one handler within 60 s, never earlier, across the window boundary and a new handler. |
| `lifecycle_safety` | pass | `TypeOK`, `HeldClientUsable` | `client` never holds a stopped client, or one being stopped, once the candidate loop has moved past it. So activity, which starts a server only when `client` is unset, never faces a dead client. This covers queued starts, stops and restarts, idle stops, rejected and timed-out candidates, setTrace failures, six closures (so DoNotRestart happens), diagnostics and deactivate. Its mutant forgets the `if (client === nextClient)` clearing (6,851,699 states, under a minute). |
| `lifecycle_orphan_server` | violation | `NoOrphanServer` | Candidate 1 of 2 loses the 10 s race. `safeStopClient` calls `stop()` on it while it is still starting; `stop()` throws and the error is only logged. Candidate 2 then takes `client`, and candidate 1 keeps starting with nothing holding it. A stop that meets a client the library is restarting leaves an orphan the same way. |
| `lifecycle_idle_stop` | pass | `IdleEventuallyReleases`, `RefinesSessionLifecycle`, `QueueProgressOnceUserAnswers` | With idle stop on, the extension eventually holds no client for good once activity ends; whether that client's server went with it is `NoOrphanServer`'s question. Every behaviour is one of the abstract session machine of spec §4.2, its fairness included. Every queued task begins in every behaviour where the user eventually dismisses each notification, so nothing but the user can hold the queue. The mutant awaits an enqueued start from inside the restart task, and the queue then deadlocks. This covers the idle timer, activity, the restart command, rejected and timed-out candidates with their late starts, a closure and the library's restart (302,500 states, under a minute). |
| `lifecycle_deactivate_races_queue` | violation | `NoServerAfterDeactivate` | A start in progress at deactivate brings a server up afterwards. |
| `resolver_rules` | pass | `ResolverMatchesSpec`, `PickLaunched` | For every unset, absolute or relative `server.path`, both modes, both platforms, three `PATH` values and every set of executables reached by building and deleting files, the candidates are those of spec §4.1 in the same order, with the same modes, arguments and reasons. This includes the paths the Configure command writes. Whatever that command writes, the next start launches while it stays executable. |
| `config_guard` | pass | `SelfWritesDoNotRestart`, `SnapshotWithinSpec`, `UserEditTakesEffect` | With one Configure command at a time and events delivered before the update resolves, the command's writes never restart through the handler. Every user edit is followed by a restart, also when its handler sat in `setTrace` while the command set the flag. The snapshot keeps debounce and idle timeout integers within 0–5000 and 0–3600 for every kind of JSON value. |
| `config_guard_overlapping` | violation | `SelfWritesDoNotRestart` | A second Configure command overlapping the first: the first one's `finally` clears the shared flag while the second one's write is in flight. |
| `annotator` | pass | `NormalizedRangeVisible`, `LintBarShowsCache` | Zero-width ranges, including ones at the end of a line or past a line the user has since shortened or deleted, become one character wide on an existing line, or (line, 0) on an empty line. Ranges of width, closed documents and foreign diagnostics pass unchanged. The lint item matches the cache of the active document after any mix of publications, editor switches, closes and stops (2.4M states, two severities). |

Each property of a passing run has a mutant in `PROJECT.json`. A mutant is a
plausible bug in the mapped definition, and TLC finds it under the run's cfg.
The findings are described in `PROJECT.json` under `"findings"`.

### Further counterexamples

The modules also state properties that the code violates under settings no run
above uses. Each is described in `PROJECT.json` under the hazard at the line
that causes it. To reproduce one, check the property alone with these
constants:

- **`DeliveredInOrder`** (`debounce_open_docs`, with `DebounceValues = {0, 200}`).
  `didChange` at debounce 0 bypasses changes still queued (177).
- **`AtMostFiveRestartsPerMinute`** (`recovery_policy`). It states the
  sliding window that spec §2 and §7 name. The code keeps the fixed reset
  that spec §3 and §4.4 prescribe (1036).
  - TLC's trace has closures at 100 s and 105 s, then five at 161 s. The
    first at 161 s resets the count, so 105 s to 161 s holds six restarts
    within 56 s.
  - At most nine restarts fit in 60 s: four late in one window and five
    early in the next.
  - The disagreement is inside the spec, so no run is spent on it.
- **`NoStaleDiagnostics`** (`lifecycle_deactivate_races_queue`, with
  `MayDeactivate = FALSE`). `stopLanguageClient` clears the cache before awaiting
  `stop()`, so diagnostics published meanwhile stay cached (788).
- **`QueueProgress`** (the same constants). A start awaiting
  `showErrorMessage` blocks the queue until the user dismisses it (776).
  Under the premise that the user answers, the same property passes as
  `QueueProgressOnceUserAnswers`.
- **`ResolverMatchesSpec`** (`resolver_rules`, with
  `ServerPaths <- MCServerPathsBare`). A bare name not on `PATH` is returned as
  the command, where spec §4.1 asks for a ResolutionError (892).
- **`SelfWritesDoNotRestart`** (`config_guard`, with
  `EventsBeforeResolve = FALSE`). An event arriving after `cfg.update` resolves
  finds the flag clear (620).

### Bounds

- **Debouncer.** Two documents and up to 5 changes give two or three
  changes per document, a change arriving during a flush, and a close/reopen
  between them.
  - `debounce_open_docs` allows two `dispose` calls, so a restart can hit a
    debouncer that has already taken changes after an earlier restart. That
    gives 154,689 states in about 20 s. Six changes take over three
    minutes.
  - `debounce_close_reopen` allows one `dispose`, giving 3,012,196 states in
    under a minute.
- **Recovery policy.** Clock steps of 5 s and 56 s between 100 s and 161 s, with
  7 closures. This covers six closures inside one window, the window boundary
  and a new handler.
- **Lifecycle.**
  - `lifecycle_orphan_server` and the deactivate run use 3 clients (two
    candidates of one start plus a later start) and 2 activity/command
    events. That is enough for a restart to race an idle stop or deactivate.
    Both stop at their first counterexample.
  - `lifecycle_safety` uses 2 clients, 2 events and 6 closures, so the sixth
    closure of one handler gets DoNotRestart and the closed client stays in
    `client`. With 3 clients it does not finish within five minutes.
  - `lifecycle_idle_stop` uses 2 clients, 3 events and 1 closure, so an idle
    stop can race a restart command and a later activity event. A timed-out
    first candidate with its late start still fits. The orphans' own late
    starts, closures and diagnostics multiply the states. Three larger
    settings were each checked once with no error, but are too slow to run
    every time (a liveness mutant must finish within two minutes):
    - 3 clients and 2 events: 1,304,522 states, four minutes;
    - 2 clients, 3 events and 2 closures: 857,901 states, two and a half
      minutes;
    - 2 clients, 2 events and 6 closures: 1,976,883 states, five and a half
      minutes.
  - `Closure` gives DoNotRestart only at the sixth closure of one handler.
    `lifecycle_safety` reaches it; `lifecycle_idle_stop` does not, but the
    last of the settings above does.
- **Resolver.** Nine files put a `parusc` or `parusd` in each directory that
  matters, a `parusd.exe` on `PATH` and a `parusd` in two `PATH` entries. With
  `PATH` empty, `p1:p2` or `p2:p1:p2` (a repeated entry), first-match order and
  `.exe` expansion both decide outcomes. Files are built and deleted one at a
  time, so every subset of executables is reached. The Configure command may
  open at any point, and Finder may return any of the nine files. There are
  2,021,376 states, checked in about a minute.
- **Configuration handler.** Three commands and three user edits in
  `config_guard` (413,856 states, about 20 s). When the commands overlap,
  one command and no edits. That is enough for an edit to land while
  the flag is set, for an edit with a trace change to be suspended across a
  whole command, and for a second command to start before the first finishes.
- **Annotator.** The texts are a line of two characters, a line of one
  followed by an empty line, and an empty document. The server may report a
  zero-width range at any position of its text, end of line included, and an
  edit can shorten or remove that line before the annotation. There are six
  codes, one per category rule plus the empty code, and `NoCode`, with a plain
  and an already prefixed message. Two severities and an active editor that
  is or is not the document let the lint item take every form. A close
  needs another editor to be active first. This gives 2.4M states in about
  half a minute.
- **Configuration snapshot.** Each numeric setting takes twelve values:
  - numbers below, at and above both ranges, including fractions;
  - both infinities;
  - a numeric string and another string;
  - `true` and `null`.

  Every combination of the two settings is an initial state, with a padded
  path and a mode and trace level the code does not know. Together with
  the commands and edits, that gives the 413,856 states of `config_guard`.

Every lifecycle cfg, the recovery cfgs, the configuration cfgs and
`debounce_open_docs` set `CHECK_DEADLOCK FALSE`. The
environment's events are bounded, so the extension comes to rest, waiting for
events, which is not a deadlock of the code.

### Fairness

- **Debouncer.** Timers fire and awaited deliveries return (WF). Edits, closes,
  settings and restarts are the user's, so they get no fairness.
- **Lifecycle.** Every step the code takes on its own is WF:
  - a settled promise resumes its task;
  - a due timer fires;
  - `start()` settles within the 10 s race;
  - the library's `stop()` settles;
  - the library's restart completes.

  The late start of a client whose race was lost gets no fairness. The
  library puts no deadline on initialize, and no property needs it.

  The user's dismissal of a notification is **not** fair, because nothing in the
  code bounds it. This is what `QueueProgress` exposes.
  `QueueProgressOnceUserAnswers` takes that dismissal as the premise of an
  implication (`WF_vars(NotifyDismissed) => QueueProgress`). It does not
  add it to the specification's fairness.
- **Configuration handler.** The host delivers every change event, every
  `cfg.update` resolves and every `setTrace` answers (WF). The user's edits and
  commands get no fairness.
- The resolver and the annotator have no liveness property and no fairness.
- **Abstract lifecycle.** Its fairness (see `SessionLifecycle.tla` above) is
  implied by the code's. A run where a start sits in `notifying` forever
  satisfies it.

## 4. Not modelled, and why

Not modelled, though they could be:

1. **Update failures.** A `cfg.update` can throw after `server.path` was
   written (623). The flag is cleared and no restart is enqueued. So a user
   edit that landed while the flag was set would never restart the server,
   and `UserEditTakesEffect` would fail. Showing it needs a violation run
   of its own, and the project is at its limit of runs.
2. **Stale diagnostics after a stop (788).** `NoStaleDiagnostics` states the
   requirement, and the code violates it. It has no run for the same
   reason. Section 3 gives the constants that reproduce it.

Composition is left as it is, on purpose:

- **Resolver into the lifecycle.** LifecycleOrchestrator takes the
  resolution outcome as an input from {error, 0, 1, 2 candidates}.
  `ResolverMatchesSpec` shows the resolver returns at most one `parusc` and
  one `parusd` candidate, or throws for a missing explicit path. So the
  input covers every outcome the resolver can produce, and feeding in the
  file system would multiply the states without adding an interleaving.
- **Configuration handler into the lifecycle.** Its restarts, and the
  Configure command's own restart, are the same
  `enqueueLifecycle(restartLanguageClient)` task as the restart command.
  `RestartCommand` in LifecycleOrchestrator stands for all of them.

Left out for good:

- The server path status bar item, the text of the lint item, the
  completion and definition tables, and logging. They are formatting and
  static data, with no state. The lint item's choice between hidden, clean
  and counts is modelled.
- The labels, messages and `closeQuickOpen`/`sleep(30)` of the Configure
  command. They are presentation.
- `toTraceLevel`, which maps one enum to the library's.
- The unwired files under `core/`, `lsp/` and `features/`. Nothing imports
  them: `extension.ts` has its own copies, and those are modelled. The
  copies differ from the wired code:
  - `features/statusbar/lint.ts` counts every non-warning as an error and
    renders "no file" rather than hiding;
  - `features/diagnostics/enhancer.ts` normalises ranges without the
    document text;
  - `core/config.ts` clamps without flooring. That version is the mutant of
    `SnapshotWithinSpec`.

  Wiring any of them in would change the behaviour the runs check.
