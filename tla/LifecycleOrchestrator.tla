------------------------ MODULE LifecycleOrchestrator ------------------------
(***************************************************************************)
(* The language-server lifecycle of src/tools/vscode-parus/src/extension.ts:*)
(* the promise chain lifecycleQueue that runs start/stop/restart tasks one *)
(* at a time (enqueueLifecycle, 1340-1357), startLanguageClient (667-779), *)
(* stopLanguageClient (781-799), restartLanguageClient (662-665), the idle *)
(* timer (IdleStopController, 298-327, and its onIdle, 336-345), document *)
(* activity (onParusActivity, 651-660), the restart command, the error     *)
(* handler's closed() answer, the diagnostics cache of handleDiagnostics   *)
(* (cacheParusDiagnostics, 1210-1219) and deactivate (454-466).            *)
(*                                                                         *)
(* LanguageClient objects are numbered by creation.  cstate[c] is what the *)
(* vscode-languageclient library does with client c: starting, running,    *)
(* restarting on its own after a closure, closed after DoNotRestart,       *)
(* stopping, stopped.  The global `client` is the variable of that name.   *)
(* Each await of a task is a step of its own, so handlers that are not     *)
(* queued (activity, the idle timer, closures, diagnostics, deactivate)    *)
(* interleave with it.  The outcome of resolveLaunchCandidates is an input:*)
(* a resolution error or a number of candidates.                           *)
(***************************************************************************)
EXTENDS Naturals, Sequences, FiniteSets

CONSTANTS
  CandidateCounts,  \* numbers of candidates resolution may return (0 = none)
  IdleEnabled,      \* parus.server.idleTimeoutSec > 0
  MayDeactivate,    \* the extension may be deactivated in a run
  MaxClients,       \* bound on LanguageClient objects created
  MaxEvents,        \* bound on activity events and restart commands
  MaxClosures,      \* bound on connection closures
  ResolutionError   \* model value: resolveLaunchCandidates threw

ASSUME CandidateCounts \subseteq 0..2
ASSUME IdleEnabled \in BOOLEAN /\ MayDeactivate \in BOOLEAN
ASSUME {MaxClients, MaxEvents, MaxClosures} \subseteq Nat

\* The decision operators of the error handler (ErrorRecoveryPolicy).
Policy == INSTANCE ErrorRecoveryPolicy
            WITH StartTime <- 61, MaxTime <- 61, TimeSteps <- {1}, MaxClosures <- 0,
                 now <- 0, windowStart <- 0, closeCount <- 0, handler <- 0,
                 connected <- FALSE, log <- <<>>

Clients   == 1..MaxClients
NoClient  == 0
Live      == {"starting", "running", "restarting"}
CStates   == {"none", "closed", "stopping", "stopped"} \cup Live
ResolveOutcomes == {ResolutionError} \cup CandidateCounts
TaskKinds == {"start", "stop", "restart"}
PCs       == {"idle", "resolving", "starting", "settrace", "abandoning",
              "notifying", "stopping"}

VARIABLES
  tasks,        \* tasks chained on lifecycleQueue and not yet begun
  enqueued,     \* number of tasks ever enqueued
  run,          \* the task in progress: [pc, kind, cur, cand, ncand]
  client,       \* the global `client`
  cstate,       \* [Clients -> CStates]
  closeCount,   \* [Clients -> Nat]: closeCount of the client's error handler
  idleArmed,    \* the idle setTimeout is pending
  cache,        \* clients whose diagnostics are in parusDiagnosticsByUri
  events,       \* number of activity events and commands so far
  closures,     \* number of connection closures so far
  deactivated,  \* "no", "stopping" (its stop is awaited) or "done"
  dstop,        \* the client deactivate's stop awaits, or NoClient
  initialized   \* clients whose server answered initialize

vars == <<tasks, enqueued, run, client, cstate, closeCount, idleArmed, cache,
          events, closures, deactivated, dstop, initialized>>

-----------------------------------------------------------------------------
(* Helpers.                                                                *)

\* enqueueLifecycle: chain a task after the last one.
Enqueue(k) ==
  /\ tasks' = Append(tasks, k)
  /\ enqueued' = enqueued + 1

\* idleStopController?.touch(): re-arm the timer when idle stop is on.
\* After deactivate the controller is undefined and touch does nothing.
Touch ==
  idleArmed' = IF deactivated = "done" THEN idleArmed ELSE IdleEnabled

\* idleStopController?.clear(): cancel a pending timer.
ClearIdle == idleArmed' = FALSE

Idle == [pc |-> "idle", kind |-> "start", cur |-> NoClient, cand |-> 0, ncand |-> 0]

\* The synchronous prefix of startLanguageClient: a no-op that touches
\* the idle timer when a client exists; otherwise it awaits resolution.
StartBegin(k) ==
  IF client # NoClient
  THEN /\ Touch
       /\ run' = Idle
  ELSE /\ UNCHANGED idleArmed
       /\ run' = [Idle EXCEPT !.pc = "resolving", !.kind = k]

\* safeStopClient(c) with the client states cs: target.stop() and its
\* error only logged.  The library stops a running client; a closed one
\* (DoNotRestart left it Stopped) returns at once; a client stopping
\* already returns the same stop; a client still starting, restarting
\* after a closure or whose start failed is "not running" and stop()
\* throws, so it is left as it is.
SafeStopClient(cs, c) ==
  [cs EXCEPT ![c] = CASE @ = "running" -> "stopping"
                      [] @ = "closed"  -> "stopped"
                      [] OTHER         -> @]

\* The stop() awaited by safeStopClient(c) has settled: a stop in progress
\* has ended; a stop that threw changed nothing.
StopSettled(c) == [cstate EXCEPT ![c] = IF @ = "stopping" THEN "stopped" ELSE @]

\* The synchronous prefix of stopLanguageClient: clear the idle timer,
\* dispose the debouncer, clear the diagnostics cache and, when a client
\* exists, forget it and await its stop.
StopBegin(k) ==
  /\ ClearIdle
  /\ cache' = {}
  /\ IF client = NoClient
     THEN /\ run' = IF k = "restart" THEN [Idle EXCEPT !.pc = "resolving", !.kind = k]
                    ELSE Idle
          /\ UNCHANGED <<client, cstate>>
     ELSE /\ run' = [Idle EXCEPT !.pc = "stopping", !.kind = k, !.cur = client]
          /\ client' = NoClient
          /\ cstate' = SafeStopClient(cstate, client)

\* The number the next `new LanguageClient` gets.
NextClient == Cardinality({c \in Clients : cstate[c] # "none"}) + 1

\* Candidate i of n: `new LanguageClient`, `client = nextClient` and
\* start() raced against the 10 s timeout; its error handler is new.
Launch(i, n, base) ==
  /\ client' = NextClient
  /\ cstate' = [base EXCEPT ![NextClient] = "starting"]
  /\ closeCount' = [closeCount EXCEPT ![NextClient] = 0]
  /\ run' = [run EXCEPT !.pc = "starting", !.cur = NextClient, !.cand = i, !.ncand = n]

-----------------------------------------------------------------------------
(* The lifecycle queue: one task at a time, in the order enqueued.         *)

\* activate enqueues the initial start when a Parus document is open.
Init ==
  /\ tasks \in {<<>>, <<"start">>}
  /\ enqueued = Len(tasks)
  /\ run = Idle
  /\ client = NoClient
  /\ cstate = [c \in Clients |-> "none"]
  /\ closeCount = [c \in Clients |-> 0]
  /\ idleArmed = FALSE
  /\ cache = {}
  /\ events = 0
  /\ closures = 0
  /\ deactivated = "no"
  /\ dstop = NoClient
  /\ initialized = {}

\* The previous task has settled and the chain calls the next one; its
\* synchronous prefix runs in the same step.
TaskBegin ==
  /\ run.pc = "idle"
  /\ tasks # <<>>
  /\ tasks' = Tail(tasks)
  /\ LET k == Head(tasks) IN
       IF k = "start"
       THEN /\ StartBegin(k)
            /\ UNCHANGED <<client, cstate, cache>>
       ELSE StopBegin(k)
  /\ UNCHANGED <<enqueued, closeCount, events, closures, deactivated, dstop,
                 initialized>>

\* Mutant of StopDone (QueueProgressOnceUserAnswers): restartLanguageClient
\* awaits enqueueLifecycle(startLanguageClient) from inside its own task,
\* which then waits on a task queued behind it.
StopDoneEnqueuesStart ==
  /\ run.pc = "stopping"
  /\ cstate' = StopSettled(run.cur)
  /\ IF run.kind = "restart"
     THEN /\ Enqueue("start")
          /\ run' = [run EXCEPT !.pc = "awaiting"]
          /\ UNCHANGED idleArmed
     ELSE /\ run' = Idle
          /\ UNCHANGED <<idleArmed, tasks, enqueued>>
  /\ UNCHANGED <<client, closeCount, cache, events, closures,
                 deactivated, dstop, initialized>>

\* `await safeStopClient(current)` of stopLanguageClient returns; a
\* restart goes on with startLanguageClient.
StopDone ==
  /\ run.pc = "stopping"
  /\ cstate' = StopSettled(run.cur)
  /\ IF run.kind = "restart"
     THEN StartBegin("restart")
     ELSE /\ run' = Idle
          /\ UNCHANGED idleArmed
  /\ UNCHANGED <<tasks, enqueued, client, closeCount, cache, events, closures,
                 deactivated, dstop, initialized>>

\* `await resolveLaunchCandidates` returns: a resolution error or no
\* candidate leads to `await showErrorMessage`; otherwise the debouncer is
\* replaced and the first candidate is launched.
Resolved(r) ==
  /\ run.pc = "resolving"
  /\ IF r \in {ResolutionError, 0}
     THEN /\ run' = [run EXCEPT !.pc = "notifying"]
          /\ UNCHANGED <<client, cstate, closeCount>>
     ELSE /\ NextClient + r - 1 <= MaxClients
          /\ Launch(1, r, cstate)
  /\ UNCHANGED <<tasks, enqueued, idleArmed, cache, events, closures, deactivated,
                 dstop, initialized>>

\* start() resolves before the timeout: `await nextClient.setTrace(...)`.
StartSucceeded ==
  /\ run.pc = "starting"
  /\ cstate[run.cur] = "starting"
  /\ cstate' = [cstate EXCEPT ![run.cur] = "running"]
  /\ initialized' = initialized \cup {run.cur}
  /\ run' = [run EXCEPT !.pc = "settrace"]
  /\ UNCHANGED <<tasks, enqueued, client, closeCount, idleArmed, cache, events,
                 closures, deactivated, dstop>>

\* The race fails and the catch block calls `await safeStopClient(nextClient)`:
\* start() rejected (the library's start failed, no server is left), or
\* the 10 s timer won and the client is still starting, so stop() throws
\* and its start goes on.
StartFailed(rejected) ==
  /\ run.pc = "starting"
  /\ LET settled == IF rejected THEN [cstate EXCEPT ![run.cur] = "stopped"]
                    ELSE cstate
     IN cstate' = SafeStopClient(settled, run.cur)
  /\ run' = [run EXCEPT !.pc = "abandoning"]
  /\ UNCHANGED <<tasks, enqueued, client, closeCount, idleArmed, cache, events,
                 closures, deactivated, dstop, initialized>>

\* Mutant of SetTraceDone (IdleEventuallyReleases): the successful path
\* returns without touching the idle timer.
SetTraceDoneNoTouch(ok) ==
  /\ run.pc = "settrace"
  /\ IF ok
     THEN /\ UNCHANGED idleArmed
          /\ run' = Idle
          /\ UNCHANGED cstate
     ELSE /\ cstate' = SafeStopClient(cstate, run.cur)
          /\ run' = [run EXCEPT !.pc = "abandoning"]
          /\ UNCHANGED idleArmed
  /\ UNCHANGED <<tasks, enqueued, client, closeCount, cache, events, closures,
                 deactivated, dstop, initialized>>

\* setTrace settles: on success the idle timer is touched and the task
\* returns; if it throws, the candidate is stopped like a failed start.
SetTraceDone(ok) ==
  /\ run.pc = "settrace"
  /\ IF ok
     THEN /\ Touch
          /\ run' = Idle
          /\ UNCHANGED cstate
     ELSE /\ cstate' = SafeStopClient(cstate, run.cur)
          /\ run' = [run EXCEPT !.pc = "abandoning"]
          /\ UNCHANGED idleArmed
  /\ UNCHANGED <<tasks, enqueued, client, closeCount, cache, events, closures,
                 deactivated, dstop, initialized>>

\* Mutant of CandidateAbandoned (TypeOK): the candidate loop runs one
\* index past the last candidate.
CandidateAbandonedOffByOne ==
  /\ run.pc = "abandoning"
  /\ LET stopped == StopSettled(run.cur)
         cleared == IF client = run.cur THEN NoClient ELSE client
     IN IF run.cand <= run.ncand
        THEN Launch(run.cand + 1, run.ncand, stopped)
        ELSE /\ client' = cleared
             /\ cstate' = stopped
             /\ run' = [run EXCEPT !.pc = "notifying"]
             /\ UNCHANGED closeCount
  /\ UNCHANGED <<tasks, enqueued, idleArmed, cache, events, closures, deactivated,
                 dstop, initialized>>

\* Mutant of CandidateAbandoned (HeldClientUsable): `client` is not
\* cleared after the last failed candidate.
CandidateAbandonedKeepsClient ==
  /\ run.pc = "abandoning"
  /\ LET stopped == StopSettled(run.cur)
     IN IF run.cand < run.ncand
        THEN Launch(run.cand + 1, run.ncand, stopped)
        ELSE /\ UNCHANGED client
             /\ cstate' = stopped
             /\ run' = [run EXCEPT !.pc = "notifying"]
             /\ UNCHANGED closeCount
  /\ UNCHANGED <<tasks, enqueued, idleArmed, cache, events, closures, deactivated,
                 dstop, initialized>>

\* safeStopClient of a failed candidate returns: `client` is cleared if it
\* is still that candidate, then the next candidate is launched or, after
\* the last, `await showErrorMessage` reports the failure.
CandidateAbandoned ==
  /\ run.pc = "abandoning"
  /\ LET stopped == StopSettled(run.cur)
         cleared == IF client = run.cur THEN NoClient ELSE client
     IN IF run.cand < run.ncand
        THEN Launch(run.cand + 1, run.ncand, stopped)
        ELSE /\ client' = cleared
             /\ cstate' = stopped
             /\ run' = [run EXCEPT !.pc = "notifying"]
             /\ UNCHANGED closeCount
  /\ UNCHANGED <<tasks, enqueued, idleArmed, cache, events, closures, deactivated,
                 dstop, initialized>>

\* The user dismisses the error notification the task awaits; only then
\* does the task settle and the queue move on.
NotifyDismissed ==
  /\ run.pc = "notifying"
  /\ run' = Idle
  /\ UNCHANGED <<tasks, enqueued, client, cstate, closeCount, idleArmed, cache,
                 events, closures, deactivated, dstop, initialized>>

-----------------------------------------------------------------------------
(* Handlers that run outside the queue.                                    *)

\* A Parus document is opened, edited or focused (onParusActivity): touch
\* the idle timer and, when no client exists, enqueue a start.  The event
\* subscriptions are disposed once deactivate is called.
Activity ==
  /\ deactivated = "no"
  /\ events < MaxEvents
  /\ events' = events + 1
  /\ Touch
  /\ IF client = NoClient THEN Enqueue("start") ELSE UNCHANGED <<tasks, enqueued>>
  /\ UNCHANGED <<run, client, cstate, closeCount, cache, closures, deactivated,
                 dstop, initialized>>

\* The `Parus: Restart Language Server` command enqueues a restart.
RestartCommand ==
  /\ deactivated = "no"
  /\ events < MaxEvents
  /\ events' = events + 1
  /\ Enqueue("restart")
  /\ UNCHANGED <<run, client, cstate, closeCount, idleArmed, cache, closures,
                 deactivated, dstop, initialized>>

\* Mutant of IdleFires (RefinesSessionLifecycle): onIdle calls
\* stopLanguageClient itself instead of enqueueing the stop.
IdleFiresStopsDirectly ==
  /\ idleArmed
  /\ idleArmed' = FALSE
  /\ cache' = {}
  /\ IF client # NoClient
     THEN /\ client' = NoClient
          /\ cstate' = SafeStopClient(cstate, client)
     ELSE UNCHANGED <<client, cstate>>
  /\ UNCHANGED <<tasks, enqueued, run, closeCount, events, closures,
                 deactivated, dstop, initialized>>

\* The idle timer fires (timer = undefined; onIdle): with a client it
\* enqueues a stop, without one it does nothing.
IdleFires ==
  /\ idleArmed
  /\ idleArmed' = FALSE
  /\ IF client # NoClient THEN Enqueue("stop") ELSE UNCHANGED <<tasks, enqueued>>
  /\ UNCHANGED <<run, client, cstate, closeCount, cache, events, closures,
                 deactivated, dstop, initialized>>

\* The server connection of a running client closes and the library asks
\* the client's error handler closed(); whether the 60 s window has run
\* out is the clock's choice.  Restart: the library restarts the server on
\* its own, outside the lifecycle queue; DoNotRestart: it stays closed and
\* `client` keeps pointing at it.
Closure(c) ==
  /\ cstate[c] = "running"
  /\ closures < MaxClosures
  /\ closures' = closures + 1
  /\ \E expired \in BOOLEAN :
       LET count == IF expired THEN 1 ELSE closeCount[c] + 1
       IN /\ closeCount' = [closeCount EXCEPT ![c] = count]
          /\ cstate' = [cstate EXCEPT ![c] =
                IF Policy!CloseAction(count) = "Restart" THEN "restarting" ELSE "closed"]
  /\ UNCHANGED <<tasks, enqueued, run, client, idleArmed, cache, events,
                 deactivated, dstop, initialized>>

\* The library's own restart after a Restart answer brings the server up.
LibraryRestarted(c) ==
  /\ cstate[c] = "restarting"
  /\ cstate' = [cstate EXCEPT ![c] = "running"]
  /\ UNCHANGED <<tasks, enqueued, run, client, closeCount, idleArmed, cache,
                 events, closures, deactivated, dstop, initialized>>

\* The start() of a client no task awaits any more (its race was lost)
\* settles: the server comes up, or the start fails.
LateStartSettled(c, ok) ==
  /\ cstate[c] = "starting"
  /\ ~(run.pc = "starting" /\ run.cur = c)
  /\ cstate' = [cstate EXCEPT ![c] = IF ok THEN "running" ELSE "stopped"]
  /\ initialized' = IF ok THEN initialized \cup {c} ELSE initialized
  /\ UNCHANGED <<tasks, enqueued, run, client, closeCount, idleArmed, cache,
                 events, closures, deactivated, dstop>>

\* publishDiagnostics of client c reaches handleDiagnostics, which caches
\* them (cacheParusDiagnostics); an initialized client delivers until its
\* stop settles.
Diagnostics(c) ==
  /\ c \in initialized
  /\ cstate[c] \in {"running", "stopping"}
  /\ c \notin cache
  /\ cache' = cache \cup {c}
  /\ UNCHANGED <<tasks, enqueued, run, client, cstate, closeCount, idleArmed,
                 events, closures, deactivated, dstop, initialized>>

\* deactivate calls stopLanguageClient directly, not through the queue:
\* its synchronous prefix clears the timer and the cache and forgets the
\* client; the extension host disposes the event subscriptions.
Deactivate ==
  /\ MayDeactivate
  /\ deactivated = "no"
  /\ ClearIdle
  /\ cache' = {}
  /\ IF client = NoClient
     THEN /\ deactivated' = "done"
          /\ UNCHANGED <<client, cstate, dstop>>
     ELSE /\ deactivated' = "stopping"
          /\ dstop' = client
          /\ client' = NoClient
          /\ cstate' = SafeStopClient(cstate, client)
  /\ UNCHANGED <<tasks, enqueued, run, closeCount, events, closures, initialized>>

\* deactivate's `await stopLanguageClient` returns; it clears the idle
\* timer and drops the controller, so later touches do nothing.
DeactivateDone ==
  /\ deactivated = "stopping"
  /\ cstate' = StopSettled(dstop)
  /\ deactivated' = "done"
  /\ dstop' = NoClient
  /\ ClearIdle
  /\ UNCHANGED <<tasks, enqueued, run, client, closeCount, cache, events, closures,
                 initialized>>

-----------------------------------------------------------------------------

Next ==
  \/ TaskBegin
  \/ StopDone
  \/ \E r \in ResolveOutcomes : Resolved(r)
  \/ StartSucceeded
  \/ \E rejected \in BOOLEAN : StartFailed(rejected)
  \/ \E ok \in BOOLEAN : SetTraceDone(ok)
  \/ CandidateAbandoned
  \/ NotifyDismissed
  \/ Activity
  \/ RestartCommand
  \/ IdleFires
  \/ \E c \in Clients : Closure(c) \/ LibraryRestarted(c) \/ Diagnostics(c)
  \/ \E c \in Clients, ok \in BOOLEAN : LateStartSettled(c, ok)
  \/ Deactivate
  \/ DeactivateDone

\* Every step the program takes on its own is weakly fair: a settled
\* promise resumes its continuation, a due timer fires, start() settles
\* within the 10 s race and the library's stop() within its own timeout.
\* The user's answer to a notification, activity, commands, closures and
\* diagnostics are the environment's and get no fairness, and so is the
\* late start of a client whose race was lost: the library puts no
\* deadline on initialize.
Fairness ==
  /\ WF_vars(TaskBegin)
  /\ WF_vars(StopDone)
  /\ WF_vars(\E r \in ResolveOutcomes : Resolved(r))
  /\ WF_vars(StartSucceeded \/ \E rejected \in BOOLEAN : StartFailed(rejected))
  /\ WF_vars(\E ok \in BOOLEAN : SetTraceDone(ok))
  /\ WF_vars(CandidateAbandoned)
  /\ WF_vars(IdleFires)
  /\ \A c \in Clients : WF_vars(LibraryRestarted(c))
  /\ WF_vars(DeactivateDone)

Spec == Init /\ [][Next]_vars /\ Fairness

-----------------------------------------------------------------------------
(* Properties.                                                             *)

\* Every variable has its type.
TypeOK ==
  /\ tasks \in Seq(TaskKinds)
  /\ enqueued \in Nat
  /\ run \in [pc : PCs, kind : TaskKinds, cur : {NoClient} \cup Clients,
              cand : 0..2, ncand : 0..2]
  /\ client \in {NoClient} \cup Clients
  /\ cstate \in [Clients -> CStates]
  /\ closeCount \in [Clients -> 0..MaxClosures]
  /\ idleArmed \in BOOLEAN
  /\ cache \subseteq Clients
  /\ deactivated \in {"no", "stopping", "done"}
  /\ dstop \in {NoClient} \cup Clients
  /\ initialized \subseteq Clients

\* No orphaned server (spec 4.2: a failed candidate's process is
\* terminated; a stop ends the session): every LanguageClient whose server
\* is starting, running or being restarted by the library is the one
\* `client` holds, so that the next stop (idle, restart, deactivate)
\* reaches it.  It fails when the client safeStopClient is given is not
\* running: a candidate whose start lost the 10 s race, or a client the
\* library is restarting after a closure.
NoOrphanServer ==
  \A c \in Clients : cstate[c] \in Live => client = c

\* `client` holds a usable client: one starting, up (running or being
\* restarted by the library) or closed after DoNotRestart, never one that
\* is stopped or being stopped, except the failed candidate the loop is
\* stopping.  Activity (onParusActivity) starts a server only when
\* `client` is unset, so a stale one would leave the extension without a
\* server until the restart command; deactivate and the queue's stops may
\* interleave with the candidate loop's `if (client === nextClient)`.
HeldClientUsable ==
  (client # NoClient /\ ~(run.pc = "abandoning" /\ client = run.cur))
    => cstate[client] \in Live \cup {"closed"}

\* A quiescent extension (no task running or queued, deactivate's stop
\* settled) with no client holds no cached diagnostics: the lint status
\* bar counts only what a live server reported.
NoStaleDiagnostics ==
  (client = NoClient /\ run.pc = "idle" /\ tasks = <<>> /\ dstop = NoClient)
    => cache = {}

\* Once deactivate has finished and no lifecycle work remains, no server
\* is starting or running (spec 9: deactivation stops the server).
NoServerAfterDeactivate ==
  (deactivated = "done" /\ run.pc = "idle" /\ tasks = <<>>)
    => \A c \in Clients : cstate[c] \notin Live

\* With idle stop on, once activity ends the extension eventually lets go
\* of its client for good: every path that leaves `client` set (a start
\* that succeeds, a start finding a client) arms the idle timer, and the
\* stop the timer queues clears `client`.  Whether that client's server
\* goes with it is NoOrphanServer's question.
IdleEventuallyReleases ==
  IdleEnabled => <>[](client = NoClient)

\* Every task put on lifecycleQueue eventually begins: the n-th task has
\* begun once n tasks have left the queue.
QueueProgress ==
  \A n \in 1..MaxEvents + 2 :
    (enqueued >= n) ~> (enqueued - Len(tasks) >= n)

\* The only thing that can hold up lifecycleQueue is the user: in every
\* behaviour where an error notification a task awaits (no candidate,
\* resolution error, every candidate failed) is eventually dismissed,
\* every enqueued start, stop and restart begins.  A task that awaited
\* anything else forever, or a request lost on the way into the chain,
\* breaks it.
QueueProgressOnceUserAnswers ==
  WF_vars(NotifyDismissed) => QueueProgress
-----------------------------------------------------------------------------
(* Refinement: the orchestrator implements SessionLifecycle.  The session *)
(* is Stopping while a task awaits safeStopClient (a stop's, or a failed   *)
(* candidate's); otherwise it is the one `client` holds (starting, or up   *)
(* in any of the library's states: running, restarting or closed after    *)
(* DoNotRestart), or Stopped without one.  The queue is `tasks`; the       *)
(* request in flight is the running task, a restart counting as a start   *)
(* once its stop has returned.                                            *)

SessionOf ==
  CASE run.pc \in {"stopping", "abandoning"} -> "Stopping"
    [] client = NoClient                     -> "Stopped"
    [] cstate[client] = "starting"           -> "Starting"
    [] OTHER                                 -> "Running"

CurrentRequest ==
  CASE run.pc = "idle"     -> "none"
    [] run.pc = "stopping" -> run.kind
    [] OTHER               -> "start"

Abstract == INSTANCE SessionLifecycle
              WITH session <- SessionOf, pending <- tasks, current <- CurrentRequest

\* The code implements the lifecycle of spec 4.2: the session changes only
\* through the task at the head of lifecycleQueue, one task at a time, in
\* the transitions the spec allows (a restart's stop before its start,
\* candidates one after the other), a start never hangs in Starting and
\* every stop completes.  Anything that stops or starts the server outside
\* the queue breaks it.
RefinesSessionLifecycle == Abstract!ASpec
====
