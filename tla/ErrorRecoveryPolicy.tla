------------------------- MODULE ErrorRecoveryPolicy -------------------------
(***************************************************************************)
(* The error handler of src/tools/vscode-parus/src/extension.ts,           *)
(* createErrorHandler (lines 1023-1059): on every closure of the server    *)
(* connection the language client asks closed() whether to restart.  The  *)
(* handler counts closures in a window that restarts when a closure comes *)
(* more than 60 s after the window began, and refuses the sixth closure   *)
(* of a window.  The client library restarts the server at once on a      *)
(* Restart; after DoNotRestart the connection stays down until the user   *)
(* restarts, and startLanguageClient builds a new handler with a fresh    *)
(* count (clientOptions.errorHandler, line 731).                          *)
(*                                                                         *)
(* Time is Date.now() in seconds; it starts past the window so that the   *)
(* first closure, as with a real clock, always opens a new window.        *)
(***************************************************************************)
EXTENDS Naturals, Sequences, FiniteSets

CONSTANTS
  StartTime,    \* Date.now() when the model starts, > WindowSec
  MaxTime,      \* bound on the clock
  TimeSteps,    \* amounts of seconds the clock may advance by in one step
  MaxClosures   \* bound on the number of connection closures

WindowSec   == 60       \* now - windowStart > 60_000 ms
MaxRestarts == 5        \* closeCount <= 5

ASSUME StartTime > WindowSec /\ MaxTime >= StartTime
ASSUME TimeSteps \subseteq Nat \ {0} /\ MaxClosures \in Nat

VARIABLES
  now,          \* Date.now()
  windowStart,  \* the handler's windowStart
  closeCount,   \* the handler's closeCount
  handler,      \* number of handlers built so far (one per start)
  connected,    \* the server connection is up
  log           \* closed() calls: [t, handler, count, action] (history)

vars == <<now, windowStart, closeCount, handler, connected, log>>

-----------------------------------------------------------------------------
(* The decision of closed(), as operators of the count and the clock.      *)

\* The window restarts when the closure comes more than 60 s after it began.
WindowExpired(t, start) == t - start > WindowSec

\* closeCount after the closure: reset to 0 on a new window, then + 1.
CountAfter(t, start, count) ==
  IF WindowExpired(t, start) THEN 1 ELSE count + 1

\* Mutant of CloseAction (GiveUpJustified): `closeCount < 5`.
CloseActionOffByOne(count) ==
  IF count < MaxRestarts THEN "Restart" ELSE "DoNotRestart"

\* closeCount <= 5 gives CloseAction.Restart, anything else DoNotRestart.
CloseAction(count) ==
  IF count <= MaxRestarts THEN "Restart" ELSE "DoNotRestart"

-----------------------------------------------------------------------------

Init ==
  /\ now = StartTime
  /\ windowStart = 0
  /\ closeCount = 0
  /\ handler = 1
  /\ connected = TRUE
  /\ log = <<>>

\* Time passes.
Tick(d) ==
  /\ now + d <= MaxTime
  /\ now' = now + d
  /\ UNCHANGED <<windowStart, closeCount, handler, connected, log>>

\* The connection closes and the client calls closed(): the whole body,
\* from the window check to the returned action; on Restart the library
\* reconnects, on DoNotRestart it leaves the connection down.
Closed ==
  /\ connected
  /\ Len(log) < MaxClosures
  /\ LET count  == CountAfter(now, windowStart, closeCount)
         action == CloseAction(count)
     IN /\ windowStart' = IF WindowExpired(now, windowStart) THEN now ELSE windowStart
        /\ closeCount' = count
        /\ connected' = (action = "Restart")
        /\ log' = Append(log, [t |-> now, handler |-> handler,
                               count |-> count, action |-> action])
  /\ UNCHANGED <<now, handler>>

\* The `Parus: Restart Language Server` command after a refusal: a new
\* start builds a new handler whose closeCount and windowStart are 0.
UserRestart ==
  /\ ~connected
  /\ handler' = handler + 1
  /\ closeCount' = 0
  /\ windowStart' = 0
  /\ connected' = TRUE
  /\ UNCHANGED <<now, log>>

Next ==
  \/ \E d \in TimeSteps : Tick(d)
  \/ Closed
  \/ UserRestart

Spec == Init /\ [][Next]_vars

-----------------------------------------------------------------------------
(* Properties.                                                             *)

\* Closures the handler of entry i has seen in the 60 s up to entry i.
RecentClosures(i) ==
  {j \in 1..i : /\ log[j].handler = log[i].handler
                /\ log[i].t - log[j].t <= WindowSec}

\* closed() gives up only on a real burst: a DoNotRestart is returned only
\* when the same handler saw at least six closures within the last 60 s.
GiveUpJustified ==
  \A i \in DOMAIN log :
    log[i].action = "DoNotRestart" => Cardinality(RecentClosures(i)) > MaxRestarts

\* The restart budget as spec 2 and 7 describe it, a sliding window of
\* 60 s: no 60 s span holds six Restart answers of one handler.  closed()
\* implements the fixed window of spec 3 and 4.4 instead (the count
\* resets when a closure comes more than 60 s after windowStart).
AtMostFiveRestartsPerMinute ==
  \A i \in DOMAIN log :
    log[i].action = "Restart" =>
      Cardinality({j \in RecentClosures(i) : log[j].action = "Restart"}) <= MaxRestarts
=============================================================================

