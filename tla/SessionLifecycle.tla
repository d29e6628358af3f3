--------------------------- MODULE SessionLifecycle ---------------------------
(***************************************************************************)
(* What the lifecycle orchestrator promises (spec 4.2): one session, in    *)
(* state Stopped, Starting, Running or Stopping, changed only by the       *)
(* request at the head of a FIFO queue, one request at a time.  A start    *)
(* is a no-op when a session exists; a restart is a stop followed by a     *)
(* start within the same request; a start tries candidates one after the  *)
(* other (Stopping -> Starting) and may give up (Stopping -> Stopped).     *)
(* Requests are start, stop and restart; `current` is the one in flight,   *)
(* with a restart whose stop has finished counting as a start.            *)
(***************************************************************************)
EXTENDS Sequences

Requests == {"start", "stop", "restart"}
States   == {"Stopped", "Starting", "Running", "Stopping"}

VARIABLES
  session,   \* the state of the one session
  pending,   \* requests queued and not yet begun, oldest first
  current    \* the request in flight, or "none"

avars == <<session, pending, current>>

AInit ==
  /\ session = "Stopped"
  /\ pending \in {<<>>, <<"start">>}
  /\ current = "none"

\* A start, stop or restart is queued (activity, the idle timer, a command).
Request(k) ==
  /\ pending' = Append(pending, k)
  /\ UNCHANGED <<session, current>>

\* The oldest request begins.  A start with a session, or a stop without
\* one, ends at once; a stop or restart of a session moves it to Stopping;
\* a restart without a session is a start.
Begin ==
  /\ current = "none"
  /\ pending # <<>>
  /\ session \in {"Stopped", "Running"}
  /\ pending' = Tail(pending)
  /\ LET k == Head(pending) IN
       IF session = "Stopped"
       THEN /\ current' = IF k = "stop" THEN "none" ELSE "start"
            /\ UNCHANGED session
       ELSE IF k = "start"
       THEN UNCHANGED <<session, current>>
       ELSE /\ current' = k
            /\ session' = "Stopping"

\* The session's stop completes; a restart goes on as a start.
StopEnd ==
  /\ session = "Stopping"
  /\ current \in {"stop", "restart"}
  /\ session' = "Stopped"
  /\ current' = IF current = "restart" THEN "start" ELSE "none"
  /\ UNCHANGED pending

\* A start launches a candidate: the first from Stopped, the next one
\* once the previous candidate is being stopped.
Launch ==
  /\ current = "start"
  /\ session \in {"Stopped", "Stopping"}
  /\ session' = "Starting"
  /\ UNCHANGED <<pending, current>>

\* The candidate answers initialize.
Started ==
  /\ current = "start"
  /\ session = "Starting"
  /\ session' = "Running"
  /\ UNCHANGED <<pending, current>>

\* The candidate fails (timeout, start error, setTrace error) and is
\* being stopped.
Fail ==
  /\ current = "start"
  /\ session \in {"Starting", "Running"}
  /\ session' = "Stopping"
  /\ UNCHANGED <<pending, current>>

\* The last failed candidate is stopped and the start gives up.
GiveUp ==
  /\ current = "start"
  /\ session = "Stopping"
  /\ session' = "Stopped"
  /\ UNCHANGED <<pending, current>>

\* A start returns, with a running session or, after reporting, none.
Finish ==
  /\ current = "start"
  /\ session \in {"Stopped", "Running"}
  /\ current' = "none"
  /\ UNCHANGED <<pending, session>>

ANext ==
  \/ \E k \in Requests : Request(k)
  \/ Begin \/ StopEnd \/ Launch \/ Started \/ Fail \/ GiveUp \/ Finish

\* Promised progress: a request begins when none is in flight, a session
\* never stays Starting (initialize races a timeout), and a session never
\* stays Stopping (a stop completes; a start then tries its next candidate
\* or gives up).  A start from Stopped depends on the candidates found, and
\* finishing one may wait on the user: neither is promised.
AFairness ==
  /\ WF_avars(Begin)
  /\ WF_avars(Started \/ Fail)
  /\ WF_avars(StopEnd \/ GiveUp \/ (session = "Stopping" /\ Launch))

ASpec == AInit /\ [][ANext]_avars /\ AFairness
====
