--------------------------- MODULE ChangeDebouncer ---------------------------
(***************************************************************************)
(* The ChangeDebouncer class of src/tools/vscode-parus/src/extension.ts    *)
(* (lines 164-296): the didChange/didClose middleware that buffers the    *)
(* editor's change notifications per document and flushes them to the     *)
(* language client one at a time after a quiet period.                    *)
(*                                                                         *)
(* A bucket is an object: the map this.buckets points a URI at one, but   *)
(* a flush, a timer and its queue keep living after the map forgets it.   *)
(* Buckets are therefore numbered by creation and never reused.  Changes  *)
(* are numbered by arrival, so the n-th didChange is change n.            *)
(*                                                                         *)
(* Timers and awaits are the suspension points of the event loop: a       *)
(* setTimeout that fires, and the completion of an awaited next(event),   *)
(* are separate steps that may interleave with any handler.               *)
(***************************************************************************)
EXTENDS Naturals, Sequences, SequencesExt

CONSTANTS
  Docs,            \* document URIs (model values)
  ClosingDocs,     \* documents the editor may close and reopen in a run
  DebounceValues,  \* values readConfig().diagnosticsDebounceMs may take
  MaxChanges,      \* bound on the number of didChange notifications
  MaxDisposals     \* bound on debouncer replacements by a (re)start

ASSUME ClosingDocs \subseteq Docs
ASSUME DebounceValues \subseteq 0..5000 /\ DebounceValues # {}
ASSUME MaxChanges \in Nat \ {0} /\ MaxDisposals \in Nat

Changes  == 1..MaxChanges
Buckets  == 1..MaxChanges     \* only a queued didChange creates a bucket
NoBucket == 0
NoChange == 0

VARIABLES
  debounceMs,  \* the configured debounce, read afresh at every use
  open,        \* [Docs -> BOOLEAN]: the document is open in the editor
  arrivals,    \* arrivals[n] is the document of change n (history)
  gen,         \* the ChangeDebouncer instance changeDebouncer points at
  bk,          \* bk[b] = [doc, gen]: URI and instance bucket b belongs to
  buckets,     \* [Docs -> Buckets \cup {NoBucket}]: this.buckets of gen
  queue,       \* [Buckets -> Seq(Changes)]: bucket.queue
  armed,       \* buckets whose setTimeout is pending
  flushing,    \* [Buckets -> BOOLEAN]: bucket.flushing
  inflight,    \* [Buckets -> Changes \cup {NoChange}]: entry a flush awaits
  delivered,   \* [Docs -> Seq(Changes)]: next(event) calls, in call order
  settled,     \* changes whose promise returned by didChange has resolved
  abandoned    \* changes resolved without being delivered

vars == <<debounceMs, open, arrivals, gen, bk, buckets, queue, armed,
          flushing, inflight, delivered, settled, abandoned>>

-----------------------------------------------------------------------------
(* Helpers of the class.                                                   *)

\* Mutant of GetOrCreateBucket (NoChangeLost): the map lookup is skipped
\* and every queued change gets a new bucket.
GetOrCreateBucketFresh(d) == Len(bk) + 1

\* getOrCreateBucket(uri): the bucket the map holds, or a fresh one.
GetOrCreateBucket(d) ==
  IF buckets[d] # NoBucket THEN buckets[d] ELSE Len(bk) + 1

\* schedule(uri, bucket, delay): a no-op while the bucket is flushing,
\* otherwise clearTimer then a new setTimeout; either way one timer pending.
Schedule(b) ==
  armed' = IF flushing[b] THEN armed ELSE armed \cup {b}

\* Mutant of Drain (DeliveredInOrder): queue.pop() where flush has
\* queue.shift(), taking the newest entry first.
DrainLifo(b) ==
  IF queue[b] # <<>>
  THEN /\ inflight' = [inflight EXCEPT ![b] = Last(queue[b])]
       /\ queue' = [queue EXCEPT ![b] = Front(@)]
       /\ delivered' = [delivered EXCEPT ![bk[b].doc] = Append(@, Last(queue[b]))]
       /\ flushing' = [flushing EXCEPT ![b] = TRUE]
       /\ UNCHANGED buckets
  ELSE /\ inflight' = [inflight EXCEPT ![b] = NoChange]
       /\ flushing' = [flushing EXCEPT ![b] = FALSE]
       /\ buckets' = IF bk[b].gen = gen
                     THEN [buckets EXCEPT ![bk[b].doc] = NoBucket]
                     ELSE buckets
       /\ UNCHANGED <<queue, delivered>>

\* Mutant of Drain (NoAbandonedDelivery): the entry is peeked, delivered,
\* and only shifted off the queue once its delivery has been awaited.
DrainPeek(b) ==
  LET q == IF inflight[b] # NoChange /\ queue[b] # <<>> /\ Head(queue[b]) = inflight[b]
           THEN Tail(queue[b]) ELSE queue[b]
  IN IF q # <<>>
     THEN /\ inflight' = [inflight EXCEPT ![b] = Head(q)]
          /\ queue' = [queue EXCEPT ![b] = q]
          /\ delivered' = [delivered EXCEPT ![bk[b].doc] = Append(@, Head(q))]
          /\ flushing' = [flushing EXCEPT ![b] = TRUE]
          /\ UNCHANGED buckets
     ELSE /\ inflight' = [inflight EXCEPT ![b] = NoChange]
          /\ flushing' = [flushing EXCEPT ![b] = FALSE]
          /\ queue' = [queue EXCEPT ![b] = q]
          /\ buckets' = IF bk[b].gen = gen
                        THEN [buckets EXCEPT ![bk[b].doc] = NoBucket]
                        ELSE buckets
          /\ UNCHANGED delivered

\* One turn of flush()'s while loop, taken when the flush first runs and
\* after every awaited delivery: shift the head and call next() on it, or
\* leave the loop and run the finally block.  The finally block deletes
\* the map entry for the URI, whatever bucket it holds by now; the
\* reschedule branch of that block is unreachable, since the loop only
\* exits with an empty queue.
Drain(b) ==
  IF queue[b] # <<>>
  THEN /\ inflight' = [inflight EXCEPT ![b] = Head(queue[b])]
       /\ queue' = [queue EXCEPT ![b] = Tail(@)]
       /\ delivered' = [delivered EXCEPT ![bk[b].doc] = Append(@, Head(queue[b]))]
       /\ flushing' = [flushing EXCEPT ![b] = TRUE]
       /\ UNCHANGED buckets
  ELSE /\ inflight' = [inflight EXCEPT ![b] = NoChange]
       /\ flushing' = [flushing EXCEPT ![b] = FALSE]
       /\ buckets' = IF bk[b].gen = gen
                     THEN [buckets EXCEPT ![bk[b].doc] = NoBucket]
                     ELSE buckets
       /\ UNCHANGED <<queue, delivered>>

\* The entries of bucket b: resolveAndClear resolves them undelivered.
Pending(b) == ToSet(queue[b])
(* Operations.                                                             *)

Init ==
  /\ debounceMs \in DebounceValues
  /\ open = [d \in Docs |-> TRUE]
  /\ arrivals = <<>>
  /\ gen = 0
  /\ bk = <<>>
  /\ buckets = [d \in Docs |-> NoBucket]
  /\ queue = [b \in Buckets |-> <<>>]
  /\ armed = {}
  /\ flushing = [b \in Buckets |-> FALSE]
  /\ inflight = [b \in Buckets |-> NoChange]
  /\ delivered = [d \in Docs |-> <<>>]
  /\ settled = {}
  /\ abandoned = {}

\* didChange with a debounce of 0: `return next(event)`, bypassing any
\* bucket of the document.  The returned promise is next's own, so the
\* change counts as settled with its delivery.
DidChangeImmediate(d) ==
  /\ open[d]
  /\ Len(arrivals) < MaxChanges
  /\ debounceMs = 0
  /\ LET c == Len(arrivals) + 1 IN
     /\ arrivals' = Append(arrivals, d)
     /\ delivered' = [delivered EXCEPT ![d] = Append(@, c)]
     /\ settled' = settled \cup {c}
  /\ UNCHANGED <<debounceMs, open, gen, bk, buckets, queue, armed, flushing,
                 inflight, abandoned>>

\* didChange with a positive debounce: push the entry onto the document's
\* bucket (created if the map has none) and schedule its flush.
DidChangeQueued(d) ==
  /\ open[d]
  /\ Len(arrivals) < MaxChanges
  /\ debounceMs > 0
  /\ LET c == Len(arrivals) + 1
         b == GetOrCreateBucket(d)
     IN /\ arrivals' = Append(arrivals, d)
        /\ bk' = IF b > Len(bk) THEN Append(bk, [doc |-> d, gen |-> gen]) ELSE bk
        /\ buckets' = [buckets EXCEPT ![d] = b]
        /\ queue' = [queue EXCEPT ![b] = Append(@, c)]
        /\ Schedule(b)
  /\ UNCHANGED <<debounceMs, open, gen, flushing, inflight, delivered,
                 settled, abandoned>>

\* The setTimeout of bucket b fires and calls flush(uri) on the instance
\* that armed it.  flush looks the URI up again: the bucket it finds may
\* be another object than b.  It returns at once when there is none or
\* that one is flushing.
FlushSkipped(b) ==
  /\ b \in armed
  /\ LET cur == IF bk[b].gen = gen THEN buckets[bk[b].doc] ELSE NoBucket
     IN cur \notin {x \in Buckets : ~flushing[x]}
  /\ armed' = armed \ {b}
  /\ UNCHANGED <<debounceMs, open, arrivals, gen, bk, buckets, queue,
                 flushing, inflight, delivered, settled, abandoned>>

\* Otherwise flush sets flushing, clears the found bucket's timer and
\* enters its loop.
FlushStarts(b) ==
  /\ b \in armed
  /\ bk[b].gen = gen
  /\ LET cur == buckets[bk[b].doc] IN
     /\ cur # NoBucket
     /\ ~flushing[cur]
     /\ armed' = armed \ {b, cur}
     /\ Drain(cur)
  /\ UNCHANGED <<debounceMs, open, arrivals, gen, bk, settled, abandoned>>

\* The awaited next(entry.event) of bucket b's flush completes, with
\* success or with an error that is only logged; the finally block
\* resolves the entry's promise and the loop goes on.
DeliveryDone(b) ==
  /\ inflight[b] # NoChange
  /\ settled' = settled \cup {inflight[b]}
  /\ Drain(b)
  /\ UNCHANGED <<debounceMs, open, arrivals, gen, bk, armed, abandoned>>

\* cancel(uri): clear the timer of the bucket the map holds, resolve its
\* entries undelivered and delete it.  A flush of that bucket awaiting a
\* delivery is not stopped: it finds the queue empty when it resumes.
Cancel(d) ==
  LET b == buckets[d] IN
  IF b = NoBucket
  THEN UNCHANGED <<armed, queue, buckets, settled, abandoned>>
  ELSE /\ armed' = armed \ {b}
       /\ settled' = settled \cup Pending(b)
       /\ abandoned' = abandoned \cup Pending(b)
       /\ queue' = [queue EXCEPT ![b] = <<>>]
       /\ buckets' = [buckets EXCEPT ![d] = NoBucket]

\* didClose: cancel, then forward the close (the document is closed).
DidClose(d) ==
  /\ open[d]
  /\ d \in ClosingDocs
  /\ open' = [open EXCEPT ![d] = FALSE]
  /\ Cancel(d)
  /\ UNCHANGED <<debounceMs, arrivals, gen, bk, flushing, inflight, delivered>>

\* The editor reopens a closed document (no middleware is involved).
Reopen(d) ==
  /\ ~open[d]
  /\ open' = [open EXCEPT ![d] = TRUE]
  /\ UNCHANGED <<debounceMs, arrivals, gen, bk, buckets, queue, armed,
                 flushing, inflight, delivered, settled, abandoned>>

\* The user edits parus.diagnostics.debounceMs; the debouncer reads it at
\* its next use.
SetDebounce(v) ==
  /\ v # debounceMs
  /\ debounceMs' = v
  /\ UNCHANGED <<open, arrivals, gen, bk, buckets, queue, armed, flushing,
                 inflight, delivered, settled, abandoned>>

\* Mutant of Dispose (EveryChangeSettles): the map is cleared without
\* resolving the entries of its buckets.
DisposeWithoutResolve ==
  /\ gen < MaxDisposals
  /\ LET live == {buckets[d] : d \in Docs} \ {NoBucket} IN
     /\ armed' = armed \ live
     /\ queue' = [b \in Buckets |-> IF b \in live THEN <<>> ELSE queue[b]]
     /\ UNCHANGED <<settled, abandoned>>
  /\ buckets' = [d \in Docs |-> NoBucket]
  /\ gen' = gen + 1
  /\ UNCHANGED <<debounceMs, open, arrivals, bk, flushing, inflight, delivered>>

\* startLanguageClient: changeDebouncer?.dispose() then a new instance.
\* dispose clears the timer of every bucket in the map and resolves its
\* entries undelivered; flushes awaiting a delivery run on in the old
\* instance.
Dispose ==
  /\ gen < MaxDisposals
  /\ LET live    == {buckets[d] : d \in Docs} \ {NoBucket}
         pending == UNION {Pending(b) : b \in live}
     IN /\ armed' = armed \ live
        /\ queue' = [b \in Buckets |-> IF b \in live THEN <<>> ELSE queue[b]]
        /\ settled' = settled \cup pending
        /\ abandoned' = abandoned \cup pending
  /\ buckets' = [d \in Docs |-> NoBucket]
  /\ gen' = gen + 1
  /\ UNCHANGED <<debounceMs, open, arrivals, bk, flushing, inflight, delivered>>

Next ==
  \/ \E d \in Docs : DidChangeImmediate(d) \/ DidChangeQueued(d)
                     \/ DidClose(d) \/ Reopen(d)
  \/ \E b \in Buckets : FlushSkipped(b) \/ FlushStarts(b) \/ DeliveryDone(b)
  \/ \E v \in DebounceValues : SetDebounce(v)
  \/ Dispose

\* Timers fire and awaited deliveries complete: the event loop runs every
\* due callback.  Editor and user actions get no fairness.
Fairness ==
  \A b \in Buckets : /\ WF_vars(FlushSkipped(b) \/ FlushStarts(b))
                     /\ WF_vars(DeliveryDone(b))

Spec == Init /\ [][Next]_vars /\ Fairness

-----------------------------------------------------------------------------
(* Properties.                                                             *)

Delivered(c) == \E d \in Docs : Contains(delivered[d], c)

\* No change is lost (ChangeDebouncer.didChange: "send change events in
\* order without dropping them"): a change still queued sits in the bucket
\* the live map holds for its document, and that bucket has a timer
\* pending or a flush running that will reach it.
NoChangeLost ==
  \A b \in 1..Len(bk) :
    queue[b] # <<>> =>
      /\ bk[b].gen = gen
      /\ buckets[bk[b].doc] = b
      /\ b \in armed \/ flushing[b]

\* Per document, next() is called on changes in their arrival order, and
\* on none twice (flush's FIFO loop, didChange's bypass, cancel).
DeliveredInOrder ==
  \A d \in Docs : IsSorted(delivered[d], <)

\* A change has one fate: it is delivered or resolved undelivered by a
\* close or a disposal, never both (the shift before the await in flush,
\* resolveAndClear in cancel and dispose).
NoAbandonedDelivery ==
  \A c \in abandoned : ~Delivered(c)

\* Every didChange promise eventually resolves, after its change was
\* delivered or abandoned: no caller of the middleware waits forever.
EveryChangeSettles ==
  \A c \in Changes :
    [](c <= Len(arrivals) => <>(c \in settled /\ (Delivered(c) \/ c \in abandoned)))
=============================================================================
