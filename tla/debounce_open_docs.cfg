\* Documents stay open and the debounce stays at 200 ms; two restarts
\* replace the debouncer.  Once the last bounded edit is flushed nothing
\* is pending and the editor is idle, so the run may stop there.
CONSTANTS
  d1 = d1
  d2 = d2
  Docs <- MCDocs
  ClosingDocs = {}
  DebounceValues = {200}
  MaxChanges = 5
  MaxDisposals = 2
SPECIFICATION Spec
INVARIANT NoChangeLost
INVARIANT DeliveredInOrder
PROPERTY EveryChangeSettles
CHECK_DEADLOCK FALSE
