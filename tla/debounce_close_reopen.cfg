\* Both documents may be closed and reopened, the debounce may change and
\* one restart replaces the debouncer.
CONSTANTS
  d1 = d1
  d2 = d2
  Docs <- MCDocs
  ClosingDocs <- MCDocs
  DebounceValues = {0, 200}
  MaxChanges = 5
  MaxDisposals = 1
SPECIFICATION Spec
SYMMETRY DocSymmetry
INVARIANT NoAbandonedDelivery
