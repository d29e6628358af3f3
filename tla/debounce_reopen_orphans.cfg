\* d1 is closed and reopened while its flush awaits a delivery.
CONSTANTS
  d1 = d1
  d2 = d2
  Docs <- MCDocs
  ClosingDocs <- MCClosingOne
  DebounceValues = {200}
  MaxChanges = 3
  MaxDisposals = 0
SPECIFICATION Spec
INVARIANT NoChangeLost
