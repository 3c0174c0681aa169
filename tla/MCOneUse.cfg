\* Two claims of one request, one of them slower than the stale timeout.
CONSTANTS
  Claimers = {a, b}
  Writers = {}
  Procs <- MCProcs
  Kinds = {"stealing"}
  StaleAfter = 1
  WaitFor = 1
  MaxTime = 3
  MaxMishaps = 0
  Free = Free
SPECIFICATION Spec
INVARIANTS OneClaimSucceeds
CHECK_DEADLOCK FALSE
