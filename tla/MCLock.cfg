\* Both kinds of lock; holders may be slow, a process may die, the directory may get stuck.
CONSTANTS
  Claimers = {a, b}
  Writers = {w}
  Procs <- MCProcs
  Kinds = {"stealing", "kept"}
  StaleAfter = 1
  WaitFor = 1
  MaxTime = 3
  MaxMishaps = 1
  Free = Free
SPECIFICATION FairSpec
INVARIANTS LockInv
PROPERTIES EveryCallEnds AbandonedLockIsBroken ImplementsAtomicStore
CHECK_DEADLOCK FALSE
