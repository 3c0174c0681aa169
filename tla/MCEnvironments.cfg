\* Two processes, two sets, one entry: mutations and reads, faults, expiry, first opens.
CONSTANTS
  Procs = {p, q}
  Names = {n, m}
  Keys = {k}
  Values = {v}
  TTL = 1
  MaxTime = 1
  MaxCalls = 3
  MaxFaults = 1
  None = None
SPECIFICATION EnvSpec
SYMMETRY Symmetry
INVARIANTS KeyOpensVault EnvInv
PROPERTIES ListedAfterStored ValuesStay
