CONSTANTS
  r1 = r1
  r2 = r2
  p1 = p1
  p2 = p2
  None = None
  Runs <- MCRuns
  Pids <- MCPids
  Plain = {r2}
  Reused = {p2}
  CIs <- MCFork
  MaxFaults = 1
SPECIFICATION ExecSpec
INVARIANTS ExecInv 
PROPERTIES NothingNeededGoes RunsEnd
CHECK_DEADLOCK FALSE
