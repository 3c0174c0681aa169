\* Every call returns: a strict or workspace call with a missing secret and lease.
CONSTANTS
  Sessions = {s1}
  Envs = {e1}
  Commands = {c1}
  Secrets = {x1}
  ReqIds = {r1, r2, r3}
  LeaseIds = {l1}
  GrantIds = {g1}
  Calls = {k1}
  Modes = {"strict", "workspace"}
  Needs <- MCNeeds
  TTLs = {0}
  RequestTTL = 1
  DefaultLeaseTTL = 2
  DefaultWorkspaceTTL = 2
  MaxLeaseTTL = 2
  MaxPendingSession = 2
  MaxTime = 2
  RequireLeases = TRUE
  PromptPolls = TRUE
  None = None
SPECIFICATION RunFairSpec
PROPERTIES EveryRunEnds
