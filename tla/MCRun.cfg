\* Runs of every mode, of two sessions over two environments: environment switches,
\* revocation, pause and extension, proposals.
CONSTANTS
  Sessions = {s1, s2}
  Envs = {e1, e2}
  Commands = {c1}
  Secrets = {}
  ReqIds = {r1, r2}
  LeaseIds = {l1}
  GrantIds = {g1}
  Calls = {k1, k2}
  Modes = {"strict", "api", "workspace"}
  Needs <- MCNeeds
  TTLs = {0}
  RequestTTL = 1
  DefaultLeaseTTL = 2
  DefaultWorkspaceTTL = 2
  MaxLeaseTTL = 2
  MaxPendingSession = 1
  MaxTime = 2
  RequireLeases = TRUE
  PromptPolls = TRUE
  None = None
SPECIFICATION RunSpec
SYMMETRY Symmetry
INVARIANTS RunInv RunsAreAuthorized WaitsAreBounded
