\* Four commands, claims, edits or starts of any kind, interleaved step by step.
CONSTANTS
  a = a
  b = b
  K = K
  f1 = f1
  c1 = c1
  c2 = c2
  Sessions = {s1, s2}
  Envs = {e1, e2, dflt}
  Default = dflt
  Commands = {}
  Secrets <- MCSecrets
  ReqIds = {r1}
  LeaseIds = {}
  GrantIds = {}
  TTLs = {0, 2}
  RequestTTL = 2
  DefaultLeaseTTL = 1
  DefaultWorkspaceTTL = 1
  MaxLeaseTTL = 1
  MaxPendingSession = 1
  MaxTime = 2
  None = None
  Humans = {h1, h2}
  Workers = {w1, w2}
  Names <- MCNames
  GoodNames <- MCGoodNames
  EntryNames <- MCNames
  Files = {f1}
  Policies <- MCPolicies
  CapsuleTTL = 1
  MaxCapsuleTTL = 1
  MaxTyped = 2
  MaxCalls = 4
  MaxFaults = 1
  Users = {u1, u2}
  Servers = {v1, v2}
  ServerKind <- MCKind
  Paths = {root, other}
  MaxIds = 3
  MaxStarts = 2
  Homes = {g1}
  Root = root
  MaxWork = 4
SPECIFICATION ShareSpec
SYMMETRY Symmetry
INVARIANTS HomeIsSound SocketIsSafe ClaimsAreGood
PROPERTIES TransfersAreShown PoliciesBind
CHECK_DEADLOCK FALSE
