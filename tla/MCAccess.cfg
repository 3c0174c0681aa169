\* Two sessions; one lease or grant each way; typed, requested and default lifetimes.
CONSTANTS
  Sessions = {s1, s2}
  Envs = {e1}
  Commands = {c1}
  Secrets = {x1}
  ReqIds = {r1, r2, r3}
  LeaseIds = {l1}
  GrantIds = {g1}
  TTLs = {0, 2, 3}
  RequestTTL = 1
  DefaultLeaseTTL = 1
  DefaultWorkspaceTTL = 2
  MaxLeaseTTL = 2
  MaxPendingSession = 2
  MaxTime = 2
  None = None
SPECIFICATION Spec
SYMMETRY Symmetry
INVARIANTS TypeOK CapabilitiesAreBacked BoundedAuthority ReviewQueueBounded
PROPERTIES DecisionsAreFinal AuthorityIsApproved
