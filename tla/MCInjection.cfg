\* Two secrets commands and a run; then every text of nine bytes in every cut.
CONSTANTS
  la = la
  lb = lb
  gap = gap
  key1 = key1
  key2 = key2
  Bytes = {la, lb, gap}
  Gaps = {gap}
  Values <- MCValues
  Typed <- MCTyped
  Late <- MCLate
  Window = 2
  MinFragmented = 4
  MaxFragmented = 4
  Slack <- MCSlack
  MaxOut = 4
  MaxInput = 9
  MaxChunk = 2
  Procs = {p, q}
  Runner = runner
  Aliases = {key1, key2}
  Order <- MCOrder
  Declared <- MCDeclared
  Darwin = TRUE
  SecurityTool = TRUE
  External <- MCExternal
  Projects <- MCProjects
  MinRedactable = 2
  MaxCalls = 4
  MaxFaults = 1
  None = None
SPECIFICATION InjSpec
SYMMETRY Symmetry
INVARIANTS StoresHold ChunkingIsInvisible NoSecretLeaves
PROPERTIES RunsGetTheirOwn
CHECK_DEADLOCK FALSE
