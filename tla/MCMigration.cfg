\* Three migrations of two aliases with up to three failures, crashes, edits and expiries;
\* among up to three git and hook commands fewer of both.
CONSTANTS
  Aliases = {a1, a2}
  Envs = {dev, prod}
  Dev = dev
  MaxMigrations = 3
  MaxFaults = 3
  Temporary = {prod}
  Branches = {main, topic}
  Main = main
  Remotes = {origin, upstream}
  MaxCommits = 4
  MaxWork = 3
  None = None
SPECIFICATION GuardSpec
SYMMETRY Symmetry
INVARIANTS GuardInv
PROPERTIES  PublishedIsScanned
