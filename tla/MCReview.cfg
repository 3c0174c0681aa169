\* A CLI reviewer and the dashboard review one id that is proposed with two contents, while
\* requests come and go.
CONSTANTS
  Ids = {i1}
  Contents = {x, y}
  Proposers = {a}
  Reviewers = {cli, dash}
  Dash = dash
  MaxTime = 1
  MaxFaults = 1
  MaxRequests = 2
  Room <- MCRoom
  Kind <- MCKind
  None = None
SPECIFICATION DashSpec
SYMMETRY Symmetry
INVARIANTS DashInv StaysUp StaleIsNoticed PolicyIsReviewed PolicyHolds
PROPERTIES PendingIsImmutable
CHECK_DEADLOCK FALSE
