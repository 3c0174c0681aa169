\* A request arrives while the human answers the prompt of another one.
CONSTANTS
  Ids = {}
  Contents = {}
  Proposers = {}
  Reviewers = {dash}
  Dash = dash
  MaxTime = 0
  MaxFaults = 0
  MaxRequests = 2
  Room <- MCRoom
  Kind <- MCLeases
  None = None
SPECIFICATION DashSpec
PROPERTIES AnswersTheReviewed
CHECK_DEADLOCK FALSE
