SPECIFICATION FairSpec
CONSTANTS
  Pids = {p1, p2}
  Conns = {c1, c2}
  Server = Server
  None = None
  Requests = {"initdb"}
  NoAnswer = {"initdb"}
  AcceptMayFail = FALSE
PROPERTIES RequestsAnswered
CHECK_DEADLOCK FALSE
