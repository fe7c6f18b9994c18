SPECIFICATION FairSpec
CONSTANTS
  Pids = {p1, p2}
  Conns = {c1, c2, c3}
  Server = Server
  None = None
  Requests = {"kill", "debug"}
  NoAnswer = {}
  AcceptMayFail = FALSE
PROPERTIES RequestsAnswered
CHECK_DEADLOCK FALSE
