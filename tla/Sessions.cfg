SPECIFICATION Spec
CONSTANTS
  Pids = {p1, p2, p3}
  Conns = {c1, c2, c3, c4}
  Server = Server
  None = None
  Requests = {"change", "load", "rm", "initdb", "copy", "commit", "validate", "save", "debug", "call", "lock", "unlock", "kill"}
  NoAnswer = {"change", "load", "initdb", "save"}
  AcceptMayFail = TRUE
INVARIANTS TypeOK NoDanglingEntry ListsAgree NeverBlocks SurvivesPoliteClients
PROPERTIES LockExcludes
CONSTRAINT Views
SYMMETRY Symmetry
CHECK_DEADLOCK FALSE
