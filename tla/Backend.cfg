SPECIFICATION BackendSpec
CHECK_DEADLOCK FALSE
CONSTANTS
  Daemons = {d1, d2}
  NoDaemon = NoDaemon  Stale = Stale  Missing = Missing  Cut = Cut
  PluginOrder <- MCPluginOrder
  OptionSets <- MCOptionSets
  Edits <- MCEdits
  SNAPSHOTS_NR = 3
  MaxStarts = 3
  MaxCommits = 2
  Users = {u1}
  Sockets = {s1, s2}
  NoSocket = NoSocket
  Plugins = {fn1}
  Streams = {"CLICON", "app"}
  Filters = {"", "*"}
  Kinds = {"txt", "xml"}
  SocketSpace = 1
  MaxEvents = 2
  MaxPluginSubs = 1
  Timers = {a, b, c}
  Periodic = {c}
  MaxClock = 2
  XKeys = {1, 2}
  YKeys = {1, 2}
  VVals = {1}
  Rows = {1, 2}
  MaxDeps = 2
  MaxEdits = 5
  Blocks = {1, 2, 3, 4, 5}
  ClassOf <- MCClassOf
  PerBlock <- MCPerBlock
  Large = {"l"}
  EntClass = "m"
  Labels = {"f", "long"}
  NameClass <- MCNameClass
  NoLabel = NoLabel  Nil = Nil
  MaxCalls = 5
INVARIANTS ServerReachable ArchiveInOrder AllSubscribersTold  DependentsCalled HeapSound
PROPERTIES DamageStays WalkEnds TimerCalled
