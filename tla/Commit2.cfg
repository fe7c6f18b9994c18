SPECIFICATION Spec
CONSTANTS
  k1 = k1  k2 = k2  raw = raw  full = full  alt = alt  bad = bad
  d1 = d1  d2 = d2  d3 = d3
  NoVal = NoVal  NoFile = NoFile  Torn = Torn
  Keys <- MCKeys  KeyPos <- MCKeyPos  Values <- MCValues
  Fill <- MCFill  Valid <- MCValid
  Deps <- MCDeps  DepKeys <- MCDepKeys  DepRow <- MCDepRow  DepType <- MCDepType
  NPlugins = 2
  CommitOrder = 2
  CopyFaults = {"open", "write", "read"}
CONSTRAINT OneFault
INVARIANTS TypeOK InBounds RunningInSpec
PROPERTIES ImplementsAtomicCommit PriorityOrder
