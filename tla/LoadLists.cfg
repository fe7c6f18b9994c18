SPECIFICATION ClientsSpec
CHECK_DEADLOCK FALSE
SYMMETRY Symmetry
CONSTANTS
  Names <- MCNames
  Blobs <- MCNames
  Flags = {0, 1}
  LenMod = 8
  WholeWrite = 5
  MaxMsgs = 2
  ListClients = {x, y}
  NoClient = NoClient
  OuterKeys = {k1, k2}
  InnerKeys = {w}
  Vals = {v}
  NoVal = NoVal  Default = Default
  MaxListOps = 3
  Sessions = {n1, n2}
  Texts <- MCTexts
  MaxRequests = 2
  MaxInAll = 2
  PluginFiles <- MCPluginFiles
  Exports <- MCExports
  CliFiles <- MCCliFiles
  CliModes = {"top", "sub", "new"}
  HookUp <- MCHookUp
  StartModes = {"top", "sub", "new"}
  NoMode = NoMode  NoPlugin = NoPlugin
  Nodes = {"a", "b", "c", "d"}
  Kids <- MCKids
  Op = "set"
  MaxTyped = 3
  Clis = {a, b}
  Items = {"p", "c", "d"}
  Below <- MCBelow
  Fill <- MCFill
  Bad = {"c"}
  LoadFile = {"p"}
  Missing = Missing  Cut = Cut
  CliOptions = {"daemon", "direct", "private"}
  MaxCommands = 3
  Words = {"a", "b"}
  KeySeqs <- MCKeySeqs
  GenTypes = {"VARS", "ALL"}
  Completion = TRUE
  Module = Module  NoLine = NoLine  NoNode = NoNode
  MaxStmts = 3
  MaxLines = 2
  Lines <- MCLines
  EntryIndexes = {"0", "1"}
  Values = {"", "1", "<"}
  Markup = "<"
  NoValue = NoValue
  MaxRecords = 3
  Docs <- MCDocs
  Subtrees <- MCSubtrees
  Xpaths <- MCXpaths
  NoBody = NoBody
INVARIANT LoadRestores
