CONSTANTS
  q1 = q1
  q2 = q2
  q3 = q3
  Processes = {q1, q2, q3}
  Documents <- MCDocuments
  MaxEdits = 1
  None = None
  Missing = None
  Arguments <- MCArguments
  MaxArguments = 3
  Sources = {"session", "raw1", "raw2"}
  Raw = {"raw1", "raw2"}
  Leaky = {"raw2"}
  Samples <- MCSamples
  DirtySamples = {"y"}
  AskPrompts = {"p", "q"}
  Dialogs = {1, 2, 3}
  OwnerOf <- MCOwnerOf
  FlowOf <- MCFlowOf
  MaxTime = 2
  Records = {1, 2, 3, 4}
  Writers = {"w1", "w2"}
  MaxLines = 2
  MaxEntries = 6
  Causes = {1, 2, 3, 4}
  Window = 2
  PruneAt = 2
  MaxClock = 5
  TraceLines <- MCTraceLines
  ContextItems <- MCContextItems
  MaxTraceLines = 4
  MaxContextItems = 4
  NoTurn = 0
  TextRun = 0
SPECIFICATION ComponentsSpec
INVARIANTS ComponentsTypeOK SaltSafe TrainingRight ExportHonest ShapingRight WaitingAttributed RecordsKept
PROPERTIES EverythingReturns
CHECK_DEADLOCK FALSE
