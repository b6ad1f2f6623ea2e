SPECIFICATION FairConnSpec
CHECK_DEADLOCK FALSE
CONSTANTS
  Sides = {x, y}
  Kinds = {"metadata", "transfer", "unknown"}
  Streams = {x, y}
  Jobs = {"file", "tree"}
  Format <- MCFormat
  Sizes <- MCSizes
  Paths = {"a"}
  Strangers = {}
  Downloads = {}
  Unit = 1
  Cap = 4
  Prefix = 1
  Chunk = 2
  MaxGrowth = 0
INVARIANT Untouched
PROPERTIES
  GateOpens
  TasksEnd
