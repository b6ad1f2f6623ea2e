SPECIFICATION FairSpec
CONSTANTS
    Streams = {s1, s2}
    Jobs = {"file", "big", "tree", "over"}
    Format <- MCFormat
    Sizes <- MCSizes
    Paths = {"x"}
    Strangers = {s2}
    Downloads = {"file", "tree"}
    Unit = 3
    Cap = 9
    Prefix = 1
    Chunk = 2
    MaxGrowth = 1
INVARIANTS BudgetHolds HonestServed
PROPERTIES TransfersSettle
CHECK_DEADLOCK FALSE
