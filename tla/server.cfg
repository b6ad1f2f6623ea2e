SPECIFICATION FairSpec
CONSTANTS
  c1 = c1  c2 = c2
  s1 = s1
  NoClient = NoClient
  Clients = {c1, c2}
  Sessions = {s1}
  Pairing = {s1}
  Workload <- MCWorkload
  Handles = 1
  ControlCap = 1
  FailureLimit = 2
  Modes <- MCModes
INVARIANT TasksSound
PROPERTIES ExhaustedBurns PairedBurns CommandsAnswered LoopNotStuck ShutdownOnNextEvent
CHECK_DEADLOCK FALSE
