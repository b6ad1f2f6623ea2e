SPECIFICATION FairSpec
CONSTANTS
  p = p
  NoChan = NoChan
  Chans = {p}
  QueueCap = 2
  IdleTimeout = TRUE
INVARIANTS ShellPidTracked ChannelsSound
PROPERTIES IdleInputCloses NothingLeaks
CHECK_DEADLOCK FALSE
