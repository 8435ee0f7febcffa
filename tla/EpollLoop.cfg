SPECIFICATION FairSpec
CONSTANTS
  Conns = {"a", "b"}
  MaxConnects = 4
  Fds = {1, 2}
  OtherFds = 1
  Generations = 4
  MaxAcceptsPerTick = 2
  MayStop = TRUE
INVARIANTS EventsReachTheirClient
PROPERTIES Accepted StopHonoured
CHECK_DEADLOCK FALSE
