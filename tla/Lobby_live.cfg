SPECIFICATION FairSpec
CONSTANTS
  Conns = {c1, c2, c3}
  Capacity = 2
  StartSize = 2
  KeepSize = 1
  Countdown = 1
CHECK_DEADLOCK FALSE
PROPERTIES
  CompleteQueueStarts
  GoneClientsLeave
  ImplementsPromise
