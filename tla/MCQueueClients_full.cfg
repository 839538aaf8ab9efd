CONSTANTS
  AccessKeys = {a1, a2, a3}
  Priority = {a1}
  None = None
  MaxSize = 2
  HeadTimeout = 1
  PollDuration = 1
  MaxCrashes = 0
  MaxKeys = 9
SPECIFICATION ClientsSpec
CHECK_DEADLOCK FALSE
PROPERTY EveryoneServed
