CONSTANTS
  AccessKeys = {a1, a2, a3}
  Priority = {a1}
  None = None
  MaxSize = 3
  HeadTimeout = 1
  PollDuration = 1
  MaxCrashes = 1
  MaxKeys = 9
SPECIFICATION ClientsSpec
CHECK_DEADLOCK FALSE
INVARIANTS ClientsTypeOK WaitersAreQueued ReadyMeansKey
PROPERTIES LateFinishIsHarmless EveryoneServed
