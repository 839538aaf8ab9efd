CONSTANTS
  AccessKeys = {a1, a2, a3, a4}
  None = None
  MaxSize = 3
  HeadTimeout = 1
  MaxKeys = 8
SPECIFICATION QueueSpec
INVARIANTS QueueTypeOK NoDuplicates PositionsAgree Bounded OnlyHeadHasTurn
PROPERTIES NobodyOvertakes ReadLockReads ImplementsTurnLease
