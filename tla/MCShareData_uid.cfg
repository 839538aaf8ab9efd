CONSTANTS
  c1 = c1
  c2 = c2
  c3 = c3
  Clients = {c1, c2}
  Holders = {c1, c2}
  Parties = {p1, p2}
  Uid <- SharedUid
  NoTurn = NoTurn
  None = None
  MaxDataProviders = 5
  MaxEvictions = 0
  MaxFaults = 0
  MaxLost = 0
  MaxDbErrors = 0
SPECIFICATION ShareSpec
CHECK_DEADLOCK FALSE
INVARIANT OneContributionPerUid
