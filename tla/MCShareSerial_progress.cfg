CONSTANTS
  c1 = c1
  c2 = c2
  c3 = c3
  Clients = {c1, c2}
  Holders = {c1, c2}
  Parties = {p1, p2}
  Uid <- OwnUid
  NoTurn = NoTurn
  None = None
  MaxDataProviders = 3
  MaxEvictions = 1
  MaxFaults = 1
  MaxLost = 1
  MaxDbErrors = 0
SPECIFICATION SerialSpec
CHECK_DEADLOCK FALSE
INVARIANTS ProofsAgree EndedMeansReleased SerialSessionsKeepShares
PROPERTIES RequestsEnd
