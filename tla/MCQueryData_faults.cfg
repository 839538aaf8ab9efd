CONSTANTS
  c1 = c1
  c2 = c2
  c3 = c3
  Clients = {c1, c2, c3}
  Queriers = {q1}
  Holders = {c1, c2, c3, q1}
  Parties = {p1, p2}
  Uid <- OwnUid
  NoTurn = NoTurn
  None = None
  MaxDataProviders = 3
  MaxEvictions = 1
  MaxFaults = 1
  MaxLost = 0
  MaxDbErrors = 1
SPECIFICATION SystemSpec
CHECK_DEADLOCK FALSE
SYMMETRY Symmetry
INVARIANTS QueryTypeOK RecordedSharesPresent FailedLeavesNoTrace OneSessionAtATime ResultsAreOfRecorded CountedMeansPresent
