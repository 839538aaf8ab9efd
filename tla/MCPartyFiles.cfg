CONSTANTS
  Parties = {p1, p2}
  None = None
  MAX_CLIENT_ID = 3
  MaxSessions = 3
  MaxFaults = 1
  MaxCrashes = 1
SPECIFICATION FilesSpec
CHECK_DEADLOCK FALSE
SYMMETRY Symmetry
INVARIANTS FilesTypeOK ClientIsKnown PartiesAreKnown DeathCostsOneComputation RunsOwnProgram
