CONSTANTS
  Browsers = {b1, b2}
  Ttl = 1
  None = None
  MaxShares = 2
  MaxFailures = 2
SPECIFICATION CacheSpec
INVARIANTS CacheTypeOK NeverUninitialised
PROPERTIES EventuallyFresh
