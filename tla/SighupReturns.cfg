\* A second SIGHUP may arrive while the first is served.
SPECIFICATION FairSpec
CONSTANTS
  Scorers = {r1}
  Admins = {a1}
  Outer = outer
  Inner = inner
  None = None
  Broken = Broken
  MaxBundles = 1
  MaxRequests = 1
  MaxSignals = 2
  MinSamples = 1
  Foreign = {}
PROPERTY SighupReturns
CHECK_DEADLOCK FALSE
