\* Two admin requests and a SIGHUP race each other and a scorer; bundle 1 is
\* one the readings do not fit.
SPECIFICATION FairSpec
CONSTANTS
  Scorers = {r1}
  Admins = {a1, a2}
  Outer = outer
  Inner = inner
  None = None
  Broken = Broken
  MaxBundles = 1
  MaxRequests = 2
  MaxSignals = 1
  MinSamples = 1
  Foreign = {1}
INVARIANTS SwapConsistent EvidenceOwnShadow
PROPERTIES ServesAsPromised ScoreAnswered LockReleased
