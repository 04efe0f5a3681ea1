\* The programs around the pipeline, one at a time.  Demo: two machines, three
\* readings each, one command besides the one of the demo.  Collectors: two
\* callers, two endpoints, three events over a deque of two.  Drift: five readings
\* round a ring of three, two resets, two scrapers.
\* Signing: two keygen processes, three keys.
SPECIFICATION Spec
CONSTANTS
  Layout <- MCLayout
  Machines <- MCMachines
  FaultTypes = {"f"}
  NoFault = NoFault
  NotANumber = NotANumber
  RandomTicks = {1}
  Commands <- MCCommands
  MaxCommands = 1
  MaxRounds = 3
  MaxEpisodes = 1
  Patient = "m1"
  Ailment = "f"
  Ticks = 2
  c1 = c1
  c2 = c2
  s1 = s1
  s2 = s2
  Callers = {c1, c2}
  Endpoints = 2
  Sources = {s1, s2}
  NotAnObject = NotAnObject
  AnyMachine = AnyMachine
  Limits = {0, 2}
  MaxEvents = 2
  MaxArrivals = 3
  MaxMade = 2
  Device <- MCDevice
  Sibling <- MCSibling
  Foreign <- MCForeign
  Deviations <- MCDeviations
  Window = 3
  MinSamples = 2
  Scrapers = {1, 2}
  MaxReadings = 5
  MaxResets = 2
  None = None
  SigningError = SigningError
  Keygens = {1, 2}
  MaxKeys = 3
SYMMETRY Interchangeable
INVARIANTS EpisodeHonoured RowHonest AuditHonest AnswersFromOneList VerdictRight SignalsFromWindow ScalerOfWindow RotationServes
CHECK_DEADLOCK FALSE
