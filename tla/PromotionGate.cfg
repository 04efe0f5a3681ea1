\* Two runs may overlap, each with a version of its own or the same one; the
\* champion comes from a run or from a direct training, a report from the sidecar
\* or from a file.
SPECIFICATION Spec
CONSTANTS
  Gates = {g1, g2}
  None = None
  Faults = {f1}
  Summaries <- MCSummaries
  Episodes = 1
  MaxLatency = 1
  MaxFp = 6
  MinN = 1
  MinAgreement = 95
  FpTolerance = 1
  LatencyTolerance = 1
  MaxVersions = 2
  MaxScored = 1
SYMMETRY Symmetry
INVARIANTS GatedClearsBar EvidenceEarned
PROPERTY ReplacesNoWorse
