\* A signed champion is downloaded, then an unsigned one.
SPECIFICATION Spec
CONSTANTS
  Registrars = {r1, r2}
  Keys = {k1}
  None = None
  MaxBundles = 2
SYMMETRY Symmetry
INVARIANT UnsignedServes
