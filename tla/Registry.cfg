\* Two registrars may overlap or die; two bundles after the image's, with one
\* key or none; every trust store and policy.
SPECIFICATION Spec
CONSTANTS
  Registrars = {r1, r2}
  Keys = {k1}
  None = None
  MaxBundles = 2
SYMMETRY Symmetry
INVARIANTS PointerComplete PathsAgree ServesResolved SignedNeverRefused OfflineBoots
