\* Two saves may overlap, or one may follow the other; every trust store and
\* policy over two keys.
SPECIFICATION Spec
CONSTANTS
  Writers = {w1, w2}
  Keys = {k1, k2}
  None = None
  MaxSaves = 2
SYMMETRY Symmetry
INVARIANTS CleanSaveAgrees QuietLoadByPolicy VerifiedWasSigned
PROPERTIES SignedBeforeMoved
