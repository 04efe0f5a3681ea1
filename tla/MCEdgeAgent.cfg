\* Two handlers race two flushers for the buffer; three events, so that a
\* buffer of two overflows while a drain is under way.
SPECIFICATION Spec
CONSTANTS
  Events = {e1, e2, e3}
  Handlers = {h1, h2}
  Reconnects = {r1}
  Periodic = periodic
  Capacity = 2
  None = None
INVARIANTS TypeOK Accounted OnePlace
PROPERTIES SpoolDiscipline Promised
SYMMETRY Symmetry
