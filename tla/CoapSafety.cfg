\* Two publishers besides the prober, so that an exchange on an old conn can
\* fail after a new one came up; the receiver never accepts e2.
SPECIFICATION CoapSpec
CONSTANTS
  Events = {e1, e2}
  Handlers = {h1}
  Reconnects = {r1}
  Periodic = periodic
  Capacity = 2
  None = None
  Conns = {1, 2, 3, 4}
  Poison = {e2}
  MaxFaults = 1
INVARIANTS SocketsInUse
PROPERTIES Contract
