\* One handler, both flushes and the prober; two faults, of any kind and at any
\* time, on a network that comes and goes before it comes to stay.
SPECIFICATION CoapFairSpec
CONSTANTS
  Events = {e1}
  Handlers = {h1}
  Reconnects = {r1}
  Periodic = periodic
  Capacity = 1
  None = None
  Conns = {1, 2, 3, 4}
  Poison = {}
  MaxFaults = 2
PROPERTIES DeadLinkNoticed LinkRecovers EventuallySettled
