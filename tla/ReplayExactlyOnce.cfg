\* A handler, the reconnect flush and the periodic flush, and one late
\* acknowledgement.
SPECIFICATION MqttSpec
CONSTANTS
  Events = {e1, e2}
  Handlers = {h1}
  Reconnects = {r1}
  Periodic = periodic
  Capacity = 2
  None = None
  PacketIds = {1, 2, 3}
  MaxCopies = 2
  MaxFaults = 1
SYMMETRY Symmetry
INVARIANT ReplayExactlyOnce
