\* A handler, the reconnect flush and the periodic flush; one thing going
\* wrong, of any kind and at any time.
SPECIFICATION MqttFairSpec
CONSTANTS
  Events = {e1, e2}
  Handlers = {h1}
  Reconnects = {r1}
  Periodic = periodic
  Capacity = 2
  None = None
  PacketIds = {1, 2, 3}
  MaxCopies = 2
  MaxFaults = 1
INVARIANTS OnceWithoutFault
PROPERTIES Contract EventuallySettled EventuallyDrained HandlersReturn
