---------------------------- MODULE CompanionsProofs ----------------------------
(***************************************************************************)
(* Proofs about the programs around the pipeline: the topics they agree on *)
(* and what the ACL of the secured broker grants, for every organisation,  *)
(* site and machine; the acceptance check of that ACL; the event           *)
(* collectors; the simulator and the demo; the drift tracker; and the key  *)
(* files of the signing tool.  Each program has its own specification      *)
(* (AclSpec, McpSpec, DemoSpec, DriftSpec, KeySpec), of which Companions   *)
(* is the choice of one.                                                   *)
(***************************************************************************)
EXTENDS Companions, FiniteSetTheorems, WellFoundedInduction, TLAPS

-----------------------------------------------------------------------------
(* Numbers *)

LEMMA LeastNumber ==
  ASSUME NEW T, T \subseteq Nat, T # {}
  PROVE  \E x \in T : \A y \in T : x <= y
<1>1. PICK x \in T : \A y \in T : ~(<<y, x>> \in OpToRel(<, Nat))
  BY WFMin, NatLessThanWellFounded, Zenon
<1>2. ASSUME NEW y \in T PROVE x <= y
  <2>1. x \in Nat /\ y \in Nat
    OBVIOUS
  <2>2. ~(y < x)
    BY <1>1, <2>1, Zenon DEF OpToRel
  <2> QED BY <2>1, <2>2
<1> QED BY <1>2

LEMMA RemainderIs ==
  ASSUME NEW w \in Nat \ {0}, NEW q \in Int, NEW r \in 0..w - 1
  PROVE  (q * w + r) % w = r
<1>1. q * w + r \in Int
  OBVIOUS
<1> DEFINE a == q * w + r
<1>2. a \in Int /\ a = q * w + r
  BY <1>1
<1> HIDE DEF a
<1>3. r = a % w
  BY <1>2, SMT
<1> QED BY <1>2, <1>3

LEMMA SmallRemainder ==
  ASSUME NEW w \in Nat \ {0}, NEW r \in 0..w - 1
  PROVE  r % w = r
OBVIOUS

LEMMA Division ==
  ASSUME NEW w \in Nat \ {0}, NEW a \in Nat
  PROVE  \E q \in Nat, r \in 0..w - 1 : a = q * w + r /\ r = a % w
<1> DEFINE T == {x \in Nat : \E q \in Nat : a = q * w + x}
<1>1. T \subseteq Nat /\ a \in T
  <2>1. a = 0 * w + a
    OBVIOUS
  <2> QED BY <2>1
<1>2. PICK x \in T : \A y \in T : x <= y
  <2> HIDE DEF T
  <2> QED BY <1>1, LeastNumber
<1>3. PICK q \in Nat : a = q * w + x
  OBVIOUS
<1>4. x < w
  <2> SUFFICES ASSUME x >= w PROVE FALSE
    OBVIOUS
  <2>1. a = (q + 1) * w + (x - w) /\ x - w \in Nat /\ q + 1 \in Nat
    BY <1>3
  <2>2. x - w \in T
    BY <2>1
  <2>3. x - w < x
    OBVIOUS
  <2> QED BY <1>2, <2>2, <2>3
<1>5. x \in 0..w - 1
  BY <1>4
<1> QED BY <1>3, <1>5, RemainderIs

(* Numbers less than w apart are in different slots of a ring of w, ... *)
LEMMA SlotsApart ==
  ASSUME NEW w \in Nat \ {0}, NEW a \in Nat, NEW b \in Nat, a < b, b < a + w
  PROVE  a % w # b % w
<1>1. PICK q \in Nat, r \in 0..w - 1 : a = q * w + r /\ r = a % w
  BY Division
<1>2. PICK p \in Nat, t \in 0..w - 1 : b = p * w + t /\ t = b % w
  BY Division
<1> SUFFICES ASSUME r = t PROVE FALSE
  BY <1>1, <1>2
<1> DEFINE k == p - q
<1>3. b - a = k * w /\ k \in Int
  BY <1>1, <1>2
<1> HIDE DEF k
<1>4. k >= 1 => k * w >= w
  BY <1>3
<1>5. k <= 0 => k * w <= 0
  BY <1>3
<1> QED BY <1>3, <1>4, <1>5

(* ... and the last w numbers fill all of it. *)
LEMMA SlotsFilled ==
  ASSUME NEW w \in Nat \ {0}, NEW m \in Nat, m >= w, NEW slot \in 0..w - 1
  PROVE  \E a \in m - w .. m - 1 : a % w = slot
<1>1. PICK q \in Nat, r \in 0..w - 1 : m - 1 = q * w + r
  <2>1. m - 1 \in Nat
    OBVIOUS
  <2> QED BY <2>1, Division
<1>2. CASE slot <= r
  <2>1. q * w + slot \in m - w .. m - 1
    BY <1>1, <1>2
  <2>2. (q * w + slot) % w = slot
    BY RemainderIs
  <2> QED BY <2>1, <2>2, Zenon
<1>3. CASE slot > r
  <2>1. (q - 1) * w + slot = m - 1 - w - r + slot
    BY <1>1
  <2>2. (q - 1) * w + slot \in m - w .. m - 1
    BY <1>3, <2>1
  <2>3. ((q - 1) * w + slot) % w = slot
    <3>1. q - 1 \in Int
      OBVIOUS
    <3> QED BY <3>1, RemainderIs
  <2> QED BY <2>2, <2>3, Zenon
<1> QED BY <1>2, <1>3

-----------------------------------------------------------------------------
(* Topics (Topics, BrokerAcl) *)

(* A name that can stand for a level: no wildcard. *)
Name == STRING \ {"+", "#"}

(* A filter without # fits the topics of its length, level by level. *)
LEMMA PlainFilter ==
  ASSUME NEW filter, NEW topic, filter[Len(filter)] # "#",
         Len(topic) = Len(filter), Fits(filter, topic, Len(filter))
  PROVE  Matches(filter, topic)
BY DEF Matches

(* The agent's subscription takes in what the simulator publishes for any  *)
(* machine, the agent reads the machine off it, and demo and dashboard     *)
(* take it for a reading (topics.go:45-65, simulate.py:40-44,              *)
(* demo.py:46-50, app.py:47-52).                                           *)
THEOREM SensorTopicsAgree ==
  ASSUME NEW org \in STRING, NEW site \in STRING, NEW m \in Name,
         NEW layout, layout = layoutFromEnv(org, site)
  PROVE  /\ Matches(defaultSensorFilter(layout), sensor_topic(layout, m))
         /\ machineIDFromTopic(sensor_topic(layout, m)) = m
         /\ is_reading_topic(sensor_topic(layout, m))
<1>1. CASE layout.namespaced
  <2> DEFINE f == <<"es", layout.org, layout.site, "+", "sensors", "#">>
             p == <<"es", layout.org, layout.site, m, "sensors">>
  <2>1. defaultSensorFilter(layout) = f /\ sensor_topic(layout, m) = p
    BY <1>1 DEF defaultSensorFilter, sensor_topic, Namespaced, AllSensors
  <2>2. Len(f) = 6 /\ f[6] = "#" /\ Len(p) = 5 /\ Fits(f, p, 5)
    BY DEF Fits
  <2>3. Matches(f, p)
    BY <2>2 DEF Matches
  <2>4. machineIDFromTopic(p) = m /\ is_reading_topic(p)
    BY DEF machineIDFromTopic, is_reading_topic
  <2> QED BY <2>1, <2>3, <2>4
<1>2. CASE ~layout.namespaced
  <2> DEFINE f == <<"edgesense", "sensors", "#">>
             p == <<"edgesense", "sensors", m>>
  <2>1. defaultSensorFilter(layout) = f /\ sensor_topic(layout, m) = p
    BY <1>2 DEF defaultSensorFilter, sensor_topic
  <2>2. Len(f) = 3 /\ f[3] = "#" /\ Len(p) = 3 /\ Fits(f, p, 2)
    BY DEF Fits
  <2>3. Matches(f, p)
    BY <2>2 DEF Matches
  <2>4. machineIDFromTopic(p) = m /\ is_reading_topic(p)
    BY DEF machineIDFromTopic, is_reading_topic
  <2> QED BY <2>1, <2>3, <2>4
<1> QED BY <1>1, <1>2

(* The subscriptions of dashboard and demos take in the events of every    *)
(* machine, and never take one for a reading (topics.go:37-43,             *)
(* demo.py:38-50, app.py:36-52).                                           *)
THEOREM EventTopicsAgree ==
  ASSUME NEW org \in STRING, NEW site \in STRING, NEW m \in Name,
         NEW layout, layout = layoutFromEnv(org, site)
  PROVE  /\ Matches(event_filter(layout), eventTopic(layout, m))
         /\ ~is_reading_topic(eventTopic(layout, m))
<1>1. CASE layout.namespaced
  <2> DEFINE f == <<"es", layout.org, layout.site, "+", "events">>
             p == <<"es", layout.org, layout.site, m, "events">>
  <2>1. event_filter(layout) = f /\ eventTopic(layout, m) = p
    BY <1>1 DEF event_filter, eventTopic, Namespaced
  <2>2. Len(f) = 5 /\ f[5] # "#" /\ Len(p) = 5 /\ Fits(f, p, 5)
    BY DEF Fits
  <2>3. Matches(f, p)
    BY <2>2, PlainFilter
  <2>4. ~is_reading_topic(p)
    BY DEF is_reading_topic
  <2> QED BY <2>1, <2>3, <2>4
<1>2. CASE ~layout.namespaced
  <2> DEFINE f == <<"edgesense", "events", "#">>
             p == <<"edgesense", "events", m>>
  <2>1. event_filter(layout) = f /\ eventTopic(layout, m) = p
    BY <1>2 DEF event_filter, eventTopic
  <2>2. Len(f) = 3 /\ f[3] = "#" /\ Len(p) = 3 /\ Fits(f, p, 2)
    BY DEF Fits
  <2>3. Matches(f, p)
    BY <2>2 DEF Matches
  <2>4. ~is_reading_topic(p)
    BY DEF is_reading_topic
  <2> QED BY <2>1, <2>3, <2>4
<1> QED BY <1>1, <1>2

(* A demo's command for a machine reaches the simulator and addresses      *)
(* that machine, or leaves it to the payload to say which (demo.py:42-43,  *)
(* simulate.py:47-60).                                                     *)
THEOREM ControlTopicsAgree ==
  ASSUME NEW org \in STRING, NEW site \in STRING, NEW m \in Name,
         NEW layout, layout = layoutFromEnv(org, site)
  PROVE  /\ Matches(control_filter(layout), control_topic(layout, m))
         /\ control_machine_id(control_topic(layout, m)) =
              IF layout.namespaced THEN m ELSE Unaddressed
<1>1. CASE layout.namespaced
  <2> DEFINE f == <<"es", layout.org, layout.site, "+", "control">>
             p == <<"es", layout.org, layout.site, m, "control">>
  <2>1. control_filter(layout) = f /\ control_topic(layout, m) = p
    BY <1>1 DEF control_filter, control_topic, Namespaced
  <2>2. Len(f) = 5 /\ f[5] # "#" /\ Len(p) = 5 /\ Fits(f, p, 5)
    BY DEF Fits
  <2>3. Matches(f, p)
    BY <2>2, PlainFilter
  <2>4. control_machine_id(p) = m
    BY DEF control_machine_id
  <2> QED BY <1>1, <2>1, <2>3, <2>4
<1>2. CASE ~layout.namespaced
  <2>1. control_filter(layout) = FlatControl /\ control_topic(layout, m) = FlatControl
    BY <1>2 DEF control_filter, control_topic
  <2>2. Len(FlatControl) = 3 /\ FlatControl[3] # "#" /\ Fits(FlatControl, FlatControl, 3)
    BY DEF Fits, FlatControl
  <2>3. Matches(FlatControl, FlatControl)
    BY <2>2, PlainFilter
  <2>4. control_machine_id(FlatControl) = Unaddressed
    BY DEF control_machine_id, FlatControl
  <2> QED BY <1>2, <2>1, <2>3, <2>4
<1> QED BY <1>1, <1>2

-----------------------------------------------------------------------------
(* The generated ACL (gen_broker_auth.py:75-98).  A device is its three    *)
(* names.                                                                  *)
IsDevice(d) == d \in [1..3 -> Name]

(* A topic of a device has the device's names where they belong. *)
Below(d, topic) ==
  /\ Len(topic) >= 4
  /\ topic[1] = "es" /\ topic[2] = d[1] /\ topic[3] = d[2] /\ topic[4] = d[3]

LEMMA BelowFilter ==
  ASSUME NEW d, IsDevice(d), NEW topic \in Seq(STRING), NEW g \in DeviceGrants(d),
         Matches(g.filter, topic)
  PROVE  Below(d, topic)
<1> DEFINE l == LayoutOf(d)
<1>1. l.org = d[1] /\ l.site = d[2]
  BY DEF LayoutOf
<1>2. d[1] # "+" /\ d[2] # "+" /\ d[3] # "+" 
  BY DEF IsDevice, Name
<1>3. CASE g.filter = AllSensors(l, d[3])
  <2> DEFINE f == <<"es", l.org, l.site, d[3], "sensors", "#">>
  <2>1. g.filter = f /\ Len(f) = 6 /\ f[6] = "#"
    BY <1>3 DEF AllSensors
  <2>2. Len(topic) >= 5 /\ Fits(f, topic, 5)
    BY <2>1 DEF Matches
  <2>3. \A i \in 1..4 : f[i] = "+" \/ f[i] = topic[i]
    BY <2>2 DEF Fits
  <2>4. f[1] = "es" /\ f[2] = d[1] /\ f[3] = d[2] /\ f[4] = d[3]
    BY <1>1
  <2> HIDE DEF f
  <2> QED BY <1>2, <2>2, <2>3, <2>4 DEF Below
<1>4. ASSUME NEW kind \in {"events", "control"}, g.filter = DeviceTopic(d, kind)
      PROVE  Below(d, topic)
  <2> DEFINE f == <<"es", l.org, l.site, d[3], kind>>
  <2>1. g.filter = f /\ Len(f) = 5 /\ f[5] # "#"
    BY <1>4 DEF DeviceTopic, Namespaced
  <2>2. Len(topic) = 5 /\ Fits(f, topic, 5)
    BY <2>1 DEF Matches
  <2>3. \A i \in 1..4 : f[i] = "+" \/ f[i] = topic[i]
    BY <2>2 DEF Fits
  <2>4. f[1] = "es" /\ f[2] = d[1] /\ f[3] = d[2] /\ f[4] = d[3]
    BY <1>1
  <2> HIDE DEF f
  <2> QED BY <1>2, <2>2, <2>3, <2>4 DEF Below
<1>5. \/ g.filter = AllSensors(l, d[3])
      \/ \E kind \in {"events", "control"} : g.filter = DeviceTopic(d, kind)
  BY DEF DeviceGrants, Grant
<1> QED BY <1>3, <1>4, <1>5

(* Whatever a device may publish or read is its own: no topic is open to   *)
(* two devices of any tenants (gen_broker_auth.py:11-13, check_acl.py:3-5).*)
THEOREM DevicesApart ==
  ASSUME NEW d, IsDevice(d), NEW e, IsDevice(e), d # e,
         NEW topic \in Seq(STRING), NEW a, NEW b,
         Allowed(DeviceGrants(d), a, topic)
  PROVE  ~Allowed(DeviceGrants(e), b, topic)
<1> SUFFICES ASSUME Allowed(DeviceGrants(e), b, topic) PROVE FALSE
  OBVIOUS
<1>1. Below(d, topic) /\ Below(e, topic)
  BY BelowFilter DEF Allowed
<1>2. d[1] = e[1] /\ d[2] = e[2] /\ d[3] = e[3]
  BY <1>1 DEF Below
<1>3. d = e
  BY <1>2 DEF IsDevice
<1> QED BY <1>3

(* The agent of a site can publish the events of each of its machines with *)
(* the gateway's credential, defaulted names included                      *)
(* (gen_broker_auth.py:14-16, 86-90; topics.go:25-35).                     *)
THEOREM GatewayServesSite ==
  ASSUME NEW org \in STRING, NEW site \in STRING, NEW m \in Name,
         NEW layout, layout = layoutFromEnv(org, site), layout.namespaced
  PROVE  Allowed(GatewayGrants(<<layout.org, layout.site>>), "write",
                 eventTopic(layout, m))
<1> DEFINE pair == <<layout.org, layout.site>>
           f == <<"es", layout.org, layout.site, "+", "events">>
           p == <<"es", layout.org, layout.site, m, "events">>
           g == Grant("write", f)
<1>1. g \in GatewayGrants(pair)
  BY DEF GatewayGrants, LayoutOf, Namespaced
<1>2. eventTopic(layout, m) = p
  BY DEF eventTopic, Namespaced
<1>3. Len(f) = 5 /\ f[5] # "#" /\ Len(p) = 5 /\ Fits(f, p, 5)
  BY DEF Fits
<1>4. Matches(f, p)
  BY <1>3, PlainFilter
<1>5. g.access = "write" /\ g.filter = f
  BY DEF Grant
<1> HIDE DEF f, p, g
<1> QED BY <1>1, <1>2, <1>4, <1>5 DEF Allowed

(* ... and with it only events of that site. *)
THEOREM GatewayConfined ==
  ASSUME NEW org \in Name, NEW site \in Name, NEW topic \in Seq(STRING), NEW a,
         Allowed(GatewayGrants(<<org, site>>), a, topic)
  PROVE  /\ a = "write" /\ Len(topic) = 5
         /\ topic[1] = "es" /\ topic[2] = org /\ topic[3] = site
         /\ topic[5] = "events"
<1> DEFINE f == <<"es", org, site, "+", "events">>
           g == Grant("write", f)
<1>1. GatewayGrants(<<org, site>>) = {g}
  BY DEF GatewayGrants, LayoutOf, Namespaced
<1>2. g.access = "write" /\ g.filter = f
  BY DEF Grant
<1>3. Len(f) = 5 /\ f[1] = "es" /\ f[2] = org /\ f[3] = site /\ f[5] = "events"
  OBVIOUS
<1>4. org # "+" /\ site # "+"
  BY DEF Name
<1> HIDE DEF f, g
<1>5. a = "write" /\ Matches(f, topic)
  BY <1>1, <1>2 DEF Allowed
<1>6. Len(topic) = 5 /\ Fits(f, topic, 5)
  BY <1>3, <1>5 DEF Matches
<1>7. /\ f[1] \in {"+", topic[1]} /\ f[2] \in {"+", topic[2]}
      /\ f[3] \in {"+", topic[3]} /\ f[5] \in {"+", topic[5]}
  BY <1>6 DEF Fits
<1> QED BY <1>3, <1>4, <1>5, <1>6, <1>7

-----------------------------------------------------------------------------
(* The acceptance check of the ACL (AclCheck) *)

EventsOfDevice(d) == DeviceTopic(d, "events")
ControlOf(d)      == DeviceTopic(d, "control")
MayPublish(topic) == Allowed(grants, "write", topic)
MayRead(topic)    == Allowed(grants, "read", topic)

(* A marker under way or received shows what the device may do, ... *)
SoundMarker(m) ==
  \/ m.to = "observer" /\ \E d \in {Device, Foreign, Sibling} :
                             m.topic = EventsOfDevice(d) /\ MayPublish(EventsOfDevice(d))
  \/ m.to = "device" /\ \E d \in {Device, Foreign} :
                           m.topic = ControlOf(d) /\ MayRead(ControlOf(d))

MarkersSound == \A m \in wire \union inbox : m.marker => SoundMarker(m)

(* ... and, if nothing was late, what it may do has sent one, once it was  *)
(* tried.                                                                  *)
MarkersSent ==
  ~timedOut =>
    /\ at \in 2..12 => EventsFilter \in subscribed
    /\ at \in 4..12 /\ MayPublish(EventsOfDevice(Device)) =>
         Message("observer", EventsOfDevice(Device), TRUE) \in wire \union inbox
    /\ at \in 8..12 => \A d \in {Device, Foreign} : MayRead(ControlOf(d)) =>
         Message("device", ControlOf(d), TRUE) \in wire \union inbox

NoTrespassFound ==
  /\ at > 5 => ~MayPublish(EventsOfDevice(Foreign))
  /\ at > 6 => ~MayPublish(EventsOfDevice(Sibling))

(* What has been checked by now is as it should be. *)
FoundConfined ==
  /\ at > 3 => MayPublish(EventsOfDevice(Device))
  /\ at > 4 => MayPublish(OwnSensor)
  /\ NoTrespassFound
  /\ at > 8 => MayRead(ControlOf(Device))
  /\ at > 9 => ~MayRead(ControlOf(Foreign))
  /\ at > 10 => "wrong_password" \notin admits
  /\ at > 11 => "anonymous" \notin admits

AclInv ==
  /\ at \in 0..13 /\ failed \in BOOLEAN /\ timedOut \in BOOLEAN
  /\ admits \subseteq {"wrong_password", "anonymous"}
  /\ at = 0 => wire = {} /\ inbox = {}
  /\ at \in {0, 1} => ~failed /\ ~timedOut
  /\ MarkersSound /\ MarkersSent
  /\ ~timedOut => (~failed <=> FoundConfined)
  /\ ~failed => NoTrespassFound

(* Who receives what, once the broker knows of the subscription: the       *)
(* observer the events of every device, the device what it may read of the *)
(* two control topics, and nobody the readings.                            *)
LEMMA EventsReceived ==
  \A known, d : Receivers(known, EventsOfDevice(d)) =
                  IF EventsFilter \in known THEN {"observer"} ELSE {}
<1> SUFFICES ASSUME NEW known, NEW d
             PROVE  Receivers(known, EventsOfDevice(d)) =
                      IF EventsFilter \in known THEN {"observer"} ELSE {}
  OBVIOUS
<1> DEFINE f == <<"es", "+", "+", "+", "events">>
           l == LayoutOf(d)
           p == <<"es", l.org, l.site, d[3], "events">>
           c(x) == <<"es", LayoutOf(x).org, LayoutOf(x).site, x[3], "control">>
<1>1. EventsOfDevice(d) = p /\ \A x : DeviceTopic(x, "control") = c(x)
  BY DEF EventsOfDevice, DeviceTopic, Namespaced
<1>2. Matches(f, p)
  <2>1. Len(f) = 5 /\ f[5] # "#" /\ Len(p) = 5 /\ Fits(f, p, 5)
    BY DEF Fits
  <2> QED BY <2>1, PlainFilter
<1>3. Allowed(OpsGrants, "read", p)
  <2>1. Grant("read", f) \in OpsGrants
    BY DEF OpsGrants
  <2>2. Grant("read", f).access = "read" /\ Grant("read", f).filter = f
    BY DEF Grant
  <2> HIDE DEF f, p
  <2> QED BY <1>2, <2>1, <2>2 DEF Allowed
<1>4. \A x : p # c(x)
  <2>1. p[5] = "events"
    OBVIOUS
  <2>2. ASSUME NEW x PROVE c(x)[5] = "control"
    OBVIOUS
  <2> HIDE DEF p, c
  <2> QED BY <2>1, <2>2
<1> HIDE DEF p, c
<1>5. p \notin ControlTopics
  BY <1>1, <1>4 DEF Own, ControlTopics
<1> HIDE DEF f
<1>6. EventsFilter = f
  BY DEF EventsFilter, f
<1> QED BY <1>1, <1>2, <1>3, <1>5, <1>6 DEF Receivers

LEMMA LongerByOne ==
  ASSUME NEW S, NEW s \in Seq(S), NEW e \in S
  PROVE  Len(Append(s, e)) = Len(s) + 1
OBVIOUS

LEMMA ReadingsNotReceived == \A known : Receivers(known, OwnSensor) = {}
<1> DEFINE f == <<"es", "+", "+", "+", "events">>
           l == LayoutOf(Device)
           s == <<"es", l.org, l.site, Device[3], "sensors">>
           c(x) == <<"es", LayoutOf(x).org, LayoutOf(x).site, x[3], "control">>
<1>0. s \in Seq({"es", l.org, l.site, Device[3], "sensors"} \union {"vibration"}) /\ Len(s) = 5
  OBVIOUS
<1>1. OwnSensor = Append(s, "vibration") /\ \A x : DeviceTopic(x, "control") = c(x)
  BY DEF OwnSensor, Own, DeviceTopic, Namespaced
<1>2. Len(Append(s, "vibration")) = 6
  <2> DEFINE L == {"es", l.org, l.site, Device[3], "sensors"} \union {"vibration"}
  <2>1. "vibration" \in L
    OBVIOUS
  <2> HIDE DEF s, L
  <2>2. s \in Seq(L) /\ Len(s) = 5
    BY <1>0 DEF L
  <2>3. Len(Append(s, "vibration")) = Len(s) + 1
    BY <2>1, <2>2, LongerByOne
  <2> QED BY <2>2, <2>3
<1>3. Len(f) = 5 /\ f[5] # "#" /\ \A x : Len(c(x)) = 5
  OBVIOUS
<1> HIDE DEF f, s, c
<1>4. ~Matches(f, OwnSensor)
  BY <1>1, <1>2, <1>3 DEF Matches
<1>5. OwnSensor \notin ControlTopics
  BY <1>1, <1>2, <1>3 DEF Own, ControlTopics
<1>6. EventsFilter = f
  BY DEF EventsFilter, f
<1> QED BY <1>4, <1>5, <1>6 DEF Receivers

LEMMA ControlReceived ==
  \A d \in {Device, Foreign} :
    /\ \A known : Receivers(known, ControlOf(d)) =
         IF ControlOf(d) \in known /\ MayRead(ControlOf(d)) THEN {"device"} ELSE {}
    /\ ControlOf(d) \in ControlTopics
    /\ Allowed(OpsGrants, "write", ControlOf(d))
<1> SUFFICES ASSUME NEW d \in {Device, Foreign}
             PROVE  /\ \A known : Receivers(known, ControlOf(d)) =
                         IF ControlOf(d) \in known /\ MayRead(ControlOf(d))
                         THEN {"device"} ELSE {}
                    /\ ControlOf(d) \in ControlTopics
                    /\ Allowed(OpsGrants, "write", ControlOf(d))
  OBVIOUS
<1> DEFINE f == <<"es", "+", "+", "+", "events">>
           g == <<"es", "+", "+", "+", "control">>
           l == LayoutOf(d)
           p == <<"es", l.org, l.site, d[3], "control">>
<1>1. ControlOf(d) = p /\ p \in ControlTopics
  BY DEF ControlOf, Own, DeviceTopic, Namespaced, ControlTopics
<1>2. /\ Len(f) = 5 /\ f[5] = "events" /\ Len(g) = 5 /\ g[5] = "control"
      /\ Len(p) = 5 /\ p[5] = "control"
  OBVIOUS
<1>3. Fits(g, p, 5)
  BY DEF Fits
<1>4. Matches(g, p)
  BY <1>2, <1>3, PlainFilter
<1>5. ~Matches(f, p)
  <2> HIDE DEF f, p
  <2> QED BY <1>2 DEF Matches, Fits
<1>6. Allowed(OpsGrants, "write", p)
  <2>1. Grant("write", g) \in OpsGrants
    BY DEF OpsGrants
  <2>2. Grant("write", g).access = "write" /\ Grant("write", g).filter = g
    BY DEF Grant
  <2> HIDE DEF g, p
  <2> QED BY <1>4, <2>1, <2>2 DEF Allowed
<1> HIDE DEF p, f
<1>7. EventsFilter = f
  BY DEF EventsFilter, f
<1> QED BY <1>1, <1>5, <1>6, <1>7 DEF Receivers, MayRead

(* What a delivery is. *)
LEMMA Delivered ==
  \A known, topic : \A m \in Deliver(known, topic, TRUE) :
    m.to \in Receivers(known, topic) /\ m.topic = topic
BY DEF Deliver, Message

LEMMA DeliveredUnmarked ==
  \A known, topic : \A m \in Deliver(known, topic, FALSE) : m.marker = FALSE
BY DEF Deliver, Message

LEMMA DeliveredTo ==
  \A known, topic, marker : \A to \in Receivers(known, topic) :
    Message(to, topic, marker) \in Deliver(known, topic, marker)
BY DEF Deliver

(* Steps that send no marker and move none off the way. *)
LEMMA MarkersStay ==
  ASSUME AclInv, UNCHANGED grants, wire' \union inbox' = wire \union inbox, at' >= at,
         at \in 1..12, at' \in 1..13, ~(at <= 3 /\ at' \in 4..12), ~(at <= 7 /\ at' \in 8..12),
         ~timedOut' => ~timedOut, subscribed \subseteq subscribed',
         at = 1 => at' = 13 \/ (~timedOut' => EventsFilter \in subscribed')
  PROVE  MarkersSound' /\ MarkersSent'
<1>1. MarkersSound'
  BY DEF AclInv, MarkersSound, SoundMarker, MayPublish, MayRead
<1>2. at' \in 4..12 => at \in 4..12
  OBVIOUS
<1>3. at' \in 8..12 => at \in 8..12
  OBVIOUS
<1>4. at' \in 2..12 /\ ~timedOut' => EventsFilter \in subscribed'
  BY DEF AclInv, MarkersSent
<1>5. MarkersSent'
  BY <1>2, <1>3, <1>4 DEF AclInv, MarkersSent, MayPublish, MayRead
<1> QED BY <1>1, <1>5

(* A publish, whose deliveries are under way now. *)
LEMMA MarkersSoundStep ==
  ASSUME AclInv, UNCHANGED <<grants, inbox>>, NEW news, wire' = wire \union news,
         \A m \in news : m.marker => SoundMarker(m)
  PROVE  MarkersSound'
BY DEF AclInv, MarkersSound, SoundMarker, MayPublish, MayRead

LEMMA NothingFound ==
  at \in 0..3 => FoundConfined /\ NoTrespassFound
<1> SUFFICES ASSUME at \in 0..3 PROVE FoundConfined /\ NoTrespassFound
  OBVIOUS
<1>1. /\ ~(at > 3) /\ ~(at > 4) /\ ~(at > 5) /\ ~(at > 6)
      /\ ~(at > 8) /\ ~(at > 9) /\ ~(at > 10) /\ ~(at > 11)
  OBVIOUS
<1> QED BY <1>1, Zenon DEF FoundConfined, NoTrespassFound

LEMMA AclInitInv == AclInit => AclInv
<1> SUFFICES ASSUME AclInit PROVE AclInv
  OBVIOUS
<1>1. at = 0 /\ wire = {} /\ inbox = {} /\ admits = {} /\ failed = FALSE /\ timedOut = FALSE
  BY DEF AclInit
<1>2. at \in 0..13 /\ MarkersSound /\ MarkersSent /\ FoundConfined /\ NoTrespassFound
  BY <1>1, NothingFound DEF MarkersSound, MarkersSent
<1>3. admits \subseteq {"wrong_password", "anonymous"}
  BY <1>1
<1> QED BY <1>1, <1>2, <1>3, Zenon DEF AclInv

LEMMA DeployAclInv == ASSUME AclInv, Deploy PROVE AclInv'
<1>1. at = 0 /\ at' = 1 /\ UNCHANGED <<wire, inbox, failed, timedOut>>
  BY DEF Deploy
<1>2. wire = {} /\ inbox = {} /\ ~failed /\ ~timedOut
  BY <1>1 DEF AclInv
<1>3. admits' \subseteq {"wrong_password", "anonymous"}
  BY DEF Deploy
<1>4. at' \in 0..13 /\ FoundConfined' /\ NoTrespassFound'
  BY <1>1 DEF FoundConfined, NoTrespassFound
<1>5. MarkersSound' /\ MarkersSent'
  BY <1>1, <1>2 DEF MarkersSound, MarkersSent
<1>6. failed' \in BOOLEAN /\ timedOut' \in BOOLEAN /\ ~failed' /\ ~timedOut'
  BY <1>1, <1>2, Zenon DEF AclInv
<1> QED BY <1>1, <1>2, <1>3, <1>4, <1>5, <1>6, Zenon DEF AclInv

(* A check, and what it found. *)
LEMMA CheckStep ==
  ASSUME AclInv, NEW ok \in BOOLEAN, NEW late \in BOOLEAN, at \in 1..12, at' \in 2..13,
         failed' = (failed \/ ~ok), timedOut' = (timedOut \/ late), UNCHANGED admits,
         MarkersSound', MarkersSent',
         ~timedOut /\ ~late /\ FoundConfined => (ok <=> FoundConfined'),
         ~late /\ FoundConfined' => FoundConfined,
         ok /\ NoTrespassFound => NoTrespassFound'
  PROVE  AclInv'
<1>1. /\ failed \in BOOLEAN /\ timedOut \in BOOLEAN
      /\ admits \subseteq {"wrong_password", "anonymous"}
      /\ ~timedOut => (~failed <=> FoundConfined)
      /\ ~failed => NoTrespassFound
  BY DEF AclInv
<1>2. at' \in 0..13 /\ at' # 0 /\ at' \notin {0, 1}
  OBVIOUS
<1>3. timedOut' \in BOOLEAN /\ failed' \in BOOLEAN /\ (~timedOut' => ~timedOut /\ ~late)
  BY <1>1, Zenon
<1>4. ~timedOut' => (~failed' <=> FoundConfined')
  BY <1>1, <1>3, Zenon
<1>5. ~failed' => NoTrespassFound'
  BY <1>1, Zenon
<1> QED BY <1>1, <1>2, <1>3, <1>4, <1>5, Zenon DEF AclInv

LEMMA ConnectAclInv == ASSUME AclInv, ConnectObserver \/ ConnectDevice PROVE AclInv'
<1>1. CASE ConnectObserver
  <2>1. at = 1 /\ UNCHANGED <<grants, admits, wire, inbox>> /\ at \in 1..12
    BY <1>1 DEF ConnectObserver
  <2>2. failed \in BOOLEAN /\ timedOut \in BOOLEAN /\ FoundConfined /\ NoTrespassFound
    BY <2>1, NothingFound DEF AclInv
  <2>3. CASE at' = 2 /\ Checked(TRUE) /\ Subscribe({EventsFilter})
    <3>1. PICK known \in SUBSET {EventsFilter}, answered \in BOOLEAN :
            /\ answered => known = {EventsFilter}
            /\ subscribed' = subscribed \union known
            /\ timedOut' = (timedOut \/ ~answered)
      BY <2>3 DEF Subscribe
    <3>2. MarkersSound' /\ MarkersSent'
      <4>1. /\ ~timedOut' => ~timedOut /\ EventsFilter \in subscribed'
            /\ subscribed \subseteq subscribed'
        BY <3>1
      <4> QED BY <2>1, <2>3, <4>1, MarkersStay
    <3>3. FoundConfined' /\ NoTrespassFound'
      BY <2>3 DEF FoundConfined, NoTrespassFound
    <3>4. at' \in 2..13 /\ failed' = (failed \/ ~TRUE)
      BY <2>3 DEF Checked
    <3> QED BY <2>1, <2>2, <3>1, <3>2, <3>3, <3>4, CheckStep, Zenon
  <2>4. CASE at' = 13 /\ Checked(FALSE) /\ timedOut' = TRUE /\ UNCHANGED subscribed
    <3>1. MarkersSound' /\ MarkersSent'
      BY <2>1, <2>4, MarkersStay
    <3>2. failed' = (failed \/ ~FALSE) /\ at' \in 2..13
      BY <2>4 DEF Checked
    <3>3. timedOut' = (timedOut \/ TRUE)
      BY <2>4
    <3> QED BY <3>3, <2>1, <2>2, <3>1, <3>2, CheckStep, Zenon
  <2> QED BY <1>1, <2>3, <2>4 DEF ConnectObserver, Finished
<1>2. CASE ConnectDevice
  <2>1. PICK answered \in BOOLEAN :
           failed' = (failed \/ ~answered) /\ timedOut' = (timedOut \/ ~answered)
    BY <1>2 DEF ConnectDevice, Checked
  <2>2. /\ at = 2 /\ at' = 3 /\ UNCHANGED <<grants, admits, subscribed, wire, inbox>>
        /\ at \in 1..12 /\ at' \in 2..13
    BY <1>2, <2>1 DEF ConnectDevice
  <2>3. MarkersSound' /\ MarkersSent'
    <3>1. ~timedOut' => ~timedOut
      BY <2>1, Zenon
    <3> QED BY <2>2, <3>1, MarkersStay
  <2>4. FoundConfined /\ NoTrespassFound
    BY <2>2, NothingFound
  <2>5. FoundConfined' /\ NoTrespassFound'
    BY <2>2 DEF FoundConfined, NoTrespassFound
  <2> QED BY <2>1, <2>2, <2>3, <2>4, <2>5, CheckStep, Zenon
<1> QED BY <1>1, <1>2

(* The findings do not change between the checks. *)
LEMMA FindingsStay ==
  ASSUME AclInv, at # 0, UNCHANGED <<grants, admits, at, failed, timedOut>>,
         MarkersSound', MarkersSent'
  PROVE  AclInv'
<1>1. FoundConfined' = FoundConfined /\ NoTrespassFound' = NoTrespassFound
  BY DEF FoundConfined, NoTrespassFound, MayPublish, MayRead
<1> QED BY <1>1, Zenon DEF AclInv

LEMMA LiveEventAclInv == ASSUME AclInv, LiveEvent PROVE AclInv'
<1>1. PICK d : wire' = wire \union Deliver(subscribed, EventsOfDevice(d), FALSE)
  BY DEF LiveEvent, EventsOfDevice
<1>2. at # 0 /\ UNCHANGED <<grants, admits, at, subscribed, inbox, failed, timedOut>>
  BY DEF LiveEvent
<1>3. \A m \in Deliver(subscribed, EventsOfDevice(d), FALSE) : m.marker = FALSE
  BY DeliveredUnmarked, Zenon
<1>4. MarkersSound'
  <2> DEFINE news == Deliver(subscribed, EventsOfDevice(d), FALSE)
  <2>1. \A m \in news : m.marker = FALSE
    BY <1>3
  <2> HIDE DEF news
  <2>2. wire' = wire \union news
    BY <1>1 DEF news
  <2> QED BY <1>2, <2>1, <2>2, MarkersSoundStep
<1>5. MarkersSent'
  BY <1>1, <1>2 DEF AclInv, MarkersSent, MayPublish, MayRead
<1> QED BY <1>2, <1>4, <1>5, FindingsStay

LEMMA ArriveAclInv == ASSUME AclInv, NEW m \in wire, Arrive(m) PROVE AclInv'
<1>1. /\ wire' \union inbox' = wire \union inbox
      /\ UNCHANGED <<grants, admits, at, subscribed, failed, timedOut>>
  BY DEF Arrive
<1>2. MarkersSound'
  BY <1>1 DEF AclInv, MarkersSound, SoundMarker, MayPublish, MayRead
<1>3. MarkersSent'
  BY <1>1 DEF AclInv, MarkersSent, MayPublish, MayRead
<1>4. at # 0
  BY DEF AclInv
<1> QED BY <1>1, <1>2, <1>3, <1>4, FindingsStay

LEMMA SubscribedLateAclInv == ASSUME AclInv, SubscribedLate PROVE AclInv'
<1>1. /\ at # 0 /\ UNCHANGED <<grants, admits, at, wire, inbox, failed, timedOut>>
      /\ subscribed \subseteq subscribed'
  BY DEF SubscribedLate
<1>2. MarkersSound'
  BY <1>1 DEF AclInv, MarkersSound, SoundMarker, MayPublish, MayRead
<1>3. MarkersSent'
  BY <1>1 DEF AclInv, MarkersSent, MayPublish, MayRead
<1> QED BY <1>1, <1>2, <1>3, FindingsStay

LEMMA ProbesAre ==
  /\ DOMAIN Probes = 1..4
  /\ Probes[1].topic = EventsOfDevice(Device) /\ Probes[1].expected = TRUE
  /\ Probes[2].topic = OwnSensor /\ Probes[2].expected = TRUE
  /\ Probes[3].topic = EventsOfDevice(Foreign) /\ Probes[3].expected = FALSE
  /\ Probes[4].topic = EventsOfDevice(Sibling) /\ Probes[4].expected = FALSE
<1> DEFINE p1 == [topic |-> Own("events"), expected |-> TRUE]
           p2 == [topic |-> OwnSensor, expected |-> TRUE]
           p3 == [topic |-> DeviceTopic(Foreign, "events"), expected |-> FALSE]
           p4 == [topic |-> DeviceTopic(Sibling, "events"), expected |-> FALSE]
<1>1. /\ p1.topic = EventsOfDevice(Device) /\ p1.expected = TRUE
      /\ p2.topic = OwnSensor /\ p2.expected = TRUE
      /\ p3.topic = EventsOfDevice(Foreign) /\ p3.expected = FALSE
      /\ p4.topic = EventsOfDevice(Sibling) /\ p4.expected = FALSE
  BY Zenon DEF EventsOfDevice, Own
<1>2. Probes = <<p1, p2, p3, p4>>
  BY Zenon DEF Probes
<1> HIDE DEF p1, p2, p3, p4
<1>3. /\ DOMAIN Probes = 1..4 /\ Probes[1] = p1 /\ Probes[2] = p2
      /\ Probes[3] = p3 /\ Probes[4] = p4
  BY <1>2
<1> QED BY <1>1, <1>3, Zenon

LEMMA ProbeAclInv == ASSUME AclInv, Probe PROVE AclInv'
<1> DEFINE own == EventsOfDevice(Device)
           p == Probes[at - 2]
           allowed == MayPublish(p.topic)
<1>1. /\ at \in 3..6 /\ at' = at + 1 /\ at \in 1..12 /\ at' \in 2..13
      /\ UNCHANGED <<grants, admits, subscribed, inbox>>
  <2>1. at - 2 \in 1..4 /\ at' = at + 1 /\ UNCHANGED <<grants, admits, subscribed, inbox>>
    BY ProbesAre DEF Probe
  <2>2. at \in 0..13
    BY DEF AclInv
  <2> QED BY <2>1, <2>2
<1>2. PICK answered \in BOOLEAN :
        /\ failed' = (failed \/ ~Judged(allowed, answered, p.expected))
        /\ timedOut' = (timedOut \/ ~answered)
        /\ wire' = IF allowed THEN wire \union Deliver(subscribed, p.topic, TRUE) ELSE wire
  BY Zenon DEF Probe, Checked, MayPublish
<1>4. /\ at = 3 => p.topic = own /\ p.expected = TRUE
      /\ at = 4 => p.topic = OwnSensor /\ p.expected = TRUE
      /\ at = 5 => p.topic = EventsOfDevice(Foreign) /\ p.expected = FALSE
      /\ at = 6 => p.topic = EventsOfDevice(Sibling) /\ p.expected = FALSE
  <2>1. /\ at = 3 => at - 2 = 1
        /\ at = 4 => at - 2 = 2
        /\ at = 5 => at - 2 = 3
        /\ at = 6 => at - 2 = 4
    OBVIOUS
  <2> QED BY <2>1, ProbesAre, Zenon
<1> DEFINE ok == Judged(allowed, answered, p.expected)
<1> HIDE DEF p
<1>5. ok \in BOOLEAN /\ (ok <=> (answered /\ (allowed = p.expected)))
  BY Zenon DEF Judged
<1>6. /\ at = 3 => (allowed <=> MayPublish(own)) /\ (ok <=> (answered /\ MayPublish(own)))
      /\ at = 4 => (ok <=> (answered /\ MayPublish(OwnSensor)))
      /\ at = 5 => (ok <=> (answered /\ ~MayPublish(EventsOfDevice(Foreign))))
      /\ at = 6 => (ok <=> (answered /\ ~MayPublish(EventsOfDevice(Sibling))))
  <2>1. allowed \in BOOLEAN
    BY Zenon DEF MayPublish, Allowed
  <2>2. ASSUME p.expected = TRUE PROVE ok <=> (answered /\ allowed)
    <3>1. (allowed = TRUE) <=> allowed
      <4> HIDE DEF allowed
      <4> QED BY <2>1
    <3> QED BY <1>5, <2>2, <3>1, Zenon
  <2>3. ASSUME p.expected = FALSE PROVE ok <=> (answered /\ ~allowed)
    <3>1. (allowed = FALSE) <=> ~allowed
      <4> HIDE DEF allowed
      <4> QED BY <2>1
    <3> QED BY <1>5, <2>3, <3>1, Zenon
  <2> HIDE DEF ok
  <2> QED BY <1>4, <2>2, <2>3, Zenon
<1>7. MarkersSound'
  <2>1. \A m \in Deliver(subscribed, p.topic, TRUE) : allowed => SoundMarker(m)
    <3>1. CASE at = 4
      BY <1>4, <3>1, Delivered, ReadingsNotReceived
    <3>2. CASE at # 4
      <4>1. PICK d \in {Device, Foreign, Sibling} : p.topic = EventsOfDevice(d)
        BY <1>1, <1>4, <3>2
      <4> HIDE DEF allowed
      <4>2. \A m \in Deliver(subscribed, p.topic, TRUE) :
              m.to = "observer" /\ m.topic = EventsOfDevice(d)
        <5>1. \A m \in Deliver(subscribed, EventsOfDevice(d), TRUE) :
                m.to \in Receivers(subscribed, EventsOfDevice(d)) /\ m.topic = EventsOfDevice(d)
          BY Delivered, Zenon
        <5>2. \A to \in Receivers(subscribed, EventsOfDevice(d)) : to = "observer"
          BY EventsReceived
        <5> QED BY <4>1, <5>1, <5>2
      <4> QED BY <4>1, <4>2 DEF SoundMarker, allowed
    <3> QED BY <3>1, <3>2
  <2>2. CASE allowed
    <3> HIDE DEF allowed
    <3> QED BY <1>1, <1>2, <2>1, <2>2, MarkersSoundStep
  <2>3. CASE ~allowed
    BY <1>1, <1>2, <2>3 DEF AclInv, MarkersSound, SoundMarker, MayPublish, MayRead
  <2> QED BY <2>2, <2>3
<1>8. MarkersSent'
  <2>0. ~timedOut' => ~timedOut
    BY <1>2, Zenon
  <2>1. wire \subseteq wire'
    BY <1>2
  <2>2. CASE at = 3
    <3>1. MayPublish(own) /\ EventsFilter \in subscribed =>
             Message("observer", own, TRUE) \in wire'
      <4>1. EventsFilter \in subscribed =>
               Message("observer", own, TRUE) \in Deliver(subscribed, own, TRUE)
        BY DeliveredTo, EventsReceived
      <4> QED BY <1>2, <1>4, <2>2, <4>1
    <3>2. ~(at' \in 8..12) /\ at \in 2..12
      BY <1>1, <2>2
    <3>3. ~timedOut' => EventsFilter \in subscribed
      BY <2>0, <3>2 DEF AclInv, MarkersSent
    <3> QED BY <1>1, <3>1, <3>2, <3>3 DEF MarkersSent, MayPublish, MayRead
  <2>3. CASE at # 3
    <3>1. ~(at' \in 8..12) /\ at \in 4..12 /\ at \in 2..12
      BY <1>1, <2>3
    <3> QED BY <1>1, <2>0, <2>1, <3>1 DEF AclInv, MarkersSent, MayPublish, MayRead
  <2> QED BY <2>2, <2>3
<1> HIDE DEF ok, allowed
<1>9. failed' = (failed \/ ~ok)
  BY <1>2 DEF ok
<1>10. CASE at = 3
  <2>1. /\ FoundConfined' <=> FoundConfined /\ MayPublish(own)
        /\ NoTrespassFound' <=> NoTrespassFound
    BY <1>1, <1>10 DEF FoundConfined, NoTrespassFound, MayPublish, MayRead
  <2> QED BY <1>1, <1>2, <1>5, <1>6, <1>7, <1>8, <1>9, <1>10, <2>1, CheckStep, Zenon
<1>11. CASE at = 4
  <2>1. /\ FoundConfined' <=> FoundConfined /\ MayPublish(OwnSensor)
        /\ NoTrespassFound' <=> NoTrespassFound
    BY <1>1, <1>11 DEF FoundConfined, NoTrespassFound, MayPublish, MayRead
  <2> QED BY <1>1, <1>2, <1>5, <1>6, <1>7, <1>8, <1>9, <1>11, <2>1, CheckStep, Zenon
<1>12. CASE at = 5
  <2>1. /\ FoundConfined' <=> FoundConfined /\ ~MayPublish(EventsOfDevice(Foreign))
        /\ NoTrespassFound' <=> NoTrespassFound /\ ~MayPublish(EventsOfDevice(Foreign))
    BY <1>1, <1>12 DEF FoundConfined, NoTrespassFound, MayPublish, MayRead
  <2> QED BY <1>1, <1>2, <1>5, <1>6, <1>7, <1>8, <1>9, <1>12, <2>1, CheckStep, Zenon
<1>13. CASE at = 6
  <2>1. /\ FoundConfined' <=> FoundConfined /\ ~MayPublish(EventsOfDevice(Sibling))
        /\ NoTrespassFound' <=> NoTrespassFound /\ ~MayPublish(EventsOfDevice(Sibling))
    BY <1>1, <1>13 DEF FoundConfined, NoTrespassFound, MayPublish, MayRead
  <2> QED BY <1>1, <1>2, <1>5, <1>6, <1>7, <1>8, <1>9, <1>13, <2>1, CheckStep, Zenon
<1> QED BY <1>1, <1>10, <1>11, <1>12, <1>13

(* The markers for the control topics. *)
LEMMA SendControlAclInv == ASSUME AclInv, SendControl PROVE AclInv'
<1> DEFINE news == UNION {Deliver(subscribed', ControlOf(d), TRUE) : d \in {Device, Foreign}}
<1>1. PICK known \in SUBSET ControlTopics, answered \in BOOLEAN :
        /\ answered => known = ControlTopics
        /\ subscribed' = subscribed \union known
        /\ timedOut' = (timedOut \/ ~answered)
  BY DEF SendControl, Subscribe
<1>2. /\ at = 7 /\ at' = 8 /\ UNCHANGED <<grants, admits, inbox, failed>>
      /\ at \in 1..12 /\ at' \in 2..13 /\ wire' = wire \union news
  <2>1. {x \in {Device, Foreign} : Allowed(OpsGrants, "write", DeviceTopic(x, "control"))}
          = {Device, Foreign}
    BY ControlReceived DEF ControlOf
  <2>2. /\ at = 7 /\ at' = 8 /\ UNCHANGED <<grants, admits, inbox, failed>>
        /\ wire' = wire \union news
    BY <2>1, Zenon DEF SendControl, ControlOf
  <2> HIDE DEF news
  <2> QED BY <2>2
<1>3. MarkersSound'
  <2>1. \A m \in news : SoundMarker(m)
    <3> SUFFICES ASSUME NEW d \in {Device, Foreign},
                        NEW m \in Deliver(subscribed', ControlOf(d), TRUE)
                 PROVE  SoundMarker(m)
      OBVIOUS
    <3>1. m.to \in Receivers(subscribed', ControlOf(d)) /\ m.topic = ControlOf(d)
      BY Delivered, Zenon
    <3>2. MayRead(ControlOf(d)) /\ m.to = "device"
      BY <3>1, ControlReceived
    <3> QED BY <3>1, <3>2 DEF SoundMarker
  <2> HIDE DEF news
  <2> QED BY <1>2, <2>1, MarkersSoundStep
<1>4. MarkersSent'
  <2>1. ~timedOut' => ~timedOut /\ ControlTopics \subseteq subscribed'
    BY <1>1
  <2>2. ControlTopics \subseteq subscribed' => \A d \in {Device, Foreign} :
           MayRead(ControlOf(d)) => Message("device", ControlOf(d), TRUE) \in wire'
    <3> SUFFICES ASSUME ControlTopics \subseteq subscribed', NEW d \in {Device, Foreign},
                        MayRead(ControlOf(d))
                 PROVE  Message("device", ControlOf(d), TRUE) \in wire'
      OBVIOUS
    <3>1. "device" \in Receivers(subscribed', ControlOf(d))
      <4>1. ControlOf(d) \in subscribed'
        BY ControlReceived
      <4>2. Receivers(subscribed', ControlOf(d)) = {"device"}
        BY <4>1, ControlReceived, Zenon
      <4> QED BY <4>2
    <3>2. Message("device", ControlOf(d), TRUE) \in Deliver(subscribed', ControlOf(d), TRUE)
      BY <3>1, DeliveredTo, Zenon
    <3> QED BY <1>2, <3>2
  <2> HIDE DEF news
  <2>3. at \in 4..12 /\ at \in 2..12 /\ wire \subseteq wire' /\ subscribed \subseteq subscribed'
    BY <1>1, <1>2
  <2> QED BY <1>2, <2>1, <2>2, <2>3 DEF AclInv, MarkersSent, MayPublish, MayRead
<1>5. FoundConfined' = FoundConfined /\ NoTrespassFound' = NoTrespassFound
  BY <1>2 DEF FoundConfined, NoTrespassFound, MayPublish, MayRead
<1>6. failed' = (failed \/ ~TRUE)
  BY <1>2, Zenon DEF AclInv
<1> HIDE DEF news
<1> QED BY <1>1, <1>2, <1>3, <1>4, <1>5, <1>6, CheckStep, Zenon

(* A marker that is seen was sound, and one that is due and not seen is    *)
(* still under way.                                                        *)
LEMMA ControlSeen ==
  ASSUME AclInv, at \in 8..12, NEW d \in {Device, Foreign}
  PROVE  /\ SeenBy("device", ControlOf(d)) => MayRead(ControlOf(d))
         /\ ~timedOut /\ MayRead(ControlOf(d)) /\ Landed("device") =>
              SeenBy("device", ControlOf(d))
<1> DEFINE m == Message("device", ControlOf(d), TRUE)
<1>1. m.to = "device" /\ m.topic = ControlOf(d) /\ m.marker
  BY Zenon DEF Message
<1>2. ASSUME SeenBy("device", ControlOf(d)) PROVE MayRead(ControlOf(d))
  <2>1. m \in wire \union inbox
    BY <1>2 DEF SeenBy
  <2>2. SoundMarker(m)
    BY <1>1, <2>1, Zenon DEF AclInv, MarkersSound
  <2> HIDE DEF m
  <2> QED BY <1>1, <2>2 DEF SoundMarker
<1>3. ASSUME ~timedOut, MayRead(ControlOf(d)), Landed("device") PROVE SeenBy("device", ControlOf(d))
  <2>1. m \in wire \union inbox
    BY <1>3 DEF AclInv, MarkersSent
  <2>2. m \notin wire
    BY <1>1, <1>3, Zenon DEF Landed
  <2> QED BY <2>1, <2>2 DEF SeenBy
<1> QED BY <1>2, <1>3

LEMMA AwaitOwnControlAclInv == ASSUME AclInv, AwaitOwnControl PROVE AclInv'
<1> DEFINE seen == SeenBy("device", ControlOf(Device))
           late == ~seen /\ ~Landed("device")
<1>1. /\ at = 8 /\ at' = 9 /\ UNCHANGED <<grants, admits, subscribed, wire, inbox>>
      /\ at \in 1..12 /\ at' \in 2..13 /\ at \in 8..12
  BY DEF AwaitOwnControl
<1>2. failed' = (failed \/ ~seen) /\ timedOut' = (timedOut \/ late)
  BY Zenon DEF AwaitOwnControl, Checked, ControlOf, Own
<1>3. seen \in BOOLEAN /\ late \in BOOLEAN
  <2>1. seen \in BOOLEAN
    BY DEF SeenBy
  <2>2. Landed("device") \in BOOLEAN
    BY Zenon DEF Landed
  <2>3. ASSUME NEW a \in BOOLEAN, NEW b \in BOOLEAN PROVE (~a /\ ~b) \in BOOLEAN
    OBVIOUS
  <2> HIDE DEF seen
  <2> QED BY <2>1, <2>2, <2>3
<1>4. /\ seen => MayRead(ControlOf(Device))
      /\ ~timedOut /\ MayRead(ControlOf(Device)) /\ Landed("device") => seen
  BY <1>1, ControlSeen
<1>5. MarkersSound' /\ MarkersSent'
  <2>1. ~timedOut' => ~timedOut
    BY <1>2, Zenon
  <2> QED BY <1>1, <2>1, MarkersStay
<1>6. /\ FoundConfined' <=> FoundConfined /\ MayRead(ControlOf(Device))
      /\ NoTrespassFound' <=> NoTrespassFound
  BY <1>1 DEF FoundConfined, NoTrespassFound, MayPublish, MayRead
<1> HIDE DEF seen
<1> QED BY <1>1, <1>2, <1>3, <1>4, <1>5, <1>6, CheckStep, Zenon

LEMMA AwaitForeignControlAclInv == ASSUME AclInv, AwaitForeignControl PROVE AclInv'
<1> DEFINE seen == SeenBy("device", ControlOf(Foreign))
           ok == ~seen
           late == ~Landed("device")
<1>1. /\ at = 9 /\ at' = 10 /\ UNCHANGED <<grants, admits, subscribed, wire, inbox>>
      /\ at \in 1..12 /\ at' \in 2..13 /\ at \in 8..12
  BY DEF AwaitForeignControl
<1>2. failed' = (failed \/ ~ok) /\ timedOut' = (timedOut \/ late)
  BY Zenon DEF AwaitForeignControl, Checked, ControlOf
<1>3. ok \in BOOLEAN /\ late \in BOOLEAN
  BY Zenon
<1>4. /\ seen => MayRead(ControlOf(Foreign))
      /\ ~timedOut /\ MayRead(ControlOf(Foreign)) /\ Landed("device") => seen
  BY <1>1, ControlSeen
<1>5. MarkersSound' /\ MarkersSent'
  <2>1. ~timedOut' => ~timedOut
    BY <1>2, Zenon
  <2> QED BY <1>1, <2>1, MarkersStay
<1>6. /\ FoundConfined' <=> FoundConfined /\ ~MayRead(ControlOf(Foreign))
      /\ NoTrespassFound' <=> NoTrespassFound
  BY <1>1 DEF FoundConfined, NoTrespassFound, MayPublish, MayRead
<1>7. ok <=> ~seen
  OBVIOUS
<1> HIDE DEF ok, seen
<1> QED BY <1>1, <1>2, <1>3, <1>4, <1>5, <1>6, <1>7, CheckStep, Zenon

LEMMA StrangerStep ==
  ASSUME AclInv, NEW who, at \in 10..11, at' = at + 1, NEW answered \in BOOLEAN,
         failed' = (failed \/ ~~(answered /\ who \in admits)),
         timedOut' = (timedOut \/ ~answered),
         UNCHANGED <<grants, admits, subscribed, wire, inbox>>,
         FoundConfined' <=> FoundConfined /\ who \notin admits,
         NoTrespassFound' <=> NoTrespassFound
  PROVE  AclInv'
<1> DEFINE ok == ~(answered /\ who \in admits)
           late == ~answered
<1>1. at \in 1..12 /\ at' \in 2..13 /\ at # 1
  OBVIOUS
<1>2. MarkersSound' /\ MarkersSent'
  <2>1. ~timedOut' => ~timedOut
    BY Zenon
  <2> QED BY <1>1, <2>1, MarkersStay
<1>3. ok \in BOOLEAN /\ late \in BOOLEAN
  BY Zenon
<1>4. failed' = (failed \/ ~ok) /\ timedOut' = (timedOut \/ late)
  BY Zenon
<1>5. ~late => (ok <=> who \notin admits)
  BY Zenon
<1>6. admits' = admits
  OBVIOUS
<1> HIDE DEF ok, late
<1> QED BY <1>1, <1>2, <1>3, <1>4, <1>5, <1>6, CheckStep, Zenon

LEMMA RejectStrangerAclInv ==
  ASSUME AclInv, RejectStranger("wrong_password", 10) \/ RejectStranger("anonymous", 11)
  PROVE  AclInv'
<1>1. CASE RejectStranger("wrong_password", 10)
  <2>1. at = 10 /\ at' = 11 /\ UNCHANGED <<grants, admits, subscribed, wire, inbox>>
    BY <1>1 DEF RejectStranger
  <2>2. PICK answered \in BOOLEAN :
          /\ failed' = (failed \/ ~~(answered /\ "wrong_password" \in admits))
          /\ timedOut' = (timedOut \/ ~answered)
    BY <1>1, Zenon DEF RejectStranger, Checked
  <2>3. /\ FoundConfined' <=> FoundConfined /\ "wrong_password" \notin admits
        /\ NoTrespassFound' <=> NoTrespassFound
    BY <2>1 DEF FoundConfined, NoTrespassFound, MayPublish, MayRead
  <2>4. at \in 10..11 /\ at' = at + 1
    BY <2>1
  <2> QED BY <2>1, <2>2, <2>3, <2>4, StrangerStep, Zenon
<1>2. CASE RejectStranger("anonymous", 11)
  <2>1. at = 11 /\ at' = 12 /\ UNCHANGED <<grants, admits, subscribed, wire, inbox>>
    BY <1>2 DEF RejectStranger
  <2>2. PICK answered \in BOOLEAN :
          /\ failed' = (failed \/ ~~(answered /\ "anonymous" \in admits))
          /\ timedOut' = (timedOut \/ ~answered)
    BY <1>2, Zenon DEF RejectStranger, Checked
  <2>3. /\ FoundConfined' <=> FoundConfined /\ "anonymous" \notin admits
        /\ NoTrespassFound' <=> NoTrespassFound
    BY <2>1 DEF FoundConfined, NoTrespassFound, MayPublish, MayRead
  <2>4. at \in 10..11 /\ at' = at + 1
    BY <2>1
  <2> QED BY <2>1, <2>2, <2>3, <2>4, StrangerStep, Zenon
<1> QED BY <1>1, <1>2

LEMMA CrossCheckAclInv == ASSUME AclInv, CrossCheck PROVE AclInv'
<1> DEFINE own == EventsOfDevice(Device)
           leaked == {m \in inbox : m.to = "observer" /\ m.marker /\ m.topic # own}
           ok == SeenBy("observer", own) /\ leaked = {}
           late == ~Landed("observer")
<1>1. /\ at = 12 /\ at' = 13 /\ UNCHANGED <<grants, admits, subscribed, wire, inbox>>
      /\ at \in 1..12 /\ at' \in 2..13
  BY DEF CrossCheck, Finished
<1>2. failed' = (failed \/ ~ok) /\ timedOut' = (timedOut \/ late)
  BY Zenon DEF CrossCheck, Checked, EventsOfDevice, Own
<1>3. MarkersSound' /\ MarkersSent'
  <2>1. ~timedOut' => ~timedOut
    BY <1>2, Zenon
  <2> QED BY <1>1, <2>1, MarkersStay
<1>4. FoundConfined' = FoundConfined /\ NoTrespassFound' = NoTrespassFound
  BY <1>1 DEF FoundConfined, NoTrespassFound, MayPublish, MayRead
<1>5. ASSUME ~timedOut, FoundConfined, Landed("observer") PROVE ok
  <2>1. /\ MayPublish(own) /\ ~MayPublish(EventsOfDevice(Foreign))
        /\ ~MayPublish(EventsOfDevice(Sibling))
    <3>1. at > 3 /\ at > 5 /\ at > 6
      BY <1>1
    <3> QED BY <1>5, <3>1, Zenon DEF FoundConfined, NoTrespassFound
  <2>2. SeenBy("observer", own)
    <3> DEFINE m == Message("observer", own, TRUE)
    <3>1. m.to = "observer" /\ m.marker
      BY Zenon DEF Message
    <3>2. m \in wire \union inbox
      <4>1. at \in 4..12
        BY <1>1
      <4> QED BY <1>5, <2>1, <4>1, Zenon DEF AclInv, MarkersSent
    <3>3. m \notin wire
      BY <1>5, <3>1, Zenon DEF Landed
    <3> QED BY <3>2, <3>3 DEF SeenBy
  <2>3. ASSUME NEW m \in inbox, m.to = "observer", m.marker, m.topic # own PROVE FALSE
    <3>1. SoundMarker(m)
      BY <2>3 DEF AclInv, MarkersSound
    <3> QED BY <2>1, <2>3, <3>1 DEF SoundMarker
  <2> QED BY <2>2, <2>3
<1>6. ok \in BOOLEAN /\ late \in BOOLEAN
  BY Zenon
<1> HIDE DEF ok
<1> QED BY <1>1, <1>2, <1>3, <1>4, <1>5, <1>6, CheckStep, Zenon

LEMMA AclNextInv == ASSUME AclInv, [AclNext]_aclVars PROVE AclInv'
<1>1. CASE UNCHANGED aclVars
  <2>1. UNCHANGED <<grants, admits, at, subscribed, wire, inbox, failed, timedOut>>
    BY <1>1 DEF aclVars
  <2>2. /\ FoundConfined' = FoundConfined /\ NoTrespassFound' = NoTrespassFound
        /\ MarkersSound' = MarkersSound /\ MarkersSent' = MarkersSent
    BY <2>1 DEF FoundConfined, NoTrespassFound, MarkersSound, MarkersSent, SoundMarker,
                MayPublish, MayRead
  <2> QED BY <2>1, <2>2, Zenon DEF AclInv
<1>2. CASE RejectStranger("wrong_password", 10) \/ RejectStranger("anonymous", 11)
  BY <1>2, RejectStrangerAclInv
<1> QED BY <1>1, <1>2, DeployAclInv, ConnectAclInv, LiveEventAclInv, ArriveAclInv,
           SubscribedLateAclInv, ProbeAclInv,
           SendControlAclInv, AwaitOwnControlAclInv, AwaitForeignControlAclInv, CrossCheckAclInv
        DEF AclNext

(* Whatever the broker grants the device: the verdict of check_acl.py is   *)
(* right if nothing was late, and no trespass that is granted ever passes  *)
(* (check_acl.py:3-12, 45).                                                *)
THEOREM VerdictIsRight == AclSpec => []VerdictRight
<1>1. AclInv /\ [AclNext]_aclVars => AclInv'
  BY AclNextInv
<1>2. ASSUME AclInv PROVE VerdictRight
  <2>1. SUFFICES ASSUME at = 13 PROVE VerdictRight
    BY DEF VerdictRight, Finished
  <2>2. NoTrespassFound <=> NoneTrespassed
    BY <2>1 DEF NoTrespassFound, NoneTrespassed, MayPublish, EventsOfDevice
  <2>3. admits = {} <=> "wrong_password" \notin admits /\ "anonymous" \notin admits
    BY <1>2 DEF AclInv
  <2>4. FoundConfined <=> NoTrespassFound
                          /\ MayPublish(EventsOfDevice(Device)) /\ MayPublish(OwnSensor)
                          /\ MayRead(ControlOf(Device)) /\ ~MayRead(ControlOf(Foreign)) /\ admits = {}
    <3>1. at > 3 /\ at > 4 /\ at > 8 /\ at > 9 /\ at > 10 /\ at > 11
      BY <2>1
    <3> QED BY <2>3, <3>1, Zenon DEF FoundConfined
  <2>5. FoundConfined <=> ActsConfined /\ admits = {}
    BY <2>2, <2>4, Zenon DEF ActsConfined, MayPublish, MayRead, EventsOfDevice, ControlOf, Own
  <2> QED BY <1>2, <2>2, <2>5, Zenon DEF AclInv, VerdictRight
<1> QED BY <1>1, <1>2, AclInitInv, PTL DEF AclSpec

-----------------------------------------------------------------------------
(* Event collectors (Collectors) *)

(* The function that selects is the one its definition describes: each     *)
(* entry is made from the one before.                                      *)
Selects(f, s, m, b) ==
  f = [x \in 0..b |-> IF x = 0 THEN <<>>
                      ELSE IF Named(m, s[x]) THEN Append(f[x - 1], s[x])
                      ELSE f[x - 1]]

LEMMA SelectsExists == ASSUME NEW s, NEW m, NEW b \in Nat PROVE \E f : Selects(f, s, m, b)
<1> DEFINE Lacking == {x \in Nat : ~\E f : Selects(f, s, m, x)}
<1>1. 0 \notin Lacking
  <2> DEFINE f == [x \in 0..0 |-> <<>>]
  <2>1. Selects(f, s, m, 0)
    BY DEF Selects
  <2> QED BY <2>1
<1>2. ASSUME NEW x \in Nat, x \notin Lacking PROVE x + 1 \notin Lacking
  <2>1. PICK f : Selects(f, s, m, x)
    BY <1>2
  <2> DEFINE last == IF Named(m, s[x + 1]) THEN Append(f[x], s[x + 1]) ELSE f[x]
             g    == [i \in 0..x + 1 |-> IF i = x + 1 THEN last ELSE f[i]]
  <2>2. \A i \in 0..x + 1 : g[i] = IF i = 0 THEN <<>>
                                   ELSE IF Named(m, s[i]) THEN Append(g[i - 1], s[i])
                                   ELSE g[i - 1]
    <3>1. \A i \in 0..x : f[i] = IF i = 0 THEN <<>>
                                 ELSE IF Named(m, s[i]) THEN Append(f[i - 1], s[i])
                                 ELSE f[i - 1]
      BY <2>1 DEF Selects
    <3>2. \A i \in 0..x : g[i] = f[i]
      OBVIOUS
    <3>3. g[x + 1] = last
      OBVIOUS
    <3> HIDE DEF g
    <3>4. ASSUME NEW i \in 0..x PROVE i # 0 => g[i - 1] = f[i - 1]
      BY <3>2
    <3>5. g[x + 1] = IF Named(m, s[x + 1]) THEN Append(g[x], s[x + 1]) ELSE g[x]
      BY <3>2, <3>3
    <3>6. ASSUME NEW i \in 0..x + 1 PROVE i \in 0..x \/ i = x + 1
      OBVIOUS
    <3>7. x + 1 # 0 /\ (x + 1) - 1 = x
      OBVIOUS
    <3> QED BY <3>1, <3>2, <3>4, <3>5, <3>6, <3>7
  <2>3. g = [i \in 0..x + 1 |-> g[i]]
    OBVIOUS
  <2> HIDE DEF g
  <2>4. Selects(g, s, m, x + 1)
    BY <2>2, <2>3 DEF Selects
  <2> QED BY <2>4
<1>3. Lacking = {}
  <2> HIDE DEF Lacking
  <2> SUFFICES ASSUME Lacking # {} PROVE FALSE
    OBVIOUS
  <2>1. Lacking \subseteq Nat
    BY DEF Lacking
  <2>2. PICK x \in Lacking : \A i \in Lacking : x <= i
    BY <2>1, LeastNumber
  <2>3. x \in Nat /\ x # 0
    BY <1>1, <2>1
  <2>4. x - 1 \in Nat /\ x - 1 \notin Lacking /\ (x - 1) + 1 = x
    BY <2>2, <2>3
  <2> QED BY <1>2, <2>4
<1> QED BY <1>3

LEMMA SelectedIs ==
  ASSUME NEW s, NEW m, Len(s) \in Nat
  PROVE  \E f : Selects(f, s, m, Len(s)) /\ Selected(s, m) = f[Len(s)]
<1> DEFINE kept == CHOOSE f : f = [x \in 0..Len(s) |->
              IF x = 0 THEN <<>>
              ELSE IF Named(m, s[x]) THEN Append(f[x - 1], s[x])
              ELSE f[x - 1]]
<1>1. Selects(kept, s, m, Len(s))
  <2>1. \E f : Selects(f, s, m, Len(s))
    BY SelectsExists
  <2>2. \E f : f = [x \in 0..Len(s) |->
              IF x = 0 THEN <<>>
              ELSE IF Named(m, s[x]) THEN Append(f[x - 1], s[x])
              ELSE f[x - 1]]
    BY <2>1, Zenon DEF Selects
  <2>3. kept = [x \in 0..Len(s) |->
              IF x = 0 THEN <<>>
              ELSE IF Named(m, s[x]) THEN Append(kept[x - 1], s[x])
              ELSE kept[x - 1]]
    BY <2>2, Zenon
  <2> HIDE DEF kept
  <2> QED BY <2>3, Zenon DEF Selects
<1>2. Selected(s, m) = kept[Len(s)]
  BY Zenon DEF Selected
<1> QED BY <1>1, <1>2, Zenon

(* What a selection holds: the events of the machine asked for, all of     *)
(* them and in their order.                                                *)
Places(s, m, x) == {i \in 1..x : Named(m, s[i])}

SelectionOf(r, s, m, x) ==
  /\ Len(r) = Cardinality(Places(s, m, x))
  /\ \A k \in 1..Len(r) :
       \E i \in Places(s, m, x) : r[k] = s[i] /\ Cardinality(Places(s, m, i)) = k

LEMMA PlacesNext ==
  ASSUME NEW s, NEW m, NEW x \in Nat
  PROVE  /\ IsFiniteSet(Places(s, m, x)) /\ Cardinality(Places(s, m, x)) \in Nat
         /\ Places(s, m, x) \subseteq Places(s, m, x + 1)
         /\ ~Named(m, s[x + 1]) => Places(s, m, x + 1) = Places(s, m, x)
         /\ Named(m, s[x + 1]) =>
              /\ x + 1 \in Places(s, m, x + 1)
              /\ Cardinality(Places(s, m, x + 1)) = Cardinality(Places(s, m, x)) + 1
<1>1. IsFiniteSet(1..x)
  BY FS_Interval
<1>2. IsFiniteSet(Places(s, m, x))
  BY <1>1, FS_Subset DEF Places
<1>3. Cardinality(Places(s, m, x)) \in Nat
  BY <1>2, FS_CardinalityType
<1>4. 1..x + 1 = (1..x) \union {x + 1} /\ x + 1 \notin 1..x
  OBVIOUS
<1>5. Places(s, m, x) \subseteq Places(s, m, x + 1)
  BY <1>4 DEF Places
<1>6. ~Named(m, s[x + 1]) => Places(s, m, x + 1) = Places(s, m, x)
  BY <1>4 DEF Places
<1>7. ASSUME Named(m, s[x + 1])
      PROVE  Places(s, m, x + 1) = Places(s, m, x) \union {x + 1} /\ x + 1 \notin Places(s, m, x)
  BY <1>4, <1>7 DEF Places
<1>8. ASSUME Named(m, s[x + 1])
      PROVE  Cardinality(Places(s, m, x + 1)) = Cardinality(Places(s, m, x)) + 1
  BY <1>2, <1>7, <1>8, FS_AddElement
<1> QED BY <1>2, <1>3, <1>5, <1>6, <1>7, <1>8

LEMMA SelectionIs ==
  ASSUME NEW S, NEW s \in Seq(S), NEW m
  PROVE  /\ Selected(s, m) \in Seq(S)
         /\ SelectionOf(Selected(s, m), s, m, Len(s))
<1>1. PICK f : Selects(f, s, m, Len(s)) /\ Selected(s, m) = f[Len(s)]
  BY SelectedIs
<1>2. \A x \in 0..Len(s) : f[x] = IF x = 0 THEN <<>>
                                 ELSE IF Named(m, s[x]) THEN Append(f[x - 1], s[x])
                                 ELSE f[x - 1]
  BY <1>1 DEF Selects
<1> DEFINE Right(x) == f[x] \in Seq(S) /\ SelectionOf(f[x], s, m, x)
           Wrong    == {x \in 0..Len(s) : ~Right(x)}
<1>3. Right(0)
  <2>1. 0 \in 0..Len(s)
    OBVIOUS
  <2>2. f[0] = <<>>
    BY <1>2, <2>1
  <2>3. Places(s, m, 0) = {}
    BY DEF Places
  <2>4. Len(f[0]) = 0 /\ f[0] \in Seq(S)
    BY <2>2
  <2>5. Cardinality(Places(s, m, 0)) = 0
    BY <2>3, FS_EmptySet, Zenon
  <2> QED BY <2>4, <2>5 DEF SelectionOf
<1>4. ASSUME NEW x \in 0..Len(s), x + 1 \in 0..Len(s), Right(x) PROVE Right(x + 1)
  <2>1. f[x + 1] = IF Named(m, s[x + 1]) THEN Append(f[x], s[x + 1]) ELSE f[x]
    <3>1. x + 1 # 0 /\ (x + 1) - 1 = x
      BY <1>4
    <3> QED BY <1>2, <1>4, <3>1, Zenon
  <2>2. CASE ~Named(m, s[x + 1])
    <3>1. f[x + 1] = f[x] /\ Places(s, m, x + 1) = Places(s, m, x)
      BY <2>1, <2>2, PlacesNext
    <3> QED BY <1>4, <3>1, Zenon DEF SelectionOf
  <2>3. CASE Named(m, s[x + 1])
    <3> DEFINE c == Cardinality(Places(s, m, x))
    <3>1. /\ c \in Nat /\ Cardinality(Places(s, m, x + 1)) = c + 1
          /\ Places(s, m, x) \subseteq Places(s, m, x + 1) /\ x + 1 \in Places(s, m, x + 1)
      BY <2>3, PlacesNext
    <3>2. f[x] \in Seq(S) /\ Len(f[x]) = c
      BY <1>4 DEF SelectionOf
    <3>3. s[x + 1] \in S
      BY <1>4
    <3>4. /\ f[x + 1] \in Seq(S) /\ Len(f[x + 1]) = c + 1 /\ f[x + 1][c + 1] = s[x + 1]
          /\ \A k \in 1..c : f[x + 1][k] = f[x][k]
      BY <2>1, <2>3, <3>2, <3>3
    <3>5. ASSUME NEW k \in 1..c + 1
          PROVE  \E i \in Places(s, m, x + 1) :
                   f[x + 1][k] = s[i] /\ Cardinality(Places(s, m, i)) = k
      <4>1. CASE k = c + 1
        BY <3>1, <3>4, <4>1
      <4>2. CASE k \in 1..c
        <5>1. PICK i \in Places(s, m, x) : f[x][k] = s[i] /\ Cardinality(Places(s, m, i)) = k
          BY <1>4, <3>2, <4>2 DEF SelectionOf
        <5> QED BY <3>1, <3>4, <4>2, <5>1
      <4> QED BY <3>1, <4>1, <4>2
    <3> QED BY <3>1, <3>4, <3>5 DEF SelectionOf
  <2> QED BY <2>2, <2>3
<1>5. Wrong = {}
  <2> HIDE DEF Right
  <2> SUFFICES ASSUME Wrong # {} PROVE FALSE
    OBVIOUS
  <2>1. Wrong \subseteq Nat
    OBVIOUS
  <2>2. PICK x \in Wrong : \A i \in Wrong : x <= i
    BY <2>1, LeastNumber
  <2>3. x \in 1..Len(s)
    BY <1>3, <2>2
  <2>4. x - 1 \in 0..Len(s) /\ (x - 1) + 1 = x /\ Right(x - 1)
    BY <2>2, <2>3
  <2> QED BY <1>4, <2>3, <2>4
<1>6. Len(s) \in 0..Len(s)
  OBVIOUS
<1> QED BY <1>1, <1>5, <1>6

(* The first so many of a selection.                                       *)
CutRight(s, k, m, answer) ==
  LET wanted == {i \in DOMAIN s : Named(m, s[i])}
  IN  /\ Len(answer) = IF Cardinality(wanted) < k THEN Cardinality(wanted) ELSE k
      /\ \A x \in DOMAIN answer :
           \E i \in wanted : /\ answer[x] = s[i]
                             /\ Cardinality({j \in wanted : j <= i}) = x

LEMMA CutOfSelection ==
  ASSUME NEW S, NEW s \in Seq(S), NEW m, NEW k \in Nat \ {0}
  PROVE  CutRight(s, k, m, recent(s, k, m))
<1> DEFINE all    == Selected(s, m)
           c      == Cardinality(Places(s, m, Len(s)))
           short  == IF c < k THEN c ELSE k
           wanted == {i \in DOMAIN s : Named(m, s[i])}
           answer == recent(s, k, m)
<1>1. /\ all \in Seq(S) /\ Len(all) = c /\ c \in Nat
      /\ \A x \in 1..c : \E i \in Places(s, m, Len(s)) :
           all[x] = s[i] /\ Cardinality(Places(s, m, i)) = x
  BY SelectionIs DEF SelectionOf
<1>2. wanted = Places(s, m, Len(s))
  BY DEF Places
<1>3. ASSUME NEW i \in wanted PROVE {j \in wanted : j <= i} = Places(s, m, i)
  BY DEF Places
<1> HIDE DEF all, c
<1>4. /\ Len(answer) = short /\ DOMAIN answer = 1..short /\ short <= c /\ short \in Nat
      /\ \A x \in 1..short : answer[x] = all[x]
  BY <1>1 DEF recent, AtMost, all
<1> HIDE DEF answer, short
<1>5. ASSUME NEW x \in DOMAIN answer
      PROVE  \E i \in wanted : answer[x] = s[i] /\ Cardinality({j \in wanted : j <= i}) = x
  <2>1. x \in 1..c /\ answer[x] = all[x]
    BY <1>1, <1>4
  <2>2. PICK i \in Places(s, m, Len(s)) : all[x] = s[i] /\ Cardinality(Places(s, m, i)) = x
    BY <1>1, <2>1
  <2> QED BY <1>2, <1>3, <2>1, <2>2
<1> QED BY <1>2, <1>4, <1>5 DEF c, short, answer, CutRight

AnEvent     == [id : Nat, machine : Sources \union {NotAnObject}]
ACollector  == [connected : 0..Endpoints, online : SUBSET (1..Endpoints),
                events : Seq(AnEvent), heard : Seq(AnEvent)]
Waiting     == [at : {"idle", "get", "start", "read"}, new : Nat, limit : {0},
                machine : {AnyMachine}, answer : {<<>>}, due : {<<>>}]

(* An answer is cut from the newest MaxEvents of what the first collector  *)
(* that came up had heard.                                                 *)
FromTheOne(r) ==
  /\ r.due \in Seq(AnEvent) /\ r.limit \in Int
  /\ r.answer = recent(r.due, OneOrMore(r.limit), r.machine)

AnswersFromTheOne ==
  \A c \in Callers : call[c].at = "answered" => FromTheOne(call[c])

(* Whoever makes a collector has the lock. *)
OneMaker ==
  \A c \in Callers : call[c].at = "start" =>
    /\ holder = [nobody |-> FALSE, caller |-> c]
    /\ collector = 0 /\ call[c].new \in DOMAIN made

(* The only collector that is subscribed everywhere is the shared one, or  *)
(* is about to be.                                                         *)
OneComplete ==
  /\ \A i \in Complete : \/ collector = i
                         \/ \E c \in Callers : call[c].at = "start" /\ call[c].new = i
  /\ collector # 0 => collector \in Complete
  /\ \A c \in Callers : call[c].at = "read" => collector # 0

CollectorsInv ==
  /\ made \in Seq(ACollector) /\ collector \in Nat /\ arrivals \in Nat
  /\ call = [c \in Callers |-> call[c]]
  /\ \A c \in Callers : call[c] \in Waiting \/ call[c].at = "answered"
  /\ \A i \in DOMAIN made : made[i].events = AtMost(MaxEvents, made[i].heard)
  /\ OneMaker /\ OneComplete /\ AnswersFromTheOne
(* The deque of a collector is cut from all it ever heard, also after one  *)
(* more.                                                                   *)
LEMMA PushedLeft ==
  ASSUME NEW S, NEW h \in Seq(S), NEW e \in S, NEW k \in Nat \ {0}
  PROVE  /\ AtMost(k, h) \in Seq(S) /\ <<e>> \o h \in Seq(S)
         /\ AtMost(k, <<e>> \o AtMost(k, h)) = AtMost(k, <<e>> \o h)
<1> DEFINE short == IF Len(h) < k THEN Len(h) ELSE k
           long == IF Len(h) + 1 < k THEN Len(h) + 1 ELSE k
           cut == SubSeq(h, 1, short)
           longer == <<e>> \o h
           pushed == <<e>> \o cut
<1>1. short \in Nat /\ long \in Nat /\ short <= Len(h) /\ long <= short + 1 /\ Len(h) \in Nat
      /\ long = IF short + 1 < k THEN short + 1 ELSE k
  OBVIOUS
<1> HIDE DEF short, long
<1>2. cut \in Seq(S) /\ Len(cut) = short /\ \A i \in 1..short : cut[i] = h[i]
  BY <1>1
<1> HIDE DEF cut
<1>3. <<e>> \in Seq(S) /\ Len(<<e>>) = 1 /\ <<e>>[1] = e
  OBVIOUS
<1>4. /\ longer \in Seq(S) /\ Len(longer) = Len(h) + 1
      /\ longer[1] = e /\ \A i \in 2..Len(h) + 1 : longer[i] = h[i - 1]
  BY <1>1, <1>3
<1>5. /\ pushed \in Seq(S) /\ Len(pushed) = short + 1
      /\ pushed[1] = e /\ \A i \in 2..short + 1 : pushed[i] = cut[i - 1]
  BY <1>1, <1>2, <1>3
<1> HIDE DEF longer, pushed
<1>6. SubSeq(pushed, 1, long) = SubSeq(longer, 1, long)
  <2>1. /\ SubSeq(pushed, 1, long) \in Seq(S) /\ Len(SubSeq(pushed, 1, long)) = long
        /\ \A i \in 1..long : SubSeq(pushed, 1, long)[i] = pushed[i]
    BY <1>1, <1>5
  <2>2. /\ SubSeq(longer, 1, long) \in Seq(S) /\ Len(SubSeq(longer, 1, long)) = long
        /\ \A i \in 1..long : SubSeq(longer, 1, long)[i] = longer[i]
    BY <1>1, <1>4
  <2>3. ASSUME NEW i \in 1..long PROVE pushed[i] = longer[i]
    BY <1>1, <1>2, <1>4, <1>5
  <2> QED BY <2>1, <2>2, <2>3
<1>7. AtMost(k, h) = cut
  BY DEF AtMost, cut, short
<1>8. AtMost(k, longer) = SubSeq(longer, 1, long)
  BY <1>4 DEF AtMost, long
<1>9. AtMost(k, pushed) = SubSeq(pushed, 1, long)
  BY <1>1, <1>5 DEF AtMost
<1> QED BY <1>2, <1>4, <1>6, <1>7, <1>8, <1>9 DEF longer, pushed

LEMMA McpInitInv == McpInit => CollectorsInv
<1> SUFFICES ASSUME McpInit PROVE CollectorsInv
  OBVIOUS
<1>1. /\ made = <<>> /\ collector = 0 /\ arrivals = 0 /\ DOMAIN made = {}
      /\ call = [c \in Callers |-> NotCalled]
  BY DEF McpInit
<1>2. NotCalled \in Waiting /\ NotCalled.at = "idle"
  BY DEF NotCalled, Waiting
<1>3. made \in Seq(ACollector)
  BY <1>1
<1>4. call = [c \in Callers |-> call[c]] /\ \A c \in Callers : call[c] = NotCalled
  BY <1>1
<1>5. OneMaker /\ OneComplete /\ AnswersFromTheOne
  BY <1>1, <1>2, <1>4 DEF OneMaker, OneComplete, AnswersFromTheOne, Complete
<1> QED BY <1>1, <1>2, <1>3, <1>4, <1>5 DEF CollectorsInv

(* Steps of the callers that make no collector and connect none. *)
LEMMA CallStep ==
  ASSUME CollectorsInv, made' = made, arrivals' = arrivals, collector' \in Nat,
         NEW c \in Callers, NEW r, r \in Waiting \/ (r.at = "answered" /\ FromTheOne(r)),
         call' = [call EXCEPT ![c] = r],
         OneMaker', OneComplete'
  PROVE  CollectorsInv'
<1>1. /\ call' = [d \in Callers |-> call'[d]]
      /\ \A d \in Callers : call'[d] = IF d = c THEN r ELSE call[d]
  BY DEF CollectorsInv
<1>2. \A d \in Callers : call'[d] \in Waiting \/ call'[d].at = "answered"
  BY <1>1 DEF CollectorsInv
<1>3. AnswersFromTheOne'
  <2>1. ASSUME r \in Waiting PROVE r.at # "answered"
    BY <2>1 DEF Waiting
  <2> QED BY <1>1, <2>1 DEF CollectorsInv, AnswersFromTheOne
<1> QED BY <1>1, <1>2, <1>3 DEF CollectorsInv

(* Steps of the collectors: none is made, and none comes up. *)
LEMMA MadeStep ==
  ASSUME CollectorsInv, UNCHANGED <<collector, holder, call>>, arrivals' \in Nat,
         made' \in Seq(ACollector), DOMAIN made' = DOMAIN made,
         \A i \in DOMAIN made : made'[i].connected = made[i].connected,
         \A i \in DOMAIN made : made'[i].events = AtMost(MaxEvents, made'[i].heard)
  PROVE  CollectorsInv'
<1>1. Complete' = Complete
  BY DEF Complete
<1>2. OneMaker' /\ OneComplete'
  BY <1>1 DEF CollectorsInv, OneMaker, OneComplete
<1>3. AnswersFromTheOne'
  BY DEF CollectorsInv, AnswersFromTheOne
<1>4. (\A c \in Callers : call[c] \in Waiting \/ call[c].at = "answered")'
  BY DEF CollectorsInv
<1> QED BY <1>2, <1>3, <1>4 DEF CollectorsInv

LEMMA SubscriptionsInv ==
  ASSUME CollectorsInv, NEW i \in DOMAIN made, NEW b \in 1..Endpoints,
         OnConnect(i, b) \/ ConnectionLost(i, b)
  PROVE  CollectorsInv'
<1>1. PICK on \in SUBSET (1..Endpoints) : made' = [made EXCEPT ![i].online = on]
  <2>1. made[i] \in ACollector
    BY DEF CollectorsInv
  <2>2. made[i].online \in SUBSET (1..Endpoints)
    BY <2>1 DEF ACollector
  <2> QED BY <2>2 DEF OnConnect, ConnectionLost
<1>2. UNCHANGED <<collector, holder, call, arrivals>>
  BY DEF OnConnect, ConnectionLost
<1>3. made \in Seq(ACollector) /\ \A j \in DOMAIN made : made[j] \in ACollector
  BY DEF CollectorsInv
<1> DEFINE r == [made[i] EXCEPT !.online = on]
<1>4. /\ r \in ACollector /\ r.connected = made[i].connected
      /\ r.events = made[i].events /\ r.heard = made[i].heard
  BY <1>3 DEF ACollector
<1>5. made' = [made EXCEPT ![i] = r]
  BY <1>1
<1> HIDE DEF r
<1>6. /\ made' \in Seq(ACollector) /\ DOMAIN made' = DOMAIN made
      /\ made'[i] = r /\ \A j \in DOMAIN made : j # i => made'[j] = made[j]
  BY <1>3, <1>4, <1>5
<1>7. \A j \in DOMAIN made : made[j].events = AtMost(MaxEvents, made[j].heard)
  BY DEF CollectorsInv
<1>8. \A j \in DOMAIN made : /\ made'[j].connected = made[j].connected
                             /\ made'[j].events = AtMost(MaxEvents, made'[j].heard)
  BY <1>4, <1>6, <1>7
<1>9. arrivals' \in Nat
  BY <1>2 DEF CollectorsInv
<1> QED BY <1>2, <1>6, <1>8, <1>9, MadeStep

LEMMA OnMessageInv ==
  ASSUME CollectorsInv, NEW m \in Sources \union {NotAnObject}, OnMessage(m)
  PROVE  CollectorsInv'
<1> DEFINE e == [id |-> arrivals + 1, machine |-> m]
           r(i) == [made[i] EXCEPT !.events = PushLeft(@, e), !.heard = <<e>> \o @]
<1>1. /\ arrivals' = arrivals + 1 /\ UNCHANGED <<collector, holder, call>>
      /\ made' = [i \in DOMAIN made |-> IF Endpoints \notin made[i].online THEN made[i] ELSE r(i)]
  BY Zenon DEF OnMessage
<1>2. arrivals \in Nat /\ e \in AnEvent /\ MaxEvents \in Nat \ {0}
  BY CollectorAssumption DEF CollectorsInv, AnEvent
<1>3. made \in Seq(ACollector) /\ \A i \in DOMAIN made : made[i] \in ACollector
  BY DEF CollectorsInv
<1> HIDE DEF e
<1>4. ASSUME NEW i \in DOMAIN made
      PROVE  /\ r(i) \in ACollector /\ r(i).connected = made[i].connected
             /\ r(i).events = AtMost(MaxEvents, r(i).heard)
  <2> DEFINE h == made[i].heard
  <2>1. /\ made[i] \in ACollector /\ h \in Seq(AnEvent)
        /\ made[i].events = AtMost(MaxEvents, h)
    BY <1>3 DEF CollectorsInv, ACollector
  <2>2. /\ <<e>> \o h \in Seq(AnEvent) /\ AtMost(MaxEvents, <<e>> \o h) \in Seq(AnEvent)
        /\ PushLeft(made[i].events, e) = AtMost(MaxEvents, <<e>> \o h)
    <3>1. /\ <<e>> \o h \in Seq(AnEvent)
          /\ AtMost(MaxEvents, <<e>> \o AtMost(MaxEvents, h)) = AtMost(MaxEvents, <<e>> \o h)
      BY <1>2, <2>1, PushedLeft
    <3>2. AtMost(MaxEvents, <<e>> \o h) \in Seq(AnEvent)
      BY <1>2, <3>1, PushedLeft
    <3> QED BY <2>1, <3>1, <3>2 DEF PushLeft
  <2> DEFINE h2 == <<e>> \o h
             ev2 == PushLeft(made[i].events, e)
  <2>3. r(i) = [made[i] EXCEPT !.events = ev2, !.heard = h2]
    OBVIOUS
  <2>4. h2 \in Seq(AnEvent) /\ ev2 \in Seq(AnEvent) /\ ev2 = AtMost(MaxEvents, h2)
    BY <2>2
  <2> HIDE DEF h2, ev2, r
  <2> QED BY <2>1, <2>3, <2>4 DEF ACollector
<1> HIDE DEF r
<1>5. DOMAIN made = 1..Len(made) /\ Len(made) \in Nat
  BY <1>3
<1>6. DOMAIN made' = DOMAIN made /\ \A i \in DOMAIN made : made'[i] \in {made[i], r(i)}
  BY <1>1
<1>7. made' \in Seq(ACollector)
  <2>1. made' \in [1..Len(made) -> ACollector]
    BY <1>1, <1>3, <1>4, <1>5
  <2> QED BY <1>5, <2>1
<1>8. \A i \in DOMAIN made : /\ made'[i].connected = made[i].connected
                             /\ made'[i].events = AtMost(MaxEvents, made'[i].heard)
  <2>1. \A i \in DOMAIN made : made[i].events = AtMost(MaxEvents, made[i].heard)
    BY DEF CollectorsInv
  <2> QED BY <1>4, <1>6, <2>1
<1> QED BY <1>1, <1>2, <1>6, <1>7, <1>8, MadeStep

LEMMA CallInv == ASSUME CollectorsInv, NEW c \in Callers, Call(c) PROVE CollectorsInv'
<1> DEFINE r == [NotCalled EXCEPT !.at = "get"]
<1>1. /\ call' = [call EXCEPT ![c] = r] /\ UNCHANGED <<made, collector, holder, arrivals>>
      /\ call[c].at # "start"
  BY DEF Call
<1>2. r \in Waiting /\ r.at = "get" /\ r.at # "start"
  BY DEF NotCalled, Waiting
<1> HIDE DEF r
<1>3. \A d \in Callers : call'[d] = IF d = c THEN r ELSE call[d]
  BY <1>1 DEF CollectorsInv
<1>4. Complete' = Complete
  BY <1>1 DEF Complete
<1>5. OneMaker' /\ OneComplete'
  BY <1>1, <1>2, <1>3, <1>4 DEF CollectorsInv, OneMaker, OneComplete
<1>6. collector' \in Nat
  BY <1>1 DEF CollectorsInv
<1> QED BY <1>1, <1>2, <1>5, <1>6, CallStep

LEMMA GetExistingInv ==
  ASSUME CollectorsInv, NEW c \in Callers, GetExisting(c) PROVE CollectorsInv'
<1> DEFINE r == [call[c] EXCEPT !.at = "read"]
<1>1. /\ call' = [call EXCEPT ![c] = r] /\ UNCHANGED <<made, collector, holder, arrivals>>
      /\ call[c].at = "get" /\ collector # 0
  BY DEF GetExisting
<1>2. call[c] \in Waiting
  BY <1>1 DEF CollectorsInv
<1>3. r \in Waiting /\ r.at = "read" /\ r.at # "start"
  BY <1>2 DEF Waiting
<1> HIDE DEF r
<1>4. \A d \in Callers : call'[d] = IF d = c THEN r ELSE call[d]
  BY <1>1 DEF CollectorsInv
<1>5. Complete' = Complete
  BY <1>1 DEF Complete
<1>6. OneMaker' /\ OneComplete'
  BY <1>1, <1>3, <1>4, <1>5 DEF CollectorsInv, OneMaker, OneComplete
<1>7. collector' \in Nat
  BY <1>1 DEF CollectorsInv
<1> QED BY <1>1, <1>3, <1>6, <1>7, CallStep

(* Nobody else is making one while the lock is free, or held by c. *)
LEMMA OnlyMaker ==
  ASSUME CollectorsInv, NEW c \in Callers, NEW d \in Callers,
         call[c].at = "start", call[d].at = "start"
  PROVE  c = d
<1>1. [nobody |-> FALSE, caller |-> c] = [nobody |-> FALSE, caller |-> d]
  BY DEF CollectorsInv, OneMaker
<1> DEFINE p == [nobody |-> FALSE, caller |-> c]
           q == [nobody |-> FALSE, caller |-> d]
<1>2. p.caller = c /\ q.caller = d
  BY Zenon
<1> HIDE DEF p, q
<1> QED BY <1>1, <1>2 DEF p, q

LEMMA LockFree ==
  ASSUME CollectorsInv, holder = NobodyHolds, NEW c \in Callers
  PROVE  call[c].at # "start"
<1> SUFFICES ASSUME call[c].at = "start" PROVE FALSE
  OBVIOUS
<1>1. [nobody |-> FALSE, caller |-> c] = [nobody |-> TRUE]
  BY DEF CollectorsInv, OneMaker, NobodyHolds
<1> DEFINE p == [nobody |-> FALSE, caller |-> c]
           q == [nobody |-> TRUE]
<1>2. p.nobody = FALSE /\ q.nobody = TRUE
  BY Zenon
<1> HIDE DEF p, q
<1>3. p = q
  BY <1>1 DEF p, q
<1> QED BY <1>2, <1>3, Zenon

LEMMA AssignInv ==
  ASSUME CollectorsInv, NEW c \in Callers, Assign(c) PROVE CollectorsInv'
<1> DEFINE r == [call[c] EXCEPT !.at = "read"]
<1>1. /\ call' = [call EXCEPT ![c] = r] /\ UNCHANGED <<made, arrivals>>
      /\ call[c].at = "start" /\ made[call[c].new].connected = Endpoints
      /\ collector' = call[c].new /\ holder' = NobodyHolds
  BY DEF Assign
<1>2. call[c] \in Waiting /\ call[c].new \in Nat
  BY <1>1 DEF CollectorsInv, Waiting
<1>3. r \in Waiting /\ r.at = "read" /\ r.at # "start"
  BY <1>2 DEF Waiting
<1> HIDE DEF r
<1>4. \A d \in Callers : call'[d] = IF d = c THEN r ELSE call[d]
  BY <1>1 DEF CollectorsInv
<1>5. \A d \in Callers : call'[d].at # "start"
  BY <1>1, <1>3, <1>4, OnlyMaker
<1>6. Complete' = Complete /\ call[c].new \in Complete /\ call[c].new # 0 /\ collector = 0
  <2>1. call[c].new \in DOMAIN made /\ collector = 0
    BY <1>1 DEF CollectorsInv, OneMaker
  <2>2. DOMAIN made = 1..Len(made) /\ Len(made) \in Nat
    BY DEF CollectorsInv
  <2> QED BY <1>1, <2>1, <2>2 DEF Complete
<1>7. \A i \in Complete : collector' = i
  <2>1. ASSUME NEW i \in Complete PROVE i = call[c].new
    <3>1. i # 0
      BY DEF CollectorsInv, Complete
    <3>2. PICK d \in Callers : call[d].at = "start" /\ call[d].new = i
      BY <1>6, <3>1 DEF CollectorsInv, OneComplete
    <3> QED BY <1>1, <3>2, OnlyMaker
  <2> QED BY <1>1, <2>1
<1>8. OneMaker' /\ OneComplete'
  BY <1>1, <1>5, <1>6, <1>7 DEF OneMaker, OneComplete
<1>9. collector' \in Nat
  BY <1>1, <1>2
<1> QED BY <1>1, <1>3, <1>8, <1>9, CallStep

LEMMA StartFailsInv ==
  ASSUME CollectorsInv, NEW c \in Callers, StartFails(c) PROVE CollectorsInv'
<1>1. /\ call' = [call EXCEPT ![c] = NotCalled] /\ UNCHANGED <<made, collector, arrivals>>
      /\ call[c].at = "start" /\ made[call[c].new].connected < Endpoints
  BY DEF StartFails
<1>2. NotCalled \in Waiting /\ NotCalled.at = "idle" /\ NotCalled.at # "start"
  BY DEF NotCalled, Waiting
<1>3. \A d \in Callers : call'[d] = IF d = c THEN NotCalled ELSE call[d]
  BY <1>1 DEF CollectorsInv
<1>4. \A d \in Callers : call'[d].at # "start"
  BY <1>1, <1>2, <1>3, OnlyMaker
<1>5. Complete' = Complete /\ call[c].new \notin Complete
  BY <1>1, CollectorAssumption DEF Complete
<1>6. \A i \in Complete : collector = i
  BY <1>1, <1>5, OnlyMaker DEF CollectorsInv, OneComplete
<1>7. OneMaker' /\ OneComplete'
  BY <1>1, <1>2, <1>3, <1>4, <1>5, <1>6 DEF CollectorsInv, OneMaker, OneComplete
<1>8. collector' \in Nat
  BY <1>1 DEF CollectorsInv
<1> QED BY <1>1, <1>2, <1>7, <1>8, CallStep

LEMMA ReadRaisesInv ==
  ASSUME CollectorsInv, NEW c \in Callers, NEW m, ReadRaises(c, m) PROVE CollectorsInv'
<1>1. /\ call' = [call EXCEPT ![c] = NotCalled] /\ UNCHANGED <<made, collector, holder, arrivals>>
      /\ call[c].at = "read"
  BY DEF ReadRaises
<1>2. NotCalled \in Waiting /\ NotCalled.at = "idle" /\ NotCalled.at # "start"
  BY DEF NotCalled, Waiting
<1>3. \A d \in Callers : call'[d] = IF d = c THEN NotCalled ELSE call[d]
  BY <1>1 DEF CollectorsInv
<1>4. Complete' = Complete
  BY <1>1 DEF Complete
<1>5. OneMaker' /\ OneComplete'
  BY <1>1, <1>2, <1>3, <1>4 DEF CollectorsInv, OneMaker, OneComplete
<1>6. collector' \in Nat
  BY <1>1 DEF CollectorsInv
<1> QED BY <1>1, <1>2, <1>5, <1>6, CallStep

(* The shared collector is the first one, and the only one, that came up:  *)
(* its deque is the newest of what it heard.                               *)
LEMMA ReadInv ==
  ASSUME CollectorsInv, NEW c \in Callers, NEW limit \in Limits, NEW m, Read(c, limit, m)
  PROVE  CollectorsInv'
<1> DEFINE r == [at |-> "answered", new |-> 0, limit |-> limit, machine |-> m,
                 answer |-> recent(made[collector].events, OneOrMore(limit), m),
                 due    |-> AtMost(MaxEvents, Heard)]
<1>1. /\ call' = [call EXCEPT ![c] = r] /\ UNCHANGED <<made, collector, holder, arrivals>>
      /\ call[c].at = "read"
  BY Zenon DEF Read
<1>2. /\ r.at = "answered" /\ r.at # "start" /\ r.limit = limit /\ r.machine = m
      /\ r.answer = recent(made[collector].events, OneOrMore(limit), m)
      /\ r.due = AtMost(MaxEvents, Heard)
  BY Zenon
<1> HIDE DEF r
<1>3. /\ collector \in Complete /\ collector # 0
      /\ made[collector].events = AtMost(MaxEvents, made[collector].heard)
  BY <1>1 DEF CollectorsInv, OneComplete, Complete
<1>4. Heard = made[collector].heard
  <2>1. \A i \in Complete : i = collector
    BY <1>3 DEF CollectorsInv, OneMaker, OneComplete
  <2>2. \A j \in Complete : collector <= j
    <3>1. collector \in Nat
      BY DEF CollectorsInv
    <3> QED BY <2>1, <3>1
  <2> QED BY <1>3, <2>1, <2>2 DEF Heard
<1>5. FromTheOne(r)
  <2>1. made[collector].heard \in Seq(AnEvent)
    <3>1. made \in Seq(ACollector) /\ collector \in DOMAIN made
      BY <1>3 DEF CollectorsInv, Complete
    <3>2. made[collector] \in ACollector
      BY <3>1
    <3> QED BY <3>2, Zenon DEF ACollector
  <2>2. limit \in Int
    BY CollectorAssumption
  <2>3. AtMost(MaxEvents, made[collector].heard) \in Seq(AnEvent)
    BY <2>1, CollectorAssumption DEF AtMost
  <2> QED BY <1>2, <1>3, <1>4, <2>2, <2>3, Zenon DEF FromTheOne
<1>6. \A d \in Callers : call'[d] = IF d = c THEN r ELSE call[d]
  BY <1>1 DEF CollectorsInv
<1>7. Complete' = Complete
  BY <1>1 DEF Complete
<1>8. OneMaker' /\ OneComplete'
  BY <1>1, <1>2, <1>6, <1>7 DEF CollectorsInv, OneMaker, OneComplete
<1>9. collector' \in Nat
  BY <1>1 DEF CollectorsInv
<1> QED BY <1>1, <1>2, <1>5, <1>8, <1>9, CallStep

LEMMA GetInv == ASSUME CollectorsInv, NEW c \in Callers, Get(c) PROVE CollectorsInv'
<1> DEFINE r == [call[c] EXCEPT !.at = "start", !.new = Len(made) + 1]
<1>1. /\ call' = [call EXCEPT ![c] = r] /\ collector' = collector /\ arrivals' = arrivals
      /\ call[c].at = "get" /\ holder = NobodyHolds /\ collector = 0
      /\ holder' = [nobody |-> FALSE, caller |-> c] /\ made' = Append(made, NewCollector)
  BY DEF Get
<1>2. /\ made \in Seq(ACollector) /\ call[c] \in Waiting
      /\ DOMAIN made = 1..Len(made) /\ Len(made) \in Nat
  BY <1>1 DEF CollectorsInv
<1>3. r \in Waiting /\ r.at = "start" /\ r.new = Len(made) + 1
  <2> DEFINE next == Len(made) + 1
  <2>1. next \in Nat
    BY <1>2
  <2> HIDE DEF next
  <2>2. [call[c] EXCEPT !.at = "start", !.new = next] \in Waiting
    BY <1>2, <2>1 DEF Waiting
  <2>3. /\ [call[c] EXCEPT !.at = "start", !.new = next].at = "start"
        /\ [call[c] EXCEPT !.at = "start", !.new = next].new = next
    BY <1>2 DEF Waiting
  <2> QED BY <2>2, <2>3 DEF next
<1> HIDE DEF r
<1>4. \A d \in Callers : call'[d] = IF d = c THEN r ELSE call[d]
  BY <1>1 DEF CollectorsInv
<1>5. /\ NewCollector \in ACollector /\ NewCollector.connected = 0
      /\ NewCollector.events = AtMost(MaxEvents, NewCollector.heard)
  <2>1. NewCollector \in ACollector /\ NewCollector.connected = 0
    BY CollectorAssumption DEF NewCollector, ACollector
  <2>2. AtMost(MaxEvents, <<>>) = <<>>
    BY CollectorAssumption DEF AtMost
  <2> QED BY <2>1, <2>2 DEF NewCollector
<1>6. /\ made' \in Seq(ACollector) /\ DOMAIN made' = 1..Len(made) + 1
      /\ made'[Len(made) + 1] = NewCollector /\ \A i \in DOMAIN made : made'[i] = made[i]
  <2> HIDE DEF NewCollector
  <2> QED BY <1>1, <1>2, <1>5
<1>7. Complete' = Complete
  BY <1>2, <1>5, <1>6, CollectorAssumption DEF Complete
<1>8. \A d \in Callers : d # c => call'[d].at # "start"
  BY <1>1, <1>4, LockFree
<1>9. OneMaker'
  <2>1. call'[c].new \in DOMAIN made'
    BY <1>2, <1>3, <1>4, <1>6
  <2>2. ASSUME NEW d \in Callers, call'[d].at = "start" PROVE d = c
    BY <1>8, <2>2
  <2> QED BY <1>1, <2>1, <2>2 DEF OneMaker
<1>10. OneComplete'
  <2>1. Complete = {}
    <3>1. \A i \in Complete : i # 0
      BY <1>2 DEF Complete
    <3> QED BY <1>1, <3>1, LockFree DEF CollectorsInv, OneComplete
  <2> QED BY <1>1, <1>3, <1>4, <1>7, <2>1 DEF CollectorsInv, OneComplete
<1>11. \A i \in DOMAIN made' : made'[i].events = AtMost(MaxEvents, made'[i].heard)
  BY <1>2, <1>5, <1>6 DEF CollectorsInv
<1>12. AnswersFromTheOne'
  BY <1>3, <1>4 DEF CollectorsInv, AnswersFromTheOne
<1>13. /\ call' = [d \in Callers |-> call'[d]]
       /\ \A d \in Callers : call'[d] \in Waiting \/ call'[d].at = "answered"
  BY <1>1, <1>3, <1>4 DEF CollectorsInv
<1> QED BY <1>1, <1>6, <1>9, <1>10, <1>11, <1>12, <1>13 DEF CollectorsInv

LEMMA StartNextInv == ASSUME CollectorsInv, NEW c \in Callers, StartNext(c) PROVE CollectorsInv'
<1> DEFINE k == call[c].new
           r == [made[k] EXCEPT !.connected = @ + 1]
<1>1. /\ made' = [made EXCEPT ![k] = r] /\ UNCHANGED <<collector, holder, call, arrivals>>
      /\ call[c].at = "start" /\ made[k].connected < Endpoints
  BY DEF StartNext
<1>2. made \in Seq(ACollector) /\ k \in DOMAIN made /\ collector = 0 /\ made[k] \in ACollector
  BY <1>1 DEF CollectorsInv, OneMaker
<1>3. /\ r \in ACollector /\ r.events = made[k].events /\ r.heard = made[k].heard
  <2>1. made[k].connected + 1 \in 0..Endpoints
    <3>1. made[k].connected \in 0..Endpoints
      BY <1>2 DEF ACollector
    <3>2. made[k].connected < Endpoints
      BY <1>1
    <3> HIDE DEF k
    <3> QED BY <3>1, <3>2, CollectorAssumption
  <2> HIDE DEF k
  <2> QED BY <1>2, <2>1 DEF ACollector
<1> HIDE DEF r
<1>4. /\ made' \in Seq(ACollector) /\ DOMAIN made' = DOMAIN made
      /\ \A i \in DOMAIN made : made'[i] = IF i = k THEN r ELSE made[i]
  BY <1>1, <1>2, <1>3
<1>5. \A i \in DOMAIN made' : made'[i].events = AtMost(MaxEvents, made'[i].heard)
  BY <1>3, <1>4 DEF CollectorsInv
<1>6. OneMaker'
  BY <1>1, <1>4 DEF CollectorsInv, OneMaker
<1>7. OneComplete'
  <2>1. Complete' \subseteq Complete \union {k}
    BY <1>2, <1>4 DEF Complete
  <2>2. \A d \in Callers : call'[d].at = "read" => collector' # 0
    BY <1>1 DEF CollectorsInv, OneComplete
  <2> QED BY <1>1, <1>2, <2>1, <2>2 DEF CollectorsInv, OneComplete
<1>8. AnswersFromTheOne'
  BY <1>1 DEF CollectorsInv, AnswersFromTheOne
<1>9. (\A d \in Callers : call[d] \in Waiting \/ call[d].at = "answered")'
  BY <1>1 DEF CollectorsInv
<1> QED BY <1>1, <1>4, <1>5, <1>6, <1>7, <1>8, <1>9 DEF CollectorsInv

LEMMA McpNextInv == ASSUME CollectorsInv, [McpNext]_mcpVars PROVE CollectorsInv'
<1>1. CASE UNCHANGED mcpVars
  <2>1. UNCHANGED <<made, collector, holder, call, arrivals>>
    BY <1>1 DEF mcpVars
  <2> QED BY <2>1, MadeStep DEF CollectorsInv
<1>2. CASE McpNext
  BY <1>2, OnMessageInv, SubscriptionsInv, CallInv, GetInv, GetExistingInv, StartNextInv,
     StartFailsInv, AssignInv, ReadInv, ReadRaisesInv DEF McpNext
<1> QED BY <1>1, <1>2

(* However many tool calls or sessions start at once and however many      *)
(* attempts fail halfway, _get_collector() (mcp_server/server.py:104-113)  *)
(* hands all callers the first collector that came up, and each answer is  *)
(* what recent() cuts from the newest MaxEvents events that one heard.     *)
THEOREM OneCollectorAnswers == McpSpec => []AnswersFromTheOne
<1>1. CollectorsInv /\ [McpNext]_mcpVars => CollectorsInv'
  BY McpNextInv
<1>2. CollectorsInv => AnswersFromTheOne
  BY DEF CollectorsInv
<1> QED BY <1>1, <1>2, McpInitInv, PTL DEF McpSpec

(* Every answer is the newest of the asked machine's events, all of them   *)
(* and in order up to the limit, among the last MaxEvents that arrived     *)
(* since the first collector came up (mcp_server/server.py:92-97, 176-184).*)
THEOREM AnswersAreOfOneList == McpSpec => []AnswersFromOneList
<1>1. AnswersFromTheOne => AnswersFromOneList
  <2> SUFFICES ASSUME AnswersFromTheOne, NEW c \in Callers, call[c].at = "answered"
               PROVE  CutRight(call[c].due, OneOrMore(call[c].limit), call[c].machine, call[c].answer)
    BY Zenon DEF AnswersFromOneList, CutRight
  <2>1. /\ call[c].due \in Seq(AnEvent) /\ call[c].limit \in Int
        /\ call[c].answer = recent(call[c].due, OneOrMore(call[c].limit), call[c].machine)
    BY DEF AnswersFromTheOne, FromTheOne
  <2>2. OneOrMore(call[c].limit) \in Nat \ {0}
    BY <2>1 DEF OneOrMore
  <2> QED BY <2>1, <2>2, CutOfSelection, Zenon
<1> QED BY <1>1, OneCollectorAnswers, PTL

-----------------------------------------------------------------------------
(* Fault episodes (Simulator, Demo) *)

Labels  == FaultTypes \union {NoFault}
Episode == [first : Nat, label : Labels, length : Nat]

(* DueLabel, of a history es: what episode e says of the k-th reading, if  *)
(* it is the latest that has started by then.                              *)
Started(es, k) == {i \in DOMAIN es : es[i].first <= k}
Latest(S)      == CHOOSE i \in S : \A j \in S : j <= i
Within(e, k)   == IF k < e.first + e.length THEN e.label ELSE NoFault
Due(es, k)     == IF Started(es, k) = {} THEN NoFault ELSE Within(es[Latest(Started(es, k))], k)

(* A machine whose fault and ticks left fit its stream and its history: the*)
(* next reading will carry the label that is due, and all of them did.     *)
Consistent(label, ticks, readings, es) ==
  LET next == Len(readings) + 1 IN
  /\ \A i \in DOMAIN es : es[i].first <= next
  /\ es = <<>> => label = NoFault
  /\ es # <<>> => /\ label = Within(es[Len(es)], next)
                  /\ label # NoFault => ticks = es[Len(es)].first + es[Len(es)].length - next
  /\ \A k \in DOMAIN readings : readings[k] = Due(es, k)

SimTypeOK ==
  /\ fault \in [Fleet -> Labels] /\ left \in [Fleet -> Int]
  /\ stream \in [Fleet -> Seq(Labels)] /\ episodes \in [Fleet -> Seq(Episode)]

SimInv ==
  SimTypeOK /\ \A m \in Fleet : Consistent(fault[m], left[m], stream[m], episodes[m])

LEMMA GreatestNumber ==
  ASSUME NEW b \in Nat, NEW T, T \subseteq 1..b, T # {}
  PROVE  \E x \in T : \A y \in T : y <= x
<1>1. \A x \in T : x \in Int /\ 1 <= x /\ x <= b
  OBVIOUS
<1> DEFINE D == {b - x : x \in T}
<1>2. D \subseteq Nat /\ D # {}
  <2>1. \A x \in T : b - x \in Nat
    BY <1>1
  <2>2. PICK x \in T : b - x \in D
    OBVIOUS
  <2> QED BY <2>1, <2>2
<1>3. PICK d \in D : \A y \in D : d <= y
  <2> HIDE DEF D
  <2> QED BY <1>2, LeastNumber
<1>4. PICK x \in T : d = b - x
  OBVIOUS
<1>5. ASSUME NEW y \in T PROVE y <= x
  <2>1. b - y \in D
    OBVIOUS
  <2>2. b - x <= b - y
    BY <1>3, <1>4, <2>1
  <2> QED BY <1>1, <2>2
<1> QED BY <1>5

LEMMA DueIsDueLabel == \A m, k : DueLabel(m, k) = Due(episodes[m], k)
BY DEF DueLabel, Due, Started, Latest, Within

(* When all episodes have started, the last one says which label is due... *)
LEMMA DueOfLast ==
  ASSUME NEW es \in Seq(Episode), es # <<>>, NEW k \in Int,
         \A i \in DOMAIN es : es[i].first <= k
  PROVE  Due(es, k) = Within(es[Len(es)], k)
<1>1. DOMAIN es = 1..Len(es) /\ Len(es) \in Nat /\ Len(es) \in DOMAIN es
  OBVIOUS
<1>2. Started(es, k) = DOMAIN es /\ Started(es, k) # {}
  BY <1>1 DEF Started
<1>3. Latest(DOMAIN es) = Len(es)
  <2>1. \A j \in DOMAIN es : j <= Len(es)
    BY <1>1
  <2>2. ASSUME NEW i \in DOMAIN es, \A j \in DOMAIN es : j <= i PROVE i = Len(es)
    BY <1>1, <2>1, <2>2
  <2> QED BY <1>1, <2>1, <2>2 DEF Latest
<1> QED BY <1>2, <1>3, Zenon DEF Due

(* ... and one that starts later says nothing about the readings before it. *)
LEMMA DueBefore ==
  ASSUME NEW es \in Seq(Episode), NEW e \in Episode, NEW k \in Int, k < e.first
  PROVE  Due(Append(es, e), k) = Due(es, k)
<1> DEFINE new == Append(es, e)
           started == Started(es, k)
<1>1. /\ DOMAIN es = 1..Len(es) /\ Len(es) \in Nat
      /\ DOMAIN new = 1..Len(es) + 1
      /\ new[Len(es) + 1] = e /\ \A i \in 1..Len(es) : new[i] = es[i]
  OBVIOUS
<1>2. ~(new[Len(es) + 1].first <= k)
  BY <1>1 DEF Episode
<1>3. Started(new, k) = started
  <2> HIDE DEF new
  <2> QED BY <1>1, <1>2 DEF Started
<1>4. ASSUME started = {} PROVE Due(new, k) = Due(es, k)
  <2> HIDE DEF new
  <2> QED BY <1>3, <1>4, Zenon DEF Due
<1>5. ASSUME started # {} PROVE Due(new, k) = Due(es, k)
  <2>1. Latest(started) \in started
    <3>1. started \subseteq 1..Len(es)
      BY <1>1 DEF Started
    <3>2. \E x \in started : \A y \in started : y <= x
      <4> HIDE DEF started
      <4> QED BY <1>1, <1>5, <3>1, GreatestNumber
    <3> HIDE DEF started
    <3> QED BY <3>2 DEF Latest
  <2>2. new[Latest(started)] = es[Latest(started)]
    <3>1. Latest(started) \in 1..Len(es)
      BY <1>1, <2>1 DEF Started
    <3> HIDE DEF new, started
    <3> QED BY <1>1, <3>1
  <2> HIDE DEF new
  <2> QED BY <1>3, <1>5, <2>2, Zenon DEF Due
<1> QED BY <1>4, <1>5

(* A reading is published and uses up a tick. *)
LEMMA Counted ==
  ASSUME NEW label \in Labels, NEW ticks \in Int, NEW readings \in Seq(Labels),
         NEW es \in Seq(Episode), Consistent(label, ticks, readings, es)
  PROVE  Consistent(IF ticks <= 1 THEN NoFault ELSE label,
                    IF label = NoFault THEN ticks ELSE ticks - 1, Append(readings, label), es)
<1> DEFINE next == Len(readings) + 1
           after == Append(readings, label)
<1>1. /\ next \in Nat /\ Len(after) = next /\ DOMAIN after = 1..next
      /\ DOMAIN readings = 1..next - 1
      /\ after[next] = label /\ \A k \in 1..next - 1 : after[k] = readings[k]
  OBVIOUS
<1>2. \A i \in DOMAIN es : es[i].first \in Nat /\ es[i].length \in Nat /\ es[i].first <= next
  <2>1. \A i \in DOMAIN es : es[i] \in Episode
    OBVIOUS
  <2> QED BY <2>1 DEF Consistent, Episode
<1>3. es # <<>> => Len(es) \in DOMAIN es
  OBVIOUS
<1>4. label = Due(es, next)
  <2>1. CASE es = <<>>
    <3>1. DOMAIN es = {}
      BY <2>1
    <3> QED BY <2>1, <3>1 DEF Consistent, Due, Started
  <2>2. CASE es # <<>>
    BY <1>1, <1>2, <2>2, DueOfLast DEF Consistent
  <2> QED BY <2>1, <2>2
<1> HIDE DEF after
<1>5. \A k \in DOMAIN after : after[k] = Due(es, k)
  BY <1>1, <1>4 DEF Consistent
<1>6. \A i \in DOMAIN es : es[i].first <= Len(after) + 1
  BY <1>1, <1>2
<1> DEFINE label2 == IF ticks <= 1 THEN NoFault ELSE label
           ticks2 == IF label = NoFault THEN ticks ELSE ticks - 1
<1>7. ASSUME es # <<>>
      PROVE  /\ label2 = Within(es[Len(es)], next + 1)
             /\ label2 # NoFault => ticks2 = es[Len(es)].first + es[Len(es)].length - (next + 1)
  <2>1. PICK e \in Episode : e = es[Len(es)]
    BY <1>7
  <2>2. label = Within(e, next) /\ (label # NoFault => ticks = e.first + e.length - next)
    BY <1>7, <2>1 DEF Consistent
  <2>3. e.first \in Nat /\ e.length \in Nat
    BY DEF Episode
  <2>4. /\ label2 = Within(e, next + 1)
        /\ label2 # NoFault => ticks2 = e.first + e.length - (next + 1)
    <3> HIDE DEF next
    <3>1. CASE label = NoFault
      BY <1>1, <2>2, <2>3, <3>1 DEF Within
    <3>2. CASE label # NoFault
      BY <1>1, <2>2, <2>3, <3>2 DEF Within
    <3> QED BY <3>1, <3>2
  <2> QED BY <2>1, <2>4
<1>8. es = <<>> => label2 = NoFault
  BY DEF Consistent
<1> QED BY <1>1, <1>5, <1>6, <1>7, <1>8 DEF Consistent, after

(* An episode begins, or a command clears the machine. *)
LEMMA Recorded ==
  ASSUME NEW label \in Labels, NEW ticks \in Int, NEW readings \in Seq(Labels),
         NEW es \in Seq(Episode), Consistent(label, ticks, readings, es),
         NEW e \in Episode, e.first = Len(readings) + 1, e.length = 0 => e.label = NoFault
  PROVE  Consistent(e.label, e.length, readings, Append(es, e))
<1> DEFINE new == Append(es, e)
           next == Len(readings) + 1
<1>1. /\ Len(new) = Len(es) + 1 /\ new # <<>> /\ DOMAIN new = 1..Len(new) /\ Len(es) \in Nat
      /\ new[Len(new)] = e /\ \A i \in 1..Len(es) : new[i] = es[i]
  OBVIOUS
<1>2. next \in Nat /\ e.length \in Nat /\ e.first = next
  BY DEF Episode
<1>3. \A i \in DOMAIN new : new[i].first <= next
  <2> HIDE DEF new
  <2> QED BY <1>1, <1>2 DEF Consistent
<1>4. e.label = Within(e, next)
  BY <1>2 DEF Within
<1>5. \A k \in DOMAIN readings : readings[k] = Due(new, k)
  <2>1. \A k \in DOMAIN readings : k \in Int /\ k < e.first
    BY <1>2
  <2> QED BY <2>1, DueBefore DEF Consistent
<1>6. e.length = e.first + e.length - next
  BY <1>2
<1> HIDE DEF new
<1> QED BY <1>1, <1>3, <1>4, <1>5, <1>6 DEF Consistent, new

(* What apply_control records is an episode from the next reading on. *)
LEMMA RecordStep ==
  ASSUME SimInv, NEW m \in Fleet, NEW label \in Labels, NEW length \in Nat,
         length = 0 => label = NoFault,
         fault' = [fault EXCEPT ![m] = label], left' = [left EXCEPT ![m] = length],
         Record(m, label, length), stream' = stream
  PROVE  SimInv'
<1> DEFINE e == [first |-> Len(stream[m]) + 1, label |-> label, length |-> length]
<1>1. /\ fault[m] \in Labels /\ left[m] \in Int /\ stream[m] \in Seq(Labels)
      /\ episodes[m] \in Seq(Episode)
      /\ Consistent(fault[m], left[m], stream[m], episodes[m])
  BY DEF SimInv, SimTypeOK
<1>2. e \in Episode /\ e.first = Len(stream[m]) + 1 /\ e.label = label /\ e.length = length
  BY <1>1 DEF Episode
<1>3. episodes' = [episodes EXCEPT ![m] = Append(episodes[m], e)]
  BY DEF Record, SimInv, SimTypeOK
<1> HIDE DEF e
<1>4. Consistent(label, length, stream[m], Append(episodes[m], e))
  BY <1>1, <1>2, Recorded
<1>5. SimTypeOK'
  BY <1>1, <1>2, <1>3 DEF SimInv, SimTypeOK
<1>6. ASSUME NEW q \in Fleet PROVE Consistent(fault'[q], left'[q], stream'[q], episodes'[q])
  BY <1>3, <1>4 DEF SimInv, SimTypeOK
<1> QED BY <1>5, <1>6 DEF SimInv

(* Machine.step, after an episode that may just have begun. *)
LEMMA ReadingStep ==
  ASSUME SimInv, NEW m \in Fleet, NEW label \in Labels, NEW ticks \in Int,
         episodes' \in [Fleet -> Seq(Episode)],
         \A q \in Fleet : q # m => episodes'[q] = episodes[q],
         Consistent(label, ticks, stream[m], episodes'[m]),
         CountDown(m, label, ticks), Publish(m, label)
  PROVE  SimInv'
<1> DEFINE label2 == IF ticks <= 1 THEN NoFault ELSE label
           ticks2 == IF label = NoFault THEN ticks ELSE ticks - 1
           readings2 == Append(stream[m], label)
<1>1. stream[m] \in Seq(Labels) /\ episodes'[m] \in Seq(Episode)
  BY DEF SimInv, SimTypeOK
<1>2. Consistent(label2, ticks2, readings2, episodes'[m])
  BY <1>1, Counted
<1>3. label2 \in Labels /\ ticks2 \in Int /\ readings2 \in Seq(Labels)
  BY <1>1 DEF Labels
<1>4. /\ fault' = [fault EXCEPT ![m] = label2] /\ left' = [left EXCEPT ![m] = ticks2]
      /\ stream' = [stream EXCEPT ![m] = readings2]
  BY DEF CountDown, Publish, SimInv, SimTypeOK
<1> HIDE DEF label2, ticks2, readings2
<1>5. SimTypeOK'
  BY <1>3, <1>4 DEF SimInv, SimTypeOK
<1>6. ASSUME NEW q \in Fleet PROVE Consistent(fault'[q], left'[q], stream'[q], episodes'[q])
  BY <1>2, <1>4 DEF SimInv, SimTypeOK
<1> QED BY <1>5, <1>6 DEF SimInv

LEMMA SimStays ==
  ASSUME SimInv, UNCHANGED <<machineVars, stream>>
  PROVE  SimInv'
BY DEF machineVars, SimInv, SimTypeOK

LEMMA SimNextInv == ASSUME SimInv, SimNext PROVE SimInv'
<1>1. ASSUME NEW cmd \in Commands, Command(cmd) PROVE SimInv'
  BY <1>1, SimStays DEF Command
<1>2. CASE BeginRound
  BY <1>2, SimStays DEF BeginRound
<1>3. CASE ApplyControl
  <2>1. PICK cmd : Ignore(cmd) \/ Clear(cmd) \/ Start(cmd) \/ Die(cmd)
    BY <1>3 DEF ApplyControl
  <2>2. stream' = stream
    BY <1>3 DEF ApplyControl
  <2>3. CASE Ignore(cmd) \/ Die(cmd)
    BY <2>2, <2>3, SimStays DEF Ignore, Die
  <2>4. CASE Clear(cmd)
    <3>1. Target(cmd) \in Fleet /\ NoFault \in Labels
      BY <2>4 DEF Clear, Ignored, Labels
    <3>2. /\ fault' = [fault EXCEPT ![Target(cmd)] = NoFault]
          /\ left' = [left EXCEPT ![Target(cmd)] = 0] /\ Record(Target(cmd), NoFault, 0)
      BY <2>4 DEF Clear
    <3> QED BY <2>2, <3>1, <3>2, RecordStep
  <2>5. CASE Start(cmd)
    <3>1. /\ Target(cmd) \in Fleet /\ cmd.fault \in Labels
          /\ AtLeastOne(cmd.ticks) \in Nat /\ AtLeastOne(cmd.ticks) # 0
      BY <2>5 DEF Start, Ignored, Labels, AtLeastOne
    <3>2. /\ fault' = [fault EXCEPT ![Target(cmd)] = cmd.fault]
          /\ left' = [left EXCEPT ![Target(cmd)] = AtLeastOne(cmd.ticks)]
          /\ Record(Target(cmd), cmd.fault, AtLeastOne(cmd.ticks))
      BY <2>5 DEF Start
    <3> QED BY <2>2, <3>1, <3>2, RecordStep
  <2> QED BY <2>1, <2>3, <2>4, <2>5
<1>4. ASSUME NEW m \in Fleet, Step(m) PROVE SimInv'
  <2>1. /\ fault[m] \in Labels /\ left[m] \in Int /\ episodes' = episodes
        /\ episodes \in [Fleet -> Seq(Episode)]
        /\ Consistent(fault[m], left[m], stream[m], episodes[m])
    BY <1>4 DEF Step, SimInv, SimTypeOK
  <2> QED BY <1>4, <2>1, ReadingStep DEF Step
<1>5. ASSUME NEW m \in Fleet, StepIntoFault(m) PROVE SimInv'
  <2>1. PICK f \in FaultTypes, ticks \in RandomTicks :
          CountDown(m, f, ticks) /\ Record(m, f, ticks) /\ Publish(m, f)
    BY <1>5 DEF StepIntoFault
  <2> DEFINE e == [first |-> Len(stream[m]) + 1, label |-> f, length |-> ticks]
  <2>2. f \in Labels /\ ticks \in Nat \ {0}
    BY SimulatorAssumption DEF Labels
  <2>3. /\ fault[m] \in Labels /\ left[m] \in Int /\ stream[m] \in Seq(Labels)
        /\ episodes[m] \in Seq(Episode) /\ episodes \in [Fleet -> Seq(Episode)]
        /\ Consistent(fault[m], left[m], stream[m], episodes[m])
    BY DEF SimInv, SimTypeOK
  <2>4. e \in Episode /\ e.first = Len(stream[m]) + 1 /\ e.label = f /\ e.length = ticks
    BY <2>2, <2>3 DEF Episode
  <2>5. episodes' = [episodes EXCEPT ![m] = Append(episodes[m], e)]
    BY <2>1, <2>3 DEF Record
  <2> HIDE DEF e
  <2>6. Consistent(f, ticks, stream[m], Append(episodes[m], e))
    BY <2>2, <2>3, <2>4, Recorded
  <2>7. /\ episodes'[m] = Append(episodes[m], e) /\ episodes' \in [Fleet -> Seq(Episode)]
        /\ \A q \in Fleet : q # m => episodes'[q] = episodes[q]
    BY <2>3, <2>4, <2>5
  <2>8. Consistent(f, ticks, stream[m], episodes'[m]) /\ ticks \in Int
    BY <2>2, <2>6, <2>7
  <2>9. CountDown(m, f, ticks) /\ Publish(m, f)
    BY <2>1
  <2> QED BY <2>2, <2>7, <2>8, <2>9, ReadingStep
<1> QED BY <1>1, <1>2, <1>3, <1>4, <1>5 DEF SimNext

LEMMA SimInitInv == SimInit => SimInv
<1> SUFFICES ASSUME SimInit PROVE SimInv
  OBVIOUS
<1>1. SimTypeOK
  BY DEF SimInit, SimTypeOK, Labels
<1>2. ASSUME NEW m \in Fleet PROVE Consistent(fault[m], left[m], stream[m], episodes[m])
  BY DEF SimInit, Consistent
<1> QED BY <1>1, <1>2 DEF SimInv

LEMMA EpisodesHonoured == SimInv => EpisodeHonoured
BY DueIsDueLabel DEF SimInv, EpisodeHonoured, Consistent

(* What happens to the streams: a reading more, on one of them. *)
LEMMA StreamsGrow ==
  ASSUME SimInv, SimNext \/ UNCHANGED stream, NEW m \in Fleet
  PROVE  /\ Len(stream[m]) <= Len(stream'[m])
         /\ \A k \in 1..Len(stream[m]) : stream'[m][k] = stream[m][k]
<1>1. stream \in [Fleet -> Seq(Labels)] /\ stream[m] \in Seq(Labels)
  BY DEF SimInv, SimTypeOK
<1>2. CASE UNCHANGED stream
  BY <1>1, <1>2
<1>3. ASSUME NEW q \in Fleet, NEW label, Publish(q, label)
      PROVE  stream'[m] \in {stream[m], Append(stream[m], label)}
  BY <1>1, <1>3 DEF Publish
<1>4. CASE SimNext
  <2>1. \/ UNCHANGED stream
        \/ \E q \in Fleet : \E label : Publish(q, label)
    BY <1>4 DEF SimNext, Command, ApplyControl, BeginRound, Step, StepIntoFault
  <2>2. \/ stream'[m] = stream[m]
        \/ \E label : stream'[m] = Append(stream[m], label)
    BY <1>3, <2>1
  <2> QED BY <1>1, <2>2
<1> QED BY <1>2, <1>4

(* The episode that the demo has seen, once it has: both its ends arrived, *)
(* and what arrived of it carries a fault.                                 *)
EpisodeSeen ==
  /\ start \in Nat \ {0} /\ end \in Nat /\ start < end
  /\ {start, end} \subseteq received[Patient]
  /\ \A k \in received[Patient] : Inside(k) => stream[Patient][k] # NoFault

PossibleCounts ==
  /\ {row.nth, row.seen, row.flagged} \subseteq Nat
  /\ 1 <= row.nth /\ row.nth <= row.seen
  /\ 1 <= row.flagged /\ row.flagged <= end - start
  /\ start .. end - 1 \subseteq received[Patient] => row.flagged <= row.seen

Arrived == [Fleet -> SUBSET (1..MaxRounds)]
Audits  == [of : Arrived, falsePositives : Nat]

DemoInv ==
  /\ SimInv
  /\ received \in Arrived /\ base \in SUBSET (1..MaxRounds)
  /\ \A m \in Fleet : \A k \in received[m] : k <= Len(stream[m])
  /\ feed \in [Fleet -> [1..MaxRounds -> 0..1]]
  /\ audit \in Audits
  /\ step = "count" \/ row.result = "PASS" => EpisodeSeen
  /\ row.result = "PASS" => step \in {"snapshot", "audit", "done"} /\ PossibleCounts
  /\ AuditHonest

(* Readings are added only behind those that arrived, and to the demo only *)
(* if they were published.                                                 *)
MoreArrived ==
  /\ received' \in Arrived
  /\ \A m \in Fleet : /\ received[m] \subseteq received'[m]
                      /\ \A k \in received'[m] \ received[m] : \A j \in received[m] : j < k
                      /\ \A k \in received'[m] : k <= Len(stream'[m])

LEMMA FleetFinite == IsFiniteSet(Fleet)
<1> DEFINE f == [i \in 1..Len(Machines) |-> Machines[i]]
<1>1. DOMAIN Machines = 1..Len(Machines) /\ Len(Machines) \in Nat
  BY SimulatorAssumption
<1>2. f \in Surjection(1..Len(Machines), Fleet)
  BY <1>1 DEF Fleet, Surjection
<1>3. IsFiniteSet(1..Len(Machines))
  BY <1>1, FS_Interval
<1> HIDE DEF f
<1> QED BY <1>2, <1>3, FS_Surjection

(* A feed that keeps an event once has no more events of some readings     *)
(* than there are readings.                                                *)
LEMMA EventsBound ==
  ASSUME NEW readings, IsFiniteSet(readings), NEW events,
         \A r \in readings : events[r[1]][r[2]] \in 0..1
  PROVE  /\ EventsOf(events, readings) \in Nat
         /\ EventsOf(events, readings) <= Cardinality(readings)
         /\ (\E r \in readings : events[r[1]][r[2]] = 1) => EventsOf(events, readings) >= 1
<1> DEFINE E == {e \in readings \X (1..2) : e[2] <= events[e[1][1]][e[1][2]]}
<1>1. EventsOf(events, readings) = Cardinality(E)
  BY DEF EventsOf
<1>2. E \subseteq readings \X {1}
  <2> SUFFICES ASSUME NEW e \in E PROVE e \in readings \X {1}
    OBVIOUS
  <2>1. e[1] \in readings /\ e[2] \in 1..2 /\ e[2] <= events[e[1][1]][e[1][2]] /\ e = <<e[1], e[2]>>
    OBVIOUS
  <2>2. events[e[1][1]][e[1][2]] \in 0..1
    BY <2>1
  <2>3. e[2] = 1
    BY <2>1, <2>2
  <2> QED BY <2>1, <2>3
<1>3. /\ IsFiniteSet(readings \X {1})
      /\ Cardinality(readings \X {1}) = Cardinality(readings)
  <2>1. IsFiniteSet({1}) /\ Cardinality({1}) = 1
    BY FS_Singleton
  <2>2. /\ IsFiniteSet(readings \X {1})
        /\ Cardinality(readings \X {1}) = Cardinality(readings) * Cardinality({1})
    BY <2>1, FS_Product
  <2>3. Cardinality(readings) \in Nat
    BY FS_CardinalityType
  <2> QED BY <2>1, <2>2, <2>3
<1>4. ASSUME NEW r \in readings, events[r[1]][r[2]] = 1 PROVE E # {}
  <2>1. <<r, 1>> \in E
    BY <1>4
  <2> QED BY <2>1
<1> HIDE DEF E
<1>5. IsFiniteSet(E) /\ Cardinality(E) <= Cardinality(readings)
  BY <1>2, <1>3, FS_Subset
<1>6. Cardinality(E) \in Nat /\ (Cardinality(E) = 0 <=> E = {})
  BY <1>5, FS_CardinalityType, FS_EmptySet
<1> QED BY <1>1, <1>4, <1>5, <1>6

LEMMA FeedKeepsOnce ==
  ASSUME feed \in [Fleet -> [1..MaxRounds -> 0..1]], NEW news
  PROVE  FeedWith(news) \in [Fleet -> [1..MaxRounds -> 0..1]]
<1>1. ASSUME NEW m \in Fleet, NEW k \in 1..MaxRounds
      PROVE  Kept(feed[m][k], IF <<m, k>> \in news THEN 2 ELSE 0) \in 0..1
  <2>1. feed[m] \in [1..MaxRounds -> 0..1]
    OBVIOUS
  <2>2. feed[m][k] \in 0..1
    BY <2>1
  <2> QED BY <2>2 DEF Kept
<1>2. ASSUME NEW m \in Fleet
      PROVE  [k \in 1..MaxRounds |-> Kept(feed[m][k], IF <<m, k>> \in news THEN 2 ELSE 0)]
               \in [1..MaxRounds -> 0..1]
  BY <1>1, Zenon
<1> QED BY <1>2, Zenon DEF FeedWith

(* What has arrived is a part of the streams, and stays. *)
LEMMA ArriveStep ==
  ASSUME DemoInv, NEW ms \in SUBSET Fleet, ReadingsArrive(ms), stream' = stream
  PROVE  MoreArrived
<1>1. PICK news \in [ms -> SUBSET (1..MaxRounds)] :
        /\ \A m \in ms : news[m] \subseteq Outstanding(m)
        /\ received' = [m \in Fleet |-> IF m \in ms THEN received[m] \union news[m] ELSE received[m]]
  BY DEF ReadingsArrive
<1>2. received \in Arrived /\ \A m \in Fleet : \A k \in received[m] : k <= Len(stream[m])
  BY DEF DemoInv
<1>3. ASSUME NEW m \in Fleet
      PROVE  /\ received'[m] \in SUBSET (1..MaxRounds)
             /\ received[m] \subseteq received'[m]
             /\ \A k \in received'[m] \ received[m] : \A j \in received[m] : j < k
             /\ \A k \in received'[m] : k <= Len(stream[m])
  <2>1. received[m] \in SUBSET (1..MaxRounds)
    BY <1>2 DEF Arrived
  <2>2. CASE m \notin ms
    BY <1>1, <1>2, <2>1, <2>2
  <2>3. CASE m \in ms
    <3>1. received'[m] = received[m] \union news[m] /\ news[m] \in SUBSET (1..MaxRounds)
      BY <1>1, <2>3
    <3>2. Len(stream[m]) \in Nat
      BY DEF DemoInv, SimInv, SimTypeOK
    <3>3. \A k \in news[m] : k <= Len(stream[m]) /\ \A j \in received[m] : j < k
      BY <1>1, <2>3, <3>2 DEF Outstanding
    <3> QED BY <1>2, <2>1, <3>1, <3>3
  <2> QED BY <2>2, <2>3
<1>4. received' \in Arrived
  BY <1>1, <1>3 DEF Arrived
<1> QED BY <1>3, <1>4 DEF MoreArrived

(* No step of the simulator takes a reading back. *)
LEMMA NothingArrives ==
  ASSUME DemoInv, SimNext \/ UNCHANGED stream, UNCHANGED received
  PROVE  MoreArrived
<1>1. ASSUME NEW m \in Fleet, NEW k \in received[m] PROVE k <= Len(stream'[m])
  <2>1. k \in Nat /\ k <= Len(stream[m])
    BY DEF DemoInv, Arrived
  <2>2. Len(stream[m]) \in Nat /\ Len(stream[m]) <= Len(stream'[m])
    BY StreamsGrow DEF DemoInv, SimInv, SimTypeOK
  <2>3. CASE UNCHANGED stream
    BY <2>1, <2>3
  <2>4. CASE SimNext
    <3>1. stream' \in [Fleet -> Seq(Labels)]
      BY <2>4, SimNextInv DEF DemoInv, SimInv, SimTypeOK
    <3>2. Len(stream'[m]) \in Nat
      BY <3>1
    <3> QED BY <2>1, <2>2, <3>2
  <2> QED BY <2>3, <2>4
<1> QED BY <1>1 DEF DemoInv, MoreArrived

LEMMA SeenStays ==
  ASSUME DemoInv, EpisodeSeen, SimNext \/ UNCHANGED stream, UNCHANGED <<start, end>>, MoreArrived
  PROVE  /\ EpisodeSeen'
         /\ \A k \in received'[Patient] : Inside(k) => k \in received[Patient]
<1>1. /\ Patient \in Fleet /\ received[Patient] \subseteq received'[Patient]
      /\ received'[Patient] \subseteq Nat
  BY DemoAssumption DEF MoreArrived, Arrived
<1>2. ASSUME NEW k \in received'[Patient], Inside(k) PROVE k \in received[Patient]
  <2>1. k \in Nat /\ k < end /\ end \in Nat /\ end \in received[Patient]
    BY <1>1, <1>2 DEF Inside, EpisodeSeen
  <2>2. ~(end < k)
    BY <2>1
  <2> QED BY <1>1, <2>1, <2>2 DEF MoreArrived
<1>3. ASSUME NEW k \in received[Patient] PROVE stream'[Patient][k] = stream[Patient][k]
  <2>1. k \in 1..MaxRounds /\ k <= Len(stream[Patient])
    BY <1>1 DEF DemoInv, Arrived
  <2>2. stream[Patient] \in Seq(Labels)
    BY <1>1 DEF DemoInv, SimInv, SimTypeOK
  <2>3. k \in 1..Len(stream[Patient])
    BY <2>1, <2>2
  <2> QED BY <1>1, <2>3, StreamsGrow DEF DemoInv
<1>4. \A k : Inside(k)' => Inside(k)
  BY DEF Inside
<1> QED BY <1>1, <1>2, <1>3, <1>4 DEF EpisodeSeen

LEMMA CountsStay ==
  ASSUME DemoInv, EpisodeSeen, PossibleCounts, SimNext \/ UNCHANGED stream,
         UNCHANGED <<start, end, row>>, MoreArrived
  PROVE  PossibleCounts'
<1>1. ASSUME start .. end - 1 \subseteq received'[Patient]
      PROVE  start .. end - 1 \subseteq received[Patient]
  <2>1. \A k \in start .. end - 1 : Inside(k)
    BY DEF EpisodeSeen, Inside
  <2> QED BY <1>1, <2>1, SeenStays
<1> QED BY <1>1 DEF PossibleCounts

(* fault_bounds finds an episode. *)
LEMMA BoundStep == ASSUME DemoInv, Bound PROVE EpisodeSeen'
<1> DEFINE a == Least(Starts)
           b == Least(EndsAfter(a))
<1>1. start' = a /\ end' = b /\ Starts # {} /\ EndsAfter(a) # {} /\ stream' = stream
  BY DEF Bound, simVars
<1>2. received'[Patient] \subseteq Nat \ {0}
  <2>1. received' \in Arrived
    BY <1>1, ArriveStep, DemoAssumption DEF Bound, MoreArrived
  <2> QED BY <2>1, DemoAssumption DEF Arrived
<1>3. a \in Starts /\ a \in Nat
  <2>1. Starts \subseteq Nat
    BY <1>2 DEF Starts
  <2>2. \E x \in Starts : \A y \in Starts : x <= y
    BY <1>1, <2>1, LeastNumber
  <2> QED BY <2>1, <2>2 DEF Least
<1>4. a \in received'[Patient] \ base /\ stream[Patient][a] = Ailment
  BY <1>3 DEF Starts
<1> HIDE DEF a
<1>5. b \in EndsAfter(a) /\ b \in Nat /\ \A j \in EndsAfter(a) : b <= j
  <2>1. EndsAfter(a) \subseteq Nat
    BY <1>2 DEF EndsAfter
  <2>2. \E x \in EndsAfter(a) : \A y \in EndsAfter(a) : x <= y
    BY <1>1, <2>1, LeastNumber
  <2> QED BY <2>1, <2>2 DEF Least
<1>6. b \in received'[Patient] /\ a < b
  BY <1>5 DEF EndsAfter
<1> HIDE DEF b
<1>7. ASSUME NEW k \in received'[Patient], a <= k, k < b PROVE stream[Patient][k] # NoFault
  <2>1. CASE k = a
    BY <1>4, <2>1, DemoAssumption, SimulatorAssumption
  <2>2. CASE k # a
    <3>1. a < k /\ ~(b <= k)
      BY <1>2, <1>3, <1>5, <1>7, <2>2
    <3>2. k \notin EndsAfter(a)
      BY <1>5, <3>1
    <3> QED BY <1>7, <3>1, <3>2 DEF EndsAfter
  <2> QED BY <2>1, <2>2
<1> QED BY <1>1, <1>2, <1>3, <1>4, <1>6, <1>7 DEF EpisodeSeen, Inside

(* The counts of a scenario that found events inside its episode. *)
LEMMA CountStep == ASSUME DemoInv, Count, row'.result = "PASS" PROVE PossibleCounts'
<1> DEFINE hits == {k \in 1..MaxRounds : Inside(k) /\ feed'[Patient][k] > 0}
           seen == {k \in received'[Patient] : start <= k /\ k < end}
           flagged == {<<Patient, k>> : k \in hits}
           first == {k \in seen : k <= Least(hits)}
<1>1. PICK news : feed' = FeedWith(news)
  BY DEF Count
<1>2. /\ ReadingsArrive({Patient}) /\ stream' = stream /\ EpisodeSeen
  BY DEF Count, simVars, DemoInv
<1>3. row' = IF hits = {} THEN [Missing EXCEPT !.result = "MISSED"]
             ELSE [result  |-> "PASS", flagged |-> EventsOf(feed', flagged),
                   seen    |-> Cardinality(seen), nth     |-> Cardinality(first)]
  BY DEF Count
<1>4. /\ hits # {} /\ row'.flagged = EventsOf(feed', flagged)
      /\ row'.seen = Cardinality(seen) /\ row'.nth = Cardinality(first)
  <2>1. [Missing EXCEPT !.result = "MISSED"].result = "MISSED"
    BY DEF Missing
  <2>2. hits # {}
    <3> HIDE DEF hits, seen, flagged, first
    <3> QED BY <1>3, <2>1
  <2> HIDE DEF hits, seen, flagged, first
  <2> QED BY <1>3, <2>2
<1>5. /\ Patient \in Fleet /\ MaxRounds \in Nat
      /\ received'[Patient] \in SUBSET (1..MaxRounds)
      /\ received[Patient] \subseteq received'[Patient]
      /\ feed' \in [Fleet -> [1..MaxRounds -> 0..1]]
  <2>1. MoreArrived
    BY <1>2, ArriveStep, DemoAssumption
  <2> QED BY <1>1, <2>1, FeedKeepsOnce, DemoAssumption, SimulatorAssumption
          DEF DemoInv, MoreArrived, Arrived
<1>6. /\ start \in Nat /\ end \in Nat /\ start < end /\ start \in seen
      /\ start' = start /\ end' = end
  BY <1>2, <1>5 DEF EpisodeSeen, Count
<1>7. hits \subseteq start .. end - 1 /\ hits \subseteq Nat
  BY <1>5, <1>6 DEF Inside
<1>8. Least(hits) \in hits
  <2> HIDE DEF hits
  <2>1. \E x \in hits : \A y \in hits : x <= y
    BY <1>4, <1>7, LeastNumber
  <2> QED BY <2>1 DEF Least
<1>9. start \in first /\ first \subseteq seen
  BY <1>6, <1>7, <1>8
<1>10. IsFiniteSet(seen)
  <2>1. seen \subseteq 1..MaxRounds /\ IsFiniteSet(1..MaxRounds)
    BY <1>5, FS_Interval
  <2> QED BY <2>1, FS_Subset
<1>11. start .. end - 1 \subseteq received'[Patient] => hits \subseteq seen
  BY <1>6, <1>7
<1>12. \A r \in flagged : feed'[r[1]][r[2]] = 1
  BY <1>5
<1>13. flagged = {Patient} \X hits /\ \E r \in flagged : TRUE
  <2> HIDE DEF hits
  <2>1. \A r \in flagged : r \in {Patient} \X hits
    OBVIOUS
  <2>2. \A r \in {Patient} \X hits : r = <<Patient, r[2]>> /\ r[2] \in hits
    OBVIOUS
  <2>3. \A r \in {Patient} \X hits : r \in flagged
    BY <2>2
  <2>4. PICK k \in hits : TRUE
    BY <1>8
  <2>5. <<Patient, k>> \in flagged
    OBVIOUS
  <2> HIDE DEF flagged
  <2> QED BY <2>1, <2>3, <2>5
<1> HIDE DEF hits, seen, first, flagged
<1>14. /\ IsFiniteSet(hits) /\ Cardinality(hits) <= end - start
       /\ start .. end - 1 \subseteq received'[Patient] => Cardinality(hits) <= Cardinality(seen)
  <2>1. IsFiniteSet(start .. end - 1) /\ Cardinality(start .. end - 1) = end - start
    BY <1>6, FS_Interval
  <2>2. IsFiniteSet(hits) /\ Cardinality(hits) <= end - start
    BY <1>7, <2>1, FS_Subset
  <2> QED BY <1>10, <1>11, <2>2, FS_Subset
<1>15. IsFiniteSet(first) /\ Cardinality(first) <= Cardinality(seen) /\ first # {}
  BY <1>9, <1>10, FS_Subset
<1>16. /\ Cardinality(seen) \in Nat /\ Cardinality(hits) \in Nat
       /\ Cardinality(first) \in Nat /\ Cardinality(first) # 0
  BY <1>10, <1>14, <1>15, FS_CardinalityType, FS_EmptySet
<1>17. IsFiniteSet(flagged) /\ Cardinality(flagged) = Cardinality(hits)
  <2>1. IsFiniteSet({Patient}) /\ Cardinality({Patient}) = 1
    BY FS_Singleton
  <2> QED BY <1>13, <1>14, <1>16, <2>1, FS_Product
<1>18. /\ EventsOf(feed', flagged) \in Nat
       /\ EventsOf(feed', flagged) <= Cardinality(flagged)
       /\ EventsOf(feed', flagged) >= 1
  BY <1>12, <1>13, <1>17, EventsBound
<1> QED BY <1>4, <1>6, <1>14, <1>15, <1>16, <1>17, <1>18 DEF PossibleCounts

(* The audit's two looks at the feed. *)
LEMMA AuditStep ==
  ASSUME DemoInv, Audit
  PROVE  AuditHonest' /\ audit' \in Audits
<1>1. PICK news : audit' = [audit EXCEPT !.falsePositives = EventsOf(FeedWith(news), HealthySeen)]
  BY DEF Audit
<1>2. FeedWith(news) \in [Fleet -> [1..MaxRounds -> 0..1]]
  BY FeedKeepsOnce DEF DemoInv
<1>3. HealthySeen \subseteq Fleet \X (1..MaxRounds) /\ IsFiniteSet(Fleet \X (1..MaxRounds))
  <2>1. IsFiniteSet(1..MaxRounds)
    BY FS_Interval, SimulatorAssumption
  <2> QED BY <2>1, FleetFinite, FS_Product DEF HealthySeen
<1>4. IsFiniteSet(HealthySeen)
  BY <1>3, FS_Subset
<1>5. \A r \in HealthySeen : FeedWith(news)[r[1]][r[2]] \in 0..1
  BY <1>2, <1>3
<1>6. /\ EventsOf(FeedWith(news), HealthySeen) \in Nat
      /\ EventsOf(FeedWith(news), HealthySeen) <= Cardinality(HealthySeen)
  BY <1>4, <1>5, EventsBound
<1>7. /\ audit'.of = audit.of
      /\ audit'.falsePositives = EventsOf(FeedWith(news), HealthySeen)
      /\ audit' \in Audits
  <2> DEFINE fp == EventsOf(FeedWith(news), HealthySeen)
  <2> HIDE DEF fp
  <2>1. audit' = [audit EXCEPT !.falsePositives = fp] /\ fp \in Nat
    BY <1>1, <1>6 DEF fp
  <2>2. /\ audit'.of = audit.of /\ audit'.falsePositives = fp
        /\ audit' \in Audits
    BY <2>1 DEF DemoInv, Audits
  <2> QED BY <2>2 DEF fp
<1>8. HealthySeen' = HealthySeen
  <2>1. stream' = stream
    BY DEF Audit, simVars
  <2> QED BY <1>7, <2>1 DEF HealthySeen
<1> QED BY <1>6, <1>7, <1>8 DEF AuditHonest

LEMMA DemoInitInv == DemoInit => DemoInv
<1> SUFFICES ASSUME DemoInit PROVE DemoInv
  OBVIOUS
<1>1. SimInv /\ \A m \in Fleet : stream[m] = <<>>
  BY SimInitInv DEF DemoInit, SimInit
<1>2. /\ MaxRounds \in Nat /\ received = [m \in Fleet |-> {}] /\ base = {} /\ step = "base"
      /\ feed = [m \in Fleet |-> [k \in 1..MaxRounds |-> 0]]
      /\ audit = [of |-> [m \in Fleet |-> {}], falsePositives |-> 0]
      /\ row.result = "none"
  BY SimulatorAssumption DEF DemoInit, Missing, NoAudit
<1>3. received \in Arrived /\ \A m \in Fleet : received[m] = {}
  BY <1>2 DEF Arrived
<1>4. feed \in [Fleet -> [1..MaxRounds -> 0..1]]
  BY <1>2
<1>5. audit \in Audits
  BY <1>2 DEF Audits, Arrived
<1> QED BY <1>1, <1>2, <1>3, <1>4, <1>5 DEF DemoInv, AuditHonest

(* The simulator goes on, and so may the feed: what the demo has reported  *)
(* stays true.                                                             *)
LEMMA DemoWaits ==
  ASSUME DemoInv, SimNext \/ UNCHANGED <<machineVars, stream>>,
         MoreArrived, base' \in SUBSET (1..MaxRounds),
         UNCHANGED <<feed, start, end, row>>,
         audit' \in Audits,
         step' # "done" \/ UNCHANGED <<step, audit, stream>>,
         step' = "count" => step = "count",
         step \in {"snapshot", "audit", "done"} => step' \in {"snapshot", "audit", "done"}
  PROVE  DemoInv'
<1>1. SimInv'
  BY SimNextInv, SimStays DEF DemoInv
<1>2. EpisodeSeen => EpisodeSeen'
  BY SeenStays
<1>3. AuditHonest'
  <2>1. CASE step' # "done"
    BY <2>1 DEF AuditHonest
  <2>2. CASE UNCHANGED <<step, audit, stream>>
    BY <2>2 DEF AuditHonest, HealthySeen, DemoInv
  <2> QED BY <2>1, <2>2
<1>4. row'.result = "PASS" => step' \in {"snapshot", "audit", "done"} /\ PossibleCounts'
  BY CountsStay DEF DemoInv
<1>5. step' = "count" \/ row'.result = "PASS" => EpisodeSeen'
  BY <1>2 DEF DemoInv
<1>6. feed' \in [Fleet -> [1..MaxRounds -> 0..1]]
  BY DEF DemoInv
<1> QED BY <1>1, <1>3, <1>4, <1>5, <1>6 DEF DemoInv, MoreArrived

LEMMA DemoNextInv == ASSUME DemoInv, [DemoNext]_demoVars PROVE DemoInv'
<1>1. /\ base \in SUBSET (1..MaxRounds) /\ {Patient} \in SUBSET Fleet /\ audit \in Audits
  BY DemoAssumption DEF DemoInv
<1>2. CASE SimNext /\ step # "done" /\ UNCHANGED <<feedVars, mainVars>>
  <2>1. UNCHANGED <<received, base, feed, start, end, row, audit, step>>
    BY <1>2 DEF feedVars, mainVars
  <2> QED BY <1>1, <1>2, <2>1, NothingArrives, DemoWaits
<1>3. CASE TakeBase
  <2>1. /\ ReadingsArrive({Patient}) /\ base' = received'[Patient]
        /\ UNCHANGED <<machineVars, stream, feed, start, end, row, audit>>
        /\ step = "base" /\ step' = "inject"
    BY <1>3 DEF TakeBase, simVars
  <2>2. MoreArrived
    BY <1>1, <2>1, ArriveStep
  <2>3. base' \in SUBSET (1..MaxRounds)
    BY <1>1, <2>1, <2>2 DEF MoreArrived, Arrived
  <2> QED BY <1>1, <2>1, <2>2, <2>3, DemoWaits
<1>4. CASE Inject
  <2>1. /\ UNCHANGED <<machineVars, stream, feed, received, base, start, end, row, audit>>
        /\ step = "inject" /\ step' = "bounds"
    BY <1>4 DEF Inject, feedVars
  <2> QED BY <1>1, <2>1, NothingArrives, DemoWaits
<1>5. CASE Bound
  <2>1. /\ ReadingsArrive({Patient}) /\ UNCHANGED <<machineVars, stream, feed, base, row, audit>>
        /\ step = "bounds" /\ step' = "count"
    BY <1>5 DEF Bound, simVars
  <2>2. MoreArrived
    BY <1>1, <2>1, ArriveStep
  <2>3. SimInv' /\ EpisodeSeen' /\ row'.result # "PASS"
    BY <1>5, <2>1, SimStays, BoundStep DEF DemoInv
  <2> QED BY <1>1, <2>1, <2>2, <2>3 DEF DemoInv, AuditHonest, MoreArrived
<1>6. CASE NeverObserved
  <2>1. /\ UNCHANGED <<machineVars, stream, feed, received, base, audit>>
        /\ row' = [Missing EXCEPT !.result = "FAIL"] /\ step' = "snapshot"
    BY <1>6 DEF NeverObserved, simVars, feedVars
  <2>2. SimInv' /\ row'.result # "PASS"
    BY <2>1, SimStays DEF DemoInv, Missing
  <2> QED BY <1>1, <2>1, <2>2 DEF DemoInv, AuditHonest
<1>7. CASE Count
  <2>1. /\ ReadingsArrive({Patient}) /\ UNCHANGED <<machineVars, stream, base, start, end, audit>>
        /\ step = "count" /\ step' = "snapshot" /\ EpisodeSeen
    BY <1>7 DEF Count, simVars, DemoInv
  <2>2. MoreArrived
    BY <1>1, <2>1, ArriveStep
  <2>3. SimInv' /\ EpisodeSeen'
    BY <2>1, <2>2, SimStays, SeenStays DEF DemoInv
  <2>4. feed' \in [Fleet -> [1..MaxRounds -> 0..1]]
    BY <1>7, FeedKeepsOnce DEF Count, DemoInv
  <2>5. row'.result = "PASS" => PossibleCounts'
    BY <1>7, CountStep
  <2> QED BY <1>1, <2>1, <2>2, <2>3, <2>4, <2>5 DEF DemoInv, AuditHonest, MoreArrived
<1>8. CASE Snapshot
  <2>1. /\ ReadingsArrive(Fleet) /\ audit' = [audit EXCEPT !.of = received']
        /\ UNCHANGED <<machineVars, stream, feed, base, start, end, row>>
        /\ step = "snapshot" /\ step' = "audit"
    BY <1>8 DEF Snapshot, simVars
  <2>2. MoreArrived
    BY <2>1, ArriveStep
  <2>3. audit' \in Audits
    BY <1>1, <2>1, <2>2 DEF Audits, MoreArrived
  <2> QED BY <1>1, <2>1, <2>2, <2>3, DemoWaits
<1>9. CASE Audit
  <2>1. /\ UNCHANGED <<machineVars, stream, feed, received, base, start, end, row>>
        /\ step = "audit" /\ step' = "done"
    BY <1>9 DEF Audit, simVars, feedVars
  <2>2. MoreArrived
    BY <2>1, NothingArrives
  <2>3. /\ SimInv' /\ (EpisodeSeen => EpisodeSeen')
        /\ EpisodeSeen /\ PossibleCounts => PossibleCounts'
    BY <1>1, <2>1, <2>2, SimStays, SeenStays, CountsStay DEF DemoInv
  <2> QED BY <1>1, <1>9, <2>1, <2>2, <2>3, AuditStep DEF DemoInv, MoreArrived
<1>10. CASE UNCHANGED demoVars
  <2>1. UNCHANGED <<machineVars, stream, feed, received, base, start, end, row, audit, step>>
    BY <1>10 DEF demoVars, simVars, feedVars, mainVars
  <2> QED BY <1>1, <2>1, NothingArrives, DemoWaits
<1> QED BY <1>2, <1>3, <1>4, <1>5, <1>6, <1>7, <1>8, <1>9, <1>10 DEF DemoNext

LEMMA DemoInvariant == DemoSpec => []DemoInv
<1>1. DemoInv /\ [DemoNext]_demoVars => DemoInv'
  BY DemoNextInv
<1> QED BY <1>1, DemoInitInv, PTL DEF DemoSpec

(* Whatever commands, clears and random episodes run into each other on    *)
(* however many machines, each reading of the simulator (simulate.py:101)  *)
(* carries the label of the episode started last before it.                *)
THEOREM EpisodesAreHonoured == DemoSpec => []EpisodeHonoured
<1>1. DemoInv => EpisodeHonoured
  BY EpisodesHonoured DEF DemoInv
<1> QED BY <1>1, DemoInvariant, PTL

(* A scenario of demo.py that reports PASS was found within the episode,   *)
(* with counts that the episode allows, whichever readings got lost.       *)
THEOREM RowsHonest == DemoSpec => []RowHonest
<1>1. DemoInv => RowHonest
  BY DEF DemoInv, RowHonest, PossibleCounts, EpisodeSeen
<1> QED BY <1>1, DemoInvariant, PTL

(* demo.py's audit never finds more false positives than healthy readings: *)
(* Feed.on_message keeps an event of a machine and ts once.                *)
THEOREM AuditsHonest == DemoSpec => []AuditHonest
<1>1. DemoInv => AuditHonest
  BY DEF DemoInv
<1> QED BY <1>1, DemoInvariant, PTL

-----------------------------------------------------------------------------
(* Drift signals (DriftTracker) *)

Frames == [at : {"idle", "mean", "scale", "done"}, data : SUBSET Nat, of : SUBSET Nat,
           from : Nat, mean : Nat, scale : Nat, calm : BOOLEAN]

DriftTypeOK ==
  /\ buf \in [0..Window - 1 -> Nat] /\ n \in Nat
  /\ since \in Seq(Nat) /\ observed \in Nat
  /\ resets \in Nat /\ mean \in Nat /\ scale \in Nat /\ locked \in BOOLEAN
  /\ scrape \in [Scrapers -> Frames]

(* A reset has changed the mean and may not have changed the scale yet. *)
ScalerInv ==
  /\ mean = resets /\ scale <= mean
  /\ ~locked => scale = mean

(* What a scrape has read so far, and what it has still to read. *)
ScrapeInv ==
  \A s \in Scrapers :
    LET r == scrape[s]
    IN  /\ r.at = "mean"  => /\ r.from <= scale
                             /\ r.calm => ~locked /\ r.from = mean
        /\ r.at = "scale" => /\ r.from <= r.mean /\ r.from <= scale
                             /\ r.calm => ~locked /\ r.from = r.mean /\ r.from = scale
        /\ r.at = "done"  => /\ r.from <= r.mean /\ r.from <= r.scale
                             /\ r.calm => r.from = r.mean /\ r.from = r.scale

DriftInv == DriftTypeOK /\ ScalerInv /\ ScrapeInv

LEMMA SizeNat ==
  ASSUME DriftAssumption, n \in Nat
  PROVE  /\ size \in Nat /\ size <= Window
         /\ \A k \in Nat : k % Window \in 0..Window - 1
BY DEF DriftAssumption, size

(* What a copy holds of the window are numbers. *)
LEMMA CopyTyped ==
  ASSUME DriftAssumption, DriftTypeOK
  PROVE  {buf[slot] : slot \in 0..size - 1} \subseteq Nat /\ Recent \subseteq Nat
<1>1. n \in Nat /\ Window \in Nat
  BY DEF DriftTypeOK, DriftAssumption
<1>2. size \in Nat /\ size <= Window
  BY <1>1, SizeNat
<1>3. 0..size - 1 \subseteq 0..Window - 1
  BY <1>1, <1>2
<1>4. {buf[slot] : slot \in 0..size - 1} \subseteq Nat
  BY <1>3 DEF DriftTypeOK
<1>5. Recent \subseteq Nat
  BY DEF Recent, DriftTypeOK
<1> QED BY <1>4, <1>5

LEMMA InitDriftInv == ASSUME DriftAssumption PROVE DriftInit => DriftInv
<1> SUFFICES ASSUME DriftInit PROVE DriftInv
  OBVIOUS
<1>1. Idle \in Frames /\ Idle.at = "idle"
  BY DEF Idle, Frames
<1>2. DriftTypeOK
  BY <1>1 DEF DriftInit, DriftTypeOK, DriftAssumption
<1>3. ScalerInv
  BY DEF DriftInit, ScalerInv
<1>4. ScrapeInv
  BY <1>1 DEF DriftInit, ScrapeInv
<1> QED BY <1>2, <1>3, <1>4 DEF DriftInv

LEMMA NextDriftInv == ASSUME DriftAssumption PROVE DriftInv /\ [DriftNext]_driftVars => DriftInv'
<1> SUFFICES ASSUME DriftInv, [DriftNext]_driftVars PROVE DriftInv'
  OBVIOUS
<1> USE DEF DriftInv
<1>1. CASE Observe
  <2>0. n \in Nat /\ observed \in Nat
    BY DEF DriftTypeOK
  <2>1. n % Window \in 0..Window - 1 /\ observed + 1 \in Nat
    BY <2>0, SizeNat
  <2>2. DriftTypeOK'
    BY <1>1, <2>1 DEF Observe, DriftTypeOK
  <2>3. ScalerInv' /\ ScrapeInv'
    BY <1>1 DEF Observe, ScalerInv, ScrapeInv
  <2> QED BY <2>2, <2>3
<1>2. CASE ResetMean
  <2> DEFINE Overlapped(s) == scrape[s].at \in {"mean", "scale"}
  <2>1. \A s \in Scrapers : scrape[s] \in Frames
    BY DEF DriftTypeOK
  <2>2. \A s \in Scrapers :
          /\ scrape'[s] \in Frames
          /\ scrape'[s] = IF Overlapped(s) THEN [scrape[s] EXCEPT !.calm = FALSE]
                          ELSE scrape[s]
    BY <1>2, <2>1 DEF ResetMean, Frames
  <2>3. DriftTypeOK'
    BY <1>2, <2>2 DEF ResetMean, DriftTypeOK
  <2>4. ScalerInv'
    BY <1>2 DEF ResetMean, ScalerInv, DriftTypeOK
  <2>5. ScrapeInv'
    <3> SUFFICES ASSUME NEW s \in Scrapers
                 PROVE  /\ scrape'[s].at = "mean"  => /\ scrape'[s].from <= scale'
                                                      /\ ~scrape'[s].calm
                        /\ scrape'[s].at = "scale" => /\ scrape'[s].from <= scrape'[s].mean
                                                      /\ scrape'[s].from <= scale'
                                                      /\ ~scrape'[s].calm
                        /\ scrape'[s].at = "done"  => scrape'[s] = scrape[s]
      BY DEF ScrapeInv
    <3>1. CASE Overlapped(s)
      <4>1. /\ scrape'[s].at = scrape[s].at /\ scrape'[s].calm = FALSE
            /\ scrape'[s].from = scrape[s].from /\ scrape'[s].mean = scrape[s].mean
        BY <2>1, <2>2, <3>1 DEF Frames
      <4> QED BY <1>2, <3>1, <4>1 DEF ResetMean, ScrapeInv
    <3>2. CASE ~Overlapped(s)
      BY <2>2, <3>2
    <3> QED BY <3>1, <3>2
  <2> QED BY <2>3, <2>4, <2>5
<1>3. CASE ResetScale
  <2>1. DriftTypeOK' /\ ScalerInv'
    BY <1>3 DEF ResetScale, DriftTypeOK, ScalerInv
  <2>2. scale <= scale' /\ locked
    BY <1>3 DEF ResetScale, ScalerInv
  <2>3. \A s \in Scrapers : scrape[s].from \in Nat
    BY DEF DriftTypeOK, Frames
  <2>4. ScrapeInv'
    BY <1>3, <2>2, <2>3 DEF ResetScale, ScrapeInv, DriftTypeOK
  <2> QED BY <2>1, <2>4
<1>4. CASE ResetCount
  <2> DEFINE none == <<>>
  <2>0. since' = none /\ none \in Seq(Nat)
    BY <1>4 DEF ResetCount
  <2> HIDE DEF none
  <2>1. DriftTypeOK'
    BY <1>4, <2>0 DEF ResetCount, DriftTypeOK
  <2>2. ScalerInv' /\ ScrapeInv'
    BY <1>4 DEF ResetCount, ScalerInv, ScrapeInv
  <2> QED BY <2>1, <2>2
<1>5. ASSUME NEW s \in Scrapers, Copy(s)
      PROVE  DriftInv'
  <2> DEFINE r == [Idle EXCEPT !.at = "mean",
                               !.data = {buf[slot] : slot \in 0..size - 1},
                               !.of = Recent, !.from = resets]
  <2>1. r \in Frames /\ r.at = "mean" /\ r.from = resets
    BY CopyTyped DEF Idle, Frames, DriftTypeOK
  <2>2. scrape' = [scrape EXCEPT ![s] = r]
    BY <1>5 DEF Copy
  <2> HIDE DEF r
  <2>3. DriftTypeOK'
    BY <1>5, <2>1, <2>2 DEF Copy, DriftTypeOK
  <2>4. ScalerInv'
    BY <1>5 DEF Copy, ScalerInv
  <2>5. \A q \in Scrapers : scrape'[q] = IF q = s THEN r ELSE scrape[q]
    BY <2>2 DEF DriftTypeOK
  <2>6. ScrapeInv'
    BY <1>5, <2>1, <2>5 DEF Copy, ScalerInv, ScrapeInv, DriftTypeOK
  <2> QED BY <2>3, <2>4, <2>6
<1>6. ASSUME NEW s \in Scrapers, ReadMean(s)
      PROVE  DriftInv'
  <2> DEFINE r == [scrape[s] EXCEPT !.at = "scale", !.mean = mean]
  <2>1. scrape[s] \in Frames
    BY DEF DriftTypeOK
  <2>2. /\ r \in Frames /\ r.at = "scale" /\ r.mean = mean
        /\ r.from = scrape[s].from /\ r.calm = scrape[s].calm
    BY <2>1 DEF Frames, DriftTypeOK
  <2>3. scrape' = [scrape EXCEPT ![s] = r]
    BY <1>6 DEF ReadMean, DriftTypeOK
  <2> HIDE DEF r
  <2>4. DriftTypeOK'
    BY <1>6, <2>2, <2>3 DEF ReadMean, DriftTypeOK
  <2>5. ScalerInv'
    BY <1>6 DEF ReadMean, ScalerInv
  <2>6. \A q \in Scrapers : scrape'[q] = IF q = s THEN r ELSE scrape[q]
    BY <2>3 DEF DriftTypeOK
  <2>7. r.from \in Nat
    BY <2>1, <2>2 DEF Frames
  <2>8. /\ r.from <= r.mean /\ r.from <= scale
        /\ r.calm => ~locked /\ r.from = r.mean /\ r.from = scale
    BY <1>6, <2>2, <2>7 DEF ReadMean, ScalerInv, ScrapeInv, DriftTypeOK
  <2>9. ASSUME NEW q \in Scrapers, q # s PROVE scrape'[q] = scrape[q]
    BY <2>6, <2>9
  <2>10. scrape'[s] = r /\ mean' = mean /\ scale' = scale /\ locked' = locked
    BY <1>6, <2>6 DEF ReadMean
  <2>11. ScrapeInv'
    BY <2>2, <2>8, <2>9, <2>10 DEF ScrapeInv
  <2> QED BY <2>4, <2>5, <2>11
<1>7. ASSUME NEW s \in Scrapers, ReadScale(s)
      PROVE  DriftInv'
  <2> DEFINE r == [scrape[s] EXCEPT !.at = "done", !.scale = scale]
  <2>1. scrape[s] \in Frames
    BY DEF DriftTypeOK
  <2>2. /\ r \in Frames /\ r.at = "done" /\ r.scale = scale /\ r.mean = scrape[s].mean
        /\ r.from = scrape[s].from /\ r.calm = scrape[s].calm
    BY <2>1 DEF Frames, DriftTypeOK
  <2>3. scrape' = [scrape EXCEPT ![s] = r]
    BY <1>7 DEF ReadScale, DriftTypeOK
  <2> HIDE DEF r
  <2>4. DriftTypeOK'
    BY <1>7, <2>2, <2>3 DEF ReadScale, DriftTypeOK
  <2>5. ScalerInv'
    BY <1>7 DEF ReadScale, ScalerInv
  <2>6. \A q \in Scrapers : scrape'[q] = IF q = s THEN r ELSE scrape[q]
    BY <2>3 DEF DriftTypeOK
  <2>7. /\ r.from <= r.mean /\ r.from <= r.scale
        /\ r.calm => r.from = r.mean /\ r.from = r.scale
    BY <1>7, <2>2 DEF ReadScale, ScrapeInv
  <2>8. ASSUME NEW q \in Scrapers, q # s PROVE scrape'[q] = scrape[q]
    BY <2>6, <2>8
  <2>9. scrape'[s] = r /\ mean' = mean /\ scale' = scale /\ locked' = locked
    BY <1>7, <2>6 DEF ReadScale
  <2>10. ScrapeInv'
    BY <2>2, <2>7, <2>8, <2>9 DEF ScrapeInv
  <2> QED BY <2>4, <2>5, <2>10
<1>8. CASE UNCHANGED driftVars
  BY <1>8 DEF driftVars, DriftTypeOK, ScalerInv, ScrapeInv
<1> QED BY <1>1, <1>2, <1>3, <1>4, <1>5, <1>6, <1>7, <1>8 DEF DriftNext

(* The mean and the scale of signals are never older than their window,    *)
(* and are the window's own unless a reset came in between                 *)
(* (drift.py:81-90, 101-106).                                              *)
THEOREM ScalerFits == DriftSpec => []ScalerOfWindow
<1>1. DriftInv => ScalerOfWindow
  BY DEF DriftInv, ScrapeInv, ScalerOfWindow
<1>2. DriftInit => DriftInv
  BY InitDriftInv, DriftAssumption
<1>3. DriftInv /\ [DriftNext]_driftVars => DriftInv'
  BY NextDriftInv, DriftAssumption
<1> QED BY <1>1, <1>2, <1>3, PTL DEF DriftSpec

(* The ring holds the readings since the last reset, the newest over the   *)
(* oldest, and none is in it twice.                                        *)
WindowInv ==
  /\ Len(since) = n
  /\ \A i, j \in 1..n : i < j => since[i] < since[j]
  /\ \A j \in 1..n : since[j] <= observed
  /\ \A j \in 1..n : n - Window < j => buf[(j - 1) % Window] = since[j]
  /\ SignalsFromWindow

LEMMA CopyIsRecent ==
  ASSUME DriftAssumption, DriftTypeOK, WindowInv
  PROVE  {buf[slot] : slot \in 0..size - 1} = Recent
<1>1. /\ Window \in Nat \ {0} /\ n \in Nat /\ since \in Seq(Nat) /\ Len(since) = n
      /\ DOMAIN since = 1..n
      /\ \A j \in 1..n : since[j] \in Nat
  BY DEF DriftAssumption, DriftTypeOK, WindowInv
<1>2. Recent = {since[j] : j \in 1..n} \ {since[j] : j \in 1..n - Window}
  BY <1>1 DEF Recent
<1>3. ASSUME NEW j \in 1..n, n - Window < j
      PROVE  since[j] \in Recent /\ buf[(j - 1) % Window] = since[j]
  <2>1. ASSUME NEW i \in 1..n - Window PROVE since[i] # since[j]
    <3>1. i \in 1..n /\ i < j
      BY <1>1, <1>3
    <3>2. since[i] < since[j]
      BY <3>1 DEF WindowInv
    <3> QED BY <1>1, <3>1, <3>2
  <2> QED BY <1>2, <1>3, <2>1 DEF WindowInv
<1>4. ASSUME NEW slot \in 0..size - 1 PROVE buf[slot] \in Recent
  <2>1. CASE n < Window
    <3>1. slot + 1 \in 1..n /\ n - Window < slot + 1 /\ slot \in 0..Window - 1
      BY <1>1, <2>1 DEF size
    <3>2. (slot + 1 - 1) % Window = slot
      <4>1. slot + 1 - 1 = slot
        BY <1>1, <3>1
      <4> QED BY <1>1, <3>1, <4>1, SmallRemainder
    <3> QED BY <1>3, <3>1, <3>2
  <2>2. CASE n >= Window
    <3>1. slot \in 0..Window - 1
      BY <1>1, <2>2 DEF size
    <3>2. PICK a \in n - Window .. n - 1 : a % Window = slot
      BY <1>1, <2>2, <3>1, SlotsFilled
    <3>3. a + 1 \in 1..n /\ n - Window < a + 1 /\ a + 1 - 1 = a
      BY <1>1, <2>2, <3>2
    <3> QED BY <1>3, <3>2, <3>3
  <2> QED BY <1>1, <2>1, <2>2
<1>5. ASSUME NEW j \in 1..n, since[j] \in Recent
      PROVE  since[j] \in {buf[slot] : slot \in 0..size - 1}
  <2>1. n - Window < j
    <3> SUFFICES ASSUME j <= n - Window PROVE FALSE
      BY <1>1
    <3>1. j \in 1..n - Window
      BY <1>1
    <3> QED BY <1>2, <1>5, <3>1
  <2>2. (j - 1) % Window \in 0..size - 1
    <3>1. j - 1 \in Nat /\ j - 1 < n
      BY <1>1
    <3>2. CASE n < Window
      <4>1. j - 1 \in 0..Window - 1
        BY <1>1, <3>1, <3>2
      <4>2. (j - 1) % Window = j - 1
        BY <1>1, <4>1, SmallRemainder
      <4> QED BY <1>1, <3>1, <3>2, <4>2 DEF size
    <3>3. CASE ~(n < Window)
      <4>1. (j - 1) % Window \in 0..Window - 1
        BY <1>1, <3>1, SizeNat
      <4> QED BY <1>1, <3>3, <4>1 DEF size
    <3> QED BY <3>2, <3>3
  <2> QED BY <1>3, <2>1, <2>2
<1> QED BY <1>2, <1>4, <1>5

LEMMA WindowNext ==
  ASSUME DriftAssumption, DriftInv, WindowInv, [DriftNext]_driftVars
  PROVE  WindowInv'
<1>1. /\ DriftTypeOK /\ Window \in Nat \ {0} /\ n \in Nat /\ since \in Seq(Nat)
      /\ buf \in [0..Window - 1 -> Nat] /\ observed \in Nat
      /\ Len(since) = n /\ DOMAIN since = 1..n
      /\ scrape \in [Scrapers -> Frames]
  BY DEF DriftAssumption, DriftInv, DriftTypeOK, WindowInv
<1>2. CASE Observe
  <2>1. /\ n' = n + 1 /\ observed' = observed + 1 /\ scrape' = scrape
        /\ since' = Append(since, observed + 1)
        /\ buf' = [buf EXCEPT ![n % Window] = observed + 1]
    BY <1>2 DEF Observe
  <2>2. /\ Len(since') = n + 1 /\ since'[n + 1] = observed + 1
        /\ \A j \in 1..n : since'[j] = since[j]
    BY <1>1, <2>1
  <2>3. \A j \in 1..n : since[j] \in Nat /\ since[j] <= observed
    BY <1>1 DEF WindowInv
  <2>4. ASSUME NEW i \in 1..n', NEW j \in 1..n', i < j PROVE since'[i] < since'[j]
    <3>1. i \in 1..n /\ (j \in 1..n \/ j = n + 1)
      BY <1>1, <2>1, <2>4
    <3>2. CASE j \in 1..n
      BY <2>2, <2>4, <3>1, <3>2 DEF WindowInv
    <3>3. CASE j = n + 1
      <4>1. since'[i] <= observed /\ since'[i] \in Nat
        BY <2>2, <2>3, <3>1
      <4> QED BY <1>1, <2>2, <3>3, <4>1
    <3> QED BY <3>1, <3>2, <3>3
  <2>5. \A j \in 1..n' : since'[j] <= observed'
    BY <1>1, <2>1, <2>2, <2>3
  <2>6. n % Window \in 0..Window - 1
    BY <1>1, SizeNat
  <2>7. ASSUME NEW j \in 1..n', n' - Window < j PROVE buf'[(j - 1) % Window] = since'[j]
    <3>1. CASE j = n + 1
      <4>1. j - 1 = n
        BY <1>1, <3>1
      <4> QED BY <1>1, <2>1, <2>2, <2>6, <3>1, <4>1
    <3>2. CASE j # n + 1
      <4>1. j \in 1..n /\ n - Window < j /\ j - 1 \in Nat /\ j - 1 < n /\ n < j - 1 + Window
        BY <1>1, <2>1, <2>7, <3>2
      <4>2. (j - 1) % Window # n % Window /\ (j - 1) % Window \in 0..Window - 1
        BY <1>1, <4>1, SlotsApart, SizeNat
      <4>3. buf[(j - 1) % Window] = since[j]
        BY <4>1 DEF WindowInv
      <4> QED BY <1>1, <2>1, <2>2, <4>1, <4>2, <4>3
    <3> QED BY <3>1, <3>2
  <2>8. SignalsFromWindow'
    BY <2>1 DEF WindowInv, SignalsFromWindow
  <2> QED BY <2>1, <2>2, <2>4, <2>5, <2>7, <2>8 DEF WindowInv
<1>3. CASE ResetCount
  <2>1. n' = 0 /\ since' = <<>> /\ scrape' = scrape
    BY <1>3 DEF ResetCount
  <2> QED BY <2>1 DEF WindowInv, SignalsFromWindow
<1>4. CASE ResetMean
  <2>1. \A s \in Scrapers : /\ scrape'[s].at = scrape[s].at /\ scrape'[s].data = scrape[s].data
                            /\ scrape'[s].of = scrape[s].of
    BY <1>1, <1>4 DEF ResetMean, Frames
  <2>2. UNCHANGED <<buf, n, observed, since>>
    BY <1>4 DEF ResetMean
  <2> QED BY <2>1, <2>2 DEF WindowInv, SignalsFromWindow
<1>5. CASE ResetScale \/ UNCHANGED driftVars
  BY <1>5 DEF ResetScale, driftVars, WindowInv, SignalsFromWindow
<1>6. ASSUME NEW s \in Scrapers, Copy(s) PROVE WindowInv'
  <2>1. scrape'[s].data = scrape'[s].of
    BY <1>1, <1>6, CopyIsRecent DEF Copy, Idle
  <2>2. \A o \in Scrapers : o # s => scrape'[o] = scrape[o]
    BY <1>1, <1>6 DEF Copy
  <2>3. UNCHANGED <<buf, n, observed, since>>
    BY <1>6 DEF Copy
  <2> QED BY <2>1, <2>2, <2>3 DEF WindowInv, SignalsFromWindow
<1>7. ASSUME NEW s \in Scrapers, ReadMean(s) \/ ReadScale(s) PROVE WindowInv'
  <2>1. \A o \in Scrapers : /\ scrape'[o].data = scrape[o].data /\ scrape'[o].of = scrape[o].of
                            /\ scrape'[o].at # "idle" => scrape[o].at # "idle"
    <3>1. \A o \in Scrapers : o # s => scrape'[o] = scrape[o]
      BY <1>1, <1>7 DEF ReadMean, ReadScale
    <3>2. /\ scrape'[s].data = scrape[s].data /\ scrape'[s].of = scrape[s].of
          /\ scrape[s].at # "idle"
      <4>1. scrape[s] \in Frames
        BY <1>1
      <4> QED BY <1>1, <1>7, <4>1 DEF ReadMean, ReadScale, Frames
    <3> QED BY <3>1, <3>2
  <2>2. UNCHANGED <<buf, n, observed, since>>
    BY <1>7 DEF ReadMean, ReadScale
  <2> QED BY <2>1, <2>2 DEF WindowInv, SignalsFromWindow
<1> QED BY <1>2, <1>3, <1>4, <1>5, <1>6, <1>7 DEF DriftNext

(* Whatever the count and however often the ring has gone round, signals   *)
(* are computed from the last readings since the reset, at most a window   *)
(* of them and none from before (drift.py:60-90).                          *)
THEOREM SignalsAreOfWindow == DriftSpec => []SignalsFromWindow
<1>1. DriftInit => WindowInv
  BY DEF DriftInit, WindowInv, SignalsFromWindow, Idle
<1>2. DriftInv /\ WindowInv /\ [DriftNext]_driftVars => WindowInv'
  BY WindowNext, DriftAssumption
<1>3. WindowInv => SignalsFromWindow
  BY DEF WindowInv
<1>4. DriftInit => DriftInv
  BY InitDriftInv, DriftAssumption
<1>5. DriftInv /\ [DriftNext]_driftVars => DriftInv'
  BY NextDriftInv, DriftAssumption
<1> QED BY <1>1, <1>2, <1>3, <1>4, <1>5, PTL DEF DriftSpec

-----------------------------------------------------------------------------
(* Key rotation (KeyFiles) *)

-----------------------------------------------------------------------------
(* The inductive invariant. *)

Busy(g) == keygen[g].at \in {"private", "openPublic", "public"}

(* While the operator keeps to the order, the trust file has the public    *)
(* half of the key that the artifact is signed with.                       *)
SignerTrusted ==
  phase # "off" => file.trusted # Absent /\ Public(signature.key) \in file.trusted

(* Nobody is at the key files after a pair is complete, and then the two   *)
(* files are one pair.                                                     *)
PairComplete ==
  /\ phase \in {"generated", "both", "resigned"} => \A g \in Keygens : ~Busy(g)
  /\ phase \in {"generated", "both"} =>
       \E k \in KeyIds : file.private = {Private(k)} /\ file.public = {Public(k)}
  /\ phase = "both" => file.public \subseteq file.trusted
  /\ phase = "resigned" => file.public = {Public(signature.key)}

(* A keygen that is alone is the only one, and its private key is the one  *)
(* in the file once it is written.                                         *)
AloneWrites ==
  \A g \in Keygens :
    /\ keygen[g].at # "idle" => keygen[g].key \in KeyIds
    /\ keygen[g].alone => Running = {g}
    /\ keygen[g].alone /\ keygen[g].at \in {"openPublic", "public"} =>
         file.private = {Private(keygen[g].key)}

(* A sign command that has its turn has the private key of the pair. *)
SignerReady ==
  /\ signer.at = "write" => signer.key \in KeyIds
  /\ signer.inTurn => signer.at = "write" /\ phase \in {"both", "off"}
  /\ signer.inTurn /\ phase = "both" => file.private = {Private(signer.key)}

(* What a verify command has loaded is good for the signature it will read. *)
StoreFits ==
  verifier.at = "read" =>
    /\ verifier.onTrack /\ phase # "off" => signature.key \in verifier.store
    /\ verifier.source # "unset" => verifier.store # {}

KeyInv ==
  /\ KeyTypeOK /\ SignerTrusted /\ PairComplete /\ AloneWrites /\ SignerReady /\ StoreFits
  /\ RotationServes

-----------------------------------------------------------------------------
(* Blocks of the two kinds are told apart, and so are keys. *)
LEMMA BlocksApart ==
  /\ \A j, k : Private(j) # Public(k)
  /\ \A j, k : Private(j) = Private(k) => j = k
  /\ \A j, k : Public(j) = Public(k) => j = k
  /\ \A k : Absent \cap {Private(k), Public(k)} = {}
BY DEF Private, Public, Absent

LEMMA InitKeyInv == ASSUME KeyFilesAssumption, KeyInit PROVE KeyInv
<1>1. 1 \in KeyIds
  BY DEF KeyFilesAssumption, KeyIds
<1>2. KeyTypeOK
  BY <1>1 DEF KeyInit, KeyTypeOK, NotRun, NotSigning, NotVerifying, Envelope, PrivateFiles,
              PublicFiles, KeySources, KeygenRuns, VerifyRuns
<1>3. SignerTrusted
  BY BlocksApart DEF KeyInit, SignerTrusted, Envelope, Absent, Public
<1>4. PairComplete /\ AloneWrites /\ SignerReady /\ StoreFits /\ RotationServes
  BY DEF KeyInit, PairComplete, AloneWrites, SignerReady, StoreFits, RotationServes, NotRun,
         NotSigning, NotVerifying
<1> QED BY <1>2, <1>3, <1>4 DEF KeyInv

-----------------------------------------------------------------------------
(* One lemma for every step, with one assertion for every part. *)

LEMMA KeygenStartKeyInv ==
  ASSUME KeyFilesAssumption, KeyInv, NEW g \in Keygens, NEW force \in BOOLEAN, KeygenStart(g, force)
  PROVE  KeyInv'
<1> USE DEF KeyInv, KeygenStart, GoOn, NotRun, NotSigning, NotVerifying, Envelope
<1>1. KeyTypeOK'
  <2>1. generated' \in KeyIds
    BY DEF KeyFilesAssumption, KeyTypeOK, KeyIds
  <2>2. (Running = {}) \in BOOLEAN
    OBVIOUS
  <2>3. ASSUME NEW o \in Keygens PROVE keygen'[o] \in KeygenRuns
    <3>1. keygen[o] \in KeygenRuns /\ generated + 1 \in KeyIds
      BY <2>1 DEF KeyTypeOK
    <3>2. CASE o = g
      BY <2>2, <3>1, <3>2 DEF KeygenRuns
    <3>3. CASE o # g
      BY <3>1, <3>3 DEF KeygenRuns
    <3> QED BY <3>2, <3>3
  <2>4. keygen' \in [Keygens -> KeygenRuns]
    BY <2>3
  <2> QED BY <2>1, <2>4 DEF KeyTypeOK
<1>2. SignerTrusted'
  BY DEF SignerTrusted, KeyTypeOK
<1>3. PairComplete'
  BY DEF PairComplete, KeyTypeOK, AloneWrites, Busy
<1>4. AloneWrites'
  <2>1. Running' = Running \union {g}
    BY DEF Running, KeyTypeOK, KeygenRuns
  <2>2. generated + 1 \in KeyIds
    BY DEF KeyFilesAssumption, KeyTypeOK, KeyIds
  <2> SUFFICES ASSUME NEW o \in Keygens
      PROVE  /\ keygen'[o].at # "idle" => keygen'[o].key \in KeyIds
             /\ keygen'[o].alone => Running' = {o}
             /\ keygen'[o].alone /\ keygen'[o].at \in {"openPublic", "public"} =>
                  file'.private = {Private(keygen'[o].key)}
    BY DEF AloneWrites, KeyIds
  <2>3. CASE o = g
    <3>1. keygen'[o] = [at |-> "open", key |-> generated + 1, alone |-> Running = {}]
      BY <2>3
    <3> QED BY <2>1, <2>2, <2>3, <3>1
  <2>4. CASE o # g
    <3>1. keygen'[o] = [keygen[o] EXCEPT !.alone = FALSE] /\ keygen[o] \in KeygenRuns
      BY <2>4 DEF KeyTypeOK
    <3>2. keygen'[o].alone = FALSE /\ keygen'[o].at = keygen[o].at
            /\ keygen'[o].key = keygen[o].key
      BY <3>1 DEF KeygenRuns
    <3> QED BY <3>2 DEF AloneWrites
  <2> QED BY <2>3, <2>4
<1>5. SignerReady'
  BY DEF SignerReady, KeyTypeOK, PairComplete
<1>6. StoreFits'
  BY DEF StoreFits, KeyTypeOK, SignerTrusted, KeySources
<1>7. RotationServes'
  BY DEF RotationServes, KeyTypeOK, StoreFits
<1> QED BY <1>1, <1>2, <1>3, <1>4, <1>5, <1>6, <1>7

LEMMA KeygenOpenKeyInv ==
  ASSUME KeyFilesAssumption, KeyInv, NEW g \in Keygens, KeygenOpen(g)
  PROVE  KeyInv'
<1> USE DEF KeyInv, KeygenOpen, GoOn, NotRun, NotSigning, NotVerifying, Envelope
<1>1. KeyTypeOK'
  BY DEF KeyTypeOK, PrivateFiles, PublicFiles, KeySources, KeyIds, KeygenRuns, VerifyRuns
<1>2. SignerTrusted'
  BY DEF SignerTrusted, KeyTypeOK
<1>3. PairComplete'
  BY DEF PairComplete, KeyTypeOK, AloneWrites, Busy
<1>4. AloneWrites'
  BY DEF AloneWrites, KeyTypeOK, Running
<1>5. SignerReady'
  BY DEF SignerReady, KeyTypeOK, PairComplete
<1>6. StoreFits'
  BY DEF StoreFits, KeyTypeOK, SignerTrusted, KeySources
<1>7. RotationServes'
  BY DEF RotationServes, KeyTypeOK, StoreFits
<1> QED BY <1>1, <1>2, <1>3, <1>4, <1>5, <1>6, <1>7

LEMMA KeygenPrivateKeyInv ==
  ASSUME KeyFilesAssumption, KeyInv, NEW g \in Keygens, KeygenPrivate(g)
  PROVE  KeyInv'
<1> USE DEF KeyInv, KeygenPrivate, GoOn, NotRun, NotSigning, NotVerifying, Envelope
<1>1. KeyTypeOK'
  <2>1. keygen[g].key \in KeyIds
    BY DEF AloneWrites
  <2>2. {Private(keygen[g].key)} \in PrivateFiles
    BY <2>1 DEF PrivateFiles
  <2> QED BY <2>2 DEF KeyTypeOK, KeygenRuns
<1>2. SignerTrusted'
  BY DEF SignerTrusted, KeyTypeOK
<1>3. PairComplete'
  BY DEF PairComplete, KeyTypeOK, AloneWrites, Busy
<1>4. AloneWrites'
  BY DEF AloneWrites, KeyTypeOK, Running
<1>5. SignerReady'
  BY DEF SignerReady, KeyTypeOK, PairComplete, Busy
<1>6. StoreFits'
  BY DEF StoreFits, KeyTypeOK, SignerTrusted, KeySources
<1>7. RotationServes'
  BY DEF RotationServes, KeyTypeOK, StoreFits
<1> QED BY <1>1, <1>2, <1>3, <1>4, <1>5, <1>6, <1>7

LEMMA KeygenOpenPublicKeyInv ==
  ASSUME KeyFilesAssumption, KeyInv, NEW g \in Keygens, KeygenOpenPublic(g)
  PROVE  KeyInv'
<1> USE DEF KeyInv, KeygenOpenPublic, GoOn, NotRun, NotSigning, NotVerifying, Envelope
<1>1. KeyTypeOK'
  BY DEF KeyTypeOK, PrivateFiles, PublicFiles, KeySources, KeyIds, KeygenRuns, VerifyRuns
<1>2. SignerTrusted'
  BY DEF SignerTrusted, KeyTypeOK
<1>3. PairComplete'
  BY DEF PairComplete, KeyTypeOK, AloneWrites, Busy
<1>4. AloneWrites'
  BY DEF AloneWrites, KeyTypeOK, Running
<1>5. SignerReady'
  BY DEF SignerReady, KeyTypeOK, PairComplete
<1>6. StoreFits'
  BY DEF StoreFits, KeyTypeOK, SignerTrusted, KeySources
<1>7. RotationServes'
  BY DEF RotationServes, KeyTypeOK, StoreFits
<1> QED BY <1>1, <1>2, <1>3, <1>4, <1>5, <1>6, <1>7

LEMMA KeygenPublicKeyInv ==
  ASSUME KeyFilesAssumption, KeyInv, NEW g \in Keygens, KeygenPublic(g)
  PROVE  KeyInv'
<1> USE DEF KeyInv, KeygenPublic, GoOn, NotRun, NotSigning, NotVerifying, Envelope
<1>1. KeyTypeOK'
  <2>1. keygen[g].key \in KeyIds
    BY DEF AloneWrites
  <2>2. {Public(keygen[g].key)} \in PublicFiles
    BY <2>1 DEF PublicFiles
  <2> QED BY <2>2 DEF KeyTypeOK, KeygenRuns
<1>2. SignerTrusted'
  BY DEF SignerTrusted, KeyTypeOK
<1>3. PairComplete'
  <2>1. CASE phase = "steady" /\ keygen[g].alone
    <3>1. Running = {g} /\ keygen[g].key \in KeyIds /\ file.private = {Private(keygen[g].key)}
      BY <2>1 DEF AloneWrites
    <3>2. \A o \in Keygens : keygen'[o].at = "idle"
      BY <3>1 DEF Running, KeyTypeOK
    <3> QED BY <2>1, <3>1, <3>2 DEF PairComplete, Busy, KeyTypeOK
  <2>2. CASE ~(phase = "steady" /\ keygen[g].alone)
    BY <2>2 DEF PairComplete, Busy, KeyTypeOK
  <2> QED BY <2>1, <2>2
<1>4. AloneWrites'
  BY DEF AloneWrites, KeyTypeOK, Running
<1>5. SignerReady'
  BY DEF SignerReady, KeyTypeOK, PairComplete
<1>6. StoreFits'
  BY DEF StoreFits, KeyTypeOK, SignerTrusted, KeySources
<1>7. RotationServes'
  BY DEF RotationServes, KeyTypeOK, StoreFits
<1> QED BY <1>1, <1>2, <1>3, <1>4, <1>5, <1>6, <1>7

LEMMA KeygenDiesKeyInv ==
  ASSUME KeyFilesAssumption, KeyInv, NEW g \in Keygens, KeygenDies(g)
  PROVE  KeyInv'
<1> USE DEF KeyInv, KeygenDies, GoOn, NotRun, NotSigning, NotVerifying, Envelope
<1>1. KeyTypeOK'
  BY DEF KeyTypeOK, PrivateFiles, PublicFiles, KeySources, KeyIds, KeygenRuns, VerifyRuns
<1>2. SignerTrusted'
  BY DEF SignerTrusted, KeyTypeOK
<1>3. PairComplete'
  BY DEF PairComplete, KeyTypeOK, AloneWrites, Busy
<1>4. AloneWrites'
  BY DEF AloneWrites, KeyTypeOK, Running
<1>5. SignerReady'
  BY DEF SignerReady, KeyTypeOK, PairComplete
<1>6. StoreFits'
  BY DEF StoreFits, KeyTypeOK, SignerTrusted, KeySources
<1>7. RotationServes'
  BY DEF RotationServes, KeyTypeOK, StoreFits
<1> QED BY <1>1, <1>2, <1>3, <1>4, <1>5, <1>6, <1>7

LEMMA TrustTooKeyInv ==
  ASSUME KeyFilesAssumption, KeyInv, TrustToo
  PROVE  KeyInv'
<1> USE DEF KeyInv, TrustToo, GoOn, NotRun, NotSigning, NotVerifying, Envelope
<1>1. KeyTypeOK'
  BY DEF KeyTypeOK, PrivateFiles, PublicFiles, KeySources, KeyIds, KeygenRuns, VerifyRuns
<1>2. SignerTrusted'
  BY BlocksApart DEF SignerTrusted, KeyTypeOK
<1>3. PairComplete'
  BY DEF PairComplete, KeyTypeOK, AloneWrites, Busy
<1>4. AloneWrites'
  BY DEF AloneWrites, KeyTypeOK, Running
<1>5. SignerReady'
  BY DEF SignerReady, KeyTypeOK, PairComplete
<1>6. StoreFits'
  BY DEF StoreFits, KeyTypeOK, SignerTrusted, KeySources
<1>7. RotationServes'
  BY DEF RotationServes, KeyTypeOK, StoreFits
<1> QED BY <1>1, <1>2, <1>3, <1>4, <1>5, <1>6, <1>7

LEMMA DropOldKeyInv ==
  ASSUME KeyFilesAssumption, KeyInv, DropOld
  PROVE  KeyInv'
<1> USE DEF KeyInv, DropOld, GoOn, NotRun, NotSigning, NotVerifying, Envelope
<1>1. KeyTypeOK'
  BY DEF KeyTypeOK, PrivateFiles, PublicFiles, KeySources, KeyIds, KeygenRuns, VerifyRuns
<1>2. SignerTrusted'
  BY DEF SignerTrusted, KeyTypeOK, PairComplete
<1>3. PairComplete'
  BY DEF PairComplete, KeyTypeOK, AloneWrites, Busy
<1>4. AloneWrites'
  BY DEF AloneWrites, KeyTypeOK, Running
<1>5. SignerReady'
  BY DEF SignerReady, KeyTypeOK, PairComplete
<1>6. StoreFits'
  BY DEF StoreFits, KeyTypeOK, SignerTrusted, KeySources
<1>7. RotationServes'
  BY DEF RotationServes, KeyTypeOK, StoreFits
<1> QED BY <1>1, <1>2, <1>3, <1>4, <1>5, <1>6, <1>7

LEMMA PutAwayKeyInv ==
  ASSUME KeyFilesAssumption, KeyInv, NEW f \in {"private", "public", "trusted"}, PutAway(f)
  PROVE  KeyInv'
<1> USE DEF KeyInv, PutAway, GoOn, NotRun, NotSigning, NotVerifying, Envelope
<1>1. KeyTypeOK'
  BY DEF KeyTypeOK, PrivateFiles, PublicFiles, KeySources, KeyIds, KeygenRuns, VerifyRuns
<1>2. SignerTrusted'
  BY DEF SignerTrusted, KeyTypeOK
<1>3. PairComplete'
  BY DEF PairComplete, KeyTypeOK, AloneWrites, Busy
<1>4. AloneWrites'
  BY DEF AloneWrites, KeyTypeOK, Running
<1>5. SignerReady'
  BY DEF SignerReady, KeyTypeOK, PairComplete
<1>6. StoreFits'
  BY DEF StoreFits, KeyTypeOK, SignerTrusted, KeySources
<1>7. RotationServes'
  BY DEF RotationServes, KeyTypeOK, StoreFits
<1> QED BY <1>1, <1>2, <1>3, <1>4, <1>5, <1>6, <1>7

LEMMA SignLoadKeyInv ==
  ASSUME KeyFilesAssumption, KeyInv, NEW source \in KeySources, SignLoad(source)
  PROVE  KeyInv'
<1> USE DEF KeyInv, SignLoad, GoOn, NotRun, NotSigning, NotVerifying, Envelope
<1>1. KeyTypeOK'
  <2>1. load_private_key(source) \in KeyIds
    BY DEF load_private_key
  <2>2. (phase = "both") \in BOOLEAN
    OBVIOUS
  <2> QED BY <2>1, <2>2 DEF KeyTypeOK
<1>2. SignerTrusted'
  BY DEF SignerTrusted, KeyTypeOK
<1>3. PairComplete'
  BY DEF PairComplete, KeyTypeOK, AloneWrites, Busy
<1>4. AloneWrites'
  BY DEF AloneWrites, KeyTypeOK, Running
<1>5. SignerReady'
  <2>1. load_private_key(source) \in KeyIds /\ file[source] = {Private(load_private_key(source))}
    BY DEF load_private_key
  <2>2. ASSUME phase = "both" PROVE source = "private"
    <3>1. PICK k \in KeyIds : file.public = {Public(k)} /\ Public(k) \in file.trusted
      BY <2>2 DEF PairComplete
    <3> QED BY <2>1, <3>1, BlocksApart DEF KeySources, load_private_key
  <2> QED BY <2>1, <2>2 DEF SignerReady
<1>6. StoreFits'
  BY DEF StoreFits, KeyTypeOK, SignerTrusted, KeySources
<1>7. RotationServes'
  BY DEF RotationServes, KeyTypeOK, StoreFits
<1> QED BY <1>1, <1>2, <1>3, <1>4, <1>5, <1>6, <1>7

LEMMA SignWriteKeyInv ==
  ASSUME KeyFilesAssumption, KeyInv, SignWrite
  PROVE  KeyInv'
<1> USE DEF KeyInv, SignWrite, GoOn, NotRun, NotSigning, NotVerifying, Envelope
<1>1. KeyTypeOK'
  <2>1. signer.key \in KeyIds
    BY DEF SignerReady
  <2>2. (verifier.onTrack /\ verifier.at = "done") \in BOOLEAN
    OBVIOUS
  <2>3. verifier' \in VerifyRuns
    BY <2>2 DEF KeyTypeOK, VerifyRuns
  <2> QED BY <2>1, <2>3 DEF KeyTypeOK
<1>2. SignerTrusted'
  <2> SUFFICES ASSUME signer.inTurn, phase = "both"
      PROVE  file.trusted # Absent /\ Public(signer.key) \in file.trusted
    BY DEF SignerTrusted
  <2> QED BY BlocksApart DEF SignerTrusted, SignerReady, PairComplete
<1>3. PairComplete'
  <2> SUFFICES ASSUME signer.inTurn, phase = "both"
      PROVE  file.public = {Public(signer.key)}
    BY DEF PairComplete, Busy
  <2> QED BY BlocksApart DEF SignerReady, PairComplete
<1>4. AloneWrites'
  BY DEF AloneWrites, KeyTypeOK, Running
<1>5. SignerReady'
  BY DEF SignerReady, KeyTypeOK, PairComplete
<1>6. StoreFits'
  BY DEF StoreFits, KeyTypeOK, VerifyRuns
<1>7. RotationServes'
  BY DEF RotationServes, KeyTypeOK, VerifyRuns
<1> QED BY <1>1, <1>2, <1>3, <1>4, <1>5, <1>6, <1>7

LEMMA SignDiesKeyInv ==
  ASSUME KeyFilesAssumption, KeyInv, SignDies
  PROVE  KeyInv'
<1> USE DEF KeyInv, SignDies, GoOn, NotRun, NotSigning, NotVerifying, Envelope
<1>1. KeyTypeOK'
  BY DEF KeyTypeOK, PrivateFiles, PublicFiles, KeySources, KeyIds, KeygenRuns, VerifyRuns
<1>2. SignerTrusted'
  BY DEF SignerTrusted, KeyTypeOK
<1>3. PairComplete'
  BY DEF PairComplete, KeyTypeOK, AloneWrites, Busy
<1>4. AloneWrites'
  BY DEF AloneWrites, KeyTypeOK, Running
<1>5. SignerReady'
  BY DEF SignerReady, KeyTypeOK, PairComplete
<1>6. StoreFits'
  BY DEF StoreFits, KeyTypeOK, SignerTrusted, KeySources
<1>7. RotationServes'
  BY DEF RotationServes, KeyTypeOK, StoreFits
<1> QED BY <1>1, <1>2, <1>3, <1>4, <1>5, <1>6, <1>7

LEMMA VerifyRefusesKeyInv ==
  ASSUME KeyFilesAssumption, KeyInv, NEW source \in KeySources, VerifyRefuses(source)
  PROVE  KeyInv'
<1> USE DEF KeyInv, VerifyRefuses, GoOn, NotRun, NotSigning, NotVerifying, Envelope
<1>1. KeyTypeOK'
  <2>1. (source = "trusted" /\ phase # "off") \in BOOLEAN
    OBVIOUS
  <2>2. verifier' \in VerifyRuns
    BY <2>1 DEF VerifyRuns, KeyTypeOK
  <2> QED BY <2>2 DEF KeyTypeOK
<1>2. SignerTrusted'
  BY DEF SignerTrusted, KeyTypeOK
<1>3. PairComplete'
  BY DEF PairComplete, KeyTypeOK, AloneWrites, Busy
<1>4. AloneWrites'
  BY DEF AloneWrites, KeyTypeOK, Running
<1>5. SignerReady'
  BY DEF SignerReady, KeyTypeOK, PairComplete
<1>6. StoreFits'
  BY DEF StoreFits, KeyTypeOK, SignerTrusted, KeySources
<1>7. RotationServes'
  <2>1. ASSUME source = "trusted" PROVE phase = "off"
    BY <2>1, BlocksApart DEF TrustRefused, SignerTrusted, KeyTypeOK, PublicFiles, Public
  <2>2. verifier'.result = "error" /\ verifier'.onTrack = (source = "trusted" /\ phase # "off")
    OBVIOUS
  <2>3. ExitCode("error") = 2
    BY DEF ExitCode
  <2>4. ~verifier'.onTrack
    BY <2>1, <2>2
  <2>5. ExitCode(verifier'.result) # 0
    BY <2>2, <2>3
  <2> HIDE DEF VerifyRefuses
  <2> QED BY <2>4, <2>5 DEF RotationServes
<1> QED BY <1>1, <1>2, <1>3, <1>4, <1>5, <1>6, <1>7

LEMMA VerifyLoadKeyInv ==
  ASSUME KeyFilesAssumption, KeyInv,
         NEW source \in KeySources, NEW require \in BOOLEAN, VerifyLoad(source, require)
  PROVE  KeyInv'
<1> USE DEF KeyInv, VerifyLoad, GoOn, NotRun, NotSigning, NotVerifying, Envelope
<1>1. KeyTypeOK'
  <2>1. load_trusted_keys(source) \in SUBSET KeyIds
    BY DEF load_trusted_keys, TrustRefused, KeyTypeOK, KeySources, PrivateFiles, PublicFiles,
           Private, Public, Absent
  <2>2. (source = "trusted" /\ phase # "off") \in BOOLEAN
    OBVIOUS
  <2>3. verifier' \in VerifyRuns
    BY <2>1, <2>2 DEF VerifyRuns
  <2> QED BY <2>3 DEF KeyTypeOK
<1>2. SignerTrusted'
  BY DEF SignerTrusted, KeyTypeOK
<1>3. PairComplete'
  BY DEF PairComplete, KeyTypeOK, AloneWrites, Busy
<1>4. AloneWrites'
  BY DEF AloneWrites, KeyTypeOK, Running
<1>5. SignerReady'
  BY DEF SignerReady, KeyTypeOK, PairComplete
<1>6. StoreFits'
  <2>1. source # "unset" => load_trusted_keys(source) # {}
    BY DEF load_trusted_keys, TrustRefused
  <2>2. ASSUME source = "trusted", phase # "off" PROVE signature.key \in load_trusted_keys(source)
    BY <2>2 DEF load_trusted_keys, SignerTrusted, Public
  <2> QED BY <2>1, <2>2 DEF StoreFits
<1>7. RotationServes'
  BY DEF RotationServes, KeyTypeOK, StoreFits
<1> QED BY <1>1, <1>2, <1>3, <1>4, <1>5, <1>6, <1>7

(* What becomes of the envelope that a verify command reads. *)
LEMMA EnvelopeRead ==
  ASSUME KeyFilesAssumption, KeyTypeOK, NEW store, NEW require
  PROVE  LET outcome == Verify(signature, TheArtifact, store, require)
         IN  /\ outcome \in {"verified", "unverifiable", "refused"}
             /\ signature.key \in store => outcome = "verified"
             /\ store # {} => outcome \in {"verified", "refused"}
<1>1. signature # None /\ signature.digest = TheArtifact
  BY DEF KeyFilesAssumption, KeyTypeOK, KeyIds, TheArtifact
<1> QED BY <1>1 DEF Verify

LEMMA VerifyReadKeyInv ==
  ASSUME KeyFilesAssumption, KeyInv, VerifyRead
  PROVE  KeyInv'
<1> USE DEF KeyInv, VerifyRead, GoOn, NotRun, NotSigning, NotVerifying, Envelope
<1>1. KeyTypeOK'
  <2>1. Verify(signature, TheArtifact, verifier.store, verifier.require)
          \in {"verified", "unverifiable", "refused"}
    BY EnvelopeRead
  <2>2. (verifier.onTrack /\ phase # "off") \in BOOLEAN
    OBVIOUS
  <2>3. verifier' \in VerifyRuns
    BY <2>1, <2>2 DEF VerifyRuns, KeyTypeOK
  <2> QED BY <2>3 DEF KeyTypeOK
<1>2. SignerTrusted'
  BY DEF SignerTrusted, KeyTypeOK
<1>3. PairComplete'
  BY DEF PairComplete, KeyTypeOK, AloneWrites, Busy
<1>4. AloneWrites'
  BY DEF AloneWrites, KeyTypeOK, Running
<1>5. SignerReady'
  BY DEF SignerReady, KeyTypeOK, PairComplete
<1>6. StoreFits'
  BY DEF StoreFits, KeyTypeOK, SignerTrusted, KeySources
<1>7. RotationServes'
  <2> DEFINE outcome == Verify(signature, TheArtifact, verifier.store, verifier.require)
  <2>1. /\ verifier'.at = "done" /\ verifier'.source = verifier.source
        /\ verifier'.result = outcome /\ verifier'.onTrack = (verifier.onTrack /\ phase # "off")
    OBVIOUS
  <2>2. ASSUME signature.key \in verifier.store PROVE outcome = "verified"
    BY <2>2, EnvelopeRead
  <2>3. ASSUME verifier.store # {} PROVE outcome \in {"verified", "refused"}
    BY <2>3, EnvelopeRead
  <2>4. ExitCode("refused") = 1
    BY DEF ExitCode
  <2>5. verifier'.onTrack => verifier'.result = "verified"
    BY <2>1, <2>2 DEF StoreFits
  <2>6. verifier'.source # "unset" /\ ExitCode(verifier'.result) = 0
        => verifier'.result = "verified"
    BY <2>1, <2>3, <2>4 DEF StoreFits
  <2> HIDE DEF outcome, VerifyRead
  <2> QED BY <2>5, <2>6 DEF RotationServes
<1> QED BY <1>1, <1>2, <1>3, <1>4, <1>5, <1>6, <1>7
-----------------------------------------------------------------------------
LEMMA NextKeyInv == ASSUME KeyFilesAssumption, KeyInv, [KeyNext]_keyVars PROVE KeyInv'
<1>1. CASE UNCHANGED keyVars
  BY <1>1 DEF keyVars, KeyInv, KeyTypeOK, SignerTrusted, PairComplete, AloneWrites, SignerReady,
              StoreFits, RotationServes, Busy, Running
<1>2. CASE KeyNext
  BY <1>2, KeygenStartKeyInv, KeygenOpenKeyInv, KeygenPrivateKeyInv, KeygenOpenPublicKeyInv,
     KeygenPublicKeyInv, KeygenDiesKeyInv, TrustTooKeyInv, DropOldKeyInv, PutAwayKeyInv,
     SignLoadKeyInv, SignWriteKeyInv, SignDiesKeyInv, VerifyRefusesKeyInv, VerifyLoadKeyInv,
     VerifyReadKeyInv
     DEF KeyNext
<1> QED BY <1>1, <1>2

LEMMA KeyInvariant == KeySpec => []KeyInv
<1>1. KeyInit => KeyInv
  BY InitKeyInv, KeyFilesAssumption
<1>2. KeyInv /\ [KeyNext]_keyVars => KeyInv'
  BY NextKeyInv, KeyFilesAssumption
<1> QED BY <1>1, <1>2, PTL DEF KeySpec

(* For any number of keygen processes and of keys, any crashes and         *)
(* interleavings: in a rotation done in the documented order every         *)
(* verification says verified, and no broken trust file counts as none     *)
(* (signing.py:36-38, 173-200).                                            *)
THEOREM RotationNeverRefuses == KeySpec => []RotationServes
<1>1. KeyInv => RotationServes
  BY DEF KeyInv
<1> QED BY <1>1, KeyInvariant, PTL

-----------------------------------------------------------------------------
(* All programs (Companions) *)

(* Companions runs one program at a time, and the others stand still: by   *)
(* its definition a behaviour of it is one of each program's own           *)
(* specification.  Nothing is said of programs that run side by side.      *)
LEMMA ProgramsApart == Spec => DemoSpec /\ McpSpec /\ AclSpec /\ DriftSpec /\ KeySpec
<1>1. Init => DemoInit /\ McpInit /\ AclInit /\ DriftInit /\ KeyInit
  BY Zenon DEF Init
<1>2. [Next]_vars => /\ [DemoNext]_demoVars /\ [McpNext]_mcpVars /\ [AclNext]_aclVars
                     /\ [DriftNext]_driftVars /\ [KeyNext]_keyVars
  <2>1. UNCHANGED vars => UNCHANGED <<demoVars, mcpVars, aclVars, driftVars, keyVars>>
    BY Zenon DEF vars
  <2>2. DemoRuns => DemoNext /\ UNCHANGED <<mcpVars, aclVars, driftVars, keyVars>>
    BY Zenon DEF DemoRuns
  <2>3. CollectorsRun => McpNext /\ UNCHANGED <<demoVars, aclVars, driftVars, keyVars>>
    BY Zenon DEF CollectorsRun
  <2>4. AclCheckRuns => AclNext /\ UNCHANGED <<demoVars, mcpVars, driftVars, keyVars>>
    BY Zenon DEF AclCheckRuns
  <2>5. DriftTrackerRuns => DriftNext /\ UNCHANGED <<demoVars, mcpVars, aclVars, keyVars>>
    BY Zenon DEF DriftTrackerRuns
  <2>6. SigningRuns => KeyNext /\ UNCHANGED <<demoVars, mcpVars, aclVars, driftVars>>
    BY Zenon DEF SigningRuns
  <2> QED BY <2>1, <2>2, <2>3, <2>4, <2>5, <2>6, Zenon DEF Next
<1> QED BY <1>1, <1>2, PTL DEF Spec, DemoSpec, McpSpec, AclSpec, DriftSpec, KeySpec

(* What is proved of each program by itself holds of the specification     *)
(* that the run checks, which runs one of them at a time.                  *)
THEOREM ProgramsKeepPromises ==
  Spec => [](/\ EpisodeHonoured /\ RowHonest /\ AuditHonest
             /\ AnswersFromOneList /\ VerdictRight
             /\ SignalsFromWindow /\ ScalerOfWindow /\ RotationServes)
BY ProgramsApart, EpisodesAreHonoured, RowsHonest, AuditsHonest, AnswersAreOfOneList,
   VerdictIsRight, ScalerFits, SignalsAreOfWindow, RotationNeverRefuses, PTL
=============================================================================
