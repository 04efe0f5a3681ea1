-------------------------------- MODULE AclCheck --------------------------------
(***************************************************************************)
(* The acceptance check of the secured broker (scripts/check_acl.py): a    *)
(* device and an ops observer publish markers and conclude from reason     *)
(* codes and deliveries what the device may do.  What the broker really    *)
(* enforces for the device is chosen at deployment, and the live stack     *)
(* publishes on the very topics that are probed.                           *)
(*                                                                         *)
(* A message is its topic and whether its payload is the marker.  Any      *)
(* acknowledgement may miss its timeout.                                   *)
(***************************************************************************)
EXTENDS BrokerAcl

CONSTANTS
  Device,       (* EDGESENSE_CHECK_DEVICE                                  *)
  Sibling,      (* machine-02 of the same site                             *)
  Foreign,      (* EDGESENSE_CHECK_FOREIGN                                 *)
  Deviations    (* grants that an ACL gone wrong has too many or too few   *)

VARIABLES
  grants,       (* what the broker grants the device                       *)
  admits,       (* whom it lets in that it should not                      *)
  at,           (* the next step of main(), 0 before the deployment        *)
  subscribed,   (* the topic filters that the broker knows by now          *)
  wire,         (* deliveries under way: to whom and what                  *)
  inbox,        (* V5Client.messages of the observer and the device        *)
  failed,       (* whether any check failed                                *)
  timedOut      (* history: an acknowledgement or delivery was awaited too *)
                (* long                                                    *)

aclVars == <<grants, admits, at, subscribed, wire, inbox, failed, timedOut>>

AclInit ==
  /\ grants = {} /\ admits = {} /\ at = 0
  /\ subscribed = {} /\ wire = {} /\ inbox = {}
  /\ failed = FALSE /\ timedOut = FALSE

Own(kind) == DeviceTopic(Device, kind)
OwnSensor == Append(Own("sensors"), "vibration")

Message(to, topic, marker) == [to |-> to, topic |-> topic, marker |-> marker]

(* The observer subscribes to all events, the device to two control        *)
(* topics.                                                                 *)
EventsFilter == <<"es", "+", "+", "+", "events">>
ControlTopics == {Own("control"), DeviceTopic(Foreign, "control")}

(* The broker accepts any SUBSCRIBE and enforces reading on delivery, to   *)
(* the subscriptions that it knows.                                        *)
Receivers(known, topic) ==
  (IF /\ EventsFilter \in known /\ Matches(EventsFilter, topic)
      /\ Allowed(OpsGrants, "read", topic)
   THEN {"observer"} ELSE {}) \union
  (IF topic \in ControlTopics \intersect known /\ Allowed(grants, "read", topic)
   THEN {"device"} ELSE {})

Deliver(known, topic, marker) == {Message(to, topic, marker) : to \in Receivers(known, topic)}

(* subscribe_rc, whose result nobody looks at.  If the SUBACK is not there *)
(* in time, the broker may not know of the subscription either.            *)
Subscribe(filters) ==
  \E known \in SUBSET filters, answered \in BOOLEAN :
    /\ answered => known = filters
    /\ subscribed' = subscribed \union known
    /\ timedOut' = (timedOut \/ ~answered)

(* check(name, ok), of which the verdict only needs the ones that failed *)
Checked(ok) == failed' = (failed \/ ~ok)

-----------------------------------------------------------------------------
(* The ACL may have gone wrong, or the anonymous setting, which, without a *)
(* password file, lets wrong passwords in as well.                         *)
Deploy ==
  /\ at = 0 /\ at' = 1
  /\ \/ /\ \E d \in {{}} \union {{g} : g \in Deviations} :
             grants' = (DeviceGrants(Device) \ d) \union (d \ DeviceGrants(Device))
        /\ admits' = {}
     \/ /\ grants' = DeviceGrants(Device)
        /\ admits' \in {{"anonymous"}, {"anonymous", "wrong_password"}}
  /\ UNCHANGED <<subscribed, wire, inbox, failed, timedOut>>

Finished == 13

(* Without the ops observer there is no check: return 1. *)
ConnectObserver ==
  /\ at = 1
  /\ \/ at' = 2 /\ Checked(TRUE) /\ Subscribe({EventsFilter})
     \/ at' = Finished /\ Checked(FALSE) /\ timedOut' = TRUE /\ UNCHANGED subscribed
  /\ UNCHANGED <<grants, admits, wire, inbox>>

(* The observer's subscription reaches the broker too late.  The device's  *)
(* would make no difference, its markers have been sent.                   *)
SubscribedLate ==
  /\ at \notin {0, 1, Finished}
  /\ subscribed' = subscribed \union {EventsFilter}
  /\ UNCHANGED <<grants, admits, at, wire, inbox, failed, timedOut>>

(* The device's client keeps connecting in the background, so that a late  *)
(* CONNACK fails this check only.                                          *)
ConnectDevice ==
  /\ at = 2 /\ at' = 3
  /\ \E answered \in BOOLEAN :
       Checked(answered) /\ timedOut' = (timedOut \/ ~answered)
  /\ UNCHANGED <<grants, admits, subscribed, wire, inbox>>

(* The agent and the other devices go about their business. *)
LiveEvent ==
  /\ at \notin {0, 1, Finished}
  /\ \E d \in {Device, Sibling, Foreign} :
       wire' = wire \union Deliver(subscribed, DeviceTopic(d, "events"), FALSE)
  /\ UNCHANGED <<grants, admits, at, subscribed, inbox, failed, timedOut>>

Arrive(m) ==
  /\ wire' = wire \ {m} /\ inbox' = inbox \union {m}
  /\ UNCHANGED <<grants, admits, at, subscribed, failed, timedOut>>

(* The four publishes: what is tried, and whether it should be allowed.    *)
Probes ==
  <<[topic |-> Own("events"), expected |-> TRUE],
    [topic |-> OwnSensor, expected |-> TRUE],
    [topic |-> DeviceTopic(Foreign, "events"), expected |-> FALSE],
    [topic |-> DeviceTopic(Sibling, "events"), expected |-> FALSE]>>

(* Mutated form: no answer counts as a denial. *)
Judged_NoAnswerDenies(allowed, answered, expected) ==
  IF expected THEN answered /\ allowed ELSE ~answered \/ ~allowed

(* rc in PUB_OK, or rc == NOT_AUTHORIZED; None is neither. *)
Judged(allowed, answered, expected) == answered /\ allowed = expected

Probe ==
  /\ at - 2 \in DOMAIN Probes
  /\ LET p == Probes[at - 2]
         allowed == Allowed(grants, "write", p.topic)
     IN \E answered \in BOOLEAN :
          /\ Checked(Judged(allowed, answered, p.expected))
          /\ timedOut' = (timedOut \/ ~answered)
          /\ wire' = IF allowed THEN wire \union Deliver(subscribed, p.topic, TRUE) ELSE wire
  /\ at' = at + 1
  /\ UNCHANGED <<grants, admits, subscribed, inbox>>

(* The device subscribes, and the observer publishes a marker to both      *)
(* control topics.                                                         *)
SendControl ==
  /\ at = 7 /\ at' = 8
  /\ Subscribe(ControlTopics)
  /\ wire' = wire \union UNION {Deliver(subscribed', DeviceTopic(d, "control"), TRUE) :
                 d \in {x \in {Device, Foreign} :
                          Allowed(OpsGrants, "write", DeviceTopic(x, "control"))}}
  /\ UNCHANGED <<grants, admits, inbox, failed>>

(* The marker, and nothing else, on this topic. *)
SeenBy(to, topic) == Message(to, topic, TRUE) \in inbox

(* Nothing of this is still on its way. *)
Landed(to) == \A m \in wire : m.to # to \/ ~m.marker

(* marker_on: seen, or the time is up. *)
AwaitOwnControl ==
  /\ at = 8 /\ at' = 9
  /\ Checked(SeenBy("device", Own("control")))
  /\ timedOut' = (timedOut \/ (~SeenBy("device", Own("control")) /\ ~Landed("device")))
  /\ UNCHANGED <<grants, admits, subscribed, wire, inbox>>

AwaitForeignControl ==
  /\ at = 9 /\ at' = 10
  /\ Checked(~SeenBy("device", DeviceTopic(Foreign, "control")))
  /\ timedOut' = (timedOut \/ ~Landed("device"))
  /\ UNCHANGED <<grants, admits, subscribed, wire, inbox>>

(* A client that should be rejected.  connect() returns None for a CONNACK *)
(* that is late, and that passes for a rejection.                          *)
RejectStranger(who, from) ==
  /\ at = from /\ at' = from + 1
  /\ \E answered \in BOOLEAN :
       /\ Checked(~(answered /\ who \in admits))
       /\ timedOut' = (timedOut \/ ~answered)
  /\ UNCHANGED <<grants, admits, subscribed, wire, inbox>>

(* The observer's cross-check, after a second. *)
CrossCheck ==
  /\ at = 12 /\ at' = Finished
  /\ LET leaked == {m \in inbox : m.to = "observer" /\ m.marker /\ m.topic # Own("events")}
     IN  Checked(SeenBy("observer", Own("events")) /\ leaked = {})
  /\ timedOut' = (timedOut \/ ~Landed("observer"))
  /\ UNCHANGED <<grants, admits, subscribed, wire, inbox>>

AclNext ==
  \/ Deploy
  \/ ConnectObserver
  \/ SubscribedLate
  \/ ConnectDevice
  \/ LiveEvent
  \/ \E m \in wire : Arrive(m)
  \/ Probe
  \/ SendControl
  \/ AwaitOwnControl
  \/ AwaitForeignControl
  \/ RejectStranger("wrong_password", 10)
  \/ RejectStranger("anonymous", 11)
  \/ CrossCheck

AclSpec == AclInit /\ [][AclNext]_aclVars

-----------------------------------------------------------------------------
(* Properties *)

(* No event topic of another device is open to this one. *)
NoneTrespassed ==
  \A d \in {Foreign, Sibling} : ~Allowed(grants, "write", DeviceTopic(d, "events"))

(* Whether the device is confined, in what the check looks at. *)
ActsConfined ==
  /\ NoneTrespassed
  /\ Allowed(grants, "write", Own("events")) /\ Allowed(grants, "write", OwnSensor)
  /\ Allowed(grants, "read", Own("control"))
  /\ ~Allowed(grants, "read", DeviceTopic(Foreign, "control"))

(* With the live agent publishing on the probed topics, the verdict is     *)
(* right as long as nothing is late: PASS exactly when the device can do   *)
(* what it should and nothing of what it should not, and strangers stay    *)
(* out.  A late answer never turns a publish that is allowed by mistake    *)
(* into a PASS (check_acl.py:3-12, 45).                                    *)
VerdictRight ==
  at = Finished =>
    /\ ~timedOut => (~failed <=> ActsConfined /\ admits = {})
    /\ ~failed => NoneTrespassed
=============================================================================
