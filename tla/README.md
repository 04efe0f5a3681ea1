# EdgeSense: TLA+ models and proofs

EdgeSense scores sensor readings at the edge and sends only anomalies
upstream. This directory holds TLA+ specifications of the parts of it that are
concurrent or must survive failures, the TLC configurations that check them on
small instances, and proofs, checked by TLAPS, that all of its safety properties hold
for every number of threads, writers, gates, keys and versions, every capacity, and every
organisation, site and machine.

Contents: [the system](#the-system) · [modules](#modules) · [how the models
relate to the code](#how-the-models-relate-to-the-code) ·
[runs](#runs-and-bounds) · [fairness](#fairness) · [proofs](#proofs) ·
[where code and documents differ](#where-the-code-and-its-documents-differ) ·
[not modelled](#not-modelled) · [plan](#plan)

## The system

| Component | State it keeps | Operations | Talks to |
|---|---|---|---|
| Edge agent, `edge-agent/main.go` | goroutines: one handler per reading, one per `onUp`, the flush ticker's, the status ticker's; Prometheus gauges | handler (score, publish, spool), flush, periodic flush, shutdown | local broker (readings), inference server (HTTP), uplink |
| Event buffer, `edge-agent/buffer.go` | a JSON-Lines file under one mutex, capacity 10 000 | `Add`, `Len`, `DrainTo` | the agent's threads; `DrainTo` calls back into Publish while it holds the mutex |
| MQTT uplink, `edge-agent/uplink.go` | paho client: connection, unacknowledged publishes | `Publish`, `Connected`, `Start`, `Close`, `OnConnect` → `go onUp()` | uplink broker |
| CoAP uplink, `edge-agent/coap.go` | `conn`, `up`, `lastOK` under a mutex; `done` | the same, plus `probe`, `markUp`, `markDown`, `touch` | CoAP receiver, UDP |
| CoAP receiver, `coap-receiver/` | its own paho client | `eventsHandler`: 2.04, 4.00, 5.03 | uplink broker |
| Inference server, `inference/server.py` | `_state`, `_shadow`, `_drift`, gauges; `_state_lock` | `/score`, `/reload`, `/shadow/load`, `/shadow/unload`, SIGHUP | model files, registry |
| Shadow and drift trackers | counters under a lock; a ring buffer and a scaler | `observe`, `error`, `report`; `observe`, `reset`, `signals` | called by `/score` and by swaps |
| Model store, `ml/manifest.py`, `ml/signing.py` | bundle, signature, manifest and card files | `save_bundle`, `verify_artifact` | trainer, gate, server |
| Signing tool, `ml/signing.py` | private, public and trust file, envelope | `keygen`, `sign`, `verify` | the operator, store |
| Promotion gate, `ml/promote.py` | champion and candidate files | `run_gate`, `check_shadow` | server (`/shadow`, `/reload`), store |
| Registry, `inference/registry.py`, `ml/register_model.py` | MLflow versions and their tags, the model's `champion_version` tag; a download cache | `resolve_champion_version`, `fetch_champion`, register | server, gate |
| Simulator, `simulator/simulate.py` | fault and ticks left per machine, a queue of commands | publish a reading, apply a command | local broker; commands of demos and MCP server |
| MCP server, dashboard, `mcp_server/`, `dashboard/` | one shared collector with a bounded list of events | make it on first use, collect, query | uplink broker |
| Demo, `scripts/demo.py` | everything it received | inject a fault, watch the episode, count events, audit | simulator, agent, both brokers |
| Topic layouts, five copies | `EDGESENSE_ORG`, `EDGESENSE_SITE` | topics, filters, and the machine in a topic | every program |
| Broker ACL, `scripts/gen_broker_auth.py`, `scripts/check_acl.py` | generated grants; the checks' results | generate; probe a live broker | uplink broker |
| Deployment, Azure | configuration | — | — |

What is hard about it:

- **Concurrency.** `SetOrderMatters(false)` gives every reading a goroutine;
  reconnects and the 30 s ticker flush the same file; a drain publishes with
  the file's mutex held. The CoAP prober, the publishers and `Close` change one
  connection. FastAPI runs the server's endpoints on a thread pool, and a
  signal handler on the main thread.
- **Failure.** The uplink comes and goes, acknowledgements come late, the disk
  refuses, the process stops at any moment, a model file is missing or bad.
- **Retries.** Every failure ends in the buffer and is tried again, although the
  first attempt may still succeed.
- **Files and remote calls one at a time.** A bundle is four files, a promotion
  in the registry four remote calls; savers, gates and registrars share them
  without a lock and may die in between, and a sidecar reads at any moment.
- **Shared agreements.** Five programs compute topics for themselves; the demo
  judges a pipeline from a stream that is still arriving; the ACL check probes
  topics on which the live agent publishes.
- **Boundaries.** The buffer is full during a drain; one event the far side
  never accepts; a second signal while the first is served.

The properties that make each component correct:

- *Agent and buffer*: no event without a place, none with two; the file changes
  at its ends only; what leaves it was delivered or was the oldest of a full
  file; every event ends delivered or is a known loss; no thread waits for ever.
- *Uplinks*: nil from Publish means the far side has the event; the link state
  has an open socket behind it, is noticed to be dead and recovers; no socket leaks.
- *Inference server*: after any mix of reloads, the champion, its drift
  reference, its gauge and the shadow's evidence agree; each load takes effect at
  once and as a whole, so the last one serves; a rejected load changes nothing;
  every request is answered.
- *Model store*: a save that nothing disturbed leaves four files that belong
  together, whatever was left before it; a sidecar accepts by the policy, and
  what it reports as verified was signed by a key it trusts.
- *Signing tool*: a key rotation in the documented order never makes a
  verification fail, and a broken trust file never counts as none.
- *Registry*: the pointer names a completely recorded version; both ways to
  resolve the champion agree; a node serves what it resolved, and boots offline.
- *Promotion gate*: what it promotes clears the bar, is no worse than the
  champion it was compared with, and earned the evidence itself.
- *Topics and ACL*: what one program publishes another one's filter takes in, and
  the machine is read off it; no topic is open to two devices.
- *Simulator, demo, collectors, ACL check, drift tracker*: a reading's label is
  that of the fault asked for; a report is possible and a verdict right however
  late things arrive; all callers are answered from one list; signals come from
  one window and, without a reset in between, one scaler.

PROJECT.json lists all components, and all hazards with the line each bites at.

## Modules

```
StoreForward           what the agent promises about an event
     ^  implemented by (checked: edge_agent; proved: EdgeAgentProofs)
EdgeAgent              threads, buffer, gauge, any uplink that keeps the contract
     ^            ^    implemented by (Contract; checked: mqtt_uplink, coap_safety;
     |            |    proved: MqttUplinkProofs, CoapUplinkProofs)
MqttUplink   CoapUplink    the same threads over paho / over CoAP and the receiver

ModelServing           what the sidecar promises about the models it serves
     ^  implemented by (checked: inference; proved: InferenceServerProofs)
InferenceServer        the sidecar's endpoints, SIGHUP, shadow and drift trackers

Signing                what verify_artifact decides (operators)
     ^            ^    used by
ModelStore   Registry  save_bundle against a loading sidecar; register_model, the
                       champion's resolution, the download cache, boot and reload
KeyFiles               keygen, sign and verify and the key files between them, uses
                       Signing as well

PromotionGate          the gate, direct training, a sidecar that shadows

Topics                 both topic layouts, as every program computes them (operators)
     ^            ^    used by
BrokerAcl    Simulator the generated grants; the machines' fault episodes
     ^            ^    used by
AclCheck     Demo      check_acl.py on a live broker; demo.py against the simulator
Collectors             the shared event collectors of MCP server and dashboard
DriftTracker           the ring, its reset and signals(), inside the sidecar
Companions             Demo, Collectors, AclCheck, DriftTracker and KeyFiles, one at
                       a time

<module>Proofs         inductive invariants and theorems of EdgeAgent, MqttUplink,
                       CoapUplink, InferenceServer, ModelStore, Registry,
                       PromotionGate, and of all the Companions
MC*                    instances for TLC: symmetry sets, summaries of evaluations
```

`MqttUplink` and `CoapUplink` EXTEND `EdgeAgent` and reuse its actions, adding
the state of their transport. The abstract transport of `EdgeAgent` is checked,
not assumed: its four actions are a guard, which is the contract (`PublishOk` only
for an event that the broker has), and an effect (`ReturnsNil`, `ReturnsError`,
`ComesUp`, `Arrives`). The uplinks take the effects alone, under the
guards of their own code; a PUBACK that ended the wrong wait, or a 4.xx taken for
success, would be a step that `EdgeAgent` has not. `Contract == Spec` says
that there is none. It is proved as well, from `AcksMatch` (whom a PUBACK ends the wait of)
and `ExchangesMatch` (what a 2.04 was the answer to), which are theorems of
their own.

The model side is split by what interleaves: `InferenceServer` has the threads
of one sidecar and takes a load as one step; `ModelStore` opens that step up
against the writes of `save_bundle`; `Registry` and `PromotionGate` take a save
as one step and look at the processes around it.

`Companions` is no composition: the five share operators and no state, its
initial states choose which one runs, and one run checks them all.

## How the models relate to the code

### EdgeAgent

An event is an identity: two readings never make the same event. `Events` is
finite, so a run sees each at most once; a thread is a named place in the code.

| Model | Code |
|---|---|
| `file` | the contents of the buffer file; `<<>>` is also the removed file |
| `lock` | `EventBuffer.mu`, held over several steps only by `DrainTo` |
| `pc[h]`, `hand[h]` of a handler | from `ev := event{...}` (main.go:145) to its return |
| `pc[f]`, `hand[f]` of a flusher | `flush`; `hand` is `evs[i:]` in `DrainTo` |
| `seen`, `depth` | `buffer.Len()` returned and not yet stored; the gauge |
| `connected` | `uplink.Connected()` and the gate in `Publish` |
| `handed`, `delivered` | what was given to the transport; what the far side has |
| `Take` | the handler up to the event: decoding, scoring and `IsAnomaly` |
| `Gate`, `Call`, `PublishOk`, `PublishErr` | `uplink.Publish` |
| `Add`, `AddFails` | `buffer.Add`, and its error: EVENT LOST |
| `Tick`, `CheckLen` | the ticker's two tests, which are two reads |
| `DrainStart`, publish steps, `Rewrite` | `DrainTo` |
| `Measure`, `SetGauge` | `bufferDepth.Set(float64(buffer.Len()))` |
| `LinkUp`, `LinkDown` | `go onUp()`; a lost link |
| `Restart` | shutdown or crash, then start: no goroutine is waited for |

`Add` and `Len` are one step each: between Lock and Unlock they touch only the
file, which nobody touches without the lock. A reading that is not scored or
not anomalous changes none of this state and is not a step. `taken` and
`dropped` are history variables.

`LinkUpDeaf` is a reconnect in single-broker mode whose subscribe fails
(main.go:174-177): the link is up and no flush is started. That no readings
arrive until the next reconnect is not used, `Take` stays possible.

### MqttUplink

paho and the broker are external and modelled as uplink.go uses them: `store` is
paho's set of unacknowledged publishes, `tok` the token a goroutine waits for.
A caller that gives up after `publishTimeout` leaves its publish in the store
(`GiveUp`); a lost connection makes the unacknowledged ones go out again on the
next one. `copies` counts how often the broker received an event.

### CoapUplink

`connected`, `conn` and `recent` are `c.up`, `c.conn` and whether `lastOK` lies
within `coapProbeInterval` of the next tick. Each section under `c.mu` is one
step; `via[t]` is the conn a publisher read in its gate and keeps using. The
receiver's answer, its arrival (`PostReplied`), the failure (`PostFailed`, which
includes `markDown`) and the return of the error are separate steps. `late`
holds events whose request still travels after its caller gave up. `Poison`
events are the ones `validate` (coap-receiver/handler.go) refuses.

### InferenceServer

Every read and every write of state that is shared outside `_state_lock` is a
step of its own: the snapshot of `_state`, the observation, the two halves of
`DriftTracker.signals`, the gauges, the read of `_shadow`, the tracker's update;
and in a swap `_state`, `_drift.reset`, the gauges, the tracker. `Load` is one
step: signature check, deserialisation and validation in one. A bundle is a
number, larger when written later; `Foreign` ones name features the `Reading`
class lacks. `Outer` and `Inner` are the frames of `_on_sighup`; a frame below
another one does not move, and while any runs the event loop neither dispatches
requests nor sends responses. `seen` and `lastLoaded` are histories.

`ModelServing` has neither threads nor lock nor the steps of a swap: four
variables (what the sources hold, the champion, the shadow, the shadow's report)
and an action for each thing an operator can ask of the sidecar. The sidecar
implements it under a mapping (`Serving`, `Shadowing`, `Evidence`) in which a load takes
effect when it reads its source: from there to the last step of the swap the
champion, or the shadow, is what was read and the report is empty, whatever
`_state`, `_shadow` and the tracker still hold. That `Count` takes any champion is the
code's doing: a request under way during a reload counts its old one.

### Signing and ModelStore

A bundle is a number, and so is its digest; an envelope is the digest it covers
and the key it was made with. `Verify` is the decision table of
`verify_artifact`, corner by corner (no signature, digest that does not fit,
empty trust store, untrusted key, each with and without
`EDGESENSE_REQUIRE_SIGNATURE`). A malformed or forged envelope is left out.

`artifact`, `sig`, `manifest`, `card` are the four files. Each write of
`save_bundle` is a step (`Sign`, `Move`, `Unsign`, `WriteManifest`,
`WriteCard`): all are a temp file and an `os.replace`, or an unlink. `Begin`
covers what precedes the first write; `Abort` is a kill or an exception. The
sidecar's load is `StartLoad`, `FindSig` (`exists()`), `ReadSig`,
`HashArtifact`, `LoadArtifact`: five reads between which any write may come.
`solo`, `clean`, `quiet` and `replaced` are histories that say which saves and
loads nothing else came near.

### KeyFiles

A key is a number, a key file the set of its PEM blocks; `Absent` is a block
that no loader accepts. `keygen` opens (and truncates) and writes the private
file, then the public one, a step each, with `--force` or without, and may die
at any of them; two may run at once. `sign` loads and writes, `verify` loads
and reads. The operator's own steps are `TrustToo` (concatenate the public
file to the trust file), `DropOld` and `PutAway`. They come in any order;
`phase` follows how far they have kept to the documented one (trust the new
key, re-sign, drop the old), and `alone`, `inTurn`, `onTrack` say which
commands belong to it; all four are histories. The artifact stays the same.

### Registry

`last`, `upload`, `described`, `champions`, `pointer` are what MLflow holds: the
versions, their artifacts, and the tags `edgesense_version`, `role` and
`champion_version`. A registrar's remote calls are a step each; `log_artifacts`
is one step, and `dir` is the directory it uploads. The node's fetch is
`Resolve`, `Download`, `LoadCached`, with `Unreachable` at any point of it:
part of the download may have reached `cache`, which outlives the process and
which nothing empties (`Over`). All bundles are valid here; the ones that are
not are `InferenceServer`'s.

### PromotionGate

A version has one summary (`quality`), because the evaluation is seeded; which
one is arbitrary. `Promotes` is `failures == []`: `ClearsBar` (`check_bar` and
the parity bar), `NoWorse` (`compare_to_champion`), `Supports` (`check_shadow`).
A run reads the champion, the report and writes the candidate and the champion
in four steps; a kill at any of them is `Die`. Training writes the champion's
path without a gate. The report is the live one or one that was put into a file
before (`archive`); neither is tied to a champion, as `check_shadow` does not look. Two
versions never share a name: `model_version` has a resolution of one second, and two
trainings that end in the same second at the same commit are left out.
False-positive rates are counted in steps of `FP_TOLERANCE`. `gated`, `evidenced` and `earned` are histories.

### Topics, BrokerAcl and AclCheck

A topic is the sequence of its levels. Each operator of `Topics` is one
function of one program, under its name there; where two programs have the
same function the map names one and the comments both. `Matches` is MQTT's.
A grant is an access and a filter. `AclCheck` runs the four probes, the two
control messages and the cross-check of `check_acl.py` against a broker whose
grants for the device are the generated ones, or one grant more or less.
`LiveEvent` is the agent's traffic on the probed topics; any acknowledgement or
delivery may miss its deadline (`timedOut`), a SUBACK too, whose result the script
does not look at: the broker may then learn of the subscription late or never
(`subscribed`). A SUBSCRIBE is never denied, as mosquitto does not
(check_acl.py:161-162). Of the broker's authentication
only its anonymous setting goes wrong (`admits`). A CONNACK that is late
counts as a rejection, so that, unlike a late answer to a publish, it lets the
check pass; `VerdictRight` says so by leaving strangers to the case without delay.

### Simulator and Demo

`queue` is `control_q`, filled by paho's thread; `turn` is where the main loop
is: reading the queue (0), or at the i-th machine. `Ignore`, `Clear`, `Start` and `Die`
are the ways through `apply_control`, `Step` and `StepIntoFault` those through
`Machine.step`. A reading is its label, its `ts` the number of the round.
`Demo` is one scenario of `main()` and the audit. `Feed`'s lists only matter when
`main()` looks at them, so what arrived in between is taken in then; an event
about any published reading may arrive at any time, repeated, and on both
brokers, which covers whatever agent, sidecar and outages make of it. Readings
arrive in order but any may be missing, QoS 0 as they are. A scenario may then flag more
readings than the demo has seen of the episode ("3/2 faulty readings flagged",
demo.py:197); `RowHonest` bounds the count by the episode's length, and by the readings seen
only when none of the episode is missing.

### Collectors

A caller goes through `_get_collector` (or `st.cache_resource`) and then reads.
`made` keeps every collector ever started, the ones whose start failed
halfway too: their clients go on. `heard` is a history.

### DriftTracker

A reading is the number of its observation, a scaler the number of the reset
that brought it. `reset` is three steps under the lock, `signals` is `Copy`
under the lock and `ReadMean`, `ReadScale` after it.

## Runs and bounds

| Run | Module | Shows |
|---|---|---|
| `edge_agent` | EdgeAgent | `Accounted`, `OnePlace`, `SpoolDiscipline`, and that the agent implements `StoreForward` |
| `mqtt_uplink` | MqttUplink | paho keeps the `Contract`; without a fault nothing is received twice; events settle, the file ends empty, handlers return |
| `coap_safety` | CoapUplink | the `Contract`; an up link has an open conn; no stray sockets |
| `coap_liveness` | CoapUplink | dead links are noticed, links recover, events settle |
| `inference` | InferenceServer | swaps end consistent, evidence is about its shadow, the sidecar implements `ModelServing`; every score is answered, the state lock is always given back |
| `model_store` | ModelStore | undisturbed saves repair and loads follow the policy; what is verified was signed; the signature comes first |
| `registry` | Registry | pointer and tags agree, a node serves what it resolved, signed champions are not refused, offline nodes boot |
| `promotion_gate` | PromotionGate | the bar, the comparison and the evidence hold of what is promoted |
| `companions` | Companions | readings carry the label asked for; the demo's row and audit are possible; one list of events; right verdicts on right and wrong ACLs; signals of one window and one scaler; a key rotation never makes a verification fail |

The other three runs each check one statement of the documents that the code does
not keep; see [below](#where-the-code-and-its-documents-differ).

Bounds, and why they are enough to be interesting:

- **Handlers, Reconnects 1, Periodic**: two handlers in `edge_agent`, so that two
  Adds and two drains can overlap; one beside both flushers in the transports' runs.
  A second `onUp` goroutine is a second drain, which the periodic one already
  is. `Reconnects` bounds how many `onUp` goroutines are alive at once: the link
  does not come up while none is free. The theorems hold for any sets.
- **Events 3, Capacity 2** (`edge_agent`): the file overflows while a drain that
  read it full is under way. The transports' runs have two events.
- **MaxFaults** (MqttUplink, CoapUplink): how many things go wrong, of any kind,
  at any time: a lost connection or path, a late acknowledgement or answer, a
  disk error (MQTT), a restart, `Close`. Two in `coap_liveness`, else one.
  Failures that follow from an earlier one (a POST on a dead path) are free.
  `CoapUplink` leaves disk errors to `MqttUplink`, the buffer being the same.
- **PacketIds 3**: more than the threads that can wait at once; a full set blocks
  a publish, as paho does. **MaxCopies 2** saturates the count.
- **Conns 4**: sockets in use, probed, and two still referred to by publishers.
- **MaxBundles, MaxRequests, MaxSignals**: changes of the sources, admin requests
  and signals in a behaviour. With two requests and a signal, three
  reloads, one of them of a newer bundle, overlap with a scorer.
- **Writers 2, Keys 2, MaxSaves 2** (`model_store`): two saves that overlap, or an
  undisturbed one over the remains of another, each signed with either key or
  unsigned; every trust store and both policies are initial states.
- **Registrars 2, Keys 1, MaxBundles 2** (`registry`): two versions, each
  promoted or not, of two bundles or the same one; a cache with the files of
  the first when the second arrives.
- **Gates 2, MaxVersions 2, MaxScored 1, two summaries** (`promotion_gate`): a
  model at the bars, and a blind one without false alarms, which fails the bar
  and than which the other is worse. One
  reading is all the evidence the bar asks for here; the theorems hold for any
  bar and any number of versions.
- **MinSamples 1**: the drift window is either too short or long enough; the
  fill count saturates there.
- **Machines 2, MaxRounds 3, MaxCommands 1, MaxEpisodes 1, Ticks 2**
  (`companions`, demo): three readings each are room for an episode of two and its
  end, for the one command that may come before or into it (for the right machine, the
  wrong one, none, with ticks that are no number, or on the flat topic), and for
  one random episode. `MaxEpisodes` counts commanded ones as well.
- **Callers 2, Endpoints 2, MaxMade 2, MaxEvents 2, MaxArrivals 3**
  (collectors): two first calls at once, a second start after a failed one, and
  a list that overflows; answers of up to two events, and a limit of 0,
  which `list_recent_events` takes for one. `Endpoints` is the dashboard's; a single endpoint has
  fewer ways to fail halfway.
- **Deviations** (ACL check): each generated grant missing, or one too many: the
  gateway's, the wildcards of the ops, another tenant's, all control topics;
  or a broker that admits anonymous clients, with or without wrong passwords.
- **Keygens 2, MaxKeys 3** (signing): a `keygen` that dies or overlaps another,
  and the one that completes the pair after it.
- **Window 3, MinSamples 2, MaxReadings 5, MaxResets 2, Scrapers 2** (drift): the
  ring goes round, is reset full and in part, and two resets meet two scrapes.

Symmetry is used in safety runs only, over events, handlers, writers,
registrars, gates, keys, callers and event sources, which no action tells apart. Deadlock is checked in every run but
`sighup_returns`, whose finding is a process that stops, and `companions`, whose
demo and ACL check end.

Every module that keeps state by many processes has a type invariant, and each
is proved. TLC evaluates `EdgeAgent`'s.

## Fairness

Weak fairness of the system's own steps, and none of its environment:

- A goroutine or thread that can move does (`Working(t)`, `Scoring`, `Loading`):
  the Go scheduler, the thread pool and timers.
- MQTT: an open connection carries what is queued on it, and paho reconnects
  (`SetAutoReconnect`, `SetConnectRetry`). That faults end is `MaxFaults`.
- CoAP: the prober's ticker ticks and its timeouts fire, and the receiver
  answers what reaches it. Whether the path works is left to the network; the
  properties that need it say `<>[]reachable`.
- A closed CoAP transport means that the process is about to exit
  (`closing /\ CoapRestart`).
- Readings, admin requests, signals, new bundles, faults: never.

`LockReleased` says of `_state_lock` what callers need: whoever holds it gives it
back. It is checked with at most one SIGHUP; two are `sighup_returns`.
`HeldForFiveSteps`, `OneWayToWait` and `OneSignalNeverStuck` are its safety half,
proved: the holder's next step is never blocked with one SIGHUP, and takes it
nearer to the release. `DrainsUnlock` is that of `HandlersReturn`. The companions are
checked for safety only.

The ticker's own fairness matters: `EventuallySettled` fails without
`CheckLen`, since an event spooled after the reconnect flush found the file
empty has nobody else to send it.

## Proofs

All safety properties of the passing runs are theorems, for every value of the
constants that meets the modules' assumptions. A theorem over an `<X>Spec` is
about that program alone; `Spec` is the module's own.

| Module | Theorem | Says |
|---|---|---|
| `EdgeAgentProofs` | `TypeCorrect` | `[]TypeOK`: also that the file never exceeds the capacity |
| | `NoneUnaccounted`, `NeverInTwoPlaces` | `[]Accounted`, `[]OnePlace` |
| | `SpoolDisciplined` | `SpoolDiscipline`, an action property |
| | `AgentImplementsPromise` | `Promised`: `EdgeAgent` implements `StoreForward` |
| | `DrainsUnlock` | a drain that holds the lock waits for nobody's, and comes nearer to its Unlock with each of at most 4 · Capacity + 3 steps |
| `MqttUplinkProofs` | `MqttKeepsContract` | `Contract`: with paho in place the agent still is `EdgeAgent` |
| | `MqttKeepsPromise` | hence `Promised`, `[]Accounted`, `[]OnePlace` over MQTT |
| | `MqttAcksMatch` | `[]AcksMatch`: who waits has its own publish in the store, and an acknowledgement completes no wait but that publish's |
| | `MqttOnceWithoutFault` | `[]OnceWithoutFault` |
| `CoapUplinkProofs` | `CoapKeepsContract`, `CoapKeepsPromise` | the same over CoAP and the receiver |
| | `CoapSocketsInUse` | `[]SocketsInUse` |
| | `CoapExchangesMatch` | `[]ExchangesMatch`: a 2.04 under way answers the event that was posted, which the receiver's broker has |
| `InferenceServerProofs` | `ServerTyped` | `[]TypeOK` |
| | `SwapsConsistent`, `EvidenceOwn` | `[]SwapConsistent`, `[]EvidenceOwnShadow` |
| | `LastLoadWins` | `[]LastLoadServes`: with no swap under way the last load that read its source serves |
| | `SidecarServesAsPromised` | `ServesAsPromised`: `InferenceServer` implements `ModelServing` |
| | `HeldForFiveSteps` | `HolderAdvances`: the lock's holder is five steps from giving it back at most, and never thrown back |
| | `OneWayToWait`, `OneSignalNeverStuck` | nothing interrupts the holder but a second SIGHUP on top of the first |
| | `StuckForGood` | and then nothing ends the wait: the deadlock of `sighup_returns`, for any instance |
| `ModelStoreProofs` | `StoreTyped` | the type invariant |
| | `SignatureHonest`, `StoreConsistent`, `LoadByPolicy` | `[]VerifiedWasSigned`, `[]CleanSaveAgrees`, `[]QuietLoadByPolicy` |
| | `SignatureFirst` | `SignedBeforeMoved`, an action property |
| `RegistryProofs` | `RegistryTyped` | the type invariant |
| | `PointerIsComplete`, `ResolutionsAgree` | `[]PointerComplete`, `[]PathsAgree` |
| | `ServesWhatItResolved`, `SignedIsServed`, `BootsOffline` | `[]ServesResolved`, `[]SignedNeverRefused`, `[]OfflineBoots` |
| `PromotionGateProofs` | `GateTyped` | the type invariant |
| | `BarKept`, `EvidenceSound` | `[]GatedClearsBar`, `[]EvidenceEarned` |
| | `NeverWorse` | `ReplacesNoWorse`, an action property |
| `CompanionsProofs` | `SensorTopicsAgree` | the agent's filter takes in every simulated machine's topic, and agent, demo and dashboard read it rightly |
| | `EventTopicsAgree` | the filters of demo and dashboard take in every event topic of the agent's layout, none of them is a reading's |
| | `ControlTopicsAgree` | a demo's command reaches the simulator and addresses its machine |
| | `DevicesApart` | no topic, for reading or writing, is open to two devices |
| | `GatewayServesSite`, `GatewayConfined` | the gateway's credential is good for the events of its site's machines, and nothing else |
| | `VerdictIsRight` | `AclSpec => []VerdictRight` |
| | `OneCollectorAnswers`, `AnswersAreOfOneList` | `McpSpec => []AnswersFromTheOne`, `[]AnswersFromOneList` |
| | `EpisodesAreHonoured`, `RowsHonest`, `AuditsHonest` | `DemoSpec => []EpisodeHonoured` and so on |
| | `ScalerFits`, `SignalsAreOfWindow` | `DriftSpec => []ScalerOfWindow`, `[]SignalsFromWindow` |
| | `RotationNeverRefuses` | `KeySpec => []RotationServes` |
| | `ProgramsKeepPromises` | all eight invariants of the run `companions` hold of its `Spec`, whichever program it runs |

Each module names what it assumes of its constants, and TLC evaluates it on the
runs. Beside bounds being naturals and threads of different kinds being different, what
the proofs need is: the capacity and `MinSamples` are positive; `None` is no thread,
number, shadow, key or envelope where it stands for the lack of one; packet ids and sockets
are numbers (`PacketIds`, `Conns`: the lowest free one is taken); an instance has
finitely many administrators at once; a machine's
name is a string and, for the ACL, no wildcard; the demo's patient and ailment
exist. The parts of the gate's summaries lie within the episodes they count.

What makes each inductive:

**EdgeAgent.** `Inv` says what a program counter implies:
`HandlerHolds` (a handler past `Take` holds exactly one event), `FlusherHolds`
(a flusher in the publish steps holds a non-empty remainder), `LockHeld` (the
flusher in the middle of a drain is the holder of the lock, so there is at most
one) and `DrainSuffix`: what a draining flusher still has to publish is a suffix
of the file, and everything before it is delivered. `DrainSuffix` is the heart:
without it nothing says that `Rewrite`, which replaces the file by the
flusher's remainder, removes only delivered events and undoes no `Add`. It is
inductive because `Add` needs the lock that `LockHeld` says the drain has.
`Custody` builds on it: `Separate` (file, and each handler's event, are
disjoint), `OnlyTaken` (nothing is published or spooled that was not taken) and
`NoneMissing`, which is `Accounted` event by event. `Separate` needs `OnlyTaken`,
because `Take` picks an event not taken before.
The refinement maps each step: `Gate`, `Call`, the gauge and the lock to
stuttering; `PublishOk` of a handler to `Settle`, `Add` to `Spool`, `AddFails`
to `Refuse`, `Rewrite` to `Prune` of as many entries as the drain published.
`DrainsUnlock` needs `DrainSuffix` again: the file bounds what a drain has to do.

**MqttUplink, CoapUplink.** A transport's step has the effect of an action of
`EdgeAgent`; that the action's guard held is what has to be proved: that what Publish
reports is so (`AckEndsWait`, `ReplyEndsWait`), and that what the broker gets was
published (`ReceivesPublished`, `ArrivalsPosted`). Over MQTT that rests on `Tokens`: who waits has a publish in the store under an id nobody else waits
on and no other publish has, so a PUBACK ends the right wait; an id is free
again only when its publish has left the store, not when its waiter has given up.
`OnceWithoutFault` needs more, that nothing still to be published was handed
over before (`Unpublished`: in hands, in a drain's remainder, in a file nobody
drains) and that the store has an event once (`StoredOnce`), which hold
while no publish fails (`PublishesConnected`). Over CoAP it is `Exchanges`
(2.04 only for what the receiver's broker has, nothing late that was not posted), and
`Sockets` for the link. What `EdgeAgent`'s theorems say of the threads and the
buffer then holds over both without being proved again.

**InferenceServer.** `LockHeld` says who is between acquire and release;
`SwapProgress` which parts of a swap are done by each of its steps, and that the
parts nobody is changing agree; `TrackersApart` that a scorer's tracker was
made before, so that a shadow loaded meanwhile has another one. `TrackersCounted`
counts the loads that may still make one against the requests, which is why their number
must be finite.
The refinement maps `Load` to `Reload` or `LoadShadow`, `Detach` to `UnloadShadow`,
`Compare` to `Count` if the tracker is the live one and no swap is under way, and
everything else to stuttering; that the rest of a swap does stutter is `LockHeld` (the one
loader under way is the one `Serving` looks at) and `TrackersApart` (the fresh
tracker is empty, as the report has been since the load). `FramesReload` adds that signal
frames do nothing but reload the file, so that the inner one, without the lock,
is either gone or waiting for it.

**ModelStore.** `TrustInv` is about any mix of saves
and crashes: bundles not yet begun are mentioned nowhere (`Begun`), an envelope
carries the key of the bundle it covers (`Genuine`), and a load that is about
to open the artifact has had that artifact's signature checked unless it was
replaced since (`Checked`); the digest, not the order of the writes, carries
the argument. `StoreInv` is about what nothing disturbed: `Alone` says how far
a save that overlaps no other has got and that everyone else is idle,
`Undisturbed` that a load with no save near it has read what is still there.

**Registry.** `Progress` says what a registrar has written before each remote
call; `Alone` that while one runs alone, its version is the newest; `Undisturbed` that
after its promotion nobody is promoting and the pointer is the newest tag;
`SignedFiles` that a bundle's files agree wherever they were copied to; and
`Loading` that what is being loaded is a champion whose artifact, and
signature if it has one, are in the cache. A champion without a signature is the gap
that `unsigned_serves` shows.

**PromotionGate.** `Trained` (nobody refers to a version that does not exist,
so that training a new one changes no summary in use) and `Deciding` (a run
about to promote still has the inputs that passed) give the bar and the
comparison; `Counted` (a report that is good enough names a version in
`earned`, in the sidecar, in the file and in any run's hands) gives the evidence.

**Topics and grants** need no induction: a filter without `#` is compared level by
level, and the first four levels of anything a device is granted spell the device
(`BelowFilter`).

**AclCheck.** `MarkersSound`: a marker under way shows what the device may do.
`MarkersSent`: if nothing was late, the observer is subscribed and what the device may do
has sent a marker, once tried. Without a delay the
two decide every probe, `FoundConfined`; and a trespass is never taken for a denial, even
with delays, because `NoTrespassFound` rests on the acknowledgement alone. It holds for
any set of grants, not only for the deviations the run tries.

**Collectors.** `OneMaker`: whoever makes a collector holds the lock and the
shared one is `None`. `OneComplete`: the one collector subscribed everywhere is the
shared one or about to be. With `PushedLeft` (the deque is what was ever heard, cut),
every answer is `recent` of the newest `MaxEvents` events which the first collector that came up
heard, `AnswersFromTheOne`. What `recent` picks is `SelectionIs`: the list comprehension is the
recursive function `kept`, whose existence and whose values at each place are
shown by looking at the least place where they would fail; up to any place it has as
many entries as there are events of the machine, and the k-th is the event
with k of them up to it (`SelectionOf`).

**Companions.** One program runs in each behaviour, so that each program's own
specification holds of the joint one by definition (`ProgramsApart`, a lemma without
content of its own); it carries the eight theorems over to the run's specification.

**Simulator and Demo.** `Consistent` relates a machine's label and countdown to its
last episode: as many ticks are left as the episode has readings to come. The label of
a reading is never revised because later episodes start later (`DueBefore`).
`DemoInv` adds that the demo's counts are of readings that arrived, that a reading that
arrives after others is a later one (so that the episode's bounds stand), and that
the feed keeps an event once.

**DriftTracker.** `ScalerInv`: under the lock the scale lags behind the mean, outside
of it both are those of the last reset; `ScrapeInv` says for each stage of a scrape
what it has read. `WindowInv` is about the ring: slot `(j - 1) % Window` holds
the j-th reading since the reset, for the last `Window` of them.

**KeyFiles.** `SignerTrusted` is the claim as the files see it: while the order is
kept, the trust file has the key of the present signature. Signing again would
break it without `SignerReady` (the key about to sign is that of the pair) and
`PairComplete` (from "generated" on the pair is complete, and in "both" it is
trusted), which holds because a pair only counts when its `keygen` was alone,
`AloneWrites`. `StoreFits` carries the trust file's promise over to a `verify` that
loaded it earlier.

TLC checked these invariants on the runs' instances before they were proved.

Only model-checked:

- Liveness, all of it (`EventuallySettled`, `EventuallyDrained`, `HandlersReturn`,
  `DeadLinkNoticed`, `LinkRecovers`, `ScoreAnswered`, `LockReleased`): fairness and
  ENABLED are out of the provers' reach. The refinements proved are those of the
  specifications without fairness.

## Where the code and its documents differ

Each of these is a run that TLC ends with a counterexample:

| Run | Statement | What happens |
|---|---|---|
| `replay_exactly_once` | README.md:52-53, 286-287: replay is exactly once, duplicate-free | a PUBACK later than 2 s: spooled and delivered, then replayed |
| `unsigned_serves` | docs/MLOPS.md:294-295: unsigned bundles keep serving until signatures are required | the download cache still has an earlier champion's signature |
| `sighup_returns` | docs/MLOPS.md:125 | a second SIGHUP deadlocks on its own thread's lock |

The models also have behaviours that contradict these statements; no run is
spent on them:

| Statement | What happens |
|---|---|
| docs/GLOSSARY.md:232-233 the gauge "must drain to zero after replay" | a `Len` measured before a drain is stored after it (`Measure`, `SetGauge`) |
| coap-receiver/handler.go:69-71 4.xx for what "can never succeed" | the agent treats it like a 5.03: the event stays first and blocks all later ones (`Poison`) |
| docs/MLOPS.md:183-184 "evidence is always per-champion" | a request that read the old `_state` reports into the new champion's tracker; and `check_shadow` never looks at `champion_version`, so a report against a replaced champion counts |
| ml/promote.py:11-12 "no worse than the champion" | two gates, or a training in between: the champion that is replaced is not the one that was compared with |
| edge-agent/main.go:15-17 "no event is lost" | a stop while an event is only in memory (shutdown waits for no handler), a disk error |
| edge-agent/uplink.go:34 "Close releases the transport" | a probe in flight revives a closed transport (`DialOk` after `Close`) |
| inference/metrics.py:95 "1 while a shadow is loaded" | the gauge is written outside the lock, so a load and an unload can leave it wrong |
| docs/MLOPS.md:126-127, a new frame of reference on a swap | `Compute` after `ResetDrift`: old window, new scaler |
| mcp_server/server.py:155-156 `inject_fault` publishes "exactly like the scripted demos" | it publishes on the flat topic in either layout; with `EDGESENSE_ORG` or `EDGESENSE_SITE` set no simulator listens there (`inject_fault` never matches `control_filter`) |
| docs/MLOPS.md:283 `EDGESENSE_REQUIRE_SIGNATURE` refuses "anything not positively verified" | `signing.py verify` passes its own `--require`, which overrides the variable when it is not given (`VerifyLoad`'s `require`) |
| docs/MLOPS.md:241-242 "incompatible artifact is refused" | features are never compared with the readings' |

## Not modelled

- **paho, the broker, FastAPI, MLflow, Streamlit's cache**: external; only what the
  code relies on.
- **The file protocol inside `EventBuffer.write`** (temp file, rename, no fsync)
  and lines that do not decode: `file` is replaced atomically, or not at all,
  which holds short of a power loss.
- **A deaf agent's silence**: in single-broker mode, that no readings arrive
  after a failed subscribe.
- **Order of live and replayed events**: a live publish overtakes the buffer;
  no document promises otherwise.
- **Numbers**: scores, PSI, latencies; `ml/rotating.py`, `ml/evaluate.py` and the
  benchmarks compute in one thread and keep no state.
- **Cryptography, forged envelopes**: an envelope is what `sign_artifact` wrote.
- **A save's four files in `Registry` and `PromotionGate`**: one step there, see
  `ModelStore`. That a registrar's manifest and its upload may differ is not told apart.
- **The CoAP receiver's own MQTT client**, metrics endpoints, and the writing of
  the password file.
- **MCP tools but two, dashboard rendering**: single HTTP requests and display.
- **`demo_offline.py`, `smoke.py`, training, deployment, Azure**: no protocol of
  their own.

## Plan

1. *Done*: all modules above, and a theorem for each safety property of the
   passing runs.
2. Proofs, next: an abstract store of one bundle that `ModelStore`'s undisturbed
   saves implement; the safety halves of the CoAP prober's liveness.
3. `BufferFile`: the write protocol, power loss and undecodable lines, with
   the atomic file of `EdgeAgent` as its abstract specification.
