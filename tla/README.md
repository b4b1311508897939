# CARISMA in TLA+: control plane, message relay, orchestrator and status manager

CARISMA (car-integrated service mesh architecture) runs one *control plane* and one
*orchestrator* per computer of a vehicle. An orchestrator registers its node, starts an
Envoy proxy, keeps the containers of the node as the desired deployment says, and announces
the services in them. The control plane hands out node IDs, relays deployment
configurations between the orchestrators, keeps the map of services, and serves every Envoy
a configuration made from that map.

This directory holds TLA+ modules translated from the Go source, TLC configurations for
small instances, and TLAPS proofs for all instances. Line numbers refer to `src/`; the file
`PROJECT.json` gives the lines of every definition, the hazards, and for every property a
faulty variant of the code under which the property fails.

## 1. Inventory

| component (source) | state | operations | correct means |
|---|---|---|---|
| message broker (`pkg/channel/broker.go`) | channels `source` and `destinations` (capacity 1), `quit`, Listen's map of listeners, one channel of capacity 5 per reader | `Read`, `Write`, `Stop`, `Listen` | readers get messages in one order, none twice; loss only at a full buffer; a slow reader stops nobody; every call returns |
| node registry (`pkg/registry/node_regisry.go`) | slice of node addresses under a mutex it shares with xDS | `Register`, `ValidateNodeID`, `OpenChannel` | IDs are unique and are positions in the slice; xDS learns of every node once; every call returns |
| service registry (`pkg/registry/service_regisry.go`) | map node ID -> bundle ID -> ports, under the same mutex | `OpenChannel`, `registerService`, `unregisterService` | the map holds what was announced last, without duplicates or leftovers |
| xDS server (`cmd/carisma-control-plane/app/xds`) | its own slice of nodes, the service map, a snapshot version, the snapshot cache | two goroutines that receive nodes and services; `generateSnapshots` | snapshots are current and of one version, and every node gets one |
| control plane (`cmd/carisma-control-plane/app/app.go`) | wiring: one mutex, two unbuffered channels, a gRPC server | `Run` | no handler blocks another for good |
| orchestrator (`cmd/carisma-orchestrator/app/app.go`, `orchestrator.go`, `envoy.go`) | streams to both registries, the merged actual state, the files of the desired and the actual state | `process`, two receive loops, a ticker | containers converge to the desired deployment; announcements match containers; the node's Envoy is its own and ends with the program; a signal ends it |
| container managers (`pkg/container`) | containers of the engine, or a map in the debug manager | list, start, stop, pull and create, remove | see orchestrator; partial failures leave nothing behind |
| discovery (`cmd/carisma-orchestrator/app/discovery.go`, `pkg/udp`) | a UDP socket | broadcast, wait for a message or a timeout | ends after the timeout, with the right host |
| file watcher (`pkg/io/file_watcher.go`) | last content read, a watch of the OS | `Watch`, `Diff` | no change of the file is missed; a forced diff reaches the handler |
| status manager (`cmd/carisma-status-manager`) | web sockets, three goroutines each | send the list of containers, ping, start and stop a container | goroutines end with their connection |
| configuration (`pkg/config`) | - | defaults, file, flags; the bootstrap of Envoy; deployment configurations | a central node is its own control plane; the flags overrule the file |
| logging, version, generated protocol buffers | - | output | - |

**How they interact.** `Register` appends under the mutex, unlocks, and then *sends* the node
on an unbuffered channel to the xDS server's node goroutine. A service announcement changes
the map under the mutex, unlocks, and sends *the map itself* on a second unbuffered channel
to the service goroutine. Both goroutines take the mutex and call `generateSnapshots`.
Deployment configurations go from one orchestrator's stream into `broker.Write`, and from
every stream's own `broker.Read` channel to its orchestrator. On the central node three goroutines
of the orchestrator share the file watcher, the container manager and that stream. The orchestrator
and the status manager of a node meet in the container engine.

**What is hard.** Steps between the unlock and the send of a registry; `select` with several
ready cases; a reader slower than its writers; the map shared between registry and xDS; a
loop that fails half-way; a goroutine that ends while others still send to it; a program that is killed
and started again; calls that know no context, so that a signal has to wait for them; two receivers on one stream;
a file that changes while nobody watches it. `PROJECT.json`
lists these hazards at their lines, each with the properties that cover it or the reason why
none does yet.

## 2. The modules

    LossyBroadcast                abstract: what a reader of the broker may rely on
      ^ implements
    Broker                        pkg/channel/broker.go
      BrokerProofs                theorems
      MCBroker, MCBrokerTest      instances for TLC

    Slices                        slices.Sort, slices.Compact, the elements a loop picks (pure operators)
      SliceProofs                 lemmas on them

    Slices
      ServiceMap                  the service map and its two changes (pure operators)
        ServiceRegistry           service_regisry.go by itself
          ServiceRegistryProofs   theorems
          MCServiceRegistry       instance for TLC
        XdsResources              cds.go, resource.go (pure operators)
          ControlPlane            Register + OpenChannel + both goroutines of xDS
            ControlPlaneProofs    theorems
            MCControlPlane        instances for TLC

    Slices
      Deployment                  names of images, diff (pure operators)
        Orchestrator              the main loop, process and the reports of a node, with the
                                  commands of the status manager
          OrchestratorProofs      theorems: types, what is never removed
            ConvergenceProofs     theorems: what runs and what is announced after process
          MCOrchestrator          instances for TLC

    Broker
      NodeStreams                 OpenChannel of the node registry on top of the broker
        MCNodeStreams             instance for TLC

    Config                        pkg/config (pure operators)
      NodeRun                     a run of the orchestrator from start to end: discovery,
                                  registration, Envoy, signals, kills and restarts
        Node                      NodeRun together with
          StatusManager           the web sockets and commands of the status manager
          NodeProofs              theorems
          MCNode                  instance for TLC

    FileWatcher                   pkg/io/file_watcher.go, with fsnotify
    DebugManager                  the emulated container runtime
      Central                     the three goroutines of a central node, on both
        CentralProofs             theorems
        MCCentral                 instance for TLC

### Broker and LossyBroadcast

A Go channel of capacity *c* is one sequence: the first *c* elements are in the buffer, the
ones behind belong to senders blocked in their send, in the order of their arrival. That the
runtime serves blocked senders first in, first out is an assumption about Go. A message is
the number of its `Write` call. `Read`, `Write` and `Stop` are the actions of callers.
`Listen` is `SelectDestination`, `SelectSource` and `SelectQuit` (the cases of its select,
any of which may be taken when ready) and `Offer(r)`, one per listener and message (the loop
over the map in any order with its inner select). `Receive(r)` is the reader's side. The
history variables `written`, `joined` and `received` only serve the properties.

`LossyBroadcast` knows no channel and no goroutine: publish, subscribe, hand over. The
refinement maps `taken` to what is published, `listeners` to subscribers, and what a reader
has received followed by its buffer to its stream.

### Slices, ServiceMap, ServiceRegistry

`Sort` rearranges by some order of the positions, `Subsequence` picks elements by the rank of their
positions, and `Compact` is a subsequence: no recursion, so that the provers can reason about
them.

`Registered` and `Unregistered` are the bodies of the critical sections: append, sort,
compact; find, delete, and drop the empty bundle. An absent inner map is the empty function,
as no reader of the map can tell them apart. `ServiceRegistry` is the loop of `OpenChannel` per
node: an announcement (`registerService`, `unregisterService`), the send that waits for a
receiver (`UpdateReceived`), and the end of the stream, after which the entries stay.

### XdsResources, ControlPlane

A node ID `node-<i>` is its index `i` (`generateNodeID` and `GetNodeIdx` are inverse on the
IDs that `Register` makes). Names of bundles and clusters are sequences of their pieces.
`makeClusters` visits maps in any order and keeps the first entry per name; `Visits` is the set
of possible choices. Errors are results (`Ok`, `Error`). The constant fields of Envoy resources
(timeouts, filters, HTTP/2 options) are left out.

In `ControlPlane` a *session* is one run of an orchestrator: it calls `Register`, then opens one
stream of announcements under its ID. A critical section is one action together with the
acquisition of the mutex, and the unlock is another one (`RegisterUnlock`, `AnnounceUnlock`,
`GenerateDone`), so that everything that does not need the mutex can happen in between. The
sends (`SendNode`, `SendServices`) are rendezvous: one step of both sides. `generateSnapshots` is one
action per round of its loop (`GenerateSnapshot`), since the cache has its own lock and an
Envoy may read it between two rounds. `aliased` says that xDS holds the registry's own map
(a Go map is a reference), so that later changes are visible to it before they are announced.

### Deployment, Orchestrator

`Orchestrator` is the program on one node that is not central, after start-up. The relay is what
`LossyBroadcast` promises: messages arrive in order and some may be lost. It delivers the central
node's configurations (`SendDesired`) and the node's own reports (`ReportList`, then `ReportSend`,
since time passes between the list and its delivery). The main loop (`Recv`) hands each
of them to `process`: `Compare` is the list of containers, its filter, the conversion of names
and the two comparisons; then every removal is `FindContainer`, `InspectContainer`,
`RemoveContainer`, `RemoveImage`, `Unregister`, with one retry without the descriptor, and every installation
`CreateContainer`, `StartContainer`, `DescribeContainer`, `Register`. Each is one call of the engine, and
each can fail; the failure takes the code's error path from there.

The engine is external: it lists containers in any order, finds running ones by image, and
refuses to remove an image that is in use. One bundle per image path; ports are left out
(containers are created without bindings, so the code finds no port, see the hazards). `applied`,
`wanted` and `blamed` are history: the configuration that `process` compared with last, the desired one that
arrived last, and the paths for which a call of the engine failed, that the status manager touched, or that a name is misread from or as.

*Names of images.* A name is written as domain, path and tag, of which the first and the last may be absent; the lengths and
suffixes that the code looks at are the constants `ShortPaths` and `EnvoyPaths`. `ParseImageName` splits at the last colon (`image.go:16`). When
the domain has a port and there is no tag, that is the colon of the port (`Misread`): the name becomes the host and the version becomes port and path,
here `NoTag`, which the engine refuses as a tag. So the image that was meant is removed if it runs, and not installed. `Meant` is what the name stands for, `Qualified` what `process`
makes of it. `ParseFQIN` has three outcomes: an error for a name that the library refuses (`Rejected`), on which `process` returns; a panic in
`name[:idx+1]` (`docker_container_manager.go:137`) for a name without a domain that is shorter than `docker.io/` (`Crashes`); or the name with its domain.
`CompareAborts` takes the first bad name of the configuration; after the panic (`pc = "panicked"`) the program takes no step. What ends in
`envoyproxy/envoy` is never removed (`HasSuffix`, `orchestrator.go:92`), so `nonlocalhost/envoyproxy/envoy` is treated like Envoy itself.

`Shared` are the paths of which `process` may meet two entries or two containers at a time: a configuration lists one
twice, two images of it run at the start, or an unmanaged container runs it. `diff` keeps one version per name and
`RemoveImageAndContainer` takes any container of the image, so for these the two `...ButBlamed` properties promise nothing. When
a configuration lists versions 1 and 2 of an image and version 1 runs already, for instance, only version 2 runs afterwards.

The status manager is another program that uses the same engine: `StatusStart` and `StatusStop` (both
`Command`) are the commands it takes from a web socket, at any time. A command that does not change the
container's status, names an unknown ID or fails is only logged, and is left out.

### NodeStreams

A stream of `OpenChannel` is a reader of `Broker`, and the actions are those of its handler: the check of
the header and `Read` (`OpenChannel`), the start of the forwarding goroutine and the message for a starting
node (`Trigger`), `Recv`, and the end of the stream with the message for a stopped node (`StreamEnds`).
`Forward` is the goroutine. `WriteOwn` keeps the condition of the code: a message of the handler's own is
written only when its JSON could *not* be made. Nobody takes a channel out of `listeners`.

### Config, NodeRun, StatusManager, Node

`NodeRun` follows `Run` of the orchestrator call by call; `pc` is the call that comes next. Every call
can fail, and the error path of the code is taken: some only log, some return before the deferred
`stopEnvoy`, some after it. `Start` may be repeated after an end or a `Kill`, so that a run can meet the Envoy
of an earlier one. The engine runs one of the containers that publish Envoy's ports at a
time (external). `stopEnvoy` is `FindEnvoy` and `RemoveEnvoy`, at the start and as a deferred call. `Config`
has the parameters that decide where a run goes, and what Envoy is told.

Two observations that the model contains and no property states. *Discovery never works*: the deferred
`Close` (`discovery.go:24`) closes the socket before the broadcasting goroutine's first tick; and what it
would send is `host:port`, to which `Run` adds the port again (`Joined`, `Dialable`). *A signal between
the opening of the two streams* of a central node leaves a nil client, on which a
goroutine panics (`GoroutinePanics`): the program ends without its deferred calls, and Envoy stays.

A web socket of the status manager is `link`, the state of its connection, and `running`, those of its three goroutines that
have not ended. gorilla/websocket is external: after a close frame all writes return `ErrCloseSent`. The
commands change the same containers as `NodeRun` does, and `touched` records it. (Commands on the containers of
the deployment are in `Orchestrator`.)

### FileWatcher, DebugManager, Central

`Watch` is one action per call that another goroutine or the file system can come between: `Select`, `waitUntilFind`, `ReadFile`, the
handler, `Store`, `AddWatch`. fsnotify is external and follows inotify: a watch belongs to the file, so a rename or a replacement ends it.
`Diff` resets `lastRead` without a lock, and returns when `Watch` takes its event; its callers wait in `diffs`. A torn slice
compares like an empty one.

`DebugManager` is the emulated runtime as the orchestrator uses it. Its status `running` never matches the
filter for `Up` in `process`, which therefore installs every image of every configuration again and removes
none. Creating a container is two steps, and the counters may lose an increment when two calls overlap.

`Central` composes them with the handler (`HandleDiff`), the receiver (`Receive`, `ReadActual`, `WriteActual`), the main loop
(`ReceiveMain`) and the signal. A read of the file of the actual state that fails leaves the receiver with an empty map, from which it rewrites the file;
a write that fails may leave the file truncated (`unreadable`), as `os.WriteFile` truncates first. A file that cannot be parsed, or says `null`, gives a nil map
(`app.go:248`), and the assignment to it (`app.go:261`) ends the program (`WriteNilMap`); with nothing collected it is written back as `null`. The relay may deliver any message to either receiver. The
messages for starting and stopped nodes are among them, although the control plane never writes them today (see
`node_streams`): the code of the central node is for them. `sent`, `owed` and `promised` are history: what was distributed last, whether
a node that asked still waits for it, and the mark in the file that must not be lost.

## 3. The runs

| run | instance | question and result |
|---|---|---|
| `broker` | 2 readers, buffers of 2, 5 messages, 2 blocked writers | order, loss only at a full buffer, nothing lost in `source`, progress of `Write`, `Read` and `Stop`, and the refinement: all hold |
| `broker_test` | 3 readers, buffers of 5, 3 messages: the program of the repository's own test | *violated*: a reader whose `Read` has returned misses the first message |
| `service_registry` | 2 nodes, 2 bundles, 3 ports (one of them -1), 5 announcements | the map is what was announced, sorted, without duplicates and empty bundles: holds |
| `control_plane` | 3 sessions, 1 bundle, 2 announcements | unique IDs, xDS has every node once, snapshots current and of one version, nobody blocks unless a goroutine of xDS has ended: all hold |
| `control_plane_indexes` | 2 sessions | *violated*: the order of nodes in xDS differs from the registry's |
| `control_plane_replies` | 3 sessions, 1 announcement | *violated*: a `Register` never replies |
| `orchestrator` | 2 configurations out of 6, 1 report, 1 start or stop by the status manager, 2 failing calls, 1 container found at the start | after `process`, what runs and what is announced is right for every image whose calls succeeded, whose name is read as meant and that the status manager left alone; nothing wanted is removed; `process` returns unless a name makes it panic: all hold |
| `orchestrator_keep` | a managed and an unmanaged container of one image, an empty configuration | *violated*: the unmanaged one is removed |
| `orchestrator_echo` | one configuration, one report, no failure | *violated*: the report undoes the configuration |
| `node_streams` | 3 streams, one of them not registered, 4 messages | *violated*: the message that triggers the distribution is not written |
| `node` | 2 starts with 4 configurations, 1 failing call, 1 kill, 1 packet out of 5, 1 web socket with 1 command | the Envoy that runs is this run's, `Run` leaves none behind, a signal ends it, the goroutines of a web socket end: all hold |
| `central` | 3 inputs of any kind (changes of the file, messages to either receiver, marks), 2 failing accesses to the file of the actual state, a signal | the file is what is distributed, a forced distribution takes place, marks survive, announcements agree with containers, a signal ends the program: all hold, with the exceptions that the properties name |

**Why the bounds are enough.** The buffer of a reader holds 5 messages in the code and 2 in
`MCBroker`: with 5 messages a buffer can fill, lose messages, drain and fill again, so a stream
can have gaps in two places. Two blocked writers show the queue behind `source`; two readers show
that one does not hinder the other. (The proofs have no bound.) Three ports and five
announcements allow a port to be registered twice around others, and removed. Three
sessions are the least number at which a round of `generateSnapshots` can fail with
both an earlier and a later node, and at which the second goroutine ends with someone left to
register. The configurations of `orchestrator` contain an upgrade of the image found at the start, a removal, an image
without descriptor, an image from a registry with a port, with its tag and without it (so that what runs is misread), a name that ends in Envoy's, a name that is refused in front of one that is
too short and the other way round, and a configuration without the node; two of them with a report in between
reach every transition between them, one command of the status manager hits every point of `process`, and two failures are needed for a removal that fails twice,
after which two versions of an image run. In `node` the second start meets what a kill, a failure or a command left
behind by the first; a third would meet nothing else, since only one Envoy runs at a time. In `central`, three inputs are enough for
a change of the file and a request of a starting node around another change, for a mark, a report and another report, and for
two configurations that are processed at the same time; two failing accesses are a write that truncates and another failure on what it left. `CHECK_DEADLOCK FALSE` is set because a bounded workload ends: when all
messages and announcements are used up the system rests, as the real one does. Being stuck is
covered by the liveness properties.

**Fairness.** *Broker*: the goroutine of `Listen` is scheduled again and again; `select` chooses
uniformly among the ready cases, so a case that is ready again and again is taken at last
(strong fairness of the three cases, weak fairness of `Offer`). Readers, writers and `Stop` are not
assumed to do anything. *Control plane*: weak fairness of every handler between its calls and
of the goroutines of xDS (the scheduler, `sync.RWMutex`, which does not starve, and channels,
which serve in turn). Clients are not assumed to do anything. *Orchestrator*: weak fairness of `process`, that is,
every call of the engine returns, with or without an error (the code sets no timeout); nothing is assumed of the relay, the ticker or the
reception of messages. In `broker_test` all
goroutines of the test are scheduled fairly, as its counterexample must not be one in which
somebody just stops. *Node*: weak fairness of what `Run` does by itself, of the time-out of discovery and of the
ends of the web sockets' goroutines (tickers tick, deadlines pass; and since `sendStatus` writes nothing when `Containers` fails, `app.go:50-52` of the
status manager, that the engine's list succeeds at last). Not of the control plane's answers, of packets, of `Watch`
taking the initial `Diff`, or of signals. *Central*: weak fairness of each of the three goroutines; none of the
relay, of whoever changes the files, or of the signal.

### What the violations show

* `broker_test`: `Read` returns when its channel is *in the buffer* of `destinations`
  (`broker.go:49`), not when Listen has made it a listener. A `Write` that follows can be selected
  first. The test's "wait until readers are present" (`broker_test.go:39`) does not wait for that.
* `control_plane_indexes`: between `mu.Unlock()` and the send on `chanNodes`
  (`node_regisry.go:76-78`) two calls of `Register` can overtake each other. `makeEndpoints` uses the
  registry's index in xDS's slice.
* `control_plane_replies`: the range check `nodeIdx >= len(x.nodes) || nodeIdx < len(x.nodes)`
  (`cds.go:34`) is always true, so snapshots fail as soon as any service is registered. The
  goroutine that meets the error returns; the next node ends the other one; the `Register` after that
  waits forever.

* `orchestrator_keep`: `process` ignores `/carisma-keep-` containers, but
  `RemoveImageAndContainer` (`docker_container_manager.go:244`) finds its container by the image alone.
* `orchestrator_echo`: the main loop (`app.go:331-350`) processes reports of the actual state as if they
  were desired. A report listed before a configuration was processed and delivered after it removes
  what was installed; the reports after that confirm it.
* `node_streams`: `if j, err := dplmCfg.JSON(); err != nil` (`node_regisry.go:134`, and `:145` for the
  stopped node) writes the message only when it could not be made. A node that starts
  gets its configuration when the file changes next, not when it opens its stream.

The same error as in `control_plane_replies` means that in the passing run `control_plane` the cache is only ever filled from a
map without services: no snapshot has a route or a cluster, and no property claims that they fit together. `SnapshotsCurrent` is about what remains:
while both goroutines live, every node has the latest version, and nothing is registered that its snapshot lacks.

## 4. The proofs

Every invariant and every action property that a passing run checks is also a theorem, for every value of the constants: any
number of sessions, nodes, ports, configurations, files, failures, kills and commands. Each rests only on the assumptions
stated with the constants, which TLC evaluates in the runs:

| assumption | says |
|---|---|
| `CapAssumption` (`Broker`) | capacities and the number of writers are positive |
| `SessionsAssumption` (`ControlPlane`) | finitely many sessions, distinct from the names of the goroutines |
| `PortsAssumption` (`ServiceRegistry`) | ports are integers: -1, which is announced for containers without a binding, is one |
| `PathsAssumption` (`Deployment`), `InputsAssumption` (`Orchestrator`) | the host of a domain with a port is a name, valid paths are names; configurations are sequences of written names; finitely many containers run at the start, of images with valid paths; the path of `runEnvoy`'s image is among those that end in Envoy's name |
| `InputsAssumption` (`NodeRun`) | files and flags set fields to values of their Go types; a packet has its fields |
| `ContentsAssumption` (`FileWatcher`), `ValidAssumption` (`Central`) | a missing file and an empty `lastRead` are no contents; no mark is not a mark |

*BrokerProofs.* `TypeCorrect`, `DeliveryInOrder`, `LossNeedsFullBuffer`, `WritesInOrder`, and
`Refinement` (`SafetySpec` implements `LossyBroadcast`). The inductive invariant `IndInv` adds to
the stated invariants: a channel is in `destinations` at most once and never while its
reader is a listener (`Handshake`); nothing was put into a channel that is not a
listener's (`Quiet`), so that setting `joined` is harmless; a listener joined in the past
(`JoinedPast`); a listener still to be visited has not got the current message (`Pending`), so that
appending keeps the order strictly increasing. The lemmas about sequences (append and head of a
concatenation) say that a send appends to a reader's stream and a receive leaves it alone.

*ControlPlaneProofs.* `TypeCorrect` (which includes that nobody is turned away with an ID that
`Register` gave), `IDsUnique` and `NodesHandedOverOnce`. The invariant adds `InHand`: the node
goroutine holds a node exactly between its receive and its append. `TypeOK` is not inductive without
`UniqueIDs`, because `OpenChannel` compares the ID with the length of the slice.
`SnapshotsAreCurrent` and `GenerationIsAtomic` rest on `Generation`: the goroutine that runs
`generateSnapshots` holds the mutex, the rounds so far have given snapshots of the new version and the others
still have their common old one; `SnapshotsAreCurrent` needs `CurrentInv` too: without an announcement on its way xDS sees the registry's map, and what a run has generated so far comes from it. The proof shows how thin the reason is: a run can fail in its first round
only, because a second round takes place only while the map is empty (the range check of `cds.go:34` again).
With a correct range check this argument, and atomicity with it, would have to be made anew.

*SliceProofs.* What `Sort`, `Compact`, `Subsequence` and `RemoveFirst` compute, for every sequence: sorting permutes and
orders, compacting an ordered sequence makes it strictly ascending with the same elements, a subsequence keeps the order, removing from a
strictly ascending sequence removes the element altogether. The induction (`OrderExists`: a sequence can be sorted) is by a
least counterexample, with `Insertion` as its step.

*ServiceRegistryProofs.* `TypeCorrect`, `OffersAreAnnouncements`, `SlicesAscend`, `NoBundleIsEmpty`. The invariants hold only together:
a removal takes an announcement back only because the slice has no duplicates, and it has none only because every
insertion sorts and compacts an ascending slice.

*OrchestratorProofs.* `TypeCorrect` and the action property `WantedStay`. The invariant says what `process` has in hand between two calls of the engine
(`InHand`: an image, and later a container of this image, which only `process` can remove) and that nothing
left to be removed ends in Envoy's name, or is listed in this version only and read as meant (`Unwanted`).

*ConvergenceProofs.* `EveryPathConverges` and `EveryOfferRuns`, the correctness of `process`. The invariant `PathInv(P)` is about one path `P` that is neither shared nor blamed, so that no name is misread from it or as it:
its containers are up and managed (`Up`), and there is at most one (`Sole`); an image to be removed has its
container until it is gone, and one to be created has none or one that is removed before, and a second attempt
means that there is no descriptor (`Queued`); what is still to be done leads to what is wanted (`Converging`); the path is announced
while an own container runs it (`Offered`); and no message, the node's own reports included, lists it twice (`Listed`). Steps for other paths
leave all of this alone (`Untouched` and its four uses): this is where "do not abort execution here" is proved. The steps for `P` itself
either succeed or blame it. For the paths that end in Envoy's name only `Up` and `Offered` are claimed, since `process` may
start a second container of them but never removes one.

*NodeProofs.* `EnvoyIsOfThisNode` and `RunEndsClean`. The ports let one Envoy run at a time (`OneAtATime`), so a removal that has found one leaves
none (`StoppedFirst`); the container that is started was created for this run (`InHand`); and a packet cannot
rename the control plane of a central node (`OwnControlPlane`).

*CentralProofs.* `MarksAreKept`: what the receiver has collected never contains what the mark announces, and once it has read the file it has the mark in hand (`MarksInv`). The mark is given up in the three cases that the property names: made between reading and writing, a failing read, a write that fails and truncates.
`NumbersAgree`: while calls do not overlap the two counters are equal and at most one caller is inside (`NumbersInv`). `FileIsDistributed`: `lastRead` has been distributed, and
after the handler so has the content in hand, so that the comparison suppresses nothing (`WatcherInv`).

`PathInv`, the largest of the inductive invariants, was checked with TLC before it was proved, on the instance of `orchestrator` and on one with
duplicate entries and with Envoy in a configuration.

**Only model-checked:** the liveness properties (fairness and `ENABLED` are out of the prover's reach), and the violations. `Broker`'s refinement is proved
for its safety part, which is all that `LossyBroadcast` states.

## 5. Not modelled

* The goroutine that broadcasts a central node's address: it ends at its first tick without having sent
  anything, see above.
* Of the debug manager: `StartContainer` and `StopContainer`, which only the status manager calls, whose own emulated
  runtime has no containers; tables of containers and formats of ports.
* The start of the HTTP server of the status manager and its index page; the control plane's `net.Listen`
  (`app.go:50`), whose error ends the program before anything is served.
* Ports, names and levels that `pkg/config` only passes on.
* Start-up and shutdown of the gRPC server, TLS and transport; the fields of Envoy resources that
  are constants; logging, version, generated code: no state of their own.
* A gRPC call that is cancelled while its handler waits: the handlers do not look at the context, so
  they go on waiting, as in the model.
* A `Send` that fails (`app.go:156`, `164`, `196`): the stream is then over, and so is the run at its next `Recv`.
* Of image names: `index.docker.io`, which the library rewrites to `docker.io`; a suffix `envoyproxy/envoy` whose first part is the end
  of a domain; digests (they count as refused); containers found at the start whose image the engine shows without a tag.
* An engine whose list of containers fails forever, for `SocketsEnd` (see Fairness).
* `nodeID[0]` in `service_regisry.go:47` without the header: a panic before any state is touched.

## 6. Plan

The parts listed in section 1 are modelled with the exceptions of section 5 and of the components that `PROJECT.json` calls partly modelled, and the safety properties of the runs are proved. What is left:

1. Operators that are only exercised by runs so far: `makeClusters` of `XdsResources` for a map with services
   (every route leads to a cluster whatever is visited first), which becomes reachable when the range check is mended, and `Merged` of `Central`.
2. `NodeStreams`: that the messages of a stream are those of a `Broker` reader, from the theorems on `Broker`.
3. The safety half of the liveness properties: a bound on the calls of one `process` (each image is tried at most twice).
