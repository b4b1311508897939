---------------------------- MODULE ControlPlane ----------------------------
(***************************************************************************)
(* carisma-control-plane: the node registry's Register and the service     *)
(* registry's OpenChannel, each call in a goroutine of the gRPC server,    *)
(* and the two goroutines of the xDS server (xds/server.go).  They share   *)
(* one mutex (app.go hands xDS's RWMutex to both registries) and meet on   *)
(* two unbuffered channels, outside the mutex on the side of the registry. *)
(*                                                                         *)
(* A session is one run of an orchestrator: a call of Register, then one   *)
(* stream of service announcements under the ID that it was given.  Its    *)
(* NodeAddr is the session itself (an orchestrator that is started again   *)
(* is a new session: nothing in the code relates the two).                 *)
(***************************************************************************)
EXTENDS XdsResources, FiniteSets

CONSTANTS
    Sessions,
    Bundles,
    Ports,
    MaxAnnouncements   \* bound: service announcements in a behaviour

VARIABLES
    nodes,         \* NodeRegistryServer.nodes
    services,      \* ServiceRegistryServer.services
    mu,            \* the holder of the mutex, or Nobody
    pc,            \* pc[s]: how far session s has come
    newNodeIdx,    \* newNodeIdx[s]: the index Register assigned, the ID of the reply
    announcements, \* bound: how many announcements were handled
    xpc,           \* xpc[g]: where goroutine g of the xDS server is
    newNode,       \* what the node goroutine has received
    xnodes,        \* xds.Server.nodes
    aliased,       \* xds.Server.services is the registry's map (else NewServer's empty one)
    version,       \* xds.Server.snapshotVersion
    next,          \* the loop variable of generateSnapshots
    cache          \* xds.Server.cache: node index -> snapshot

registryVars == <<nodes, services, pc, newNodeIdx, announcements>>
xdsVars == <<xpc, newNode, xnodes, aliased, version, next, cache>>
vars == <<registryVars, mu, xdsVars>>

Nobody == "nobody"
Loops == {"nodes", "services"}
NodeIDs == 0..(Cardinality(Sessions) - 1)
NoNode == "none"

\* Sessions are told apart from the goroutines of the xDS server and from the
\* values that stand for none.
ASSUME SessionsAssumption ==
    /\ IsFiniteSet(Sessions)
    /\ Sessions \cap ({Nobody, NoNode} \cup Loops) = {}
    /\ MaxAnnouncements \in Nat

Init ==
    /\ nodes = <<>>
    /\ services = [n \in NodeIDs |-> <<>>]
    /\ mu = Nobody
    /\ pc = [s \in Sessions |-> "new"]
    /\ newNodeIdx = [s \in Sessions |-> -1]
    /\ announcements = 0
    /\ xpc = [g \in Loops |-> "receive"]
    /\ newNode = NoNode
    /\ xnodes = <<>>
    /\ aliased = FALSE
    /\ version = -1
    /\ next = 0
    /\ cache = <<>>

\* mu.Lock() succeeds for p.
Lock(p) == mu = Nobody /\ mu' = p
Unlock(p) == mu = p /\ mu' = Nobody

-----------------------------------------------------------------------------
(* NodeRegistryServer.Register *)

\* Faulty variant: the node is sent inside the critical section.
RegisterSendLocked(s) ==
    /\ pc[s] = "registered"
    /\ xpc["nodes"] = "receive"
    /\ Unlock(s)
    /\ newNode' = s
    /\ xpc' = [xpc EXCEPT !["nodes"] = "apply"]
    /\ pc' = [pc EXCEPT ![s] = "replied"]
    /\ UNCHANGED <<nodes, services, newNodeIdx, announcements, xnodes, aliased, version, next, cache>>

\* Faulty variant: a send that has succeeded is repeated.
SendNodeTwice(s) ==
    /\ pc[s] = "sendNode"
    /\ xpc["nodes"] = "receive"
    /\ newNode' = s
    /\ xpc' = [xpc EXCEPT !["nodes"] = "apply"]
    /\ \/ pc' = [pc EXCEPT ![s] = "replied"]
       \/ s \notin Range(xnodes) /\ UNCHANGED pc
    /\ UNCHANGED <<nodes, services, newNodeIdx, announcements, mu, xnodes, aliased, version, next, cache>>

\* Faulty variant: the index is taken from the length when the call returns.
SendNodeIndexLate(s) ==
    /\ pc[s] = "sendNode"
    /\ xpc["nodes"] = "receive"
    /\ newNode' = s
    /\ xpc' = [xpc EXCEPT !["nodes"] = "apply"]
    /\ pc' = [pc EXCEPT ![s] = "replied"]
    /\ newNodeIdx' = [newNodeIdx EXCEPT ![s] = Len(nodes) - 1]
    /\ UNCHANGED <<nodes, services, announcements, mu, xnodes, aliased, version, next, cache>>

\* Lock, append, and the index of the last element.
Register(s) ==
    /\ pc[s] = "new"
    /\ Lock(s)
    /\ nodes' = Append(nodes, s)
    /\ newNodeIdx' = [newNodeIdx EXCEPT ![s] = Len(nodes)]
    /\ pc' = [pc EXCEPT ![s] = "registered"]
    /\ UNCHANGED <<services, announcements, xdsVars>>

RegisterUnlock(s) ==
    /\ pc[s] = "registered"
    /\ Unlock(s)
    /\ pc' = [pc EXCEPT ![s] = "sendNode"]
    /\ UNCHANGED <<nodes, services, newNodeIdx, announcements, xdsVars>>

\* The send on chanNodes meets the receive of the node goroutine; Register
\* then replies with the ID.
SendNode(s) ==
    /\ pc[s] = "sendNode"
    /\ xpc["nodes"] = "receive"
    /\ newNode' = s
    /\ xpc' = [xpc EXCEPT !["nodes"] = "apply"]
    /\ pc' = [pc EXCEPT ![s] = "replied"]
    /\ UNCHANGED <<nodes, services, newNodeIdx, announcements, mu, xnodes, aliased, version, next, cache>>

-----------------------------------------------------------------------------
(* ServiceRegistryServer.OpenChannel *)

\* Faulty variant: the last node is out of range.
ValidateNodeIDExclusive(nodeIdx) == ~(nodeIdx < 0 \/ nodeIdx >= Len(nodes) - 1)

\* ValidateNodeID, which takes the mutex for reading.
ValidateNodeID(nodeIdx) == ~(nodeIdx < 0 \/ nodeIdx > Len(nodes) - 1)

OpenChannel(s) ==
    /\ pc[s] = "replied"
    /\ mu = Nobody
    /\ pc' = [pc EXCEPT ![s] = IF ValidateNodeID(newNodeIdx[s]) THEN "open" ELSE "rejected"]
    /\ UNCHANGED <<nodes, services, newNodeIdx, announcements, mu, xdsVars>>

\* registerService and unregisterService, up to the unlock.
Announce(s, newServices) ==
    /\ pc[s] = "open"
    /\ announcements < MaxAnnouncements
    /\ Lock(s)
    /\ announcements' = announcements + 1
    /\ services' = newServices
    /\ pc' = [pc EXCEPT ![s] = "announced"]
    /\ UNCHANGED <<nodes, newNodeIdx, xdsVars>>

registerService(s, b, p) == Announce(s, Registered(services, newNodeIdx[s], b, p))
unregisterService(s, b, p) == Announce(s, Unregistered(services, newNodeIdx[s], b, p))

\* Faulty variant: the map is sent inside the critical section.
AnnounceSendLocked(s) ==
    /\ pc[s] = "announced"
    /\ xpc["services"] = "receive"
    /\ Unlock(s)
    /\ xpc' = [xpc EXCEPT !["services"] = "apply"]
    /\ pc' = [pc EXCEPT ![s] = "open"]
    /\ UNCHANGED <<nodes, services, newNodeIdx, announcements, newNode, xnodes, aliased, version, next, cache>>

AnnounceUnlock(s) ==
    /\ pc[s] = "announced"
    /\ Unlock(s)
    /\ pc' = [pc EXCEPT ![s] = "sendServices"]
    /\ UNCHANGED <<nodes, services, newNodeIdx, announcements, xdsVars>>

\* What is sent is the map itself, not its present contents.
SendServices(s) ==
    /\ pc[s] = "sendServices"
    /\ xpc["services"] = "receive"
    /\ xpc' = [xpc EXCEPT !["services"] = "apply"]
    /\ pc' = [pc EXCEPT ![s] = "open"]
    /\ UNCHANGED <<nodes, services, newNodeIdx, announcements, mu, newNode, xnodes, aliased, version, next, cache>>

\* The stream ends; nothing that was announced is taken back.
StreamEnds(s) ==
    /\ pc[s] = "open"
    /\ pc' = [pc EXCEPT ![s] = "closed"]
    /\ UNCHANGED <<nodes, services, newNodeIdx, announcements, mu, xdsVars>>

-----------------------------------------------------------------------------
(* The xDS server *)

XServices == IF aliased THEN services ELSE [n \in NodeIDs |-> <<>>]

\* Faulty variant: the loop ends before the last node.
GenerateDoneEarly(g) ==
    /\ xpc[g] = "generate"
    /\ next + 1 >= Len(xnodes)
    /\ Unlock(g)
    /\ xpc' = [xpc EXCEPT ![g] = "receive"]
    /\ UNCHANGED <<registryVars, newNode, xnodes, aliased, version, next, cache>>

\* Faulty variant: a snapshot is generated for the new node only.
ApplyNodeAlone ==
    /\ xpc["nodes"] = "apply"
    /\ Lock("nodes")
    /\ xnodes' = Append(xnodes, newNode)
    /\ newNode' = NoNode
    /\ version' = version + 1
    /\ next' = Len(xnodes)
    /\ xpc' = [xpc EXCEPT !["nodes"] = "generate"]
    /\ UNCHANGED <<registryVars, aliased, cache>>

\* The node goroutine: lock, append, and the start of generateSnapshots.
ApplyNode ==
    /\ xpc["nodes"] = "apply"
    /\ Lock("nodes")
    /\ xnodes' = Append(xnodes, newNode)
    /\ newNode' = NoNode
    /\ version' = version + 1
    /\ next' = 0
    /\ xpc' = [xpc EXCEPT !["nodes"] = "generate"]
    /\ UNCHANGED <<registryVars, aliased, cache>>

\* Faulty variant: a map that x.services is already is not applied again.
ApplyServicesOnce ==
    /\ xpc["services"] = "apply"
    /\ Lock("services")
    /\ aliased' = TRUE
    /\ version' = IF aliased THEN version ELSE version + 1
    /\ next' = IF aliased THEN Len(xnodes) ELSE 0
    /\ xpc' = [xpc EXCEPT !["services"] = "generate"]
    /\ UNCHANGED <<registryVars, newNode, xnodes, cache>>

\* The service goroutine: lock, x.services = newServiceConfig, and the same.
ApplyServices ==
    /\ xpc["services"] = "apply"
    /\ Lock("services")
    /\ aliased' = TRUE
    /\ version' = version + 1
    /\ next' = 0
    /\ xpc' = [xpc EXCEPT !["services"] = "generate"]
    /\ UNCHANGED <<registryVars, newNode, xnodes, cache>>

\* One round of the loop of generateSnapshots.  The cache has a lock of its
\* own: an Envoy can read it between two rounds.  An error ends the function,
\* and then, after the unlock, the goroutine.
GenerateSnapshot(g) ==
    /\ xpc[g] = "generate"
    /\ next < Len(xnodes)
    /\ \E first \in Visits(XServices, next) :
         LET clusters == makeClusters(xnodes, XServices, next, first)
         IN  IF clusters.ok
             THEN /\ cache' = [i \in DOMAIN cache \cup {next} |->
                                 IF i = next
                                 THEN NewSnapshot(version, clusters.value, makeRoutes(XServices, next))
                                 ELSE cache[i]]
                  /\ next' = next + 1
                  /\ UNCHANGED <<xpc, mu>>
             ELSE /\ xpc' = [xpc EXCEPT ![g] = "stopped"]
                  /\ Unlock(g)
                  /\ UNCHANGED <<cache, next>>
    /\ UNCHANGED <<registryVars, newNode, xnodes, aliased, version>>

\* generateSnapshots returns nil; unlock, and back to the receive.
GenerateDone(g) ==
    /\ xpc[g] = "generate"
    /\ next = Len(xnodes)
    /\ Unlock(g)
    /\ xpc' = [xpc EXCEPT ![g] = "receive"]
    /\ UNCHANGED <<registryVars, newNode, xnodes, aliased, version, next, cache>>

-----------------------------------------------------------------------------
Handler(s) ==
    \/ RegisterUnlock(s)
    \/ SendNode(s)
    \/ OpenChannel(s)
    \/ AnnounceUnlock(s)
    \/ SendServices(s)

Xds ==
    \/ ApplyNode
    \/ ApplyServices
    \/ \E g \in Loops : GenerateSnapshot(g) \/ GenerateDone(g)

Next ==
    \/ \E s \in Sessions :
        \/ Register(s)
        \/ Handler(s)
        \/ \E b \in Bundles, p \in Ports : registerService(s, b, p) \/ unregisterService(s, b, p)
        \/ StreamEnds(s)
    \/ Xds

(***************************************************************************)
(* A goroutine that can go on does so at last: the Go scheduler is fair,   *)
(* sync.RWMutex and channels serve those who wait in turn.  What clients   *)
(* do (Register, announcements, the end of a stream) is not assumed.       *)
(***************************************************************************)
Fairness ==
    /\ \A s \in Sessions : WF_vars(Handler(s))
    /\ WF_vars(ApplyNode)
    /\ WF_vars(ApplyServices)
    /\ \A g \in Loops : WF_vars(GenerateSnapshot(g) \/ GenerateDone(g))

Spec == Init /\ [][Next]_vars /\ Fairness

-----------------------------------------------------------------------------
SessionStates ==
    {"new", "registered", "sendNode", "replied", "open", "announced", "sendServices", "closed"}

\* The state has its type; in particular no session is turned away with the ID
\* that Register gave it (state "rejected", service_regisry.go:47).
TypeOK ==
    /\ nodes \in Seq(Sessions)
    /\ DOMAIN services = NodeIDs
    /\ mu \in Sessions \cup Loops \cup {Nobody}
    /\ pc \in [Sessions -> SessionStates]
    /\ newNodeIdx \in [Sessions -> Nat \cup {-1}]
    /\ announcements \in 0..MaxAnnouncements
    /\ xpc \in [Loops -> {"receive", "apply", "generate", "stopped"}]
    /\ newNode \in Sessions \cup {NoNode}
    /\ xnodes \in Seq(Sessions)
    /\ aliased \in BOOLEAN
    /\ version \in Int
    /\ next \in Nat
    /\ DOMAIN cache \subseteq Nat

\* The ID in a reply is the position of the caller's own address in the
\* registry, so concurrent calls of Register never share an ID
\* (node_regisry.go:66-76).
UniqueIDs ==
    \A s \in Sessions :
        pc[s] # "new" => newNodeIdx[s] + 1 \in DOMAIN nodes /\ nodes[newNodeIdx[s] + 1] = s

\* xDS learns of every node once: a node is in x.nodes, or on its way there,
\* exactly when its Register has got past the send (node_regisry.go:78,
\* server.go:55-58).
XdsKnowsEachNodeOnce ==
    /\ \A i, j \in DOMAIN xnodes : xnodes[i] = xnodes[j] => i = j
    /\ newNode \notin Range(xnodes)
    /\ Range(xnodes) \cup ({newNode} \ {NoNode}) =
         {s \in Sessions : pc[s] \notin {"new", "registered", "sendNode"}}

\* A service has been announced and xDS has not yet taken the map.
AnnouncementPending ==
    xpc["services"] = "apply" \/ \E s \in Sessions : pc[s] \in {"announced", "sendServices"}

\* Unless snapshots are being generated or one of the two goroutines has ended,
\* every node that xDS knows has a snapshot of the latest version, and when no
\* announcement is on its way either, with the routes of what is registered now:
\* changes of the map that xDS shares with the registry, withdrawals too, reach
\* every Envoy (server.go:55-82, resource.go:220-256).  As makeEndpoints fails for
\* any service (cds.go:34), both goroutines run on only while none is registered.
SnapshotsCurrent ==
    mu \notin Loops /\ (\A g \in Loops : xpc[g] # "stopped") =>
        \A i \in 0..(Len(xnodes) - 1) :
            /\ i \in DOMAIN cache /\ cache[i].version = version
            /\ ~AnnouncementPending => cache[i].routes = makeRoutes(services, i)

\* Unless generateSnapshots is running, all Envoys have snapshots of the same
\* version, those that were there before a node came and those of goroutines that
\* have ended included.  It may fail in its first round only: what makes one
\* round fail, a service in the map, fails the first (resource.go:220-256, cds.go:34).
SnapshotsOfOneVersion ==
    mu \notin Loops =>
        \A i, j \in DOMAIN cache : cache[i].version = cache[j].version

\* Register waits for the node goroutine only: it replies unless that goroutine
\* has ended.  The mutex and the two channels never block each other
\* (node_regisry.go:76-88, server.go:52-68).
RegisterBlocksOnlyWhenStopped ==
    \A s \in Sessions : pc[s] = "registered" ~> (pc[s] = "replied" \/ xpc["nodes"] = "stopped")

\* The same for an announcement and the service goroutine
\* (service_regisry.go:94-96, 111-113, server.go:70-87).
AnnouncementBlocksOnlyWhenStopped ==
    \A s \in Sessions : pc[s] = "announced" ~> (pc[s] = "open" \/ xpc["services"] = "stopped")

\* A node that has its ID gets a snapshot under that ID, unless the node
\* goroutine has ended (server.go:58-59, resource.go:221-247).
NodeGetsSnapshot ==
    \A s \in Sessions : pc[s] = "replied" ~> (newNodeIdx[s] \in DOMAIN cache \/ xpc["nodes"] = "stopped")

-----------------------------------------------------------------------------
(* Two expectations of the repository that the program does not meet. *)

\* node_regisry.go:61, Register "replies with assigned the node id after
\* registration": every call that has registered a node replies.
RegisterReplies ==
    \A s \in Sessions : pc[s] = "registered" ~> pc[s] = "replied"

\* node_regisry.go:42, "GetNodeIdx extracts the node's index out of a node ID":
\* the index in an ID is the index of that node also in xDS's slice, where
\* makeEndpoints looks up the host (cds.go:30-38).
IndexesAgree ==
    \A i \in DOMAIN xnodes : xnodes[i] = nodes[i]
=============================================================================
