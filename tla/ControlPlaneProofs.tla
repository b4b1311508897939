-------------------------- MODULE ControlPlaneProofs --------------------------
(***************************************************************************)
(* For any number of sessions and announcements: the IDs that Register     *)
(* replies with are the caller's own positions in the registry, xDS learns *)
(* of every node exactly once, and the snapshots in the cache are, while   *)
(* none is being made, all of one version and, until a goroutine of xDS    *)
(* ends, those of the present registry.                                    *)
(***************************************************************************)
EXTENDS ControlPlane, TLAPS, SequenceTheorems

(***************************************************************************)
(* The node goroutine has a node in hand exactly between its receive and   *)
(* its append: without this a node could be overwritten before it is       *)
(* appended.  TypeOK is not inductive without UniqueIDs, as OpenChannel    *)
(* looks at the length of nodes to decide whether to reject an ID.         *)
(***************************************************************************)
InHand == newNode = NoNode <=> xpc["nodes"] # "apply"

IndInv == TypeOK /\ InHand /\ UniqueIDs /\ XdsKnowsEachNodeOnce

-----------------------------------------------------------------------------
LEMMA IndInit == Init => IndInv
<1> SUFFICES ASSUME Init PROVE IndInv
  OBVIOUS
<1>1. TypeOK
  <2>1. nodes \in Seq(Sessions) /\ xnodes \in Seq(Sessions)
    BY EmptySeq DEF Init
  <2>2. DOMAIN services = NodeIDs /\ mu \in Sessions \cup Loops \cup {Nobody}
    BY DEF Init
  <2>3. pc \in [Sessions -> SessionStates] /\ newNodeIdx \in [Sessions -> Nat \cup {-1}]
    BY DEF Init, SessionStates
  <2>4. announcements \in 0..MaxAnnouncements /\ version \in Int /\ next \in Nat
    BY SessionsAssumption DEF Init
  <2>5. xpc \in [Loops -> {"receive", "apply", "generate", "stopped"}]
    BY DEF Init
  <2>6. newNode \in Sessions \cup {NoNode} /\ aliased \in BOOLEAN
    BY DEF Init
  <2>7. DOMAIN cache \subseteq Nat
    BY DEF Init
  <2> QED
    BY <2>1, <2>2, <2>3, <2>4, <2>5, <2>6, <2>7 DEF TypeOK
<1>2. InHand
  BY DEF Init, InHand, Loops
<1>3. UniqueIDs
  BY DEF Init, UniqueIDs
<1>4. XdsKnowsEachNodeOnce
  <2>1. Range(xnodes) = {} /\ \A i, j \in DOMAIN xnodes : xnodes[i] = xnodes[j] => i = j
    BY DEF Init, Range
  <2> QED
    BY <2>1 DEF Init, XdsKnowsEachNodeOnce
<1> QED
  BY <1>1, <1>2, <1>3, <1>4 DEF IndInv

-----------------------------------------------------------------------------
(* Types *)

LEMMA TypeStep == TypeOK /\ InHand /\ UniqueIDs /\ [Next]_vars => TypeOK'
<1> SUFFICES ASSUME TypeOK, InHand, UniqueIDs, [Next]_vars PROVE TypeOK'
  OBVIOUS
<1> USE SessionsAssumption DEF TypeOK, SessionStates, Lock, Unlock, registryVars, xdsVars
<1>1. ASSUME NEW s \in Sessions, Register(s) PROVE TypeOK'
  <2>1. Append(nodes, s) \in Seq(Sessions) /\ Len(nodes) \in Nat
    BY AppendProperties, LenProperties
  <2> QED
    BY <1>1, <2>1 DEF Register
<1>2. ASSUME NEW s \in Sessions, RegisterUnlock(s) PROVE TypeOK'
  BY <1>2 DEF RegisterUnlock
<1>3. ASSUME NEW s \in Sessions, SendNode(s) PROVE TypeOK'
  BY <1>3 DEF SendNode, Loops
<1>4. ASSUME NEW s \in Sessions, OpenChannel(s) PROVE TypeOK'
  <2>1. ValidateNodeID(newNodeIdx[s])
    <3>1. newNodeIdx[s] + 1 \in DOMAIN nodes /\ newNodeIdx[s] \in Int
      BY <1>4 DEF OpenChannel, UniqueIDs
    <3>2. DOMAIN nodes = 1..Len(nodes) /\ Len(nodes) \in Nat
      BY LenProperties
    <3> QED
      BY <3>1, <3>2 DEF ValidateNodeID
  <2> QED
    BY <1>4, <2>1 DEF OpenChannel
<1>5. ASSUME NEW s \in Sessions, NEW b \in Bundles, NEW p \in Ports,
             registerService(s, b, p) \/ unregisterService(s, b, p)
      PROVE  TypeOK'
  <2>1. DOMAIN services' = NodeIDs
    <3>1. CASE registerService(s, b, p)
      BY <3>1 DEF registerService, Announce, Registered, Assigned
    <3>2. CASE unregisterService(s, b, p)
      BY <3>2 DEF unregisterService, Announce, Unregistered, Assigned
    <3> QED
      BY <1>5, <3>1, <3>2
  <2>2. /\ announcements < MaxAnnouncements
        /\ announcements' = announcements + 1
        /\ mu' = s
        /\ pc' = [pc EXCEPT ![s] = "announced"]
        /\ UNCHANGED <<nodes, newNodeIdx, xdsVars>>
    BY <1>5 DEF registerService, unregisterService, Announce
  <2>3. announcements' \in 0..MaxAnnouncements
    BY <2>2
  <2>4. mu' \in Sessions \cup Loops \cup {Nobody} /\ pc' \in [Sessions -> SessionStates]
    BY <2>2
  <2> QED
    BY <2>1, <2>2, <2>3, <2>4
<1>6. ASSUME NEW s \in Sessions, AnnounceUnlock(s) PROVE TypeOK'
  BY <1>6 DEF AnnounceUnlock
<1>7. ASSUME NEW s \in Sessions, SendServices(s) PROVE TypeOK'
  BY <1>7 DEF SendServices, Loops
<1>8. ASSUME NEW s \in Sessions, StreamEnds(s) PROVE TypeOK'
  BY <1>8 DEF StreamEnds
<1>9. CASE ApplyNode
  <2>1. newNode \in Sessions
    BY <1>9 DEF ApplyNode, InHand
  <2>2. Append(xnodes, newNode) \in Seq(Sessions)
    BY <2>1, AppendProperties
  <2> QED
    BY <1>9, <2>2 DEF ApplyNode, Loops
<1>10. CASE ApplyServices
  BY <1>10 DEF ApplyServices, Loops
<1>11. ASSUME NEW g \in Loops, GenerateSnapshot(g) PROVE TypeOK'
  <2>1. DOMAIN cache' \subseteq Nat /\ next' \in Nat
    BY <1>11 DEF GenerateSnapshot
  <2>2. xpc' \in [Loops -> {"receive", "apply", "generate", "stopped"}]
        /\ mu' \in Sessions \cup Loops \cup {Nobody}
    BY <1>11 DEF GenerateSnapshot
  <2> QED
    BY <1>11, <2>1, <2>2 DEF GenerateSnapshot
<1>12. ASSUME NEW g \in Loops, GenerateDone(g) PROVE TypeOK'
  BY <1>12 DEF GenerateDone
<1>13. CASE UNCHANGED vars
  BY <1>13 DEF vars
<1> QED
  BY <1>1, <1>2, <1>3, <1>4, <1>5, <1>6, <1>7, <1>8, <1>9, <1>10, <1>11, <1>12, <1>13
  DEF Next, Handler, Xds

-----------------------------------------------------------------------------
(* The registry's side *)

LEMMA UniqueStep == TypeOK /\ UniqueIDs /\ [Next]_vars => UniqueIDs'
<1> SUFFICES ASSUME TypeOK, UniqueIDs, [Next]_vars PROVE UniqueIDs'
  OBVIOUS
<1>1. ASSUME NEW s \in Sessions, Register(s) PROVE UniqueIDs'
  <2>1. /\ nodes \in Seq(Sessions)
        /\ pc \in [Sessions -> SessionStates]
        /\ newNodeIdx \in [Sessions -> Nat \cup {-1}]
    BY DEF TypeOK
  <2>2. /\ nodes' = Append(nodes, s)
        /\ newNodeIdx' = [newNodeIdx EXCEPT ![s] = Len(nodes)]
        /\ pc' = [pc EXCEPT ![s] = "registered"]
    BY <1>1 DEF Register
  <2>3. /\ DOMAIN nodes = 1..Len(nodes)
        /\ DOMAIN nodes' = 1..(Len(nodes) + 1)
        /\ Len(nodes) \in Nat
        /\ nodes'[Len(nodes) + 1] = s
        /\ \A i \in DOMAIN nodes : nodes'[i] = nodes[i]
    BY <2>1, <2>2
  <2> SUFFICES ASSUME NEW x \in Sessions, pc'[x] # "new"
               PROVE  newNodeIdx'[x] + 1 \in DOMAIN nodes' /\ nodes'[newNodeIdx'[x] + 1] = x
    BY DEF UniqueIDs
  <2>4. CASE x = s
    <3>1. newNodeIdx'[x] = Len(nodes)
      BY <2>1, <2>2, <2>4
    <3> QED
      BY <2>3, <2>4, <3>1
  <2>5. CASE x # s
    <3>1. newNodeIdx'[x] = newNodeIdx[x] /\ pc'[x] = pc[x]
      BY <2>1, <2>2, <2>5
    <3>2. newNodeIdx[x] + 1 \in DOMAIN nodes /\ nodes[newNodeIdx[x] + 1] = x
      BY <3>1 DEF UniqueIDs
    <3> QED
      BY <2>3, <3>1, <3>2
  <2> QED
    BY <2>4, <2>5
<1>2. ASSUME UNCHANGED <<nodes, newNodeIdx>>, \A x \in Sessions : pc'[x] # "new" => pc[x] # "new"
      PROVE  UniqueIDs'
  BY <1>2 DEF UniqueIDs
<1>3. ASSUME NEW s \in Sessions, Handler(s) \/ StreamEnds(s) PROVE UniqueIDs'
  BY <1>2, <1>3 DEF TypeOK, Handler, RegisterUnlock, SendNode, OpenChannel, AnnounceUnlock,
                    SendServices, StreamEnds
<1>4. ASSUME NEW s \in Sessions, NEW b \in Bundles, NEW p \in Ports,
             registerService(s, b, p) \/ unregisterService(s, b, p)
      PROVE  UniqueIDs'
  BY <1>2, <1>4 DEF TypeOK, registerService, unregisterService, Announce
<1>5. CASE Xds
  BY <1>2, <1>5 DEF Xds, ApplyNode, ApplyServices, GenerateSnapshot, GenerateDone, registryVars
<1>6. CASE UNCHANGED vars
  BY <1>2, <1>6 DEF vars, registryVars
<1> QED
  BY <1>1, <1>3, <1>4, <1>5, <1>6 DEF Next

-----------------------------------------------------------------------------
(* The side of xDS *)

\* The sessions whose Register has got past the send.
Delivered == {s \in Sessions : pc[s] \notin {"new", "registered", "sendNode"}}

LEMMA XdsStep == IndInv /\ [Next]_vars => InHand' /\ XdsKnowsEachNodeOnce'
<1> SUFFICES ASSUME IndInv, [Next]_vars PROVE InHand' /\ XdsKnowsEachNodeOnce'
  OBVIOUS
<1> USE SessionsAssumption
<1>0. /\ pc \in [Sessions -> SessionStates]
      /\ xpc \in [Loops -> {"receive", "apply", "generate", "stopped"}]
      /\ xnodes \in Seq(Sessions)
      /\ newNode \in Sessions \cup {NoNode}
      /\ NoNode \notin Sessions
      /\ "nodes" \in Loops /\ "services" \in Loops
  BY DEF IndInv, TypeOK, Loops
<1>1. ASSUME NEW s \in Sessions, SendNode(s) PROVE InHand' /\ XdsKnowsEachNodeOnce'
  <2>1. newNode = NoNode /\ newNode' = s /\ xpc'["nodes"] = "apply" /\ xnodes' = xnodes
    BY <1>0, <1>1 DEF SendNode, IndInv, InHand
  <2>2. InHand'
    BY <1>0, <2>1 DEF InHand
  <2>3. s \notin Range(xnodes)
    BY <1>1 DEF IndInv, XdsKnowsEachNodeOnce, SendNode
  <2>4. Delivered' = Delivered \cup {s}
    BY <1>0, <1>1 DEF Delivered, SendNode
  <2>5. Range(xnodes) = Delivered
    BY <2>1 DEF IndInv, XdsKnowsEachNodeOnce, Delivered
  <2>6. XdsKnowsEachNodeOnce'
    BY <1>0, <2>1, <2>3, <2>4, <2>5 DEF IndInv, XdsKnowsEachNodeOnce, Delivered
  <2> QED
    BY <2>2, <2>6
<1>2. CASE ApplyNode
  <2>1. newNode \in Sessions /\ newNode' = NoNode /\ xnodes' = Append(xnodes, newNode) /\ pc' = pc
        /\ xpc'["nodes"] = "generate"
    BY <1>0, <1>2 DEF ApplyNode, IndInv, InHand, registryVars
  <2>2. InHand'
    BY <2>1 DEF InHand
  <2>3. /\ DOMAIN xnodes = 1..Len(xnodes) /\ Len(xnodes) \in Nat
        /\ DOMAIN xnodes' = 1..(Len(xnodes) + 1)
        /\ xnodes'[Len(xnodes) + 1] = newNode
        /\ \A i \in DOMAIN xnodes : xnodes'[i] = xnodes[i]
    BY <1>0, <2>1
  <2>4. Range(xnodes') = Range(xnodes) \cup {newNode}
    BY <2>3 DEF Range
  <2>5. newNode \notin Range(xnodes) /\ \A i, j \in DOMAIN xnodes : xnodes[i] = xnodes[j] => i = j
    BY DEF IndInv, XdsKnowsEachNodeOnce
  <2>6. \A i \in DOMAIN xnodes : xnodes[i] # newNode
    BY <2>5 DEF Range
  <2>7. \A i, j \in DOMAIN xnodes' : xnodes'[i] = xnodes'[j] => i = j
    BY <2>3, <2>5, <2>6
  <2>8. Range(xnodes) \cup {newNode} = Delivered
    BY <1>0, <2>1 DEF IndInv, XdsKnowsEachNodeOnce, Delivered
  <2>9. NoNode \notin Range(xnodes')
    BY <1>0, <2>4, <2>8 DEF Delivered
  <2>10. XdsKnowsEachNodeOnce'
    BY <1>0, <2>1, <2>4, <2>7, <2>8, <2>9 DEF XdsKnowsEachNodeOnce, Delivered
  <2> QED
    BY <2>2, <2>10
<1>3. ASSUME UNCHANGED <<newNode, xnodes>>, Delivered' = Delivered,
             xpc'["nodes"] = "apply" <=> xpc["nodes"] = "apply"
      PROVE  InHand' /\ XdsKnowsEachNodeOnce'
  BY <1>3 DEF IndInv, InHand, XdsKnowsEachNodeOnce, Delivered
<1>4. ASSUME NEW s \in Sessions,
             \/ Register(s) \/ RegisterUnlock(s) \/ OpenChannel(s) \/ AnnounceUnlock(s) \/ StreamEnds(s)
      PROVE  InHand' /\ XdsKnowsEachNodeOnce'
  <2>1. UNCHANGED <<newNode, xnodes, xpc>>
    BY <1>4 DEF Register, RegisterUnlock, OpenChannel, AnnounceUnlock, StreamEnds, xdsVars
  <2>2. Delivered' = Delivered
    BY <1>0, <1>4 DEF Register, RegisterUnlock, OpenChannel, AnnounceUnlock, StreamEnds, Delivered
  <2> QED
    BY <1>3, <2>1, <2>2
<1>5. ASSUME NEW s \in Sessions, SendServices(s) PROVE InHand' /\ XdsKnowsEachNodeOnce'
  <2>1. UNCHANGED <<newNode, xnodes>> /\ xpc'["nodes"] = xpc["nodes"]
    BY <1>0, <1>5 DEF SendServices
  <2>2. Delivered' = Delivered
    BY <1>0, <1>5 DEF SendServices, Delivered
  <2> QED
    BY <1>3, <2>1, <2>2
<1>6. ASSUME NEW s \in Sessions, NEW b \in Bundles, NEW p \in Ports,
             registerService(s, b, p) \/ unregisterService(s, b, p)
      PROVE  InHand' /\ XdsKnowsEachNodeOnce'
  <2>1. UNCHANGED <<newNode, xnodes, xpc>>
    BY <1>6 DEF registerService, unregisterService, Announce, xdsVars
  <2>2. Delivered' = Delivered
    BY <1>0, <1>6 DEF registerService, unregisterService, Announce, Delivered
  <2> QED
    BY <1>3, <2>1, <2>2
<1>7. CASE ApplyServices
  <2>1. UNCHANGED <<newNode, xnodes, pc>> /\ xpc'["nodes"] = xpc["nodes"]
    BY <1>0, <1>7 DEF ApplyServices, registryVars
  <2> QED
    BY <1>3, <2>1 DEF Delivered
<1>8. ASSUME NEW g \in Loops, GenerateSnapshot(g) \/ GenerateDone(g)
      PROVE  InHand' /\ XdsKnowsEachNodeOnce'
  <2>1. UNCHANGED <<newNode, xnodes, pc>>
    BY <1>8 DEF GenerateSnapshot, GenerateDone, registryVars
  <2>2. xpc'["nodes"] = "apply" <=> xpc["nodes"] = "apply"
    BY <1>0, <1>8 DEF GenerateSnapshot, GenerateDone
  <2> QED
    BY <1>3, <2>1, <2>2 DEF Delivered
<1>9. CASE UNCHANGED vars
  BY <1>3, <1>9 DEF vars, registryVars, xdsVars, Delivered
<1> QED
  BY <1>1, <1>2, <1>4, <1>5, <1>6, <1>7, <1>8, <1>9 DEF Next, Handler, Xds

-----------------------------------------------------------------------------
(* The snapshots *)

\* makeEndpoints refuses every index, so a round succeeds only when the map has
\* no entry at all, for this node or for any other.
LEMMA RoundSucceedsOnlyIfEmpty ==
    ASSUME NEW ns \in Seq(Sessions), NEW svcs, DOMAIN svcs \subseteq Int, NEW n,
           NEW first \in Visits(svcs, n)
    PROVE  makeClusters(ns, svcs, n, first).ok <=> Entries(svcs) = {}
<1>1. DOMAIN first = ClusterNames(svcs, n)
      /\ \A name \in DOMAIN first : first[name] \in Entries(svcs)
  BY DEF Visits
<1>2. \A e \in Entries(svcs) : e[1] \in Int
  BY DEF Entries
<1>3. \A i \in Int : \A ports : ~makeEndpoints(ns, i, ports).ok
  <2>1. Len(ns) \in Nat
    BY LenProperties
  <2> QED
    BY <2>1 DEF makeEndpoints, Error
<1>4. ClusterNames(svcs, n) = {} <=> Entries(svcs) = {}
  BY DEF ClusterNames
<1>5. makeClusters(ns, svcs, n, first).ok <=> DOMAIN first = {}
  BY <1>1, <1>2, <1>3 DEF makeClusters, Ok, Error
<1> QED
  BY <1>1, <1>4, <1>5

(***************************************************************************)
(* One run of generateSnapshots.  A goroutine that runs it holds the mutex *)
(* and so keeps the map as it is; the rounds so far have given snapshots   *)
(* of the new version, the others still have their common old one.  That a *)
(* second round takes place means that the map is empty: an error can stop *)
(* a run before its first snapshot only.                                   *)
(***************************************************************************)
Generation ==
    /\ \A g \in Loops : xpc[g] = "generate" <=> mu = g
    /\ \A i \in DOMAIN cache : i < Len(xnodes)
    /\ mu \in Loops =>
        /\ next <= Len(xnodes)
        /\ next > 0 => Entries(XServices) = {}
        /\ \A i \in DOMAIN cache : i < next => cache[i].version = version
        /\ \A i, j \in DOMAIN cache : i >= next /\ j >= next => cache[i].version = cache[j].version

SnapInv == Generation /\ SnapshotsOfOneVersion

LEMMA SnapStep == TypeOK /\ SnapInv /\ [Next]_vars => SnapInv'
<1> SUFFICES ASSUME TypeOK, SnapInv, [Next]_vars PROVE SnapInv'
  OBVIOUS
<1> USE SessionsAssumption
<1>0. /\ xpc \in [Loops -> {"receive", "apply", "generate", "stopped"}]
      /\ xnodes \in Seq(Sessions) /\ Len(xnodes) \in Nat
      /\ next \in Nat /\ version \in Int /\ DOMAIN cache \subseteq Nat
      /\ Sessions \cap Loops = {} /\ Nobody \notin Loops
      /\ "nodes" \in Loops /\ "services" \in Loops
      /\ DOMAIN services = NodeIDs /\ NodeIDs \subseteq Int
  BY LenProperties DEF TypeOK, Loops, Nobody, NodeIDs
<1>1. ASSUME UNCHANGED <<cache, xnodes, version, next>>,
             \A g \in Loops : xpc'[g] = "generate" <=> xpc[g] = "generate",
             mu \in Loops => mu' = mu /\ UNCHANGED <<services, aliased>>,
             mu' \in Loops => mu' = mu
      PROVE  SnapInv'
  <2>2. mu \in Loops => XServices' = XServices
    BY <1>1 DEF XServices
  <2>3. \A g \in Loops : mu' = g <=> mu = g
    BY <1>1
  <2>4. Generation'
    BY <1>1, <2>2, <2>3 DEF SnapInv, Generation
  <2>5. SnapshotsOfOneVersion'
    BY <1>1, <2>3 DEF SnapInv, SnapshotsOfOneVersion
  <2> QED
    BY <2>4, <2>5 DEF SnapInv
<1>2. ASSUME NEW s \in Sessions, Register(s) \/ RegisterUnlock(s) \/ OpenChannel(s) \/ AnnounceUnlock(s)
                                 \/ StreamEnds(s)
      PROVE  SnapInv'
  <2>1. UNCHANGED <<cache, xnodes, version, next, xpc, services, aliased>>
        /\ (mu' = mu \/ (mu \in {Nobody, s} /\ mu' \in {Nobody, s}))
    BY <1>2 DEF Register, RegisterUnlock, OpenChannel, AnnounceUnlock, StreamEnds, Lock, Unlock, xdsVars
  <2> QED
    BY <1>0, <1>1, <2>1
<1>3. ASSUME NEW s \in Sessions, SendNode(s) \/ SendServices(s) PROVE SnapInv'
  <2>1. UNCHANGED <<cache, xnodes, version, next, mu, services, aliased>>
    BY <1>3 DEF SendNode, SendServices
  <2>2. \A g \in Loops : xpc'[g] = "generate" <=> xpc[g] = "generate"
    BY <1>0, <1>3 DEF SendNode, SendServices
  <2> QED
    BY <1>1, <2>1, <2>2
<1>4. ASSUME NEW s \in Sessions, NEW b \in Bundles, NEW p \in Ports,
             registerService(s, b, p) \/ unregisterService(s, b, p)
      PROVE  SnapInv'
  <2>1. UNCHANGED <<cache, xnodes, version, next, xpc, aliased>> /\ mu = Nobody /\ mu' = s
    BY <1>4 DEF registerService, unregisterService, Announce, Lock, xdsVars
  <2> QED
    BY <1>0, <1>1, <2>1
<1>5. ASSUME NEW g \in Loops, mu = Nobody, mu' = g, xpc' = [xpc EXCEPT ![g] = "generate"],
             next' = 0, version' \in Int, UNCHANGED cache,
             Len(xnodes') \in Nat, Len(xnodes') >= Len(xnodes)
      PROVE  SnapInv'
  <2>2. SnapshotsOfOneVersion'
    BY <1>5 DEF SnapshotsOfOneVersion
  <2>3. \A h \in Loops : xpc'[h] = "generate" <=> mu' = h
    BY <1>0, <1>5 DEF SnapInv, Generation
  <2>4. \A i \in DOMAIN cache' : i < Len(xnodes')
    BY <1>0, <1>5 DEF SnapInv, Generation
  <2>5. \A i, j \in DOMAIN cache : cache[i].version = cache[j].version
    BY <1>0, <1>5 DEF SnapInv, SnapshotsOfOneVersion
  <2>6. Generation'
    BY <1>0, <1>5, <2>3, <2>4, <2>5 DEF Generation
  <2> QED
    BY <2>2, <2>6 DEF SnapInv
<1>6. CASE ApplyNode
  <2>1. Len(xnodes') \in Nat /\ Len(xnodes') >= Len(xnodes)
    BY <1>0, <1>6 DEF ApplyNode
  <2>2. /\ mu = Nobody /\ mu' = "nodes" /\ xpc' = [xpc EXCEPT !["nodes"] = "generate"]
        /\ next' = 0 /\ version' \in Int /\ UNCHANGED cache
    BY <1>0, <1>6 DEF ApplyNode, Lock
  <2> QED
    BY <1>0, <1>5, <2>1, <2>2, Zenon
<1>7. CASE ApplyServices
  <2>1. /\ mu = Nobody /\ mu' = "services" /\ xpc' = [xpc EXCEPT !["services"] = "generate"]
        /\ next' = 0 /\ version' \in Int /\ UNCHANGED cache
    BY <1>0, <1>7 DEF ApplyServices, Lock
  <2>2. Len(xnodes') \in Nat /\ Len(xnodes') >= Len(xnodes)
    BY <1>0, <1>7 DEF ApplyServices
  <2> QED
    BY <1>0, <1>5, <2>1, <2>2, Zenon
<1>8. ASSUME NEW g \in Loops, GenerateSnapshot(g) PROVE SnapInv'
  <2>1. mu = g /\ next < Len(xnodes) /\ UNCHANGED <<registryVars, xnodes, aliased, version>>
    BY <1>8 DEF GenerateSnapshot, SnapInv, Generation
  <2>2. DOMAIN XServices \subseteq Int /\ XServices' = XServices
    BY <1>0, <2>1 DEF XServices, registryVars
  <2>3. PICK first \in Visits(XServices, next) :
         LET clusters == makeClusters(xnodes, XServices, next, first)
         IN  IF clusters.ok
             THEN /\ cache' = [i \in DOMAIN cache \cup {next} |->
                                 IF i = next
                                 THEN NewSnapshot(version, clusters.value, makeRoutes(XServices, next))
                                 ELSE cache[i]]
                  /\ next' = next + 1
                  /\ UNCHANGED <<xpc, mu>>
             ELSE /\ xpc' = [xpc EXCEPT ![g] = "stopped"]
                  /\ Unlock(g)
                  /\ UNCHANGED <<cache, next>>
    BY <1>8 DEF GenerateSnapshot
  <2> DEFINE clusters == makeClusters(xnodes, XServices, next, first)
             snapshot == NewSnapshot(version, clusters.value, makeRoutes(XServices, next))
  <2>4. clusters.ok <=> Entries(XServices) = {}
    BY <1>0, <2>2, RoundSucceedsOnlyIfEmpty
  <2>5. CASE clusters.ok
    <3>1. snapshot.version = version
      BY DEF NewSnapshot
    <3> HIDE DEF clusters, snapshot
    <3>2. /\ cache' = [i \in DOMAIN cache \cup {next} |-> IF i = next THEN snapshot ELSE cache[i]]
          /\ next' = next + 1 /\ UNCHANGED <<xpc, mu>>
      BY <2>3, <2>5 DEF clusters, snapshot
    <3>3. DOMAIN cache' = DOMAIN cache \cup {next}
          /\ cache'[next] = snapshot
          /\ \A i \in DOMAIN cache : i # next => cache'[i] = cache[i]
      BY <3>2
    <3>5. SnapshotsOfOneVersion'
      BY <2>1, <3>2 DEF SnapshotsOfOneVersion
    <3>6. Entries(XServices') = {}
      BY <2>2, <2>4, <2>5
    <3>7. \A i \in DOMAIN cache' : i < next' => cache'[i].version = version'
      BY <1>0, <2>1, <3>1, <3>2, <3>3 DEF SnapInv, Generation
    <3>8. \A i, j \in DOMAIN cache' : i >= next' /\ j >= next' => cache'[i].version = cache'[j].version
      BY <1>0, <2>1, <3>2, <3>3 DEF SnapInv, Generation
    <3>9. (\A i \in DOMAIN cache' : i < Len(xnodes')) /\ next' <= Len(xnodes')
      BY <1>0, <2>1, <3>2, <3>3 DEF SnapInv, Generation
    <3>10. \A h \in Loops : xpc'[h] = "generate" <=> mu' = h
      BY <3>2 DEF SnapInv, Generation
    <3>11. Generation'
      BY <3>6, <3>7, <3>8, <3>9, <3>10 DEF Generation
    <3> QED
      BY <3>5, <3>11 DEF SnapInv
  <2>6. CASE ~clusters.ok
    <3>1. xpc' = [xpc EXCEPT ![g] = "stopped"] /\ mu' = Nobody /\ UNCHANGED <<cache, next>>
      BY <2>3, <2>6 DEF Unlock
    <3>2. next = 0
      BY <1>0, <2>1, <2>4, <2>6 DEF SnapInv, Generation
    <3>3. \A i, j \in DOMAIN cache : cache[i].version = cache[j].version
      BY <1>0, <2>1, <3>2 DEF SnapInv, Generation
    <3>4. SnapshotsOfOneVersion'
      BY <3>1, <3>3 DEF SnapInv, SnapshotsOfOneVersion
    <3>5. \A h \in Loops : xpc'[h] = "generate" <=> mu' = h
      BY <1>0, <2>1, <3>1 DEF SnapInv, Generation
    <3>6. Generation'
      BY <1>0, <2>1, <3>1, <3>5 DEF SnapInv, Generation
    <3> QED
      BY <3>4, <3>6 DEF SnapInv
  <2> QED
    BY <2>5, <2>6
<1>9. ASSUME NEW g \in Loops, GenerateDone(g) PROVE SnapInv'
  <2>1. mu = g /\ mu' = Nobody /\ next = Len(xnodes) /\ xpc' = [xpc EXCEPT ![g] = "receive"]
        /\ UNCHANGED <<xnodes, cache>>
    BY <1>9 DEF GenerateDone, Unlock
  <2>2. \A i \in DOMAIN cache : cache[i].version = version
    BY <1>0, <2>1 DEF SnapInv, Generation
  <2>3. SnapshotsOfOneVersion'
    BY <2>1, <2>2 DEF SnapInv, SnapshotsOfOneVersion
  <2>4. \A h \in Loops : xpc'[h] = "generate" <=> mu' = h
    BY <1>0, <2>1 DEF SnapInv, Generation
  <2>5. Generation'
    BY <1>0, <2>1, <2>4 DEF SnapInv, Generation
  <2> QED
    BY <2>3, <2>5 DEF SnapInv
<1>10. CASE UNCHANGED vars
  BY <1>1, <1>10 DEF vars, registryVars, xdsVars
<1> QED
  BY <1>2, <1>3, <1>4, <1>6, <1>7, <1>8, <1>9, <1>10 DEF Next, Handler, Xds

-----------------------------------------------------------------------------
(***************************************************************************)
(* The cache and the registry.  What has been generated so far in a run    *)
(* comes from the map as it is, because the run holds the mutex.  Until    *)
(* xDS has the registry's map, an announcement is on its way or the map is *)
(* as empty as the one xDS started with.                                   *)
(***************************************************************************)
Running == \A g \in Loops : xpc[g] # "stopped"

CurrentInv ==
    /\ ~AnnouncementPending => services = XServices
    /\ Running /\ mu \in Loops =>
        \A i \in 0..(next - 1) :
            i \in DOMAIN cache /\ cache[i].version = version /\ cache[i].routes = makeRoutes(XServices, i)
    /\ Running /\ mu \notin Loops =>
        \A i \in 0..(Len(xnodes) - 1) :
            /\ i \in DOMAIN cache /\ cache[i].version = version
            /\ ~AnnouncementPending => cache[i].routes = makeRoutes(services, i)

LEMMA CurrentStep == TypeOK /\ SnapInv /\ CurrentInv /\ [Next]_vars => CurrentInv'
<1> SUFFICES ASSUME TypeOK, SnapInv, CurrentInv, [Next]_vars PROVE CurrentInv'
  OBVIOUS
<1> USE SessionsAssumption
<1>0. /\ xpc \in [Loops -> {"receive", "apply", "generate", "stopped"}]
      /\ pc \in [Sessions -> SessionStates]
      /\ xnodes \in Seq(Sessions) /\ Len(xnodes) \in Nat /\ next \in Nat
      /\ Sessions \cap Loops = {} /\ Nobody \notin Loops
      /\ "nodes" \in Loops /\ "services" \in Loops
      /\ \A g \in Loops : xpc[g] = "generate" <=> mu = g
  BY LenProperties DEF TypeOK, Loops, Nobody, SnapInv, Generation
\* Nothing of the cache changes, and an announcement stays on its way.
<1>1. ASSUME UNCHANGED <<cache, xnodes, version, next, services, aliased>>,
             Running' => Running,
             \A g \in Loops : mu' = g <=> mu = g,
             ~AnnouncementPending' => ~AnnouncementPending
      PROVE  CurrentInv'
  <2>1. XServices' = XServices /\ (mu' \in Loops <=> mu \in Loops)
    BY <1>1 DEF XServices
  <2>2. \A i : makeRoutes(services, i)' = makeRoutes(services, i)
    BY <1>1
  <2>3. \A i : makeRoutes(XServices, i)' = makeRoutes(XServices, i)
    BY <2>1
  <2> QED
    BY <1>1, <2>1, <2>2, <2>3 DEF CurrentInv
<1>2. ASSUME NEW s \in Sessions, Register(s) \/ RegisterUnlock(s) \/ OpenChannel(s) \/ AnnounceUnlock(s)
                                 \/ StreamEnds(s)
      PROVE  CurrentInv'
  <2>1. UNCHANGED <<cache, xnodes, version, next, xpc, services, aliased>>
        /\ (mu' = mu \/ (mu \in {Nobody, s} /\ mu' \in {Nobody, s}))
    BY <1>2 DEF Register, RegisterUnlock, OpenChannel, AnnounceUnlock, StreamEnds, Lock, Unlock, xdsVars
  <2>2. \A t \in Sessions : pc[t] \in {"announced", "sendServices"} => pc'[t] \in {"announced", "sendServices"}
    BY <1>0, <1>2 DEF Register, RegisterUnlock, OpenChannel, AnnounceUnlock, StreamEnds
  <2>3. ~AnnouncementPending' => ~AnnouncementPending
    BY <2>1, <2>2 DEF AnnouncementPending
  <2>4. \A g \in Loops : mu' = g <=> mu = g
    BY <1>0, <2>1
  <2>5. Running' => Running
    BY <2>1 DEF Running
  <2> QED
    BY <1>1, <2>1, <2>3, <2>4, <2>5
<1>3. ASSUME NEW s \in Sessions, SendNode(s) \/ SendServices(s) PROVE CurrentInv'
  <2>1. UNCHANGED <<cache, xnodes, version, next, mu, services, aliased>>
    BY <1>3 DEF SendNode, SendServices
  <2>2. Running' => Running
    BY <1>0, <1>3 DEF SendNode, SendServices, Running
  <2>3. ~AnnouncementPending' => ~AnnouncementPending
    <3>1. CASE SendNode(s)
      BY <1>0, <3>1 DEF SendNode, AnnouncementPending, Loops
    <3>2. CASE SendServices(s)
      BY <1>0, <3>2 DEF SendServices, AnnouncementPending, Loops
    <3> QED
      BY <1>3, <3>1, <3>2
  <2> QED
    BY <1>1, <2>1, <2>2, <2>3
<1>4. ASSUME NEW s \in Sessions, NEW b \in Bundles, NEW p \in Ports,
             registerService(s, b, p) \/ unregisterService(s, b, p)
      PROVE  CurrentInv'
  <2>1. /\ UNCHANGED <<cache, xnodes, version, next, xpc, aliased>> /\ mu = Nobody /\ mu' = s
        /\ pc' = [pc EXCEPT ![s] = "announced"]
    BY <1>4 DEF registerService, unregisterService, Announce, Lock, xdsVars
  <2>2. AnnouncementPending'
    BY <1>0, <2>1 DEF AnnouncementPending
  <2>3. Running' => Running
    BY <2>1 DEF Running
  <2> QED
    BY <1>0, <2>1, <2>2, <2>3 DEF CurrentInv
<1>5. CASE ApplyNode
  <2>1. /\ mu' = "nodes" /\ next' = 0 /\ UNCHANGED <<services, aliased, pc>>
        /\ xpc' = [xpc EXCEPT !["nodes"] = "generate"]
    BY <1>5 DEF ApplyNode, Lock, registryVars
  <2>2. ~AnnouncementPending' => ~AnnouncementPending
    BY <1>0, <2>1 DEF AnnouncementPending
  <2>3. XServices' = XServices
    BY <2>1 DEF XServices
  <2> QED
    BY <1>0, <2>1, <2>2, <2>3 DEF CurrentInv
<1>6. CASE ApplyServices
  <2>1. mu' = "services" /\ next' = 0 /\ aliased' = TRUE
    BY <1>6 DEF ApplyServices, Lock
  <2>2. services' = XServices'
    BY <2>1 DEF XServices
  <2> QED
    BY <1>0, <2>1, <2>2 DEF CurrentInv
<1>7. ASSUME NEW g \in Loops, GenerateSnapshot(g) PROVE CurrentInv'
  <2>1. mu = g /\ UNCHANGED <<services, pc, xnodes, aliased, version>>
    BY <1>0, <1>7 DEF GenerateSnapshot, registryVars
  <2>2. XServices' = XServices
    BY <2>1 DEF XServices
  <2>3. PICK first \in Visits(XServices, next) :
         LET clusters == makeClusters(xnodes, XServices, next, first)
         IN  IF clusters.ok
             THEN /\ cache' = [i \in DOMAIN cache \cup {next} |->
                                 IF i = next
                                 THEN NewSnapshot(version, clusters.value, makeRoutes(XServices, next))
                                 ELSE cache[i]]
                  /\ next' = next + 1
                  /\ UNCHANGED <<xpc, mu>>
             ELSE /\ xpc' = [xpc EXCEPT ![g] = "stopped"]
                  /\ Unlock(g)
                  /\ UNCHANGED <<cache, next>>
    BY <1>7 DEF GenerateSnapshot
  <2> DEFINE clusters == makeClusters(xnodes, XServices, next, first)
             snapshot == NewSnapshot(version, clusters.value, makeRoutes(XServices, next))
  <2>4. CASE clusters.ok
    <3>1. snapshot.version = version /\ snapshot.routes = makeRoutes(XServices, next)
      BY DEF NewSnapshot
    <3> HIDE DEF clusters, snapshot
    <3>2. /\ cache' = [i \in DOMAIN cache \cup {next} |-> IF i = next THEN snapshot ELSE cache[i]]
          /\ next' = next + 1 /\ UNCHANGED <<xpc, mu>>
      BY <2>3, <2>4 DEF clusters, snapshot
    <3>3. Running' <=> Running
      BY <3>2 DEF Running
    <3>4. AnnouncementPending' <=> AnnouncementPending
      BY <2>1, <3>2 DEF AnnouncementPending
    <3>5. ASSUME Running, NEW i \in 0..(next' - 1)
          PROVE  i \in DOMAIN cache' /\ cache'[i].version = version' /\ cache'[i].routes = makeRoutes(XServices, i)
      <4>1. CASE i = next
        BY <2>1, <3>1, <3>2, <4>1
      <4>2. CASE i # next
        <5>1. i \in 0..(next - 1)
          BY <1>0, <3>2, <4>2
        <5>2. i \in DOMAIN cache /\ cache[i].version = version /\ cache[i].routes = makeRoutes(XServices, i)
          BY <2>1, <3>5, <5>1 DEF CurrentInv
        <5> QED
          BY <2>1, <3>2, <4>2, <5>2
      <4> QED
        BY <4>1, <4>2
    <3>6. \A i : makeRoutes(XServices, i)' = makeRoutes(XServices, i)
      BY <2>2
    <3>7. mu' \in Loops
      BY <2>1, <3>2
    <3> QED
      BY <2>1, <2>2, <3>3, <3>4, <3>5, <3>6, <3>7 DEF CurrentInv
  <2>5. CASE ~clusters.ok
    <3>1. xpc' = [xpc EXCEPT ![g] = "stopped"]
      BY <2>3, <2>5
    <3>2. ~Running'
      BY <1>0, <3>1 DEF Running
    <3>3. AnnouncementPending' <=> AnnouncementPending
      BY <1>0, <2>1, <3>1 DEF AnnouncementPending
    <3> QED
      BY <2>1, <2>2, <3>2, <3>3 DEF CurrentInv
  <2> QED
    BY <2>4, <2>5
<1>8. ASSUME NEW g \in Loops, GenerateDone(g) PROVE CurrentInv'
  <2>1. /\ mu = g /\ mu' = Nobody /\ next = Len(xnodes) /\ xpc' = [xpc EXCEPT ![g] = "receive"]
        /\ UNCHANGED <<services, pc, xnodes, aliased, version, cache>>
    BY <1>8 DEF GenerateDone, Unlock, registryVars
  <2>2. XServices' = XServices
    BY <2>1 DEF XServices
  <2>3. AnnouncementPending' <=> AnnouncementPending
    BY <1>0, <2>1 DEF AnnouncementPending
  <2>4. Running' => Running
    BY <1>0, <2>1 DEF Running
  <2>5. ~AnnouncementPending => services = XServices
    BY DEF CurrentInv
  <2>6. Running => \A i \in 0..(Len(xnodes) - 1) :
            i \in DOMAIN cache /\ cache[i].version = version /\ cache[i].routes = makeRoutes(XServices, i)
    BY <2>1 DEF CurrentInv
  <2>7. \A i : makeRoutes(services, i)' = makeRoutes(services, i)
    BY <2>1
  <2>8. Running' => \A i \in 0..(Len(xnodes) - 1) :
            /\ i \in DOMAIN cache /\ cache[i].version = version
            /\ ~AnnouncementPending => cache[i].routes = makeRoutes(services, i)
    BY <2>4, <2>5, <2>6
  <2> QED
    BY <1>0, <2>1, <2>2, <2>3, <2>5, <2>7, <2>8 DEF CurrentInv
<1>9. CASE UNCHANGED vars
  <2>1. Running' => Running
    BY <1>9 DEF vars, xdsVars, Running
  <2>2. ~AnnouncementPending' => ~AnnouncementPending
    BY <1>9 DEF vars, registryVars, xdsVars, AnnouncementPending
  <2> QED
    BY <1>1, <1>9, <2>1, <2>2 DEF vars, registryVars, xdsVars
<1> QED
  BY <1>2, <1>3, <1>4, <1>5, <1>6, <1>7, <1>8, <1>9 DEF Next, Handler, Xds

-----------------------------------------------------------------------------
LEMMA Invariance == Spec => []IndInv
<1>1. IndInv /\ [Next]_vars => IndInv'
  BY TypeStep, UniqueStep, XdsStep DEF IndInv
<1> QED
  BY <1>1, IndInit, PTL DEF Spec

\* Every state has its type; no session is ever turned away with the ID that
\* Register gave it (service_regisry.go:47).
THEOREM TypeCorrect == Spec => []TypeOK
<1>1. IndInv => TypeOK
  BY DEF IndInv
<1> QED
  BY <1>1, Invariance, PTL

\* For any number of concurrent calls of Register: the ID of a reply is the
\* position of the caller's own address, so no two calls share an ID
\* (node_regisry.go:66-76).
THEOREM IDsUnique == Spec => []UniqueIDs
<1>1. IndInv => UniqueIDs
  BY DEF IndInv
<1> QED
  BY <1>1, Invariance, PTL

\* For any interleaving of handlers and goroutines: xDS has every node whose
\* Register got past its send exactly once, appended or in hand
\* (node_regisry.go:78, server.go:55-58).
THEOREM NodesHandedOverOnce == Spec => []XdsKnowsEachNodeOnce
<1>1. IndInv => XdsKnowsEachNodeOnce
  BY DEF IndInv
<1> QED
  BY <1>1, Invariance, PTL

LEMMA SnapInvariance == Spec => []SnapInv
<1>1. Init => SnapInv
  <2> SUFFICES ASSUME Init PROVE SnapInv
    OBVIOUS
  <2>1. DOMAIN cache = {} /\ mu = Nobody /\ Nobody \notin Loops /\ \A g \in Loops : xpc[g] = "receive"
    BY DEF Init, Nobody, Loops
  <2> QED
    BY <2>1 DEF SnapInv, Generation, SnapshotsOfOneVersion
<1>2. IndInv => TypeOK
  BY DEF IndInv
<1>3. TypeOK /\ SnapInv /\ [Next]_vars => SnapInv'
  BY SnapStep
<1> QED
  BY <1>1, <1>2, <1>3, Invariance, PTL DEF Spec

LEMMA CurrentInvariance == Spec => []CurrentInv
<1>1. Init => CurrentInv
  <2> SUFFICES ASSUME Init PROVE CurrentInv
    OBVIOUS
  <2>1. services = XServices /\ mu = Nobody /\ Nobody \notin Loops /\ Len(xnodes) = 0
    BY DEF Init, XServices, Nobody, Loops
  <2> QED
    BY <2>1 DEF CurrentInv
<1>2. IndInv => TypeOK
  BY DEF IndInv
<1>3. TypeOK /\ SnapInv /\ CurrentInv /\ [Next]_vars => CurrentInv'
  BY CurrentStep
<1> QED
  BY <1>1, <1>2, <1>3, Invariance, SnapInvariance, PTL DEF Spec

\* As long as both goroutines of xDS run and none is generating: every node has a
\* snapshot of the latest version, made from what is registered now unless an
\* announcement is on its way (server.go:55-82, resource.go:220-256).
THEOREM SnapshotsAreCurrent == Spec => []SnapshotsCurrent
<1>1. CurrentInv => SnapshotsCurrent
  BY DEF CurrentInv, SnapshotsCurrent, Running
<1> QED
  BY <1>1, CurrentInvariance, PTL

\* A run of generateSnapshots replaces the snapshots of all nodes or, when it
\* fails, of none: while none is running, all of the cache is of one version.  The
\* second is so because the error of makeEndpoints comes in the first round
\* (resource.go:220-256, cds.go:34).
THEOREM GenerationIsAtomic == Spec => []SnapshotsOfOneVersion
<1>1. SnapInv => SnapshotsOfOneVersion
  BY DEF SnapInv
<1> QED
  BY <1>1, SnapInvariance, PTL
=============================================================================
