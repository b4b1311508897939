------------------------ MODULE ServiceRegistryProofs ------------------------
(***************************************************************************)
(* For any nodes, bundles and ports, and announcements in any order: the   *)
(* map of the service registry holds exactly what was announced last, in   *)
(* ascending slices without duplicates, and no empty slice.                *)
(***************************************************************************)
EXTENDS ServiceRegistry, SliceProofs

(***************************************************************************)
(* The four invariants hang together.  A removal takes an announcement     *)
(* back only because the slice has no duplicates, and it has none only     *)
(* because every insertion sorts an ascending slice; IndInv states them    *)
(* for one lookup at a time.                                               *)
(***************************************************************************)
IndInv ==
    /\ DOMAIN services = Nodes
    /\ \A n \in Nodes : \A b \in DOMAIN services[n] :
        /\ b \in Bundles
        /\ services[n][b] \in Seq(Ports) /\ Ascending(services[n][b]) /\ services[n][b] # <<>>
    /\ announced \subseteq Nodes \X Bundles \X Ports
    /\ \A n \in Nodes, b \in Bundles, p \in Ports :
        <<n, b, p>> \in announced <=> p \in Range(PortsOf(services, n, b))
    /\ sending \subseteq Nodes
    /\ closed \subseteq Nodes
    /\ announcements \in 0..MaxAnnouncements

-----------------------------------------------------------------------------
(* The slices *)

\* What a lookup yields.
LEMMA LookedUp ==
    ASSUME IndInv, NEW n \in Nodes, NEW b
    PROVE  PortsOf(services, n, b) \in Seq(Ports) /\ Ascending(PortsOf(services, n, b))
<1>1. <<>> \in Seq(Ports) /\ Ascending(<<>>)
  BY DEF Ascending
<1> QED
  BY <1>1 DEF IndInv, PortsOf

\* append, slices.Sort and slices.Compact add the port to the ascending slice.
LEMMA Inserted ==
    ASSUME NEW s \in Seq(Ports), NEW p \in Ports
    PROVE  /\ Compact(Sort(Append(s, p))) \in Seq(Ports)
           /\ Range(Compact(Sort(Append(s, p)))) = Range(s) \cup {p}
           /\ Ascending(Compact(Sort(Append(s, p))))
<1> DEFINE t == Append(s, p)
           u == Sort(t)
<1>1. t \in Seq(Ports) /\ Range(t) = Range(s) \cup {p}
  <2>1. /\ t \in Seq(Ports) /\ Len(t) = Len(s) + 1
        /\ \A i \in 1..Len(s) : t[i] = s[i]
        /\ t[Len(s) + 1] = p
    BY AppendProperties
  <2>2. DOMAIN s = 1..Len(s) /\ Len(s) \in Nat
    BY LenProperties
  <2> HIDE DEF t
  <2>3. DOMAIN t = 1..(Len(s) + 1)
    BY <2>1, <2>2, LenProperties
  <2>4. \A i \in DOMAIN t : i \in DOMAIN s \/ i = Len(s) + 1
    BY <2>2, <2>3
  <2>5. DOMAIN s \subseteq DOMAIN t /\ Len(s) + 1 \in DOMAIN t
    BY <2>2, <2>3
  <2> QED
    BY <2>1, <2>2, <2>4, <2>5 DEF Range
<1> HIDE DEF t
<1>2. Ports \subseteq Int
  BY PortsAssumption
<1>3. t \in Seq(Int)
  <2>1. DOMAIN t = 1..Len(t) /\ Len(t) \in Nat /\ t \in [1..Len(t) -> Ports]
    BY <1>1, LenProperties
  <2>2. t \in [1..Len(t) -> Int]
    BY <1>2, <2>1
  <2> QED
    BY <2>1, <2>2
<1>4. DOMAIN u = DOMAIN t /\ Range(u) = Range(t) /\ \A i, j \in DOMAIN t : i < j => u[i] <= u[j]
  BY <1>3, SortProperties
<1>5. u \in Seq(Ports)
  <2>1. u = [i \in DOMAIN t |-> u[i]]
    BY DEF Sort
  <2>2. DOMAIN t = 1..Len(t) /\ Len(t) \in Nat /\ \A i \in DOMAIN t : t[i] \in Ports
    BY <1>1, LenProperties, ElementOfSeq
  <2> HIDE DEF u
  <2>3. \A i \in DOMAIN t : u[i] \in Ports
    BY <1>4, <2>2 DEF Range
  <2>4. u \in [1..Len(t) -> Ports]
    BY <2>1, <2>2, <2>3
  <2> QED
    BY <2>2, <2>4
<1> HIDE DEF u
<1>6. Compact(u) \in Seq(Ports) /\ Range(Compact(u)) = Range(u) /\ Ascending(Compact(u))
  BY <1>2, <1>4, <1>5, CompactProperties
<1> QED
  BY <1>1, <1>4, <1>6 DEF t, u

LEMMA EmptyRange ==
    ASSUME NEW S, NEW s \in Seq(S)
    PROVE  s = <<>> <=> Range(s) = {}
<1>1. DOMAIN s = 1..Len(s) /\ Len(s) \in Nat
  BY LenProperties
<1>2. s = <<>> <=> Len(s) = 0
  BY EmptySeq
<1>3. Range(s) = {} <=> DOMAIN s = {}
  BY DEF Range
<1>4. \A n \in Nat : (n = 0 => 1..n = {}) /\ (n # 0 => 1 \in 1..n)
  OBVIOUS
<1> QED
  BY <1>1, <1>2, <1>3, <1>4, Zenon

-----------------------------------------------------------------------------
(* The map *)

\* A step of the handler of n that leaves the ports new to bundle b, and takes
\* the bundle out when there are none.
LEMMA SliceReplaced ==
    ASSUME IndInv, NEW n \in Nodes, NEW b \in Bundles, NEW new \in Seq(Ports), Ascending(new), Recv(n),
           \/ new # <<>> /\ services' = Assigned(services, n, b, new)
           \/ new = <<>> /\ services' = [services EXCEPT ![n] =
                                            [c \in DOMAIN services[n] \ {b} |-> services[n][c]]],
           announced' \subseteq Nodes \X Bundles \X Ports,
           \A m \in Nodes, c \in Bundles, p \in Ports :
                <<m, c, p>> \in announced' <=>
                    IF m = n /\ c = b THEN p \in Range(new) ELSE <<m, c, p>> \in announced
    PROVE  IndInv'
<1>1. DOMAIN services' = Nodes /\ \A m \in Nodes : m # n => services'[m] = services[m]
  BY DEF IndInv, Assigned
<1>2. /\ \A c \in DOMAIN services'[n] :
            IF c = b THEN new # <<>> /\ services'[n][c] = new
                     ELSE c \in DOMAIN services[n] /\ services'[n][c] = services[n][c]
      /\ \A c \in DOMAIN services[n] : c # b => c \in DOMAIN services'[n]
      /\ b \in DOMAIN services'[n] <=> new # <<>>
  BY DEF IndInv, Assigned
<1>3. \A m \in Nodes : \A c \in DOMAIN services'[m] :
        /\ c \in Bundles
        /\ services'[m][c] \in Seq(Ports) /\ Ascending(services'[m][c]) /\ services'[m][c] # <<>>
  <2> TAKE m \in Nodes
  <2>1. CASE m # n
    BY <1>1, <2>1 DEF IndInv
  <2>2. CASE m = n
    <3> TAKE c \in DOMAIN services'[m]
    <3>1. CASE c = b
      BY <1>2, <2>2, <3>1
    <3>2. CASE c # b
      BY <1>2, <2>2, <3>2 DEF IndInv
    <3> QED
      BY <3>1, <3>2
  <2> QED
    BY <2>1, <2>2
<1>4. ASSUME NEW m \in Nodes, NEW c \in Bundles
      PROVE  PortsOf(services', m, c) = IF m = n /\ c = b THEN new ELSE PortsOf(services, m, c)
  <2>1. CASE m # n
    BY <1>1, <2>1 DEF PortsOf
  <2>2. CASE m = n /\ c # b
    BY <1>2, <2>2 DEF PortsOf
  <2>3. CASE m = n /\ c = b
    BY <1>2, <2>3 DEF PortsOf
  <2> QED
    BY <2>1, <2>2, <2>3
<1>5. \A m \in Nodes, c \in Bundles, p \in Ports :
        <<m, c, p>> \in announced' <=> p \in Range(PortsOf(services', m, c))
  BY <1>4 DEF IndInv
<1>6. sending' \subseteq Nodes /\ closed' \subseteq Nodes
  BY DEF IndInv, Recv
<1>7. announcements' \in 0..MaxAnnouncements
  BY PortsAssumption DEF IndInv, Recv
<1> QED
  BY <1>1, <1>3, <1>5, <1>6, <1>7 DEF IndInv

LEMMA RegisterStep ==
    ASSUME IndInv, NEW n \in Nodes, NEW b \in Bundles, NEW p \in Ports, registerService(n, b, p)
    PROVE  IndInv'
<1> DEFINE old == PortsOf(services, n, b)
           new == Compact(Sort(Append(old, p)))
<1>1. old \in Seq(Ports)
  BY LookedUp
<1>2. new \in Seq(Ports) /\ Ascending(new) /\ Range(new) = Range(old) \cup {p}
  BY <1>1, Inserted
<1>3. Recv(n) /\ services' = Assigned(services, n, b, new) /\ announced' = announced \cup {<<n, b, p>>}
  BY DEF registerService, Registered
<1>4. \A q \in Ports : <<n, b, q>> \in announced <=> q \in Range(old)
  BY DEF IndInv
<1> HIDE DEF old, new
<1>5. new # <<>>
  BY <1>2, EmptyRange
<1>6. announced' \subseteq Nodes \X Bundles \X Ports
  BY <1>3 DEF IndInv
<1>7. \A m \in Nodes, c \in Bundles, q \in Ports :
        <<m, c, q>> \in announced' <=>
            IF m = n /\ c = b THEN q \in Range(new) ELSE <<m, c, q>> \in announced
  BY <1>2, <1>3, <1>4
<1> QED
  BY <1>2, <1>3, <1>5, <1>6, <1>7, SliceReplaced

LEMMA UnregisterStep ==
    ASSUME IndInv, NEW n \in Nodes, NEW b \in Bundles, NEW p \in Ports, unregisterService(n, b, p)
    PROVE  IndInv'
<1> DEFINE old == PortsOf(services, n, b)
           new == RemoveFirst(old, p)
<1>1. old \in Seq(Ports) /\ Ascending(old)
  BY LookedUp
<1>2. Recv(n) /\ services' = Unregistered(services, n, b, p) /\ announced' = announced \ {<<n, b, p>>}
  BY DEF unregisterService
<1>3. \/ new # <<>> /\ services' = Assigned(services, n, b, new)
      \/ new = <<>> /\ services' = [services EXCEPT ![n] =
                                        [c \in DOMAIN services[n] \ {b} |-> services[n][c]]]
  BY <1>2 DEF Unregistered
<1>4. \A q \in Ports : <<n, b, q>> \in announced <=> q \in Range(old)
  BY DEF IndInv
<1>5. new \in Seq(Ports) /\ Ascending(new) /\ Range(new) = Range(old) \ {p}
  <2> HIDE DEF old
  <2>1. Ports \subseteq Int
    BY PortsAssumption
  <2> QED
    BY <1>1, <2>1, RemoveFirstProperties
<1> HIDE DEF old, new
<1>6. announced' \subseteq Nodes \X Bundles \X Ports
  BY <1>2 DEF IndInv
<1>7. \A m \in Nodes, c \in Bundles, q \in Ports :
        <<m, c, q>> \in announced' <=>
            IF m = n /\ c = b THEN q \in Range(new) ELSE <<m, c, q>> \in announced
  BY <1>2, <1>4, <1>5
<1> QED
  BY <1>2, <1>3, <1>5, <1>6, <1>7, SliceReplaced

-----------------------------------------------------------------------------
LEMMA Invariance == Spec => []IndInv
<1>1. Init => IndInv
  <2> SUFFICES ASSUME Init PROVE IndInv
    OBVIOUS
  <2>1. DOMAIN services = Nodes /\ \A n \in Nodes : DOMAIN services[n] = {}
    BY DEF Init
  <2>2. \A n \in Nodes, b \in Bundles : Range(PortsOf(services, n, b)) = {}
    BY <2>1 DEF PortsOf, Range
  <2>3. announcements \in 0..MaxAnnouncements
    BY PortsAssumption DEF Init
  <2>4. announced = {} /\ sending = {} /\ closed = {}
    BY DEF Init
  <2> QED
    BY <2>1, <2>2, <2>3, <2>4 DEF IndInv
<1>2. IndInv /\ [Next]_vars => IndInv'
  <2> SUFFICES ASSUME IndInv, [Next]_vars PROVE IndInv'
    OBVIOUS
  <2>1. ASSUME NEW n \in Nodes, UpdateReceived(n) \/ StreamEnds(n) PROVE IndInv'
    <3>1. UNCHANGED <<services, announced, announcements>> /\ sending' \subseteq Nodes /\ closed' \subseteq Nodes
      BY <2>1 DEF UpdateReceived, StreamEnds, IndInv
    <3> QED
      BY <3>1 DEF IndInv
  <2>2. CASE UNCHANGED vars
    BY <2>2 DEF vars, IndInv
  <2> QED
    BY <2>1, <2>2, RegisterStep, UnregisterStep DEF Next
<1> QED
  BY <1>1, <1>2, PTL DEF Spec

\* Every entry is a bundle of a node.
LEMMA EntriesOfNodes ==
    ASSUME IndInv
    PROVE  \A e : e \in Entries(services) <=>
                    \E n \in Nodes : \E b \in DOMAIN services[n] : e = <<n, b>>
BY DEF Entries, IndInv

\* The map of maps keeps its shape, whatever is announced.
THEOREM TypeCorrect == Spec => []TypeOK
<1>1. ASSUME IndInv PROVE TypeOK
  <2>1. \A e \in Entries(services) : services[e[1]][e[2]] \in Seq(Ports)
    BY <1>1, EntriesOfNodes DEF IndInv
  <2> QED
    BY <1>1, <2>1 DEF IndInv, TypeOK
<1> QED
  BY <1>1, Invariance, PTL

\* For any number of nodes and of announcements: the registry offers a port
\* exactly when the last announcement for it was a registration
\* (service_regisry.go:79-118).
THEOREM OffersAreAnnouncements == Spec => []OffersMatchAnnouncements
<1>1. ASSUME IndInv PROVE OffersMatchAnnouncements
  <2> DEFINE offers == UNION {{<<e[1], e[2], p>> : p \in Range(services[e[1]][e[2]])} : e \in Entries(services)}
  <2>1. ASSUME NEW x \in announced PROVE x \in offers
    <3>1. PICK n \in Nodes, b \in Bundles, p \in Ports : x = <<n, b, p>>
      BY <1>1, <2>1 DEF IndInv
    <3>2. p \in Range(PortsOf(services, n, b))
      BY <1>1, <2>1, <3>1 DEF IndInv
    <3>3. b \in DOMAIN services[n] /\ p \in Range(services[n][b])
      BY <3>2 DEF PortsOf, Range
    <3>4. <<n, b>> \in Entries(services)
      BY <1>1, <3>3, EntriesOfNodes
    <3> QED
      BY <3>1, <3>3, <3>4
  <2>2. ASSUME NEW x \in offers PROVE x \in announced
    <3>1. PICK e \in Entries(services) : \E p \in Range(services[e[1]][e[2]]) : x = <<e[1], e[2], p>>
      OBVIOUS
    <3>2. PICK p \in Range(services[e[1]][e[2]]) : x = <<e[1], e[2], p>>
      BY <3>1
    <3>3. PICK n \in Nodes : \E b \in DOMAIN services[n] : e = <<n, b>>
      BY <1>1, EntriesOfNodes
    <3>4. PICK b \in DOMAIN services[n] : e = <<n, b>>
      BY <3>3
    <3>5. x = <<n, b, p>> /\ p \in Range(services[n][b])
      BY <3>2, <3>4
    <3>6. b \in Bundles /\ services[n][b] \in Seq(Ports)
      BY <1>1 DEF IndInv
    <3>7. p \in Ports
      BY <3>5, <3>6, ElementOfSeq, LenProperties DEF Range
    <3>8. p \in Range(PortsOf(services, n, b))
      BY <3>5 DEF PortsOf
    <3> QED
      BY <1>1, <3>5, <3>6, <3>7, <3>8 DEF IndInv
  <2>3. announced = offers
    <3> HIDE DEF offers
    <3> QED
      BY <2>1, <2>2
  <2> QED
    BY <2>3 DEF OffersMatchAnnouncements
<1> QED
  BY <1>1, Invariance, PTL

\* For slices of any length: they stay strictly ascending, so one removal is
\* enough to take a port back (service_regisry.go:90-105).
THEOREM SlicesAscend == Spec => []PortsAscending
<1>1. ASSUME IndInv PROVE PortsAscending
  <2>1. \A e \in Entries(services) : Ascending(services[e[1]][e[2]])
    BY <1>1, EntriesOfNodes DEF IndInv
  <2> QED
    BY <2>1 DEF PortsAscending, Ascending
<1> QED
  BY <1>1, Invariance, PTL

\* A bundle without a port leaves no key behind (service_regisry.go:107-109).
THEOREM NoBundleIsEmpty == Spec => []NoEmptyBundle
<1>1. ASSUME IndInv PROVE NoEmptyBundle
  BY <1>1, EntriesOfNodes DEF IndInv, NoEmptyBundle
<1> QED
  BY <1>1, Invariance, PTL
=============================================================================
