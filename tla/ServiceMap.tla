------------------------------ MODULE ServiceMap ------------------------------
(***************************************************************************)
(* The map of pkg/registry/service_regisry.go (ServiceConfigSnapshot) and  *)
(* the two changes that announcements make to it: node ID -> bundle ID ->  *)
(* slice of ports.  A node without bundles and a node without an inner map *)
(* cannot be told apart by any code that reads the map; both are the empty *)
(* function here.                                                          *)
(***************************************************************************)
EXTENDS Slices

\* Faulty variant: a slice that is made with one zero element instead of none.
PortsOfMadeWithOne(services, nodeID, bundleID) ==
    IF bundleID \in DOMAIN services[nodeID] THEN services[nodeID][bundleID] ELSE <<0>>

\* A map lookup: a bundle that is absent yields the nil slice.
PortsOf(services, nodeID, bundleID) ==
    IF bundleID \in DOMAIN services[nodeID] THEN services[nodeID][bundleID] ELSE <<>>

\* s.services[nodeID][bundleID] = ports
Assigned(services, nodeID, bundleID, ports) ==
    [services EXCEPT ![nodeID] =
        [b \in DOMAIN services[nodeID] \cup {bundleID} |->
            IF b = bundleID THEN ports ELSE services[nodeID][b]]]

(* Faulty variants (see the remark in Broker). *)

\* The new port is appended and compacted, but the slice is not sorted first.
RegisteredUnsorted(services, nodeID, bundleID, port) ==
    LET ports == Append(PortsOf(services, nodeID, bundleID), port)
    IN  Assigned(services, nodeID, bundleID, Compact(ports))

\* The slice is sorted but not compacted.
RegisteredUncompacted(services, nodeID, bundleID, port) ==
    LET ports == Append(PortsOf(services, nodeID, bundleID), port)
    IN  Assigned(services, nodeID, bundleID, Sort(ports))

\* A bundle that has lost its last port stays in the map.
UnregisteredKeepingBundle(services, nodeID, bundleID, port) ==
    LET rest == RemoveFirst(PortsOf(services, nodeID, bundleID), port)
    IN  Assigned(services, nodeID, bundleID, rest)

-----------------------------------------------------------------------------
Registered(services, nodeID, bundleID, port) ==
    LET ports == Append(PortsOf(services, nodeID, bundleID), port)
    IN  Assigned(services, nodeID, bundleID, Compact(Sort(ports)))

\* slices.Index and slices.Delete take out the first occurrence.
Unregistered(services, nodeID, bundleID, port) ==
    LET rest == RemoveFirst(PortsOf(services, nodeID, bundleID), port)
    IN  IF rest = <<>>
        THEN [services EXCEPT ![nodeID] = [b \in DOMAIN services[nodeID] \ {bundleID} |-> services[nodeID][b]]]
        ELSE Assigned(services, nodeID, bundleID, rest)

\* What a range over the two levels of the map visits.
Entries(services) ==
    UNION {{<<n, b>> : b \in DOMAIN services[n]} : n \in DOMAIN services}
=============================================================================
