--------------------------- MODULE ServiceRegistry ---------------------------
(***************************************************************************)
(* The service registry of pkg/registry/service_regisry.go by itself: one  *)
(* handler (OpenChannel) per node takes the announcements of its stream    *)
(* one after the other, changes the shared map under the mutex, and then,  *)
(* outside the mutex, waits for whoever receives from updateChannel.  The  *)
(* receiver is left open here: ControlPlane puts the xDS server there.     *)
(***************************************************************************)
EXTENDS ServiceMap

CONSTANTS
    Nodes,             \* IDs of the nodes that have opened a channel
    Bundles,
    Ports,             \* the ports that appear in announcements, int32 values
    MaxAnnouncements   \* bound: announcements in a behaviour

ASSUME PortsAssumption == Ports \subseteq Int /\ MaxAnnouncements \in Nat

VARIABLES
    services,      \* s.services
    sending,       \* handlers blocked in s.updateChannel <- s.services
    closed,        \* handlers that have returned
    announcements, \* bound: how many announcements were handled
    announced      \* history: offers whose last announcement was REGISTERED

vars == <<services, sending, closed, announcements, announced>>

Init ==
    /\ services = [n \in Nodes |-> <<>>]
    /\ sending = {}
    /\ closed = {}
    /\ announcements = 0
    /\ announced = {}

\* The handler of n is in stream.Recv() and gets an announcement.
Recv(n) ==
    /\ n \notin sending \cup closed
    /\ announcements < MaxAnnouncements
    /\ announcements' = announcements + 1
    /\ sending' = sending \cup {n}
    /\ UNCHANGED closed

registerService(n, b, p) ==
    /\ Recv(n)
    /\ services' = Registered(services, n, b, p)
    /\ announced' = announced \cup {<<n, b, p>>}

unregisterService(n, b, p) ==
    /\ Recv(n)
    /\ services' = Unregistered(services, n, b, p)
    /\ announced' = announced \ {<<n, b, p>>}

\* Somebody receives from updateChannel and the handler goes on.
UpdateReceived(n) ==
    /\ n \in sending
    /\ sending' = sending \ {n}
    /\ UNCHANGED <<services, closed, announcements, announced>>

\* The stream ends (io.EOF or an error): what the node announced stays.
StreamEnds(n) ==
    /\ n \notin sending \cup closed
    /\ closed' = closed \cup {n}
    /\ UNCHANGED <<services, sending, announcements, announced>>

Next ==
    \E n \in Nodes :
        \/ \E b \in Bundles, p \in Ports : registerService(n, b, p) \/ unregisterService(n, b, p)
        \/ UpdateReceived(n)
        \/ StreamEnds(n)

Spec == Init /\ [][Next]_vars

-----------------------------------------------------------------------------
\* The map of maps has its shape.
TypeOK ==
    /\ DOMAIN services = Nodes
    /\ \A n \in Nodes : DOMAIN services[n] \subseteq Bundles
    /\ \A e \in Entries(services) : services[e[1]][e[2]] \in Seq(Ports)
    /\ sending \subseteq Nodes
    /\ closed \subseteq Nodes
    /\ announcements \in 0..MaxAnnouncements

\* The registry offers a port of a bundle on a node exactly when the last
\* announcement for it was a registration, however often and in whatever order
\* ports were announced: removing one occurrence in unregisterService
\* (service_regisry.go:102-105) is enough only because registerService keeps
\* the slices free of duplicates (:90-92).
OffersMatchAnnouncements ==
    announced = UNION {{<<e[1], e[2], p>> : p \in Range(services[e[1]][e[2]])} : e \in Entries(services)}

\* Every slice is in strictly ascending order: slices.Compact removes
\* neighbours only, so it removes all duplicates only of a sorted slice
\* (service_regisry.go:90-92).
PortsAscending ==
    \A e \in Entries(services) :
        \A i, j \in DOMAIN services[e[1]][e[2]] :
            i < j => services[e[1]][e[2]][i] < services[e[1]][e[2]][j]

\* A bundle is in the map only while it has a port: a bundle whose last port was
\* withdrawn leaves no key behind, which the xDS server would turn into a
\* cluster without endpoints (service_regisry.go:107-109).
NoEmptyBundle ==
    \A e \in Entries(services) : services[e[1]][e[2]] # <<>>
=============================================================================
