---------------------------- MODULE XdsResources ----------------------------
(***************************************************************************)
(* The resources that cmd/carisma-control-plane/app/xds puts into the      *)
(* snapshot of a node's Envoy (cds.go, resource.go).                       *)
(*                                                                         *)
(* A node ID "node-<i>" is the index i: generateNodeID and GetNodeIdx      *)
(* convert in one direction and the other, and every ID in the service map *)
(* has passed ValidateNodeID.  A bundle ID and a cluster name are          *)
(* sequences of the pieces they are put together from.                     *)
(***************************************************************************)
EXTENDS ServiceMap

CONSTANT IngressPort, EgressPort   \* of the control plane's configuration

generateClusterName(bundleID, isLocal) ==
    (IF isLocal THEN <<"local_">> ELSE <<>>) \o bundleID \o <<"_cluster">>

ClusterOf(entry, localNodeID) ==
    generateClusterName(entry[2], entry[1] = localNodeID)

ClusterNames(services, localNodeID) ==
    {ClusterOf(e, localNodeID) : e \in Entries(services)}

(* A function returns a result or an error. *)
Error == [ok |-> FALSE]
Ok(value) == [ok |-> TRUE, value |-> value]

\* nodes[i + 1] is x.nodes[i], named by its host.
makeEndpoints(nodes, nodeIdx, ports) ==
    IF nodeIdx >= Len(nodes) \/ nodeIdx < Len(nodes)
    THEN Error
    ELSE Ok({<<nodes[nodeIdx + 1], port>> : port \in Range(ports)})

(***************************************************************************)
(* The ranges of makeClusters visit the maps in any order, and only the    *)
(* first entry with a given cluster name counts (seen).  A visit is the    *)
(* choice of that entry for every name.                                    *)
(***************************************************************************)
Visits(services, localNodeID) ==
    {first \in [ClusterNames(services, localNodeID) -> Entries(services)] :
        \A name \in DOMAIN first : ClusterOf(first[name], localNodeID) = name}

makeClusters(nodes, services, localNodeID, first) ==
    LET endpoints(name) ==
            makeEndpoints(nodes, first[name][1],
                          IF first[name][1] = localNodeID
                          THEN services[first[name][1]][first[name][2]]
                          ELSE <<IngressPort>>)
    IN  IF \E name \in DOMAIN first : ~endpoints(name).ok
        THEN Error
        ELSE Ok({[name |-> name, endpoints |-> endpoints(name).value] : name \in DOMAIN first})

(***************************************************************************)
(* A route is a prefix "/<bundle>" and the cluster it leads to.  Routes    *)
(* are matched from the front: grpc_route lists the remote ones, then the  *)
(* local ones, local_grpc_route the local ones only; within each group the *)
(* order is that of a map.                                                 *)
(***************************************************************************)
makeRoutes(services, localNodeID) ==
    LET route(e) == [prefix |-> e[2], cluster |-> ClusterOf(e, localNodeID)]
        remote == {route(e) : e \in {x \in Entries(services) : x[1] # localNodeID}}
        local  == {route(e) : e \in {x \in Entries(services) : x[1] = localNodeID}}
    IN  [grpc_route |-> <<remote, local>>, local_grpc_route |-> <<local>>]

makeHTTPConnectionManager ==
    [ingress |-> "local_grpc_route", egress |-> "grpc_route"]

makeHTTPListener ==
    {[name |-> "ingress_listener", port |-> IngressPort, route |-> makeHTTPConnectionManager.ingress],
     [name |-> "egress_listener", port |-> EgressPort, route |-> makeHTTPConnectionManager.egress]}

NewSnapshot(version, clusters, routes) ==
    [version |-> version, clusters |-> clusters, routes |-> routes, listeners |-> makeHTTPListener]
=============================================================================
