---------------------------- MODULE MCOrchestrator ----------------------------
(* Orchestrator for TLC. *)
EXTENDS Orchestrator

MCEnvoyPaths == {"envoyproxy/envoy", "nonlocalhost/envoyproxy/envoy"}
MCPaths == MCEnvoyPaths \cup {"speedometer", "navigation", "diagnostics", "seat", "registry.local"}
MCHost == [domain \in {"registry.local:5000"} |-> "registry.local"]

Written(path, tag) == [domain |-> Absent, path |-> path, tag |-> tag]
Ported(path, tag) == [domain |-> "registry.local:5000", path |-> path, tag |-> tag]
Installed(path, version) == Meant(Written(path, version))

\* An application of which another version runs already, without a tag; one from a
\* registry with a port, with a tag and without, so that what runs is misread; an
\* image that is named like Envoy; a name that cannot be parsed, and one that is too
\* short, in either order; no entry for this node.
MCConfigs ==
    {<<Ported("navigation", "latest")>>,
     <<Written("speedometer", Absent)>>,
     <<Ported("navigation", Absent), Written("nonlocalhost/envoyproxy/envoy", "1")>>,
     <<Written("navigation", "1"), Written("?", "1"), Written("seat", "1")>>,
     <<Ported("navigation", "1"), Written("seat", "1"), Written("?", "1")>>,
     NoEntry}

MCOne == {<<Written("speedometer", "1")>>}
MCNone == {<<>>}

MCSpeedometer == {Installed("speedometer", "1")}
MCTool == {Installed("diagnostics", "1")}
MCEnvoy == Installed("envoyproxy/envoy", "distroless-v1.27-latest")
=============================================================================
