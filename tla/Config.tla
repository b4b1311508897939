-------------------------------- MODULE Config --------------------------------
(***************************************************************************)
(* pkg/config: the parameters of a program, from the defaults, the         *)
(* configuration file and the flags, and what is made of them for Envoy.   *)
(* Pure operators; only the parameters that the other modules look at.     *)
(* A file and the flags are functions on the fields that they set.         *)
(***************************************************************************)
CONSTANTS
    OwnHost,     \* os.Hostname()
    CentralHost, \* the hostname of the central node by default
    NoFile,      \* the file does not exist (a model value)
    BadFile      \* the file cannot be read or is not JSON (a model value)

Default ==
    [EnableDebugMode |-> FALSE, EnableCentralMode |-> FALSE, EnableDiscovery |-> FALSE,
     CentralNodeHostname |-> CentralHost, NodeHostname |-> OwnHost]

\* A file or flags that set some of the parameters, each to a value of its type.
Settings(f) ==
    /\ DOMAIN f \subseteq DOMAIN Default
    /\ \A x \in DOMAIN f : f[x] \in IF x \in {"CentralNodeHostname", "NodeHostname"} THEN STRING ELSE BOOLEAN

\* A central node is its own control plane.
fix(cfg) ==
    IF cfg.EnableCentralMode THEN [cfg EXCEPT !.CentralNodeHostname = cfg.NodeHostname] ELSE cfg

\* The file overrules the defaults, the flags overrule the file.
Overruled(cfg, f) == [x \in DOMAIN cfg |-> IF x \in DOMAIN f THEN f[x] ELSE cfg[x]]
applyArgumentsFromConfigFileContent(cfg, file) == Overruled(cfg, file)
applyCommandlineFlags(cfg, flags) == Overruled(cfg, flags)

\* Not defined for BadFile, for which the code returns an error.
New(file, flags) ==
    LET read == IF file = NoFile THEN Default ELSE applyArgumentsFromConfigFileContent(Default, file)
    IN  fix(applyCommandlineFlags(read, flags))

\* What Envoy is told: who it is, where the xDS server is, and whether to open
\* its administration port.
EnvoyBootstrapConfigWithNodeID(cfg, nodeID) ==
    [id |-> nodeID, xds |-> cfg.CentralNodeHostname, admin |-> cfg.EnableDebugMode]
=============================================================================
