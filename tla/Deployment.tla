------------------------------ MODULE Deployment ------------------------------
(***************************************************************************)
(* Images and the comparison of deployments (pkg/container/image.go,       *)
(* ParseFQIN of docker_container_manager.go, diff of orchestrator.go).     *)
(*                                                                         *)
(* A name in a deployment configuration is written as [domain, path, tag]  *)
(* where domain and tag may be Absent.  A path outside ValidPaths is one   *)
(* that the reference library refuses (also one with a digest).  A path is *)
(* the one that the library makes of it ("library/" in front of a single   *)
(* word); how long it is as written, ShortPaths says.                      *)
(***************************************************************************)
EXTENDS Slices

CONSTANTS
    DefaultContainerRegistryDomain,
    ValidPaths,
    ShortPaths,   \* paths shorter than "docker.io/"
    Host          \* for every domain with a port, what is in front of its colon

Absent == "absent"

\* The version of a name that is split at the colon of its domain: the port and
\* the path.  It is no tag, so there is no image of it, and one stands for all.
NoTag == "portAndPath"

\* What a deployment configuration can contain, and what can be installed.
\* ("latest" and NoTag are strings, which no prover knows.)
Versions == STRING \cup {"latest", NoTag}
WrittenNames == [domain : STRING, path : STRING, tag : Versions]
ValidImages == [name : [domain : STRING, path : ValidPaths], version : Versions]

ASSUME PathsAssumption ==
    /\ DefaultContainerRegistryDomain \in STRING /\ ValidPaths \subseteq STRING
    /\ Host \in [DOMAIN Host -> STRING]

\* The image that a name stands for.
Named(written) ==
    [name    |-> [domain |-> written.domain, path |-> written.path],
     version |-> IF written.tag = Absent THEN "latest" ELSE written.tag]

\* The last colon is the one in front of the port.
Misread(written) == written.domain \in DOMAIN Host /\ written.tag = Absent

\* Everything behind the last colon is the version.
ParseImageName(written) ==
    IF Misread(written)
    THEN [name |-> [domain |-> Absent, path |-> Host[written.domain]], version |-> NoTag]
    ELSE Named(written)

ParseableName(name) == name.path \in ValidPaths

\* name[:idx+1], where idx is that of "/" in the normalized name, is out of range.
TooShort(name) == ParseableName(name) /\ name.domain = Absent /\ name.path \in ShortPaths

\* The fully qualified name: a missing domain becomes the configured one.
ParseFQIN(name) ==
    IF name.domain = Absent
    THEN [name EXCEPT !.domain = DefaultContainerRegistryDomain]
    ELSE name

\* The outcomes of ParseFQIN: an error, a panic, a name.
Rejected(written) == ~ParseableName(ParseImageName(written).name)
Crashes(written) == TooShort(ParseImageName(written).name)
Accepted(written) == ~Rejected(written) /\ ~Crashes(written)

WithFQIN(image) == [image EXCEPT !.name = ParseFQIN(image.name)]

\* What process compares: parsed, then fully qualified.
Qualified(written) == WithFQIN(ParseImageName(written))

\* What whoever wrote the name wants.
Meant(written) == WithFQIN(Named(written))

\* fmt.Sprintf("%s:%s", name, version), as a name in a configuration.
Formatted(image) ==
    [domain |-> image.name.domain, path |-> image.name.path, tag |-> image.version]

MapSeq(Op(_), s) == [i \in DOMAIN s |-> Op(s[i])]

\* memory[i.Name] == i.Version after the loop over a: the last entry of a name
\* overwrites the earlier ones.
InMemory(a, image) ==
    \E k \in DOMAIN a :
        /\ a[k] = image
        /\ \A l \in DOMAIN a : l > k => a[l].name # image.name

\* Faulty variant: only the names are compared.
diffOfNames(a, b) ==
    Subsequence(b, {i \in DOMAIN b : \A k \in DOMAIN a : a[k].name # b[i].name})

\* The images of b that a lacks, or has in another version.
diff(a, b) == Subsequence(b, {i \in DOMAIN b : ~InMemory(a, b[i])})
=============================================================================
