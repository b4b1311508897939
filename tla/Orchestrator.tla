----------------------------- MODULE Orchestrator -----------------------------
(***************************************************************************)
(* carisma-orchestrator on one node, once it has registered and started    *)
(* Envoy: the main loop, which hands every configuration that the relay    *)
(* delivers to process (app.go:331-352, orchestrator.go:54-151), and the   *)
(* goroutine that reports the actual state (app.go:281-328).  Both talk to *)
(* a Docker engine through dockerContainerManager; every call of the       *)
(* engine is a step of its own and may fail.  The status manager, another  *)
(* program on the node, starts and stops containers of the same engine.    *)
(*                                                                         *)
(* The relay is the broker of the control plane: what the node sends comes *)
(* back to it, mixed with the configurations of the central node, in       *)
(* order; a message may be lost on the way (module Broker).                *)
(***************************************************************************)
EXTENDS Deployment, FiniteSets

CONSTANTS
    Configs,       \* what the central node may want of this node: sequences of written
                   \* names, or NoEntry for a configuration without this node
    FoundImages,   \* images of managed containers that run when the program starts
    KeptImages,    \* images of running containers named /carisma-keep-...
    Described,     \* paths of the images that contain info.json
    EnvoyImage,    \* runEnvoy's image, fully qualified
    EnvoyPaths,    \* paths that end in "envoyproxy/envoy"
    NoEntry,       \* no configuration (a model value)
    MaxDesired,    \* bound: configurations of the central node
    MaxReports,    \* bound: reports of the actual state
    MaxCommands,   \* bound: commands to the status manager
    MaxFailures    \* bound: failing calls of the engine

ASSUME InputsAssumption ==
    /\ Configs \subseteq Seq(WrittenNames) \cup {NoEntry}
    /\ NoEntry \notin Seq(WrittenNames)
    /\ FoundImages \cup KeptImages \cup {EnvoyImage} \subseteq ValidImages
    /\ EnvoyImage.name.path \in EnvoyPaths
    /\ IsFiniteSet(FoundImages) /\ IsFiniteSet(KeptImages)
    /\ MaxFailures \in Nat

VARIABLES
    containers,   \* the engine: ID -> [image, status, kept, own]
    inbox,        \* messages of the relay that the main loop has not received
    pc,           \* where the main loop is
    config,       \* the node's images in the configuration in hand
    removed,      \* removedImages, from the one in hand on
    missing,      \* newImages, from the one in hand on
    verify,       \* the argument verifyBundleConfig of the removal in hand
    target,       \* the container in hand
    snapshot,     \* what the reporting goroutine has listed, or NoEntry
    reporting,    \* the reporting goroutine has not ended
    offers,       \* bundles announced as registered (one bundle per path)
    desired, reports, commands, failures,  \* bounds: what has happened so far
    wanted,       \* history: the last configuration sent as DESIRED that the relay kept
    applied,      \* history: the images process compared with last, or NoEntry
    blamed        \* history: paths of images for which a call of the engine failed, that
                  \* the status manager has touched, or that a name is misread from or as

callVars == <<pc, config, removed, missing, verify, target>>
reportVars == <<snapshot, reporting, reports>>
historyVars == <<wanted, applied, blamed>>
vars == <<containers, inbox, callVars, reportVars, offers, desired, commands, failures, historyVars>>

Ids == DOMAIN containers
ImageOf(id) == containers[id].image
PathOf(id) == ImageOf(id).name.path

\* The filter that process and the reporting goroutine apply to Containers.
Managed(id) == ~containers[id].kept /\ containers[id].status = "Up"
ManagedIds == {id \in Ids : Managed(id)}

\* The engine names a container's image as it was created: fully qualified and
\* tagged, so that the last colon is the one in front of the tag.
ExtractImageList(ids) == MapSeq(ImageOf, ids)

\* strings.HasSuffix (a domain that ends in "envoyproxy" is left aside)
IsEnvoy(image) == image.name.path \in EnvoyPaths

Init ==
    /\ LET found(image) == [image |-> image, status |-> "Up", kept |-> FALSE, own |-> FALSE]
           keep(image)  == [found(image) EXCEPT !.kept = TRUE]
       IN  containers = <<found(EnvoyImage)>> \o MapSeq(found, SetToSeq(FoundImages))
                                              \o MapSeq(keep, SetToSeq(KeptImages))
    /\ inbox = <<>>
    /\ pc = "recv"
    /\ config = <<>> /\ removed = <<>> /\ missing = <<>>
    /\ verify = TRUE
    /\ target = 0
    /\ snapshot = NoEntry
    /\ reporting = TRUE
    /\ offers = {}
    /\ desired = 0 /\ reports = 0 /\ commands = 0 /\ failures = 0
    /\ wanted = NoEntry
    /\ applied = NoEntry
    /\ blamed = {}

-----------------------------------------------------------------------------
(* The relay *)

\* Kept, or lost to this node (Broker's default case).
Relay(images) == inbox' = Append(inbox, images)
Lose == UNCHANGED inbox

\* The central node distributes a configuration.
SendDesired(images) ==
    /\ desired < MaxDesired
    /\ desired' = desired + 1
    /\ \/ Relay(images) /\ wanted' = IF images = NoEntry THEN wanted ELSE images
       \/ Lose /\ UNCHANGED wanted
    /\ UNCHANGED <<containers, callVars, reportVars, offers, commands, failures, applied, blamed>>

\* The ticker of app.go:281 fires; an error of Containers ends the goroutine.
ReportList ==
    /\ pc # "panicked"
    /\ reporting /\ snapshot = NoEntry
    /\ reports < MaxReports
    /\ reports' = reports + 1
    /\ \/ /\ \E ids \in SetToSeqs(ManagedIds) :
               snapshot' = MapSeq(Formatted, ExtractImageList(ids))
          /\ UNCHANGED <<reporting, failures>>
       \/ /\ failures < MaxFailures
          /\ failures' = failures + 1
          /\ reporting' = FALSE
          /\ UNCHANGED snapshot
    /\ UNCHANGED <<containers, inbox, callVars, offers, desired, commands, historyVars>>

\* The report is sent as ACTUAL; the relay does not look at the type.
ReportSend ==
    /\ pc # "panicked"
    /\ snapshot # NoEntry
    /\ Relay(snapshot) \/ Lose
    /\ snapshot' = NoEntry
    /\ UNCHANGED <<containers, callVars, reporting, reports, offers, desired, commands, failures, historyVars>>

-----------------------------------------------------------------------------
(* process *)

EngineWorks == UNCHANGED <<failures, blamed>>
EngineFails(path) ==
    /\ failures < MaxFailures
    /\ failures' = failures + 1
    /\ blamed' = blamed \cup {path}
EngineRefuses(path) == UNCHANGED failures /\ blamed' = blamed \cup {path}

\* The main loop receives a configuration, whatever its type; process returns
\* at once when it has no entry for this node.
Recv ==
    /\ pc = "recv"
    /\ inbox # <<>>
    /\ inbox' = Tail(inbox)
    /\ IF Head(inbox) = NoEntry
       THEN UNCHANGED <<pc, config>>
       ELSE pc' = "list" /\ config' = Head(inbox)
    /\ UNCHANGED <<containers, removed, missing, verify, target, reportVars, offers, desired,
                   commands, failures, historyVars>>

\* Both paths of a name that is split at its port: the one it stands for and the
\* one that process makes of it.
MisreadPaths ==
    UNION {{config[i].path, Host[config[i].domain]} : i \in {j \in DOMAIN config : Misread(config[j])}}

\* Faulty variant: Envoy is treated like any other image.
CompareWithEnvoy ==
    /\ pc = "list"
    /\ \A i \in DOMAIN config : Accepted(config[i])
    /\ \E ids \in SetToSeqs(ManagedIds) :
         LET curr == ExtractImageList(ids)
             new  == MapSeq(Qualified, config)
         IN  /\ removed' = diff(new, curr)
             /\ missing' = diff(curr, new)
    /\ applied' = Range(MapSeq(Meant, config))
    /\ blamed' = blamed \cup MisreadPaths
    /\ pc' = "next"
    /\ UNCHANGED <<containers, inbox, config, verify, target, reportVars, offers, desired, commands,
                   failures, wanted>>

\* Containers, the filter, the conversion of the names and both calls of diff.
\* (The second diff is evaluated later in the code, on the same lists.)
Compare ==
    /\ pc = "list"
    /\ \A i \in DOMAIN config : Accepted(config[i])
    /\ \E ids \in SetToSeqs(ManagedIds) :
         LET curr == ExtractImageList(ids)
             new  == MapSeq(Qualified, config)
             gone == diff(new, curr)
         IN  /\ removed' = Subsequence(gone, {i \in DOMAIN gone : ~IsEnvoy(gone[i])})
             /\ missing' = diff(curr, new)
    /\ applied' = Range(MapSeq(Meant, config))
    /\ blamed' = blamed \cup MisreadPaths
    /\ pc' = "next"
    /\ UNCHANGED <<containers, inbox, config, verify, target, reportVars, offers, desired, commands,
                   failures, wanted>>

\* The first name that ParseFQIN does not turn into another.
FirstBad(i) ==
    /\ i \in DOMAIN config /\ ~Accepted(config[i])
    /\ \A j \in 1..(i - 1) : Accepted(config[j])

\* ParseFQIN returns an error, and so does process; or it panics, which ends the
\* program (with the deferred calls of module NodeRun).
CompareAborts ==
    /\ pc = "list"
    /\ \E i \in DOMAIN config :
         FirstBad(i) /\ pc' = IF Crashes(config[i]) THEN "panicked" ELSE "recv"
    /\ UNCHANGED <<containers, inbox, config, removed, missing, verify, target, reportVars,
                   offers, desired, commands, failures, historyVars>>

\* Containers fails and so does process.
CompareFails ==
    /\ pc = "list"
    /\ failures < MaxFailures
    /\ failures' = failures + 1
    /\ pc' = "recv"
    /\ UNCHANGED <<containers, inbox, config, removed, missing, verify, target, reportVars,
                   offers, desired, commands, historyVars>>

\* bundleConfiguration finds info.json in a container of the image, or it fails
\* whatever the engine does.  containerServicePort only adds a call that may fail.
HasBundleConfiguration(image) == image.name.path \in Described

\* One step of RemoveImageAndContainer or PullImageAndCreateContainer.
CallStep == UNCHANGED <<inbox, config, reportVars, desired, commands, wanted, applied>>

-----------------------------------------------------------------------------
(* RemoveImageAndContainer, once with the bundle descriptor and once without *)

Image == Head(removed)

Finished == removed' = Tail(removed) /\ verify' = TRUE /\ pc' = "next"

\* Faulty variant: the second attempt also wants the bundle descriptor.
RetrySame == UNCHANGED <<removed, verify>> /\ pc' = "next"

\* Faulty variant: the second attempt does not look for the container again.
RetryKeepingContainer ==
    IF verify THEN verify' = FALSE /\ pc' = "remove" /\ UNCHANGED removed ELSE Finished

\* An error: the first time try again, the second time go on with the next image.
Retry ==
    IF verify THEN verify' = FALSE /\ pc' = "next" /\ UNCHANGED removed ELSE Finished

\* ContainerList with the filter "ancestor", which knows running containers
\* only; the name of the container is not looked at.
FindContainer ==
    /\ pc = "next" /\ removed # <<>>
    /\ LET candidates == {id \in Ids : ImageOf(id) = Image /\ containers[id].status = "Up"}
       IN  \/ \E id \in candidates :
                /\ target' = id
                /\ pc' = IF verify THEN "inspect" ELSE "remove"
                /\ EngineWorks
                /\ UNCHANGED <<removed, verify>>
           \/ /\ IF candidates = {} THEN EngineWorks ELSE EngineFails(Image.name.path)
              /\ Retry
              /\ UNCHANGED target
    /\ UNCHANGED <<containers, missing, offers>>
    /\ CallStep

\* bundleConfiguration and containerServicePort
InspectContainer ==
    /\ pc = "inspect"
    /\ \/ HasBundleConfiguration(Image) /\ EngineWorks
          /\ pc' = "remove" /\ UNCHANGED <<removed, verify>>
       \/ /\ IF HasBundleConfiguration(Image) THEN EngineFails(Image.name.path) ELSE EngineWorks
          /\ Retry
    /\ UNCHANGED <<containers, missing, target, offers>>
    /\ CallStep

RemoveContainer ==
    /\ pc = "remove"
    /\ \/ /\ containers' = [id \in Ids \ {target} |-> containers[id]]
          /\ pc' = "removeImage"
          /\ EngineWorks
          /\ UNCHANGED <<removed, verify>>
       \/ EngineFails(Image.name.path) /\ Retry /\ UNCHANGED containers
    /\ UNCHANGED <<missing, target, offers>>
    /\ CallStep

\* The engine refuses, even when forced, while a container runs the image.
RemoveImage ==
    /\ pc = "removeImage"
    /\ LET inUse == \E id \in Ids : ImageOf(id) = Image /\ containers[id].status = "Up"
       IN  \/ /\ ~inUse
              /\ IF verify THEN pc' = "unregister" /\ UNCHANGED <<removed, verify>> ELSE Finished
              /\ EngineWorks
           \/ /\ IF inUse THEN EngineWorks ELSE EngineFails(Image.name.path)
              /\ Retry
    /\ UNCHANGED <<containers, missing, target, offers>>
    /\ CallStep

\* Faulty variant: the handler is not called.
UnregisterSkipped ==
    /\ pc = "unregister"
    /\ Finished
    /\ UNCHANGED <<containers, missing, target, offers, failures, blamed>>
    /\ CallStep

\* hUnreg
Unregister ==
    /\ pc = "unregister"
    /\ offers' = offers \ {Image.name.path}
    /\ Finished
    /\ UNCHANGED <<containers, missing, target, failures, blamed>>
    /\ CallStep

-----------------------------------------------------------------------------
(* PullImageAndCreateContainer *)

NewImage == Head(missing)
NewId == CHOOSE id \in 1..(Cardinality(Ids) + 1) : id \notin Ids

\* continue with the next image
NextImage == missing' = Tail(missing) /\ pc' = "next"

\* ImagePull and ContainerCreate; ImagePull refuses what is not a tag.
CreateContainer ==
    /\ pc = "next" /\ removed = <<>> /\ missing # <<>>
    /\ \/ /\ NewImage.version # NoTag
          /\ target' = NewId
          /\ containers' = [id \in Ids \cup {NewId} |->
                              IF id = NewId
                              THEN [image |-> NewImage, status |-> "Created", kept |-> FALSE, own |-> TRUE]
                              ELSE containers[id]]
          /\ pc' = "start"
          /\ EngineWorks
          /\ UNCHANGED missing
       \/ /\ IF NewImage.version = NoTag
             THEN EngineRefuses(NewImage.name.path)
             ELSE EngineFails(NewImage.name.path)
          /\ NextImage
          /\ UNCHANGED <<containers, target>>
    /\ UNCHANGED <<removed, verify, offers>>
    /\ CallStep

StartContainer ==
    /\ pc = "start"
    /\ \/ /\ containers' = [containers EXCEPT ![target].status = "Up"]
          /\ pc' = "describe"
          /\ EngineWorks
          /\ UNCHANGED missing
       \/ EngineFails(NewImage.name.path) /\ NextImage /\ UNCHANGED containers
    /\ UNCHANGED <<removed, verify, target, offers>>
    /\ CallStep

\* bundleConfiguration and containerServicePort; after an error the container
\* keeps running.
DescribeContainer ==
    /\ pc = "describe"
    /\ \/ HasBundleConfiguration(NewImage) /\ EngineWorks
          /\ pc' = "register" /\ UNCHANGED missing
       \/ /\ IF HasBundleConfiguration(NewImage) THEN EngineFails(NewImage.name.path) ELSE EngineWorks
          /\ NextImage
    /\ UNCHANGED <<containers, removed, verify, target, offers>>
    /\ CallStep

\* hReg
Register ==
    /\ pc = "register"
    /\ offers' = offers \cup {NewImage.name.path}
    /\ NextImage
    /\ UNCHANGED <<containers, removed, verify, target, failures, blamed>>
    /\ CallStep

Return ==
    /\ pc = "next" /\ removed = <<>> /\ missing = <<>>
    /\ pc' = "recv"
    /\ UNCHANGED <<containers, removed, missing, verify, target, offers, failures, blamed>>
    /\ CallStep

-----------------------------------------------------------------------------
(* The status manager *)

\* readMessages receives a command for a container; the other fields of a
\* message and unknown actions have no effect.  A container that has the status
\* already stays as it is; an unknown ID and an error of the engine are only logged.
Command(id, status) ==
    /\ commands < MaxCommands
    /\ commands' = commands + 1
    /\ containers' = [containers EXCEPT ![id].status = status]
    /\ blamed' = blamed \cup {PathOf(id)}
    /\ UNCHANGED <<inbox, callVars, reportVars, offers, desired, failures, wanted, applied>>

StatusStart(id) == containers[id].status # "Up" /\ Command(id, "Up")
StatusStop(id) == containers[id].status = "Up" /\ Command(id, "Exited")

-----------------------------------------------------------------------------
RemoveImageAndContainer ==
    FindContainer \/ InspectContainer \/ RemoveContainer \/ RemoveImage \/ Unregister

PullImageAndCreateContainer ==
    CreateContainer \/ StartContainer \/ DescribeContainer \/ Register

process ==
    \/ Compare \/ CompareAborts \/ CompareFails
    \/ RemoveImageAndContainer
    \/ PullImageAndCreateContainer
    \/ Return

Next ==
    \/ \E images \in Configs : SendDesired(images)
    \/ ReportList
    \/ ReportSend
    \/ Recv
    \/ process
    \/ \E id \in Ids : StatusStart(id) \/ StatusStop(id)

\* The main loop is scheduled.  Calls of the engine return; how, is open.
Spec == Init /\ [][Next]_vars /\ WF_vars(process)

-----------------------------------------------------------------------------
Idle == pc = "recv"
Images(ids) == {ImageOf(id) : id \in ids}
OfPath(images, path) == {i \in images : i.name.path = path}

\* The state has its type.
TypeOK ==
    /\ \A id \in Ids : id \in Nat /\ containers[id].status \in {"Up", "Created", "Exited"}
    /\ pc \in {"recv", "list", "next", "inspect", "remove", "removeImage", "unregister",
               "start", "describe", "register", "panicked"}
    /\ pc \in {"inspect", "remove", "start", "describe"} => target \in Ids
    /\ verify \in BOOLEAN /\ reporting \in BOOLEAN
    /\ offers \subseteq ValidPaths /\ blamed \subseteq STRING
    /\ failures \in 0..MaxFailures

\* Paths of which process may meet two entries or two containers at a time: a
\* configuration lists one twice, or two images of it run when the program
\* starts, or a container that is not managed runs it.  diff remembers one version
\* of a name, a removal looks for any container of the image, and an image in use
\* stays: after that neither the containers nor the offers are as configured.
Shared ==
    {path \in ValidPaths :
        \/ \E images \in Configs \ {NoEntry} : \E i, j \in DOMAIN images :
                i # j /\ images[i].path = path /\ images[j].path = path
        \/ \E i, j \in FoundImages : i # j /\ i.name.path = path /\ j.name.path = path
        \/ \E i \in KeptImages : i.name.path = path}

\* After process, the managed containers run exactly the images of the
\* configuration it was given: every version change, removal and installation
\* took place.  A failing call of the engine, a command to the status manager, or
\* a name that is split at its port (image.go:16) spoils this for its own image and
\* for no other (orchestrator.go:89-147: "Do not abort execution here").  Whatever
\* ends in Envoy's name is left alone.
ConvergedButBlamed ==
    Idle /\ applied # NoEntry =>
        \A path \in ValidPaths \ (Shared \cup blamed \cup EnvoyPaths) :
            OfPath(Images(ManagedIds), path) = OfPath(applied, path)

\* After process, a bundle is announced exactly when a container runs it that
\* this run of the program has started, and again a failure affects its own
\* bundle only: the removal that is retried without the descriptor announces
\* nothing (orchestrator.go:102-122), which is right only for images without
\* one.
OffersButBlamed ==
    Idle =>
        \A path \in ValidPaths \ (Shared \cup blamed) :
            path \in offers <=>
                path \in Described /\ \E id \in ManagedIds : PathOf(id) = path /\ containers[id].own

\* The configuration in hand lists the image, under a name that is read as it is
\* meant, and no other version of it.  (Of two versions, diff remembers the last one
\* only and takes the other for removed.  A name with a port and without a tag is
\* read as another image, and what it stands for is removed.)
ListedOnce(image) ==
    /\ \E i \in DOMAIN config : Meant(config[i]) = image /\ ~Misread(config[i])
    /\ \A j \in DOMAIN config : Qualified(config[j]).name = image.name => Qualified(config[j]) = image

\* Whatever fails, process takes away no container whose image the configuration
\* in hand lists in this one version, and never one whose image ends in Envoy's
\* name (orchestrator.go:22-36, 89-94).
RemovesOnlyUnwanted ==
    [][\A id \in Ids : id \notin DOMAIN containers' =>
            ~IsEnvoy(ImageOf(id)) /\ ~ListedOnce(ImageOf(id))]_vars

\* The first bad name of the configuration in hand is one that ParseFQIN panics on.
Panics == \E i \in DOMAIN config : FirstBad(i) /\ Crashes(config[i])

\* process returns, also when an image can be removed neither with nor without
\* its descriptor (orchestrator.go:96-122).  The one exception is a name without a
\* domain that is shorter than the domain the library adds, on which the program
\* panics (docker_container_manager.go:137); a bad name in front of it saves it.
ProcessReturns == pc # "recv" /\ ~Panics ~> pc = "recv"

-----------------------------------------------------------------------------
(* Two expectations of the repository that the program does not meet. *)

\* orchestrator.go:18, "Name prefix of containers that are not managed by the
\* CARISMA orchestrator": such a container is not removed.
UnmanagedStay == Cardinality({id \in Ids : containers[id].kept}) = Cardinality(KeptImages)

\* deployment.go:24, "the containerized software that (shall) run(s) on it": when
\* nothing is under way and nothing has failed, the software of the desired
\* configuration that the node received last runs on it.
DesiredRuns ==
    Idle /\ inbox = <<>> /\ snapshot = NoEntry /\ failures = 0 /\ wanted # NoEntry =>
        \A i \in DOMAIN wanted : Accepted(wanted[i]) => Meant(wanted[i]) \in Images(ManagedIds)
=============================================================================
