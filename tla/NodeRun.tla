------------------------------- MODULE NodeRun -------------------------------
(***************************************************************************)
(* A run of carisma-orchestrator from its start to its end (app.go:41-145, *)
(* 168-202, 331-356): discovery of the central node, registration, the     *)
(* life of the node's Envoy, and the deferred calls.  The program may be   *)
(* told to end by a signal, may be killed, and may be started again.  What *)
(* it does in its main loop is in Orchestrator and Central.                *)
(*                                                                         *)
(* The containers here are those of Envoy's image, in the order of their   *)
(* creation.  They publish the same ports, so that the engine runs one of  *)
(* them at a time (external).                                              *)
(***************************************************************************)
EXTENDS Config, Naturals, Sequences, FiniteSets

CONSTANTS
    Configs,       \* pairs of a file and flags with which the program is started
    Packets,       \* UDP packets: [magic, body], see below
    MaxStarts,     \* bound: starts of the program
    MaxFailures,   \* bound: failing calls of the engine, the system or the control plane
    MaxKills,      \* bound: kills of the program
    MaxPackets     \* bound: packets that reach the node while it waits for one

\* Files and flags set parameters to values of their types, and what is in a
\* packet are strings.
ASSUME InputsAssumption ==
    /\ OwnHost \in STRING /\ CentralHost \in STRING
    /\ \A c \in Configs : Settings(c.flags) /\ (c.file \in {NoFile, BadFile} \/ Settings(c.file))
    /\ \A p \in Packets : p.magic \in BOOLEAN /\ p.body \in STRING

VARIABLES
    pc,            \* where Run is; "off" when the program does not run
    cfg,           \* *config.Config of this run
    deferred,      \* stopEnvoy is being run as a deferred call
    signalled,     \* ctx is done
    target,        \* the container in the hands of stopEnvoy or runEnvoy
    nodeID,        \* the reply of Register in this run
    client,        \* nodeRegChanClient is not nil
    users,         \* goroutines that use nodeRegChanClient have been started
    exit,          \* how the last run ended: "none", "refused", "return" or "killed"
    containers,    \* the engine: a sequence of [boot, status]; the position is the ID
    registered,    \* calls of Register so far: the registry counts up
    starts, failures, kills, packets,   \* bounds: what has happened so far
    disturbed,     \* history: a call failed in this run
    touched        \* history: the status manager has changed a container since the start

argVars == <<cfg, nodeID, client, users>>
boundVars == <<starts, failures, kills, packets>>
vars == <<pc, argVars, deferred, signalled, target, exit, containers, registered, boundVars,
          disturbed, touched>>

Ids == DOMAIN containers
Up == {id \in Ids : containers[id].status = "Up"}

Goto(label) == pc' = label
Works == UNCHANGED <<failures, disturbed>>
Fails == failures < MaxFailures /\ failures' = failures + 1 /\ disturbed' = TRUE

\* What no step of the program changes.
Step == UNCHANGED <<signalled, starts, kills, touched>>

InitRun ==
    /\ pc = "off"
    /\ cfg = Default
    /\ deferred = FALSE /\ signalled = FALSE /\ client = FALSE /\ users = FALSE
    /\ target = 0 /\ nodeID = 0
    /\ exit = "none"
    /\ containers = <<>>
    /\ registered = 0
    /\ starts = 0 /\ failures = 0 /\ kills = 0 /\ packets = 0
    /\ disturbed = FALSE /\ touched = FALSE

-----------------------------------------------------------------------------
(* The world around the program *)

\* main: config.New and the container manager; without them Run returns.
Start(file, flags) ==
    /\ pc = "off"
    /\ starts < MaxStarts
    /\ starts' = starts + 1
    /\ signalled' = FALSE /\ deferred' = FALSE /\ client' = FALSE /\ users' = FALSE
    /\ nodeID' = 0
    /\ touched' = FALSE
    /\ \/ /\ file # BadFile
          /\ cfg' = New(file, flags)
          /\ Goto("find")
          /\ exit' = "none" /\ disturbed' = FALSE
          /\ UNCHANGED failures
       \/ /\ IF file = BadFile THEN Works ELSE Fails
          /\ exit' = "refused"
          /\ UNCHANGED <<pc, cfg>>
    /\ UNCHANGED <<target, containers, registered, kills, packets>>

\* SIGINT or SIGTERM
Signal ==
    /\ pc # "off" /\ ~signalled
    /\ signalled' = TRUE
    /\ UNCHANGED <<pc, argVars, deferred, target, exit, containers, registered, boundVars,
                   disturbed, touched>>

\* The program ends at once, without the deferred call of stopEnvoy.
Dies == Goto("off") /\ exit' = "killed"

Kill ==
    /\ pc # "off"
    /\ kills < MaxKills
    /\ kills' = kills + 1
    /\ Dies
    /\ UNCHANGED <<argVars, deferred, signalled, target, containers, registered, starts, failures,
                   packets, disturbed, touched>>

\* A goroutine calls a method of the nil client: its panic ends the program.
GoroutinePanics ==
    /\ pc # "off" /\ users /\ ~client
    /\ Dies
    /\ UNCHANGED <<argVars, deferred, target, containers, registered, failures, packets, disturbed>>
    /\ Step

\* return before the call of stopEnvoy has been deferred
Return == Goto("off") /\ exit' = "return"

\* return, or a panic of this goroutine, after it
ReturnDeferred == Goto("find") /\ deferred' = TRUE

-----------------------------------------------------------------------------
(* stopEnvoy: RemoveImageAndContainer without the descriptor.  An error is  *)
(* only logged, the one of ImageRemove too.                                 *)

StopDone ==
    IF deferred
    THEN Return
    ELSE Goto(IF cfg.EnableDiscovery THEN "discover" ELSE "register") /\ UNCHANGED exit

FindEnvoy ==
    /\ pc = "find"
    /\ \/ /\ target' \in Up
          /\ Goto("remove")
          /\ Works
          /\ UNCHANGED exit
       \/ /\ IF Up = {} THEN Works ELSE Fails
          /\ StopDone
          /\ UNCHANGED target
    /\ UNCHANGED <<argVars, deferred, containers, registered, packets>>
    /\ Step

RemoveEnvoy ==
    /\ pc = "remove"
    /\ \/ containers' = [containers EXCEPT ![target].status = "Removed"] /\ Works
       \/ Fails /\ UNCHANGED containers
    /\ StopDone
    /\ UNCHANGED <<argVars, deferred, target, registered, packets>>
    /\ Step

-----------------------------------------------------------------------------
(* handleDiscovery.  A central node starts a goroutine that broadcasts; the *)
(* deferred Close has closed its socket before the ticker fires for the     *)
(* first time, so that it ends without having sent anything, and the model  *)
(* leaves it out.                                                           *)
(*                                                                          *)
(* A packet starts with the magic string or it does not; its body is the    *)
(* hostname in it, "none" when the packet ends with the magic string, or    *)
(* "bad" when it cannot be decoded.                                         *)

IsCARISMAMessage(packet) == packet.magic
Decodable(packet) == packet.body # "bad"

\* What a central node would write into a packet, net.JoinHostPort(host, port).
\* Run applies JoinHostPort to it once more, and nobody answers at the result.
Joined == "host:port"
NewBroadcastMessage == [magic |-> TRUE, body |-> Joined]
Dialable(hostname) == hostname # Joined

\* The port cannot be opened; handleDiscovery returns and Run goes on.
NewBroadcastServiceFails == Fails

Discover ==
    /\ pc = "discover"
    /\ \/ /\ Works
          /\ Goto(IF ~cfg.EnableCentralMode /\ cfg.CentralNodeHostname = "" THEN "listen" ELSE "register")
       \/ NewBroadcastServiceFails /\ Goto("register")
    /\ UNCHANGED <<argVars, deferred, target, exit, containers, registered, packets>>
    /\ Step

\* ReadPacketWithTimeout returns a packet.  It is skipped, ends the program
\* (message.go:67 slices behind its end), or names the central node.
Packet(packet) ==
    /\ pc = "listen"
    /\ packets < MaxPackets
    /\ packets' = packets + 1
    /\ \/ /\ ~IsCARISMAMessage(packet) \/ ~Decodable(packet)
          /\ UNCHANGED <<pc, exit, cfg>>
       \/ /\ IsCARISMAMessage(packet) /\ packet.body = "none"
          /\ Dies
          /\ UNCHANGED cfg
       \/ /\ IsCARISMAMessage(packet) /\ Decodable(packet) /\ packet.body # "none"
          /\ cfg' = [cfg EXCEPT !.CentralNodeHostname = packet.body]
          /\ Goto("register")
          /\ UNCHANGED exit
    /\ Works
    /\ UNCHANGED <<nodeID, client, users, deferred, target, containers, registered>>
    /\ Step

\* Faulty variant: the time-out is treated like a foreign packet.
TimeoutIgnored == pc = "listen" /\ UNCHANGED vars

\* It returns an error instead.  Every packet has started the time anew.
Timeout ==
    /\ pc = "listen"
    /\ Goto("register")
    /\ Works
    /\ UNCHANGED <<argVars, deferred, target, exit, containers, registered, packets>>
    /\ Step

-----------------------------------------------------------------------------
\* Waits for a control plane that answers; the central one or, without a
\* hostname, one on this node.
Register ==
    /\ pc = "register"
    /\ \/ /\ Dialable(cfg.CentralNodeHostname)
          /\ registered' = registered + 1
          /\ nodeID' = registered + 1
          /\ Goto("create")
          /\ Works
          /\ UNCHANGED exit
       \/ Fails /\ Return /\ UNCHANGED <<nodeID, registered>>
    /\ UNCHANGED <<cfg, client, users, deferred, target, containers, packets>>
    /\ Step

RegisterCancelled ==
    /\ pc = "register" /\ signalled
    /\ Return
    /\ Works
    /\ UNCHANGED <<argVars, deferred, target, containers, registered, packets>>
    /\ Step

\* runEnvoy: ImagePull and ContainerCreate
CreateEnvoy ==
    /\ pc = "create"
    /\ \/ /\ containers' = Append(containers, [boot |-> EnvoyBootstrapConfigWithNodeID(cfg, nodeID),
                                               status |-> "Created"])
          /\ target' = Len(containers) + 1
          /\ Goto("start")
          /\ Works
          /\ UNCHANGED exit
       \/ Fails /\ Return /\ UNCHANGED <<containers, target>>
    /\ UNCHANGED <<argVars, deferred, registered, packets>>
    /\ Step

\* Faulty variant: a container that cannot be started is only logged.
StartEnvoyUnchecked ==
    /\ pc = "start"
    /\ \/ Up \subseteq {target} /\ containers' = [containers EXCEPT ![target].status = "Up"] /\ Works
       \/ (IF Up \subseteq {target} THEN Fails ELSE Works) /\ UNCHANGED containers
    /\ Goto("openService")
    /\ UNCHANGED <<argVars, deferred, target, exit, registered, packets>>
    /\ Step

\* runEnvoy: ContainerStart.  On an error the container stays behind.
StartEnvoy ==
    /\ pc = "start"
    /\ \/ /\ Up \subseteq {target}
          /\ containers' = [containers EXCEPT ![target].status = "Up"]
          /\ Goto("openService")
          /\ Works
          /\ UNCHANGED exit
       \/ (IF Up \subseteq {target} THEN Fails ELSE Works) /\ Return /\ UNCHANGED containers
    /\ UNCHANGED <<argVars, deferred, target, registered, packets>>
    /\ Step

\* Faulty variant: it returns without the deferred call.
OpenServiceChannelReturns ==
    /\ pc = "openService"
    /\ \/ ~signalled /\ Goto("openNode") /\ Works /\ UNCHANGED exit
       \/ (IF signalled THEN Works ELSE Fails) /\ Return
    /\ UNCHANGED <<argVars, deferred, target, containers, registered, packets>>
    /\ Step

OpenServiceChannel ==
    /\ pc = "openService"
    /\ \/ ~signalled /\ Goto("openNode") /\ Works /\ UNCHANGED deferred
       \/ (IF signalled THEN Works ELSE Fails) /\ ReturnDeferred
    /\ UNCHANGED <<argVars, target, exit, containers, registered, packets>>
    /\ Step

\* The error of this one is not looked at.
OpenNodeChannel ==
    /\ pc = "openNode"
    /\ \/ ~signalled /\ client' = TRUE /\ Works
       \/ (IF signalled THEN Works ELSE Fails) /\ UNCHANGED client
    /\ Goto(IF cfg.EnableCentralMode THEN "watch" ELSE "loop")
    /\ UNCHANGED <<cfg, nodeID, users, deferred, target, exit, containers, registered, packets>>
    /\ Step

\* NewFileWatcher and the two goroutines of a central node
WatchFile ==
    /\ pc = "watch"
    /\ \/ Goto("diff") /\ users' = TRUE /\ Works /\ UNCHANGED deferred
       \/ Fails /\ ReturnDeferred /\ UNCHANGED users
    /\ UNCHANGED <<cfg, nodeID, client, target, exit, containers, registered, packets>>
    /\ Step

\* The initial Diff returns when Watch takes the event (see Central).
Diff ==
    /\ pc = "diff"
    /\ Goto("loop")
    /\ Works
    /\ UNCHANGED <<argVars, deferred, target, exit, containers, registered, packets>>
    /\ Step

\* The ticker's goroutine is started, and the main loop ends: Recv returns an
\* error because the stream fails, or because of the signal, or it panics.
LeaveLoop ==
    /\ pc = "loop"
    /\ users' = TRUE
    /\ ReturnDeferred
    /\ UNCHANGED <<cfg, nodeID, client, target, exit, containers, registered, packets>>
    /\ Step

StreamFails == LeaveLoop /\ client /\ ~signalled /\ Fails
LoopEnds == LeaveLoop /\ (signalled \/ ~client) /\ Works

-----------------------------------------------------------------------------
\* What Run does by itself, apart from waiting for the control plane, for
\* packets and for Watch.
Proceed ==
    \/ FindEnvoy \/ RemoveEnvoy
    \/ Discover \/ Timeout
    \/ RegisterCancelled
    \/ CreateEnvoy \/ StartEnvoy
    \/ OpenServiceChannel \/ OpenNodeChannel \/ WatchFile
    \/ LoopEnds

NextRun ==
    \/ \E c \in Configs : Start(c.file, c.flags)
    \/ Signal \/ Kill
    \/ GoroutinePanics
    \/ Proceed
    \/ \E p \in Packets : Packet(p)
    \/ Register \/ Diff \/ StreamFails

-----------------------------------------------------------------------------
\* Once Envoy has been started, and as long as the status manager leaves it alone,
\* it is the only one that runs, and it has been given the ID that this run was
\* assigned, not one of an earlier run whose Envoy was left behind, and on a
\* central node this node as its xDS server (app.go:74, 115-120, config.go:125).
EnvoyOfThisNode ==
    pc \in {"openService", "openNode", "watch", "diff", "loop"} /\ ~touched =>
        \E id \in Up :
            /\ Up = {id}
            /\ containers[id].boot = EnvoyBootstrapConfigWithNodeID(cfg, nodeID)
            /\ cfg.EnableCentralMode => containers[id].boot.xds = cfg.NodeHostname

\* A run that comes to the end of Run, however early, leaves no Envoy running,
\* unless a call failed or the status manager interfered (app.go:73-74, 122-125).
CleanEnd == pc = "off" /\ exit = "return" /\ ~disturbed /\ ~touched => Up = {}

\* After a signal the program ends, wherever it was: during discovery, while it
\* waits for a control plane, and in the main loop (app.go:42, 99, 332).  The one
\* place where it may stay is the initial Diff, see Central.
SignalEnds == signalled ~> (pc = "off" \/ [](pc = "diff"))
=============================================================================
