------------------------------ MODULE NodeProofs ------------------------------
(***************************************************************************)
(* For any number of starts, signals, kills, failing calls, packets and    *)
(* commands of the status manager: the Envoy that runs is the one of this  *)
(* run, and a run that comes to its end leaves none behind.                *)
(***************************************************************************)
EXTENDS Node, TLAPS, SequenceTheorems

Configuration ==
    [EnableDebugMode : BOOLEAN, EnableCentralMode : BOOLEAN, EnableDiscovery : BOOLEAN,
     CentralNodeHostname : STRING, NodeHostname : STRING]

EnvoyContainer ==
    [boot : [id : Nat, xds : STRING, admin : BOOLEAN],
     status : {"Created", "Up", "Exited", "Removed"}]

\* Where Run is between its two calls of stopEnvoy: before Envoy has been
\* started, and after it.
BeforeEnvoy == {"discover", "listen", "register", "create", "start"}
WithEnvoy == {"openService", "openNode", "watch", "diff", "loop"}

TypeOK ==
    /\ pc \in {"off", "find", "remove"} \cup BeforeEnvoy \cup WithEnvoy
    /\ cfg \in Configuration
    /\ touched \in BOOLEAN /\ disturbed \in BOOLEAN
    /\ nodeID \in Nat /\ registered \in Nat
    /\ containers \in Seq(EnvoyContainer)

(***************************************************************************)
(* What the two properties rest on.  The ports let one Envoy run at a      *)
(* time, whoever starts it, so that a removal that has found one leaves    *)
(* none.  The container in hand is the one that was found, or the one that *)
(* was created for this run.  A packet can rename the central node only    *)
(* where no central node waits for packets.                                *)
(***************************************************************************)
OneAtATime == \A i, j \in Up : i = j

InHand ==
    /\ pc = "remove" => target \in Ids /\ (~touched => target \in Up)
    /\ pc = "start" => target \in Ids /\ containers[target].boot = EnvoyBootstrapConfigWithNodeID(cfg, nodeID)

OwnControlPlane ==
    /\ cfg.EnableCentralMode => cfg.CentralNodeHostname = cfg.NodeHostname
    /\ pc = "listen" => ~cfg.EnableCentralMode

StoppedFirst == pc \in BeforeEnvoy /\ ~disturbed /\ ~touched => Up = {}

IndInv == TypeOK /\ OneAtATime /\ InHand /\ OwnControlPlane /\ StoppedFirst
          /\ EnvoyOfThisNode /\ CleanEnd

-----------------------------------------------------------------------------
(* The configuration *)

\* The result of config.New has its type, and a central node is told to use
\* itself as the central node (config.go:47-68, 125-129).
LEMMA Configured ==
    ASSUME NEW c \in Configs, c.file # BadFile
    PROVE  /\ New(c.file, c.flags) \in Configuration
           /\ New(c.file, c.flags).EnableCentralMode =>
                New(c.file, c.flags).CentralNodeHostname = New(c.file, c.flags).NodeHostname
<1>1. Default \in Configuration
  <2>1. OwnHost \in STRING /\ CentralHost \in STRING
    BY InputsAssumption, Zenon
  <2> QED
    BY <2>1 DEF Default, Configuration
<1>2. ASSUME NEW d \in Configuration, NEW f, Settings(f) PROVE Overruled(d, f) \in Configuration
  <2>1. DOMAIN d = DOMAIN Default
    BY <1>2 DEF Configuration, Default
  <2>2. \A x \in DOMAIN Default : Overruled(d, f)[x] = IF x \in DOMAIN f THEN f[x] ELSE d[x]
    BY <1>2, <2>1 DEF Settings, Overruled
  <2>3. \A x \in DOMAIN Default :
          Overruled(d, f)[x] \in IF x \in {"CentralNodeHostname", "NodeHostname"} THEN STRING ELSE BOOLEAN
    BY <1>2, <2>2 DEF Settings, Configuration, Default
  <2> QED
    BY <2>1, <2>3 DEF Overruled, Configuration, Default
<1> QED
  BY <1>1, <1>2, InputsAssumption
  DEF New, Settings, applyArgumentsFromConfigFileContent, applyCommandlineFlags, fix, Configuration

-----------------------------------------------------------------------------
(* The engine's containers *)

\* What a change of one container's status does to the set of running ones.
LEMMA StatusChanged ==
    ASSUME containers \in Seq(EnvoyContainer),
           NEW id \in Ids, NEW st \in {"Created", "Up", "Exited", "Removed"},
           containers' = [containers EXCEPT ![id].status = st]
    PROVE  /\ containers' \in Seq(EnvoyContainer)
           /\ Ids' = Ids
           /\ Up' = IF st = "Up" THEN Up \cup {id} ELSE Up \ {id}
           /\ \A i \in Ids : containers'[i].boot = containers[i].boot
<1>1. containers[id] \in EnvoyContainer
  BY DEF Ids
<1>2. [containers[id] EXCEPT !.status = st] \in EnvoyContainer
  BY <1>1 DEF EnvoyContainer
<1>3. containers' = [containers EXCEPT ![id] = [containers[id] EXCEPT !.status = st]]
  OBVIOUS
<1>4. containers' \in Seq(EnvoyContainer)
  BY <1>2, <1>3 DEF Ids
<1>5. DOMAIN containers' = DOMAIN containers
  BY <1>3
<1>6. containers'[id].status = st /\ containers'[id].boot = containers[id].boot
  BY <1>1, <1>3 DEF Ids, EnvoyContainer
<1>7. \A i \in Ids : i # id => containers'[i] = containers[i]
  BY <1>3 DEF Ids
<1> QED
  BY <1>4, <1>5, <1>6, <1>7 DEF Ids, Up

\* A container that has been created does not run.
LEMMA ContainerCreated ==
    ASSUME containers \in Seq(EnvoyContainer),
           NEW b \in [id : Nat, xds : STRING, admin : BOOLEAN],
           containers' = Append(containers, [boot |-> b, status |-> "Created"])
    PROVE  /\ containers' \in Seq(EnvoyContainer)
           /\ Ids \subseteq Ids' /\ Len(containers) + 1 \in Ids'
           /\ containers'[Len(containers) + 1].boot = b
           /\ Up' = Up
           /\ \A i \in Ids : containers'[i] = containers[i]
<1> DEFINE new == [boot |-> b, status |-> "Created"]
<1>1. new \in EnvoyContainer
  BY DEF EnvoyContainer
<1>2. /\ containers' \in Seq(EnvoyContainer)
      /\ DOMAIN containers = 1..Len(containers) /\ Len(containers) \in Nat
      /\ DOMAIN containers' = 1..(Len(containers) + 1)
      /\ containers'[Len(containers) + 1] = new
      /\ \A i \in 1..Len(containers) : containers'[i] = containers[i]
  BY <1>1
<1>3. new.status # "Up" /\ new.boot = b
  OBVIOUS
<1> HIDE DEF new
<1> QED
  BY <1>2, <1>3 DEF Ids, Up

-----------------------------------------------------------------------------
LEMMA IndInit == Init => IndInv
<1> SUFFICES ASSUME Init PROVE IndInv
  OBVIOUS
<1>1. /\ pc = "off" /\ cfg = Default /\ containers = <<>> /\ exit = "none"
      /\ touched = FALSE /\ disturbed = FALSE /\ nodeID = 0 /\ registered = 0
  BY DEF Init, InitRun
<1>2. Default \in Configuration /\ ~Default.EnableCentralMode
  <2>1. OwnHost \in STRING /\ CentralHost \in STRING
    BY InputsAssumption, Zenon
  <2> QED
    BY <2>1 DEF Default, Configuration
<1>3. containers \in Seq(EnvoyContainer) /\ Up = {}
  BY <1>1 DEF Up, Ids
<1> QED
  BY <1>1, <1>2, <1>3 DEF IndInv, TypeOK, OneAtATime, InHand, OwnControlPlane, StoppedFirst,
     EnvoyOfThisNode, CleanEnd, BeforeEnvoy, WithEnvoy

(***************************************************************************)
(* The steps.  Most of them leave the containers alone, and then the       *)
(* invariant is about where Run is.                                        *)
(***************************************************************************)
Untouched == UNCHANGED <<containers, touched, cfg, nodeID, registered>>

LEMMA StartStep ==
    ASSUME IndInv, NEW c \in Configs, Start(c.file, c.flags) PROVE IndInv'
<1>1. UNCHANGED containers /\ touched' = FALSE /\ nodeID' = 0 /\ registered' = registered
  BY DEF Start
<1>2. Up' = Up /\ Ids' = Ids
  BY <1>1 DEF Up, Ids
<1>3. CASE c.file # BadFile /\ cfg' = New(c.file, c.flags) /\ pc' = "find" /\ disturbed' = FALSE
  BY <1>1, <1>2, <1>3, Configured DEF IndInv, TypeOK, OneAtATime, InHand, OwnControlPlane,
     StoppedFirst, EnvoyOfThisNode, CleanEnd, BeforeEnvoy, WithEnvoy
<1>4. CASE pc' = "off" /\ cfg' = cfg /\ exit' = "refused" /\ disturbed' \in BOOLEAN
  BY <1>1, <1>2, <1>4 DEF IndInv, TypeOK, OneAtATime, InHand, OwnControlPlane,
     StoppedFirst, EnvoyOfThisNode, CleanEnd, BeforeEnvoy, WithEnvoy
<1> QED
  BY <1>3, <1>4 DEF Start, Goto, Works, Fails, IndInv, TypeOK
\* Steps that leave the containers and the configuration alone.
LEMMA QuietStep ==
    ASSUME IndInv,
           \/ Signal \/ Kill \/ GoroutinePanics \/ FindEnvoy \/ Discover \/ Timeout \/ RegisterCancelled
           \/ OpenServiceChannel \/ OpenNodeChannel \/ WatchFile \/ Diff \/ StreamFails \/ LoopEnds
    PROVE  IndInv'
<1> USE DEF Goto, Works, Fails, Step, argVars, boundVars, Return, ReturnDeferred, StopDone, Dies
<1>1. Untouched
  BY DEF Untouched, Signal, Kill, GoroutinePanics, FindEnvoy, Discover, Timeout, RegisterCancelled,
     OpenServiceChannel, OpenNodeChannel, WatchFile, Diff, StreamFails, LoopEnds, LeaveLoop
<1>2. Up' = Up /\ Ids' = Ids
  BY <1>1 DEF Untouched, Up, Ids
<1>3. ASSUME pc' \in {"off", "find", "remove"} \cup BeforeEnvoy \cup WithEnvoy, disturbed' \in BOOLEAN
      PROVE  TypeOK' /\ OneAtATime'
  BY <1>1, <1>2, <1>3 DEF IndInv, TypeOK, OneAtATime, Untouched
<1>4. ASSUME pc' = pc, UNCHANGED <<target, exit, disturbed>> PROVE IndInv'
  BY <1>1, <1>2, <1>4 DEF Untouched, IndInv, TypeOK, OneAtATime, InHand, OwnControlPlane, StoppedFirst,
     EnvoyOfThisNode, CleanEnd, BeforeEnvoy, WithEnvoy
<1>5. ASSUME pc' = "off", exit' = "killed", disturbed' = disturbed PROVE IndInv'
  BY <1>1, <1>2, <1>5 DEF Untouched, IndInv, TypeOK, OneAtATime, InHand, OwnControlPlane, StoppedFirst,
     EnvoyOfThisNode, CleanEnd, BeforeEnvoy, WithEnvoy
<1>6. ASSUME pc' = "find", disturbed' \in BOOLEAN PROVE IndInv'
  BY <1>1, <1>2, <1>6 DEF Untouched, IndInv, TypeOK, OneAtATime, InHand, OwnControlPlane, StoppedFirst,
     EnvoyOfThisNode, CleanEnd, BeforeEnvoy, WithEnvoy
<1>7. ASSUME pc \in WithEnvoy, pc' \in WithEnvoy, disturbed' \in BOOLEAN PROVE IndInv'
  BY <1>1, <1>2, <1>7 DEF Untouched, IndInv, TypeOK, OneAtATime, InHand, OwnControlPlane, StoppedFirst,
     EnvoyOfThisNode, CleanEnd, BeforeEnvoy, WithEnvoy
<1>8. CASE Signal \/ Kill \/ GoroutinePanics
  BY <1>4, <1>5, <1>8 DEF Signal, Kill, GoroutinePanics
<1>9. CASE FindEnvoy
  <2>1. CASE pc' = "remove" /\ target' \in Up /\ UNCHANGED <<disturbed, exit>>
    BY <1>1, <1>2, <2>1 DEF Untouched, Up, IndInv, TypeOK, OneAtATime, InHand, OwnControlPlane, StoppedFirst,
     EnvoyOfThisNode, CleanEnd, BeforeEnvoy, WithEnvoy
  <2>2. CASE /\ pc' \in {"off", "discover", "register"} /\ disturbed' \in BOOLEAN
             /\ ~disturbed' => Up = {}
    BY <1>1, <1>2, <2>2 DEF Untouched, IndInv, TypeOK, OneAtATime, InHand, OwnControlPlane, StoppedFirst,
     EnvoyOfThisNode, CleanEnd, BeforeEnvoy, WithEnvoy
  <2> QED
    BY <1>9, <2>1, <2>2 DEF FindEnvoy, IndInv, TypeOK
<1>10. CASE Discover \/ Timeout
  <2>1. /\ pc \in {"discover", "listen"} /\ pc' \in {"listen", "register"}
        /\ disturbed' \in BOOLEAN
        /\ disturbed => disturbed'
        /\ pc' = "listen" => ~cfg.EnableCentralMode
    BY <1>10 DEF Discover, Timeout, NewBroadcastServiceFails, IndInv, TypeOK
  <2> QED
    BY <1>1, <1>2, <2>1 DEF Untouched, IndInv, TypeOK, OneAtATime, InHand, OwnControlPlane, StoppedFirst,
     EnvoyOfThisNode, CleanEnd, BeforeEnvoy, WithEnvoy
<1>11. CASE RegisterCancelled
  <2>1. pc = "register" /\ pc' = "off" /\ disturbed' = disturbed
    BY <1>11 DEF RegisterCancelled
  <2> QED
    BY <1>1, <1>2, <2>1 DEF Untouched, IndInv, TypeOK, OneAtATime, InHand, OwnControlPlane, StoppedFirst,
     EnvoyOfThisNode, CleanEnd, BeforeEnvoy, WithEnvoy
<1>12. CASE OpenServiceChannel \/ OpenNodeChannel \/ WatchFile \/ Diff
  BY <1>6, <1>7, <1>12 DEF OpenServiceChannel, OpenNodeChannel, WatchFile, Diff, WithEnvoy, IndInv, TypeOK
<1>13. CASE StreamFails \/ LoopEnds
  BY <1>6, <1>13 DEF StreamFails, LoopEnds, LeaveLoop, IndInv, TypeOK
<1> QED
  BY <1>8, <1>9, <1>10, <1>11, <1>12, <1>13

\* stopEnvoy removes the one that it found.
LEMMA RemoveStep == ASSUME IndInv, RemoveEnvoy PROVE IndInv'
<1> USE DEF Goto, Works, Fails, Step, argVars, Return, StopDone
<1>1. /\ pc = "remove" /\ pc' \in {"off", "discover", "register"} /\ disturbed' \in BOOLEAN
      /\ UNCHANGED <<touched, cfg, nodeID, registered>>
  BY DEF RemoveEnvoy, IndInv, TypeOK
<1>2. CASE containers' = [containers EXCEPT ![target].status = "Removed"]
  <2>1. target \in Ids /\ containers \in Seq(EnvoyContainer)
    BY <1>1 DEF IndInv, InHand, TypeOK
  <2>2. /\ containers' \in Seq(EnvoyContainer)
        /\ Up' = Up \ {target}
    BY <1>2, <2>1, StatusChanged
  <2>3. ~touched => Up' = {}
    BY <1>1, <2>2 DEF IndInv, InHand, OneAtATime
  <2> QED
    BY <1>1, <2>2, <2>3 DEF IndInv, TypeOK, OneAtATime, InHand, OwnControlPlane, StoppedFirst,
     EnvoyOfThisNode, CleanEnd, BeforeEnvoy, WithEnvoy
<1>3. CASE disturbed' = TRUE /\ UNCHANGED containers
  <2>1. Up' = Up
    BY <1>3 DEF Up, Ids
  <2> QED
    BY <1>1, <1>3, <2>1 DEF IndInv, TypeOK, OneAtATime, InHand, OwnControlPlane, StoppedFirst,
     EnvoyOfThisNode, CleanEnd, BeforeEnvoy, WithEnvoy
<1> QED
  BY <1>2, <1>3 DEF RemoveEnvoy

LEMMA PacketStep == ASSUME IndInv, NEW p \in Packets, Packet(p) PROVE IndInv'
<1> USE DEF Goto, Works, Step, Dies
<1>1. /\ pc = "listen" /\ UNCHANGED <<containers, touched, disturbed, nodeID, registered>>
      /\ ~cfg.EnableCentralMode
  BY DEF Packet, IndInv, OwnControlPlane
<1>2. Up' = Up /\ Ids' = Ids
  BY <1>1 DEF Up, Ids
<1>3. CASE pc' = pc /\ exit' = exit /\ cfg' = cfg
  BY <1>1, <1>2, <1>3 DEF IndInv, TypeOK, OneAtATime, InHand, OwnControlPlane, StoppedFirst,
     EnvoyOfThisNode, CleanEnd, BeforeEnvoy, WithEnvoy
<1>4. CASE pc' = "off" /\ exit' = "killed" /\ cfg' = cfg
  BY <1>1, <1>2, <1>4 DEF IndInv, TypeOK, OneAtATime, InHand, OwnControlPlane, StoppedFirst,
     EnvoyOfThisNode, CleanEnd, BeforeEnvoy, WithEnvoy
<1>5. CASE pc' = "register" /\ cfg' = [cfg EXCEPT !.CentralNodeHostname = p.body]
  <2>1. cfg' \in Configuration /\ ~cfg'.EnableCentralMode
    BY <1>1, <1>5, InputsAssumption DEF IndInv, TypeOK, Configuration
  <2> QED
    BY <1>1, <1>2, <1>5, <2>1 DEF IndInv, TypeOK, OneAtATime, InHand, OwnControlPlane, StoppedFirst,
     EnvoyOfThisNode, CleanEnd, BeforeEnvoy, WithEnvoy
<1> QED
  BY <1>3, <1>4, <1>5 DEF Packet

LEMMA RegisterStep == ASSUME IndInv, Register PROVE IndInv'
<1> USE DEF Goto, Works, Fails, Step, Return
<1>1. /\ pc = "register" /\ UNCHANGED <<containers, touched, cfg>>
      /\ nodeID' \in Nat /\ registered' \in Nat
  BY DEF Register, IndInv, TypeOK
<1>2. Up' = Up /\ Ids' = Ids
  BY <1>1 DEF Up, Ids
<1>3. CASE pc' = "create" /\ disturbed' = disturbed
  BY <1>1, <1>2, <1>3 DEF IndInv, TypeOK, OneAtATime, InHand, OwnControlPlane, StoppedFirst,
     EnvoyOfThisNode, CleanEnd, BeforeEnvoy, WithEnvoy
<1>4. CASE pc' = "off" /\ disturbed' = TRUE
  BY <1>1, <1>2, <1>4 DEF IndInv, TypeOK, OneAtATime, InHand, OwnControlPlane, StoppedFirst,
     EnvoyOfThisNode, CleanEnd, BeforeEnvoy, WithEnvoy
<1> QED
  BY <1>3, <1>4 DEF Register
\* runEnvoy
LEMMA CreateStep == ASSUME IndInv, CreateEnvoy PROVE IndInv'
<1> USE DEF Goto, Works, Fails, Step, Return, argVars
<1> DEFINE b == EnvoyBootstrapConfigWithNodeID(cfg, nodeID)
<1>1. pc = "create" /\ UNCHANGED <<touched, cfg, nodeID, registered>>
  BY DEF CreateEnvoy
<1>2. CASE /\ containers' = Append(containers, [boot |-> b, status |-> "Created"])
           /\ target' = Len(containers) + 1
           /\ pc' = "start" /\ disturbed' = disturbed
  <2>1. b \in [id : Nat, xds : STRING, admin : BOOLEAN]
    BY DEF IndInv, TypeOK, Configuration, EnvoyBootstrapConfigWithNodeID
  <2>2. b' = b
    BY <1>1
  <2> HIDE DEF b
  <2>3. /\ containers' \in Seq(EnvoyContainer) /\ Up' = Up
        /\ target' \in Ids' /\ containers'[target'].boot = b
    BY <1>2, <2>1, ContainerCreated DEF IndInv, TypeOK
  <2>4. InHand'
    BY <1>1, <1>2, <2>2, <2>3 DEF InHand, b
  <2> QED
    BY <1>1, <1>2, <2>3, <2>4 DEF IndInv, TypeOK, OneAtATime, InHand, OwnControlPlane, StoppedFirst,
     EnvoyOfThisNode, CleanEnd, BeforeEnvoy, WithEnvoy
<1>3. CASE pc' = "off" /\ disturbed' = TRUE /\ UNCHANGED containers
  <2>1. Up' = Up
    BY <1>3 DEF Up, Ids
  <2> QED
    BY <1>1, <1>3, <2>1 DEF IndInv, TypeOK, OneAtATime, InHand, OwnControlPlane, StoppedFirst,
     EnvoyOfThisNode, CleanEnd, BeforeEnvoy, WithEnvoy
<1> QED
  BY <1>2, <1>3 DEF CreateEnvoy

LEMMA StartEnvoyStep == ASSUME IndInv, StartEnvoy PROVE IndInv'
<1> USE DEF Goto, Works, Fails, Step, Return, argVars
<1>1. pc = "start" /\ UNCHANGED <<touched, cfg, nodeID, registered, target>>
  BY DEF StartEnvoy
<1>2. CASE /\ Up \subseteq {target} /\ containers' = [containers EXCEPT ![target].status = "Up"]
           /\ pc' = "openService" /\ disturbed' = disturbed
  <2>1. /\ target \in Ids /\ containers[target].boot = EnvoyBootstrapConfigWithNodeID(cfg, nodeID)
        /\ containers \in Seq(EnvoyContainer)
    BY <1>1 DEF IndInv, InHand, TypeOK
  <2>2. /\ containers' \in Seq(EnvoyContainer) /\ Up' = Up \cup {target}
        /\ containers'[target].boot = containers[target].boot
    BY <1>2, <2>1, StatusChanged
  <2>3. Up' = {target}
    BY <1>2, <2>2
  <2>4. EnvoyOfThisNode'
    <3>1. containers'[target].boot = EnvoyBootstrapConfigWithNodeID(cfg', nodeID')
      BY <1>1, <2>1, <2>2
    <3>2. cfg'.EnableCentralMode => containers'[target].boot.xds = cfg'.NodeHostname
      BY <1>1, <3>1 DEF IndInv, OwnControlPlane, EnvoyBootstrapConfigWithNodeID
    <3> QED
      BY <2>3, <3>1, <3>2 DEF EnvoyOfThisNode
  <2> QED
    BY <1>1, <1>2, <2>2, <2>3, <2>4 DEF IndInv, TypeOK, OneAtATime, InHand, OwnControlPlane,
       StoppedFirst, CleanEnd, BeforeEnvoy, WithEnvoy
<1>3. CASE /\ pc' = "off" /\ disturbed' \in BOOLEAN /\ UNCHANGED containers
           /\ Up \subseteq {target} => disturbed' = TRUE
           /\ ~(Up \subseteq {target}) => disturbed' = disturbed
  <2>1. Up' = Up
    BY <1>3 DEF Up, Ids
  <2>2. CleanEnd'
    BY <1>1, <1>3, <2>1 DEF CleanEnd, IndInv, StoppedFirst, BeforeEnvoy
  <2> QED
    BY <1>1, <1>3, <2>1, <2>2 DEF IndInv, TypeOK, OneAtATime, InHand, OwnControlPlane,
       StoppedFirst, EnvoyOfThisNode, BeforeEnvoy, WithEnvoy
<1> QED
  BY <1>2, <1>3 DEF StartEnvoy, IndInv, TypeOK

\* The status manager starts an Envoy only when no other one runs; what it
\* changes, it has touched.
LEMMA StatusStep ==
    ASSUME IndInv, SM!NextWeb,
           UNCHANGED <<pc, argVars, deferred, signalled, target, exit, registered, boundVars, disturbed>>
    PROVE  IndInv'
<1> USE DEF argVars
<1>1. CASE UNCHANGED <<containers, touched>>
  <2>1. Up' = Up /\ Ids' = Ids
    BY <1>1 DEF Up, Ids
  <2> QED
    BY <1>1, <2>1 DEF IndInv, TypeOK, OneAtATime, InHand, OwnControlPlane, StoppedFirst,
     EnvoyOfThisNode, CleanEnd, BeforeEnvoy, WithEnvoy
<1>2. ASSUME NEW c \in Connections, NEW id \in DOMAIN containers, NEW action \in {"start", "stop"},
             SM!Command(c, id, action)
      PROVE  IndInv'
  <2> DEFINE st == SM!StatusAfter(id, action)
  <2>1. containers \in Seq(EnvoyContainer) /\ containers[id] \in EnvoyContainer
    BY DEF IndInv, TypeOK
  <2>2. /\ containers' = [containers EXCEPT ![id].status = st]
        /\ touched' = (touched \/ containers' # containers)
    BY <1>2 DEF SM!Command
  <2>3. /\ st \in {"Created", "Up", "Exited", "Removed"}
        /\ st = "Up" => Up \subseteq {id}
    <3>1. st = "Up" => containers[id].status = "Up" \/ \A other \in DOMAIN containers :
                           other # id => containers[other].status # "Up"
      BY DEF SM!StatusAfter
    <3>2. st \in {"Created", "Up", "Exited", "Removed"}
      BY <2>1 DEF SM!StatusAfter, EnvoyContainer
    <3> QED
      BY <3>1, <3>2 DEF Up, Ids, IndInv, OneAtATime
  <2> HIDE DEF st
  <2>4. /\ containers' \in Seq(EnvoyContainer) /\ Ids' = Ids
        /\ Up' = IF st = "Up" THEN Up \cup {id} ELSE Up \ {id}
        /\ \A i \in Ids : containers'[i].boot = containers[i].boot
    BY <2>1, <2>2, <2>3, StatusChanged DEF Ids
  <2>5. CASE containers' = containers
    <3>1. touched' = touched
      BY <2>2, <2>5 DEF IndInv, TypeOK
    <3> QED
      BY <1>1, <2>5, <3>1
  <2>6. CASE containers' # containers
    <3>1. touched' = TRUE
      BY <2>2, <2>6
    <3>2. OneAtATime'
      BY <2>3, <2>4 DEF IndInv, OneAtATime
    <3> QED
      BY <2>4, <3>1, <3>2 DEF IndInv, TypeOK, OneAtATime, InHand, OwnControlPlane, StoppedFirst,
     EnvoyOfThisNode, CleanEnd, BeforeEnvoy, WithEnvoy
  <2> QED
    BY <2>5, <2>6
<1> QED
  BY <1>1, <1>2 DEF SM!NextWeb, SM!handleWebSocket, SM!PeerLeaves, SM!readMessagesEnds,
     SM!sendStatusEnds, SM!sendPingEnds, SM!Quiet

-----------------------------------------------------------------------------
LEMMA Invariance == Spec => []IndInv
<1>1. ASSUME IndInv, [Next]_allVars PROVE IndInv'
  <2>1. CASE NextRun
    BY <1>1, <2>1, StartStep, QuietStep, RemoveStep, PacketStep, RegisterStep, CreateStep,
       StartEnvoyStep DEF NextRun, Proceed
  <2>2. CASE SM!NextWeb /\ UNCHANGED <<pc, argVars, deferred, signalled, target, exit, registered,
                                       boundVars, disturbed>>
    BY <1>1, <2>2, StatusStep
  <2>3. CASE UNCHANGED allVars
    <3>1. Up' = Up /\ Ids' = Ids
      BY <2>3 DEF allVars, vars, Up, Ids
    <3> QED
      BY <1>1, <2>3, <3>1 DEF allVars, vars, argVars, IndInv, TypeOK, OneAtATime, InHand, OwnControlPlane, StoppedFirst,
     EnvoyOfThisNode, CleanEnd, BeforeEnvoy, WithEnvoy
  <2> QED
    BY <1>1, <2>1, <2>2, <2>3 DEF Next
<1> QED
  BY <1>1, IndInit, PTL DEF Spec

\* For any number of starts and kills, with any calls that fail: as long as the
\* status manager leaves it alone, the Envoy that runs once this run has started
\* one is the only one and has the ID that this run was given; on a central node
\* its xDS server is the node itself (app.go:74, 115-120, config.go:125).
THEOREM EnvoyIsOfThisNode == Spec => []EnvoyOfThisNode
<1>1. IndInv => EnvoyOfThisNode
  BY DEF IndInv
<1> QED
  BY <1>1, Invariance, PTL

\* A run that comes to the end of Run leaves no Envoy running, unless a call
\* failed in it or the status manager interfered (app.go:73-74, 122-125).
THEOREM RunEndsClean == Spec => []CleanEnd
<1>1. IndInv => CleanEnd
  BY DEF IndInv
<1> QED
  BY <1>1, Invariance, PTL
=============================================================================
