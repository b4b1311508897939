----------------------------- MODULE NodeStreams -----------------------------
(***************************************************************************)
(* OpenChannel of the node registry (node_regisry.go:91-163) on top of the *)
(* broker: one stream per reader, with a handler that passes on what the   *)
(* node sends, and a goroutine that passes the node what others sent.  The *)
(* handler also writes two messages of its own, when a node opens its      *)
(* stream and when the stream ends.                                        *)
(***************************************************************************)
EXTENDS Broker

CONSTANTS
    Registered,    \* streams whose header holds the ID of a registered node
    MaxReports     \* bound: messages that nodes send

VARIABLES
    spc,           \* stream -> where its handler is
    forwarding,    \* streams whose goroutine has not ended
    last,          \* stream -> the message its handler wrote last, 0: none
    payload,       \* payload[m] is the state in message m and its stream
    reports        \* bound: messages that nodes have sent

streamVars == <<spc, forwarding, last, payload, reports>>

InitStreams ==
    /\ Init
    /\ spc = [r \in Readers |-> "none"]
    /\ forwarding = {}
    /\ last = [r \in Readers |-> 0]
    /\ payload = <<>>
    /\ reports = 0

Goto(r, label) == spc' = [spc EXCEPT ![r] = label]

\* The handler's calls of Read and Write have returned.
Returned(r) == r \notin BlockedReads /\ last[r] \notin BlockedWrites

WriteOf(r, message) ==
    /\ Write
    /\ last' = [last EXCEPT ![r] = written + 1]
    /\ payload' = Append(payload, message)

DeploymentConfigForStartingNode(r) == <<"starting", r>>
DeploymentConfigForStoppedNode(r) == <<"stopped", r>>

\* The handler's own messages.  JSON() of a map of strings does not fail, and
\* the message is written only when it has failed.
JSONFails == FALSE
WriteOwn(r, message) ==
    IF JSONFails THEN WriteOf(r, message) ELSE UNCHANGED <<vars, last, payload>>

OpenChannel(r) ==
    /\ spc[r] = "none"
    /\ IF r \in Registered
       THEN Read(r) /\ Goto(r, "trigger")
       ELSE Goto(r, "ended") /\ UNCHANGED vars
    /\ UNCHANGED <<forwarding, last, payload, reports>>

Trigger(r) ==
    /\ spc[r] = "trigger" /\ Returned(r)
    /\ forwarding' = forwarding \cup {r}
    /\ WriteOwn(r, DeploymentConfigForStartingNode(r))
    /\ Goto(r, "recv")
    /\ UNCHANGED reports

\* stream.Recv returns a message of the node.
Recv(r) ==
    /\ spc[r] = "recv" /\ Returned(r)
    /\ reports < MaxReports
    /\ reports' = reports + 1
    /\ WriteOf(r, <<"running", r>>)
    /\ UNCHANGED <<spc, forwarding>>

\* It returns an error.  The channel stays a listener of the broker.
StreamEnds(r) ==
    /\ spc[r] = "recv" /\ Returned(r)
    /\ WriteOwn(r, DeploymentConfigForStoppedNode(r))
    /\ Goto(r, "ended")
    /\ forwarding' = forwarding \ {r}
    /\ UNCHANGED reports

Forward(r) == r \in forwarding /\ Receive(r) /\ UNCHANGED streamVars

NextStreams ==
    \/ \E r \in Readers : OpenChannel(r) \/ Trigger(r) \/ Recv(r) \/ StreamEnds(r) \/ Forward(r)
    \/ Listen /\ UNCHANGED streamVars

StreamsSpec == InitStreams /\ [][NextStreams]_<<vars, streamVars>>

\* node_regisry.go:132, "Trigger initial distribution of deployment configuration
\* for the node that opened the channel": before its handler waits for messages
\* of the node, the relay has the message that triggers it.
DistributionTriggered ==
    \A r \in Readers : spc[r] = "recv" =>
        \E m \in DOMAIN payload : payload[m] = DeploymentConfigForStartingNode(r)
=============================================================================
