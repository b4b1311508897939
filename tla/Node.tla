--------------------------------- MODULE Node ---------------------------------
(***************************************************************************)
(* The two programs of a node, carisma-orchestrator and the status         *)
(* manager, on the same engine.                                            *)
(***************************************************************************)
EXTENDS NodeRun

CONSTANTS Connections, MaxCommands

VARIABLES link, running, commands

SM == INSTANCE StatusManager

webVars == <<link, running, commands>>
allVars == <<vars, webVars>>

Init == InitRun /\ SM!InitWeb

Next ==
    \/ NextRun /\ UNCHANGED webVars
    \/ SM!NextWeb /\ UNCHANGED <<pc, argVars, deferred, signalled, target, exit, registered,
                                 boundVars, disturbed>>

\* Run goes on, except where it waits for the control plane, a packet or Watch.
Spec == Init /\ [][Next]_allVars /\ WF_allVars(Proceed /\ UNCHANGED webVars) /\ SM!FairWeb

SocketsEnd == SM!SocketsEnd
=============================================================================
