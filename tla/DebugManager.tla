----------------------------- MODULE DebugManager -----------------------------
(***************************************************************************)
(* pkg/container/debug_container_manager.go, the emulated runtime: virtual *)
(* containers, and counters from which bundle IDs and ports are made.  Its *)
(* callers share it without a lock, so that a call is several steps.       *)
(*                                                                         *)
(* The status "running" of a virtual container does not begin with "Up":   *)
(* process finds nothing deployed, removes nothing and installs every      *)
(* image of every configuration (orchestrator.go:62-70).  Starting and     *)
(* stopping are left to the status manager, whose own emulated runtime has *)
(* no containers.                                                          *)
(***************************************************************************)
EXTENDS Naturals, Sequences

CONSTANT Callers     \* goroutines that call process

VARIABLES
    deployed,         \* appIdx of the virtual containers
    nextAppIdx,
    nextServicePort,  \* counted from 1, servicePortBase
    left,             \* caller -> images that it still has to install
    inside,           \* callers that have added a container and not returned its numbers
    announced,        \* history: what has been announced, until two calls overlap
    overlapped        \* history: two calls have overlapped

dmVars == <<deployed, nextAppIdx, nextServicePort, left, inside, announced, overlapped>>

\* Envoy is the first container.
InitManager ==
    /\ deployed = {1}
    /\ nextAppIdx = 2
    /\ nextServicePort = 2
    /\ left = [p \in Callers |-> 0]
    /\ inside = {}
    /\ announced = <<>>
    /\ overlapped = FALSE

Free(p) == left[p] = 0

\* process is called with a configuration of n images for this node.
Process(p, n) ==
    /\ left' = [left EXCEPT ![p] = n]
    /\ UNCHANGED <<deployed, nextAppIdx, nextServicePort, inside, announced, overlapped>>

-----------------------------------------------------------------------------
(* PullImageAndCreateContainer *)

AddContainer(p) ==
    /\ ~Free(p) /\ p \notin inside
    /\ deployed' = deployed \cup {nextAppIdx}
    /\ inside' = inside \cup {p}
    /\ overlapped' = (overlapped \/ inside # {})
    /\ UNCHANGED <<nextAppIdx, nextServicePort, left, announced>>

\* Faulty variant: the port is not advanced.
ReturnNumbersWithoutPort(p) ==
    /\ p \in inside
    /\ announced' = Append(announced, [bundle |-> nextAppIdx, port |-> nextServicePort])
    /\ nextAppIdx' = nextAppIdx + 1
    /\ left' = [left EXCEPT ![p] = @ - 1]
    /\ inside' = inside \ {p}
    /\ UNCHANGED <<deployed, nextServicePort, overlapped>>

\* The call returns and hReg announces what it has returned.  When two calls
\* overlap, an increment may be lost, and both may return the same.
ReturnNumbers(p) ==
    LET lost == IF overlapped THEN {0, 1} ELSE {0}
    IN  /\ p \in inside
        /\ announced' = IF overlapped THEN announced
                        ELSE Append(announced, [bundle |-> nextAppIdx, port |-> nextServicePort])
        /\ \E n \in lost : nextAppIdx' = nextAppIdx + 1 - n
        /\ \E n \in lost : nextServicePort' = nextServicePort + 1 - n
        /\ left' = [left EXCEPT ![p] = @ - 1]
        /\ inside' = inside \ {p}
        /\ UNCHANGED <<deployed, overlapped>>

PullImageAndCreateContainer(p) == AddContainer(p) \/ ReturnNumbers(p)

-----------------------------------------------------------------------------
\* The container and what RemoveImageAndContainer returns for it.
Numbers(appIdx) == [bundle |-> appIdx, port |-> appIdx]
RemoveImageAndContainer(appIdx) ==
    /\ deployed' = deployed \ {appIdx}
    /\ UNCHANGED <<nextAppIdx, nextServicePort, left, inside, announced, overlapped>>

\* As long as calls do not overlap, no bundle and no port is announced twice, and
\* every announcement agrees with the container it is for and with what its
\* removal would report, although the port of the one comes from a counter and
\* that of the other from the index (debug_container_manager.go:170-174, 187-188).
BundlesDistinct ==
    ~overlapped =>
        \A i \in DOMAIN announced :
            /\ announced[i].bundle \in deployed
            /\ announced[i] = Numbers(announced[i].bundle)
            /\ \A j \in DOMAIN announced : announced[i].bundle = announced[j].bundle => i = j
=============================================================================
