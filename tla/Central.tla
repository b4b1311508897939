------------------------------- MODULE Central -------------------------------
(***************************************************************************)
(* carisma-orchestrator on the central node, from app.go:168 on, with the  *)
(* emulated runtime.  Three goroutines: Watch with its handler, which      *)
(* distributes the desired state; the receiver, which collects the actual  *)
(* state in a file; and the main loop.  The last two receive from the same *)
(* stream, so that a message reaches one of them.                          *)
(*                                                                         *)
(* The relay is open: any message may arrive.  The file of the actual      *)
(* state is also written by somebody who marks nodes as stopping or        *)
(* starting; he is the reader for whom lines 253-259 keep these marks.     *)
(* After a failing write the file may hold no map at all; the receiver     *)
(* then has a nil map in hand, and to assign to it ends the program.       *)
(***************************************************************************)
EXTENDS FileWatcher, DebugManager, FiniteSets

CONSTANTS
    Valid,         \* contents that are a deployment configuration
    ImagesIn,      \* content -> number of images for this node
    Messages,      \* [type, states, images]: states is a function on hostnames
    Marked,        \* the host that is marked
    None,          \* nothing (a model value)
    MaxFailures    \* bound: failing accesses to the file of the actual state

\* A file without content is no configuration, and None is no mark.
ASSUME ValidAssumption == Valid \subseteq Contents /\ None \notin {"stopping", "starting"}

VARIABLES
    main,          \* main has not ended; it is in its initial Diff or in its loop
    rpc,           \* where the receiver is: "recv", "read", "write", or "writeNil" with a nil map
    sent,          \* the content sent last as DESIRED, or None
    globalActualDplmCfg,
    prevGlobalActualDplmCfg,
    actual,        \* the file of the actual state: hostname -> state (none, when there is no file)
    unreadable,    \* that file holds no map: it is truncated, or it says null
    failures,      \* bound: failures so far
    owed,          \* history: a node has asked for the configuration, and it has not been
                   \* sent since
    promised       \* history: the mark that must still be in the file, or None

actualVars == <<rpc, globalActualDplmCfg, prevGlobalActualDplmCfg, actual, unreadable, failures, promised>>
watcherVars == <<watchVars, fileVars, diffs, missed>>
vars == <<watcherVars, ctxDone, inputs, dmVars, main, sent, actualVars, owed>>

\* Both goroutines have been started and main has called Diff(false).
Init ==
    /\ InitWatcher /\ InitManager
    /\ diffs = {"main"}
    /\ main = TRUE /\ rpc = "recv"
    /\ sent = None
    /\ globalActualDplmCfg = <<>> /\ prevGlobalActualDplmCfg = <<>> /\ actual = <<>>
    /\ unreadable = FALSE
    /\ failures = 0
    /\ owed = FALSE
    /\ promised = None

Runs == main
Blocked(caller) == caller \in diffs

-----------------------------------------------------------------------------
(* Watch and its handler *)

WatchStep ==
    /\ Runs
    /\ wpc = "store" => Free("watch")
    /\ Watch
    /\ UNCHANGED <<dmVars, main, sent, actualVars, owed>>

Change ==
    /\ Runs
    /\ ChangeFile
    /\ UNCHANGED <<dmVars, main, sent, actualVars, owed>>

DeploymentConfigFromJSONFails(bytes) == bytes \notin Valid
Skip == content = lastRead \/ DeploymentConfigFromJSONFails(content)

\* The handler: it compares, parses, sends and calls process, which Install completes.
HandleDiff ==
    /\ Runs
    /\ wpc = "handle"
    /\ wpc' = "store"
    /\ IF Skip
       THEN UNCHANGED <<sent, dmVars>>
       ELSE sent' = content /\ Process("watch", ImagesIn[content])
    /\ owed' = (owed /\ content = lastRead /\ content \in Valid)
    /\ UNCHANGED <<rename, content, lastRead, fileVars, diffs, missed, ctxDone, inputs, main,
                   actualVars>>

-----------------------------------------------------------------------------
(* The receiver *)

Update(old, new) == [h \in DOMAIN old \cup DOMAIN new |-> IF h \in DOMAIN new THEN new[h] ELSE old[h]]
Only(m, states) == [h \in {x \in DOMAIN m.states : m.states[x] \in states} |-> m.states[h]]

\* A mark ends when what it announces has happened.
Fulfilled(mark) == IF mark = "stopping" THEN "stopped" ELSE "running"

Receive(m) ==
    /\ Runs
    /\ rpc = "recv"
    /\ Input
    /\ IF m.type # "ACTUAL"
       THEN UNCHANGED <<rpc, globalActualDplmCfg, diffs, lastRead, owed, promised>>
       ELSE LET starting == "starting" \in {m.states[h] : h \in DOMAIN m.states}
                            /\ Cardinality(DOMAIN m.states) = 1
            IN  /\ IF starting
                   THEN /\ Diff("receive", TRUE)
                        /\ owed' = (owed \/ wpc # "store")
                   ELSE UNCHANGED <<diffs, lastRead, owed>>
                /\ rpc' = "read"
                /\ globalActualDplmCfg' = Update(globalActualDplmCfg, Only(m, {"running", "stopped"}))
                /\ promised' = IF /\ Marked \in DOMAIN m.states /\ promised # None
                                  /\ m.states[Marked] = Fulfilled(promised)
                               THEN None ELSE promised
    /\ UNCHANGED <<wpc, rename, content, fileVars, missed, ctxDone, dmVars, main, sent,
                   prevGlobalActualDplmCfg, actual, unreadable, failures>>

ReceiverStep ==
    UNCHANGED <<watcherVars, ctxDone, inputs, dmVars, sent, globalActualDplmCfg, owed>>

AccessFails == failures < MaxFailures /\ failures' = failures + 1

\* os.ReadFile and the parsing.  When the reading fails, or there is no file yet,
\* the empty map made before is kept; when the parsing fails, or the file says null,
\* a nil map takes its place.
ReadActual ==
    /\ Runs
    /\ rpc = "read" /\ ~Blocked("receive")
    /\ \/ /\ prevGlobalActualDplmCfg' = actual
          /\ rpc' = IF unreadable THEN "writeNil" ELSE "write"
          /\ UNCHANGED <<failures, promised>>
       \/ /\ AccessFails
          /\ prevGlobalActualDplmCfg' = <<>>
          /\ rpc' = "write"
          /\ promised' = None
    /\ ReceiverStep
    /\ UNCHANGED <<actual, unreadable, main>>

\* Faulty variant: a node that is stopping and still runs is running.
MergedStates(prev, global) ==
    Update(prev, [h \in DOMAIN global |->
        IF h \in DOMAIN prev /\ prev[h] = "starting" /\ global[h] = "stopped"
        THEN prev[h] ELSE global[h]])

Merged(prev, global) ==
    Update(prev, [h \in DOMAIN global |->
        IF /\ h \in DOMAIN prev
           /\ <<prev[h], global[h]>> \in {<<"stopping", "running">>, <<"starting", "stopped">>}
        THEN prev[h] ELSE global[h]])

\* os.WriteFile truncates the file before it writes: an error leaves the file as
\* it was, or without what was in it.
WriteFails ==
    /\ AccessFails
    /\ \/ UNCHANGED <<actual, unreadable, promised>>
       \/ actual' = <<>> /\ unreadable' = TRUE /\ promised' = None

\* The loop over what was collected, and the writing.
WriteActual ==
    /\ Runs
    /\ rpc = "write"
    /\ rpc' = "recv"
    /\ prevGlobalActualDplmCfg' = <<>>
    /\ \/ /\ actual' = Merged(prevGlobalActualDplmCfg, globalActualDplmCfg)
          /\ unreadable' = FALSE
          /\ UNCHANGED <<failures, promised>>
       \/ WriteFails
    /\ ReceiverStep
    /\ UNCHANGED main

\* The same with a nil map: nothing is assigned to it when nothing was collected,
\* and it is written as null; otherwise the receiver panics, which ends the program
\* without its deferred calls.
WriteNilMap ==
    /\ Runs
    /\ rpc = "writeNil"
    /\ IF DOMAIN globalActualDplmCfg = {}
       THEN /\ rpc' = "recv"
            /\ \/ actual' = <<>> /\ unreadable' = TRUE /\ UNCHANGED <<failures, promised>>
               \/ WriteFails
            /\ UNCHANGED main
       ELSE main' = FALSE /\ UNCHANGED <<rpc, actual, unreadable, failures, promised>>
    /\ ReceiverStep
    /\ UNCHANGED prevGlobalActualDplmCfg

\* Somebody marks the host; of a file without a map he makes one.  Nothing is
\* promised when the receiver is between reading and writing, or when what the
\* mark announces has happened already.
Mark(mark) ==
    /\ Runs
    /\ Input
    /\ actual' = Update(actual, [h \in {Marked} |-> mark])
    /\ unreadable' = FALSE
    /\ promised' = IF \/ rpc \in {"write", "writeNil"}
                      \/ /\ Marked \in DOMAIN globalActualDplmCfg
                         /\ globalActualDplmCfg[Marked] = Fulfilled(mark)
                   THEN None ELSE mark
    /\ UNCHANGED <<watcherVars, ctxDone, dmVars, main, sent, rpc, globalActualDplmCfg,
                   prevGlobalActualDplmCfg, failures, owed>>

-----------------------------------------------------------------------------
(* main *)

MainStep == UNCHANGED <<watcherVars, ctxDone, sent, actualVars, owed>>

\* main is in its loop, waiting for a message.
InLoop == main /\ ~Blocked("main") /\ Free("main")

\* The main loop receives any message and processes it as a desired state.
ReceiveMain(n) ==
    /\ InLoop
    /\ Input
    /\ Process("main", n)
    /\ MainStep /\ UNCHANGED main

\* Faulty variant: it waits for the receiver.
MainEndsJoined ==
    /\ InLoop /\ ctxDone /\ rpc = "recv"
    /\ main' = FALSE
    /\ RemoveImageAndContainer(1)
    /\ MainStep /\ UNCHANGED inputs

\* After the signal, Recv returns an error, and the deferred stopEnvoy runs.
MainEnds ==
    /\ InLoop /\ ctxDone
    /\ main' = FALSE
    /\ RemoveImageAndContainer(1)
    /\ MainStep /\ UNCHANGED inputs

\* Both callers are in the manager's map: the Go runtime may end the program.
ConcurrentMapAccess ==
    /\ Runs
    /\ overlapped /\ \A p \in Callers : ~Free(p)
    /\ main' = FALSE
    /\ MainStep /\ UNCHANGED <<dmVars, inputs>>

Signal ==
    /\ Runs /\ ~ctxDone
    /\ ctxDone' = TRUE
    /\ UNCHANGED <<watcherVars, inputs, dmVars, main, sent, actualVars, owed>>

Install(p) ==
    /\ Runs
    /\ PullImageAndCreateContainer(p)
    /\ MainStep /\ UNCHANGED <<main, inputs>>

-----------------------------------------------------------------------------
WatchProceeds == WatchStep \/ HandleDiff \/ Install("watch")
ReceiverProceeds == ReadActual \/ WriteActual \/ WriteNilMap
MainProceeds == MainEnds \/ Install("main")

Next ==
    \/ Change \/ Signal
    \/ WatchProceeds \/ ReceiverProceeds \/ MainProceeds
    \/ \E m \in Messages : Receive(m)
    \/ \E n \in {m.images : m \in Messages} : ReceiveMain(n)
    \/ \E mark \in {"stopping", "starting"} : Mark(mark)
    \/ ConcurrentMapAccess

\* Each goroutine is scheduled.
Spec ==
    Init /\ [][Next]_vars
    /\ WF_vars(WatchProceeds) /\ WF_vars(ReceiverProceeds) /\ WF_vars(MainProceeds)

-----------------------------------------------------------------------------
\* When the watcher has nothing to do, the desired state it distributed last is
\* the content of the file, unless the file has changed while fsnotify did not
\* watch it (between the reading and the new Add, or after it was replaced):
\* no event is lost to the comparison with lastRead (file_watcher.go:66-82).
DistributedIsFile ==
    Runs /\ wpc = "select" /\ events = <<>> /\ diffs = {} /\ ~missed /\ file \in Valid =>
        sent = file

\* A node that starts gets the desired state even if it has not changed: after
\* Diff(true) it is sent again, unless what is read is no configuration, the
\* program ends, or the file is gone or came back unwatched.  The exception is a
\* Diff while Watch is past its comparison, after which it overwrites the reset
\* (app.go:230-233, file_watcher.go:77).
ForcedResent == owed ~> (~owed \/ ctxDone \/ ~Runs \/ file = Missing \/ missed)

\* A mark in the file of the actual state stays until the node reports what it
\* announces, whatever is reported before and however often the file is rewritten.
\* Three things lose it: it is made between reading and writing; the reading fails,
\* as the receiver then rewrites the file from what it has collected; the writing
\* fails and leaves the file truncated (app.go:244-268).
MarksKept == promised # None => Marked \in DOMAIN actual /\ actual[Marked] = promised

\* After a signal the program ends, also while the receiver waits in Diff.  It
\* does not when main waits in the initial Diff and Watch has ended or waits for
\* the file (app.go:276, file_watcher.go:57, 90).
SignalEnds == ctxDone ~> (~Runs \/ [](Blocked("main") /\ wpc \in {"ended", "wait"}))
=============================================================================
