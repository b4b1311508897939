----------------------------- MODULE CentralProofs -----------------------------
(***************************************************************************)
(* The central node, for any number of changes of the file, messages,      *)
(* marks and failing accesses: what is distributed is the file, marks in   *)
(* the file of the actual state are kept, and the numbers that the         *)
(* emulated runtime hands out agree with its containers.                   *)
(***************************************************************************)
EXTENDS Central, TLAPS, SequenceTheorems

(***************************************************************************)
(* The receiver.  What it has collected never contains what the mark       *)
(* announces, and once it has read the file it has the mark in hand.  A    *)
(* file that holds no map, and a nil map in hand, promise nothing.         *)
(***************************************************************************)
MarksInv ==
    /\ \A h \in DOMAIN globalActualDplmCfg : globalActualDplmCfg[h] \in {"running", "stopped"}
    /\ promised \in {None, "stopping", "starting"}
    /\ promised # None =>
        /\ Marked \in DOMAIN actual /\ actual[Marked] = promised
        /\ Marked \in DOMAIN globalActualDplmCfg =>
             globalActualDplmCfg[Marked] # Fulfilled(promised)
        /\ rpc = "write" =>
             Marked \in DOMAIN prevGlobalActualDplmCfg /\ prevGlobalActualDplmCfg[Marked] = promised
        /\ ~unreadable /\ rpc # "writeNil"

(***************************************************************************)
(* The emulated runtime.  While calls do not overlap the two counters are  *)
(* equal, at most one caller is inside, and the container it has added has *)
(* the number that comes next.  Envoy's number, 1, is never announced.     *)
(***************************************************************************)
NumbersInv ==
    /\ nextAppIdx \in Nat /\ nextServicePort \in Nat
    /\ overlapped \in BOOLEAN
    /\ announced \in Seq([bundle : Nat, port : Nat])
    /\ ~overlapped =>
        /\ nextAppIdx = nextServicePort /\ nextAppIdx >= 2
        /\ \A p, q \in inside : p = q
        /\ inside # {} => nextAppIdx \in deployed
        /\ \A i \in DOMAIN announced : announced[i].bundle \in 2..(nextAppIdx - 1)
    /\ BundlesDistinct

(***************************************************************************)
(* The watcher.  As long as nothing is on its way to Watch and no change   *)
(* went by unwatched, what it has in hand or has distributed is the file.  *)
(* lastRead has been distributed, and after the handler so has the content *)
(* in hand: that is why the comparison with lastRead suppresses nothing.   *)
(***************************************************************************)
Events == {"Write", "Remove", "Rename", "Create"}

Pending == events # <<>> \/ diffs # {} \/ wpc \in {"wait", "read", "ended"}

WatcherInv ==
    /\ events \in Seq(Events)
    /\ wpc \in {"select", "wait", "read", "handle", "store", "add", "ended"}
    /\ wpc # "store" /\ lastRead \in Valid => sent = lastRead
    /\ wpc = "store" /\ content \in Valid => sent = content
    /\ ~Pending /\ ~missed /\ file \in Valid =>
        IF wpc \in {"handle", "store"} THEN content = file ELSE sent = file
-----------------------------------------------------------------------------
(* The receiver *)

\* Merging keeps a mark as long as what it announces has not been reported
\* (app.go:252-262).
LEMMA MergeKeepsMark ==
    ASSUME NEW prev, NEW global, NEW mark \in {"stopping", "starting"},
           Marked \in DOMAIN prev, prev[Marked] = mark,
           \A h \in DOMAIN global : global[h] \in {"running", "stopped"},
           Marked \in DOMAIN global => global[Marked] # Fulfilled(mark)
    PROVE  Marked \in DOMAIN Merged(prev, global) /\ Merged(prev, global)[Marked] = mark
<1>1. CASE Marked \notin DOMAIN global
  BY <1>1 DEF Merged, Update
<1>2. CASE Marked \in DOMAIN global
  <2>1. <<mark, global[Marked]>> \in {<<"stopping", "running">>, <<"starting", "stopped">>}
    BY <1>2 DEF Fulfilled
  <2> QED
    BY <1>2, <2>1 DEF Merged, Update
<1> QED
  BY <1>1, <1>2

LEMMA MarksStep == ASSUME MarksInv, [Next]_vars PROVE MarksInv'
<1> USE ValidAssumption
<1>1. ASSUME UNCHANGED actualVars PROVE MarksInv'
  BY <1>1 DEF MarksInv, actualVars, Fulfilled
<1>2. ASSUME NEW m \in Messages, Receive(m) PROVE MarksInv'
  <2>1. UNCHANGED <<prevGlobalActualDplmCfg, actual, unreadable>>
    BY <1>2 DEF Receive
  <2>2. CASE m.type # "ACTUAL"
    BY <1>1, <1>2, <2>2 DEF Receive, actualVars
  <2>3. CASE m.type = "ACTUAL"
    <3> DEFINE new == Only(m, {"running", "stopped"})
    <3>1. /\ rpc' = "read"
          /\ globalActualDplmCfg' = Update(globalActualDplmCfg, new)
          /\ promised' = IF /\ Marked \in DOMAIN m.states /\ promised # None
                            /\ m.states[Marked] = Fulfilled(promised)
                         THEN None ELSE promised
      BY <1>2, <2>3 DEF Receive
    <3>2. /\ \A h \in DOMAIN new : new[h] \in {"running", "stopped"} /\ h \in DOMAIN m.states /\ new[h] = m.states[h]
      BY DEF Only
    <3> HIDE DEF new
    <3>3. \A h \in DOMAIN globalActualDplmCfg' :
            globalActualDplmCfg'[h] = IF h \in DOMAIN new THEN new[h] ELSE globalActualDplmCfg[h]
      BY <3>1 DEF Update
    <3>4. DOMAIN globalActualDplmCfg' = DOMAIN globalActualDplmCfg \cup DOMAIN new
      BY <3>1 DEF Update
    <3>5. \A h \in DOMAIN globalActualDplmCfg' : globalActualDplmCfg'[h] \in {"running", "stopped"}
      BY <3>2, <3>3, <3>4 DEF MarksInv
    <3>6. ASSUME promised' # None PROVE promised' = promised
      BY <3>1, <3>6
    <3>7. ASSUME promised' # None, Marked \in DOMAIN globalActualDplmCfg'
          PROVE  globalActualDplmCfg'[Marked] # Fulfilled(promised)
      BY <3>1, <3>2, <3>3, <3>4, <3>6, <3>7 DEF MarksInv
    <3> QED
      BY <2>1, <3>1, <3>5, <3>6, <3>7 DEF MarksInv, Fulfilled
  <2> QED
    BY <2>2, <2>3
<1>3. CASE ReadActual
  <2>1. /\ UNCHANGED <<globalActualDplmCfg, actual, unreadable>>
        /\ \/ /\ prevGlobalActualDplmCfg' = actual /\ promised' = promised
              /\ rpc' = IF unreadable THEN "writeNil" ELSE "write"
           \/ promised' = None
    BY <1>3 DEF ReadActual, ReceiverStep
  <2> QED
    BY <2>1 DEF MarksInv, Fulfilled
<1>4. CASE WriteActual
  <2>1. /\ rpc = "write" /\ rpc' = "recv" /\ UNCHANGED globalActualDplmCfg
        /\ \/ /\ actual' = Merged(prevGlobalActualDplmCfg, globalActualDplmCfg)
              /\ unreadable' = FALSE /\ promised' = promised
           \/ UNCHANGED <<actual, unreadable, promised>>
           \/ promised' = None
    BY <1>4 DEF WriteActual, WriteFails, ReceiverStep
  <2>2. ASSUME promised' # None PROVE Marked \in DOMAIN actual' /\ actual'[Marked] = promised
    BY <2>1, <2>2, MergeKeepsMark DEF MarksInv
  <2> QED
    BY <2>1, <2>2 DEF MarksInv, Fulfilled
<1>10. CASE WriteNilMap
  <2>1. rpc = "writeNil" /\ promised' \in {None, promised} /\ UNCHANGED globalActualDplmCfg
    BY <1>10 DEF WriteNilMap, WriteFails, ReceiverStep
  <2>2. promised' = None
    BY <2>1 DEF MarksInv
  <2> QED
    BY <2>1, <2>2 DEF MarksInv
<1>5. ASSUME NEW mark \in {"stopping", "starting"}, Mark(mark) PROVE MarksInv'
  <2>1. /\ actual' = Update(actual, [h \in {Marked} |-> mark])
        /\ unreadable' = FALSE
        /\ promised' = IF \/ rpc \in {"write", "writeNil"}
                          \/ /\ Marked \in DOMAIN globalActualDplmCfg
                             /\ globalActualDplmCfg[Marked] = Fulfilled(mark)
                       THEN None ELSE mark
        /\ UNCHANGED <<rpc, globalActualDplmCfg, prevGlobalActualDplmCfg>>
    BY <1>5 DEF Mark
  <2>2. Marked \in DOMAIN actual' /\ actual'[Marked] = mark
    BY <2>1 DEF Update
  <2> QED
    BY <2>1, <2>2 DEF MarksInv, Fulfilled
<1>6. CASE WatchStep \/ HandleDiff \/ Change \/ Signal
  BY <1>1, <1>6 DEF WatchStep, HandleDiff, Change, Signal
<1>7. CASE MainEnds \/ ConcurrentMapAccess \/ (\E p \in {"watch", "main"} : Install(p))
  BY <1>1, <1>7 DEF MainEnds, ConcurrentMapAccess, Install, MainStep
<1>8. ASSUME NEW n, ReceiveMain(n) PROVE MarksInv'
  BY <1>1, <1>8 DEF ReceiveMain, MainStep
<1>9. CASE UNCHANGED vars
  BY <1>1, <1>9 DEF vars
<1> QED
  BY <1>2, <1>3, <1>4, <1>5, <1>6, <1>7, <1>8, <1>9, <1>10
  DEF Next, WatchProceeds, ReceiverProceeds, MainProceeds

-----------------------------------------------------------------------------
(* The emulated runtime *)

LEMMA NumbersStep == ASSUME NumbersInv, [Next]_vars PROVE NumbersInv'
<1>1. ASSUME UNCHANGED <<deployed, nextAppIdx, nextServicePort, inside, announced, overlapped>>
      PROVE  NumbersInv'
  BY <1>1 DEF NumbersInv, BundlesDistinct, Numbers
<1>2. ASSUME NEW p, Install(p) PROVE NumbersInv'
  <2>1. CASE AddContainer(p)
    <3>1. /\ deployed' = deployed \cup {nextAppIdx}
          /\ inside' = inside \cup {p}
          /\ overlapped' = (overlapped \/ inside # {})
          /\ UNCHANGED <<nextAppIdx, nextServicePort, announced>>
      BY <2>1 DEF AddContainer
    <3>2. overlapped' \in BOOLEAN /\ (~overlapped' => ~overlapped /\ inside = {})
      BY <3>1 DEF NumbersInv
    <3> QED
      BY <3>1, <3>2 DEF NumbersInv, BundlesDistinct, Numbers
  <2>2. CASE ReturnNumbers(p)
    <3>1. /\ p \in inside /\ inside' = inside \ {p} /\ UNCHANGED <<deployed, overlapped>>
          /\ nextAppIdx' \in Nat /\ nextServicePort' \in Nat
      BY <2>2 DEF ReturnNumbers, NumbersInv
    <3>2. CASE overlapped
      BY <2>2, <3>1, <3>2 DEF ReturnNumbers, NumbersInv, BundlesDistinct
    <3>3. CASE ~overlapped
      <4> DEFINE new == [bundle |-> nextAppIdx, port |-> nextServicePort]
      <4>1. /\ announced' = Append(announced, new)
            /\ nextAppIdx' = nextAppIdx + 1 /\ nextServicePort' = nextServicePort + 1
        BY <2>2, <3>3 DEF ReturnNumbers, NumbersInv
      <4>2. /\ nextAppIdx \in Nat /\ nextAppIdx = nextServicePort /\ nextAppIdx >= 2
            /\ nextAppIdx \in deployed
            /\ \A i \in DOMAIN announced : announced[i].bundle \in 2..(nextAppIdx - 1)
            /\ announced \in Seq([bundle : Nat, port : Nat])
            /\ \A q, r \in inside : q = r
        BY <3>1, <3>3 DEF NumbersInv
      <4>3. /\ new \in [bundle : Nat, port : Nat] /\ new.bundle = nextAppIdx
            /\ new = Numbers(new.bundle)
        BY <4>2 DEF Numbers
      <4> HIDE DEF new
      <4>4. /\ announced' \in Seq([bundle : Nat, port : Nat])
            /\ DOMAIN announced = 1..Len(announced) /\ Len(announced) \in Nat
            /\ DOMAIN announced' = 1..(Len(announced) + 1)
            /\ announced'[Len(announced) + 1] = new
            /\ \A i \in 1..Len(announced) : announced'[i] = announced[i]
        BY <4>1, <4>2, <4>3
      <4>5. \A i \in DOMAIN announced' : announced'[i].bundle \in 2..nextAppIdx
        <5>1. \A i \in DOMAIN announced : announced'[i].bundle \in 2..(nextAppIdx - 1)
          BY <4>2, <4>4
        <5>2. announced'[Len(announced) + 1].bundle = nextAppIdx
          BY <4>3, <4>4
        <5>3. \A i \in DOMAIN announced' : i \in DOMAIN announced \/ i = Len(announced) + 1
          BY <4>4
        <5> QED
          BY <4>2, <5>1, <5>2, <5>3
      <4>6. ASSUME NEW i \in DOMAIN announced'
            PROVE  announced'[i].bundle \in deployed /\ announced'[i] = Numbers(announced'[i].bundle)
        <5>1. CASE i \in DOMAIN announced
          BY <3>3, <4>4, <5>1 DEF NumbersInv, BundlesDistinct
        <5>2. CASE i = Len(announced) + 1
          BY <4>2, <4>3, <4>4, <5>2
        <5> QED
          BY <4>4, <5>1, <5>2
      <4>7. \A i, j \in DOMAIN announced' : announced'[i].bundle = announced'[j].bundle => i = j
        <5>1. \A i, j \in DOMAIN announced : announced[i].bundle = announced[j].bundle => i = j
          BY <3>3 DEF NumbersInv, BundlesDistinct
        <5>2. \A i \in DOMAIN announced : announced[i].bundle # nextAppIdx
          BY <4>2
        <5> QED
          BY <4>3, <4>4, <5>1, <5>2
      <4>8. BundlesDistinct'
        BY <3>1, <4>6, <4>7 DEF BundlesDistinct, Numbers
      <4>9. inside' = {}
        BY <3>1, <4>2
      <4> QED
        BY <3>1, <4>1, <4>2, <4>4, <4>5, <4>8, <4>9 DEF NumbersInv
    <3> QED
      BY <3>1, <3>2, <3>3 DEF NumbersInv
  <2> QED
    BY <1>2, <2>1, <2>2 DEF Install, PullImageAndCreateContainer
<1>3. CASE MainEnds
  <2>1. deployed' = deployed \ {1}
        /\ UNCHANGED <<nextAppIdx, nextServicePort, inside, announced, overlapped>>
    BY <1>3 DEF MainEnds, RemoveImageAndContainer
  <2>2. ~overlapped => \A i \in DOMAIN announced : announced[i].bundle # 1
    BY DEF NumbersInv
  <2> QED
    BY <2>1, <2>2 DEF NumbersInv, BundlesDistinct, Numbers
<1>4. CASE WatchStep \/ HandleDiff \/ Change \/ Signal
  BY <1>1, <1>4 DEF WatchStep, HandleDiff, Change, Signal, dmVars, Process
<1>5. CASE ReadActual \/ WriteActual \/ WriteNilMap
  BY <1>1, <1>5 DEF ReadActual, WriteActual, WriteNilMap, ReceiverStep, dmVars
<1>6. ASSUME NEW m, Receive(m) PROVE NumbersInv'
  BY <1>1, <1>6 DEF Receive, dmVars
<1>7. ASSUME NEW n, ReceiveMain(n) PROVE NumbersInv'
  BY <1>1, <1>7 DEF ReceiveMain, Process
<1>8. ASSUME NEW mark, Mark(mark) PROVE NumbersInv'
  BY <1>1, <1>8 DEF Mark, dmVars
<1>9. CASE ConcurrentMapAccess \/ UNCHANGED vars
  BY <1>1, <1>9 DEF ConcurrentMapAccess, vars, dmVars
<1> QED
  BY <1>2, <1>3, <1>4, <1>5, <1>6, <1>7, <1>8, <1>9
  DEF Next, WatchProceeds, ReceiverProceeds, MainProceeds
-----------------------------------------------------------------------------
(* The watcher *)

LEMMA WatcherStep == ASSUME WatcherInv, [Next]_vars PROVE WatcherInv'
<1> USE ValidAssumption, ContentsAssumption
<1>1. ASSUME UNCHANGED <<watchVars, fileVars, missed, sent>>, diffs \subseteq diffs' PROVE WatcherInv'
  BY <1>1 DEF WatcherInv, Pending, watchVars, fileVars
<1>2. CASE WatchStep
  <2>0. UNCHANGED sent
    BY <1>2 DEF WatchStep
  <2>1. CASE WatchEnds
    BY <2>0, <2>1 DEF WatchEnds, WatcherInv, Pending, fileVars
  <2>2. CASE Select
    <3>1. events' \in Seq(Events)
      BY <2>2, HeadTailProperties DEF Select, WatcherInv
    <3> QED
      BY <2>0, <2>2, <3>1 DEF Select, WatcherInv, Pending
  <2>3. CASE waitUntilFind
    BY <2>0, <2>3 DEF waitUntilFind, WatcherInv, Pending, fileVars
  <2>4. CASE ReadFile
    BY <2>0, <2>4 DEF ReadFile, WatcherInv, Pending, fileVars
  <2>5. CASE Store
    <3>1. /\ wpc = "store" /\ wpc' \in {"add", "select"} /\ lastRead' = content
          /\ UNCHANGED <<file, events, diffs, missed>>
      BY <2>5 DEF Store, fileVars
    <3> QED
      BY <2>0, <3>1 DEF WatcherInv, Pending
  <2>6. CASE AddWatch
    BY <2>0, <2>6 DEF AddWatch, WatcherInv, Pending
  <2> QED
    BY <1>2, <2>1, <2>2, <2>3, <2>4, <2>5, <2>6 DEF WatchStep, Watch
<1>3. CASE HandleDiff
  <2>1. /\ wpc = "handle" /\ wpc' = "store"
        /\ UNCHANGED <<content, lastRead, file, events, diffs, missed>>
    BY <1>3 DEF HandleDiff, fileVars
  <2>2. content \in Valid => sent' = content
    BY <1>3, <2>1 DEF HandleDiff, Skip, DeploymentConfigFromJSONFails, WatcherInv
  <2> QED
    BY <2>1, <2>2 DEF WatcherInv, Pending
<1>4. CASE Change
  <2>1. UNCHANGED <<watchVars, diffs, sent>>
    BY <1>4 DEF Change, ChangeFile, Changed
  <2>2. PICK new \in Contents \cup {Missing}, event \in Events, still \in BOOLEAN :
          Changed(new, event, still)
    BY <1>4, Zenon DEF Change, ChangeFile, Events
  <2>3. missed' \/ events' = Append(events, event)
    BY <2>2 DEF Changed
  <2>4. events' \in Seq(Events)
    BY <2>2, AppendProperties DEF Changed, WatcherInv
  <2>5. missed' \/ events' # <<>>
    BY <2>3, <2>4, AppendProperties DEF WatcherInv
  <2> QED
    BY <2>1, <2>4, <2>5 DEF WatcherInv, Pending, watchVars
<1>5. ASSUME NEW m, Receive(m) PROVE WatcherInv'
  <2>1. /\ UNCHANGED <<wpc, content, file, events, missed, sent>>
        /\ diffs \subseteq diffs' /\ lastRead' \in {lastRead, Empty}
    BY <1>5 DEF Receive, Diff, fileVars
  <2> QED
    BY <2>1 DEF WatcherInv, Pending
<1>6. CASE ReadActual \/ WriteActual \/ WriteNilMap
  BY <1>1, <1>6 DEF ReadActual, WriteActual, WriteNilMap, ReceiverStep, watcherVars
<1>7. CASE \/ MainEnds \/ ConcurrentMapAccess \/ \E p \in {"watch", "main"} : Install(p)
           \/ \E n \in {m.images : m \in Messages} : ReceiveMain(n)
  BY <1>1, <1>7 DEF MainEnds, ConcurrentMapAccess, Install, ReceiveMain, MainStep, watcherVars
<1>8. CASE Signal \/ (\E mark \in {"stopping", "starting"} : Mark(mark)) \/ UNCHANGED vars
  BY <1>1, <1>8 DEF Signal, Mark, vars, watcherVars
<1> QED
  BY <1>2, <1>3, <1>4, <1>5, <1>6, <1>7, <1>8
  DEF Next, WatchProceeds, ReceiverProceeds, MainProceeds

-----------------------------------------------------------------------------
\* A mark in the file of the actual state survives any number of reports, of
\* rewritings and of writes that fail without touching the file, until the node
\* reports what the mark announces.  It is lost when it is made between the reading
\* and the writing, when the reading fails, and when a failing write truncates the
\* file (app.go:244-268).
THEOREM MarksAreKept == Spec => []MarksKept
<1>1. Init => MarksInv
  BY ValidAssumption DEF Init, MarksInv
<1>2. MarksInv /\ [Next]_vars => MarksInv'
  BY MarksStep
<1>3. MarksInv => MarksKept
  BY DEF MarksInv, MarksKept
<1> QED
  BY <1>1, <1>2, <1>3, PTL DEF Spec

\* However the two callers take turns: as long as their calls do not overlap, no
\* number is announced twice, and an announcement agrees with its container and
\* with what its removal would report (debug_container_manager.go:151-199).
THEOREM NumbersAgree == Spec => []BundlesDistinct
<1>1. Init => NumbersInv
  <2> SUFFICES ASSUME Init PROVE NumbersInv
    OBVIOUS
  <2>1. /\ deployed = {1} /\ nextAppIdx = 2 /\ nextServicePort = 2 /\ inside = {}
        /\ announced = <<>> /\ overlapped = FALSE
    BY DEF Init, InitManager
  <2>2. announced \in Seq([bundle : Nat, port : Nat]) /\ DOMAIN announced = {}
    BY <2>1
  <2>3. BundlesDistinct /\ \A i \in DOMAIN announced : announced[i].bundle \in 2..(nextAppIdx - 1)
    BY <2>2, Zenon DEF BundlesDistinct
  <2>4. nextAppIdx \in Nat /\ nextServicePort \in Nat /\ nextAppIdx = nextServicePort /\ nextAppIdx >= 2
    BY <2>1
  <2>5. overlapped \in BOOLEAN /\ \A p, q \in inside : p = q
    BY <2>1, Zenon
  <2> QED
    BY <2>1, <2>2, <2>3, <2>4, <2>5, Zenon DEF NumbersInv
<1>2. NumbersInv /\ [Next]_vars => NumbersInv'
  BY NumbersStep
<1>3. NumbersInv => BundlesDistinct
  BY DEF NumbersInv
<1> QED
  BY <1>1, <1>2, <1>3, PTL DEF Spec

\* Whenever Watch rests, the desired state distributed last is the content of
\* the file, unless the file has changed while it was not watched: neither the
\* comparison with lastRead nor a forced Diff that resets it at any moment loses
\* a change (file_watcher.go:53-111, app.go:178-200).
THEOREM FileIsDistributed == Spec => []DistributedIsFile
<1>1. Init => WatcherInv
  <2> SUFFICES ASSUME Init PROVE WatcherInv
    OBVIOUS
  <2>1. events = <<>> /\ wpc = "select" /\ lastRead = Empty /\ diffs = {"main"}
    BY DEF Init, InitWatcher
  <2> QED
    BY <2>1, ValidAssumption, ContentsAssumption DEF WatcherInv, Pending
<1>2. WatcherInv /\ [Next]_vars => WatcherInv'
  BY WatcherStep
<1>3. WatcherInv => DistributedIsFile
  BY DEF WatcherInv, Pending, DistributedIsFile
<1> QED
  BY <1>1, <1>2, <1>3, PTL DEF Spec
=============================================================================
