----------------------------- MODULE FileWatcher -----------------------------
(***************************************************************************)
(* pkg/io/file_watcher.go: Watch reads the file whenever an event arrives  *)
(* and hands the last and the new content to a handler, which the module   *)
(* that extends this one provides.  Events come from fsnotify and, on the  *)
(* same unbuffered channel, from Diff.                                     *)
(*                                                                         *)
(* fsnotify on Linux (external): a watch belongs to the file, not to its   *)
(* name.  Renaming the file ends the watch with a Rename event, replacing  *)
(* it by another file ends it with a Remove event.  lastRead is shared by  *)
(* two goroutines without a lock; a torn slice compares like an empty one. *)
(***************************************************************************)
EXTENDS Naturals, Sequences

CONSTANTS
    Contents,      \* contents of the file
    InitialFiles,  \* those it may have at the start
    Missing,       \* there is no file (a model value)
    Empty,         \* the empty byte slice, no content of the file (a model value)
    MaxInputs      \* bound: changes of the file and other inputs, together

ASSUME ContentsAssumption ==
    InitialFiles \subseteq Contents /\ Empty \notin Contents /\ Missing \notin Contents

VARIABLES
    file,          \* the content of the file, or Missing
    watched,       \* fsnotify watches it
    events,        \* events of fsnotify that Watch has not received
    diffs,         \* callers blocked in Diff
    wpc,           \* where Watch is
    rename,        \* the event in hand is a Rename
    content,       \* the content in hand, Empty when there is none
    lastRead,
    ctxDone,       \* the context is done
    inputs,        \* bound: inputs so far
    missed         \* history: the file has changed unwatched since Watch read it last

watchVars == <<wpc, rename, content, lastRead>>
fileVars == <<file, watched, events>>

InitWatcher ==
    /\ file \in InitialFiles
    /\ watched = TRUE
    /\ events = <<>>
    /\ wpc = "select"
    /\ rename = FALSE
    /\ content = Empty /\ lastRead = Empty
    /\ ctxDone = FALSE
    /\ inputs = 0
    /\ missed = FALSE

-----------------------------------------------------------------------------
(* Somebody changes the file. *)

Input == inputs < MaxInputs /\ inputs' = inputs + 1

Changed(new, event, stillWatched) ==
    /\ Input
    /\ file' = new
    /\ events' = IF watched THEN Append(events, event) ELSE events
    /\ watched' = (watched /\ stillWatched)
    /\ missed' = (missed \/ ~watched)
    /\ UNCHANGED <<watchVars, diffs, ctxDone>>

ChangeFile ==
    \/ file # Missing /\ \E c \in Contents : Changed(c, "Write", TRUE) \/ Changed(c, "Remove", FALSE)
    \/ file # Missing /\ Changed(Missing, "Rename", FALSE)
    \/ file = Missing /\ \E c \in Contents : Changed(c, "Create", TRUE)

-----------------------------------------------------------------------------
\* Faulty variant: the last content is kept.
DiffUnforced(caller, force) == diffs' = diffs \cup {caller} /\ UNCHANGED lastRead

\* Called; it returns when Watch receives the event.
Diff(caller, force) ==
    /\ diffs' = diffs \cup {caller}
    /\ lastRead' = IF force THEN Empty ELSE lastRead

WatchEnds ==
    /\ wpc = "select" /\ ctxDone
    /\ wpc' = "ended"
    /\ UNCHANGED <<fileVars, rename, content, lastRead, diffs, ctxDone, missed, inputs>>

Select ==
    /\ wpc = "select"
    /\ wpc' = "wait"
    /\ \/ /\ events # <<>>
          /\ rename' = (Head(events) = "Rename")
          /\ events' = Tail(events)
          /\ UNCHANGED diffs
       \/ /\ \E caller \in diffs : diffs' = diffs \ {caller}
          /\ rename' = FALSE
          /\ UNCHANGED events
    /\ UNCHANGED <<file, watched, content, lastRead, ctxDone, missed, inputs>>

waitUntilFind ==
    /\ wpc = "wait" /\ file # Missing
    /\ wpc' = "read"
    /\ UNCHANGED <<fileVars, rename, content, lastRead, diffs, ctxDone, missed, inputs>>

\* When the file has gone again, the event is forgotten.
ReadFile ==
    /\ wpc = "read"
    /\ IF file = Missing
       THEN wpc' = "select" /\ UNCHANGED <<content, missed>>
       ELSE wpc' = "handle" /\ content' = file /\ missed' = FALSE
    /\ UNCHANGED <<fileVars, rename, lastRead, diffs, ctxDone, inputs>>

\* Faulty variant: the file is read once more.
StoreAgain ==
    /\ wpc = "store"
    /\ lastRead' = IF file = Missing THEN content ELSE file
    /\ content' = Empty
    /\ wpc' = IF rename THEN "add" ELSE "select"
    /\ UNCHANGED <<fileVars, rename, diffs, ctxDone, missed, inputs>>

\* After the handler.
Store ==
    /\ wpc = "store"
    /\ lastRead' = content
    /\ content' = Empty
    /\ wpc' = IF rename THEN "add" ELSE "select"
    /\ UNCHANGED <<fileVars, rename, diffs, ctxDone, missed, inputs>>

\* watcher.Add, which fails without a file.
AddWatch ==
    /\ wpc = "add"
    /\ wpc' = "select"
    /\ watched' = (file # Missing)
    /\ rename' = FALSE
    /\ UNCHANGED <<file, events, content, lastRead, diffs, ctxDone, missed, inputs>>

\* Watch but for the handler.
Watch == WatchEnds \/ Select \/ waitUntilFind \/ ReadFile \/ Store \/ AddWatch
=============================================================================
