-------------------------------- MODULE Broker --------------------------------
(***************************************************************************)
(* pkg/channel/broker.go: the relay between the streams of the node        *)
(* registry.  One goroutine runs Listen; any number of goroutines call     *)
(* Read, Write and Stop and receive from the channels Read returned.       *)
(*                                                                         *)
(* A Go channel of capacity c is one sequence: its first c elements are in *)
(* the buffer, the elements behind them belong to senders that are blocked *)
(* in their send, in the order in which they arrived (the runtime queues   *)
(* them, and moves the first one into the buffer when a slot falls free).  *)
(* A call has returned as soon as its element is within the first c.       *)
(*                                                                         *)
(* A message is the number of its Write call; payloads do not matter.      *)
(***************************************************************************)
EXTENDS Naturals, Sequences

CONSTANTS
    Readers,          \* the Read calls (each one makes a channel of its own)
    DestinationsCap,  \* capacity of b.destinations: 1 in the code
    SourceCap,        \* capacity of b.source: 1 in the code
    ReaderCap,        \* capacity of a reader's channel: 5 in the code
    Writers,          \* bound: goroutines that can be inside Write at a time
    MaxMessages       \* bound: Write calls in a behaviour

ASSUME CapAssumption ==
    /\ DestinationsCap \in Nat \ {0}
    /\ SourceCap \in Nat \ {0}
    /\ ReaderCap \in Nat \ {0}
    /\ Writers \in Nat \ {0}
    /\ MaxMessages \in Nat

VARIABLES
    destinations,  \* b.destinations: channels handed in by Read
    source,        \* b.source
    quit,          \* b.quit is closed
    listeners,     \* Listen's local map
    todo,          \* listeners that the loop of broker.go:30 has not reached yet
    stopped,       \* Listen has returned
    queue,         \* queue[r]: the buffer of r's channel
    written,       \* history: number of Write calls
    taken,         \* the message Listen received last (0: none)
    joined,        \* history: joined[r] is taken at the time r became a listener
    received       \* history: received[r] is what r has taken out of its channel

vars == <<destinations, source, quit, listeners, todo, stopped, queue, written,
          taken, joined, received>>

Asked == listeners \cup {destinations[i] : i \in 1..Len(destinations)}

\* Elements beyond the capacity: calls that have not returned.
BlockedReads == {destinations[i] : i \in (DestinationsCap + 1)..Len(destinations)}
BlockedWrites == {source[i] : i \in (SourceCap + 1)..Len(source)}

-----------------------------------------------------------------------------
(* Faulty variants of the operations below, one per mistake that would be    *)
(* easy to make in broker.go.  They are not part of Next; each is put in the *)
(* place of the operation it varies to see that a property then fails.       *)

\* A non-blocking send in Write: the message is lost when source is full.
WriteOrDrop ==
    /\ written < MaxMessages
    /\ written' = written + 1
    /\ source' = IF Len(source) < SourceCap THEN Append(source, written + 1) ELSE source
    /\ UNCHANGED <<destinations, quit, listeners, todo, stopped, queue, taken,
                   joined, received>>

\* Listen drops a new channel while there is a message to relay.
SelectDestinationOrDrop ==
    /\ ~stopped /\ todo = {}
    /\ destinations # <<>>
    /\ destinations' = Tail(destinations)
    /\ IF source = <<>>
       THEN /\ listeners' = listeners \cup {Head(destinations)}
            /\ joined' = [joined EXCEPT ![Head(destinations)] = taken]
       ELSE UNCHANGED <<listeners, joined>>
    /\ UNCHANGED <<source, quit, todo, stopped, queue, written, taken, received>>

\* A break, which leaves the select and not the loop, instead of the return.
SelectQuitBreaks ==
    /\ ~stopped /\ todo = {}
    /\ quit
    /\ UNCHANGED vars

\* The send without the default case: Listen waits for a slot of r's buffer.
OfferBlocking(r) ==
    /\ r \in todo
    /\ Len(queue[r]) < ReaderCap
    /\ todo' = todo \ {r}
    /\ queue' = [queue EXCEPT ![r] = Append(@, taken)]
    /\ UNCHANGED <<destinations, source, quit, listeners, stopped, written,
                   taken, joined, received>>

\* The buffer counts as full one message too late.
OfferBeyondCap(r) ==
    /\ r \in todo
    /\ todo' = todo \ {r}
    /\ queue' = IF Len(queue[r]) <= ReaderCap
                THEN [queue EXCEPT ![r] = Append(@, taken)]
                ELSE queue
    /\ UNCHANGED <<destinations, source, quit, listeners, stopped, written,
                   taken, joined, received>>

\* The buffer counts as full one message too early.
OfferBelowCap(r) ==
    /\ r \in todo
    /\ todo' = todo \ {r}
    /\ queue' = IF Len(queue[r]) < ReaderCap - 1
                THEN [queue EXCEPT ![r] = Append(@, taken)]
                ELSE queue
    /\ UNCHANGED <<destinations, source, quit, listeners, stopped, written,
                   taken, joined, received>>

\* A full buffer makes room by giving up its newest message, and the loop
\* tries again.
OfferRetry(r) ==
    /\ r \in todo
    /\ IF Len(queue[r]) < ReaderCap
       THEN /\ todo' = todo \ {r}
            /\ queue' = [queue EXCEPT ![r] = Append(@, taken)]
       ELSE /\ queue' = [queue EXCEPT ![r] = SubSeq(@, 1, Len(@) - 1)]
            /\ UNCHANGED todo
    /\ UNCHANGED <<destinations, source, quit, listeners, stopped, written,
                   taken, joined, received>>

\* The send succeeds and the listener is visited once more.
OfferAgain(r) ==
    /\ r \in todo
    /\ \/ todo' = todo \ {r}
       \/ todo' = todo
    /\ queue' = IF Len(queue[r]) < ReaderCap
                THEN [queue EXCEPT ![r] = Append(@, taken)]
                ELSE queue
    /\ UNCHANGED <<destinations, source, quit, listeners, stopped, written,
                   taken, joined, received>>

-----------------------------------------------------------------------------
Init ==
    /\ destinations = <<>>
    /\ source = <<>>
    /\ quit = FALSE
    /\ listeners = {}
    /\ todo = {}
    /\ stopped = FALSE
    /\ queue = [r \in Readers |-> <<>>]
    /\ written = 0
    /\ taken = 0
    /\ joined = [r \in Readers |-> 0]
    /\ received = [r \in Readers |-> <<>>]

Read(r) ==
    /\ r \notin Asked
    /\ destinations' = Append(destinations, r)
    /\ UNCHANGED <<source, quit, listeners, todo, stopped, queue, written,
                   taken, joined, received>>

\* A goroutine that is not blocked in an earlier Write calls Write.
Write ==
    /\ written < MaxMessages
    /\ Len(source) < SourceCap + Writers
    /\ written' = written + 1
    /\ source' = Append(source, written + 1)
    /\ UNCHANGED <<destinations, quit, listeners, todo, stopped, queue, taken,
                   joined, received>>

\* A second Stop would close a closed channel, which panics.
Stop ==
    /\ ~quit
    /\ quit' = TRUE
    /\ UNCHANGED <<destinations, source, listeners, todo, stopped, queue,
                   written, taken, joined, received>>

-----------------------------------------------------------------------------
(* Listen.  todo = {}: it is in the select of broker.go:26, which takes any *)
(* case that is ready.                                                      *)
Selecting == ~stopped /\ todo = {}

SelectDestination ==
    /\ Selecting
    /\ destinations # <<>>
    /\ destinations' = Tail(destinations)
    /\ listeners' = listeners \cup {Head(destinations)}
    /\ joined' = [joined EXCEPT ![Head(destinations)] = taken]
    /\ UNCHANGED <<source, quit, todo, stopped, queue, written, taken, received>>

\* The range over the map visits every listener, in any order.
SelectSource ==
    /\ Selecting
    /\ source # <<>>
    /\ source' = Tail(source)
    /\ taken' = Head(source)
    /\ todo' = listeners
    /\ UNCHANGED <<destinations, quit, listeners, stopped, queue, written,
                   joined, received>>

SelectQuit ==
    /\ Selecting
    /\ quit
    /\ stopped' = TRUE
    /\ UNCHANGED <<destinations, source, quit, listeners, todo, queue, written,
                   taken, joined, received>>

\* The inner select: send, or the default case when r's buffer is full.
Offer(r) ==
    /\ r \in todo
    /\ todo' = todo \ {r}
    /\ queue' = IF Len(queue[r]) < ReaderCap
                THEN [queue EXCEPT ![r] = Append(@, taken)]
                ELSE queue
    /\ UNCHANGED <<destinations, source, quit, listeners, stopped, written,
                   taken, joined, received>>

\* The owner of the channel that Read returned takes a message out of it.
Receive(r) ==
    /\ queue[r] # <<>>
    /\ queue' = [queue EXCEPT ![r] = Tail(@)]
    /\ received' = [received EXCEPT ![r] = Append(@, Head(queue[r]))]
    /\ UNCHANGED <<destinations, source, quit, listeners, todo, stopped,
                   written, taken, joined>>

-----------------------------------------------------------------------------
Listen ==
    \/ SelectDestination
    \/ SelectSource
    \/ SelectQuit
    \/ \E r \in Readers : Offer(r)

Next ==
    \/ \E r \in Readers : Read(r) \/ Receive(r)
    \/ Write
    \/ Stop
    \/ Listen

(***************************************************************************)
(* Listen's goroutine is scheduled again and again, and select chooses     *)
(* uniformly among the ready cases, so none of them is passed over         *)
(* forever.  Nothing is assumed of the readers: they need not receive.     *)
(***************************************************************************)
Fairness ==
    /\ SF_vars(SelectDestination)
    /\ SF_vars(SelectSource)
    /\ SF_vars(SelectQuit)
    /\ WF_vars(\E r \in Readers : Offer(r))

SafetySpec == Init /\ [][Next]_vars

Spec == SafetySpec /\ Fairness

-----------------------------------------------------------------------------
(* Everything that was put into r's channel, in the order of the sends. *)
Stream(r) == received[r] \o queue[r]

Increasing(s) == \A i, j \in 1..Len(s) : i < j => s[i] < s[j]
Within(s, low, high) == \A i \in 1..Len(s) : s[i] > low /\ s[i] <= high

\* The state has its type, and no channel of a reader exceeds its capacity
\* (broker.go:48): Listen's send never blocks it on a reader.
TypeOK ==
    /\ destinations \in Seq(Readers)
    /\ source \in Seq(1..MaxMessages)
    /\ quit \in BOOLEAN
    /\ listeners \subseteq Readers
    /\ todo \subseteq listeners
    /\ stopped \in BOOLEAN
    /\ queue \in [Readers -> Seq(1..MaxMessages)]
    /\ \A r \in Readers : Len(queue[r]) <= ReaderCap
    /\ written \in 0..MaxMessages
    /\ taken \in 0..MaxMessages
    /\ joined \in [Readers -> 0..MaxMessages]
    /\ received \in [Readers -> Seq(1..MaxMessages)]

\* Whatever the interleaving of Listen's loop with Read, Write and the readers,
\* a reader gets messages in the order of the Write calls, none of them twice,
\* none that was distributed before it became a listener, and none that was
\* not written (broker.go:26-38).  Any two readers thus agree on the order.
InOrder ==
    \A r \in Readers : Within(Stream(r), joined[r], taken) /\ Increasing(Stream(r))

\* Listen has offered m to r.
Offered(r, m) ==
    r \in listeners /\ m > joined[r] /\ m <= taken /\ ~(m = taken /\ r \in todo)

\* m is part of s, or comes after the first ReaderCap elements of s.
HasOrFull(s, m) ==
    \/ \E i \in 1..Len(s) : s[i] = m
    \/ Len(s) >= ReaderCap /\ s[ReaderCap] < m

\* A message a listener was offered is lost to it only behind ReaderCap earlier
\* messages: the default case of broker.go:33 needs a full buffer, so as many
\* messages as the buffer holds are never lost after a reader has joined.
LossOnlyWhenFull ==
    \A r \in Readers, m \in 1..MaxMessages : Offered(r, m) => HasOrFull(Stream(r), m)

\* The messages that Listen has not taken yet are exactly the ones in source,
\* in the order of the Write calls: Write loses nothing (broker.go:53-55).
SourceInOrder ==
    /\ Len(source) = written - taken
    /\ \A i \in 1..Len(source) : source[i] = taken + i

\* Every Write returns, also when no reader ever receives, unless Listen ends
\* (broker.go:53: the sender waits for a slot of source only).
WriteReturns ==
    \A m \in 1..MaxMessages : m \in BlockedWrites ~> (m \notin BlockedWrites \/ stopped)

\* Every channel that Read handed in becomes a listener, unless Listen ends: a
\* reader is not starved by a stream of messages (broker.go:27-29).
ReadRegisters ==
    \A r \in Readers : r \in Asked ~> (r \in listeners \/ stopped)

\* Once Stop was called Listen returns, however much is still to be relayed
\* (broker.go:36-37, 43-45).
StopEnds == quit ~> stopped

\* The broker implements the abstract relay: what Listen takes is published,
\* becoming a listener is subscribing, and what was put into a reader's channel
\* is its stream.
Abstract == INSTANCE LossyBroadcast WITH
    published <- taken, subscribed <- listeners, since <- joined,
    stream <- [r \in Readers |-> Stream(r)]

ImplementsLossyBroadcast == Abstract!Spec
=============================================================================
