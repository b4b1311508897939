---------------------------- MODULE LossyBroadcast ----------------------------
(***************************************************************************)
(* What a reader of pkg/channel's Broker may rely on, with no channel, no  *)
(* buffer and no goroutine in sight: messages are published one after the  *)
(* other; whoever subscribes sees a part of the messages published after   *)
(* that moment, each at most once and in the order of publication.  Which  *)
(* part is left open: the broker is allowed to lose a message.             *)
(***************************************************************************)
EXTENDS Naturals, Sequences

CONSTANT Readers

VARIABLES
    published,    \* how many messages have been published; they are 1..published
    subscribed,   \* the readers that have subscribed
    since,        \* since[r]: what was published when r subscribed
    stream        \* stream[r]: what has been handed to r, oldest first

vars == <<published, subscribed, since, stream>>

Init ==
    /\ published = 0
    /\ subscribed = {}
    /\ since = [r \in Readers |-> 0]
    /\ stream = [r \in Readers |-> <<>>]

Publish ==
    /\ published' = published + 1
    /\ UNCHANGED <<subscribed, since, stream>>

Subscribe(r) ==
    /\ r \notin subscribed
    /\ subscribed' = subscribed \cup {r}
    /\ since' = [since EXCEPT ![r] = published]
    /\ UNCHANGED <<published, stream>>

\* m is new to r: published after r subscribed and after everything r was handed.
NewTo(r, m) ==
    /\ m > since[r]
    /\ m <= published
    /\ \A i \in 1..Len(stream[r]) : stream[r][i] < m

Hand(r) ==
    /\ r \in subscribed
    /\ \E m \in 1..published :
         /\ NewTo(r, m)
         /\ stream' = [stream EXCEPT ![r] = Append(@, m)]
    /\ UNCHANGED <<published, subscribed, since>>

Next == Publish \/ \E r \in Readers : Subscribe(r) \/ Hand(r)

Spec == Init /\ [][Next]_vars
=============================================================================
