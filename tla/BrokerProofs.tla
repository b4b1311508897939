----------------------------- MODULE BrokerProofs -----------------------------
(***************************************************************************)
(* For any number of readers, writers and messages and for any capacities: *)
(* the type invariant and the ordering and loss guarantees of Broker, and  *)
(* that Broker implements LossyBroadcast.                                  *)
(***************************************************************************)
EXTENDS Broker, TLAPS, SequenceTheorems

Messages == 1..MaxMessages

LEMMA CapFacts ==
    /\ ReaderCap \in Nat /\ ReaderCap >= 1
    /\ MaxMessages \in Nat
BY CapAssumption

-----------------------------------------------------------------------------
(* Facts about sequences. *)

\* A send to a reader's channel appends to the reader's stream.
LEMMA AppendToConcat ==
    ASSUME NEW S, NEW s \in Seq(S), NEW t \in Seq(S), NEW e \in S
    PROVE  s \o Append(t, e) = Append(s \o t, e)
<1> DEFINE lhs == s \o Append(t, e)
           rhs == Append(s \o t, e)
<1>1. lhs \in Seq(S) /\ Len(lhs) = Len(s) + Len(t) + 1
  BY AppendProperties, ConcatProperties
<1>2. rhs \in Seq(S) /\ Len(rhs) = Len(s) + Len(t) + 1
  BY AppendProperties, ConcatProperties
<1>3. \A i \in 1..Len(lhs) : lhs[i] = rhs[i]
  <2> TAKE i \in 1..Len(lhs)
  <2>1. Append(t, e) \in Seq(S) /\ s \o t \in Seq(S) /\ Len(s) \in Nat /\ Len(t) \in Nat
    BY AppendProperties, ConcatProperties, LenProperties
  <2>2. CASE i <= Len(s)
    BY <1>1, <2>1, <2>2, AppendProperties, ConcatProperties
  <2>3. CASE i > Len(s) /\ i <= Len(s) + Len(t)
    BY <1>1, <2>1, <2>3, AppendProperties, ConcatProperties
  <2>4. CASE i = Len(s) + Len(t) + 1
    BY <1>1, <2>1, <2>4, AppendProperties, ConcatProperties
  <2> QED
    BY <1>1, <2>1, <2>2, <2>3, <2>4
<1> QED
  BY <1>1, <1>2, <1>3, SeqEqual

\* A receive moves the boundary inside the stream and leaves the stream alone.
LEMMA MoveHead ==
    ASSUME NEW S, NEW s \in Seq(S), NEW t \in Seq(S), t # <<>>
    PROVE  Append(s, Head(t)) \o Tail(t) = s \o t
<1> DEFINE lhs == Append(s, Head(t)) \o Tail(t)
           rhs == s \o t
<1>1. Head(t) \in S /\ Tail(t) \in Seq(S) /\ Len(Tail(t)) = Len(t) - 1
       /\ Len(t) \in Nat \ {0} /\ Len(s) \in Nat
  BY HeadTailProperties, EmptySeq, LenProperties
<1>2. Append(s, Head(t)) \in Seq(S) /\ Len(Append(s, Head(t))) = Len(s) + 1
  BY <1>1, AppendProperties
<1>3. lhs \in Seq(S) /\ Len(lhs) = Len(s) + Len(t)
  BY <1>1, <1>2, ConcatProperties
<1>4. rhs \in Seq(S) /\ Len(rhs) = Len(s) + Len(t)
  BY ConcatProperties
<1>5. \A i \in 1..Len(lhs) : lhs[i] = rhs[i]
  <2> TAKE i \in 1..Len(lhs)
  <2>1. CASE i <= Len(s)
    BY <1>1, <1>2, <1>3, <2>1, AppendProperties, ConcatProperties
  <2>2. CASE i = Len(s) + 1
    BY <1>1, <1>2, <1>3, <2>2, AppendProperties, ConcatProperties, HeadTailProperties
  <2>3. CASE i > Len(s) + 1
    <3>1. lhs[i] = Tail(t)[i - (Len(s) + 1)]
      BY <1>1, <1>2, <1>3, <2>3, ConcatProperties
    <3>2. i - (Len(s) + 1) \in 1..Len(Tail(t))
      BY <1>1, <1>3, <2>3
    <3>3. Tail(t)[i - (Len(s) + 1)] = t[i - Len(s)]
      BY <1>1, <3>2, HeadTailProperties
    <3>4. rhs[i] = t[i - Len(s)]
      BY <1>1, <1>3, <2>3, ConcatProperties
    <3> QED
      BY <3>1, <3>3, <3>4
  <2> QED
    BY <1>1, <1>3, <2>1, <2>2, <2>3
<1> QED
  BY <1>3, <1>4, <1>5, SeqEqual

LEMMA ConcatFacts ==
    ASSUME NEW S, NEW s \in Seq(S), NEW t \in Seq(S)
    PROVE  s \o t \in Seq(S) /\ Len(s \o t) \in Nat /\ Len(s \o t) >= Len(t)
OBVIOUS

\* All elements of s are smaller than m.
Below(s, m) == \A i \in 1..Len(s) : s[i] < m

LEMMA EmptyInOrder ==
    ASSUME NEW low, NEW high
    PROVE  Increasing(<<>>) /\ Within(<<>>, low, high) /\ Below(<<>>, high)
BY DEF Increasing, Within, Below

LEMMA WithinGrows ==
    ASSUME NEW s \in Seq(Int), NEW low \in Int, NEW high \in Int, Within(s, low, high)
    PROVE  Within(s, low, high + 1) /\ Below(s, high + 1)
BY DEF Within, Below

LEMMA AppendInOrder ==
    ASSUME NEW s \in Seq(Int), NEW low \in Int, NEW m \in Int,
           low < m, Within(s, low, m), Below(s, m), Increasing(s)
    PROVE  Within(Append(s, m), low, m) /\ Increasing(Append(s, m))
<1>1. Append(s, m) \in Seq(Int) /\ Len(Append(s, m)) = Len(s) + 1 /\ Len(s) \in Nat
  BY AppendProperties, LenProperties
<1>2. \A i \in 1..Len(s) : Append(s, m)[i] = s[i] /\ s[i] \in Int
  BY AppendProperties, ElementOfSeq
<1>3. Append(s, m)[Len(s) + 1] = m
  BY AppendProperties
<1>4. Within(Append(s, m), low, m)
  BY <1>1, <1>2, <1>3 DEF Within
<1>5. Increasing(Append(s, m))
  BY <1>1, <1>2, <1>3 DEF Increasing, Below
<1> QED
  BY <1>4, <1>5

LEMMA AppendHasOrFull ==
    ASSUME NEW s \in Seq(Int), NEW m \in Int, NEW n \in Int, HasOrFull(s, n) \/ n = m
    PROVE  HasOrFull(Append(s, m), n)
<1>1. Append(s, m) \in Seq(Int) /\ Len(Append(s, m)) = Len(s) + 1 /\ Len(s) \in Nat
  BY AppendProperties, LenProperties
<1>2. \A i \in 1..Len(s) : Append(s, m)[i] = s[i]
  BY AppendProperties
<1>3. Append(s, m)[Len(s) + 1] = m
  BY AppendProperties
<1> QED
  BY <1>1, <1>2, <1>3, CapFacts DEF HasOrFull

LEMMA FullHasOrFull ==
    ASSUME NEW s \in Seq(Int), NEW m \in Int, Len(s) >= ReaderCap, Below(s, m)
    PROVE  HasOrFull(s, m)
BY CapFacts DEF HasOrFull, Below

-----------------------------------------------------------------------------
(***************************************************************************)
(* The inductive invariant.  InOrder alone is not inductive: a reader that *)
(* becomes a listener gets a new value of joined, which is harmless only   *)
(* because nothing was ever put into its channel (Quiet) as it has not     *)
(* been a listener before (Handshake); and Offer keeps the order only      *)
(* because whoever is still to be visited has not got the message in hand  *)
(* yet (Pending).                                                          *)
(***************************************************************************)
Handshake ==
    /\ \A i \in 1..Len(destinations) : destinations[i] \notin listeners
    /\ \A i, j \in 1..Len(destinations) : destinations[i] = destinations[j] => i = j

Quiet == \A r \in Readers : r \notin listeners => queue[r] = <<>> /\ received[r] = <<>>

JoinedPast == \A r \in Readers : joined[r] <= taken

Pending == \A r \in todo : joined[r] < taken /\ Below(Stream(r), taken)

TypeInv == TypeOK /\ (todo # {} => taken > 0)

IndInv ==
    /\ TypeInv
    /\ SourceInOrder
    /\ Handshake
    /\ Quiet
    /\ JoinedPast
    /\ Pending
    /\ InOrder
    /\ LossOnlyWhenFull

-----------------------------------------------------------------------------
(* The type invariant *)

LEMMA TypeInit == Init => TypeInv
<1> SUFFICES ASSUME Init PROVE TypeInv
  OBVIOUS
<1>1. <<>> \in Seq(Readers) /\ <<>> \in Seq(1..MaxMessages) /\ Len(<<>>) = 0
  BY EmptySeq
<1>2. queue \in [Readers -> Seq(1..MaxMessages)] /\ received \in [Readers -> Seq(1..MaxMessages)]
  BY <1>1 DEF Init
<1>3. \A r \in Readers : Len(queue[r]) <= ReaderCap
  <2> TAKE r \in Readers
  <2>1. queue[r] = <<>>
    BY DEF Init
  <2>2. Len(queue[r]) = 0
    BY <2>1
  <2> QED
    BY <2>2, CapFacts
<1>4. joined \in [Readers -> 0..MaxMessages] /\ written \in 0..MaxMessages /\ taken \in 0..MaxMessages
  BY CapAssumption DEF Init
<1>5. quit \in BOOLEAN /\ stopped \in BOOLEAN /\ listeners \subseteq Readers /\ todo \subseteq listeners
  BY DEF Init
<1> QED
  BY <1>1, <1>2, <1>3, <1>4, <1>5 DEF Init, TypeInv, TypeOK

LEMMA TypeStep == TypeInv /\ [Next]_vars => TypeInv'
<1> SUFFICES ASSUME TypeInv, [Next]_vars PROVE TypeInv'
  OBVIOUS
<1> USE CapAssumption DEF TypeInv, TypeOK
<1>1. ASSUME NEW r \in Readers, Read(r) PROVE TypeInv'
  BY <1>1 DEF Read
<1>2. ASSUME NEW r \in Readers, Receive(r) PROVE TypeInv'
  BY <1>2 DEF Receive
<1>3. CASE Write
  BY <1>3 DEF Write
<1>4. CASE Stop
  BY <1>4 DEF Stop
<1>5. CASE SelectDestination
  <2>1. Head(destinations) \in Readers /\ Tail(destinations) \in Seq(Readers)
    BY <1>5, HeadTailProperties DEF SelectDestination
  <2> QED
    BY <1>5, <2>1 DEF SelectDestination
<1>6. CASE SelectSource
  <2>1. Head(source) \in 1..MaxMessages /\ Tail(source) \in Seq(1..MaxMessages)
    BY <1>6, HeadTailProperties DEF SelectSource
  <2> QED
    BY <1>6, <2>1 DEF SelectSource
<1>7. CASE SelectQuit
  BY <1>7 DEF SelectQuit
<1>8. ASSUME NEW r \in Readers, Offer(r) PROVE TypeInv'
  <2> SUFFICES /\ queue' \in [Readers -> Seq(1..MaxMessages)]
               /\ \A x \in Readers : Len(queue'[x]) <= ReaderCap
    BY <1>8 DEF Offer
  <2>1. CASE Len(queue[r]) < ReaderCap
    <3>1. taken \in 1..MaxMessages
      BY <1>8 DEF Offer
    <3> QED
      BY <1>8, <2>1, <3>1, AppendProperties DEF Offer
  <2>2. CASE ~(Len(queue[r]) < ReaderCap)
    BY <1>8, <2>2 DEF Offer
  <2> QED
    BY <2>1, <2>2
<1>9. CASE UNCHANGED vars
  BY <1>9 DEF vars
<1> QED
  BY <1>1, <1>2, <1>3, <1>4, <1>5, <1>6, <1>7, <1>8, <1>9 DEF Next, Listen

\* Every state of the broker has its type, and a reader's buffer never holds
\* more than its capacity (broker.go:48).
THEOREM TypeCorrect == SafetySpec => []TypeOK
<1>1. TypeInv => TypeOK
  BY DEF TypeInv
<1> QED
  BY <1>1, TypeInit, TypeStep, PTL DEF SafetySpec

-----------------------------------------------------------------------------
(* What the steps do to a reader's stream *)

LEMMA StreamType ==
    ASSUME TypeOK, NEW r \in Readers
    PROVE  /\ Stream(r) \in Seq(Int)
           /\ Len(Stream(r)) \in Nat
           /\ Len(Stream(r)) >= Len(queue[r])
<1>1. 1..MaxMessages \subseteq Int
  OBVIOUS
<1>2. received[r] \in Seq(1..MaxMessages) /\ queue[r] \in Seq(1..MaxMessages)
  BY DEF TypeOK
<1>3. received[r] \in Seq(Int) /\ queue[r] \in Seq(Int)
  BY <1>1, <1>2, SeqMonotonic, Zenon
<1> QED
  BY <1>3, ConcatFacts, Zenon DEF Stream

LEMMA StreamReceive ==
    ASSUME TypeOK, NEW r \in Readers, Receive(r), NEW x \in Readers
    PROVE  Stream(x)' = Stream(x)
<1>1. received[r] \in Seq(1..MaxMessages) /\ queue[r] \in Seq(1..MaxMessages) /\ queue[r] # <<>>
  BY DEF TypeOK, Receive
<1>2. Append(received[r], Head(queue[r])) \o Tail(queue[r]) = received[r] \o queue[r]
  BY <1>1, MoveHead
<1>3. queue'[x] = IF x = r THEN Tail(queue[r]) ELSE queue[x]
  BY DEF TypeOK, Receive
<1>4. received'[x] = IF x = r THEN Append(received[r], Head(queue[r])) ELSE received[x]
  BY DEF TypeOK, Receive
<1> QED
  BY <1>2, <1>3, <1>4 DEF Stream

LEMMA StreamOffer ==
    ASSUME TypeInv, NEW r \in Readers, Offer(r), NEW x \in Readers
    PROVE  Stream(x)' = IF x = r /\ Len(queue[r]) < ReaderCap
                        THEN Append(Stream(x), taken)
                        ELSE Stream(x)
<1>1. received[r] \in Seq(1..MaxMessages) /\ queue[r] \in Seq(1..MaxMessages)
  BY DEF TypeInv, TypeOK
<1>2. taken \in 1..MaxMessages
  BY DEF TypeInv, TypeOK, Offer
<1>3. received[r] \o Append(queue[r], taken) = Append(received[r] \o queue[r], taken)
  <2>1. /\ received[r] \in Seq(Messages)
        /\ queue[r] \in Seq(Messages)
        /\ taken \in Messages
    BY <1>1, <1>2 DEF Messages
  <2> QED
    <3>1. \A a, b \in Seq(Messages), c \in Messages : a \o Append(b, c) = Append(a \o b, c)
      BY AppendToConcat
    <3> QED
      BY <2>1, <3>1, Zenon
<1>4. queue'[x] = IF x = r /\ Len(queue[r]) < ReaderCap THEN Append(queue[r], taken) ELSE queue[x]
  BY DEF TypeInv, TypeOK, Offer
<1>5. received'[x] = received[x]
  BY DEF Offer
<1> QED
  BY <1>3, <1>4, <1>5 DEF Stream

LEMMA StreamKept ==
    ASSUME UNCHANGED <<queue, received>>, NEW x \in Readers
    PROVE  Stream(x)' = Stream(x)
BY DEF Stream

-----------------------------------------------------------------------------
(* The two channels that Listen receives from *)

LEMMA SourceStep == TypeInv /\ SourceInOrder /\ [Next]_vars => SourceInOrder'
<1> SUFFICES ASSUME TypeInv, SourceInOrder, [Next]_vars PROVE SourceInOrder'
  OBVIOUS
<1> USE DEF SourceInOrder
<1>1. CASE Write
  <2>1. source \in Seq(1..MaxMessages) /\ written \in Nat /\ taken \in Nat
    BY DEF TypeInv, TypeOK
  <2>2. source' = Append(source, written + 1) /\ written' = written + 1 /\ taken' = taken
    BY <1>1 DEF Write
  <2> QED
    BY <2>1, <2>2
<1>2. CASE SelectSource
  <2>1. source \in Seq(1..MaxMessages) /\ source # <<>> /\ written \in Nat /\ taken \in Nat
    BY <1>2 DEF TypeInv, TypeOK, SelectSource
  <2>2. source' = Tail(source) /\ taken' = Head(source) /\ written' = written
    BY <1>2 DEF SelectSource
  <2>3. Head(source) = taken + 1
    BY <2>1
  <2> QED
    BY <2>1, <2>2, <2>3
<1>3. CASE UNCHANGED <<source, written, taken>>
  BY <1>3
<1>4. CASE UNCHANGED vars
  BY <1>4 DEF vars
<1> QED
  BY <1>1, <1>2, <1>3, <1>4
  DEF Next, Listen, Read, Receive, Stop, SelectDestination, SelectQuit, Offer

LEMMA HandshakeStep == TypeInv /\ Handshake /\ [Next]_vars => Handshake'
<1> SUFFICES ASSUME TypeInv, Handshake, [Next]_vars PROVE Handshake'
  OBVIOUS
<1>0. destinations \in Seq(Readers)
  BY DEF TypeInv, TypeOK
<1>1. ASSUME NEW r \in Readers, Read(r) PROVE Handshake'
  <2>1. destinations' = Append(destinations, r) /\ listeners' = listeners
    BY <1>1 DEF Read
  <2>2. r \notin listeners /\ \A i \in 1..Len(destinations) : destinations[i] # r
    BY <1>1 DEF Read, Asked
  <2> QED
    BY <1>0, <2>1, <2>2 DEF Handshake
<1>2. CASE SelectDestination
  <2>1. destinations # <<>> /\ destinations' = Tail(destinations)
        /\ listeners' = listeners \cup {Head(destinations)}
    BY <1>2 DEF SelectDestination
  <2> QED
    BY <1>0, <2>1 DEF Handshake
<1>3. CASE UNCHANGED <<destinations, listeners>>
  BY <1>3 DEF Handshake
<1>4. CASE UNCHANGED vars
  BY <1>4 DEF vars, Handshake
<1> QED
  BY <1>1, <1>2, <1>3, <1>4
  DEF Next, Listen, Receive, Write, Stop, SelectSource, SelectQuit, Offer

-----------------------------------------------------------------------------
(* The readers' streams *)

StreamInv == Quiet /\ JoinedPast /\ Pending /\ InOrder /\ LossOnlyWhenFull

LEMMA StreamSelectDestination == IndInv /\ SelectDestination => StreamInv'
<1> SUFFICES ASSUME IndInv, SelectDestination PROVE StreamInv'
  OBVIOUS
<1> DEFINE d == Head(destinations)
<1>1. d \in Readers /\ d \notin listeners
  <2>1. destinations \in Seq(Readers) /\ destinations # <<>>
    BY DEF IndInv, TypeInv, TypeOK, SelectDestination
  <2>2. d \in Readers /\ 1 \in 1..Len(destinations) /\ d = destinations[1]
    BY <2>1
  <2> QED
    BY <2>2 DEF IndInv, Handshake
<1>2. /\ listeners' = listeners \cup {d}
      /\ joined' = [joined EXCEPT ![d] = taken]
      /\ UNCHANGED <<todo, queue, taken, received>>
      /\ todo = {}
  BY DEF SelectDestination, Selecting
<1>3. joined \in [Readers -> 0..MaxMessages] /\ taken \in Nat
  BY DEF IndInv, TypeInv, TypeOK
<1>4. \A x \in Readers : Stream(x)' = Stream(x)
  BY <1>2, StreamKept
<1>5. \A x \in Readers : joined'[x] = IF x = d THEN taken ELSE joined[x]
  BY <1>2, <1>3
<1>6. Quiet'
  BY <1>2 DEF IndInv, Quiet
<1>7. JoinedPast'
  BY <1>2, <1>3, <1>5 DEF IndInv, JoinedPast
<1>8. Pending'
  BY <1>2 DEF Pending
<1>9. InOrder'
  <2> SUFFICES ASSUME NEW x \in Readers
               PROVE  Within(Stream(x), joined'[x], taken) /\ Increasing(Stream(x))
    BY <1>2, <1>4 DEF InOrder, Within, Increasing
  <2>1. CASE x = d
    <3>1. queue[x] = <<>> /\ received[x] = <<>>
      BY <1>1, <2>1 DEF IndInv, Quiet
    <3>2. Stream(x) = <<>>
      BY <3>1 DEF Stream
    <3> QED
      BY <3>2, EmptyInOrder
  <2>2. CASE x # d
    BY <1>5, <2>2 DEF IndInv, InOrder
  <2> QED
    BY <2>1, <2>2
<1>10. LossOnlyWhenFull'
  <2> SUFFICES ASSUME NEW x \in Readers, NEW m \in 1..MaxMessages, Offered(x, m)'
               PROVE  HasOrFull(Stream(x), m)
    BY <1>4 DEF LossOnlyWhenFull, HasOrFull
  <2>1. x # d
    BY <1>2, <1>3, <1>5 DEF Offered
  <2>2. Offered(x, m)
    BY <1>2, <1>5, <2>1 DEF Offered
  <2> QED
    BY <2>2 DEF IndInv, LossOnlyWhenFull
<1> QED
  BY <1>6, <1>7, <1>8, <1>9, <1>10 DEF StreamInv

LEMMA StreamSelectSource == IndInv /\ SelectSource => StreamInv'
<1> SUFFICES ASSUME IndInv, SelectSource PROVE StreamInv'
  OBVIOUS
<1>1. /\ todo' = listeners
      /\ UNCHANGED <<listeners, queue, joined, received>>
      /\ todo = {}
  BY DEF SelectSource, Selecting
<1>2. taken' = taken + 1
  <2>1. source \in Seq(1..MaxMessages) /\ source # <<>> /\ taken' = Head(source)
    BY DEF IndInv, TypeInv, TypeOK, SelectSource
  <2>2. Head(source) = source[1] /\ 1 \in 1..Len(source)
    BY <2>1
  <2> QED
    BY <2>1, <2>2 DEF IndInv, SourceInOrder
<1>3. joined \in [Readers -> 0..MaxMessages] /\ taken \in Nat /\ listeners \subseteq Readers
  BY DEF IndInv, TypeInv, TypeOK
<1>4. \A x \in Readers : Stream(x)' = Stream(x)
  BY <1>1, StreamKept
<1>5. \A x \in Readers : joined[x] \in Int /\ joined[x] <= taken
  BY <1>3 DEF IndInv, JoinedPast
<1>6. \A x \in Readers : Within(Stream(x), joined[x], taken + 1) /\ Below(Stream(x), taken + 1)
  <2> TAKE x \in Readers
  <2>1. Stream(x) \in Seq(Int)
    BY StreamType DEF IndInv, TypeInv
  <2>2. Within(Stream(x), joined[x], taken)
    BY DEF IndInv, InOrder
  <2>3. taken \in Int /\ joined[x] \in Int
    BY <1>3, <1>5
  <2> QED
    BY <2>1, <2>2, <2>3, WithinGrows, Zenon
<1>7. Quiet'
  BY <1>1 DEF IndInv, Quiet
<1>8. JoinedPast'
  BY <1>1, <1>2, <1>3, <1>5 DEF JoinedPast
<1>9. Pending'
  <2> SUFFICES ASSUME NEW x \in Readers
               PROVE  joined[x] < taken + 1 /\ Below(Stream(x), taken + 1)
    BY <1>1, <1>2, <1>3, <1>4 DEF Pending, Below
  <2>1. joined[x] < taken + 1
    BY <1>3, <1>5
  <2> QED
    BY <1>6, <2>1
<1>10. InOrder'
  <2> SUFFICES ASSUME NEW x \in Readers
               PROVE  Within(Stream(x), joined[x], taken + 1) /\ Increasing(Stream(x))
    BY <1>1, <1>2, <1>4 DEF InOrder, Within, Increasing
  <2> QED
    BY <1>6 DEF IndInv, InOrder
<1>11. LossOnlyWhenFull'
  <2> SUFFICES ASSUME NEW x \in Readers, NEW m \in 1..MaxMessages, Offered(x, m)'
               PROVE  HasOrFull(Stream(x), m)
    BY <1>4 DEF LossOnlyWhenFull, HasOrFull
  <2>1. Offered(x, m)
    BY <1>1, <1>2, <1>3 DEF Offered
  <2> QED
    BY <2>1 DEF IndInv, LossOnlyWhenFull
<1> QED
  BY <1>7, <1>8, <1>9, <1>10, <1>11 DEF StreamInv

LEMMA StreamOfferStep == ASSUME NEW r \in Readers PROVE IndInv /\ Offer(r) => StreamInv'
<1> SUFFICES ASSUME IndInv, Offer(r) PROVE StreamInv'
  OBVIOUS
<1> DEFINE sent == Len(queue[r]) < ReaderCap
<1>1. /\ r \in todo
      /\ todo' = todo \ {r}
      /\ UNCHANGED <<listeners, taken, joined, received>>
  BY DEF Offer
<1>2. /\ joined \in [Readers -> 0..MaxMessages]
      /\ taken \in Nat
      /\ todo \subseteq listeners
      /\ listeners \subseteq Readers
  BY DEF IndInv, TypeInv, TypeOK
<1>3. \A x \in Readers : Stream(x)' = IF x = r /\ sent THEN Append(Stream(x), taken) ELSE Stream(x)
  BY StreamOffer DEF IndInv
<1>4. \A x \in Readers : x # r => queue'[x] = queue[x]
  BY DEF Offer, IndInv, TypeInv, TypeOK
<1>5. /\ Stream(r) \in Seq(Int)
      /\ Len(Stream(r)) >= Len(queue[r])
      /\ taken \in Int
      /\ joined[r] \in Int
      /\ joined[r] < taken
      /\ Below(Stream(r), taken)
      /\ Within(Stream(r), joined[r], taken)
      /\ Increasing(Stream(r))
  <2>1. Stream(r) \in Seq(Int) /\ Len(Stream(r)) >= Len(queue[r])
    BY StreamType DEF IndInv, TypeInv
  <2>2. joined[r] < taken /\ Below(Stream(r), taken)
    BY <1>1 DEF IndInv, Pending
  <2>3. Within(Stream(r), joined[r], taken) /\ Increasing(Stream(r))
    BY DEF IndInv, InOrder
  <2>4. taken \in Int /\ joined[r] \in Int
    BY <1>2
  <2> QED
    BY <2>1, <2>2, <2>3, <2>4
<1>6. Quiet'
  BY <1>1, <1>2, <1>4 DEF IndInv, Quiet
<1>7. JoinedPast'
  BY <1>1 DEF IndInv, JoinedPast
<1>8. Pending'
  <2> SUFFICES ASSUME NEW x \in todo, x # r
               PROVE  joined[x] < taken /\ Below(Stream(x), taken)
    BY <1>1, <1>2, <1>3 DEF Pending, Below
  <2> QED
    BY DEF IndInv, Pending
<1>9. InOrder'
  <2> SUFFICES ASSUME NEW x \in Readers
               PROVE  Within(Stream(x)', joined[x], taken) /\ Increasing(Stream(x)')
    BY <1>1 DEF InOrder, Within, Increasing
  <2>1. CASE x = r /\ sent
    <3>1. Within(Append(Stream(r), taken), joined[r], taken) /\ Increasing(Append(Stream(r), taken))
      BY <1>5, AppendInOrder, Zenon
    <3> QED
      BY <1>3, <2>1, <3>1
  <2>2. CASE ~(x = r /\ sent)
    <3>1. Stream(x)' = Stream(x)
      BY <1>3, <2>2
    <3> QED
      BY <3>1 DEF IndInv, InOrder
  <2> QED
    BY <2>1, <2>2
<1>10. LossOnlyWhenFull'
  <2> SUFFICES ASSUME NEW x \in Readers, NEW m \in 1..MaxMessages, Offered(x, m)'
               PROVE  HasOrFull(Stream(x)', m)
    BY DEF LossOnlyWhenFull, HasOrFull
  <2>0. m \in Int
    OBVIOUS
  <2>1. CASE x # r
    <3>1. Offered(x, m)
      BY <1>1, <2>1 DEF Offered
    <3>2. Stream(x)' = Stream(x)
      BY <1>3, <2>1
    <3> QED
      BY <3>1, <3>2 DEF IndInv, LossOnlyWhenFull
  <2>2. CASE x = r /\ sent
    <3>1. m # taken => Offered(r, m)
      BY <1>1, <2>2 DEF Offered
    <3>2. HasOrFull(Stream(r), m) \/ m = taken
      BY <3>1 DEF IndInv, LossOnlyWhenFull
    <3>3. HasOrFull(Append(Stream(r), taken), m)
      BY <1>5, <2>0, <3>2, AppendHasOrFull, Zenon
    <3> QED
      BY <1>3, <2>2, <3>3
  <2>3. CASE x = r /\ ~sent
    <3>1. Stream(x)' = Stream(r)
      BY <1>3, <2>3
    <3>2. CASE m = taken
      <4>1. Len(Stream(r)) >= ReaderCap
        <5>1. Len(queue[r]) \in Nat /\ Len(Stream(r)) \in Nat
          <6>1. queue[r] \in Seq(1..MaxMessages)
            BY DEF IndInv, TypeInv, TypeOK
          <6>2. Len(queue[r]) \in Nat
            BY <6>1, LenProperties, Zenon
          <6> QED
            BY <6>2, StreamType, Zenon DEF IndInv, TypeInv
        <5>2. \A a, b, c \in Nat : ~(a < c) /\ b >= a => b >= c
          OBVIOUS
        <5> QED
          BY <1>5, <2>3, <5>1, <5>2, CapFacts, Zenon
      <4> QED
        BY <1>5, <3>1, <3>2, <4>1, FullHasOrFull, Zenon
    <3>3. CASE m # taken
      <4>1. Offered(r, m)
        BY <1>1, <2>3, <3>3 DEF Offered
      <4> QED
        BY <3>1, <4>1 DEF IndInv, LossOnlyWhenFull
    <3> QED
      BY <3>2, <3>3
  <2> QED
    BY <2>1, <2>2, <2>3
<1> QED
  BY <1>6, <1>7, <1>8, <1>9, <1>10 DEF StreamInv

LEMMA StreamReceiveStep == ASSUME NEW r \in Readers PROVE IndInv /\ Receive(r) => StreamInv'
<1> SUFFICES ASSUME IndInv, Receive(r) PROVE StreamInv'
  OBVIOUS
<1>1. queue[r] # <<>> /\ UNCHANGED <<listeners, todo, taken, joined>>
  BY DEF Receive
<1>2. \A x \in Readers : Stream(x)' = Stream(x)
  BY StreamReceive DEF IndInv, TypeInv
<1>3. Quiet'
  <2>1. r \in listeners
    BY <1>1 DEF IndInv, Quiet
  <2>2. \A x \in Readers : x # r => queue'[x] = queue[x] /\ received'[x] = received[x]
    BY DEF Receive, IndInv, TypeInv, TypeOK
  <2> QED
    BY <1>1, <2>1, <2>2 DEF IndInv, Quiet
<1>4. JoinedPast'
  BY <1>1 DEF IndInv, JoinedPast
<1>5. Pending'
  <2>1. todo \subseteq Readers
    BY DEF IndInv, TypeInv, TypeOK
  <2> QED
    BY <1>1, <1>2, <2>1 DEF IndInv, Pending, Below
<1>6. InOrder'
  BY <1>1, <1>2 DEF IndInv, InOrder, Within, Increasing
<1>7. LossOnlyWhenFull'
  BY <1>1, <1>2 DEF IndInv, LossOnlyWhenFull, Offered, HasOrFull
<1> QED
  BY <1>3, <1>4, <1>5, <1>6, <1>7 DEF StreamInv

LEMMA StreamOtherStep ==
    IndInv /\ UNCHANGED <<listeners, todo, queue, taken, joined, received>> => StreamInv'
BY DEF IndInv, StreamInv, Quiet, JoinedPast, Pending, Below, InOrder, Within, Increasing,
       LossOnlyWhenFull, Offered, HasOrFull, Stream

-----------------------------------------------------------------------------
LEMMA IndInit == Init => IndInv
<1> SUFFICES ASSUME Init PROVE IndInv
  OBVIOUS
<1>1. /\ \A r \in Readers : queue[r] = <<>> /\ received[r] = <<>> /\ joined[r] = 0
      /\ taken = 0 /\ written = 0 /\ source = <<>> /\ destinations = <<>>
      /\ todo = {} /\ listeners = {}
  BY DEF Init
<1>2. \A r \in Readers : Stream(r) = <<>>
  <2> TAKE r \in Readers
  <2>1. queue[r] = <<>> /\ received[r] = <<>>
    BY <1>1
  <2> QED
    BY <2>1 DEF Stream
<1>3. TypeInv
  BY TypeInit
<1>4. SourceInOrder
  BY <1>1 DEF SourceInOrder
<1>5. Handshake
  BY <1>1 DEF Handshake
<1>6. Quiet /\ JoinedPast /\ Pending
  BY <1>1 DEF Quiet, JoinedPast, Pending
<1>7. InOrder
  BY <1>2, EmptyInOrder, Zenon DEF InOrder
<1>8. LossOnlyWhenFull
  BY <1>1 DEF LossOnlyWhenFull, Offered
<1> QED
  BY <1>3, <1>4, <1>5, <1>6, <1>7, <1>8 DEF IndInv

LEMMA IndStep == IndInv /\ [Next]_vars => IndInv'
<1> SUFFICES ASSUME IndInv, [Next]_vars PROVE IndInv'
  OBVIOUS
<1>1. TypeInv' /\ SourceInOrder' /\ Handshake'
  BY TypeStep, SourceStep, HandshakeStep DEF IndInv
<1>2. StreamInv'
  <2>1. CASE SelectDestination
    BY <2>1, StreamSelectDestination
  <2>2. CASE SelectSource
    BY <2>2, StreamSelectSource
  <2>3. ASSUME NEW r \in Readers, Offer(r) PROVE StreamInv'
    BY <2>3, StreamOfferStep
  <2>4. ASSUME NEW r \in Readers, Receive(r) PROVE StreamInv'
    BY <2>4, StreamReceiveStep
  <2>5. CASE UNCHANGED <<listeners, todo, queue, taken, joined, received>>
    BY <2>5, StreamOtherStep
  <2>6. CASE UNCHANGED vars
    BY <2>5, <2>6 DEF vars
  <2> QED
    BY <2>1, <2>2, <2>3, <2>4, <2>5, <2>6 DEF Next, Listen, Read, Write, Stop, SelectQuit
<1> QED
  BY <1>1, <1>2 DEF IndInv, StreamInv

LEMMA Invariance == SafetySpec => []IndInv
BY IndInit, IndStep, PTL DEF SafetySpec

\* For every number of readers and writers: a reader gets messages in the order
\* of the Write calls, none twice, none from before it became a listener
\* (broker.go:26-38).
THEOREM DeliveryInOrder == SafetySpec => []InOrder
<1>1. IndInv => InOrder
  BY DEF IndInv
<1> QED
  BY <1>1, Invariance, PTL

\* For every capacity: a listener loses a message only behind a full buffer
\* (broker.go:31-34).
THEOREM LossNeedsFullBuffer == SafetySpec => []LossOnlyWhenFull
<1>1. IndInv => LossOnlyWhenFull
  BY DEF IndInv
<1> QED
  BY <1>1, Invariance, PTL

\* No Write call is lost or overtaken on its way to Listen (broker.go:53-55).
THEOREM WritesInOrder == SafetySpec => []SourceInOrder
<1>1. IndInv => SourceInOrder
  BY DEF IndInv
<1> QED
  BY <1>1, Invariance, PTL

-----------------------------------------------------------------------------
(* The refinement *)

StreamOf == [r \in Readers |-> Stream(r)]

LEMMA RefineInit == IndInv /\ Init => Abstract!Init
<1> SUFFICES ASSUME Init PROVE Abstract!Init
  OBVIOUS
<1>1. StreamOf = [r \in Readers |-> <<>>]
  <2>1. \A r \in Readers : Stream(r) = <<>>
    <3> TAKE r \in Readers
    <3>1. queue[r] = <<>> /\ received[r] = <<>>
      BY DEF Init
    <3> QED
      BY <3>1 DEF Stream
  <2> QED
    BY <2>1, Zenon DEF StreamOf
<1> QED
  BY <1>1 DEF Init, Abstract!Init, StreamOf

LEMMA RefineStep == IndInv /\ [Next]_vars => [Abstract!Next]_Abstract!vars
<1> SUFFICES ASSUME IndInv, [Next]_vars PROVE [Abstract!Next]_Abstract!vars
  OBVIOUS
<1>1. ASSUME UNCHANGED <<listeners, taken, joined>>, \A x \in Readers : Stream(x)' = Stream(x)
      PROVE  UNCHANGED Abstract!vars
  <2>1. StreamOf' = StreamOf
    BY <1>1 DEF StreamOf
  <2> QED
    BY <1>1, <2>1 DEF Abstract!vars, StreamOf
<1>2. CASE SelectDestination
  <2> DEFINE d == Head(destinations)
  <2>1. destinations \in Seq(Readers) /\ destinations # <<>>
    BY <1>2 DEF IndInv, TypeInv, TypeOK, SelectDestination
  <2>2. d \in Readers /\ 1 \in 1..Len(destinations) /\ d = destinations[1]
    BY <2>1
  <2>3. d \notin listeners
    BY <2>2 DEF IndInv, Handshake
  <2>4. StreamOf' = StreamOf
    BY <1>2 DEF StreamOf, Stream, SelectDestination
  <2>5. Abstract!Subscribe(d)
    BY <1>2, <2>2, <2>3, <2>4 DEF SelectDestination, Abstract!Subscribe, StreamOf
  <2> QED
    BY <2>2, <2>5 DEF Abstract!Next
<1>3. CASE SelectSource
  <2>1. source \in Seq(1..MaxMessages) /\ source # <<>> /\ taken' = Head(source)
    BY <1>3 DEF IndInv, TypeInv, TypeOK, SelectSource
  <2>2. Head(source) = source[1] /\ 1 \in 1..Len(source)
    BY <2>1
  <2>3. taken' = taken + 1
    BY <2>1, <2>2 DEF IndInv, SourceInOrder
  <2>4. StreamOf' = StreamOf
    BY <1>3 DEF StreamOf, Stream, SelectSource
  <2>5. Abstract!Publish
    BY <1>3, <2>3, <2>4 DEF SelectSource, Abstract!Publish, StreamOf
  <2> QED
    BY <2>5 DEF Abstract!Next
<1>4. ASSUME NEW r \in Readers, Offer(r) PROVE [Abstract!Next]_Abstract!vars
  <2>1. UNCHANGED <<listeners, taken, joined>>
    BY <1>4 DEF Offer
  <2>2. CASE Len(queue[r]) < ReaderCap
    <3>1. r \in listeners /\ taken \in 1..taken
      BY <1>4 DEF Offer, IndInv, TypeInv, TypeOK
    <3>2. joined[r] < taken /\ Below(Stream(r), taken)
      BY <1>4 DEF Offer, IndInv, Pending
    <3>3. \A x \in Readers : Stream(x)' = IF x = r THEN Append(Stream(x), taken) ELSE Stream(x)
      BY <1>4, <2>2, StreamOffer DEF IndInv
    <3>4. StreamOf' = [StreamOf EXCEPT ![r] = Append(@, taken)]
      BY <3>3, Zenon DEF StreamOf
    <3>5. Abstract!NewTo(r, taken)
      <4>1. taken > joined[r] /\ taken <= taken
        <5>1. taken \in Int /\ joined[r] \in Int
          BY DEF IndInv, TypeInv, TypeOK
        <5> QED
          BY <3>2, <5>1
      <4>2. StreamOf[r] = Stream(r)
        BY DEF StreamOf
      <4> QED
        BY <3>2, <4>1, <4>2 DEF Abstract!NewTo, Below, StreamOf
    <3>6. Abstract!Hand(r)
      BY <2>1, <3>1, <3>4, <3>5 DEF Abstract!Hand, StreamOf
    <3> QED
      BY <3>6 DEF Abstract!Next
  <2>3. CASE ~(Len(queue[r]) < ReaderCap)
    <3>1. \A x \in Readers : Stream(x)' = Stream(x)
      BY <1>4, <2>3, StreamOffer DEF IndInv
    <3> QED
      BY <1>1, <2>1, <3>1
  <2> QED
    BY <2>2, <2>3
<1>5. ASSUME NEW r \in Readers, Receive(r) PROVE [Abstract!Next]_Abstract!vars
  <2>1. \A x \in Readers : Stream(x)' = Stream(x)
    BY <1>5, StreamReceive DEF IndInv, TypeInv
  <2>2. UNCHANGED <<listeners, taken, joined>>
    BY <1>5 DEF Receive
  <2> QED
    BY <1>1, <2>1, <2>2
<1>6. CASE UNCHANGED <<listeners, taken, joined, queue, received>>
  BY <1>1, <1>6, StreamKept
<1>7. CASE UNCHANGED vars
  BY <1>6, <1>7 DEF vars
<1> QED
  BY <1>2, <1>3, <1>4, <1>5, <1>6, <1>7 DEF Next, Listen, Read, Write, Stop, SelectQuit

\* The broker with its goroutine, channels and buffers implements the abstract
\* relay: every step of broker.go publishes, subscribes, hands out one message
\* or changes nothing a reader can see.
THEOREM Refinement == SafetySpec => ImplementsLossyBroadcast
BY IndInit, Invariance, RefineInit, RefineStep, PTL
   DEF SafetySpec, ImplementsLossyBroadcast, Abstract!Spec
=============================================================================
