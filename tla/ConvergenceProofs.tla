-------------------------- MODULE ConvergenceProofs --------------------------
(***************************************************************************)
(* For any configurations, images and failures of the engine: a path that  *)
(* no failure, no command and no misread name has touched is run, and      *)
(* announced, exactly as the configuration in hand wants once process has  *)
(* returned.                                                               *)
(*                                                                         *)
(* The argument is made for one path P at a time.  What happens to the     *)
(* images of other paths does not concern it: that is what "do not abort   *)
(* execution here" is for.                                                 *)
(***************************************************************************)
EXTENDS OrchestratorProofs

Of(P) == {id \in Ids : PathOf(id) = P}
ToRemove(P) == OfPath(Range(removed), P)
ToCreate(P) == OfPath(Range(missing), P)

ImagesOnce(images, P) ==
    \A i, j \in DOMAIN images : images[i].name.path = P /\ images[j].name.path = P => i = j
NamesOnce(names, P) ==
    \A i, j \in DOMAIN names : names[i].path = P /\ names[j].path = P => i = j

\* A container of P has been removed, its image not yet.
Gone(P) == pc \in {"removeImage", "unregister"} /\ Image.name.path = P
\* A container has been created that is not yet announced.
Busy == pc \in {"start", "describe", "register"}
Creating(P) == Busy /\ NewImage.name.path = P

\* The first attempt of a removal wants the descriptor; a container in hand was
\* created by this run of the program.
Attempt ==
    /\ pc = "inspect" \/ removed = <<>> => verify = TRUE
    /\ Busy => containers[target].own = TRUE
    /\ pc = "register" => HasBundleConfiguration(NewImage)

-----------------------------------------------------------------------------
(* The invariant of a path, as long as it is not blamed *)

\* Its containers are managed, also by what Containers lists.
Up(P) ==
    \A id \in Of(P) :
        /\ containers[id].kept = FALSE
        /\ containers[id].status = "Up" \/ (pc = "start" /\ id = target)

Sole(P) == \A id, other \in Of(P) : id = other

\* An image to be removed has its container until it is gone; an image to be
\* created has none, or one that is removed before.  Only an image without a
\* descriptor is tried a second time.
Queued(P) ==
    /\ ImagesOnce(removed, P) /\ ImagesOnce(missing, P)
    /\ \A x \in ToRemove(P) : IF Gone(P) THEN Of(P) = {} ELSE \E id \in Of(P) : ImageOf(id) = x
    /\ ToCreate(P) # {} => Creating(P) \/ Of(P) = {} \/ ToRemove(P) # {}
    /\ verify = FALSE /\ removed # <<>> /\ Image.name.path = P => P \notin Described

\* What is still to be done leads to what is wanted.
Converging(P) ==
    applied # NoEntry =>
        OfPath(applied, P) = IF ToCreate(P) # {} THEN ToCreate(P)
                             ELSE IF ToRemove(P) # {} THEN {}
                             ELSE Images(Of(P))

\* The path is announced while a container of this run of the program runs it.
Offered(P) ==
    /\ P \in offers => P \in Described
    /\ ~Gone(P) =>
        (P \in offers <=>
            P \in Described /\ \E id \in Of(P) : containers[id].own = TRUE /\ ~(Busy /\ id = target))

\* No message lists the path twice.
Listed(P) ==
    /\ NamesOnce(config, P)
    /\ snapshot # NoEntry => NamesOnce(snapshot, P)
    /\ \A k \in DOMAIN inbox : inbox[k] # NoEntry => NamesOnce(inbox[k], P)

PathInv(P) ==
    P \notin blamed =>
        /\ Up(P) /\ Offered(P)
        /\ P \notin EnvoyPaths => Sole(P) /\ Queued(P) /\ Converging(P) /\ Listed(P)

-----------------------------------------------------------------------------
(* Lists in which a path occurs once *)

LEMMA TailOfPath ==
    ASSUME NEW s \in Seq(ValidImages), s # <<>>, NEW P
    PROVE  /\ Head(s).name.path # P => OfPath(Range(Tail(s)), P) = OfPath(Range(s), P)
           /\ ImagesOnce(s, P) => ImagesOnce(Tail(s), P)
           /\ ImagesOnce(s, P) /\ Head(s).name.path = P =>
                OfPath(Range(Tail(s)), P) = {} /\ OfPath(Range(s), P) = {Head(s)}
<1>1. /\ Head(s) = s[1] /\ 1 \in DOMAIN s
      /\ \A i \in DOMAIN Tail(s) : i + 1 \in DOMAIN s /\ Tail(s)[i] = s[i + 1]
      /\ \A i \in DOMAIN s : i = 1 \/ (i - 1 \in DOMAIN Tail(s) /\ Tail(s)[i - 1] = s[i])
  BY HeadAndTail
<1>2. DOMAIN s \subseteq Nat \ {0} /\ DOMAIN Tail(s) \subseteq Nat \ {0}
  <2>1. Tail(s) \in Seq(ValidImages)
    BY HeadAndTail
  <2> QED
    BY <2>1, LenProperties
<1>3. Range(s) = {Head(s)} \cup Range(Tail(s))
  <2>1. \A i \in DOMAIN s : s[i] = Head(s) \/ s[i] \in Range(Tail(s))
    BY <1>1 DEF Range
  <2>2. \A i \in DOMAIN Tail(s) : Tail(s)[i] \in Range(s)
    BY <1>1 DEF Range
  <2>3. \A x : x \in Range(s) => x \in {Head(s)} \cup Range(Tail(s))
    BY <2>1 DEF Range
  <2>4. \A x : x \in {Head(s)} \cup Range(Tail(s)) => x \in Range(s)
    BY <1>1, <2>2 DEF Range
  <2> QED
    BY <2>3, <2>4
<1>4. Head(s).name.path # P => OfPath(Range(Tail(s)), P) = OfPath(Range(s), P)
  BY <1>3 DEF OfPath
<1>5. ASSUME ImagesOnce(s, P) PROVE ImagesOnce(Tail(s), P)
  <2> SUFFICES ASSUME NEW i \in DOMAIN Tail(s), NEW j \in DOMAIN Tail(s),
                      Tail(s)[i].name.path = P, Tail(s)[j].name.path = P
               PROVE  i = j
    BY DEF ImagesOnce
  <2>1. i + 1 = j + 1
    BY <1>1, <1>5 DEF ImagesOnce
  <2> QED
    BY <1>2, <2>1
<1>6. ASSUME ImagesOnce(s, P), Head(s).name.path = P
      PROVE  OfPath(Range(Tail(s)), P) = {} /\ OfPath(Range(s), P) = {Head(s)}
  <2>1. ASSUME NEW i \in DOMAIN Tail(s) PROVE Tail(s)[i].name.path # P
    <3>1. i + 1 # 1 /\ i + 1 \in DOMAIN s /\ Tail(s)[i] = s[i + 1]
      BY <1>1, <1>2
    <3> QED
      BY <1>1, <1>6, <3>1 DEF ImagesOnce
  <2>2. OfPath(Range(Tail(s)), P) = {}
    BY <2>1 DEF OfPath, Range
  <2> QED
    BY <1>3, <1>6, <2>2 DEF OfPath
<1> QED
  BY <1>4, <1>5, <1>6

LEMMA SubsequenceOnce ==
    ASSUME NEW s \in Seq(ValidImages), NEW I, I \subseteq DOMAIN s, NEW P, ImagesOnce(s, P)
    PROVE  ImagesOnce(Subsequence(s, I), P)
<1> DEFINE t == Subsequence(s, I)
<1>1. PICK at \in [DOMAIN t -> I] :
            /\ \A k \in DOMAIN t : t[k] = s[at[k]]
            /\ \A k, l \in DOMAIN t : k < l => at[k] < at[l]
  BY SubsequenceProperties
<1>2. t \in Seq(ValidImages)
  BY SubsequenceProperties
<1> HIDE DEF t
<1>3. DOMAIN t \subseteq Nat /\ DOMAIN s \subseteq Nat
  BY <1>2, LenProperties
<1> SUFFICES ASSUME NEW k \in DOMAIN t, NEW l \in DOMAIN t, t[k].name.path = P, t[l].name.path = P
             PROVE  k = l
  BY DEF ImagesOnce, t
<1>4. at[k] = at[l] /\ at[k] \in Nat
  BY <1>1, <1>3 DEF ImagesOnce
<1>5. ~(k < l) /\ ~(l < k)
  BY <1>1, <1>4
<1> QED
  BY <1>3, <1>5

\* What Containers lists are the managed containers, each once.
LEMMA ListProperties ==
    ASSUME TypeInv, NEW ids \in SetToSeqs(ManagedIds)
    PROVE  /\ Range(ExtractImageList(ids)) = Images(ManagedIds)
           /\ \A P : Sole(P) => ImagesOnce(ExtractImageList(ids), P)
<1> DEFINE n == Cardinality(ManagedIds)
           curr == ExtractImageList(ids)
<1>1. /\ DOMAIN curr = DOMAIN ids
      /\ \A i \in DOMAIN ids : ids[i] \in ManagedIds /\ curr[i] = ImageOf(ids[i])
  BY ListType
<1>2. IsFiniteSet(ManagedIds) /\ n \in Nat
  <2>1. IsFiniteSet(ManagedIds)
    BY FS_Subset DEF TypeInv, ManagedIds
  <2> QED
    BY <2>1, FS_CardinalityType
<1>3. ids \in [1..n -> ManagedIds] /\ \A i, j \in 1..n : ids[i] = ids[j] => i = j
  BY DEF SetToSeqs
<1> HIDE DEF n, curr
<1>4. Range(curr) = Images(ManagedIds)
  <2>1. ids \in Injection(1..n, ManagedIds)
    BY <1>3 DEF Injection, IsInjective
  <2>2. Cardinality(1..n) = n
    BY <1>2, FS_Interval
  <2>3. ids \in Surjection(1..n, ManagedIds)
    BY <1>2, <2>1, <2>2, FS_Injection DEF n
  <2>4. \A id \in ManagedIds : \E i \in 1..n : ids[i] = id
    BY <2>3 DEF Surjection
  <2>5. \A x : x \in Range(curr) <=> \E i \in 1..n : x = ImageOf(ids[i])
    BY <1>1, <1>3 DEF Range
  <2> QED
    BY <1>3, <2>4, <2>5 DEF Images
<1>5. ASSUME NEW P, Sole(P) PROVE ImagesOnce(curr, P)
  <2> SUFFICES ASSUME NEW i \in DOMAIN curr, NEW j \in DOMAIN curr,
                      curr[i].name.path = P, curr[j].name.path = P
               PROVE  i = j
    BY DEF ImagesOnce
  <2>1. ids[i] \in Of(P) /\ ids[j] \in Of(P)
    BY <1>1 DEF Of, PathOf, ManagedIds
  <2>2. ids[i] = ids[j]
    BY <1>5, <2>1 DEF Sole
  <2> QED
    BY <1>1, <1>3, <2>2
<1> QED
  BY <1>4, <1>5 DEF curr

\* Of a path that a list holds once, diff remembers what is in the list.
LEMMA OnceIsRemembered ==
    ASSUME NEW a \in Seq(ValidImages), NEW x, ImagesOnce(a, x.name.path)
    PROVE  InMemory(a, x) <=> x \in Range(a)
<1>1. InMemory(a, x) => x \in Range(a)
  BY DEF InMemory, Range
<1>2. ASSUME x \in Range(a) PROVE InMemory(a, x)
  <2>1. \A other \in Range(a) : other.name = x.name => other = x
    BY <1>2 DEF Range, ImagesOnce
  <2> QED
    BY <1>2, <2>1, ListedIsRemembered
<1> QED
  BY <1>1, <1>2

-----------------------------------------------------------------------------
(* The attempt in hand *)

LEMMA AttemptStep == IndInv /\ Attempt /\ [Next]_vars => Attempt'
<1> SUFFICES ASSUME IndInv, Attempt, [Next]_vars PROVE Attempt'
  OBVIOUS
<1>0. /\ TypeInv /\ InHand /\ verify \in BOOLEAN
      /\ pc = "inspect" \/ removed = <<>> => verify = TRUE
      /\ Busy => containers[target].own = TRUE
      /\ pc = "register" => HasBundleConfiguration(NewImage)
  BY DEF IndInv, TypeInv, Attempt
<1>1. ASSUME UNCHANGED <<containers, pc, removed, missing, verify, target>> PROVE Attempt'
  BY <1>0, <1>1 DEF Attempt, Busy, NewImage, HasBundleConfiguration
<1>2. ASSUME pc' \notin {"inspect", "start", "describe", "register"},
             removed' = <<>> => verify' = TRUE
      PROVE  Attempt'
  BY <1>2 DEF Attempt, Busy
<1>3. ASSUME Retry \/ Finished, removed # <<>> PROVE Attempt'
  <2>1. pc' = "next"
    BY <1>0, <1>3, RetryType
  <2>2. removed' = <<>> => verify' = TRUE
    <3>1. CASE Finished
      BY <3>1 DEF Finished
    <3>2. CASE Retry /\ verify = TRUE
      BY <1>3, <3>2 DEF Retry
    <3>3. CASE Retry /\ verify = FALSE
      BY <3>3 DEF Retry, Finished
    <3> QED
      BY <1>0, <1>3, <3>1, <3>2, <3>3
  <2> QED
    BY <1>2, <2>1, <2>2
<1>4. CASE RemoveImageAndContainer
  <2>1. removed # <<>>
    BY <1>0, <1>4 DEF RemoveImageAndContainer, FindContainer, InspectContainer, RemoveContainer, RemoveImage,
                      Unregister, InHand
  <2>2. CASE Retry \/ Finished
    BY <1>3, <2>1, <2>2
  <2>3. ASSUME pc' = IF verify THEN "inspect" ELSE "remove", UNCHANGED <<removed, verify>> PROVE Attempt'
    <3>1. CASE verify = TRUE
      BY <2>1, <2>3, <3>1 DEF Attempt, Busy
    <3>2. CASE verify = FALSE
      BY <1>2, <2>1, <2>3, <3>2
    <3> QED
      BY <1>0, <3>1, <3>2
  <2>4. CASE pc' \in {"remove", "removeImage", "unregister"} /\ UNCHANGED removed
    BY <1>2, <2>1, <2>4
  <2>5. CASE FindContainer
    BY <2>2, <2>3, <2>5, Zenon DEF FindContainer
  <2>6. CASE InspectContainer \/ RemoveContainer \/ RemoveImage \/ Unregister
    BY <2>2, <2>4, <2>6 DEF InspectContainer, RemoveContainer, RemoveImage, Unregister
  <2> QED
    BY <1>4, <2>5, <2>6 DEF RemoveImageAndContainer
<1>5. CASE PullImageAndCreateContainer
  <2>1. removed = <<>> /\ verify' = TRUE
    BY <1>0, <1>5 DEF PullImageAndCreateContainer, CreateContainer, StartContainer, DescribeContainer, Register,
                      InHand
  <2>2. CASE NextImage
    BY <1>2, <2>1, <2>2 DEF NextImage
  <2>3. CASE CreateContainer /\ pc' = "start"
    <3>1. target' = NewId
          /\ containers' = [id \in Ids \cup {NewId} |->
                              IF id = NewId
                              THEN [image |-> NewImage, status |-> "Created", kept |-> FALSE, own |-> TRUE]
                              ELSE containers[id]]
      BY <2>3 DEF CreateContainer, NextImage
    <3>2. containers'[target'].own = TRUE
      BY <3>1
    <3> QED
      BY <2>1, <2>3, <3>2 DEF Attempt
  <2>4. CASE StartContainer /\ pc' = "describe"
    <3>1. target' = target /\ containers' = [containers EXCEPT ![target].status = "Up"] /\ Busy
      BY <2>4 DEF StartContainer, NextImage, Busy
    <3>2. containers'[target'].own = TRUE
      BY <1>0, <3>1 DEF InHand, Busy, Ids, TypeInv, Container
    <3> QED
      BY <2>1, <2>4, <3>2 DEF Attempt
  <2>5. CASE DescribeContainer /\ pc' = "register"
    <3>1. UNCHANGED <<target, containers, missing>> /\ Busy /\ HasBundleConfiguration(NewImage)
      BY <2>5 DEF DescribeContainer, NextImage, Busy
    <3> QED
      BY <1>0, <2>1, <2>5, <3>1 DEF Attempt, NewImage, HasBundleConfiguration
  <2> QED
    BY <1>5, <2>2, <2>3, <2>4, <2>5
    DEF PullImageAndCreateContainer, CreateContainer, StartContainer, DescribeContainer, Register
<1>6. CASE Recv \/ Compare \/ CompareAborts \/ CompareFails \/ Return
  <2>1. pc' \in {"recv", "list", "next", "panicked"} /\ verify' = TRUE
    BY <1>0, <1>6 DEF Recv, Compare, CompareAborts, CompareFails, Return, InHand
  <2> QED
    BY <1>2, <2>1
<1>7. CASE \/ \E images \in Configs : SendDesired(images)
           \/ ReportList \/ ReportSend \/ UNCHANGED vars
  BY <1>1, <1>7 DEF SendDesired, ReportList, ReportSend, vars, callVars
<1>8. ASSUME NEW id \in Ids, StatusStart(id) \/ StatusStop(id) PROVE Attempt'
  <2>1. PICK status : containers' = [containers EXCEPT ![id].status = status]
                      /\ UNCHANGED <<pc, removed, missing, verify, target>>
    BY <1>8 DEF StatusStart, StatusStop, Command, callVars
  <2>2. Busy => containers'[target].own = TRUE
    BY <1>0, <2>1 DEF InHand, Busy, Ids, TypeInv, Container
  <2> QED
    BY <1>0, <2>1, <2>2 DEF Attempt, Busy, NewImage, HasBundleConfiguration
<1> QED
  BY <1>4, <1>5, <1>6, <1>7, <1>8 DEF Next, process

-----------------------------------------------------------------------------
(* Steps that leave a path alone *)

InWork(id) == Busy /\ id = target

\* Nothing has changed that the invariant of the path speaks of.
LEMMA Untouched ==
    ASSUME NEW P, PathInv(P), P \notin blamed,
           Of(P)' = Of(P), \A id \in Of(P) : containers'[id] = containers[id],
           ToRemove(P)' = ToRemove(P), ToCreate(P)' = ToCreate(P),
           ImagesOnce(removed, P) => ImagesOnce(removed', P),
           ImagesOnce(missing, P) => ImagesOnce(missing', P),
           Gone(P)' <=> Gone(P), Creating(P)' <=> Creating(P),
           \A id \in Of(P) : /\ InWork(id)' <=> InWork(id)
                             /\ pc = "start" /\ id = target => pc' = "start" /\ id = target',
           verify' = FALSE /\ removed' # <<>> /\ Image'.name.path = P =>
                P \notin Described \/ (verify = FALSE /\ removed # <<>> /\ Image.name.path = P),
           P \in offers' <=> P \in offers, applied' = applied,
           P \notin EnvoyPaths => Listed(P)'
    PROVE  PathInv(P)'
<1>1. Up(P)'
  <2>1. Up(P)
    BY DEF PathInv
  <2> QED
    BY <2>1 DEF Up
<1>2. Offered(P)'
  <2>1. Offered(P)
    BY DEF PathInv
  <2>2. \A id \in Of(P) : containers'[id].own = containers[id].own /\ (InWork(id)' <=> InWork(id))
    OBVIOUS
  <2> QED
    BY <2>1, <2>2 DEF Offered, InWork
<1>3. ASSUME P \notin EnvoyPaths PROVE Sole(P)' /\ Queued(P)' /\ Converging(P)'
  <2>1. Sole(P) /\ Queued(P) /\ Converging(P)
    BY <1>3 DEF PathInv
  <2>2. \A id \in Of(P) : ImageOf(id)' = ImageOf(id)
    BY DEF ImageOf
  <2>3. Images(Of(P))' = Images(Of(P))
    BY <2>2 DEF Images
  <2>4. Sole(P)'
    BY <2>1 DEF Sole
  <2>5. Queued(P)'
    <3>1. ImagesOnce(removed, P)' /\ ImagesOnce(missing, P)'
      BY <2>1 DEF Queued, ImagesOnce
    <3>2. \A x \in ToRemove(P) : IF Gone(P) THEN Of(P) = {} ELSE \E id \in Of(P) : ImageOf(id) = x
      BY <2>1 DEF Queued
    <3>3. (\A x \in ToRemove(P) : IF Gone(P) THEN Of(P) = {} ELSE \E id \in Of(P) : ImageOf(id) = x)'
      BY <2>2, <3>2
    <3>4. (ToCreate(P) # {} => Creating(P) \/ Of(P) = {} \/ ToRemove(P) # {})'
      BY <2>1 DEF Queued
    <3>5. (verify = FALSE /\ removed # <<>> /\ Image.name.path = P => P \notin Described)'
      BY <2>1 DEF Queued
    <3> QED
      BY <3>1, <3>3, <3>4, <3>5 DEF Queued
  <2>6. Converging(P)'
    <3>1. (applied # NoEntry)' => OfPath(applied, P) = IF ToCreate(P) # {} THEN ToCreate(P)
                             ELSE IF ToRemove(P) # {} THEN {}
                             ELSE Images(Of(P))
      BY <2>1 DEF Converging
    <3> QED
      BY <2>3, <3>1 DEF Converging
  <2> QED
    BY <2>4, <2>5, <2>6
<1> QED
  BY <1>1, <1>2, <1>3 DEF PathInv

\* Nothing changes that process has in hand, nor a container of the path.
LEMMA UntouchedOutside ==
    ASSUME IndInv, NEW P, PathInv(P), P \notin blamed,
           UNCHANGED <<removed, missing, verify, target, offers, applied>>,
           pc' = pc \/ (~Busy /\ ~Busy' /\ {pc, pc'} \subseteq {"recv", "list", "next", "panicked"}),
           Of(P)' = Of(P), \A id \in Of(P) : containers'[id] = containers[id],
           P \notin EnvoyPaths => Listed(P)'
    PROVE  PathInv(P)'
<1>1. ToRemove(P)' = ToRemove(P) /\ ToCreate(P)' = ToCreate(P)
  BY DEF ToRemove, ToCreate, OfPath
<1>2. Image' = Image /\ NewImage' = NewImage
  BY DEF Image, NewImage
<1>3. (Gone(P)' <=> Gone(P)) /\ (Creating(P)' <=> Creating(P)) /\ (Busy' <=> Busy)
  BY <1>2 DEF Gone, Creating, Busy
<1>4. \A id \in Of(P) : /\ InWork(id)' <=> InWork(id)
                        /\ pc = "start" /\ id = target => pc' = "start" /\ id = target'
  BY <1>3 DEF InWork, Busy
<1> QED
  BY <1>1, <1>2, <1>3, <1>4, Untouched

\* A removal of another image.
LEMMA UntouchedRemoval ==
    ASSUME IndInv, NEW P, PathInv(P), P \notin blamed,
           removed # <<>>, Image.name.path # P, CallStep, UNCHANGED missing,
           ~Busy, ~Busy', P \in offers' <=> P \in offers,
           Of(P)' = Of(P), \A id \in Of(P) : containers'[id] = containers[id],
           removed' = removed \/ (removed' = Tail(removed) /\ verify' = TRUE /\ pc' = "next")
    PROVE  PathInv(P)'
<1>1. removed \in Seq(ValidImages)
  BY DEF IndInv, TypeInv
<1>2. ToRemove(P)' = ToRemove(P) /\ (ImagesOnce(removed, P) => ImagesOnce(removed', P))
  <2>1. /\ OfPath(Range(Tail(removed)), P) = OfPath(Range(removed), P)
        /\ ImagesOnce(removed, P) => ImagesOnce(Tail(removed), P)
    BY <1>1, TailOfPath DEF Image
  <2>2. removed' = removed \/ removed' = Tail(removed)
    OBVIOUS
  <2> QED
    BY <2>1, <2>2 DEF ToRemove
<1>3. ToCreate(P)' = ToCreate(P)
  BY DEF ToCreate, OfPath
<1>4. ~Gone(P) /\ ~Gone(P)' /\ ~Creating(P) /\ ~Creating(P)'
  BY DEF Gone, Creating, Image
<1>5. \A id \in Of(P) : ~InWork(id) /\ ~InWork(id)' /\ pc # "start"
  BY DEF InWork, Busy
<1>6. ~(verify' = FALSE /\ removed' # <<>> /\ Image'.name.path = P)
  BY DEF Image
<1>7. applied' = applied /\ (P \notin EnvoyPaths => Listed(P)')
  BY DEF CallStep, reportVars, PathInv, Listed
<1> QED
  BY <1>2, <1>3, <1>4, <1>5, <1>6, <1>7, Untouched

\* An installation of another image.
LEMMA UntouchedCreation ==
    ASSUME IndInv, NEW P, PathInv(P), P \notin blamed,
           missing # <<>>, NewImage.name.path # P, removed = <<>>, CallStep, UNCHANGED <<removed, verify>>,
           pc \in {"next", "start", "describe", "register"}, pc' \in {"next", "start", "describe", "register"},
           P \in offers' <=> P \in offers,
           Of(P)' = Of(P), \A id \in Of(P) : containers'[id] = containers[id],
           missing' = missing \/ (missing' = Tail(missing) /\ pc' = "next"),
           \A id \in Of(P) : (Busy => id # target) /\ (Busy' => id # target')
    PROVE  PathInv(P)'
<1>1. missing \in Seq(ValidImages)
  BY DEF IndInv, TypeInv
<1>2. ToCreate(P)' = ToCreate(P) /\ (ImagesOnce(missing, P) => ImagesOnce(missing', P))
  <2>1. /\ OfPath(Range(Tail(missing)), P) = OfPath(Range(missing), P)
        /\ ImagesOnce(missing, P) => ImagesOnce(Tail(missing), P)
    BY <1>1, TailOfPath DEF NewImage
  <2>2. missing' = missing \/ missing' = Tail(missing)
    OBVIOUS
  <2> QED
    BY <2>1, <2>2 DEF ToCreate
<1>3. ToRemove(P)' = ToRemove(P)
  BY DEF ToRemove, OfPath
<1>4. ~Gone(P) /\ ~Gone(P)' /\ ~Creating(P) /\ ~Creating(P)'
  BY DEF Gone, Creating, NewImage, Busy
<1>5. \A id \in Of(P) : ~InWork(id) /\ ~InWork(id)' /\ ~(pc = "start" /\ id = target)
  BY DEF InWork, Busy
<1>6. applied' = applied /\ (P \notin EnvoyPaths => Listed(P)')
  BY DEF CallStep, reportVars, PathInv, Listed
<1> QED
  BY <1>2, <1>3, <1>4, <1>5, <1>6, Untouched

-----------------------------------------------------------------------------
(* The removal of an image of the path *)

\* The path of an image to be removed is not Envoy's; it is the only one to be removed.
LEMMA RemovalInHand ==
    ASSUME IndInv, NEW P, PathInv(P), P \notin blamed, removed # <<>>, Image.name.path = P
    PROVE  /\ P \notin EnvoyPaths /\ ToRemove(P) = {Image} /\ OfPath(Range(Tail(removed)), P) = {}
           /\ ImagesOnce(Tail(removed), P)
<1>1. removed \in Seq(ValidImages)
  BY DEF IndInv, TypeInv
<1>2. P \notin EnvoyPaths
  <2>1. Image = removed[1] /\ 1 \in DOMAIN removed
    BY <1>1, HeadAndTail DEF Image
  <2> QED
    BY <2>1 DEF IndInv, Unwanted, IsEnvoy
<1>3. ImagesOnce(removed, P)
  BY <1>2 DEF PathInv, Queued
<1> QED
  BY <1>1, <1>2, <1>3, TailOfPath DEF ToRemove, Image

\* The image stays in hand and its container, too.
LEMMA RemovalGoesOn ==
    ASSUME IndInv, NEW P, PathInv(P), P \notin blamed, removed # <<>>, Image.name.path = P,
           CallStep, UNCHANGED <<containers, removed, missing, offers>>,
           pc \in {"next", "inspect", "remove"}, pc' \in {"next", "inspect", "remove"},
           verify' = FALSE => verify = FALSE \/ P \notin Described
    PROVE  PathInv(P)'
<1>1. ToRemove(P)' = ToRemove(P) /\ ToCreate(P)' = ToCreate(P) /\ Image' = Image
  BY DEF ToRemove, ToCreate, OfPath, Image
<1>2. ~Busy /\ ~Busy' /\ ~Gone(P) /\ ~Gone(P)'
  BY DEF Busy, Gone
<1>3. Of(P)' = Of(P)
  BY DEF Of, Ids, PathOf, ImageOf
<1>4. \A id \in Of(P) : ~InWork(id) /\ ~InWork(id)' /\ pc # "start"
  BY <1>2 DEF InWork
<1>5. applied' = applied /\ (P \notin EnvoyPaths => Listed(P)')
  BY DEF CallStep, reportVars, PathInv, Listed
<1>6. ~Creating(P) /\ ~Creating(P)'
  BY <1>2 DEF Creating
<1> QED
  BY <1>1, <1>2, <1>3, <1>4, <1>5, <1>6, Untouched

\* The image is done with: none of its containers is left, nor is it announced.
LEMMA RemovalEnds ==
    ASSUME IndInv, NEW P, PathInv(P), P \notin blamed, removed # <<>>, Image.name.path = P,
           CallStep, UNCHANGED <<containers, missing>>, Finished, Of(P) = {}, P \notin offers'
    PROVE  PathInv(P)'
<1>1. /\ P \notin EnvoyPaths /\ ToRemove(P) = {Image} /\ OfPath(Range(Tail(removed)), P) = {}
      /\ ImagesOnce(Tail(removed), P)
  BY RemovalInHand
<1>2. removed' = Tail(removed) /\ verify' = TRUE /\ pc' = "next"
  BY DEF Finished
<1>3. Of(P)' = {} /\ ToRemove(P)' = {} /\ ToCreate(P)' = ToCreate(P)
  BY <1>1, <1>2 DEF Of, Ids, PathOf, ImageOf, ToRemove, ToCreate
<1>4. ~Gone(P)' /\ ImagesOnce(removed, P)'
  BY <1>1, <1>2 DEF Gone, ImagesOnce
<1>5. applied' = applied /\ Listed(P)'
  BY <1>1 DEF CallStep, reportVars, PathInv, Listed
<1>6. Up(P)' /\ Sole(P)' /\ Offered(P)'
  BY <1>3 DEF Up, Sole, Offered
<1>7. Queued(P)'
  <2>1. ImagesOnce(missing, P)'
    BY <1>1 DEF PathInv, Queued, ImagesOnce
  <2> QED
    BY <1>2, <1>3, <1>4, <2>1 DEF Queued
<1>8. Converging(P)'
  <2>1. applied # NoEntry => OfPath(applied, P) = IF ToCreate(P) # {} THEN ToCreate(P) ELSE {}
    BY <1>1 DEF PathInv, Converging
  <2>2. Images(Of(P))' = {}
    BY <1>3 DEF Images
  <2> QED
    BY <1>3, <1>5, <2>1, <2>2 DEF Converging
<1> QED
  BY <1>5, <1>6, <1>7, <1>8 DEF PathInv

LEMMA RemovalOfPath ==
    ASSUME IndInv, Attempt, NEW P, PathInv(P), RemoveImageAndContainer, P \notin blamed', Image.name.path = P
    PROVE  PathInv(P)'
<1>0. /\ TypeInv /\ InHand /\ verify \in BOOLEAN /\ CallStep /\ UNCHANGED missing
      /\ removed # <<>> /\ ~EngineFails(P) /\ ~Busy /\ P \notin blamed
  <2>1. TypeInv /\ InHand /\ verify \in BOOLEAN
    BY DEF IndInv, TypeInv
  <2>2. CallStep /\ UNCHANGED missing /\ removed # <<>> /\ ~Busy
    BY <2>1 DEF RemoveImageAndContainer, FindContainer, InspectContainer, RemoveContainer, RemoveImage,
                Unregister, InHand, Busy
  <2>3. ~EngineFails(P)
    BY DEF EngineFails
  <2>4. blamed \subseteq blamed'
    BY DEF RemoveImageAndContainer, FindContainer, InspectContainer, RemoveContainer, RemoveImage, Unregister,
           EngineWorks, EngineFails
  <2> QED
    BY <2>1, <2>2, <2>3, <2>4
<1>1. P \notin EnvoyPaths /\ ToRemove(P) = {Image}
  BY <1>0, RemovalInHand
<1>2. Up(P) /\ Sole(P) /\ Queued(P) /\ Converging(P) /\ Listed(P) /\ Offered(P)
  BY <1>0, <1>1 DEF PathInv
<1>3. verify = FALSE => P \notin Described
  BY <1>0, <1>2 DEF Queued
<1>4. CASE FindContainer
  <2>1. pc = "next" /\ UNCHANGED <<containers, offers>>
    BY <1>4 DEF FindContainer
  <2>2. PICK id \in Of(P) : ImageOf(id) = Image
    <3>1. ~Gone(P)
      BY <2>1 DEF Gone
    <3> QED
      BY <1>1, <1>2, <3>1 DEF Queued
  <2>3. id \in Ids /\ containers[id].status = "Up"
    BY <1>2, <2>1, <2>2 DEF Up, Of
  <2>4. {i \in Ids : ImageOf(i) = Image /\ containers[i].status = "Up"} # {}
    BY <2>2, <2>3
  <2>5. pc' = (IF verify THEN "inspect" ELSE "remove") /\ UNCHANGED <<removed, verify>>
    BY <1>0, <1>4, <2>4, Zenon DEF FindContainer
  <2> QED
    BY <1>0, <1>3, <2>1, <2>5, RemovalGoesOn
<1>5. CASE InspectContainer
  <2>1. pc = "inspect" /\ UNCHANGED <<containers, offers>> /\ verify = TRUE
    BY <1>5 DEF InspectContainer, Attempt
  <2>2. CASE pc' = "remove" /\ UNCHANGED <<removed, verify>>
    BY <1>0, <2>1, <2>2, RemovalGoesOn
  <2>3. CASE ~HasBundleConfiguration(Image) /\ Retry
    <3>1. P \notin Described
      BY <2>3 DEF HasBundleConfiguration
    <3>2. verify' = FALSE /\ pc' = "next" /\ UNCHANGED removed
      BY <2>1, <2>3, Zenon DEF Retry
    <3> QED
      BY <1>0, <2>1, <3>1, <3>2, RemovalGoesOn
  <2> QED
    BY <1>0, <1>5, <2>2, <2>3 DEF InspectContainer
<1>6. CASE RemoveContainer
  <2>1. /\ pc = "remove" /\ UNCHANGED offers
        /\ containers' = [id \in Ids \ {target} |-> containers[id]] /\ pc' = "removeImage"
        /\ UNCHANGED <<removed, verify>>
    BY <1>0, <1>6 DEF RemoveContainer
  <2>2. target \in Of(P)
    BY <1>0, <2>1 DEF InHand, Of, PathOf
  <2>3. Of(P)' = {}
    <3>1. \A id \in Of(P) : id = target
      BY <1>2, <2>2 DEF Sole
    <3>2. Ids' = Ids \ {target} /\ \A id \in Ids' : containers'[id] = containers[id]
      BY <2>1 DEF Ids
    <3> QED
      BY <3>1, <3>2 DEF Of, PathOf, ImageOf
  <2>4. /\ Gone(P)' /\ Image' = Image /\ ToRemove(P)' = ToRemove(P) /\ ToCreate(P)' = ToCreate(P)
    BY <1>0, <2>1 DEF Gone, Image, ToRemove, ToCreate, OfPath
  <2>5. Up(P)' /\ Sole(P)' /\ Offered(P)'
    BY <1>2, <2>1, <2>3, <2>4 DEF Up, Sole, Offered
  <2>6. Queued(P)'
    <3>1. ImagesOnce(removed, P)' /\ ImagesOnce(missing, P)'
      BY <1>0, <1>2, <2>1 DEF Queued, ImagesOnce
    <3> QED
      BY <1>2, <2>1, <2>3, <2>4, <3>1 DEF Queued
  <2>7. applied' = applied /\ Listed(P)'
    BY <1>0, <1>2 DEF CallStep, reportVars, Listed
  <2>8. Converging(P)'
    BY <1>1, <1>2, <2>4, <2>7 DEF Converging
  <2> QED
    BY <2>5, <2>6, <2>7, <2>8 DEF PathInv
<1>7. ASSUME pc \in {"removeImage", "unregister"} PROVE Of(P) = {} /\ Gone(P)
  <2>1. Gone(P)
    BY <1>7 DEF Gone
  <2> QED
    BY <1>1, <1>2, <2>1 DEF Queued
<1>8. CASE RemoveImage
  <2>1. pc = "removeImage" /\ UNCHANGED <<containers, target, offers>>
    BY <1>8 DEF RemoveImage
  <2>2. ~\E id \in Ids : ImageOf(id) = Image /\ containers[id].status = "Up"
    BY <1>7, <2>1 DEF Of, PathOf
  <2>3. IF verify THEN pc' = "unregister" /\ UNCHANGED <<removed, verify>> ELSE Finished
    BY <1>0, <1>8, <2>2, Zenon DEF RemoveImage
  <2>4. CASE verify = FALSE
    <3>1. P \notin offers'
      BY <1>2, <1>3, <2>1, <2>4 DEF Offered
    <3>2. Finished
      BY <2>3, <2>4, Zenon
    <3> QED
      BY <1>0, <1>7, <2>1, <3>1, <3>2, RemovalEnds
  <2>5. CASE verify = TRUE
    <3>1. pc' = "unregister" /\ UNCHANGED <<removed, verify>>
      BY <2>3, <2>5, Zenon
    <3>2. ToRemove(P)' = ToRemove(P) /\ ToCreate(P)' = ToCreate(P) /\ Image' = Image /\ Of(P)' = Of(P)
      BY <1>0, <2>1, <3>1 DEF ToRemove, ToCreate, OfPath, Image, Of, Ids, PathOf, ImageOf
    <3>3. Gone(P) /\ Gone(P)' /\ ~Busy'
      BY <1>7, <2>1, <3>1, <3>2 DEF Gone, Busy
    <3>4. ~Creating(P) /\ ~Creating(P)'
      BY <1>0, <3>3 DEF Creating
    <3>5. applied' = applied /\ Listed(P)'
      BY <1>0, <1>2 DEF CallStep, reportVars, Listed
    <3> QED
      BY <1>0, <1>7, <2>1, <2>5, <3>1, <3>2, <3>3, <3>4, <3>5, Untouched
  <2> QED
    BY <1>0, <2>4, <2>5
<1>9. CASE Unregister
  <2>1. pc = "unregister" /\ UNCHANGED containers /\ Finished /\ P \notin offers'
    BY <1>9 DEF Unregister
  <2> QED
    BY <1>0, <1>7, <2>1, RemovalEnds
<1> QED
  BY <1>4, <1>5, <1>6, <1>8, <1>9 DEF RemoveImageAndContainer

\* A removal, whatever its outcome, affects its own path only.
LEMMA RemovalElsewhere ==
    ASSUME IndInv, NEW P, PathInv(P), P \notin blamed, RemoveImageAndContainer, Image.name.path # P
    PROVE  PathInv(P)'
<1>0. TypeInv /\ InHand /\ verify \in BOOLEAN
  BY DEF IndInv, TypeInv
<1>1. CallStep /\ UNCHANGED missing /\ removed # <<>> /\ ~Busy
  BY <1>0 DEF RemoveImageAndContainer, FindContainer, InspectContainer, RemoveContainer, RemoveImage,
              Unregister, InHand, Busy
<1>2. removed' = removed \/ (removed' = Tail(removed) /\ verify' = TRUE /\ pc' = "next")
  <2>1. ASSUME Retry \/ Finished
        PROVE  removed' = removed \/ (removed' = Tail(removed) /\ verify' = TRUE /\ pc' = "next")
    BY <2>1, Zenon DEF Retry, Finished
  <2> QED
    BY <2>1 DEF RemoveImageAndContainer, FindContainer, InspectContainer, RemoveContainer, RemoveImage, Unregister
<1>3. ~Busy'
  <2>1. pc' \in {"next", "inspect", "remove", "removeImage", "unregister"}
    BY <1>0, RetryType DEF RemoveImageAndContainer, FindContainer, InspectContainer, RemoveContainer, RemoveImage,
                           Unregister
  <2> QED
    BY <2>1 DEF Busy
<1>4. P \in offers' <=> P \in offers
  BY DEF RemoveImageAndContainer, FindContainer, InspectContainer, RemoveContainer, RemoveImage, Unregister
<1>5. Of(P)' = Of(P) /\ \A id \in Of(P) : containers'[id] = containers[id]
  <2>1. CASE UNCHANGED containers
    BY <2>1 DEF Of, Ids, PathOf, ImageOf
  <2>2. CASE pc = "remove" /\ containers' = [id \in Ids \ {target} |-> containers[id]]
    <3>1. target \in Ids /\ PathOf(target) # P
      BY <1>0, <2>2 DEF InHand, PathOf
    <3>2. Ids' = Ids \ {target} /\ \A id \in Ids' : containers'[id] = containers[id]
      BY <2>2 DEF Ids
    <3> QED
      BY <3>1, <3>2 DEF Of, PathOf, ImageOf
  <2> QED
    BY <2>1, <2>2 DEF RemoveImageAndContainer, FindContainer, InspectContainer, RemoveContainer, RemoveImage,
                      Unregister
<1> QED
  BY <1>1, <1>2, <1>3, <1>4, <1>5, UntouchedRemoval

-----------------------------------------------------------------------------
(* The installation of an image of the path *)

\* The image is done with: its container runs.
LEMMA CreationEnds ==
    ASSUME IndInv, NEW P, PathInv(P), P \notin blamed, NewImage.name.path = P,
           pc \in {"describe", "register"}, CallStep, NextImage, UNCHANGED <<containers, removed, verify>>,
           P \in offers' => P \in Described,
           P \in Described => P \in offers' /\ containers[target].own = TRUE
    PROVE  PathInv(P)'
<1>1. /\ missing \in Seq(ValidImages) /\ missing # <<>> /\ removed = <<>>
      /\ target \in Ids /\ ImageOf(target) = NewImage
  BY DEF IndInv, TypeInv, InHand
<1>2. missing' = Tail(missing) /\ pc' = "next" /\ ~Gone(P)' /\ ~Busy' /\ Of(P)' = Of(P) /\ target \in Of(P)
  BY <1>1 DEF NextImage, Gone, Busy, Of, Ids, PathOf, ImageOf
<1>3. Up(P)' /\ Offered(P)'
  <2>1. Up(P) /\ Offered(P)
    BY DEF PathInv
  <2>2. Up(P)'
    BY <1>2, <2>1 DEF Up
  <2>3. P \in Described => \E id \in Of(P)' : containers'[id].own = TRUE /\ ~(Busy' /\ id = target')
    BY <1>2
  <2> QED
    BY <1>2, <2>2, <2>3 DEF Offered
<1>4. ASSUME P \notin EnvoyPaths PROVE Sole(P)' /\ Queued(P)' /\ Converging(P)' /\ Listed(P)'
  <2>1. Sole(P) /\ Queued(P) /\ Converging(P) /\ Listed(P)
    BY <1>4 DEF PathInv
  <2>2. /\ OfPath(Range(Tail(missing)), P) = {} /\ OfPath(Range(missing), P) = {NewImage}
        /\ ImagesOnce(Tail(missing), P)
    BY <1>1, <2>1, TailOfPath DEF Queued, NewImage
  <2>3. ToCreate(P)' = {} /\ ToCreate(P) = {NewImage} /\ ToRemove(P)' = {} /\ ImagesOnce(missing, P)'
    BY <1>1, <1>2, <2>2 DEF ToCreate, ToRemove, OfPath, Range, ImagesOnce
  <2>4. Images(Of(P))' = {NewImage}
    <3>1. Of(P)' = {target}
      BY <1>2, <2>1 DEF Sole
    <3>2. containers'[target].image = NewImage
      BY <1>1 DEF ImageOf
    <3>3. \A x : x \in Images(Of(P))' <=> \E id \in {target} : x = containers'[id].image
      BY <3>1 DEF Images, ImageOf
    <3> QED
      BY <3>2, <3>3
  <2>5. Sole(P)'
    BY <1>2, <2>1 DEF Sole
  <2>6. Queued(P)'
    <3>1. removed' = <<>> /\ ImagesOnce(removed, P)'
      BY <1>1 DEF ImagesOnce
    <3> QED
      BY <2>3, <3>1 DEF Queued
  <2>7. applied' = applied /\ Listed(P)'
    BY <2>1 DEF CallStep, reportVars, Listed
  <2>8. Converging(P)'
    BY <2>1, <2>3, <2>4, <2>7 DEF Converging
  <2> QED
    BY <2>5, <2>6, <2>7, <2>8
<1> QED
  BY <1>3, <1>4 DEF PathInv

LEMMA CreationOfPath ==
    ASSUME IndInv, Attempt, NEW P, PathInv(P), PullImageAndCreateContainer, P \notin blamed', NewImage.name.path = P
    PROVE  PathInv(P)'
<1>0. /\ TypeInv /\ InHand /\ missing # <<>> /\ removed = <<>> /\ CallStep /\ UNCHANGED <<removed, verify>>
      /\ ~EngineFails(P) /\ ~EngineRefuses(P) /\ P \notin blamed /\ missing \in Seq(ValidImages)
      /\ pc \in {"next", "start", "describe", "register"}
  <2>1. TypeInv /\ InHand /\ missing \in Seq(ValidImages)
    BY DEF IndInv, TypeInv
  <2>2. /\ missing # <<>> /\ removed = <<>> /\ CallStep /\ UNCHANGED <<removed, verify>>
        /\ pc \in {"next", "start", "describe", "register"}
    BY <2>1 DEF PullImageAndCreateContainer, CreateContainer, StartContainer, DescribeContainer, Register, InHand
  <2>3. ~EngineFails(P) /\ ~EngineRefuses(P)
    BY DEF EngineFails, EngineRefuses
  <2>4. blamed \subseteq blamed'
    BY DEF PullImageAndCreateContainer, CreateContainer, StartContainer, DescribeContainer, Register,
           EngineWorks, EngineFails, EngineRefuses
  <2> QED
    BY <2>1, <2>2, <2>3, <2>4
<1>1. ~Gone(P) /\ ToRemove(P) = {} /\ NewImage \in ToCreate(P)
  <2>1. NewImage \in Range(missing)
    BY <1>0, HeadAndTail DEF NewImage, Range
  <2> QED
    BY <1>0, <2>1 DEF Gone, ToRemove, ToCreate, OfPath, Range
<1>2. Up(P) /\ Offered(P)
  BY <1>0 DEF PathInv
<1>3. ASSUME P \notin EnvoyPaths PROVE Sole(P) /\ Queued(P) /\ Converging(P) /\ Listed(P)
  BY <1>0, <1>3 DEF PathInv
<1>4. applied' = applied /\ (P \notin EnvoyPaths => Listed(P)')
  BY <1>0, <1>3 DEF CallStep, reportVars, Listed
<1>5. CASE CreateContainer
  <2> DEFINE new == [image |-> NewImage, status |-> "Created", kept |-> FALSE, own |-> TRUE]
  <2>1. /\ pc = "next" /\ target' = NewId /\ pc' = "start" /\ UNCHANGED <<missing, offers>>
        /\ containers' = [id \in Ids \cup {NewId} |-> IF id = NewId THEN new ELSE containers[id]]
    BY <1>0, <1>5 DEF CreateContainer
  <2>2. new.image = NewImage /\ new.kept = FALSE
    OBVIOUS
  <2> HIDE DEF new
  <2>3. NewId \notin Ids
    BY <1>0, NewIdIsNew
  <2>4. /\ Ids' = Ids \cup {NewId} /\ containers'[NewId] = new
        /\ \A id \in Ids : containers'[id] = containers[id]
    BY <2>1, <2>3 DEF Ids
  <2>5. Of(P)' = Of(P) \cup {NewId} /\ NewId \notin Of(P)
    BY <2>2, <2>3, <2>4 DEF Of, PathOf, ImageOf
  <2>6. \A id \in Of(P) : containers'[id] = containers[id] /\ id # NewId
    BY <2>4, <2>5 DEF Of
  <2>7. Busy' /\ ~Busy /\ ~Gone(P)' /\ NewImage' = NewImage /\ Creating(P)'
    BY <2>1 DEF Busy, Gone, NewImage, Creating
  <2>8. Up(P)'
    BY <1>2, <2>1, <2>2, <2>4, <2>5, <2>6 DEF Up
  <2>9. Offered(P)'
    <3>1. P \in offers => P \in Described
      BY <1>2 DEF Offered
    <3>2. P \in offers <=> P \in Described /\ \E id \in Of(P) : containers[id].own = TRUE
      BY <1>1, <1>2, <2>7 DEF Offered
    <3>3. (\E id \in Of(P)' : containers'[id].own = TRUE /\ ~(Busy' /\ id = target'))
            <=> \E id \in Of(P) : containers[id].own = TRUE
      BY <2>1, <2>5, <2>6, <2>7
    <3> QED
      BY <2>1, <3>1, <3>2, <3>3 DEF Offered
  <2>10. ToRemove(P)' = ToRemove(P) /\ ToCreate(P)' = ToCreate(P)
    BY <1>0, <2>1 DEF ToRemove, ToCreate, OfPath
  <2>11. ASSUME P \notin EnvoyPaths PROVE Sole(P)' /\ Queued(P)' /\ Converging(P)'
    <3>1. Sole(P) /\ Queued(P) /\ Converging(P)
      BY <1>3, <2>11
    <3>2. Of(P) = {}
      BY <1>1, <2>7, <3>1 DEF Queued, Creating
    <3>3. Sole(P)'
      BY <2>5, <3>2 DEF Sole
    <3>4. Queued(P)'
      <4>1. ImagesOnce(removed, P)' /\ ImagesOnce(missing, P)' /\ removed' = <<>>
        BY <1>0, <2>1, <3>1 DEF Queued, ImagesOnce
      <4> QED
        BY <1>1, <2>7, <2>10, <4>1 DEF Queued
    <3>5. Converging(P)'
      BY <1>1, <1>4, <2>10, <3>1 DEF Converging
    <3> QED
      BY <3>3, <3>4, <3>5
  <2> QED
    BY <1>4, <2>8, <2>9, <2>11 DEF PathInv
<1>6. ASSUME pc # "next" PROVE target \in Of(P) /\ ImageOf(target) = NewImage /\ Busy /\ Creating(P)
  BY <1>0, <1>6 DEF InHand, Of, PathOf, Busy, Creating
<1>7. CASE StartContainer
  <2>1. /\ pc = "start" /\ pc' = "describe" /\ UNCHANGED <<missing, offers, target>>
        /\ containers' = [containers EXCEPT ![target].status = "Up"]
    BY <1>0, <1>7 DEF StartContainer
  <2>2. \A id \in Ids : containers[id] \in Container
    BY <1>0 DEF TypeInv
  <2>3. Ids' = Ids
    BY <2>1 DEF Ids
  <2>4. \A id \in Ids : /\ containers'[id].image = containers[id].image
                        /\ containers'[id].kept = containers[id].kept
                        /\ containers'[id].own = containers[id].own
                        /\ containers'[id].status = IF id = target THEN "Up" ELSE containers[id].status
    BY <2>1, <2>2 DEF Ids, Container
  <2>5. Of(P)' = Of(P) /\ Of(P) \subseteq Ids
    BY <2>3, <2>4 DEF Of, PathOf, ImageOf
  <2>6. Up(P)'
    BY <1>2, <2>4, <2>5 DEF Up
  <2>7. Busy /\ Busy' /\ ~Gone(P)' /\ Creating(P) /\ Creating(P)'
    BY <1>6, <2>1 DEF Busy, Gone, NewImage, Creating
  <2>8. Offered(P)'
    BY <1>1, <1>2, <2>1, <2>4, <2>5, <2>7 DEF Offered
  <2>9. ToRemove(P)' = ToRemove(P) /\ ToCreate(P)' = ToCreate(P)
    BY <1>0, <2>1 DEF ToRemove, ToCreate, OfPath
  <2>10. ASSUME P \notin EnvoyPaths PROVE Sole(P)' /\ Queued(P)' /\ Converging(P)'
    <3>1. Sole(P) /\ Queued(P) /\ Converging(P)
      BY <1>3, <2>10
    <3>2. Sole(P)'
      BY <2>5, <3>1 DEF Sole
    <3>3. Queued(P)'
      <4>1. ImagesOnce(removed, P)' /\ ImagesOnce(missing, P)' /\ removed' = <<>>
        BY <1>0, <2>1, <3>1 DEF Queued, ImagesOnce
      <4> QED
        BY <1>1, <2>7, <2>9, <4>1 DEF Queued
    <3>4. Converging(P)'
      BY <1>1, <1>4, <2>9, <3>1 DEF Converging
    <3> QED
      BY <3>2, <3>3, <3>4
  <2> QED
    BY <1>4, <2>6, <2>8, <2>10 DEF PathInv
<1>8. CASE DescribeContainer
  <2>1. pc = "describe" /\ UNCHANGED <<containers, target, offers>>
    BY <1>8 DEF DescribeContainer
  <2>2. CASE pc' = "register" /\ UNCHANGED missing
    <3>1. /\ ToRemove(P)' = ToRemove(P) /\ ToCreate(P)' = ToCreate(P) /\ Of(P)' = Of(P)
          /\ NewImage' = NewImage
      BY <1>0, <2>1, <2>2 DEF ToRemove, ToCreate, OfPath, Of, Ids, PathOf, ImageOf, NewImage
    <3>2. ~Gone(P)' /\ Busy /\ Busy' /\ Creating(P) /\ Creating(P)'
      BY <1>6, <2>1, <2>2, <3>1 DEF Gone, Busy, Creating
    <3>3. \A id \in Of(P) : (InWork(id)' <=> InWork(id)) /\ pc # "start"
      BY <2>1, <3>2 DEF InWork
    <3> QED
      BY <1>0, <1>1, <1>4, <2>1, <2>2, <3>1, <3>2, <3>3, Untouched
  <2>3. CASE ~HasBundleConfiguration(NewImage) /\ NextImage
    <3>1. P \notin Described /\ P \notin offers'
      BY <1>2, <2>1, <2>3 DEF HasBundleConfiguration, Offered
    <3> QED
      BY <1>0, <2>1, <2>3, <3>1, CreationEnds
  <2> QED
    BY <1>0, <1>8, <2>2, <2>3 DEF DescribeContainer
<1>9. CASE Register
  <2>1. pc = "register" /\ UNCHANGED containers /\ NextImage /\ P \in offers'
    BY <1>9 DEF Register
  <2>2. P \in Described /\ containers[target].own = TRUE
    BY <2>1 DEF Attempt, HasBundleConfiguration, Busy
  <2> QED
    BY <1>0, <2>1, <2>2, CreationEnds
<1> QED
  BY <1>5, <1>7, <1>8, <1>9 DEF PullImageAndCreateContainer

\* An installation, whatever its outcome, affects its own path only.
LEMMA CreationElsewhere ==
    ASSUME IndInv, NEW P, PathInv(P), P \notin blamed, PullImageAndCreateContainer, NewImage.name.path # P
    PROVE  PathInv(P)'
<1>0. TypeInv /\ InHand
  BY DEF IndInv
<1>1. /\ missing # <<>> /\ removed = <<>> /\ CallStep /\ UNCHANGED <<removed, verify>>
      /\ pc \in {"next", "start", "describe", "register"} /\ pc' \in {"next", "start", "describe", "register"}
      /\ missing' = missing \/ (missing' = Tail(missing) /\ pc' = "next")
  BY <1>0 DEF PullImageAndCreateContainer, CreateContainer, StartContainer, DescribeContainer, Register, InHand,
              NextImage
<1>2. P \in offers' <=> P \in offers
  BY DEF PullImageAndCreateContainer, CreateContainer, StartContainer, DescribeContainer, Register
<1>3. Busy => target \in Ids /\ PathOf(target) # P
  BY <1>0 DEF Busy, InHand, PathOf
<1>4. CASE UNCHANGED <<containers, target>> /\ (Busy' => Busy)
  <2>1. Of(P)' = Of(P)
    BY <1>4 DEF Of, Ids, PathOf, ImageOf
  <2>2. \A id \in Of(P) : (Busy => id # target) /\ (Busy' => id # target')
    BY <1>3, <1>4 DEF Of
  <2> QED
    BY <1>1, <1>2, <1>4, <2>1, <2>2, UntouchedCreation
<1>5. CASE CreateContainer /\ pc' = "start"
  <2> DEFINE new == [image |-> NewImage, status |-> "Created", kept |-> FALSE, own |-> TRUE]
  <2>1. /\ pc = "next" /\ target' = NewId
        /\ containers' = [id \in Ids \cup {NewId} |-> IF id = NewId THEN new ELSE containers[id]]
    BY <1>5 DEF CreateContainer, NextImage
  <2>2. new.image = NewImage
    OBVIOUS
  <2> HIDE DEF new
  <2>3. NewId \notin Ids
    BY <1>0, NewIdIsNew
  <2>4. /\ Ids' = Ids \cup {NewId} /\ containers'[NewId] = new
        /\ \A id \in Ids : containers'[id] = containers[id]
    BY <2>1, <2>3 DEF Ids
  <2>5. Of(P)' = Of(P) /\ Of(P) \subseteq Ids
    BY <2>2, <2>4 DEF Of, PathOf, ImageOf
  <2>6. \A id \in Of(P) : (Busy => id # target) /\ (Busy' => id # target')
    BY <2>1, <2>3, <2>5 DEF Busy
  <2> QED
    BY <1>1, <1>2, <2>4, <2>5, <2>6, UntouchedCreation
<1>6. CASE StartContainer /\ pc' = "describe"
  <2>1. /\ pc = "start" /\ target' = target
        /\ containers' = [containers EXCEPT ![target].status = "Up"]
    BY <1>6 DEF StartContainer, NextImage
  <2>2. Busy /\ Ids' = Ids
    BY <2>1 DEF Busy, Ids
  <2>3. /\ \A id \in Ids : containers'[id].image = containers[id].image
        /\ \A id \in Ids : id # target => containers'[id] = containers[id]
    <3>1. \A id \in Ids : containers[id] \in Container
      BY <1>0 DEF TypeInv
    <3> QED
      BY <2>1, <3>1 DEF Ids, Container
  <2>4. Of(P)' = Of(P) /\ \A id \in Of(P) : id # target
    BY <1>3, <2>2, <2>3 DEF Of, PathOf, ImageOf
  <2>5. \A id \in Of(P) : containers'[id] = containers[id]
    BY <2>3, <2>4 DEF Of
  <2> QED
    BY <1>1, <1>2, <2>1, <2>4, <2>5, UntouchedCreation
<1> QED
  BY <1>4, <1>5, <1>6 DEF PullImageAndCreateContainer, CreateContainer, StartContainer, DescribeContainer, Register,
                          NextImage, Busy

-----------------------------------------------------------------------------
(* The comparison *)

\* What is to be removed and created makes the containers of a path what the
\* configuration lists.
LEMMA ComparisonOfPath ==
    ASSUME IndInv, Attempt, NEW P, PathInv(P), P \notin blamed', Compare
    PROVE  PathInv(P)'
<1>0. /\ TypeInv /\ pc = "list" /\ removed = <<>> /\ missing = <<>> /\ verify = TRUE
      /\ config \in Seq(WrittenNames) /\ \A i \in DOMAIN config : Accepted(config[i])
      /\ pc' = "next" /\ P \notin blamed /\ P \notin MisreadPaths
      /\ UNCHANGED <<containers, inbox, config, verify, target, snapshot, offers>>
  BY DEF IndInv, TypeInv, InHand, Attempt, Compare, reportVars
<1>1. Of(P)' = Of(P) /\ \A id \in Of(P) : containers'[id] = containers[id]
  BY <1>0 DEF Of, Ids, PathOf, ImageOf
<1>2. P \notin EnvoyPaths => Listed(P) /\ Listed(P)'
  BY <1>0 DEF PathInv, Listed
<1>3. /\ DOMAIN config = 1..Len(config) /\ Len(config) \in Nat
      /\ \A i \in DOMAIN config : config[i] \in WrittenNames
  BY <1>0, LenProperties, ElementOfSeq
<1>4. ASSUME NEW ids \in SetToSeqs(ManagedIds),
             LET curr == ExtractImageList(ids)
                 gone == diff(MapSeq(Qualified, config), curr)
             IN  /\ removed' = Subsequence(gone, {i \in DOMAIN gone : ~IsEnvoy(gone[i])})
                 /\ missing' = diff(curr, MapSeq(Qualified, config)),
             applied' = Range(MapSeq(Meant, config))
      PROVE  PathInv(P)'
  <2> DEFINE new == MapSeq(Qualified, config)
             meant == MapSeq(Meant, config)
             curr == ExtractImageList(ids)
             gone == diff(new, curr)
             I == {i \in DOMAIN gone : ~IsEnvoy(gone[i])}
  <2>1. /\ curr \in Seq(ValidImages) /\ Range(curr) = Images(ManagedIds)
        /\ Sole(P) => ImagesOnce(curr, P)
    BY <1>0, ListType, ListProperties
  <2>2. /\ new \in Seq(ValidImages) /\ (P \notin EnvoyPaths => ImagesOnce(new, P))
        /\ OfPath(Range(meant), P) = OfPath(Range(new), P)
    <3>1. new = [i \in DOMAIN config |-> Qualified(config[i])]
          /\ meant = [i \in DOMAIN config |-> Meant(config[i])]
      BY DEF MapSeq
    <3> HIDE DEF new, meant
    <3>2. ASSUME NEW i \in DOMAIN config, Misread(config[i])
          PROVE  config[i].path # P /\ Host[config[i].domain] # P
      BY <1>0, <3>2 DEF MisreadPaths
    <3>3. ASSUME NEW i \in DOMAIN config
          PROVE  /\ new[i] \in ValidImages
                 /\ new[i].name.path = P => config[i].path = P /\ new[i] = meant[i]
                 /\ meant[i].name.path = P => new[i] = meant[i]
      <4>1. config[i] \in WrittenNames /\ Accepted(config[i])
        BY <1>0, <1>3
      <4>2. CASE Misread(config[i])
        BY <3>1, <3>2, <4>1, <4>2, QualifiedType, MeantPath
      <4>3. CASE ~Misread(config[i])
        BY <3>1, <4>1, <4>3, QualifiedType
      <4> QED
        BY <4>2, <4>3
    <3>4. new \in [1..Len(config) -> ValidImages]
      BY <1>3, <3>1, <3>3
    <3>5. P \notin EnvoyPaths => ImagesOnce(new, P)
      BY <1>2, <3>1, <3>3 DEF ImagesOnce, Listed, NamesOnce
    <3>6. DOMAIN new = DOMAIN config /\ DOMAIN meant = DOMAIN config
      BY <3>1
    <3>7. \A x : x \in OfPath(Range(meant), P) <=> x \in OfPath(Range(new), P)
      BY <3>3, <3>6 DEF OfPath, Range
    <3> QED
      BY <1>3, <3>4, <3>5, <3>7
  <2>3. removed' = Subsequence(gone, I) /\ missing' = diff(curr, new) /\ applied' = Range(meant)
    BY <1>4
  <2> HIDE DEF new, meant, curr
  <2>4. /\ gone \in Seq(ValidImages) /\ missing' \in Seq(ValidImages)
        /\ Range(gone) = {curr[i] : i \in {j \in DOMAIN curr : ~InMemory(new, curr[j])}}
        /\ Range(missing') = {new[i] : i \in {j \in DOMAIN new : ~InMemory(curr, new[j])}}
    BY <2>1, <2>2, <2>3, DiffProperties
  <2>5. I \subseteq DOMAIN gone /\ I = {i \in DOMAIN gone : ~IsEnvoy(gone[i])}
    OBVIOUS
  <2>6. ImagesOnce(curr, P) => ImagesOnce(gone, P)
    <3>1. {i \in DOMAIN curr : ~InMemory(new, curr[i])} \subseteq DOMAIN curr
      OBVIOUS
    <3> QED
      BY <2>1, <3>1, SubsequenceOnce DEF diff
  <2>7. ImagesOnce(new, P) => ImagesOnce(missing', P)
    <3>1. {i \in DOMAIN new : ~InMemory(curr, new[i])} \subseteq DOMAIN new
      OBVIOUS
    <3> QED
      BY <2>2, <2>3, <3>1, SubsequenceOnce DEF diff
  <2> HIDE DEF gone, I
  <2>8. Range(removed') = {gone[i] : i \in I} /\ (ImagesOnce(gone, P) => ImagesOnce(removed', P))
    BY <2>3, <2>4, <2>5, SubsequenceProperties, SubsequenceOnce
  <2>9. ~Gone(P)' /\ ~Busy /\ ~Busy'
    BY <1>0 DEF Gone, Busy
  <2>10. Up(P)' /\ Offered(P)'
    <3>1. Up(P) /\ Offered(P)
      BY <1>0 DEF PathInv
    <3>2. ~Gone(P)
      BY <1>0 DEF Gone
    <3>3. Up(P)'
      BY <1>0, <1>1, <3>1 DEF Up
    <3>4. Offered(P)'
      BY <1>0, <1>1, <2>9, <3>1, <3>2 DEF Offered
    <3> QED
      BY <3>3, <3>4
  <2>11. ASSUME P \notin EnvoyPaths PROVE Sole(P)' /\ Queued(P)' /\ Converging(P)' /\ Listed(P)'
    <3> DEFINE A == OfPath(Range(new), P)
               C == Images(Of(P))
    <3>1. Up(P) /\ Sole(P)
      BY <1>0, <2>11 DEF PathInv
    <3>2. ImagesOnce(new, P) /\ ImagesOnce(curr, P)
      BY <2>1, <2>2, <2>11, <3>1
    <3>3. OfPath(Range(curr), P) = C
      <4>1. \A id \in Of(P) : id \in ManagedIds /\ PathOf(id) = P
        BY <1>0, <3>1 DEF Up, Of, ManagedIds, Managed
      <4>2. \A id \in ManagedIds : PathOf(id) = P => id \in Of(P)
        BY DEF ManagedIds, Of
      <4> QED
        BY <2>1, <4>1, <4>2 DEF OfPath, Images, PathOf
    <3>4. ToRemove(P)' = C \ A
      <4>1. \A x : x.name.path = P => (InMemory(new, x) <=> x \in Range(new))
        BY <2>2, <3>2, OnceIsRemembered
      <4>2. \A x : x \in Range(gone) <=> x \in Range(curr) /\ ~InMemory(new, x)
        BY <2>4 DEF Range
      <4>3. \A x : x \in Range(removed') <=> x \in Range(gone) /\ ~IsEnvoy(x)
        BY <2>5, <2>8 DEF Range
      <4>4. \A x : x.name.path = P => ~IsEnvoy(x)
        BY <2>11 DEF IsEnvoy
      <4>5. \A x : x \in ToRemove(P)' <=> x \in Range(removed') /\ x.name.path = P
        BY DEF ToRemove, OfPath
      <4>6. \A x : x \in C <=> x \in Range(curr) /\ x.name.path = P
        BY <3>3 DEF OfPath
      <4>7. \A x : x \in A <=> x \in Range(new) /\ x.name.path = P
        BY DEF OfPath
      <4> HIDE DEF A, C
      <4> QED
        BY <4>1, <4>2, <4>3, <4>4, <4>5, <4>6, <4>7
    <3>5. ToCreate(P)' = A \ C
      <4>1. \A x : x.name.path = P => (InMemory(curr, x) <=> x \in Range(curr))
        BY <2>1, <3>2, OnceIsRemembered
      <4>2. \A x : x \in Range(missing') <=> x \in Range(new) /\ ~InMemory(curr, x)
        BY <2>4 DEF Range
      <4>3. \A x : x \in ToCreate(P)' <=> x \in Range(missing') /\ x.name.path = P
        BY DEF ToCreate, OfPath
      <4>4. \A x : x \in C <=> x \in Range(curr) /\ x.name.path = P
        BY <3>3 DEF OfPath
      <4>5. \A x : x \in A <=> x \in Range(new) /\ x.name.path = P
        BY DEF OfPath
      <4> HIDE DEF A, C
      <4> QED
        BY <4>1, <4>2, <4>3, <4>4, <4>5
    <3>6. /\ \A x, y \in A : x = y
          /\ \A x, y \in C : x = y
      BY <3>1, <3>2 DEF ImagesOnce, OfPath, Range, Images, Sole
    <3>7. C' = C /\ (C = {} => Of(P) = {})
      BY <1>0, <1>1 DEF Images, ImageOf
    <3>8. \A x \in C : \E id \in Of(P)' : ImageOf(id)' = x
      BY <1>0, <1>1 DEF Images, ImageOf
    <3>9. Images(Of(P))' = C
      BY <3>7
    <3>10. OfPath(applied, P)' = A
      BY <2>2, <2>3 DEF OfPath
    <3> HIDE DEF A, C
    <3>11. Sole(P)'
      BY <1>1, <3>1 DEF Sole
    <3>12. Queued(P)'
      <4>1. ImagesOnce(removed, P)' /\ ImagesOnce(missing, P)'
        BY <2>6, <2>7, <2>8, <3>2 DEF ImagesOnce
      <4>2. (\A x \in ToRemove(P) : IF Gone(P) THEN Of(P) = {} ELSE \E id \in Of(P) : ImageOf(id) = x)'
        BY <2>9, <3>4, <3>8
      <4>3. A \ C # {} => C = {} \/ C \ A # {}
        BY <3>6
      <4>4. (ToCreate(P) # {} => Creating(P) \/ Of(P) = {} \/ ToRemove(P) # {})'
        BY <1>1, <3>4, <3>5, <3>7, <4>3
      <4>5. verify' = TRUE
        BY <1>0
      <4> QED
        BY <4>1, <4>2, <4>4, <4>5 DEF Queued
    <3>13. Converging(P)'
      <4>1. A = IF A \ C # {} THEN A \ C ELSE IF C \ A # {} THEN {} ELSE C
        BY <3>6
      <4> QED
        BY <3>4, <3>5, <3>9, <3>10, <4>1 DEF Converging
    <3> QED
      BY <1>2, <2>11, <3>11, <3>12, <3>13
  <2> QED
    BY <2>10, <2>11 DEF PathInv
<1> QED
  BY <1>4 DEF Compare

-----------------------------------------------------------------------------
(* The other steps *)

\* The relay passes on what lists the path once.
LEMMA RelayOfPath ==
    ASSUME IndInv, NEW P \in ValidPaths \ Shared, PathInv(P), P \notin blamed,
           (\E images \in Configs : SendDesired(images)) \/ ReportList \/ ReportSend \/ Recv
    PROVE  PathInv(P)'
<1>0. /\ TypeInv /\ inbox \in Seq(Messages) /\ snapshot \in Messages
      /\ UNCHANGED <<containers, removed, missing, verify, target, offers, applied>>
  BY DEF IndInv, TypeInv, SendDesired, ReportList, ReportSend, Recv, callVars, historyVars
<1>1. pc' = pc \/ (~Busy /\ ~Busy' /\ {pc, pc'} \subseteq {"recv", "list", "next", "panicked"})
  BY DEF SendDesired, ReportList, ReportSend, Recv, callVars, Busy
<1>2. Of(P)' = Of(P)
  BY <1>0 DEF Of, Ids, PathOf, ImageOf
<1>3. ASSUME P \notin EnvoyPaths PROVE Listed(P)'
  <2>1. Listed(P) /\ Sole(P)
    BY <1>3 DEF PathInv
  <2>2. ASSUME NEW m, m # NoEntry => NamesOnce(m, P), inbox' = Append(inbox, m)
        PROVE  \A k \in DOMAIN inbox' : inbox'[k] # NoEntry => NamesOnce(inbox'[k], P)
    <3> SUFFICES ASSUME NEW k \in DOMAIN inbox', inbox'[k] # NoEntry PROVE NamesOnce(inbox'[k], P)
      OBVIOUS
    <3>1. (k \in DOMAIN inbox /\ inbox'[k] = inbox[k]) \/ inbox'[k] = m
      BY <1>0, <2>2
    <3> QED
      BY <2>1, <2>2, <3>1 DEF Listed
  <2>3. ASSUME inbox' = inbox
        PROVE  \A k \in DOMAIN inbox' : inbox'[k] # NoEntry => NamesOnce(inbox'[k], P)
    BY <2>1, <2>3 DEF Listed
  <2>4. ASSUME NEW images \in Configs, SendDesired(images) PROVE Listed(P)'
    <3>1. images # NoEntry => NamesOnce(images, P)
      BY DEF Shared, NamesOnce
    <3>2. UNCHANGED <<config, snapshot>> /\ (inbox' = Append(inbox, images) \/ inbox' = inbox)
      BY <2>4 DEF SendDesired, callVars, reportVars, Relay, Lose
    <3>3. \A k \in DOMAIN inbox' : inbox'[k] # NoEntry => NamesOnce(inbox'[k], P)
      BY <2>2, <2>3, <3>1, <3>2
    <3> QED
      BY <2>1, <3>2, <3>3 DEF Listed
  <2>5. CASE ReportSend
    <3>1. snapshot # NoEntry => NamesOnce(snapshot, P)
      BY <2>1 DEF Listed
    <3>2. UNCHANGED config /\ snapshot' = NoEntry /\ (inbox' = Append(inbox, snapshot) \/ inbox' = inbox)
      BY <2>5 DEF ReportSend, callVars, Relay, Lose
    <3>3. \A k \in DOMAIN inbox' : inbox'[k] # NoEntry => NamesOnce(inbox'[k], P)
      BY <2>2, <2>3, <3>1, <3>2
    <3> QED
      BY <2>1, <3>2, <3>3 DEF Listed
  <2>6. CASE ReportList
    <3>1. UNCHANGED <<config, inbox>>
      BY <2>6 DEF ReportList, callVars
    <3>2. ASSUME NEW ids \in SetToSeqs(ManagedIds), snapshot' = MapSeq(Formatted, ExtractImageList(ids))
          PROVE  NamesOnce(snapshot', P)
      <4> DEFINE curr == ExtractImageList(ids)
      <4>1. curr \in Seq(ValidImages) /\ ImagesOnce(curr, P)
        BY <1>0, <2>1, ListType, ListProperties
      <4>2. snapshot' = [i \in DOMAIN curr |-> Formatted(curr[i])]
        BY <3>2 DEF MapSeq
      <4> HIDE DEF curr
      <4>3. \A i \in DOMAIN curr : Formatted(curr[i]).path = curr[i].name.path
        BY <4>1, FormattedType, ElementOfSeq
      <4> QED
        BY <4>1, <4>2, <4>3 DEF NamesOnce, ImagesOnce
    <3>3. snapshot' = snapshot \/ NamesOnce(snapshot', P)
      BY <2>6, <3>2 DEF ReportList
    <3> QED
      BY <2>1, <3>1, <3>3 DEF Listed
  <2>7. CASE Recv
    <3>1. /\ UNCHANGED snapshot /\ inbox # <<>> /\ inbox' = Tail(inbox)
          /\ config' = config \/ (Head(inbox) # NoEntry /\ config' = Head(inbox))
      BY <2>7 DEF Recv, reportVars
    <3>2. DOMAIN inbox = 1..Len(inbox) /\ Len(inbox) \in Nat /\ Len(inbox) # 0
      BY <1>0, <3>1, LenProperties, EmptySeq
    <3>3. /\ 1 \in DOMAIN inbox /\ Head(inbox) = inbox[1]
          /\ \A k \in DOMAIN Tail(inbox) : k + 1 \in DOMAIN inbox /\ Tail(inbox)[k] = inbox[k + 1]
      BY <1>0, <3>1, <3>2
    <3>4. NamesOnce(config', P)
      BY <2>1, <3>1, <3>3 DEF Listed
    <3>5. \A k \in DOMAIN inbox' : inbox'[k] # NoEntry => NamesOnce(inbox'[k], P)
      BY <2>1, <3>1, <3>3 DEF Listed
    <3> QED
      BY <2>1, <3>1, <3>4, <3>5 DEF Listed
  <2> QED
    BY <2>4, <2>5, <2>6, <2>7
<1> QED
  BY <1>0, <1>1, <1>2, <1>3, UntouchedOutside

\* A command to the status manager affects its own path only.
LEMMA StatusOfPath ==
    ASSUME IndInv, NEW P, PathInv(P), P \notin blamed', NEW id \in Ids, StatusStart(id) \/ StatusStop(id)
    PROVE  PathInv(P)'
<1>1. PICK status : Command(id, status)
  BY DEF StatusStart, StatusStop
<1>2. /\ containers' = [containers EXCEPT ![id].status = status] /\ blamed' = blamed \cup {PathOf(id)}
      /\ UNCHANGED <<inbox, pc, config, removed, missing, verify, target, snapshot, offers, applied>>
  BY <1>1 DEF Command, callVars, reportVars
<1>3. PathOf(id) # P /\ P \notin blamed
  BY <1>2
<1>4. /\ Ids' = Ids /\ \A i \in Ids : containers'[i].image = containers[i].image
      /\ \A i \in Ids : i # id => containers'[i] = containers[i]
  <2>1. \A i \in Ids : containers[i] \in Container
    BY DEF IndInv, TypeInv
  <2> QED
    BY <1>2, <2>1 DEF Ids, Container
<1>5. Of(P)' = Of(P) /\ \A i \in Of(P) : i \in Ids /\ i # id
  BY <1>3, <1>4 DEF Of, PathOf, ImageOf
<1>6. P \notin EnvoyPaths => Listed(P)'
  BY <1>2, <1>3 DEF PathInv, Listed
<1> QED
  BY <1>2, <1>3, <1>4, <1>5, <1>6, UntouchedOutside

LEMMA StepOfPath ==
    ASSUME IndInv, Attempt, NEW P \in ValidPaths \ Shared, PathInv(P), [Next]_vars
    PROVE  PathInv(P)'
<1> SUFFICES ASSUME P \notin blamed' PROVE PathInv(P)'
  BY DEF PathInv
<1>1. P \notin blamed
  BY DEF Next, process, RemoveImageAndContainer, PullImageAndCreateContainer, vars, historyVars,
         SendDesired, ReportList, ReportSend, Recv, Compare, CompareAborts, CompareFails, Return,
         FindContainer, InspectContainer, RemoveContainer, RemoveImage, Unregister,
         CreateContainer, StartContainer, DescribeContainer, Register, StatusStart, StatusStop, Command,
         EngineWorks, EngineFails, EngineRefuses
<1>2. CASE CompareAborts \/ CompareFails \/ Return \/ UNCHANGED vars
  <2>1. /\ UNCHANGED <<containers, removed, missing, verify, target, offers, applied, config, snapshot, inbox>>
        /\ pc' = pc \/ (~Busy /\ ~Busy' /\ {pc, pc'} \subseteq {"recv", "list", "next", "panicked"})
    BY <1>2 DEF CompareAborts, CompareFails, Return, vars, callVars, CallStep, reportVars, historyVars, Busy
  <2>2. Of(P)' = Of(P) /\ (P \notin EnvoyPaths => Listed(P)')
    BY <1>1, <2>1 DEF Of, Ids, PathOf, ImageOf, PathInv, Listed
  <2> QED
    BY <1>1, <2>1, <2>2, UntouchedOutside
<1> QED
  BY <1>1, <1>2, RelayOfPath, ComparisonOfPath, RemovalOfPath, RemovalElsewhere, CreationOfPath, CreationElsewhere,
     StatusOfPath
  DEF Next, process

-----------------------------------------------------------------------------
(* Init *)

\* The containers that run when the program starts: Envoy, one for every image
\* found, and the ones that are not managed.
LEMMA FoundContainers ==
    ASSUME Init, NEW P \in ValidPaths \ Shared
    PROVE  /\ \A id \in Of(P) : /\ containers[id].status = "Up" /\ containers[id].kept = FALSE
                                /\ containers[id].own = FALSE
           /\ P \notin EnvoyPaths => Sole(P)
<1> DEFINE Found(image) == [image |-> image, status |-> "Up", kept |-> FALSE, own |-> FALSE]
           Keep(image) == [Found(image) EXCEPT !.kept = TRUE]
           F == SetToSeq(FoundImages)
           K == SetToSeq(KeptImages)
           m == Cardinality(FoundImages)
           n == Cardinality(KeptImages)
<1>1. ASSUME NEW S, IsFiniteSet(S)
      PROVE  /\ Cardinality(S) \in Nat /\ SetToSeq(S) \in [1..Cardinality(S) -> S]
             /\ \A i, j \in 1..Cardinality(S) : SetToSeq(S)[i] = SetToSeq(S)[j] => i = j
  <2>1. Cardinality(S) \in Nat /\ \E g \in [1..Cardinality(S) -> S] : IsInjective(g)
    BY <1>1, FS_CardinalityType DEF ExistsBijection, Bijection, Injection
  <2>2. SetToSeq(S) \in [1..Cardinality(S) -> S] /\ IsInjective(SetToSeq(S))
    BY <2>1 DEF SetToSeq
  <2> QED
    BY <2>1, <2>2 DEF IsInjective
<1>2. /\ m \in Nat /\ n \in Nat /\ F \in [1..m -> FoundImages] /\ K \in [1..n -> KeptImages]
      /\ \A i, j \in 1..m : F[i] = F[j] => i = j
  BY <1>1, InputsAssumption
<1>3. \A image : /\ Found(image).image = image /\ Found(image).status = "Up"
                 /\ Found(image).kept = FALSE /\ Found(image).own = FALSE /\ Keep(image).image = image
  OBVIOUS
<1> DEFINE f == [i \in 1..m |-> Found(F[i])]
           k == [i \in 1..n |-> Keep(K[i])]
           c == <<Found(EnvoyImage)>> \o f \o k
<1>4. containers = c
  BY <1>2 DEF Init, MapSeq
<1> HIDE DEF Found, Keep, F, K, m, n
<1>5. DOMAIN f = 1..m /\ DOMAIN k = 1..n
  OBVIOUS
<1>6. \E S : f \in Seq(S) /\ k \in Seq(S) /\ Found(EnvoyImage) \in S
  <2> DEFINE S == {Found(F[i]) : i \in 1..m} \cup {Keep(K[i]) : i \in 1..n} \cup {Found(EnvoyImage)}
  <2>1. f \in [1..m -> S] /\ k \in [1..n -> S] /\ Found(EnvoyImage) \in S
    OBVIOUS
  <2> HIDE DEF S, f, k
  <2>2. f \in Seq(S) /\ k \in Seq(S)
    BY <1>2, <2>1
  <2> QED
    BY <2>1, <2>2
<1>7. ASSUME NEW id \in Ids
      PROVE  \/ id = 1 /\ containers[id] = Found(EnvoyImage)
             \/ id - 1 \in 1..m /\ containers[id] = Found(F[id - 1])
             \/ id - 1 - m \in 1..n /\ containers[id] = Keep(K[id - 1 - m])
  <2>1. PICK S : f \in Seq(S) /\ k \in Seq(S) /\ Found(EnvoyImage) \in S
    BY <1>6
  <2>2. Len(f) = m /\ Len(k) = n
    BY <1>2, <1>5, <2>1, LenProperties
  <2>3. /\ \A i \in 1..m : f[i] = Found(F[i])
        /\ \A i \in 1..n : k[i] = Keep(K[i])
    OBVIOUS
  <2> HIDE DEF f, k
  <2> DEFINE a == <<Found(EnvoyImage)>> \o f
  <2>4. a \in Seq(S) /\ Len(a) = 1 + m /\ \A i \in 1..(1 + m) : a[i] = IF i = 1 THEN Found(EnvoyImage) ELSE f[i - 1]
    BY <1>2, <2>1, <2>2
  <2>5. c = a \o k
    OBVIOUS
  <2> HIDE DEF a, c
  <2>6. /\ DOMAIN c = 1..(1 + m + n)
        /\ \A i \in 1..(1 + m + n) : c[i] = IF i <= 1 + m THEN a[i] ELSE k[i - (1 + m)]
    <3>1. /\ c \in Seq(S) /\ Len(c) = Len(a) + Len(k)
          /\ \A i \in 1..(Len(a) + Len(k)) : c[i] = IF i <= Len(a) THEN a[i] ELSE k[i - Len(a)]
      BY <2>1, <2>4, <2>5, ConcatProperties
    <3>2. Len(a) + Len(k) = 1 + m + n
      BY <2>2, <2>4
    <3>3. DOMAIN c = 1..(1 + m + n)
      BY <3>1, <3>2, LenProperties
    <3> QED
      BY <2>4, <3>1, <3>2, <3>3
  <2>7. id \in 1..(1 + m + n)
    BY <1>4, <2>6 DEF Ids
  <2>8. CASE id = 1
    BY <1>2, <1>4, <2>4, <2>6, <2>7, <2>8
  <2>9. CASE id # 1 /\ id <= 1 + m
    <3>1. id - 1 \in 1..m /\ id \in 1..(1 + m)
      BY <1>2, <2>7, <2>9
    <3>2. c[id] = a[id] /\ a[id] = f[id - 1]
      BY <2>4, <2>6, <2>7, <2>9, <3>1
    <3> QED
      BY <1>4, <2>3, <3>1, <3>2
  <2>10. CASE ~(id <= 1 + m)
    <3>1. id - 1 - m \in 1..n /\ id - (1 + m) = id - 1 - m
      BY <1>2, <2>7, <2>10
    <3>2. c[id] = k[id - 1 - m]
      BY <2>6, <2>7, <2>10, <3>1
    <3> QED
      BY <1>4, <2>3, <3>1, <3>2
  <2> QED
    BY <2>8, <2>9, <2>10
<1> HIDE DEF f, k, c
<1>8. ASSUME NEW id \in Of(P)
      PROVE  \/ id = 1 /\ containers[id] = Found(EnvoyImage) /\ P \in EnvoyPaths
             \/ /\ id - 1 \in 1..m /\ containers[id] = Found(F[id - 1]) /\ F[id - 1].name.path = P
                /\ id \in Nat
  <2>1. id \in Ids /\ containers[id].image.name.path = P
    BY DEF Of, PathOf, ImageOf
  <2>2. id \in Nat
    BY <2>1, InitialContainers
  <2>3. CASE id - 1 - m \in 1..n /\ containers[id] = Keep(K[id - 1 - m])
    <3>1. K[id - 1 - m].name.path = P /\ K[id - 1 - m] \in KeptImages
      BY <1>2, <1>3, <2>1, <2>3
    <3> QED
      BY <3>1 DEF Shared
  <2> QED
    BY <1>3, <1>7, <2>1, <2>2, <2>3, InputsAssumption
<1>9. ASSUME NEW id \in Of(P)
      PROVE  containers[id].status = "Up" /\ containers[id].kept = FALSE /\ containers[id].own = FALSE
  BY <1>3, <1>8
<1>10. ASSUME P \notin EnvoyPaths PROVE Sole(P)
  <2> SUFFICES ASSUME NEW id \in Of(P), NEW other \in Of(P) PROVE id = other
    BY DEF Sole
  <2>1. /\ id - 1 \in 1..m /\ F[id - 1].name.path = P /\ id \in Nat
        /\ other - 1 \in 1..m /\ F[other - 1].name.path = P /\ other \in Nat
    BY <1>8, <1>10
  <2>2. F[id - 1] = F[other - 1]
    BY <1>2, <2>1 DEF Shared
  <2>3. id - 1 = other - 1
    BY <1>2, <2>1, <2>2
  <2> QED
    BY <2>1, <2>3
<1> QED
  BY <1>9, <1>10

LEMMA InitOfPath ==
    ASSUME Init
    PROVE  Attempt /\ \A P \in ValidPaths \ Shared : PathInv(P)
<1>1. /\ inbox = <<>> /\ config = <<>> /\ removed = <<>> /\ missing = <<>>
      /\ pc = "recv" /\ snapshot = NoEntry /\ offers = {} /\ applied = NoEntry /\ verify = TRUE
  BY Zenon DEF Init
<1>2. Attempt
  BY <1>1 DEF Attempt, Busy
<1>3. ASSUME NEW P \in ValidPaths \ Shared PROVE PathInv(P)
  <2>1. /\ \A id \in Of(P) : /\ containers[id].status = "Up" /\ containers[id].kept = FALSE
                             /\ containers[id].own = FALSE
        /\ P \notin EnvoyPaths => Sole(P)
    BY FoundContainers
  <2>2. Up(P)
    BY <2>1 DEF Up
  <2>3. Offered(P)
    <3>1. ~\E id \in Of(P) : containers[id].own = TRUE
      BY <2>1
    <3> QED
      BY <1>1, <3>1 DEF Offered
  <2>4. Queued(P)
    <3>1. ToRemove(P) = {} /\ ToCreate(P) = {}
      BY <1>1 DEF ToRemove, ToCreate, OfPath, Range
    <3> QED
      BY <1>1, <3>1 DEF Queued, ImagesOnce
  <2>5. Converging(P) /\ Listed(P)
    BY <1>1 DEF Converging, Listed, NamesOnce
  <2> QED
    BY <2>1, <2>2, <2>3, <2>4, <2>5 DEF PathInv
<1> QED
  BY <1>2, <1>3

Convergence == IndInv /\ Attempt /\ \A P \in ValidPaths \ Shared : PathInv(P)

LEMMA ConvergenceInvariance == Spec => []Convergence
<1>1. Init => Convergence
  BY IndInit, InitOfPath DEF Convergence
<1>2. Convergence /\ [Next]_vars => Convergence'
  <2> SUFFICES ASSUME Convergence, [Next]_vars PROVE Convergence'
    OBVIOUS
  <2>1. IndInv' /\ Attempt'
    BY NextStep, AttemptStep DEF Convergence
  <2>2. ASSUME NEW P \in ValidPaths \ Shared PROVE PathInv(P)'
    BY <2>2, StepOfPath DEF Convergence
  <2> QED
    BY <2>1, <2>2 DEF Convergence
<1> QED
  BY <1>1, <1>2, PTL DEF Spec

-----------------------------------------------------------------------------
\* When process is idle, nothing is left to be done for a path.
LEMMA IdlePath ==
    ASSUME Convergence, Idle, NEW P \in ValidPaths \ (Shared \cup blamed)
    PROVE  /\ Of(P) = {id \in ManagedIds : PathOf(id) = P}
           /\ PathInv(P) /\ ToRemove(P) = {} /\ ToCreate(P) = {} /\ ~Gone(P) /\ ~Busy
<1>1. pc = "recv" /\ removed = <<>> /\ missing = <<>> /\ PathInv(P)
  BY DEF Convergence, IndInv, InHand, Idle
<1>2. ToRemove(P) = {} /\ ToCreate(P) = {} /\ ~Gone(P) /\ ~Busy
  BY <1>1 DEF ToRemove, ToCreate, OfPath, Range, Gone, Busy
<1>3. \A id \in Of(P) : containers[id].kept = FALSE /\ containers[id].status = "Up"
  BY <1>1 DEF PathInv, Up
<1> QED
  BY <1>1, <1>2, <1>3 DEF Of, ManagedIds, Managed

\* After process, the managed containers of a path run exactly what the
\* configuration lists, for any configurations, images, failures and commands:
\* only a failing call for this path, a command for it, or a name that is split at
\* its port and stands for this path or is read as it, can spoil that
\* (orchestrator.go:54-151, image.go:16).
THEOREM EveryPathConverges == Spec => []ConvergedButBlamed
<1>1. ASSUME Convergence PROVE ConvergedButBlamed
  <2> SUFFICES ASSUME Idle, applied # NoEntry,
                      NEW P \in ValidPaths \ (Shared \cup blamed \cup EnvoyPaths)
               PROVE  OfPath(Images(ManagedIds), P) = OfPath(applied, P)
    BY DEF ConvergedButBlamed
  <2>1. /\ Of(P) = {id \in ManagedIds : PathOf(id) = P}
        /\ PathInv(P) /\ ToRemove(P) = {} /\ ToCreate(P) = {}
    BY <1>1, IdlePath
  <2>2. OfPath(applied, P) = Images(Of(P))
    BY <2>1 DEF PathInv, Converging
  <2>3. OfPath(Images(ManagedIds), P) = Images(Of(P))
    BY <2>1 DEF OfPath, Images, PathOf
  <2> QED
    BY <2>2, <2>3
<1> QED
  BY <1>1, ConvergenceInvariance, PTL

\* After process, a bundle is announced exactly when a container runs it that
\* this run of the program has started, but for the paths of failing calls and
\* commands: the retry of a removal, which announces nothing, loses no
\* announcement (orchestrator.go:102-122).
THEOREM EveryOfferRuns == Spec => []OffersButBlamed
<1>1. ASSUME Convergence PROVE OffersButBlamed
  <2> SUFFICES ASSUME Idle, NEW P \in ValidPaths \ (Shared \cup blamed)
               PROVE  P \in offers <=>
                        P \in Described /\ \E id \in ManagedIds : PathOf(id) = P /\ containers[id].own
    BY DEF OffersButBlamed
  <2>1. Of(P) = {id \in ManagedIds : PathOf(id) = P} /\ PathInv(P) /\ ~Gone(P) /\ ~Busy
    BY <1>1, IdlePath
  <2>2. P \in offers <=> P \in Described /\ \E id \in Of(P) : containers[id].own = TRUE
    BY <2>1 DEF PathInv, Offered
  <2>3. \A id \in ManagedIds : containers[id].own \in BOOLEAN
    BY <1>1 DEF Convergence, IndInv, TypeInv, Container, ManagedIds
  <2>4. \A id \in ManagedIds : containers[id].own <=> containers[id].own = TRUE
    BY <2>3, Zenon
  <2> QED
    BY <2>1, <2>2, <2>4, Zenon
<1> QED
  BY <1>1, ConvergenceInvariance, PTL
=============================================================================
