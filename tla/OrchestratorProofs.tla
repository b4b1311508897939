-------------------------- MODULE OrchestratorProofs --------------------------
(***************************************************************************)
(* For any configurations, images and failures of the engine: process      *)
(* never takes away a container that the configuration in hand lists once  *)
(* and under a name that is read as it is meant, nor Envoy.                *)
(***************************************************************************)
EXTENDS Orchestrator, SliceProofs

Messages == Seq(WrittenNames) \cup {NoEntry}
States == {"recv", "list", "next", "inspect", "remove", "removeImage", "unregister",
           "start", "describe", "register", "panicked"}
Container == [image : ValidImages, status : {"Up", "Created", "Exited"}, kept : BOOLEAN, own : BOOLEAN]

TypeInv ==
    /\ IsFiniteSet(Ids) /\ Ids \subseteq Nat
    /\ \A id \in Ids : containers[id] \in Container
    /\ inbox \in Seq(Messages) /\ snapshot \in Messages /\ config \in Seq(WrittenNames)
    /\ removed \in Seq(ValidImages) /\ missing \in Seq(ValidImages)
    /\ pc \in States
    /\ verify \in BOOLEAN /\ reporting \in BOOLEAN
    /\ offers \subseteq ValidPaths /\ blamed \subseteq STRING
    /\ failures \in 0..MaxFailures

(***************************************************************************)
(* Between two calls of the engine process has an image in hand, and later *)
(* a container of this image.  The status manager may stop or start it     *)
(* meanwhile, but nobody else removes it.                                  *)
(***************************************************************************)
InHand ==
    /\ pc \in {"inspect", "remove", "removeImage", "unregister"} => removed # <<>>
    /\ pc \in {"inspect", "remove"} => target \in Ids /\ ImageOf(target) = Image
    /\ pc \in {"start", "describe", "register"} =>
        missing # <<>> /\ removed = <<>> /\ target \in Ids /\ ImageOf(target) = NewImage
    /\ pc \in {"recv", "list", "panicked"} => removed = <<>> /\ missing = <<>>

\* What is left to be removed is neither Envoy nor listed in this version only.
Unwanted == \A i \in DOMAIN removed : ~IsEnvoy(removed[i]) /\ ~ListedOnce(removed[i])

IndInv == TypeInv /\ InHand /\ Unwanted

-----------------------------------------------------------------------------
(* Helpers *)

LEMMA HeadAndTail ==
    ASSUME NEW s \in Seq(ValidImages), s # <<>>
    PROVE  /\ Tail(s) \in Seq(ValidImages)
           /\ Head(s) \in ValidImages /\ Head(s) = s[1] /\ 1 \in DOMAIN s
           /\ \A i \in DOMAIN Tail(s) : i + 1 \in DOMAIN s /\ Tail(s)[i] = s[i + 1]
           /\ \A i \in DOMAIN s : i = 1 \/ (i - 1 \in DOMAIN Tail(s) /\ Tail(s)[i - 1] = s[i])
           /\ Head(s).name.path \in ValidPaths
<1>1. Len(s) \in Nat /\ DOMAIN s = 1..Len(s) /\ Len(s) # 0
  BY LenProperties, EmptySeq
<1>2. /\ Tail(s) \in Seq(ValidImages) /\ Len(Tail(s)) = Len(s) - 1
      /\ \A i \in 1..(Len(s) - 1) : Tail(s)[i] = s[i + 1]
      /\ Head(s) = s[1] /\ Head(s) \in ValidImages
  BY <1>1
<1>3. DOMAIN Tail(s) = 1..(Len(s) - 1)
  BY <1>2, LenProperties
<1>4. Head(s).name.path \in ValidPaths
  BY <1>2 DEF ValidImages
<1>5. 1 \in DOMAIN s /\ \A i \in DOMAIN Tail(s) : i + 1 \in DOMAIN s /\ Tail(s)[i] = s[i + 1]
  BY <1>1, <1>2, <1>3
<1>6. ASSUME NEW i \in DOMAIN s, i # 1 PROVE i - 1 \in DOMAIN Tail(s) /\ Tail(s)[i - 1] = s[i]
  <2>1. i - 1 \in 1..(Len(s) - 1) /\ (i - 1) + 1 = i
    BY <1>1, <1>6
  <2> QED
    BY <1>2, <1>3, <2>1
<1> QED
  BY <1>2, <1>4, <1>5, <1>6

\* The engine gives a new container an ID that is not in use.
LEMMA NewIdIsNew == ASSUME TypeInv PROVE NewId \in Nat /\ NewId \notin Ids
<1> DEFINE n == Cardinality(Ids)
<1>1. IsFiniteSet(Ids) /\ n \in Nat
  BY FS_CardinalityType DEF TypeInv
<1>2. ~(1..(n + 1) \subseteq Ids)
  <2>1. IsFiniteSet(1..(n + 1)) /\ Cardinality(1..(n + 1)) = n + 1
    BY <1>1, FS_Interval
  <2> QED
    BY <1>1, <2>1, FS_Subset
<1>3. \E id \in 1..(n + 1) : id \notin Ids
  BY <1>2, Zenon
<1> QED
  BY <1>1, <1>3 DEF NewId

\* What a name stands for has its path.
LEMMA MeantPath == ASSUME NEW w PROVE Meant(w).name.path = w.path
BY DEF Meant, Named, WithFQIN, ParseFQIN

\* The accepted names in a configuration become images: the ones that they stand
\* for, or else images with the path of the host.
LEMMA QualifiedType ==
    ASSUME NEW w \in WrittenNames, Accepted(w)
    PROVE  /\ Qualified(w) \in ValidImages
           /\ ~Misread(w) => Qualified(w) = Meant(w) /\ Qualified(w).name.path = w.path
           /\ Misread(w) => Qualified(w).name.path = Host[w.domain]
<1> DEFINE Name == [domain : STRING, path : ValidPaths]
<1>1. ParseImageName(w).name.path \in ValidPaths
  BY DEF Accepted, Rejected, ParseableName
<1>2. CASE Misread(w)
  <2>1. ParseImageName(w) = [name |-> [domain |-> Absent, path |-> Host[w.domain]], version |-> NoTag]
    BY <1>2 DEF ParseImageName
  <2>2. ParseFQIN(ParseImageName(w).name) = [domain |-> DefaultContainerRegistryDomain, path |-> Host[w.domain]]
    BY <2>1 DEF ParseFQIN
  <2>3. Qualified(w) = [name |-> [domain |-> DefaultContainerRegistryDomain, path |-> Host[w.domain]],
                        version |-> NoTag]
    BY <2>1, <2>2 DEF Qualified, WithFQIN
  <2> QED
    BY <1>1, <1>2, <2>1, <2>3, PathsAssumption DEF ValidImages, Versions
<1>3. CASE ~Misread(w)
  <2> DEFINE version == IF w.tag = Absent THEN "latest" ELSE w.tag
             name == [domain |-> w.domain, path |-> w.path]
  <2>1. ParseImageName(w) = Named(w) /\ Named(w) = [name |-> name, version |-> version]
    BY <1>3 DEF ParseImageName, Named
  <2>2. w.domain \in STRING /\ w.tag \in Versions
    BY DEF WrittenNames
  <2>3. version \in Versions
    BY <2>2 DEF Versions
  <2>4. name \in Name
    BY <1>1, <2>1, <2>2
  <2>5. ParseFQIN(name) \in Name /\ ParseFQIN(name).path = w.path
    BY <2>4, PathsAssumption DEF ParseFQIN
  <2> HIDE DEF version, name
  <2>6. Qualified(w) = Meant(w) /\ Qualified(w) = [name |-> ParseFQIN(name), version |-> version]
    BY <2>1 DEF Qualified, Meant, WithFQIN
  <2> QED
    BY <1>3, <2>3, <2>5, <2>6 DEF ValidImages
<1> QED
  BY <1>2, <1>3

LEMMA FormattedType ==
    ASSUME NEW image \in ValidImages
    PROVE  Formatted(image) \in WrittenNames /\ Formatted(image).path = image.name.path
BY PathsAssumption DEF Formatted, ValidImages, WrittenNames

\* The list of what Containers returns.
LEMMA ListType ==
    ASSUME TypeInv, NEW ids \in SetToSeqs(ManagedIds)
    PROVE  /\ ids \in Seq(Ids) /\ ExtractImageList(ids) \in Seq(ValidImages)
           /\ DOMAIN ExtractImageList(ids) = DOMAIN ids
           /\ \A i \in DOMAIN ids : ids[i] \in ManagedIds /\ ExtractImageList(ids)[i] = ImageOf(ids[i])
<1> DEFINE n == Cardinality(ManagedIds)
<1>1. n \in Nat
  <2>1. IsFiniteSet(ManagedIds)
    BY FS_Subset DEF TypeInv, ManagedIds
  <2> QED
    BY <2>1, FS_CardinalityType
<1>2. ids \in [1..n -> ManagedIds]
  BY DEF SetToSeqs
<1>3. \A i \in 1..n : ids[i] \in ManagedIds /\ ids[i] \in Ids /\ ImageOf(ids[i]) \in ValidImages
  BY <1>2 DEF ManagedIds, TypeInv, Container, ImageOf
<1>4. ExtractImageList(ids) = [i \in 1..n |-> ImageOf(ids[i])]
  BY <1>2 DEF ExtractImageList, MapSeq
<1> HIDE DEF n
<1>5. ExtractImageList(ids) \in [1..n -> ValidImages] /\ ids \in [1..n -> Ids]
  BY <1>2, <1>3, <1>4
<1> QED
  BY <1>1, <1>2, <1>3, <1>4, <1>5

LEMMA DiffProperties ==
    ASSUME NEW S, NEW a, NEW b \in Seq(S)
    PROVE  /\ diff(a, b) \in Seq(S)
           /\ Range(diff(a, b)) = {b[i] : i \in {j \in DOMAIN b : ~InMemory(a, b[j])}}
<1> DEFINE I == {i \in DOMAIN b : ~InMemory(a, b[i])}
<1>1. I \subseteq DOMAIN b
  OBVIOUS
<1> HIDE DEF I
<1>2. Subsequence(b, I) \in Seq(S) /\ Range(Subsequence(b, I)) = {b[i] : i \in I}
  BY <1>1, SubsequenceProperties
<1> QED
  BY <1>2 DEF diff, I

\* An image that a list holds in one version only is in diff's memory after the
\* loop over the list, at the last of its positions.
LEMMA ListedIsRemembered ==
    ASSUME NEW S, NEW a \in Seq(S), NEW image, image \in Range(a),
           \A other \in Range(a) : other.name = image.name => other = image
    PROVE  InMemory(a, image)
<1>1. DOMAIN a = 1..Len(a) /\ Len(a) \in Nat
  BY LenProperties
<1> DEFINE T == {n \in Nat : \E k \in DOMAIN a : a[k] = image /\ n = Len(a) - k}
<1>2. T \subseteq Nat /\ T # {}
  <2>1. PICK k \in DOMAIN a : a[k] = image
    BY DEF Range
  <2>2. Len(a) - k \in T
    BY <1>1, <2>1
  <2> QED
    BY <2>2
<1>3. PICK m \in T : \A n \in T : m <= n
  <2> HIDE DEF T
  <2> QED
    BY <1>2, LeastNumber
<1>4. PICK k \in DOMAIN a : a[k] = image /\ m = Len(a) - k
  OBVIOUS
<1>5. ASSUME NEW l \in DOMAIN a, l > k PROVE a[l].name # image.name
  <2> SUFFICES ASSUME a[l].name = image.name PROVE FALSE
    OBVIOUS
  <2>1. a[l] = image
    BY DEF Range
  <2>2. Len(a) - l \in T
    BY <1>1, <2>1
  <2> QED
    BY <1>1, <1>3, <1>4, <1>5, <2>2
<1> QED
  BY <1>4, <1>5 DEF InMemory

-----------------------------------------------------------------------------
(* Init *)

\* The containers that run when the program starts.
LEMMA InitialContainers ==
    ASSUME Init
    PROVE  /\ IsFiniteSet(Ids) /\ Ids \subseteq Nat
           /\ \A id \in Ids : containers[id] \in Container
<1> DEFINE Found(image) == [image |-> image, status |-> "Up", kept |-> FALSE, own |-> FALSE]
           Keep(image) == [Found(image) EXCEPT !.kept = TRUE]
           f == MapSeq(Found, SetToSeq(FoundImages))
           k == MapSeq(Keep, SetToSeq(KeptImages))
<1>1. ASSUME NEW image \in ValidImages PROVE Found(image) \in Container /\ Keep(image) \in Container
  BY DEF Container
<1>2. ASSUME NEW S, IsFiniteSet(S), S \subseteq ValidImages
      PROVE  SetToSeq(S) \in [1..Cardinality(S) -> ValidImages] /\ Cardinality(S) \in Nat
  <2>1. Cardinality(S) \in Nat /\ \E g \in [1..Cardinality(S) -> S] : IsInjective(g)
    BY <1>2, FS_CardinalityType DEF ExistsBijection, Bijection, Injection
  <2>2. SetToSeq(S) \in [1..Cardinality(S) -> S]
    BY <2>1 DEF SetToSeq
  <2> QED
    BY <1>2, <2>1, <2>2
<1>3. f \in Seq(Container)
  <2>1. f = [i \in DOMAIN SetToSeq(FoundImages) |-> Found(SetToSeq(FoundImages)[i])]
    BY DEF MapSeq
  <2> HIDE DEF f, Found, Keep
  <2>2. SetToSeq(FoundImages) \in [1..Cardinality(FoundImages) -> ValidImages] /\ Cardinality(FoundImages) \in Nat
    BY <1>2, InputsAssumption
  <2>3. f \in [1..Cardinality(FoundImages) -> Container]
    BY <1>1, <2>1, <2>2
  <2> QED
    BY <2>2, <2>3
<1>4. k \in Seq(Container)
  <2>1. k = [i \in DOMAIN SetToSeq(KeptImages) |-> Keep(SetToSeq(KeptImages)[i])]
    BY DEF MapSeq
  <2> HIDE DEF k, Found, Keep
  <2>2. SetToSeq(KeptImages) \in [1..Cardinality(KeptImages) -> ValidImages] /\ Cardinality(KeptImages) \in Nat
    BY <1>2, InputsAssumption
  <2>3. k \in [1..Cardinality(KeptImages) -> Container]
    BY <1>1, <2>1, <2>2
  <2> QED
    BY <2>2, <2>3
<1>5. Found(EnvoyImage) \in Container
  BY <1>1, InputsAssumption
<1>6. containers = <<Found(EnvoyImage)>> \o f \o k
  BY DEF Init
<1> HIDE DEF f, k, Found
<1>7. containers \in Seq(Container)
  BY <1>3, <1>4, <1>5, <1>6
<1>8. Ids = 1..Len(containers) /\ Len(containers) \in Nat
  BY <1>7, LenProperties DEF Ids
<1> QED
  BY <1>7, <1>8, FS_Interval, ElementOfSeq

LEMMA IndInit == Init => IndInv
<1> SUFFICES ASSUME Init PROVE IndInv
  OBVIOUS
<1>1. IsFiniteSet(Ids) /\ Ids \subseteq Nat /\ \A id \in Ids : containers[id] \in Container
  BY InitialContainers
<1>2. /\ inbox = <<>> /\ config = <<>> /\ removed = <<>> /\ missing = <<>>
      /\ pc = "recv" /\ snapshot = NoEntry /\ offers = {} /\ blamed = {} /\ failures = 0
      /\ verify = TRUE /\ reporting = TRUE
  BY Zenon DEF Init
<1>3. inbox \in Seq(Messages) /\ snapshot \in Messages /\ config \in Seq(WrittenNames)
      /\ removed \in Seq(ValidImages) /\ missing \in Seq(ValidImages)
  BY <1>2 DEF Messages
<1>4. verify \in BOOLEAN /\ reporting \in BOOLEAN
  BY <1>2, Zenon
<1>5. failures \in 0..MaxFailures
  BY <1>2, InputsAssumption
<1>6. TypeInv
  BY <1>1, <1>2, <1>3, <1>4, <1>5 DEF TypeInv, States
<1>7. InHand /\ Unwanted
  BY <1>2 DEF InHand, Unwanted
<1> QED
  BY <1>6, <1>7 DEF IndInv

-----------------------------------------------------------------------------
(* The steps of process *)

LEMMA BlamedType ==
    ASSUME NEW B, B \subseteq STRING, NEW path \in ValidPaths
    PROVE  B \cup {path} \subseteq STRING
BY PathsAssumption, Zenon

\* A call of the engine returns, or it fails, or it refuses what it is given.
LEMMA EngineType ==
    ASSUME TypeInv, NEW path \in ValidPaths, EngineWorks \/ EngineFails(path) \/ EngineRefuses(path)
    PROVE  blamed' \subseteq STRING /\ failures' \in 0..MaxFailures
<1>1. failures \in Nat /\ MaxFailures \in Nat /\ failures <= MaxFailures
      /\ blamed \subseteq STRING
  BY InputsAssumption DEF TypeInv
<1>2. CASE EngineWorks
  BY <1>2 DEF EngineWorks, TypeInv
<1>3. CASE EngineFails(path) \/ EngineRefuses(path)
  <2>1. blamed' \subseteq STRING
    <3>1. blamed' = blamed \cup {path}
      BY <1>3 DEF EngineFails, EngineRefuses
    <3> QED
      BY <1>1, <3>1, BlamedType
  <2>2. failures' = failures \/ (failures < MaxFailures /\ failures' = failures + 1)
    BY <1>3 DEF EngineFails, EngineRefuses
  <2>3. failures' \in 0..MaxFailures
    BY <1>1, <2>2
  <2> QED
    BY <2>1, <2>3, Zenon
<1> QED
  BY <1>2, <1>3

\* Retry and Finished leave removed as it is, or without its first image.
LEMMA RetryType ==
    ASSUME TypeInv, Retry \/ Finished
    PROVE  pc' = "next" /\ verify' \in BOOLEAN /\ removed' \in {removed, Tail(removed)}
<1>1. CASE Finished
  BY <1>1, Zenon DEF Finished
<1>2. CASE Retry /\ verify
  BY <1>2, Zenon DEF Retry
<1>3. CASE Retry /\ ~verify
  BY <1>1, <1>3, Zenon DEF Retry
<1> QED
  BY <1>1, <1>2, <1>3

\* What all steps of RemoveImageAndContainer have in common.
LEMMA RemovalStep ==
    ASSUME IndInv, CallStep, removed # <<>>, UNCHANGED missing,
           removed' \in {removed, Tail(removed)}, verify' \in BOOLEAN, offers' \subseteq offers,
           EngineWorks \/ EngineFails(Image.name.path),
           Ids' \subseteq Ids, \A id \in Ids' : containers'[id] = containers[id],
           pc' \in {"next", "inspect", "remove", "removeImage", "unregister"},
           pc' # "next" => removed' = removed,
           pc' \in {"inspect", "remove"} => target' \in Ids' /\ ImageOf(target') = Image
    PROVE  IndInv'
<1>1. /\ Tail(removed) \in Seq(ValidImages) /\ Image.name.path \in ValidPaths
      /\ \A i \in DOMAIN Tail(removed) : i + 1 \in DOMAIN removed /\ Tail(removed)[i] = removed[i + 1]
  BY HeadAndTail DEF IndInv, TypeInv, Image
<1>2. removed' \in Seq(ValidImages)
  BY <1>1 DEF IndInv, TypeInv
<1>3. blamed' \subseteq STRING /\ failures' \in 0..MaxFailures
  BY <1>1, EngineType DEF IndInv
<1>4. UNCHANGED <<inbox, config, snapshot, reporting, applied>>
  BY DEF CallStep, reportVars
<1>5. IsFiniteSet(Ids') /\ Ids' \subseteq Nat /\ \A id \in Ids' : containers'[id] \in Container
  BY FS_Subset DEF IndInv, TypeInv
<1>6. TypeInv'
  BY <1>2, <1>3, <1>4, <1>5 DEF IndInv, TypeInv, States
<1>7. InHand'
  <2>1. pc' \in {"inspect", "remove"} => ImageOf(target)' = Image'
    BY DEF ImageOf, Image
  <2> QED
    BY <2>1 DEF InHand
<1>8. Unwanted'
  BY <1>1, <1>4 DEF IndInv, Unwanted, ListedOnce
<1> QED
  BY <1>6, <1>7, <1>8 DEF IndInv

LEMMA RemoveStep == IndInv /\ RemoveImageAndContainer => IndInv'
<1> SUFFICES ASSUME IndInv, RemoveImageAndContainer PROVE IndInv'
  OBVIOUS
<1>0. TypeInv /\ InHand /\ verify \in BOOLEAN
  BY DEF IndInv, TypeInv
<1>1. ASSUME UNCHANGED containers
      PROVE  Ids' \subseteq Ids /\ \A id \in Ids' : containers'[id] = containers[id]
  BY <1>1 DEF Ids
<1>2. CASE FindContainer
  <2>1. removed # <<>> /\ UNCHANGED <<containers, missing, offers>> /\ CallStep
    BY <1>2 DEF FindContainer
  <2>2. CASE Retry /\ (EngineWorks \/ EngineFails(Image.name.path))
    BY <1>0, <1>1, <2>1, <2>2, RetryType, RemovalStep
  <2>3. ASSUME NEW id \in Ids, ImageOf(id) = Image, target' = id,
               pc' = IF verify THEN "inspect" ELSE "remove", EngineWorks, UNCHANGED <<removed, verify>>
        PROVE  IndInv'
    <3>1. pc' \in {"inspect", "remove"}
      BY <2>3
    <3>2. target' \in Ids' /\ ImageOf(target') = Image
      BY <2>1, <2>3 DEF Ids
    <3>3. verify' \in BOOLEAN /\ removed' = removed
      BY <1>0, <2>3
    <3> QED
      BY <1>1, <2>1, <2>3, <3>1, <3>2, <3>3, RemovalStep
  <2> QED
    BY <1>2, <2>2, <2>3 DEF FindContainer
<1>3. CASE InspectContainer
  <2>1. pc = "inspect" /\ UNCHANGED <<containers, missing, target, offers>> /\ CallStep
    BY <1>3 DEF InspectContainer
  <2>2. removed # <<>> /\ target \in Ids /\ ImageOf(target) = Image
    BY <1>0, <2>1 DEF InHand
  <2>3. CASE Retry /\ (EngineWorks \/ EngineFails(Image.name.path))
    BY <1>0, <1>1, <2>1, <2>2, <2>3, RetryType, RemovalStep
  <2>4. CASE EngineWorks /\ pc' = "remove" /\ UNCHANGED <<removed, verify>>
    <3>1. target' \in Ids' /\ ImageOf(target') = Image
      BY <2>1, <2>2 DEF Ids
    <3> QED
      BY <1>0, <1>1, <2>1, <2>2, <2>4, <3>1, RemovalStep
  <2> QED
    BY <1>3, <2>3, <2>4 DEF InspectContainer
<1>4. CASE RemoveContainer
  <2>1. pc = "remove" /\ UNCHANGED <<missing, target, offers>> /\ CallStep
    BY <1>4 DEF RemoveContainer
  <2>2. removed # <<>>
    BY <1>0, <2>1 DEF InHand
  <2>3. CASE EngineFails(Image.name.path) /\ Retry /\ UNCHANGED containers
    BY <1>0, <1>1, <2>1, <2>2, <2>3, RetryType, RemovalStep
  <2>4. CASE /\ containers' = [id \in Ids \ {target} |-> containers[id]]
             /\ pc' = "removeImage" /\ EngineWorks /\ UNCHANGED <<removed, verify>>
    <3>1. Ids' \subseteq Ids /\ \A id \in Ids' : containers'[id] = containers[id]
      BY <2>4 DEF Ids
    <3> QED
      BY <1>0, <2>1, <2>2, <2>4, <3>1, RemovalStep
  <2> QED
    BY <1>4, <2>3, <2>4 DEF RemoveContainer
<1>5. CASE RemoveImage
  <2>1. pc = "removeImage" /\ UNCHANGED <<containers, missing, target, offers>> /\ CallStep
    BY <1>5 DEF RemoveImage
  <2>2. removed # <<>>
    BY <1>0, <2>1 DEF InHand
  <2>3. CASE (Retry \/ Finished) /\ (EngineWorks \/ EngineFails(Image.name.path))
    BY <1>0, <1>1, <2>1, <2>2, <2>3, RetryType, RemovalStep
  <2>4. CASE EngineWorks /\ pc' = "unregister" /\ UNCHANGED <<removed, verify>>
    BY <1>0, <1>1, <2>1, <2>2, <2>4, RemovalStep
  <2> QED
    BY <1>5, <2>3, <2>4 DEF RemoveImage
<1>6. CASE Unregister
  <2>1. pc = "unregister" /\ UNCHANGED <<containers, missing, target, failures, blamed>> /\ CallStep
        /\ offers' \subseteq offers /\ Finished
    BY <1>6 DEF Unregister
  <2>2. removed # <<>> /\ EngineWorks
    BY <1>0, <2>1 DEF InHand, EngineWorks
  <2> QED
    BY <1>0, <1>1, <2>1, <2>2, RetryType, RemovalStep
<1> QED
  BY <1>2, <1>3, <1>4, <1>5, <1>6 DEF RemoveImageAndContainer

\* What all steps of PullImageAndCreateContainer have in common.
LEMMA CreationStep ==
    ASSUME IndInv, CallStep, missing # <<>>, removed = <<>>, UNCHANGED <<removed, verify>>,
           missing' \in {missing, Tail(missing)}, offers' \subseteq ValidPaths,
           EngineWorks \/ EngineFails(NewImage.name.path) \/ EngineRefuses(NewImage.name.path),
           IsFiniteSet(Ids'), Ids' \subseteq Nat, \A id \in Ids' : containers'[id] \in Container,
           pc' \in {"next", "start", "describe", "register"},
           pc' # "next" => missing' = missing /\ target' \in Ids' /\ containers'[target'].image = NewImage
    PROVE  IndInv'
<1>1. Tail(missing) \in Seq(ValidImages) /\ NewImage.name.path \in ValidPaths
  BY HeadAndTail DEF IndInv, TypeInv, NewImage
<1>2. missing' \in Seq(ValidImages)
  BY <1>1 DEF IndInv, TypeInv
<1>3. blamed' \subseteq STRING /\ failures' \in 0..MaxFailures
  BY <1>1, EngineType DEF IndInv
<1>4. UNCHANGED <<inbox, config, snapshot, reporting, applied>>
  BY DEF CallStep, reportVars
<1>5. TypeInv'
  BY <1>2, <1>3, <1>4 DEF IndInv, TypeInv, States
<1>6. InHand'
  BY DEF InHand, ImageOf, NewImage
<1>7. Unwanted'
  BY DEF Unwanted
<1> QED
  BY <1>5, <1>6, <1>7 DEF IndInv

LEMMA CreateStep == IndInv /\ PullImageAndCreateContainer => IndInv'
<1> SUFFICES ASSUME IndInv, PullImageAndCreateContainer PROVE IndInv'
  OBVIOUS
<1>0. /\ TypeInv /\ InHand /\ IsFiniteSet(Ids) /\ Ids \subseteq Nat /\ offers \subseteq ValidPaths
      /\ \A id \in Ids : containers[id] \in Container
  BY DEF IndInv, TypeInv
<1>1. ASSUME UNCHANGED containers
      PROVE  IsFiniteSet(Ids') /\ Ids' \subseteq Nat /\ \A id \in Ids' : containers'[id] \in Container
  BY <1>0, <1>1 DEF Ids
<1>2. missing # <<>> /\ removed = <<>> /\ CallStep /\ UNCHANGED <<removed, verify>>
      /\ NewImage \in ValidImages /\ NewImage.name.path \in ValidPaths
  <2>1. missing # <<>> /\ removed = <<>> /\ CallStep /\ UNCHANGED <<removed, verify>>
    BY <1>0 DEF PullImageAndCreateContainer, CreateContainer, StartContainer, DescribeContainer, Register,
                InHand
  <2> QED
    BY <1>0, <2>1, HeadAndTail DEF TypeInv, NewImage
<1>3. CASE CreateContainer
  <2>1. offers' \subseteq ValidPaths
    BY <1>0, <1>3 DEF CreateContainer
  <2>2. CASE /\ EngineFails(NewImage.name.path) \/ EngineRefuses(NewImage.name.path)
             /\ NextImage /\ UNCHANGED <<containers, target>>
    BY <1>1, <1>2, <2>1, <2>2, CreationStep DEF NextImage
  <2>3. ASSUME target' = NewId,
               containers' = [id \in Ids \cup {NewId} |->
                                IF id = NewId
                                THEN [image |-> NewImage, status |-> "Created", kept |-> FALSE, own |-> TRUE]
                                ELSE containers[id]],
               pc' = "start", EngineWorks, UNCHANGED missing
        PROVE  IndInv'
    <3>1. NewId \in Nat
      BY <1>0, NewIdIsNew
    <3> DEFINE new == [image |-> NewImage, status |-> "Created", kept |-> FALSE, own |-> TRUE]
    <3>2. new \in Container /\ new.image = NewImage
      BY <1>2 DEF Container
    <3> HIDE DEF new
    <3>3. containers' = [id \in Ids \cup {NewId} |-> IF id = NewId THEN new ELSE containers[id]]
      BY <2>3 DEF new
    <3>4. Ids' = Ids \cup {NewId}
      BY <3>3 DEF Ids
    <3>5. IsFiniteSet(Ids')
      BY <1>0, <3>4, FS_AddElement
    <3>6. /\ Ids' \subseteq Nat /\ \A id \in Ids' : containers'[id] \in Container
          /\ target' \in Ids' /\ containers'[target'].image = NewImage
      BY <1>0, <2>3, <3>1, <3>2, <3>3, <3>4
    <3> QED
      BY <1>2, <2>1, <2>3, <3>5, <3>6, CreationStep
  <2> QED
    BY <1>3, <2>2, <2>3 DEF CreateContainer
<1>4. CASE StartContainer
  <2>1. pc = "start" /\ offers' \subseteq ValidPaths /\ target' = target
    BY <1>0, <1>4 DEF StartContainer
  <2>2. target \in Ids /\ ImageOf(target) = NewImage
    BY <1>0, <2>1 DEF InHand
  <2>3. CASE EngineFails(NewImage.name.path) /\ NextImage /\ UNCHANGED containers
    BY <1>1, <1>2, <2>1, <2>3, CreationStep DEF NextImage
  <2>4. CASE /\ containers' = [containers EXCEPT ![target].status = "Up"]
             /\ pc' = "describe" /\ EngineWorks /\ UNCHANGED missing
    <3>1. Ids' = Ids
      BY <2>4 DEF Ids
    <3>2. /\ \A id \in Ids' : containers'[id] \in Container
          /\ target' \in Ids' /\ containers'[target'].image = NewImage
      BY <1>0, <2>1, <2>2, <2>4, <3>1 DEF Ids, Container, ImageOf
    <3> QED
      BY <1>0, <1>2, <2>1, <2>4, <3>1, <3>2, CreationStep
  <2> QED
    BY <1>4, <2>3, <2>4 DEF StartContainer
<1>5. CASE DescribeContainer
  <2>1. pc = "describe" /\ offers' \subseteq ValidPaths /\ UNCHANGED <<containers, target>>
    BY <1>0, <1>5 DEF DescribeContainer
  <2>2. target' \in Ids' /\ containers'[target'].image = NewImage
    BY <1>0, <2>1 DEF InHand, ImageOf, Ids
  <2>3. CASE NextImage /\ (EngineWorks \/ EngineFails(NewImage.name.path))
    BY <1>1, <1>2, <2>1, <2>3, CreationStep DEF NextImage
  <2>4. CASE EngineWorks /\ pc' = "register" /\ UNCHANGED missing
    BY <1>1, <1>2, <2>1, <2>2, <2>4, CreationStep
  <2> QED
    BY <1>5, <2>3, <2>4 DEF DescribeContainer
<1>6. CASE Register
  <2>1. offers' \subseteq ValidPaths /\ UNCHANGED containers /\ EngineWorks /\ NextImage
    BY <1>0, <1>2, <1>6 DEF Register, EngineWorks
  <2> QED
    BY <1>1, <1>2, <2>1, CreationStep DEF NextImage
<1> QED
  BY <1>3, <1>4, <1>5, <1>6 DEF PullImageAndCreateContainer

\* Compare: of the images that run, diff takes none that is listed in this
\* version only, and the filter none of Envoy.
LEMMA CompareStep == IndInv /\ Compare => IndInv'
<1> SUFFICES ASSUME IndInv, Compare PROVE IndInv'
  OBVIOUS
<1> DEFINE new == MapSeq(Qualified, config)
<1>0. /\ TypeInv /\ InHand /\ config \in Seq(WrittenNames) /\ blamed \subseteq STRING
      /\ pc' = "next" /\ blamed' = blamed \cup MisreadPaths
      /\ \A i \in DOMAIN config : Accepted(config[i])
      /\ UNCHANGED <<containers, inbox, config, verify, target, snapshot, reporting, offers, failures>>
  BY DEF IndInv, TypeInv, Compare, reportVars
<1>1. /\ DOMAIN config = 1..Len(config) /\ Len(config) \in Nat
      /\ \A i \in DOMAIN config : config[i] \in WrittenNames
  BY <1>0, LenProperties, ElementOfSeq
<1>2. MisreadPaths \subseteq STRING
  <2>1. ASSUME NEW i \in DOMAIN config, Misread(config[i])
        PROVE  config[i].path \in STRING /\ Host[config[i].domain] \in STRING
    BY <1>1, <2>1, PathsAssumption DEF WrittenNames, Misread
  <2> QED
    BY <2>1 DEF MisreadPaths
<1>3. ASSUME NEW ids \in SetToSeqs(ManagedIds),
             LET curr == ExtractImageList(ids)
                 gone == diff(new, curr)
             IN  /\ removed' = Subsequence(gone, {i \in DOMAIN gone : ~IsEnvoy(gone[i])})
                 /\ missing' = diff(curr, new)
      PROVE  IndInv'
  <2> DEFINE curr == ExtractImageList(ids)
             gone == diff(new, curr)
             I == {i \in DOMAIN gone : ~IsEnvoy(gone[i])}
  <2>1. curr \in Seq(ValidImages)
    BY <1>0, ListType
  <2>2. new \in Seq(ValidImages)
    <3>1. new = [i \in DOMAIN config |-> Qualified(config[i])]
      BY DEF MapSeq
    <3> HIDE DEF new
    <3>2. new \in [1..Len(config) -> ValidImages]
      BY <1>0, <1>1, <3>1, QualifiedType
    <3> QED
      BY <1>1, <3>2
  <2>3. removed' = Subsequence(gone, I) /\ missing' = diff(curr, new)
    BY <1>3
  <2>4. DOMAIN new = DOMAIN config /\ \A i \in DOMAIN config : new[i] = Qualified(config[i])
    BY DEF MapSeq
  <2> HIDE DEF new, curr
  <2>5. missing' \in Seq(ValidImages)
    BY <2>2, <2>3, DiffProperties
  <2>6. gone \in Seq(ValidImages)
        /\ \A x \in Range(gone) : ~InMemory(new, x)
    BY <2>1, DiffProperties
  <2>7. I \subseteq DOMAIN gone
    OBVIOUS
  <2>8. \A i \in I : ~IsEnvoy(gone[i]) /\ ~InMemory(new, gone[i])
    BY <2>6 DEF Range
  <2> HIDE DEF gone, I
  <2>9. removed' \in Seq(ValidImages) /\ Range(removed') = {gone[i] : i \in I}
    BY <2>3, <2>6, <2>7, SubsequenceProperties
  <2>10. ASSUME NEW x, ~InMemory(new, x) PROVE ~ListedOnce(x)'
    <3> SUFFICES ASSUME ListedOnce(x)' PROVE InMemory(new, x)
      BY <2>10
    <3>1. PICK i \in DOMAIN config : Meant(config[i]) = x /\ ~Misread(config[i])
      BY <1>0 DEF ListedOnce
    <3>2. new[i] = x
      BY <1>0, <1>1, <2>4, <3>1, QualifiedType
    <3>3. x \in Range(new)
      BY <2>4, <3>2 DEF Range
    <3>4. ASSUME NEW other \in Range(new), other.name = x.name PROVE other = x
      <4>1. PICK j \in DOMAIN config : other = Qualified(config[j])
        BY <2>4 DEF Range
      <4> QED
        BY <1>0, <3>4, <4>1 DEF ListedOnce
    <3> QED
      BY <2>2, <3>3, <3>4, ListedIsRemembered
  <2>11. Unwanted'
    <3> SUFFICES ASSUME NEW i \in DOMAIN removed' PROVE ~IsEnvoy(removed'[i]) /\ ~ListedOnce(removed[i])'
      BY DEF Unwanted
    <3>1. PICK j \in I : removed'[i] = gone[j]
      BY <2>9 DEF Range
    <3>2. ~IsEnvoy(removed'[i]) /\ ~InMemory(new, removed'[i])
      BY <2>8, <3>1
    <3> QED
      BY <2>10, <3>2 DEF ListedOnce
  <2>12. TypeInv'
    BY <1>0, <1>2, <2>5, <2>9 DEF TypeInv, Ids, States
  <2>13. InHand'
    BY <1>0 DEF InHand
  <2> QED
    BY <2>11, <2>12, <2>13 DEF IndInv
<1> QED
  BY <1>3 DEF Compare

-----------------------------------------------------------------------------
(* The other steps *)

\* Nothing changes that process has in hand.
LEMMA OutsideStep ==
    ASSUME IndInv, UNCHANGED <<containers, callVars, offers, blamed, applied>>,
           inbox' \in Seq(Messages), snapshot' \in Messages, reporting' \in BOOLEAN,
           failures' \in 0..MaxFailures
    PROVE  IndInv'
<1>1. UNCHANGED <<pc, config, removed, missing, verify, target>> /\ Ids' = Ids
  BY DEF callVars, Ids
<1>2. TypeInv'
  BY <1>1 DEF IndInv, TypeInv
<1>3. InHand'
  BY <1>1 DEF IndInv, InHand, ImageOf, Image, NewImage
<1>4. Unwanted'
  BY <1>1 DEF IndInv, Unwanted, ListedOnce
<1> QED
  BY <1>2, <1>3, <1>4 DEF IndInv

LEMMA MessageStep ==
    ASSUME IndInv, NEW m \in Messages
    PROVE  Append(inbox, m) \in Seq(Messages)
BY AppendProperties DEF IndInv, TypeInv

LEMMA RelayStep ==
    IndInv /\ ((\E images \in Configs : SendDesired(images)) \/ ReportList \/ ReportSend) => IndInv'
<1> SUFFICES ASSUME IndInv, (\E images \in Configs : SendDesired(images)) \/ ReportList \/ ReportSend
             PROVE  IndInv'
  OBVIOUS
<1>0. /\ TypeInv /\ inbox \in Seq(Messages) /\ snapshot \in Messages /\ reporting \in BOOLEAN
      /\ failures \in 0..MaxFailures /\ MaxFailures \in Nat
  BY InputsAssumption DEF IndInv, TypeInv
<1>1. ASSUME NEW images \in Configs, SendDesired(images) PROVE IndInv'
  <2>1. images \in Messages
    BY InputsAssumption DEF Messages
  <2>2. inbox' \in Seq(Messages)
    BY <1>0, <1>1, <2>1, MessageStep DEF SendDesired, Relay, Lose
  <2>3. UNCHANGED <<containers, callVars, offers, blamed, applied, snapshot, reporting, failures>>
    BY <1>1 DEF SendDesired, reportVars
  <2> QED
    BY <1>0, <2>2, <2>3, OutsideStep
<1>2. CASE ReportList
  <2>1. UNCHANGED <<containers, callVars, offers, blamed, applied, inbox>>
    BY <1>2 DEF ReportList, historyVars
  <2>2. ASSUME \E ids \in SetToSeqs(ManagedIds) : snapshot' = MapSeq(Formatted, ExtractImageList(ids))
        PROVE  snapshot' \in Messages
    <3>1. PICK ids \in SetToSeqs(ManagedIds) : snapshot' = MapSeq(Formatted, ExtractImageList(ids))
      BY <2>2
    <3> DEFINE curr == ExtractImageList(ids)
    <3>2. curr \in Seq(ValidImages)
      BY <1>0, ListType
    <3> HIDE DEF curr
    <3>3. DOMAIN curr = 1..Len(curr) /\ Len(curr) \in Nat /\ \A i \in DOMAIN curr : curr[i] \in ValidImages
      BY <3>2, LenProperties, ElementOfSeq
    <3>4. snapshot' = [i \in DOMAIN curr |-> Formatted(curr[i])]
      BY <3>1 DEF MapSeq, curr
    <3>5. snapshot' \in [1..Len(curr) -> WrittenNames]
      BY <3>3, <3>4, FormattedType
    <3> QED
      BY <3>3, <3>5 DEF Messages
  <2>3. snapshot' \in Messages
    BY <1>0, <1>2, <2>2, Zenon DEF ReportList
  <2>4. reporting' \in BOOLEAN
    BY <1>0, <1>2, Zenon DEF ReportList
  <2>5. failures' \in 0..MaxFailures
    <3>1. failures' = failures \/ (failures < MaxFailures /\ failures' = failures + 1)
      BY <1>2, Zenon DEF ReportList
    <3> QED
      BY <1>0, <3>1
  <2> QED
    BY <1>0, <2>1, <2>3, <2>4, <2>5, OutsideStep
<1>3. CASE ReportSend
  <2>1. UNCHANGED <<containers, callVars, offers, blamed, applied, reporting, failures>>
    BY <1>3 DEF ReportSend, historyVars
  <2>2. inbox' \in Seq(Messages) /\ snapshot' \in Messages
    BY <1>0, <1>3, MessageStep DEF ReportSend, Relay, Lose, Messages
  <2> QED
    BY <1>0, <2>1, <2>2, OutsideStep
<1> QED
  BY <1>1, <1>2, <1>3

LEMMA RecvStep == IndInv /\ Recv => IndInv'
<1> SUFFICES ASSUME IndInv, Recv PROVE IndInv'
  OBVIOUS
<1>1. /\ inbox \in Seq(Messages) /\ inbox # <<>> /\ pc = "recv" /\ inbox' = Tail(inbox)
      /\ UNCHANGED <<containers, removed, missing, verify, target, snapshot, reporting, offers, failures,
                     applied, blamed>>
  BY DEF IndInv, TypeInv, Recv, reportVars, historyVars
<1>2. Tail(inbox) \in Seq(Messages) /\ Head(inbox) \in Messages
  BY <1>1, HeadTailProperties
<1>3. pc' \in {"recv", "list"} /\ config' \in Seq(WrittenNames)
  BY <1>2 DEF Recv, Messages, IndInv, TypeInv
<1>4. TypeInv'
  BY <1>1, <1>2, <1>3 DEF IndInv, TypeInv, Ids, States
<1>5. InHand'
  BY <1>1, <1>3 DEF IndInv, InHand
<1>6. Unwanted'
  BY <1>1 DEF IndInv, InHand, Unwanted
<1> QED
  BY <1>4, <1>5, <1>6 DEF IndInv

\* The status manager changes the status of a container only.
LEMMA StatusStep ==
    ASSUME IndInv, NEW id \in Ids, StatusStart(id) \/ StatusStop(id)
    PROVE  IndInv'
<1>1. PICK status \in {"Up", "Exited"} : Command(id, status)
  BY DEF StatusStart, StatusStop
<1>2. /\ containers' = [containers EXCEPT ![id].status = status]
      /\ blamed' = blamed \cup {PathOf(id)}
      /\ UNCHANGED <<inbox, pc, config, removed, missing, verify, target, snapshot, reporting, offers,
                     failures, applied>>
  BY <1>1 DEF Command, callVars, reportVars
<1>3. Ids' = Ids
  BY <1>2 DEF Ids
<1>4. \A i \in Ids : containers[i] \in Container
  BY DEF IndInv, TypeInv
<1>5. \A i \in Ids : containers'[i] \in Container /\ containers'[i].image = containers[i].image
  BY <1>2, <1>4 DEF Ids, Container
<1>6. blamed' \subseteq STRING
  <2>1. PathOf(id) \in ValidPaths
    BY <1>4 DEF PathOf, ImageOf, Container, ValidImages
  <2> QED
    BY <1>2, <2>1, BlamedType DEF IndInv, TypeInv
<1>7. TypeInv'
  BY <1>2, <1>3, <1>5, <1>6 DEF IndInv, TypeInv
<1>8. InHand'
  BY <1>2, <1>3, <1>5 DEF IndInv, InHand, ImageOf, Image, NewImage
<1>9. Unwanted'
  BY <1>2 DEF IndInv, Unwanted, ListedOnce
<1> QED
  BY <1>7, <1>8, <1>9 DEF IndInv

LEMMA NextStep == IndInv /\ [Next]_vars => IndInv'
<1> SUFFICES ASSUME IndInv, [Next]_vars PROVE IndInv'
  OBVIOUS
<1>0. TypeInv /\ InHand /\ inbox \in Seq(Messages) /\ snapshot \in Messages /\ reporting \in BOOLEAN
      /\ failures \in 0..MaxFailures /\ MaxFailures \in Nat
  BY InputsAssumption DEF IndInv, TypeInv
<1>1. CASE CompareFails \/ CompareAborts \/ Return
  <2>1. /\ pc' \in {"recv", "panicked"} /\ removed = <<>> /\ missing = <<>> /\ failures' \in 0..MaxFailures
        /\ UNCHANGED <<containers, inbox, config, removed, missing, verify, target, snapshot, reporting,
                       offers, applied, blamed>>
    BY <1>0, <1>1 DEF CompareFails, CompareAborts, Return, InHand, CallStep, reportVars, historyVars
  <2>2. TypeInv'
    BY <1>0, <2>1 DEF TypeInv, Ids, States
  <2> QED
    BY <2>1, <2>2 DEF IndInv, InHand, Unwanted
<1>2. CASE UNCHANGED vars
  BY <1>0, <1>2, OutsideStep DEF vars, reportVars, historyVars
<1> QED
  BY <1>1, <1>2, RelayStep, RecvStep, CompareStep, RemoveStep, CreateStep, StatusStep
  DEF Next, process

LEMMA Invariance == Spec => []IndInv
BY IndInit, NextStep, PTL DEF Spec

-----------------------------------------------------------------------------
\* Every state has its type: in particular the container that process works on
\* exists, whatever the status manager does meanwhile, and only valid paths are
\* announced (orchestrator.go:89-147).
THEOREM TypeCorrect == Spec => []TypeOK
<1>1. ASSUME IndInv PROVE TypeOK
  <2>1. \A id \in Ids : id \in Nat /\ containers[id].status \in {"Up", "Created", "Exited"}
    BY <1>1 DEF IndInv, TypeInv, Container
  <2>2. pc \in {"inspect", "remove", "start", "describe"} => target \in Ids
    BY <1>1 DEF IndInv, InHand
  <2> QED
    BY <1>1, <2>1, <2>2 DEF IndInv, TypeInv, TypeOK, States
<1> QED
  BY <1>1, Invariance, PTL

\* Whatever is configured and whatever fails: no step takes away a container
\* whose image ends in Envoy's name, nor one whose image the configuration in hand
\* lists in this version only, under a name that is read as it is meant
\* (orchestrator.go:22-36, 89-94; image.go:16 misreads a port without a tag).
THEOREM WantedStay == Spec => RemovesOnlyUnwanted
<1> DEFINE A == \A id \in Ids : id \notin DOMAIN containers' =>
                    ~IsEnvoy(ImageOf(id)) /\ ~ListedOnce(ImageOf(id))
<1>1. ASSUME IndInv, [Next]_vars PROVE A \/ UNCHANGED vars
  <2>1. CASE DOMAIN containers \subseteq DOMAIN containers'
    BY <2>1 DEF Ids
  <2>2. CASE RemoveContainer
    <3>1. pc = "remove" /\ (DOMAIN containers' = Ids \ {target} \/ UNCHANGED containers)
      BY <2>2 DEF RemoveContainer
    <3>2. removed # <<>> /\ ImageOf(target) = Image
      BY <1>1, <3>1 DEF IndInv, InHand
    <3>3. Image = removed[1] /\ 1 \in DOMAIN removed
      BY <1>1, <3>2, HeadAndTail DEF IndInv, TypeInv, Image
    <3>4. ~IsEnvoy(Image) /\ ~ListedOnce(Image)
      BY <1>1, <3>3 DEF IndInv, Unwanted
    <3> QED
      BY <3>1, <3>2, <3>4 DEF Ids
  <2>3. CASE CreateContainer \/ StartContainer
    <3>1. DOMAIN containers \subseteq DOMAIN containers'
      BY <2>3 DEF CreateContainer, StartContainer, Ids
    <3> QED
      BY <2>1, <3>1
  <2>4. CASE \E id \in Ids : StatusStart(id) \/ StatusStop(id)
    BY <2>1, <2>4 DEF StatusStart, StatusStop, Command
  <2>5. CASE \/ \E images \in Configs : SendDesired(images)
             \/ ReportList \/ ReportSend \/ Recv \/ Compare \/ CompareAborts \/ CompareFails \/ Return
    <3>1. UNCHANGED containers
      BY <2>5 DEF SendDesired, ReportList, ReportSend, Recv, Compare, CompareAborts, CompareFails, Return
    <3> QED
      BY <2>1, <3>1
  <2>6. CASE FindContainer \/ InspectContainer \/ RemoveImage \/ Unregister \/ DescribeContainer \/ Register
    <3>1. UNCHANGED containers
      BY <2>6 DEF FindContainer, InspectContainer, RemoveImage, Unregister, DescribeContainer, Register
    <3> QED
      BY <2>1, <3>1
  <2> QED
    BY <1>1, <2>2, <2>3, <2>4, <2>5, <2>6
    DEF Next, process, RemoveImageAndContainer, PullImageAndCreateContainer
<1>2. [][A]_vars => RemovesOnlyUnwanted
  BY PTL DEF RemovesOnlyUnwanted
<1>3. IndInv /\ [Next]_vars => [A]_vars
  BY <1>1
<1> QED
  BY <1>2, <1>3, Invariance, PTL DEF Spec
=============================================================================
