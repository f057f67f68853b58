-------------------------- MODULE ResourcesProofs --------------------------
(***************************************************************************)
(* However many threads and containers a process has, it loads the stress  *)
(* backend at most once and all dictionaries agree about it, and no        *)
(* container ever makes an adapter twice; and however many requests share  *)
(* the embedder while the corpus is rewritten, vectors of two spaces are   *)
(* compared in two cases only.                                             *)
(***************************************************************************)
EXTENDS Resources, FiniteSetTheorems, TLAPS

Places == {"outside", "waiting", "inside", "loading", "done"}

StressTypeOK ==
  /\ lock \in Threads \union {Nobody}
  /\ backend \in Int
  /\ loads \in Nat
  /\ at \in [Threads -> Places]
  /\ found \in [Threads -> Int]

\* Only the holder of the lock is past it, ...
LockIsExclusive == \A t \in Threads : at[t] \in {"inside", "loading"} => lock = t

\* ... and it loads only what is not there yet.
LoadsWhatIsAbsent == \A t \in Threads : at[t] = "loading" => backend = Absent

\* As long as the module remembers nothing, nothing has been loaded or given out.
NothingFromNothing ==
  backend = Absent => loads = 0 /\ \A t \in Threads : found[t] = Absent

StressInv ==
  /\ StressTypeOK
  /\ LockIsExclusive
  /\ LoadsWhatIsAbsent
  /\ NothingFromNothing
  /\ OneStressBackend

\* The invariant holds before any thread has looked.
LEMMA StressInit == Init => StressInv
BY DEF Init, ContainerInit, StressInv, StressTypeOK, Places, LockIsExclusive, LoadsWhatIsAbsent,
       NothingFromNothing, OneStressBackend, Absent

\* A step that leaves the lock, the cache and the dictionaries alone keeps it.
LEMMA StressUnchanged == StressInv /\ UNCHANGED stressVars => StressInv'
BY DEF stressVars, StressInv, StressTypeOK, LockIsExclusive, LoadsWhatIsAbsent,
       NothingFromNothing, OneStressBackend

\* Every step of a thread in its container keeps it: what a thread may load under
\* the lock nobody else can have loaded (ukrainian.py:27-45).
LEMMA StressStep ==
  ASSUME NEW t \in Threads, StressInv, UseContainer(t)
  PROVE  StressInv'
<1> USE DEF StressInv, StressTypeOK, LockIsExclusive, LoadsWhatIsAbsent, NothingFromNothing,
            OneStressBackend, Places, Absent, None, TakeBackend
<1>0. Nobody \notin Threads
  BY ContainerAssumption
<1>1. CASE LookUpBackend(t)
  BY <1>1, <1>0 DEF LookUpBackend
<1>2. CASE AcquireLock(t)
  BY <1>2, <1>0 DEF AcquireLock
<1>3. CASE LookAgain(t)
  <2>1. CASE backend # Absent
    BY <1>3, <1>0, <2>1 DEF LookAgain, SecondLook
  <2>2. CASE backend = Absent
    BY <1>3, <1>0, <2>2 DEF LookAgain, SecondLook
  <2> QED  BY <2>1, <2>2
<1>4. CASE LoadBackend(t)
  <2>1. loads = 0 /\ \A u \in Threads : found[u] = Absent
    BY <1>4 DEF LoadBackend
  <2>2. \A u \in Threads : at'[u] \notin {"inside", "loading"}
    BY <1>4, <1>0 DEF LoadBackend
  <2>3. backend' \in {0, 1} /\ loads' \in {0, 1}
    BY <1>4, <2>1 DEF LoadBackend
  <2>4. \A u \in Threads : found'[u] # Absent => found'[u] = backend'
    BY <1>4, <2>1 DEF LoadBackend
  <2>5. StressTypeOK'
    BY <1>4, <2>3 DEF LoadBackend
  <2> QED  BY <2>2, <2>3, <2>4, <2>5
<1>5. CASE GetCached(t)
  BY <1>5, StressUnchanged DEF GetCached
<1>6. CASE CallFactory(t)
  BY <1>6, StressUnchanged DEF CallFactory
<1>7. CASE Store(t)
  BY <1>7, <1>0 DEF Store
<1> QED  BY <1>1, <1>2, <1>3, <1>4, <1>5, <1>6, <1>7 DEF UseContainer

\* The inductive invariant.
THEOREM StressInvariant == Spec => []StressInv
<1>1. Init => StressInv
  BY StressInit
<1>2. StressInv /\ [Next]_vars => StressInv'
  <2> SUFFICES ASSUME StressInv, [Next]_vars
               PROVE  StressInv'
    OBVIOUS
  <2>1. CASE UNCHANGED vars
    BY <2>1, StressUnchanged DEF vars
  <2>2. CASE AtRest
    BY <2>2, StressUnchanged DEF AtRest, vars
  <2>3. ASSUME NEW t \in Threads, Wire(t)
        PROVE  StressInv'
    BY <2>3, StressStep DEF Wire
  <2>4. CASE WriteCorpus
    BY <2>4, StressUnchanged DEF WriteCorpus
  <2>5. ASSUME NEW w \in Workers, BeginRequest(w) \/ ServeRequest(w)
        PROVE  StressInv'
    BY <2>5, StressUnchanged DEF BeginRequest, ServeRequest, BeginRetrieval, BeginRelevance,
         EncodeNext, LoadModel, ModelEncodes, ModelFails
  <2> QED  BY <2>1, <2>2, <2>3, <2>4, <2>5 DEF Next
<1> QED  BY <1>1, <1>2, PTL DEF Spec

\* At most one backend per process, the same for every dictionary, for any number of
\* threads, containers and requests.
THEOREM OneBackendForAll == Spec => []OneStressBackend
<1>1. StressInv => OneStressBackend
  BY DEF StressInv
<1> QED  BY <1>1, StressInvariant, PTL

-----------------------------------------------------------------------------
\* Vectors and their spaces.

\* Is a vector stored?  A set of its own, which most steps need not open.
Flags == BOOLEAN

\* A list in which every place has the same value is a list of such values.
LEMMA SameEverywhere ==
  ASSUME NEW T, NEW S, NEW s \in Seq(T), NEW v \in S
  PROVE  [i \in DOMAIN s |-> v] \in Seq(S)
<1>1. DOMAIN s = 1 .. Len(s) /\ Len(s) \in Nat
  OBVIOUS
<1>2. [i \in 1 .. Len(s) |-> v] \in Seq(S)
  BY <1>1
<1>3. QED
  BY <1>1, <1>2

\* The lists the program makes itself.
LEMMA FlagLists ==
  /\ TRUE \in Flags /\ FALSE \in Flags
  /\ <<>> \in Seq(Flags) /\ <<FALSE>> \in Seq(Flags) /\ <<FALSE, FALSE>> \in Seq(Flags)
<1>1. TRUE \in Flags /\ FALSE \in Flags
  BY DEF Flags
<1>2. ASSUME NEW S, NEW v \in S PROVE <<>> \in Seq(S) /\ <<v>> \in Seq(S) /\ <<v, v>> \in Seq(S)
  OBVIOUS
<1>3. QED
  BY <1>1, <1>2

\* What is at a place of a list is in its range.
LEMMA PlacedInRange ==
  ASSUME NEW T, NEW s \in Seq(T), NEW i \in 1 .. Len(s)
  PROVE  s[i] \in Range(s)
BY DEF Range

\* The corpora say of each excerpt whether its vector is stored.
LEMMA CorporaOfFlags == \A c \in Corpora : c \in Seq(Flags)
BY ResourcesAssumption, Zenon DEF Flags

Comparisons ==
  [step : {"idle", "begun", "next", "load", "model", "finished"},
   kind : {"none", "retrieval", "relevance"}, docs : Seq(Flags),
   vectors : Seq({"labse", "offline"}), began : Flags]

SpaceTypeOK ==
  /\ corpus.stored \in Seq(Flags)
  /\ writer.stored \in Seq(Flags)
  /\ usingFallback \in BOOLEAN
  /\ job \in [Workers -> Comparisons]

\* While a comparison goes on there is a text to encode; ...
MoreToCome(j) == j.step \in {"next", "load", "model"} => Len(j.vectors) <= Len(j.docs)

\* ... one that began with the fallback in use goes on with it; ...
FallbackIsSticky(j, switched) == j.began => switched

\* ... nobody tries the model who began after the switch or is offline; ...
ModelIsTried(j) == j.step \in {"load", "model"} => ~ Offline /\ ~ j.began

\* ... a stand-in vector needs a reason, ...
StandInHasReason(j, switched) == "offline" \in Range(j.vectors) => Offline \/ switched

\* ... and so does a vector of the model.
ModelHasReason(j) ==
  "labse" \in Range(j.vectors) => TRUE \in Range(j.docs) \/ (~ Offline /\ ~ j.began)

Explained(j, switched) ==
  /\ MoreToCome(j)
  /\ FallbackIsSticky(j, switched)
  /\ ModelIsTried(j)
  /\ StandInHasReason(j, switched)
  /\ ModelHasReason(j)

SpaceInv == SpaceTypeOK /\ \A w \in Workers : Explained(job[w], usingFallback)

\* A comparison that has no vector yet explains itself.
LEMMA NothingToExplain ==
  ASSUME NEW j \in Comparisons, j.vectors = <<>>, j.step \notin {"load", "model"},
         NEW switched, j.began => switched
  PROVE  Explained(j, switched)
BY DEF Explained, MoreToCome, FallbackIsSticky, ModelIsTried, StandInHasReason, ModelHasReason,
       Range, Comparisons

\* The vectors after one more are those before and the new one.
LEMMA OneMoreVector ==
  ASSUME NEW j \in Comparisons, NEW space \in {"labse", "offline"}
  PROVE  /\ WithVector(j, space) \in Comparisons
         /\ Range(WithVector(j, space).vectors) = Range(j.vectors) \cup {space}
         /\ WithVector(j, space).docs = j.docs /\ WithVector(j, space).began = j.began
         /\ WithVector(j, space).step \in {"next", "finished"}
         /\ MoreToCome(j) /\ j.step \in {"next", "load", "model"}
              => MoreToCome(WithVector(j, space))
<1> DEFINE after == WithVector(j, space)
<1>1. /\ after.vectors = Append(j.vectors, space) /\ after.docs = j.docs /\ after.began = j.began
      /\ after.kind = j.kind
      /\ after.step = IF Len(j.vectors) = Len(j.docs) THEN "finished" ELSE "next"
  BY DEF WithVector, Comparisons
<1>2. j.vectors \in Seq({"labse", "offline"}) /\ j.docs \in Seq(Flags)
  BY DEF Comparisons
<1>3. /\ after.vectors \in Seq({"labse", "offline"})
      /\ Len(after.vectors) = Len(j.vectors) + 1
      /\ Range(after.vectors) = Range(j.vectors) \cup {space}
  <2>1. after.vectors = Append(j.vectors, space)
    BY <1>1
  <2> HIDE DEF after
  <2> QED
    BY <1>2, <2>1, SMTT(30) DEF Range
<1>4. after \in Comparisons
  BY <1>1, <1>2, <1>3 DEF WithVector, Comparisons
<1>5. MoreToCome(j) /\ j.step \in {"next", "load", "model"} => MoreToCome(after)
  BY <1>1, <1>2, <1>3 DEF MoreToCome
<1>6. QED
  BY <1>1, <1>3, <1>4, <1>5

\* The comparison of a worker who has none.
LEMMA NoJobYet ==
  /\ NoJob \in Comparisons
  /\ NoJob.vectors = <<>> /\ NoJob.step = "idle" /\ ~ NoJob.began
<1>1. ASSUME NEW S, NEW D, NEW V, NEW v \in S, NEW d \in D, NEW e \in V
      PROVE  [step |-> "idle", kind |-> "none", docs |-> d, vectors |-> e, began |-> v]
               \in [step : {"idle", "begun", "next", "load", "model", "finished"},
                    kind : {"none", "retrieval", "relevance"}, docs : D,
                    vectors : V, began : S]
  OBVIOUS
<1>2. <<>> \in Seq({"labse", "offline"})
  OBVIOUS
<1>3. NoJob \in Comparisons
  BY <1>1, <1>2, FlagLists DEF NoJob, Comparisons
<1>4. QED
  BY <1>3 DEF NoJob

\* The invariant holds before the first request.
LEMMA SpaceInit == Init => SpaceInv
<1> SUFFICES ASSUME Init PROVE SpaceInv
  OBVIOUS
<1>1. NoJob \in Comparisons /\ NoJob.vectors = <<>> /\ NoJob.step = "idle" /\ ~ NoJob.began
  BY NoJobYet
<1>2. SpaceTypeOK
  <2>1. corpus.stored \in Seq(Flags)
    <3>1. CASE corpus = MissingCorpus
      BY <3>1, FlagLists DEF MissingCorpus
    <3>2. CASE corpus \in {[state |-> "whole", stored |-> c] : c \in Corpora}
      <4>1. PICK c \in Corpora : corpus = [state |-> "whole", stored |-> c]
        BY <3>2
      <4>2. QED
        BY <4>1, CorporaOfFlags
    <3>3. QED
      BY <3>1, <3>2 DEF Init
  <2>2. writer.stored \in Seq(Flags)
    BY DEF Init, NotWriting
  <2>3. QED
    BY <1>1, <2>1, <2>2 DEF Init, SpaceTypeOK
<1>3. \A w \in Workers : job[w] = NoJob
  BY DEF Init
<1>4. QED
  BY <1>1, <1>2, <1>3, NothingToExplain DEF SpaceInv

\* What the comparisons rest on does not change: neither do their explanations.
LEMMA SpaceUnchanged ==
  ASSUME SpaceInv, UNCHANGED <<usingFallback, job>>,
         corpus'.stored \in Seq(Flags), writer'.stored \in Seq(Flags)
  PROVE  SpaceInv'
BY DEF SpaceInv, SpaceTypeOK, Explained, MoreToCome, FallbackIsSticky, ModelIsTried,
       StandInHasReason, ModelHasReason

\* A worker goes on with a comparison that explains itself: the others still do, even
\* if he has switched to the fallback.
LEMMA WorkerGoesOn ==
  ASSUME SpaceInv, NEW w \in Workers, NEW j \in Comparisons,
         job' = [job EXCEPT ![w] = j],
         UNCHANGED corpusVars,
         usingFallback' \in BOOLEAN, usingFallback => usingFallback',
         Explained(j, usingFallback')
  PROVE  SpaceInv'
<1>1. SpaceTypeOK'
  BY DEF SpaceInv, SpaceTypeOK, corpusVars
<1>2. ASSUME NEW u \in Workers PROVE Explained(job'[u], usingFallback')
  <2>1. CASE u = w
    BY <2>1 DEF SpaceInv, SpaceTypeOK, Explained, MoreToCome, FallbackIsSticky, ModelIsTried,
       StandInHasReason, ModelHasReason
  <2>2. CASE u # w
    <3>1. job'[u] = job[u] /\ Explained(job[u], usingFallback)
      BY <2>2 DEF SpaceInv, SpaceTypeOK
    <3>2. QED
      BY <3>1 DEF Explained, MoreToCome, FallbackIsSticky, ModelIsTried, StandInHasReason,
         ModelHasReason
  <2>3. QED
    BY <2>1, <2>2
<1>3. QED
  BY <1>1, <1>2 DEF SpaceInv

\* The runners change what is stored, and nothing else.
LEMMA WritersKeep == ASSUME SpaceInv, WriteCorpus PROVE SpaceInv'
<1>1. UNCHANGED <<usingFallback, job>>
  BY DEF WriteCorpus, embedderVars, jobVars
<1>2. corpus'.stored \in Seq(Flags) /\ writer'.stored \in Seq(Flags)
  <2>1. corpus.stored \in Seq(Flags) /\ writer.stored \in Seq(Flags)
    BY DEF SpaceInv, SpaceTypeOK
  <2>2. CASE StartEmbeddings
    <3>1. writer'.stored = [i \in DOMAIN corpus.stored |-> TRUE]
      BY <2>2 DEF StartEmbeddings
    <3>2. [i \in DOMAIN corpus.stored |-> TRUE] \in Seq(Flags)
      BY <2>1, SameEverywhere, FlagLists
    <3>3. QED
      BY <2>1, <2>2, <3>1, <3>2 DEF StartEmbeddings
  <2>3. CASE StartCorpus
    <3>1. PICK c \in Corpora : writer'.stored = [i \in DOMAIN c |-> FALSE]
      BY <2>3 DEF StartCorpus
    <3>2. c \in Seq(Flags)
      BY CorporaOfFlags
    <3>3. [i \in DOMAIN c |-> FALSE] \in Seq(Flags)
      BY <3>2, SameEverywhere, FlagLists
    <3>4. QED
      BY <2>1, <2>3, <3>1, <3>3 DEF StartCorpus
  <2>4. CASE OpenCorpus
    <3>1. corpus'.stored = <<>> /\ writer' = [writer EXCEPT !.step = "opened"]
      BY <2>4 DEF OpenCorpus
    <3>2. writer'.stored = writer.stored
      BY <3>1
    <3>3. QED
      BY <2>1, <3>1, <3>2
  <2>5. CASE FillCorpus
    BY <2>1, <2>5 DEF FillCorpus, NotWriting
  <2>6. CASE WriterStops
    BY <2>1, <2>6 DEF WriterStops, NotWriting
  <2>7. QED
    BY <2>2, <2>3, <2>4, <2>5, <2>6 DEF WriteCorpus
<1>3. QED
  BY <1>1, <1>2, SpaceUnchanged

\* A comparison begins without vectors.
LEMMA CompareKeeps ==
  ASSUME SpaceInv, NEW w \in Workers, NEW kind \in {"retrieval", "relevance"},
         NEW docs \in Seq(Flags), Compare(w, kind, docs),
         UNCHANGED <<corpusVars, usingFallback>>
  PROVE  SpaceInv'
<1> DEFINE j == [step |-> "next", kind |-> kind, docs |-> docs, vectors |-> <<>>,
                 began |-> usingFallback]
<1>1. /\ usingFallback \in BOOLEAN /\ usingFallback' = usingFallback
      /\ UNCHANGED corpusVars
  BY DEF SpaceInv, SpaceTypeOK
<1>2. j \in Comparisons
  <2>1. usingFallback \in Flags
    BY <1>1 DEF Flags
  <2>2. <<>> \in Seq({"labse", "offline"})
    OBVIOUS
  <2>3. QED
    BY <2>1, <2>2 DEF Comparisons
<1>3. j.vectors = <<>> /\ j.step = "next" /\ j.began = usingFallback /\ Len(j.docs) \in Nat
  OBVIOUS
<1>4. job' = [job EXCEPT ![w] = j]
  BY DEF Compare
<1> HIDE DEF j
<1>5. usingFallback' \in BOOLEAN /\ (usingFallback => usingFallback')
  BY <1>1
<1>6. Explained(j, usingFallback')
  BY <1>2, <1>3, <1>5, NothingToExplain
<1>7. QED
  BY <1>1, <1>2, <1>4, <1>5, <1>6, WorkerGoesOn

\* A comparison gets a vector that has its reason.
LEMMA VectorKeeps ==
  ASSUME SpaceInv, NEW w \in Workers, NEW space \in {"labse", "offline"},
         job' = [job EXCEPT ![w] = WithVector(job[w], space)],
         UNCHANGED corpusVars,
         usingFallback' \in BOOLEAN, usingFallback => usingFallback',
         job[w].step \in {"next", "load", "model"},
         space = "offline" => Offline \/ usingFallback',
         space = "labse" => TRUE \in Range(job[w].docs) \/ (~ Offline /\ ~ job[w].began)
  PROVE  SpaceInv'
<1> DEFINE j == WithVector(job[w], space)
<1>1. job[w] \in Comparisons /\ Explained(job[w], usingFallback)
  BY DEF SpaceInv, SpaceTypeOK
<1>2. /\ j \in Comparisons /\ Range(j.vectors) = Range(job[w].vectors) \cup {space}
      /\ j.docs = job[w].docs /\ j.began = job[w].began /\ j.step \in {"next", "finished"}
      /\ MoreToCome(j)
  BY <1>1, OneMoreVector DEF Explained
<1> HIDE DEF j
<1>3. MoreToCome(j) /\ ModelIsTried(j) /\ FallbackIsSticky(j, usingFallback')
  BY <1>1, <1>2 DEF Explained, MoreToCome, ModelIsTried, FallbackIsSticky
<1>4. StandInHasReason(j, usingFallback')
  BY <1>1, <1>2 DEF Explained, StandInHasReason
<1>5. ModelHasReason(j)
  BY <1>1, <1>2 DEF Explained, ModelHasReason
<1>6. Explained(j, usingFallback')
  BY <1>3, <1>4, <1>5 DEF Explained
<1>7. QED
  BY <1>2, <1>6, WorkerGoesOn DEF j

\* A worker moves on without a vector.
LEMMA MoveKeeps ==
  ASSUME SpaceInv, NEW w \in Workers, NEW j \in Comparisons,
         job' = [job EXCEPT ![w] = j],
         UNCHANGED <<corpusVars, usingFallback>>,
         j.docs = job[w].docs, j.vectors = job[w].vectors, j.began = job[w].began,
         \/ j.step = "finished"
         \/ /\ j.step \in {"load", "model"} /\ job[w].step \in {"next", "load", "model"}
            /\ ~ Offline /\ ~ job[w].began
  PROVE  SpaceInv'
<1>1. /\ Explained(job[w], usingFallback) /\ usingFallback \in BOOLEAN
      /\ usingFallback' = usingFallback /\ UNCHANGED corpusVars
  BY DEF SpaceInv, SpaceTypeOK
<1>2. usingFallback' \in BOOLEAN /\ (usingFallback => usingFallback')
  BY <1>1
<1>3. MoreToCome(j) /\ ModelIsTried(j)
  BY <1>1 DEF Explained, MoreToCome, ModelIsTried
<1>4. FallbackIsSticky(j, usingFallback') /\ StandInHasReason(j, usingFallback')
  BY <1>1, <1>2 DEF Explained, FallbackIsSticky, StandInHasReason
<1>5. ModelHasReason(j)
  BY <1>1 DEF Explained, ModelHasReason
<1>6. Explained(j, usingFallback')
  BY <1>3, <1>4, <1>5 DEF Explained
<1>7. QED
  BY <1>1, <1>2, <1>6, WorkerGoesOn

\* A request begins.
LEMMA BeginKeeps == ASSUME SpaceInv, NEW w \in Workers, BeginRequest(w) PROVE SpaceInv'
<1> DEFINE j == [NoJob EXCEPT !.step = "begun"]
<1>1. j \in Comparisons /\ j.vectors = <<>> /\ j.step = "begun" /\ ~ j.began
  BY NoJobYet DEF Comparisons
<1>2. job' = [job EXCEPT ![w] = j] /\ UNCHANGED corpusVars /\ usingFallback' = usingFallback
  BY DEF BeginRequest, embedderVars
<1> HIDE DEF j
<1>3. Explained(j, usingFallback')
  BY <1>1 DEF Explained, MoreToCome, FallbackIsSticky, ModelIsTried, StandInHasReason,
     ModelHasReason, Range
<1>4. QED
  BY <1>1, <1>2, <1>3, WorkerGoesOn DEF SpaceInv, SpaceTypeOK

\* A request goes on.
LEMMA ServingKeeps == ASSUME SpaceInv, NEW w \in Workers, ServeRequest(w) PROVE SpaceInv'
<1> DEFINE j == job[w]
<1>1. j \in Comparisons /\ Explained(j, usingFallback) /\ usingFallback \in BOOLEAN
      /\ corpus.stored \in Seq(Flags)
  BY DEF SpaceInv, SpaceTypeOK
<1>2. CASE BeginRetrieval(w)
  <2>1. UNCHANGED <<corpusVars, usingFallback>>
    BY <1>2 DEF BeginRetrieval, embedderVars
  <2>2. CASE CanRead
    <3>1. (IF repo = "demo" THEN <<FALSE, FALSE>> ELSE corpus.stored) \in Seq(Flags)
      BY <1>1, FlagLists
    <3>2. Compare(w, "retrieval", IF repo = "demo" THEN <<FALSE, FALSE>> ELSE corpus.stored)
      BY <1>2, <2>2 DEF BeginRetrieval
    <3>3. QED
      BY <2>1, <3>1, <3>2, CompareKeeps
  <2>3. CASE ~ CanRead
    <3> DEFINE k == [job[w] EXCEPT !.step = "finished", !.kind = "retrieval"]
    <3>1. job' = [job EXCEPT ![w] = k]
      BY <1>1, <1>2, <2>3 DEF BeginRetrieval, SpaceInv, SpaceTypeOK
    <3>2. k \in Comparisons /\ k.step = "finished" /\ k.docs = j.docs /\ k.vectors = j.vectors
          /\ k.began = j.began
      BY <1>1 DEF Comparisons
    <3> HIDE DEF k
    <3>3. QED
      BY <2>1, <3>1, <3>2, MoveKeeps
  <2>4. QED
    BY <2>2, <2>3
<1>3. CASE BeginRelevance(w)
  <2>1. Compare(w, "relevance", <<FALSE>>) /\ UNCHANGED <<corpusVars, usingFallback>>
    BY <1>3 DEF BeginRelevance, embedderVars
  <2>2. QED
    BY <2>1, FlagLists, CompareKeeps
<1>4. CASE EncodeNext(w)
  <2>1. j.step = "next" /\ UNCHANGED <<corpusVars, usingFallback>>
    BY <1>4 DEF EncodeNext, embedderVars
  <2>2. CASE HasStoredVector(j)
    <3>1. job' = [job EXCEPT ![w] = WithVector(job[w], "labse")]
      BY <1>4, <2>2 DEF EncodeNext
    <3>2. TRUE \in Range(j.docs)
      <4>1. Len(j.vectors) \in 1 .. Len(j.docs)
        BY <1>1, <2>1, <2>2 DEF HasStoredVector, Explained, MoreToCome, Comparisons
      <4>2. j.docs[Len(j.vectors)] = TRUE
        BY <1>1, <2>2, <4>1 DEF HasStoredVector, Comparisons
      <4>3. QED
        BY <1>1, <4>1, <4>2, PlacedInRange DEF Comparisons
    <3>3. QED
      BY <1>1, <2>1, <3>1, <3>2, VectorKeeps
  <2>3. CASE ~ HasStoredVector(j) /\ (Offline \/ usingFallback)
    <3>1. job' = [job EXCEPT ![w] = WithVector(job[w], "offline")]
      BY <1>4, <2>3 DEF EncodeNext
    <3>2. QED
      BY <1>1, <2>1, <2>3, <3>1, VectorKeeps
  <2>4. CASE ~ HasStoredVector(j) /\ ~ Offline /\ ~ usingFallback
    <3> DEFINE k == [job[w] EXCEPT !.step = IF modelLoaded THEN "model" ELSE "load"]
    <3>1. job' = [job EXCEPT ![w] = k]
      BY <1>4, <2>4 DEF EncodeNext
    <3>2. k \in Comparisons /\ k.step \in {"load", "model"} /\ k.docs = j.docs
          /\ k.vectors = j.vectors /\ k.began = j.began
      BY <1>1 DEF Comparisons
    <3>3. ~ j.began
      BY <1>1, <2>4 DEF Explained, FallbackIsSticky
    <3> HIDE DEF k
    <3>4. QED
      BY <2>1, <2>4, <3>1, <3>2, <3>3, MoveKeeps
  <2>5. QED
    BY <2>2, <2>3, <2>4
<1>5. CASE LoadModel(w)
  <2> DEFINE k == [job[w] EXCEPT !.step = "model"]
  <2>1. job' = [job EXCEPT ![w] = k] /\ UNCHANGED <<corpusVars, usingFallback>> /\ j.step = "load"
    BY <1>1, <1>5 DEF LoadModel, SpaceInv, SpaceTypeOK
  <2>2. k \in Comparisons /\ k.step = "model" /\ k.docs = j.docs
        /\ k.vectors = j.vectors /\ k.began = j.began
    BY <1>1 DEF Comparisons
  <2>3. ~ Offline /\ ~ j.began
    BY <1>1, <2>1 DEF Explained, ModelIsTried
  <2> HIDE DEF k
  <2>4. QED
    BY <2>1, <2>2, <2>3, MoveKeeps
<1>6. CASE ModelEncodes(w)
  <2>1. /\ job' = [job EXCEPT ![w] = WithVector(job[w], "labse")] /\ j.step = "model"
        /\ UNCHANGED <<corpusVars, usingFallback>>
    BY <1>6 DEF ModelEncodes, embedderVars
  <2>2. ~ Offline /\ ~ j.began
    BY <1>1, <2>1 DEF Explained, ModelIsTried
  <2>3. QED
    BY <1>1, <2>1, <2>2, VectorKeeps
<1>7. CASE ModelFails(w)
  <2>1. /\ job' = [job EXCEPT ![w] = WithVector(job[w], "offline")]
        /\ j.step \in {"load", "model"}
        /\ usingFallback' = TRUE /\ UNCHANGED corpusVars
    BY <1>7 DEF ModelFails, FallBack
  <2>2. QED
    BY <2>1, VectorKeeps
<1>8. QED
  BY <1>2, <1>3, <1>4, <1>5, <1>6, <1>7 DEF ServeRequest

\* The invariant of the comparisons.
THEOREM SpaceInvariant == Spec => []SpaceInv
<1>1. Init => SpaceInv
  BY SpaceInit
<1>2. SpaceInv /\ [Next]_vars => SpaceInv'
  <2> SUFFICES ASSUME SpaceInv, [Next]_vars PROVE SpaceInv'
    OBVIOUS
  <2>1. CASE UNCHANGED <<corpusVars, embedderVars, jobVars>>
    BY <2>1, SpaceUnchanged DEF corpusVars, embedderVars, jobVars, SpaceInv, SpaceTypeOK
  <2>2. CASE WriteCorpus
    BY <2>2, WritersKeep
  <2>3. ASSUME NEW w \in Workers, BeginRequest(w) \/ ServeRequest(w) PROVE SpaceInv'
    BY <2>3, BeginKeeps, ServingKeeps
  <2>4. QED
    BY <2>1, <2>2, <2>3 DEF Next, AtRest, Wire, vars
<1>3. QED
  BY <1>1, <1>2, PTL DEF Spec

\* Vectors of two spaces are compared in two cases only, for any number of requests,
\* workers, excerpts and rewrites of the corpus (composite.py:38-47,
\* semantic_retriever.py:21-41, semantic_relevance.py:37-49).
THEOREM SpacesExplained == Spec => []ComparedInOneSpace
<1>1. ASSUME SpaceInv PROVE ComparedInOneSpace
  <2> SUFFICES ASSUME NEW w \in Workers, Cardinality(Range(job[w].vectors)) > 1
               PROVE  \/ ~ job[w].began /\ usingFallback
                      \/ (job[w].began \/ Offline) /\ TRUE \in Range(job[w].docs)
    BY DEF ComparedInOneSpace
  <2> DEFINE spaces == Range(job[w].vectors)
  <2>1. job[w] \in Comparisons /\ Explained(job[w], usingFallback)
    BY <1>1 DEF SpaceInv, SpaceTypeOK
  <2>2. spaces \subseteq {"labse", "offline"}
    BY <2>1 DEF Comparisons, Range
  <2>3. "labse" \in spaces /\ "offline" \in spaces
    <3>1. ASSUME NEW one, spaces \subseteq {one} PROVE FALSE
      <4>1. IsFiniteSet({one}) /\ Cardinality({one}) = 1
        BY FS_Singleton
      <4>2. Cardinality(spaces) <= 1 /\ Cardinality(spaces) \in Nat
        BY <3>1, <4>1, FS_Subset, FS_CardinalityType
      <4>3. QED
        BY <4>2
    <3>2. QED
      BY <2>2, <3>1
  <2>4. Offline \/ usingFallback
    BY <2>1, <2>3 DEF Explained, StandInHasReason
  <2>5. TRUE \in Range(job[w].docs) \/ (~ Offline /\ ~ job[w].began)
    BY <2>1, <2>3 DEF Explained, ModelHasReason
  <2>6. QED
    BY <2>1, <2>4, <2>5 DEF Explained, FallbackIsSticky
<1>2. QED
  BY <1>1, SpaceInvariant, PTL

-----------------------------------------------------------------------------
(***************************************************************************)
(* The object graph                                                        *)
(***************************************************************************)

\* How deep an adapter is in the graph: what its factory asks for is less deep.
Depth(name) ==
  CASE name \in {"stress_resolver", "syllable_flag_strategy", "line_feedback_builder",
                 "metric_repo", "retriever", "llm", "results_writer", "stanza_sampler"} -> 1
    [] name \in {"prosody", "rhyme_pair_analyzer", "provider_info"} -> 2
    [] name \in {"bsp_meter_validator", "meter_validator", "rhyme_validator"} -> 3
    [] name \in {"poem_validator", "feedback_cycle", "metric_registry",
                 "meter_detector", "rhyme_detector"} -> 4
    [] name \in {"feedback_iterator", "final_metrics_stage"} -> 5
    [] name \in {"stage_registrations"} -> 6
    [] name \in {"stage_factory"} -> 7
    [] name \in {"generation_pipeline_inner", "evaluation_pipeline"} -> 8
    [] name \in {"poem_generation_pipeline"} -> 9
    [] OTHER -> 0

\* A container asks only for adapters there are, each less deep than the one it is for.
Grounded(part) ==
  \A name \in DOMAIN part : \A need \in Range(part[name]) :
    need \in Adapters /\ Depth(need) < Depth(name)

Keys == Nat \X Adapters

\* What the factory of an adapter asks a container of m for.
NeedsOf(m, key) == Ask(key[1], Getters[(m \in Injected)][key[2]])

-----------------------------------------------------------------------------
(***************************************************************************)
(* Containers                                                              *)
(***************************************************************************)

Calls == [key : Keys, needs : Seq(Keys)]

ContainerTypeOK ==
  /\ agenda \in [Threads -> Seq(Keys)]
  /\ factory \in [Threads -> Seq(Calls)]
  /\ cache \in [Mains -> Seq(Keys)]

\* A container holds an adapter once, and after what it is built from.
BuiltInOrder(m) ==
  /\ \A i, j \in DOMAIN cache[m] : cache[m][i] = cache[m][j] => i = j
  /\ \A i \in DOMAIN cache[m] : \A need \in Range(NeedsOf(m, cache[m][i])) :
       \E j \in DOMAIN cache[m] : j < i /\ cache[m][j] = need

\* A factory that is running makes what the container does not hold yet, from what it
\* holds and what the factory still asks for, ...
Underway(t, call, held) ==
  /\ call.key \notin held
  /\ Range(call.needs) \subseteq Range(NeedsOf(t, call.key))
  /\ Range(NeedsOf(t, call.key)) \subseteq held \union Range(call.needs)

\* ... and the factories it has called make what is less deep, the next one what it
\* asks for first.
Nested(t, stack, held) ==
  /\ \A i \in DOMAIN stack : Underway(t, stack[i], held)
  /\ \A i, j \in DOMAIN stack : i < j =>
       /\ stack[i].needs # <<>>
       /\ Depth(stack[j].key[2]) < Depth(stack[i].key[2])
  /\ \A i \in DOMAIN stack : i + 1 \in DOMAIN stack => Head(stack[i].needs) = stack[i + 1].key

\* A thread runs factories for what its program asks for.
Building(t) ==
  /\ factory[t] # <<>> => agenda[t] # <<>>
  /\ Nested(t, factory[t], Range(cache[t]))

\* A request never makes an adapter: the one it asks for was made before it came.
OnlyAsks(w) ==
  /\ factory[w] = <<>>
  /\ agenda[w] # <<>> =>
       agenda[w] = Ask(1, <<"metric_registry">>) /\ <<1, "metric_registry">> \in Range(cache[App])

ContainerInv ==
  /\ ContainerTypeOK
  /\ \A m \in Mains : BuiltInOrder(m) /\ Building(m)
  /\ \A w \in Workers : OnlyAsks(w)

-----------------------------------------------------------------------------

\* The adapters, part by part; what is injected is no other adapter.
LEMMA AdaptersByPart ==
  /\ \A name : name \in Adapters <=>
       \/ name \in DOMAIN Primitives \/ name \in DOMAIN Validation
       \/ name \in DOMAIN DataPlane \/ name \in DOMAIN LLMStack(FALSE)
       \/ name \in DOMAIN PipelineStages \/ name \in DOMAIN CalculatorRegistry
       \/ name \in DOMAIN Reporting \/ name \in DOMAIN Evaluation
       \/ name \in DOMAIN DetectionAdapters
  /\ \A i \in BOOLEAN : DOMAIN LLMStack(i) = DOMAIN LLMStack(FALSE)
  BY DEF Parts, Adapters, LLMStack

\* The adapters by name.
LEMMA AdapterNames ==
  \A name \in
   {"clock", "delayer", "text_processor", "string_similarity", "stress_dict",
    "syllable_counter", "phonetic_transcriber", "meter_canonicalizer",
    "meter_template_provider", "weak_stress_lexicon", "bsp_algorithm",
    "rhyme_scheme_extractor", "feedback_formatter", "theme_repo", "embedder",
    "llm_factory", "poem_output_sanitizer", "poem_extractor", "llm_call_recorder",
    "regeneration_prompt_builder", "prompt_builder", "regeneration_merger",
    "iteration_stop_policy", "skip_policy", "stage_record_builder", "reporter",
    "batch_results_writer", "tracer_factory", "http_error_mapper",
    "evaluation_aggregator", "scenario_registry", "stress_resolver",
    "syllable_flag_strategy", "line_feedback_builder", "metric_repo", "retriever",
    "llm", "results_writer", "stanza_sampler", "prosody", "rhyme_pair_analyzer",
    "provider_info", "bsp_meter_validator", "meter_validator", "rhyme_validator",
    "poem_validator", "feedback_cycle", "metric_registry", "meter_detector",
    "rhyme_detector", "feedback_iterator", "final_metrics_stage",
    "stage_registrations", "stage_factory", "generation_pipeline_inner",
    "evaluation_pipeline", "poem_generation_pipeline"} : name \in Adapters
  BY AdaptersByPart DEF Primitives, Validation, DataPlane, LLMStack, PipelineStages,
     CalculatorRegistry, Reporting, Evaluation, DetectionAdapters

\* The graph has no cycle, part by part.
LEMMA PartsAreGrounded == \A i \in BOOLEAN : \A part \in Parts(i) : Grounded(part)
<1>1. Grounded(Primitives)
  BY AdapterNames DEF Grounded, Primitives, Depth, Range
<1>2. Grounded(Validation)
  BY AdapterNames DEF Grounded, Validation, Depth, Range
<1>3. Grounded(DataPlane)
  BY AdapterNames DEF Grounded, DataPlane, Depth, Range
<1>4. \A i \in BOOLEAN : Grounded(LLMStack(i))
  BY AdapterNames DEF Grounded, LLMStack, Depth, Range
<1>5. Grounded(PipelineStages)
  BY AdapterNames DEF Grounded, PipelineStages, Depth, Range
<1>6. Grounded(CalculatorRegistry)
  BY AdapterNames DEF Grounded, CalculatorRegistry, Depth, Range
<1>7. Grounded(Reporting)
  BY AdapterNames DEF Grounded, Reporting, Depth, Range
<1>8. Grounded(Evaluation)
  BY AdapterNames DEF Grounded, Evaluation, Depth, Range
<1>9. Grounded(DetectionAdapters)
  BY AdapterNames DEF Grounded, DetectionAdapters, Depth, Range
<1> QED
  BY <1>1, <1>2, <1>3, <1>4, <1>5, <1>6, <1>7, <1>8, <1>9 DEF Parts

\* The entries of a part are lists.
Listed(part) ==
  \A name \in DOMAIN part :
    DOMAIN part[name] = 1 .. Len(part[name]) /\ Len(part[name]) \in Nat

\* Every part lists what its adapters are built from.
LEMMA PartsAreListed == \A i \in BOOLEAN : \A part \in Parts(i) : Listed(part)
<1>1. Listed(Primitives)
  BY DEF Listed, Primitives
<1>2. Listed(Validation)
  BY DEF Listed, Validation
<1>3. Listed(DataPlane)
  BY DEF Listed, DataPlane
<1>4. \A i \in BOOLEAN : Listed(LLMStack(i))
  BY DEF Listed, LLMStack
<1>5. Listed(PipelineStages)
  BY DEF Listed, PipelineStages
<1>6. Listed(CalculatorRegistry)
  BY DEF Listed, CalculatorRegistry
<1>7. Listed(Reporting)
  BY DEF Listed, Reporting
<1>8. Listed(Evaluation)
  BY DEF Listed, Evaluation
<1>9. Listed(DetectionAdapters)
  BY DEF Listed, DetectionAdapters
<1> QED
  BY <1>1, <1>2, <1>3, <1>4, <1>5, <1>6, <1>7, <1>8, <1>9 DEF Parts

\* Depths are numbers.
LEMMA DepthIsNat == \A name : Depth(name) \in Nat
  BY DEF Depth

\* What a getter leads to is an entry of a part.
LEMMA GetterOfPart ==
  ASSUME NEW i \in BOOLEAN, NEW name \in Adapters
  PROVE  \E part \in Parts(i) : name \in DOMAIN part /\ Getters[i][name] = part[name]
<1>1. \E part \in Parts(i) : name \in DOMAIN part
  BY AdaptersByPart DEF Parts
<1>2. Getters[i][name] = (CHOOSE part \in Parts(i) : name \in DOMAIN part)[name]
  BY DEF Getters
<1> QED
  BY <1>1, <1>2

\* What an adapter is built from are adapters less deep than it.
LEMMA NeedsLieDeeper ==
  ASSUME NEW m, NEW key \in Keys
  PROVE  /\ NeedsOf(m, key) \in Seq(Keys)
         /\ \A need \in Range(NeedsOf(m, key)) :
              need \in Keys /\ Depth(need[2]) < Depth(key[2])
<1> DEFINE i == m \in Injected
           names == Getters[i][key[2]]
<1>1. i \in BOOLEAN /\ key[1] \in Nat /\ key[2] \in Adapters
  BY DEF Keys
<1>2. PICK part \in Parts(i) : key[2] \in DOMAIN part /\ names = part[key[2]]
  BY <1>1, GetterOfPart
<1>3. /\ DOMAIN names = 1 .. Len(names) /\ Len(names) \in Nat
      /\ \A need \in Range(names) : need \in Adapters /\ Depth(need) < Depth(key[2])
  BY <1>1, <1>2, PartsAreGrounded, PartsAreListed DEF Grounded, Listed
<1>4. NeedsOf(m, key) = [k \in DOMAIN names |-> <<key[1], names[k]>>]
  BY DEF NeedsOf, Ask
<1> HIDE DEF names
<1>5. \A k \in DOMAIN names : names[k] \in Adapters /\ Depth(names[k]) < Depth(key[2])
  BY <1>3 DEF Range
<1>6. DOMAIN names = 1 .. Len(names) /\ Len(names) \in Nat
  BY <1>3
<1>7. NeedsOf(m, key) \in Seq(Keys)
  BY <1>1, <1>4, <1>5, <1>6 DEF Keys
<1>8. ASSUME NEW need \in Range(NeedsOf(m, key)) PROVE need \in Keys /\ Depth(need[2]) < Depth(key[2])
  <2>1. PICK k \in DOMAIN names : need = <<key[1], names[k]>>
    BY <1>4 DEF Range
  <2> QED
    BY <2>1, <1>1, <1>5 DEF Keys
<1> QED
  BY <1>7, <1>8

\* The pipeline of evaluations is built from the metrics stage, and that from the
\* metric registry.
LEMMA MetricsComeWithStartup ==
  ASSUME NEW m
  PROVE  /\ <<1, "final_metrics_stage">> \in Range(NeedsOf(m, <<1, "evaluation_pipeline">>))
         /\ <<1, "metric_registry">> \in Range(NeedsOf(m, <<1, "final_metrics_stage">>))
<1> DEFINE i == m \in Injected
<1>1. i \in BOOLEAN
  OBVIOUS
<1>2. {"evaluation_pipeline", "final_metrics_stage"} \subseteq Adapters
  BY AdapterNames
<1>3. ASSUME NEW part \in Parts(i)
      PROVE  /\ "evaluation_pipeline" \in DOMAIN part => part = Evaluation
             /\ "final_metrics_stage" \in DOMAIN part => part = CalculatorRegistry
  <2>1. CASE part = Primitives
    BY <2>1 DEF Primitives
  <2>2. CASE part = Validation
    BY <2>2 DEF Validation
  <2>3. CASE part = DataPlane
    BY <2>3 DEF DataPlane
  <2>4. CASE part = LLMStack(i)
    BY <2>4 DEF LLMStack
  <2>5. CASE part = PipelineStages
    BY <2>5 DEF PipelineStages
  <2>6. CASE part = CalculatorRegistry
    BY <2>6 DEF CalculatorRegistry
  <2>7. CASE part = Reporting
    BY <2>7 DEF Reporting
  <2>8. CASE part = Evaluation
    BY <2>8 DEF Evaluation
  <2>9. CASE part = DetectionAdapters
    BY <2>9 DEF DetectionAdapters
  <2> QED
    BY <2>1, <2>2, <2>3, <2>4, <2>5, <2>6, <2>7, <2>8, <2>9 DEF Parts
<1>4. Getters[i]["evaluation_pipeline"] = <<"stage_factory", "final_metrics_stage">>
  <2>1. Getters[i]["evaluation_pipeline"] = Evaluation["evaluation_pipeline"]
    BY <1>1, <1>2, <1>3, GetterOfPart
  <2> QED
    BY <2>1 DEF Evaluation
<1>5. Getters[i]["final_metrics_stage"] = <<"metric_registry">>
  <2>1. Getters[i]["final_metrics_stage"] = CalculatorRegistry["final_metrics_stage"]
    BY <1>1, <1>2, <1>3, GetterOfPart
  <2> QED
    BY <2>1 DEF CalculatorRegistry
<1>6. /\ 2 \in DOMAIN NeedsOf(m, <<1, "evaluation_pipeline">>)
      /\ NeedsOf(m, <<1, "evaluation_pipeline">>)[2] = <<1, "final_metrics_stage">>
  BY <1>4 DEF NeedsOf, Ask
<1>7. /\ 1 \in DOMAIN NeedsOf(m, <<1, "final_metrics_stage">>)
      /\ NeedsOf(m, <<1, "final_metrics_stage">>)[1] = <<1, "metric_registry">>
  BY <1>5 DEF NeedsOf, Ask
<1> QED
  BY <1>6, <1>7 DEF Range

\* The web application asks for adapters, the pipeline of evaluations among them.
LEMMA StartupAsks ==
  /\ AppStartup \in Seq(Keys)
  /\ <<1, "evaluation_pipeline">> \in Range(AppStartup)
<1>1. /\ AppStartup \in Seq(Nat \X Adapters)
      /\ 9 \in DOMAIN AppStartup /\ AppStartup[9] = <<1, "evaluation_pipeline">>
  BY AdapterNames DEF AppStartup, Ask, PoetryService, EvaluationService, DetectionService
<1> QED
  BY <1>1 DEF Keys, Range

-----------------------------------------------------------------------------

\* The calls but the innermost.
LEMMA FrontOfCalls ==
  ASSUME NEW stack \in Seq(Calls), stack # <<>>
  PROVE  /\ Front(stack) \in Seq(Calls)
         /\ Len(stack) \in Nat \ {0} /\ Len(Front(stack)) = Len(stack) - 1
         /\ Last(stack) = stack[Len(stack)]
         /\ \A i \in 1 .. Len(stack) - 1 : Front(stack)[i] = stack[i]
BY DEF Front, Last

\* Only the needs of the innermost call change, and they by their head.
LEMMA AdvanceIs ==
  ASSUME NEW stack \in Seq(Calls), stack # <<>>, stack[Len(stack)].needs # <<>>
  PROVE  /\ Advance(stack) \in Seq(Calls)
         /\ Len(Advance(stack)) = Len(stack)
         /\ \A i \in 1 .. Len(stack) - 1 : Advance(stack)[i] = stack[i]
         /\ Advance(stack)[Len(stack)].key = stack[Len(stack)].key
         /\ Advance(stack)[Len(stack)].needs = Tail(stack[Len(stack)].needs)
<1> DEFINE last == stack[Len(stack)]
           next == [last EXCEPT !.needs = Tail(@)]
<1>1. /\ Front(stack) \in Seq(Calls)
      /\ Len(stack) \in Nat \ {0} /\ Len(Front(stack)) = Len(stack) - 1
      /\ Last(stack) = last
      /\ \A i \in 1 .. Len(stack) - 1 : Front(stack)[i] = stack[i]
  BY FrontOfCalls
<1>2. last \in Calls /\ last.needs \in Seq(Keys) /\ last.needs # <<>>
  <2>1. last \in Calls
    BY <1>1
  <2>2. \A call \in Calls : call.needs \in Seq(Keys)
    BY DEF Calls
  <2> QED
    BY <2>1, <2>2
<1>3. Tail(last.needs) \in Seq(Keys)
  BY <1>2
<1>4. next \in Calls /\ next.key = last.key /\ next.needs = Tail(last.needs)
  BY <1>2, <1>3 DEF Calls
<1>5. Advance(stack) = Append(Front(stack), next)
  BY <1>1 DEF Advance
<1> HIDE DEF last, next
<1>6. /\ Advance(stack) \in Seq(Calls)
      /\ Len(Advance(stack)) = Len(stack)
      /\ \A i \in 1 .. Len(stack) - 1 : Advance(stack)[i] = stack[i]
      /\ Advance(stack)[Len(stack)] = next
  BY <1>1, <1>4, <1>5
<1> QED
  BY <1>4, <1>6 DEF last

\* A list is its head and its tail.
LEMMA HeadAndTail ==
  ASSUME NEW keys \in Seq(Keys), keys # <<>>
  PROVE  /\ Head(keys) \in Range(keys) /\ Head(keys) \in Keys
         /\ Range(Tail(keys)) \subseteq Range(keys)
         /\ Range(keys) \subseteq {Head(keys)} \union Range(Tail(keys))
<1>1. /\ Len(keys) \in Nat \ {0} /\ DOMAIN keys = 1 .. Len(keys) /\ Head(keys) = keys[1]
      /\ keys[1] \in Keys
      /\ DOMAIN Tail(keys) = 1 .. Len(keys) - 1
      /\ \A i \in 1 .. Len(keys) - 1 : Tail(keys)[i] = keys[i + 1]
  OBVIOUS
<1>2. ASSUME NEW k \in Range(Tail(keys)) PROVE k \in Range(keys)
  <2>1. PICK i \in 1 .. Len(keys) - 1 : k = keys[i + 1]
    BY <1>1 DEF Range
  <2> QED
    BY <1>1, <2>1 DEF Range
<1>3. ASSUME NEW k \in Range(keys), k # Head(keys) PROVE k \in Range(Tail(keys))
  <2>1. PICK i \in DOMAIN keys : k = keys[i]
    BY DEF Range
  <2>2. i - 1 \in DOMAIN Tail(keys) /\ Tail(keys)[i - 1] = k
    BY <1>1, <1>3, <2>1
  <2> QED
    BY <2>2 DEF Range
<1>4. Head(keys) \in Range(keys)
  BY <1>1 DEF Range
<1> QED
  BY <1>1, <1>2, <1>3, <1>4

\* A container with one adapter more.
LEMMA OneMoreStored ==
  ASSUME NEW keys \in Seq(Keys), NEW key \in Keys
  PROVE  /\ Append(keys, key) \in Seq(Keys)
         /\ Range(Append(keys, key)) = Range(keys) \union {key}
<1> DEFINE more == Append(keys, key)
<1>1. /\ Len(keys) \in Nat /\ DOMAIN keys = 1 .. Len(keys)
      /\ DOMAIN more = 1 .. Len(keys) + 1
      /\ \A i \in DOMAIN keys : more[i] = keys[i]
      /\ more[Len(keys) + 1] = key
      /\ more \in Seq(Keys)
  OBVIOUS
<1> HIDE DEF more
<1>2. ASSUME NEW k \in Range(more) PROVE k \in Range(keys) \union {key}
  BY <1>1 DEF Range
<1>3. ASSUME NEW k \in Range(keys) PROVE k \in Range(more)
  <2>1. PICK i \in DOMAIN keys : k = keys[i]
    BY DEF Range
  <2>2. i \in DOMAIN more /\ more[i] = k
    BY <1>1, <2>1
  <2> QED
    BY <2>2 DEF Range
<1>4. key \in Range(more)
  <2>1. Len(keys) + 1 \in DOMAIN more
    BY <1>1
  <2> QED
    BY <1>1, <2>1 DEF Range
<1>5. Range(more) = Range(keys) \union {key}
  BY <1>2, <1>3, <1>4
<1> QED
  BY <1>1, <1>5 DEF more

\* A main thread that keeps its own containers in order keeps all in order: nobody
\* else stores in them, and what they hold they keep.
LEMMA OwnContainers ==
  ASSUME ContainerInv, NEW t \in Mains,
         \A u \in Threads \ {t} : agenda'[u] = agenda[u] /\ factory'[u] = factory[u],
         \A m \in Mains \ {t} : cache'[m] = cache[m],
         Range(cache[t]) \subseteq Range(cache'[t]),
         ContainerTypeOK', BuiltInOrder(t)', Building(t)'
  PROVE  ContainerInv'
<1>0. Mains \intersect Workers = {} /\ App \in Mains
  BY ContainerAssumption
<1>1. ASSUME NEW m \in Mains PROVE BuiltInOrder(m)' /\ Building(m)'
  <2>1. CASE m = t
    BY <2>1
  <2>2. CASE m # t
    <3>1. m \in Threads \ {t}
      BY <2>2 DEF Threads
    <3>2. BuiltInOrder(m) /\ Building(m)
      BY DEF ContainerInv
    <3>3. cache'[m] = cache[m] /\ agenda'[m] = agenda[m] /\ factory'[m] = factory[m]
      BY <2>2, <3>1
    <3>4. BuiltInOrder(m)'
      BY <3>2, <3>3 DEF BuiltInOrder
    <3>5. Building(m)'
      BY <3>2, <3>3 DEF Building
    <3> QED
      BY <3>4, <3>5
  <2> QED
    BY <2>1, <2>2
<1>2. ASSUME NEW w \in Workers PROVE OnlyAsks(w)'
  <2>1. OnlyAsks(w) /\ w \in Threads \ {t}
    BY <1>0 DEF ContainerInv, Threads
  <2>2. Range(cache[App]) \subseteq Range(cache'[App])
    BY <1>0
  <2> QED
    BY <2>1, <2>2 DEF OnlyAsks
<1> QED
  BY <1>1, <1>2 DEF ContainerInv

\* What a main thread's state is, and that its containers are its own.
LEMMA MainThread ==
  ASSUME ContainerInv, NEW t \in Mains
  PROVE  /\ t \in Threads /\ OwnerOf(t) = t
         /\ agenda[t] \in Seq(Keys) /\ factory[t] \in Seq(Calls) /\ cache[t] \in Seq(Keys)
         /\ BuiltInOrder(t) /\ Building(t)
BY ContainerAssumption DEF ContainerInv, ContainerTypeOK, OwnerOf, Threads

\* The innermost factory of a thread, and what it still needs.
LEMMA InnermostCall ==
  ASSUME ContainerInv, NEW t \in Mains, factory[t] # <<>>
  PROVE  /\ Len(factory[t]) \in Nat \ {0}
         /\ DOMAIN factory[t] = 1 .. Len(factory[t])
         /\ Innermost(t) = factory[t][Len(factory[t])]
         /\ Innermost(t) \in Calls
         /\ Innermost(t).key \in Keys /\ Innermost(t).needs \in Seq(Keys)
         /\ Underway(t, Innermost(t), Range(cache[t]))
         /\ Wanted(t) = Innermost(t).needs
<1>1. factory[t] \in Seq(Calls) /\ Building(t)
  BY MainThread
<1>2. /\ Len(factory[t]) \in Nat \ {0}
      /\ DOMAIN factory[t] = 1 .. Len(factory[t])
      /\ Innermost(t) = factory[t][Len(factory[t])]
      /\ Innermost(t) \in Calls
  BY <1>1, FrontOfCalls DEF Innermost
<1>3. Len(factory[t]) \in DOMAIN factory[t]
  BY <1>2
<1>4. Underway(t, Innermost(t), Range(cache[t]))
  BY <1>1, <1>2, <1>3 DEF Building, Nested
<1>5. \A call \in Calls : call.key \in Keys /\ call.needs \in Seq(Keys)
  BY DEF Calls
<1> QED
  BY <1>2, <1>4, <1>5 DEF Wanted

\* The adapter is there: the thread goes on to the next it wants.
LEMMA CachedStep ==
  ASSUME ContainerInv, NEW t \in Mains, GetCached(t)
  PROVE  ContainerInv'
<1> DEFINE stack == factory[t]
           n == Len(stack)
           held == Range(cache[t])
           head == Head(Wanted(t))
<1>1. /\ t \in Threads /\ OwnerOf(t) = t
      /\ agenda[t] \in Seq(Keys) /\ stack \in Seq(Calls) /\ cache[t] \in Seq(Keys)
      /\ BuiltInOrder(t) /\ Building(t)
  BY MainThread
<1>2. Wanted(t) # <<>> /\ head \in held /\ cache' = cache
  BY <1>1 DEF GetCached
<1>3. BuiltInOrder(t)'
  BY <1>1, <1>2 DEF BuiltInOrder
<1>4. CASE stack = <<>>
  <2>1. agenda' = [agenda EXCEPT ![t] = Tail(@)] /\ factory' = factory /\ agenda[t] # <<>>
    BY <1>2, <1>4 DEF GetCached, Wanted
  <2>2. Tail(agenda[t]) \in Seq(Keys)
    BY <1>1, <2>1
  <2>3. ContainerTypeOK'
    BY <1>2, <2>1, <2>2 DEF ContainerInv, ContainerTypeOK
  <2>4. Building(t)'
    BY <1>4, <2>1 DEF Building, Nested
  <2> QED
    BY <1>2, <1>3, <2>1, <2>3, <2>4, OwnContainers DEF ContainerInv, ContainerTypeOK
<1>5. CASE stack # <<>>
  <2>1. /\ n \in Nat \ {0} /\ DOMAIN stack = 1 .. n /\ n \in DOMAIN stack
        /\ Innermost(t) = stack[n] /\ stack[n].needs \in Seq(Keys) /\ stack[n].needs # <<>>
        /\ head = Head(stack[n].needs)
    BY <1>2, <1>5, InnermostCall
  <2>2. factory' = [factory EXCEPT ![t] = Advance(stack)] /\ agenda' = agenda
    BY <1>5 DEF GetCached
  <2>3. /\ Advance(stack) \in Seq(Calls)
        /\ Len(Advance(stack)) = n
        /\ \A i \in 1 .. n - 1 : Advance(stack)[i] = stack[i]
        /\ Advance(stack)[n].key = stack[n].key
        /\ Advance(stack)[n].needs = Tail(stack[n].needs)
    BY <1>1, <1>5, <2>1, AdvanceIs
  <2>4. factory'[t] = Advance(stack)
    BY <1>1, <2>2 DEF ContainerInv, ContainerTypeOK
  <2>5. ContainerTypeOK'
    BY <1>2, <2>2, <2>3 DEF ContainerInv, ContainerTypeOK
  <2> DEFINE after == Advance(stack)
  <2> HIDE DEF after, stack, n, head, held
  <2>6. DOMAIN after = 1 .. n
    BY <2>3 DEF after
  <2>7. ASSUME NEW i \in 1 .. n PROVE after[i].key = stack[i].key /\ (i < n => after[i] = stack[i])
    BY <2>1, <2>3 DEF after
  <2>8. ASSUME NEW i \in 1 .. n PROVE Underway(t, after[i], held)
    <3>1. Underway(t, stack[i], held)
      BY <1>1, <2>1 DEF Building, Nested, stack, held
    <3>2. CASE i < n
      BY <1>2, <2>7, <3>1, <3>2 DEF Underway
    <3>3. CASE i = n
      <4>1. after[n].key = stack[n].key /\ after[n].needs = Tail(stack[n].needs)
        BY <2>3 DEF after
      <4>2. /\ Range(Tail(stack[n].needs)) \subseteq Range(stack[n].needs)
            /\ Range(stack[n].needs) \subseteq {head} \union Range(Tail(stack[n].needs))
        BY <2>1, HeadAndTail
      <4> QED
        BY <1>2, <3>1, <3>3, <4>1, <4>2 DEF Underway
    <3> QED
      BY <2>1, <3>2, <3>3
  <2>9. Building(t)'
    <3>1. agenda'[t] # <<>>
      BY <1>1, <1>5, <2>2 DEF Building, Nested, stack, held
    <3>2. ASSUME NEW i \in 1 .. n, NEW j \in 1 .. n, i < j
          PROVE  after[i].needs # <<>> /\ Depth(after[j].key[2]) < Depth(after[i].key[2])
      <4>1. stack[i].needs # <<>> /\ Depth(stack[j].key[2]) < Depth(stack[i].key[2])
        BY <1>1, <2>1, <3>2 DEF Building, Nested, stack, held
      <4>2. i < n
        BY <2>1, <3>2
      <4> QED
        BY <2>7, <4>1, <4>2
    <3>3. ASSUME NEW i \in 1 .. n, i + 1 \in 1 .. n PROVE Head(after[i].needs) = after[i + 1].key
      <4>1. Head(stack[i].needs) = stack[i + 1].key
        BY <1>1, <2>1, <3>3 DEF Building, Nested, stack, held
      <4>2. i < n
        BY <2>1, <3>3
      <4> QED
        BY <2>7, <3>3, <4>1, <4>2
    <3>4. factory'[t] = after
      BY <2>4 DEF after
    <3> QED
      BY <1>2, <2>6, <2>8, <3>1, <3>2, <3>3, <3>4 DEF Building, Nested, held
  <2> QED
    BY <1>2, <1>3, <2>2, <2>5, <2>9, OwnContainers DEF ContainerInv, ContainerTypeOK
<1> QED
  BY <1>4, <1>5

\* It is not: the factory is called, for something less deep than what calls it.
LEMMA CallStep ==
  ASSUME ContainerInv, NEW t \in Mains, CallFactory(t)
  PROVE  ContainerInv'
<1> DEFINE stack == factory[t]
           n == Len(stack)
           held == Range(cache[t])
           key == Head(Wanted(t))
           call == [key |-> key, needs |-> NeedsOf(t, key)]
           after == Append(stack, call)
<1>1. /\ t \in Threads /\ OwnerOf(t) = t
      /\ agenda[t] \in Seq(Keys) /\ stack \in Seq(Calls) /\ cache[t] \in Seq(Keys)
      /\ BuiltInOrder(t) /\ Building(t)
  BY MainThread
<1>2. /\ Wanted(t) # <<>> /\ key \notin held /\ cache' = cache /\ agenda' = agenda
      /\ factory' = [factory EXCEPT ![t] = Append(@, call)]
  BY <1>1 DEF CallFactory, NeedsOf
<1>3. Wanted(t) \in Seq(Keys) /\ key \in Keys
  <2>1. Wanted(t) \in Seq(Keys)
    BY <1>1, InnermostCall DEF Wanted
  <2> QED
    BY <1>2, <2>1, HeadAndTail
<1>4. NeedsOf(t, key) \in Seq(Keys)
  BY <1>3, NeedsLieDeeper
<1>5. call \in Calls
  BY <1>3, <1>4 DEF Calls
<1>6. call.key = key /\ call.needs = NeedsOf(t, key)
  OBVIOUS
<1>7. factory'[t] = after
  BY <1>1, <1>2 DEF ContainerInv, ContainerTypeOK
<1> HIDE DEF call
<1>8. /\ n \in Nat /\ DOMAIN stack = 1 .. n
      /\ after \in Seq(Calls) /\ DOMAIN after = 1 .. n + 1
      /\ \A i \in 1 .. n : after[i] = stack[i]
      /\ after[n + 1] = call
  BY <1>1, <1>5
<1>9. ContainerTypeOK'
  BY <1>2, <1>5, <1>8 DEF ContainerInv, ContainerTypeOK
<1> HIDE DEF stack, n, key, after, held
<1>10. \A i \in 1 .. n : stack[i].needs # <<>>
  <2> SUFFICES ASSUME NEW i \in 1 .. n PROVE stack[i].needs # <<>>
    OBVIOUS
  <2>1. CASE i < n
    <3>1. n \in 1 .. n
      BY <1>8
    <3> QED
      BY <1>1, <1>8, <2>1, <3>1 DEF Building, Nested, stack, held
  <2>2. CASE i = n
    <3>1. stack # <<>>
      BY <1>8, <2>2
    <3> QED
      BY <1>2, <2>2, <3>1, InnermostCall DEF stack, n
  <2> QED
    BY <1>8, <2>1, <2>2
<1>11. ASSUME n # 0 PROVE key = Head(stack[n].needs) /\ Depth(key[2]) < Depth(stack[n].key[2])
  <2>1. stack # <<>>
    BY <1>8, <1>11
  <2>2. /\ Wanted(t) = stack[n].needs /\ stack[n].key \in Keys /\ Underway(t, stack[n], held)
        /\ stack[n].needs \in Seq(Keys)
    BY <2>1, InnermostCall DEF stack, n, held
  <2>3. key = Head(stack[n].needs)
    BY <2>2 DEF key
  <2>4. key \in Range(NeedsOf(t, stack[n].key))
    BY <1>2, <2>2, <2>3, HeadAndTail DEF Underway
  <2> QED
    BY <2>2, <2>3, <2>4, NeedsLieDeeper
<1>12. \A i \in 1 .. n : Depth(key[2]) < Depth(stack[i].key[2])
  <2> SUFFICES ASSUME NEW i \in 1 .. n PROVE Depth(key[2]) < Depth(stack[i].key[2])
    OBVIOUS
  <2>1. n # 0 /\ n \in 1 .. n
    BY <1>8
  <2>2. CASE i < n
    <3>1. Depth(stack[n].key[2]) < Depth(stack[i].key[2])
      BY <1>1, <1>8, <2>1, <2>2 DEF Building, Nested, stack, held
    <3>2. /\ Depth(key[2]) \in Nat /\ Depth(stack[n].key[2]) \in Nat
          /\ Depth(stack[i].key[2]) \in Nat
      BY DepthIsNat
    <3> QED
      BY <1>11, <2>1, <3>1, <3>2
  <2>3. CASE i = n
    BY <1>11, <2>1, <2>3
  <2> QED
    BY <1>8, <2>2, <2>3
<1>13. Building(t)'
  <2>1. agenda'[t] # <<>>
    <3>1. CASE stack = <<>>
      BY <1>2, <3>1 DEF Wanted, stack
    <3>2. CASE stack # <<>>
      BY <1>1, <1>2, <3>2 DEF Building, Nested, stack, held
    <3> QED
      BY <3>1, <3>2
  <2>2. ASSUME NEW i \in 1 .. n + 1 PROVE Underway(t, after[i], held)
    <3>1. CASE i \in 1 .. n
      <4>1. Underway(t, stack[i], held)
        BY <1>1, <1>8, <3>1 DEF Building, Nested, stack, held
      <4> QED
        BY <1>2, <1>8, <3>1, <4>1 DEF Underway
    <3>2. CASE i = n + 1
      BY <1>2, <1>6, <1>8, <3>2 DEF Underway
    <3> QED
      BY <1>8, <3>1, <3>2
  <2>3. ASSUME NEW i \in 1 .. n + 1, NEW j \in 1 .. n + 1, i < j
        PROVE  after[i].needs # <<>> /\ Depth(after[j].key[2]) < Depth(after[i].key[2])
    <3>1. i \in 1 .. n
      BY <1>8, <2>3
    <3>2. CASE j \in 1 .. n
      <4>1. Depth(stack[j].key[2]) < Depth(stack[i].key[2])
        BY <1>1, <1>8, <2>3, <3>1, <3>2 DEF Building, Nested, stack, held
      <4> QED
        BY <1>8, <1>10, <3>1, <3>2, <4>1
    <3>3. CASE j = n + 1
      BY <1>6, <1>8, <1>10, <1>12, <3>1, <3>3
    <3> QED
      BY <1>8, <3>2, <3>3
  <2>4. ASSUME NEW i \in 1 .. n + 1, i + 1 \in 1 .. n + 1
        PROVE  Head(after[i].needs) = after[i + 1].key
    <3>1. i \in 1 .. n
      BY <1>8, <2>4
    <3>2. CASE i < n
      <4>1. i + 1 \in 1 .. n
        BY <1>8, <3>1, <3>2
      <4>2. Head(stack[i].needs) = stack[i + 1].key
        BY <1>1, <1>8, <3>1, <4>1 DEF Building, Nested, stack, held
      <4> QED
        BY <1>8, <3>1, <4>1, <4>2
    <3>3. CASE i = n
      BY <1>6, <1>8, <1>11, <3>1, <3>3
    <3> QED
      BY <1>8, <3>1, <3>2, <3>3
  <2> QED
    BY <1>2, <1>7, <1>8, <2>1, <2>2, <2>3, <2>4 DEF Building, Nested, held
<1>14. BuiltInOrder(t)'
  BY <1>1, <1>2 DEF BuiltInOrder
<1> QED
  BY <1>2, <1>9, <1>13, <1>14, OwnContainers DEF ContainerInv, ContainerTypeOK

\* The factory is done: what it made was not there, all it is made from was, and the
\* factory that asked for it goes on.
LEMMA StoreStep ==
  ASSUME ContainerInv, NEW t \in Mains, Store(t)
  PROVE  ContainerInv'
<1> DEFINE stack == factory[t]
           n == Len(stack)
           held == Range(cache[t])
           key == stack[n].key
           outer == Front(stack)
<1>1. /\ t \in Threads /\ OwnerOf(t) = t
      /\ agenda[t] \in Seq(Keys) /\ stack \in Seq(Calls) /\ cache[t] \in Seq(Keys)
      /\ BuiltInOrder(t) /\ Building(t)
  BY MainThread
<1>2. /\ stack # <<>> /\ Wanted(t) = <<>>
      /\ cache' = [cache EXCEPT ![t] = Append(@, Innermost(t).key)]
      /\ IF outer = <<>>
         THEN /\ factory' = [factory EXCEPT ![t] = outer]
              /\ agenda' = [agenda EXCEPT ![t] = Tail(@)]
         ELSE factory' = [factory EXCEPT ![t] = Advance(outer)] /\ agenda' = agenda
  BY <1>1 DEF Store
<1>3. /\ n \in Nat \ {0} /\ DOMAIN stack = 1 .. n /\ n \in DOMAIN stack
      /\ Innermost(t) = stack[n] /\ key \in Keys /\ stack[n].needs = <<>>
      /\ Underway(t, stack[n], held)
  BY <1>2, InnermostCall
<1>4. /\ outer \in Seq(Calls) /\ Len(outer) = n - 1 /\ DOMAIN outer = 1 .. n - 1
      /\ \A i \in 1 .. n - 1 : outer[i] = stack[i]
  BY <1>1, <1>2, FrontOfCalls
<1>5. /\ cache'[t] = Append(cache[t], key)
      /\ cache'[t] \in Seq(Keys)
      /\ Range(cache'[t]) = held \union {key}
  BY <1>1, <1>2, <1>3, OneMoreStored DEF ContainerInv, ContainerTypeOK
<1>6. cache' \in [Mains -> Seq(Keys)] /\ \A m \in Mains \ {t} : cache'[m] = cache[m]
  BY <1>2, <1>5 DEF ContainerInv, ContainerTypeOK
<1>7. agenda[t] # <<>> /\ Nested(t, stack, held)
  BY <1>1, <1>2 DEF Building
<1> HIDE DEF stack, n, held, key, outer
<1>8. key \notin held /\ Range(NeedsOf(t, key)) \subseteq held
  BY <1>3 DEF Underway, key, Range
<1>9. BuiltInOrder(t)'
  <2> DEFINE before == cache[t]
             after == cache'[t]
             size == Len(before)
  <2>1. /\ size \in Nat /\ DOMAIN before = 1 .. size /\ DOMAIN after = 1 .. size + 1
        /\ \A i \in 1 .. size : after[i] = before[i]
        /\ after[size + 1] = key
    BY <1>1, <1>3, <1>5
  <2>2. \A i \in 1 .. size : before[i] \in held
    BY <2>1 DEF held, Range
  <2>3. /\ \A i, j \in 1 .. size : before[i] = before[j] => i = j
        /\ \A i \in 1 .. size : \A need \in Range(NeedsOf(t, before[i])) :
             \E j \in 1 .. size : j < i /\ before[j] = need
    BY <1>1, <2>1 DEF BuiltInOrder
  <2> HIDE DEF before, after, size
  <2>4. ASSUME NEW i \in 1 .. size + 1, NEW j \in 1 .. size + 1, after[i] = after[j] PROVE i = j
    <3>1. CASE i \in 1 .. size /\ j \in 1 .. size
      BY <2>1, <2>3, <2>4, <3>1
    <3>2. CASE i = size + 1 /\ j \in 1 .. size
      BY <1>8, <2>1, <2>2, <2>4, <3>2
    <3>3. CASE i \in 1 .. size /\ j = size + 1
      BY <1>8, <2>1, <2>2, <2>4, <3>3
    <3> QED
      BY <2>1, <3>1, <3>2, <3>3
  <2>5. ASSUME NEW i \in 1 .. size + 1, NEW need \in Range(NeedsOf(t, after[i]))
        PROVE  \E j \in 1 .. size + 1 : j < i /\ after[j] = need
    <3>1. CASE i \in 1 .. size
      <4>1. PICK j \in 1 .. size : j < i /\ before[j] = need
        BY <2>1, <2>3, <2>5, <3>1
      <4>2. j \in 1 .. size + 1
        BY <2>1
      <4> QED
        BY <2>1, <4>1, <4>2
    <3>2. CASE i = size + 1
      <4>1. need \in held
        BY <1>8, <2>1, <2>5, <3>2
      <4>2. PICK j \in 1 .. size : before[j] = need
        BY <2>1, <4>1 DEF held, before, Range
      <4>3. j \in 1 .. size + 1 /\ j < i
        BY <2>1, <3>2
      <4> QED
        BY <2>1, <4>2, <4>3
    <3> QED
      BY <2>1, <3>1, <3>2
  <2> QED
    BY <2>1, <2>4, <2>5 DEF BuiltInOrder, after
<1>10. CASE outer = <<>>
  <2>1. factory' = [factory EXCEPT ![t] = outer] /\ agenda' = [agenda EXCEPT ![t] = Tail(@)]
    BY <1>2, <1>10
  <2>2. Tail(agenda[t]) \in Seq(Keys)
    BY <1>1, <1>7
  <2>3. ContainerTypeOK'
    BY <1>4, <1>6, <2>1, <2>2 DEF ContainerInv, ContainerTypeOK
  <2>4. factory'[t] = <<>>
    BY <1>1, <1>10, <2>1 DEF ContainerInv, ContainerTypeOK
  <2>5. Building(t)'
    BY <2>4 DEF Building, Nested
  <2> QED
    BY <1>5, <1>6, <1>9, <2>1, <2>3, <2>5, OwnContainers DEF ContainerInv, ContainerTypeOK, held
<1>11. CASE outer # <<>>
  <2> DEFINE after == Advance(outer)
  <2>1. factory' = [factory EXCEPT ![t] = after] /\ agenda' = agenda
    BY <1>2, <1>11
  <2>2. n - 1 \in 1 .. n - 1 /\ n - 1 \in 1 .. n
    BY <1>3, <1>4, <1>11
  <2>3. stack[n - 1].needs # <<>> /\ Head(stack[n - 1].needs) = key
    <3>1. n - 1 < n /\ (n - 1) + 1 = n
      BY <1>3
    <3> QED
      BY <1>3, <1>7, <2>2, <3>1 DEF Nested, key
  <2>4. stack[n - 1].needs \in Seq(Keys)
    <3>1. stack[n - 1] \in Calls
      BY <1>4, <2>2
    <3>2. \A call \in Calls : call.needs \in Seq(Keys)
      BY DEF Calls
    <3> QED
      BY <3>1, <3>2
  <2>5. /\ after \in Seq(Calls)
        /\ Len(after) = n - 1
        /\ \A i \in 1 .. n - 2 : after[i] = stack[i]
        /\ after[n - 1].key = stack[n - 1].key
        /\ after[n - 1].needs = Tail(stack[n - 1].needs)
    <3>1. /\ Advance(outer) \in Seq(Calls)
          /\ Len(Advance(outer)) = Len(outer)
          /\ \A i \in 1 .. Len(outer) - 1 : Advance(outer)[i] = outer[i]
          /\ Advance(outer)[Len(outer)].key = outer[Len(outer)].key
          /\ Advance(outer)[Len(outer)].needs = Tail(outer[Len(outer)].needs)
      BY <1>4, <1>11, <2>2, <2>3, AdvanceIs
    <3> HIDE DEF after
    <3> QED
      BY <1>3, <1>4, <2>2, <3>1 DEF after
  <2> HIDE DEF after
  <2>6. DOMAIN after = 1 .. n - 1
    BY <2>5
  <2>7. ContainerTypeOK'
    BY <1>6, <2>1, <2>5 DEF ContainerInv, ContainerTypeOK
  <2>8. factory'[t] = after
    BY <1>1, <2>1 DEF ContainerInv, ContainerTypeOK
  <2>9. ASSUME NEW i \in 1 .. n - 1
        PROVE  i \in 1 .. n /\ after[i].key = stack[i].key /\ (i < n - 1 => after[i] = stack[i])
    BY <1>3, <2>5
  <2>10. ASSUME NEW i \in 1 .. n - 1 PROVE Underway(t, after[i], held \union {key})
    <3>1. Underway(t, stack[i], held)
      BY <1>3, <1>7, <2>9 DEF Nested
    <3>2. stack[i].key # key
      <4>1. i < n
        BY <1>3
      <4>2. Depth(key[2]) < Depth(stack[i].key[2])
        BY <1>3, <1>7, <2>9, <4>1 DEF Nested, key
      <4>3. Depth(key[2]) \in Nat
        BY DepthIsNat
      <4> QED
        BY <4>2, <4>3
    <3>3. CASE i < n - 1
      BY <2>9, <3>1, <3>2, <3>3 DEF Underway
    <3>4. CASE i = n - 1
      <4>1. /\ Range(Tail(stack[i].needs)) \subseteq Range(stack[i].needs)
            /\ Range(stack[i].needs) \subseteq {key} \union Range(Tail(stack[i].needs))
        BY <2>3, <2>4, <3>4, HeadAndTail
      <4>2. after[i].key = stack[i].key /\ after[i].needs = Tail(stack[i].needs)
        BY <2>5, <3>4
      <4> QED
        BY <3>1, <3>2, <4>1, <4>2 DEF Underway
    <3> QED
      BY <1>3, <3>3, <3>4
  <2>11. ASSUME NEW i \in 1 .. n - 1, NEW j \in 1 .. n - 1, i < j
         PROVE  after[i].needs # <<>> /\ Depth(after[j].key[2]) < Depth(after[i].key[2])
    <3>1. stack[i].needs # <<>> /\ Depth(stack[j].key[2]) < Depth(stack[i].key[2])
      BY <1>3, <1>7, <2>9, <2>11 DEF Nested
    <3>2. i < n - 1
      BY <1>3, <2>11
    <3> QED
      BY <2>9, <3>1, <3>2
  <2>12. ASSUME NEW i \in 1 .. n - 1, i + 1 \in 1 .. n - 1
         PROVE  Head(after[i].needs) = after[i + 1].key
    <3>1. i < n - 1 /\ i \in 1 .. n /\ i + 1 \in 1 .. n
      BY <1>3, <2>12
    <3>2. Head(stack[i].needs) = stack[i + 1].key
      BY <1>3, <1>7, <3>1 DEF Nested
    <3> QED
      BY <2>9, <2>12, <3>1, <3>2
  <2>13. Nested(t, after, held \union {key})
    BY <2>6, <2>10, <2>11, <2>12 DEF Nested
  <2>14. Building(t)'
    BY <1>5, <1>7, <2>1, <2>8, <2>13 DEF Building
  <2> QED
    BY <1>5, <1>6, <1>9, <2>1, <2>7, <2>14, OwnContainers DEF ContainerInv, ContainerTypeOK, held
<1> QED
  BY <1>10, <1>11

\* A thread that serves requests finds what it asks for.
LEMMA RequestStep ==
  ASSUME ContainerInv, NEW w \in Workers, GetCached(w) \/ CallFactory(w) \/ Store(w)
  PROVE  ContainerInv'
<1> DEFINE asked == Ask(1, <<"metric_registry">>)
<1>1. Mains \intersect Workers = {} /\ App \in Mains /\ w \in Threads /\ OwnerOf(w) = App
  BY ContainerAssumption DEF Threads, OwnerOf
<1>2. OnlyAsks(w)
  BY DEF ContainerInv
<1>3. asked = <<(<<1, "metric_registry">>)>>
  BY DEF Ask
<1>4. factory[w] = <<>> /\ Wanted(w) = agenda[w]
  BY <1>2 DEF OnlyAsks, Wanted
<1>5. GetCached(w)
  <2>1. CASE CallFactory(w)
    <3>1. Wanted(w) # <<>> /\ Head(Wanted(w)) \notin Range(cache[App])
      BY <1>1, <2>1 DEF CallFactory
    <3>2. Head(Wanted(w)) = <<1, "metric_registry">>
      BY <1>2, <1>3, <1>4, <3>1 DEF OnlyAsks
    <3> QED
      BY <1>2, <1>4, <3>1, <3>2 DEF OnlyAsks
  <2>2. CASE Store(w)
    BY <1>4, <2>2 DEF Store
  <2> QED
    BY <2>1, <2>2
<1>6. /\ agenda[w] # <<>> /\ agenda' = [agenda EXCEPT ![w] = Tail(@)]
      /\ factory' = factory /\ cache' = cache
  BY <1>4, <1>5 DEF GetCached
<1>7. Tail(agenda[w]) = <<>> /\ Tail(agenda[w]) \in Seq(Keys)
  <2>1. agenda[w] = <<(<<1, "metric_registry">>)>>
    BY <1>2, <1>3, <1>6 DEF OnlyAsks
  <2>2. agenda[w] \in Seq(Keys)
    BY <1>1 DEF ContainerInv, ContainerTypeOK
  <2> QED
    BY <2>1, <2>2
<1>8. ContainerTypeOK'
  BY <1>6, <1>7 DEF ContainerInv, ContainerTypeOK
<1>9. \A u \in Threads \ {w} : agenda'[u] = agenda[u]
  BY <1>6 DEF ContainerInv, ContainerTypeOK
<1>10. ASSUME NEW m \in Mains PROVE BuiltInOrder(m)' /\ Building(m)'
  <2>1. m \in Threads \ {w} /\ BuiltInOrder(m) /\ Building(m)
    BY <1>1 DEF ContainerInv, Threads
  <2> QED
    BY <1>6, <1>9, <2>1 DEF BuiltInOrder, Building
<1>11. ASSUME NEW u \in Workers PROVE OnlyAsks(u)'
  <2>1. CASE u = w
    <3>1. agenda'[w] = <<>>
      BY <1>1, <1>6, <1>7 DEF ContainerInv, ContainerTypeOK
    <3> QED
      BY <1>4, <1>6, <2>1, <3>1 DEF OnlyAsks
  <2>2. CASE u # w
    <3>1. u \in Threads \ {w} /\ OnlyAsks(u)
      BY <2>2 DEF ContainerInv, Threads
    <3> QED
      BY <1>6, <1>9, <3>1 DEF OnlyAsks
  <2> QED
    BY <2>1, <2>2
<1> QED
  BY <1>8, <1>10, <1>11 DEF ContainerInv

\* Before a request comes the startup has made all that requests ask for: it asked for
\* the pipeline of evaluations, and that is built from the metric registry.
LEMMA MetricsAreThere ==
  ASSUME ContainerInv, Serving
  PROVE  <<1, "metric_registry">> \in Range(cache[App])
<1>1. App \in Mains /\ BuiltInOrder(App)
  BY ContainerAssumption DEF ContainerInv
<1>2. ASSUME NEW key \in Range(cache[App]), NEW need \in Range(NeedsOf(App, key))
      PROVE  need \in Range(cache[App])
  <2>1. PICK i \in DOMAIN cache[App] : cache[App][i] = key
    BY <1>2 DEF Range
  <2>2. PICK j \in DOMAIN cache[App] : cache[App][j] = need
    BY <1>1, <1>2, <2>1 DEF BuiltInOrder
  <2> QED
    BY <2>2 DEF Range
<1>3. <<1, "evaluation_pipeline">> \in Range(cache[App])
  BY StartupAsks DEF Serving
<1>4. <<1, "final_metrics_stage">> \in Range(cache[App])
  BY <1>2, <1>3, MetricsComeWithStartup
<1> QED
  BY <1>2, <1>4, MetricsComeWithStartup

\* A request comes.
LEMMA BeginStep ==
  ASSUME ContainerInv, NEW w \in Workers, BeginRequest(w)
  PROVE  ContainerInv'
<1> DEFINE asked == Ask(1, <<"metric_registry">>)
<1>1. Mains \intersect Workers = {} /\ w \in Threads
  BY ContainerAssumption DEF Threads
<1>2. /\ agenda' = [agenda EXCEPT ![w] = asked] /\ factory' = factory /\ cache' = cache
      /\ <<1, "metric_registry">> \in Range(cache[App])
  BY MetricsAreThere DEF BeginRequest
<1>3. asked \in Seq(Keys)
  <2>1. asked = <<(<<1, "metric_registry">>)>>
    BY DEF Ask
  <2>2. <<1, "metric_registry">> \in Keys
    BY AdapterNames DEF Keys
  <2>3. \A key \in Keys : <<key>> \in Seq(Keys)
    OBVIOUS
  <2> QED
    BY <2>1, <2>2, <2>3
<1> HIDE DEF asked
<1>4. ContainerTypeOK'
  BY <1>2, <1>3 DEF ContainerInv, ContainerTypeOK
<1>5. /\ agenda'[w] = asked
      /\ \A u \in Threads \ {w} : agenda'[u] = agenda[u]
  BY <1>1, <1>2 DEF ContainerInv, ContainerTypeOK
<1>6. ASSUME NEW m \in Mains PROVE BuiltInOrder(m)' /\ Building(m)'
  <2>1. m \in Threads \ {w} /\ BuiltInOrder(m) /\ Building(m)
    BY <1>1 DEF ContainerInv, Threads
  <2> QED
    BY <1>2, <1>5, <2>1 DEF BuiltInOrder, Building
<1>7. ASSUME NEW u \in Workers PROVE OnlyAsks(u)'
  <2>1. OnlyAsks(u) /\ (u = w \/ u \in Threads \ {w})
    BY DEF ContainerInv, Threads
  <2> QED
    BY <1>2, <1>5, <2>1 DEF OnlyAsks, asked
<1> QED
  BY <1>4, <1>6, <1>7 DEF ContainerInv

\* A step that leaves the containers alone keeps it.
LEMMA ContainersAlone == ContainerInv /\ UNCHANGED containerVars => ContainerInv'
BY DEF ContainerInv, ContainerTypeOK, BuiltInOrder, Building, OnlyAsks, containerVars

\* No container holds anything before the programs have begun.
LEMMA ContainerStarts == Init => ContainerInv
<1> SUFFICES ASSUME Init PROVE ContainerInv
  OBVIOUS
<1>1. /\ agenda \in [Threads -> Programs \union Scripts \union {AppStartup, <<>>}]
      /\ \A w \in Workers : agenda[w] = <<>>
      /\ factory = [t \in Threads |-> <<>>] /\ cache = [m \in Mains |-> <<>>]
  BY ContainerAssumption DEF Init, ContainerInit, Threads
<1>2. \A program \in Programs \union Scripts \union {AppStartup, <<>>} : program \in Seq(Keys)
  <2>1. <<>> \in Seq(Keys)
    OBVIOUS
  <2> QED
    BY <2>1, ContainerAssumption, StartupAsks DEF Keys
<1>3. ContainerTypeOK
  <2>1. agenda \in [Threads -> Seq(Keys)]
    BY <1>1, <1>2
  <2>2. <<>> \in Seq(Calls) /\ <<>> \in Seq(Keys)
    OBVIOUS
  <2> QED
    BY <1>1, <2>1, <2>2 DEF ContainerTypeOK
<1>4. \A m \in Mains : cache[m] = <<>> /\ factory[m] = <<>>
  BY <1>1 DEF Threads
<1>5. ASSUME NEW m \in Mains PROVE BuiltInOrder(m) /\ Building(m)
  BY <1>4 DEF BuiltInOrder, Building, Nested
<1>6. ASSUME NEW w \in Workers PROVE OnlyAsks(w)
  BY <1>1 DEF OnlyAsks, Threads
<1> QED
  BY <1>3, <1>5, <1>6 DEF ContainerInv

\* Every step keeps the containers in order.
LEMMA ContainerStep == ContainerInv /\ [Next]_vars => ContainerInv'
<1> SUFFICES ASSUME ContainerInv, [Next]_vars PROVE ContainerInv'
  OBVIOUS
<1>1. ASSUME NEW t \in Threads, Wire(t) PROVE ContainerInv'
  <2>1. UseContainer(t)
    BY <1>1 DEF Wire
  <2>2. CASE GetCached(t) \/ CallFactory(t) \/ Store(t)
    BY <2>2, CachedStep, CallStep, StoreStep, RequestStep DEF Threads
  <2>3. CASE LookUpBackend(t) \/ AcquireLock(t) \/ LookAgain(t) \/ LoadBackend(t)
    BY <2>3, ContainersAlone DEF LookUpBackend, AcquireLock, LookAgain, LoadBackend
  <2> QED
    BY <2>1, <2>2, <2>3 DEF UseContainer
<1>2. ASSUME NEW w \in Workers, ServeRequest(w) PROVE ContainerInv'
  BY <1>2, ContainersAlone DEF ServeRequest, BeginRetrieval, BeginRelevance, EncodeNext,
     LoadModel, ModelEncodes, ModelFails
<1>3. ASSUME NEW w \in Workers, BeginRequest(w) PROVE ContainerInv'
  BY <1>3, BeginStep
<1>4. CASE WriteCorpus
  BY <1>4, ContainersAlone DEF WriteCorpus
<1>5. CASE AtRest \/ UNCHANGED vars
  BY <1>5, ContainersAlone DEF AtRest, vars
<1> QED
  BY <1>1, <1>2, <1>3, <1>4, <1>5 DEF Next

\* However threads interleave, every container is filled in the order of the object
\* graph, and requests only read it.
THEOREM ContainersInOrder == Spec => []ContainerInv
BY ContainerStarts, ContainerStep, PTL DEF Spec

\* What a container stored last was not in it, and all it is built from was: the cache
\* without a lock makes each adapter once (composition_root.py:128-136).
LEMMA LastIsNew == ContainerInv => OneInstanceEach
<1> SUFFICES ASSUME ContainerInv, NEW m \in Mains, cache[m] # <<>>
             PROVE  LET key    == Last(cache[m])
                        before == Range(Front(cache[m]))
                    IN  /\ key \notin before
                        /\ \A need \in Range(Getters[(m \in Injected)][key[2]]) :
                             <<key[1], need>> \in before
  BY DEF OneInstanceEach
<1> DEFINE stored == cache[m]
           size == Len(stored)
           front == Front(stored)
           key == stored[size]
<1>1. stored \in Seq(Keys) /\ BuiltInOrder(m)
  BY DEF ContainerInv, ContainerTypeOK
<1>2. size \in Nat \ {0} /\ DOMAIN stored = 1 .. size /\ Last(stored) = key
  BY <1>1 DEF Last
<1>3. DOMAIN front = 1 .. size - 1 /\ \A i \in 1 .. size - 1 : front[i] = stored[i]
  BY <1>1 DEF Front
<1> HIDE DEF front
<1>4. key \notin Range(front)
  <2> SUFFICES ASSUME NEW i \in 1 .. size - 1, front[i] = key PROVE FALSE
    BY <1>3 DEF Range
  <2>1. i \in DOMAIN stored /\ size \in DOMAIN stored /\ i # size
    BY <1>2
  <2> QED
    BY <1>1, <1>3, <2>1 DEF BuiltInOrder
<1>5. ASSUME NEW need \in Range(Getters[(m \in Injected)][key[2]])
      PROVE  <<key[1], need>> \in Range(front)
  <2> DEFINE names == Getters[(m \in Injected)][key[2]]
             asked == NeedsOf(m, key)
  <2>1. PICK k \in DOMAIN names : need = names[k]
    BY <1>5 DEF Range
  <2>2. asked[k] = <<key[1], need>> /\ k \in DOMAIN asked
    BY <2>1 DEF NeedsOf, Ask
  <2>3. <<key[1], need>> \in Range(asked)
    BY <2>2 DEF Range
  <2>4. size \in DOMAIN stored
    BY <1>2
  <2>5. PICK j \in DOMAIN stored : j < size /\ stored[j] = <<key[1], need>>
    BY <1>1, <2>3, <2>4 DEF BuiltInOrder
  <2>6. j \in 1 .. size - 1
    BY <1>2, <2>5
  <2> QED
    BY <1>3, <2>5, <2>6 DEF Range
<1> QED
  BY <1>2, <1>4, <1>5 DEF front

\* "Each adapter is instantiated at most once", for any number of threads, containers
\* and requests.
THEOREM OneInstance == Spec => []OneInstanceEach
BY ContainersInOrder, LastIsNew, PTL

=============================================================================
