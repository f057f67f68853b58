----------------------------- MODULE Resources -----------------------------
(***************************************************************************)
(* One process at work: programs fill their containers, then requests of   *)
(* the web application retrieve themed excerpts and measure the poem,      *)
(* sharing one embedder, while other processes write the corpus file.      *)
(*                                                                         *)
(* A vector is known by the space it is of: "labse" for the model, in      *)
(* which BuildEmbeddingsRunner also stores vectors in the corpus, and      *)
(* "offline" for the pseudo-random stand-in.                               *)
(***************************************************************************)
EXTENDS Container

CONSTANTS
  Offline,      \* is the container configured with the offline embedder?
  Corpora,      \* the corpora the file may start with: per excerpt, is a vector stored?
  MaxRequests,  \* bound of the model: requests per worker
  MaxWrites     \* bound of the model: how often the corpus is written

ASSUME ResourcesAssumption ==
  /\ Offline \in BOOLEAN
  /\ \A corpus \in Corpora : corpus \in Seq(BOOLEAN) /\ corpus # <<>>
  /\ MaxRequests \in Nat
  /\ MaxWrites \in Nat

VARIABLES
  corpus,         \* the corpus file: its state, and for each excerpt if it has a vector
  writer,         \* the process that writes it: what it will write, and how far it is
  writes,         \* how often a process has opened the file to write it
  repo,           \* the theme repository of App's container
  modelLoaded,    \* LaBSEEmbedder._model
  usingFallback,  \* CompositeEmbedder._using_fallback
  job,            \* the comparison a worker is making
  requests        \* how many requests a worker has begun

corpusVars == <<corpus, writer, writes>>
embedderVars == <<modelLoaded, usingFallback>>
jobVars == <<job, requests>>
vars == <<containerVars, stressVars, corpusVars, repo, embedderVars, jobVars>>

MissingCorpus == [state |-> "missing", stored |-> <<>>]

NotWriting == [step |-> "idle", stored |-> <<>>]

\* A comparison of one text with others: the vectors so far, that of the text first;
\* "began" remembers if the fallback was in use when it began.
NoJob == [step |-> "idle", kind |-> "none", docs |-> <<>>, vectors |-> <<>>, began |-> FALSE]

Init ==
  /\ ContainerInit
  /\ corpus \in {MissingCorpus} \union {[state |-> "whole", stored |-> c] : c \in Corpora}
  /\ writer = NotWriting
  /\ writes = 0
  /\ repo = "none"
  /\ modelLoaded = FALSE
  /\ usingFallback = FALSE
  /\ job = [w \in Workers |-> NoJob]
  /\ requests = [w \in Workers |-> 0]

-----------------------------------------------------------------------------

\* A thread works in its container; the theme repository of App's container is
\* chosen when it is made, by whether there is a corpus file then.
Wire(t) ==
  /\ UseContainer(t)
  /\ repo' = IF <<1, "theme_repo">> \in Range(cache'[App]) \ Range(cache[App])
             THEN IF corpus.state = "missing" THEN "demo" ELSE "json"
             ELSE repo
  /\ UNCHANGED <<corpusVars, embedderVars, jobVars>>

-----------------------------------------------------------------------------
(***************************************************************************)
(* The runners that write the corpus, in processes of their own            *)
(***************************************************************************)

\* BuildEmbeddingsRunner reads the corpus and encodes what has no vector; a torn
\* or missing file ends it, and so does a corpus with all vectors.
StartEmbeddings ==
  /\ writer = NotWriting
  /\ writes < MaxWrites
  /\ corpus.state = "whole"
  /\ FALSE \in Range(corpus.stored)
  /\ writer' = [step |-> "computed", stored |-> [i \in DOMAIN corpus.stored |-> TRUE]]
  /\ UNCHANGED <<corpus, writes>>

\* BuildCorpusRunner collects the poems anew, without vectors.
StartCorpus ==
  /\ writer = NotWriting
  /\ writes < MaxWrites
  /\ \E c \in Corpora :
       writer' = [step |-> "computed", stored |-> [i \in DOMAIN c |-> FALSE]]
  /\ UNCHANGED <<corpus, writes>>

\* write_text opens the file, which empties it, and then fills it.
OpenCorpus ==
  /\ writer.step = "computed"
  /\ corpus' = [state |-> "torn", stored |-> <<>>]
  /\ writer' = [writer EXCEPT !.step = "opened"]
  /\ writes' = writes + 1

FillCorpus ==
  /\ writer.step = "opened"
  /\ corpus' = [state |-> "whole", stored |-> writer.stored]
  /\ writer' = NotWriting
  /\ UNCHANGED writes

\* The runner is killed; a file it had opened stays torn.
WriterStops ==
  /\ writer # NotWriting
  /\ writer' = NotWriting
  /\ UNCHANGED <<corpus, writes>>

WriteCorpus ==
  /\ \/ StartEmbeddings
     \/ StartCorpus
     \/ OpenCorpus
     \/ FillCorpus
     \/ WriterStops
  /\ UNCHANGED <<containerVars, stressVars, repo, embedderVars, jobVars>>

-----------------------------------------------------------------------------
(***************************************************************************)
(* Requests                                                                *)
(***************************************************************************)

\* A request of the application: it asks the container for the metric registry.
BeginRequest(w) ==
  /\ Serving
  /\ ~ Busy(w)
  /\ job[w].step \in {"idle", "finished"}
  /\ requests[w] < MaxRequests
  /\ requests' = [requests EXCEPT ![w] = @ + 1]
  /\ agenda' = [agenda EXCEPT ![w] = Ask(1, <<"metric_registry">>)]
  /\ job' = [job EXCEPT ![w] = [NoJob EXCEPT !.step = "begun"]]
  /\ UNCHANGED <<factory, cache, stressVars, corpusVars, repo, embedderVars>>

Compare(w, kind, docs) ==
  job' = [job EXCEPT ![w] = [step |-> "next", kind |-> kind, docs |-> docs,
                             vectors |-> <<>>, began |-> usingFallback]]

CanRead == repo = "demo" \/ corpus.state = "whole"

\* The retrieval stage loads the excerpts, those of the demo or those of the file;
\* a file it cannot read ends the stage with an error, not the request.
BeginRetrieval(w) ==
  /\ job[w].step = "begun"
  /\ ~ Busy(w)
  /\ IF CanRead
     THEN Compare(w, "retrieval", IF repo = "demo" THEN <<FALSE, FALSE>> ELSE corpus.stored)
     ELSE job' = [job EXCEPT ![w].step = "finished", ![w].kind = "retrieval"]
  /\ UNCHANGED <<requests, containerVars, stressVars, corpusVars, repo, embedderVars>>

\* The semantic relevance metric compares the poem with the theme.
BeginRelevance(w) ==
  /\ job[w].step = "finished"
  /\ job[w].kind = "retrieval"
  /\ Compare(w, "relevance", <<FALSE>>)
  /\ UNCHANGED <<requests, containerVars, stressVars, corpusVars, repo, embedderVars>>

\* The next text of a comparison is an excerpt with a stored vector.
HasStoredVector(j) == j.vectors # <<>> /\ j.docs[Len(j.vectors)]

\* The comparison with one more vector.
WithVector(j, space) ==
  [j EXCEPT !.vectors = Append(@, space),
            !.step = IF Len(j.vectors) = Len(j.docs) THEN "finished" ELSE "next"]

\* A text is encoded: by the fallback if it is in use, else the model is tried.
EncodeNext(w) ==
  /\ job[w].step = "next"
  /\ job' = [job EXCEPT ![w] =
               IF HasStoredVector(@) THEN WithVector(@, "labse")
               ELSE IF Offline \/ usingFallback THEN WithVector(@, "offline")
               ELSE [@ EXCEPT !.step = IF modelLoaded THEN "model" ELSE "load"]]
  /\ UNCHANGED <<requests, containerVars, stressVars, corpusVars, repo, embedderVars>>

\* The model is loaded, without a lock: two threads may both do it.
LoadModel(w) ==
  /\ job[w].step = "load"
  /\ modelLoaded' = TRUE
  /\ job' = [job EXCEPT ![w].step = "model"]
  /\ UNCHANGED <<usingFallback, requests, containerVars, stressVars, corpusVars, repo>>

ModelEncodes(w) ==
  /\ job[w].step = "model"
  /\ job' = [job EXCEPT ![w] = WithVector(@, "labse")]
  /\ UNCHANGED <<requests, containerVars, stressVars, corpusVars, repo, embedderVars>>

\* Mutant of FallBack: the failure is answered once and forgotten.
FallBackOnce == UNCHANGED usingFallback

\* From the first failure on, the fallback is in use.
FallBack == usingFallback' = TRUE

\* The model cannot be loaded, or fails on this text.
ModelFails(w) ==
  /\ job[w].step \in {"load", "model"}
  /\ FallBack
  /\ job' = [job EXCEPT ![w] = WithVector(@, "offline")]
  /\ UNCHANGED <<modelLoaded, requests, containerVars, stressVars, corpusVars, repo>>

ServeRequest(w) ==
  \/ BeginRetrieval(w)
  \/ BeginRelevance(w)
  \/ EncodeNext(w)
  \/ LoadModel(w)
  \/ ModelEncodes(w)
  \/ ModelFails(w)

\* All programs have what they asked for and all requests their answer: only here
\* may the process rest, so that a deadlock is a thread that waits for ever.
AtRest ==
  /\ \A t \in Threads : ~ Busy(t)
  /\ Serving => \A w \in Workers : /\ requests[w] = MaxRequests
                                   /\ job[w].kind = "relevance"
                                   /\ job[w].step = "finished"
  /\ UNCHANGED vars

Next ==
  \/ AtRest
  \/ \E t \in Threads : Wire(t)
  \/ WriteCorpus
  \/ \E w \in Workers : BeginRequest(w) \/ ServeRequest(w)

Spec == Init /\ [][Next]_vars

-----------------------------------------------------------------------------
(***************************************************************************)
(* Properties                                                              *)
(***************************************************************************)

\* A ranking or a relevance score compares vectors of one space; the exceptions are
\* two: the embedder fell back between its first vector and its last, or it was
\* stand-in vectors throughout and the corpus has stored ones.  The switch may have
\* been another request's (composite.py:38-47, semantic_retriever.py:21-41,
\* semantic_relevance.py:37-49).
ComparedInOneSpace ==
  \A w \in Workers :
    LET j == job[w] IN
      j.step = "finished" /\ Cardinality(Range(j.vectors)) > 1 =>
        \/ ~ j.began /\ usingFallback
        \/ (j.began \/ Offline) /\ TRUE \in Range(j.docs)
=============================================================================
