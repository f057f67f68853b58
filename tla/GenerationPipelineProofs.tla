---------------------- MODULE GenerationPipelineProofs ----------------------
(***************************************************************************)
(* One run of the pipeline, for any texts, verdicts, scheme, configuration *)
(* and number of rounds: the records describe their poems, the run keeps   *)
(* the contract of PoemRefinement, an abort is final, the LLM is told the  *)
(* truth, lines that were not flagged survive, and the outcome tells the   *)
(* run.  All follow from one invariant of the run, by the stage it is at.  *)
(***************************************************************************)
EXTENDS GenerationPipeline, SequenceFacts, FiniteSetTheorems, TLAPS

\* Where a run is until it has a verdict.
BeforeVerdict ==
  {"request", "retrieval", "metric_examples", "prompt_construction", "initial_generation",
   "validation"}

\* The stages, and which follows which.
LEMMA OrderOfStages ==
  /\ StageNames = {"retrieval", "metric_examples", "prompt_construction", "initial_generation",
                   "validation", "feedback_loop"}
  /\ StageOrder[1] = "retrieval"
  /\ NextStage("retrieval") = "metric_examples"
  /\ NextStage("metric_examples") = "prompt_construction"
  /\ NextStage("prompt_construction") = "initial_generation"
  /\ NextStage("initial_generation") = "validation"
  /\ NextStage("validation") = "feedback_loop"
  /\ NextStage("feedback_loop") = "return"
<1>1. DOMAIN StageOrder = 1 .. 6 /\ Len(StageOrder) = 6
  BY DEF StageOrder
<1>2. /\ StageOrder[1] = "retrieval" /\ StageOrder[2] = "metric_examples"
      /\ StageOrder[3] = "prompt_construction" /\ StageOrder[4] = "initial_generation"
      /\ StageOrder[5] = "validation" /\ StageOrder[6] = "feedback_loop"
  BY DEF StageOrder
<1>3. \A k \in 1 .. 6 : (CHOOSE i \in 1 .. 6 : StageOrder[i] = StageOrder[k]) = k
  BY <1>2
<1>4. Last(StageOrder) = "feedback_loop"
  BY <1>1, <1>2 DEF Last
<1>5. \A k \in 1 .. 5 : NextStage(StageOrder[k]) = StageOrder[k + 1]
  BY <1>1, <1>2, <1>3, <1>4 DEF NextStage
<1>6. NextStage("feedback_loop") = "return"
  BY <1>4 DEF NextStage
<1>7. StageNames = {"retrieval", "metric_examples", "prompt_construction", "initial_generation",
                   "validation", "feedback_loop"}
  BY <1>1, <1>2 DEF StageNames, Range
<1>8. QED
  BY <1>2, <1>5, <1>6, <1>7

\* Every configuration validates (domain/evaluation.py:54-110).
LEMMA ValidationIsOn ==
  \A c \in Range(EnabledStages) \cup {GenerationConfig} : "validation" \in c
<1>1. \A l \in DOMAIN EnabledStages : "validation" \in EnabledStages[l]
  BY DEF EnabledStages
<1>2. QED
  BY <1>1 DEF Range, GenerationConfig

\* A set of places in a text is finite.
LEMMA PlacesAreFinite ==
  ASSUME NEW n \in Nat, NEW places \in SUBSET (1 .. n)
  PROVE  IsFiniteSet(places) /\ Cardinality(places) \in Nat
<1>1. IsFiniteSet(1 .. n)
  BY FS_Interval
<1>2. IsFiniteSet(places)
  BY <1>1, FS_Subset
<1>3. QED
  BY <1>2, FS_CardinalityType

\* A verdict is never mistaken for the absence of one.
LEMMA VerdictIsNotNone == \A text \in Text : MeterResult(text) # None
<1> SUFFICES ASSUME NEW text \in Text PROVE MeterResult(text) # None
  OBVIOUS
<1> DEFINE bad == {i \in DOMAIN text : text[i] \notin Metrical}
<1>1. Len(text) \in Nat /\ DOMAIN text = 1 .. Len(text)
  BY DEF Text
<1>4. Cardinality(bad) \in Nat
  BY <1>1, PlacesAreFinite
<1>5. bad \in SUBSET Nat
  BY <1>1
<1>6. MeterResult(text) \in [ok : BOOLEAN, accuracy : Int \X Int, feedback : SUBSET Nat]
  BY <1>1, <1>4, <1>5 DEF MeterResult
<1>7. QED
  BY <1>6, PipelineAssumption

-----------------------------------------------------------------------------
\* The merge.

\* The rank of a flagged line is a place in a response with a line for each.
LEMMA RankIsAPlace ==
  ASSUME NEW n \in Nat, NEW flagged \in SUBSET (1 .. n), NEW i \in flagged
  PROVE  Rank(flagged, i) \in 1 .. Cardinality(flagged)
<1> DEFINE upTo == {j \in flagged : j <= i}
<1>1. IsFiniteSet(flagged)
  BY PlacesAreFinite
<1>2. IsFiniteSet(upTo) /\ Cardinality(upTo) <= Cardinality(flagged)
  BY <1>1, FS_Subset
<1>3. Cardinality(upTo) \in Nat /\ Cardinality(flagged) \in Nat
  BY <1>1, <1>2, FS_CardinalityType
<1>4. i \in upTo
  OBVIOUS
<1>5. Cardinality(upTo) # 0
  BY <1>2, <1>4, FS_EmptySet
<1>6. QED
  BY <1>2, <1>3, <1>5 DEF Rank

\* What Splice rewrites, and what it leaves alone.
LEMMA SpliceKeepsLines ==
  ASSUME NEW original \in Text, NEW regenerated \in Text,
         NEW flagged \in SUBSET (1 .. Len(original)),
         Len(regenerated) >= Cardinality(flagged)
  PROVE  LET spliced == Splice(original, regenerated, flagged)
         IN  /\ spliced \in Text
             /\ Len(spliced) = Len(original)
             /\ \A i \in DOMAIN original :
                  IF i \in flagged THEN spliced[i] \in Range(regenerated)
                  ELSE spliced[i] = original[i]
<1> DEFINE spliced == Splice(original, regenerated, flagged)
<1>1. Len(original) \in Nat /\ DOMAIN original = 1 .. Len(original)
  BY DEF Text
<1>2. Len(regenerated) \in Nat /\ DOMAIN regenerated = 1 .. Len(regenerated)
  BY DEF Text
<1>4. Cardinality(flagged) \in Nat
  BY <1>1, PlacesAreFinite
<1>5. \A i \in flagged : Rank(flagged, i) \in DOMAIN regenerated
  <2> SUFFICES ASSUME NEW i \in flagged PROVE Rank(flagged, i) \in 1 .. Len(regenerated)
    BY <1>2
  <2>1. Rank(flagged, i) \in 1 .. Cardinality(flagged)
    BY <1>1, RankIsAPlace
  <2>2. QED
    BY <1>2, <1>4, <2>1
<1>6. DOMAIN spliced = 1 .. Len(original)
  BY DEF Splice
<1>7. \A i \in 1 .. Len(original) :
        IF i \in flagged THEN spliced[i] \in Range(regenerated) ELSE spliced[i] = original[i]
  BY <1>5 DEF Splice, Range
<1>8. \A i \in 1 .. Len(original) : spliced[i] \in Lines
  BY <1>1, <1>2, <1>7 DEF Text, Range
<1>9. spliced \in [1 .. Len(original) -> Lines]
  BY <1>6, <1>8 DEF Splice
<1>10. spliced \in Text /\ Len(spliced) = Len(original)
  BY <1>1, <1>9 DEF Text
<1>11. QED
  BY <1>1, <1>7, <1>10

\* No merge blanks a poem (line_index_merger.py:27-61).
LEMMA MergeGivesText ==
  ASSUME NEW original \in Text \ {<<>>}, NEW regenerated \in Text \ {<<>>},
         NEW lines, NEW pairs
  PROVE  Merge(original, regenerated, lines, pairs) \in Text \ {<<>>}
<1> DEFINE flagged == Flagged(Len(original), lines, pairs)
<1>1. flagged \in SUBSET (1 .. Len(original))
  BY DEF Flagged
<1>2. Len(original) \in Nat /\ Len(regenerated) \in Nat /\ Len(original) # 0
  BY DEF Text
<1>4. Cardinality(flagged) \in Nat
  BY <1>1, <1>2, PlacesAreFinite
<1>5. CASE Len(regenerated) >= Cardinality(flagged)
  <2>1. Splice(original, regenerated, flagged) \in Text
    BY <1>1, <1>5, SpliceKeepsLines
  <2>2. Len(Splice(original, regenerated, flagged)) = Len(original)
    BY <1>1, <1>5, SpliceKeepsLines
  <2>3. Splice(original, regenerated, flagged) # <<>>
    BY <1>2, <2>2
  <2>4. QED
    BY <2>1, <2>3 DEF Merge
<1>6. CASE Len(regenerated) < Cardinality(flagged)
  BY <1>6 DEF Merge
<1>7. QED
  BY <1>2, <1>4, <1>5, <1>6

-----------------------------------------------------------------------------
\* The inductive invariant.

\* Records that describe their own poem.
TrueRecords ==
  {IterationRecord(n, text, MeterResult(text), RhymeResult(text), MessagesOf(text), failed,
                   tokens) :
     n \in Nat, text \in Text \ {<<>>}, failed \in BOOLEAN, tokens \in Nat}

\* The verdicts and messages that are carried along are those of the poem.
Judged ==
  meter = MeterResult(poem) /\ rhyme = RhymeResult(poem) /\ feedback = MessagesOf(poem)

StateInv ==
  /\ stage \in StageNames \cup {"request", "return", "done"}
  /\ "validation" \in config
  /\ maxRounds \in Nat
  /\ round \in Nat
  /\ aborted \in BOOLEAN
  /\ poem \in Text
  /\ usage \in Nat
  /\ iterations \in Seq(TrueRecords)

\* Until the first verdict there is none, and nothing is recorded, ...
BeforeInv ==
  stage \in BeforeVerdict => iterations = <<>> /\ meter = None /\ round = 1

\* ... the draft that is judged is not blank, ...
DraftInv == stage = "validation" /\ ~ aborted => poem # <<>>

\* ... and nothing is recorded of a run that is aborted.
AbortedInv == aborted => iterations = <<>>

\* From then on the last record is of the poem, ...
JudgedInv ==
  stage \in {"feedback_loop", "return"} /\ ~ aborted =>
    iterations # <<>> /\ Judged /\ iterations[Len(iterations)].poem = poem

\* ... no round has failed as long as there may be another, ...
LoopInv ==
  stage = "feedback_loop" /\ ~ aborted =>
    round = Len(iterations) /\ ~ iterations[Len(iterations)].failed

\* ... and there is none when no other is allowed or needed.
SettledInv ==
  stage = "return" /\ ~ aborted =>
    iterations[Len(iterations)].failed \/ IsValid(poem) \/ Len(iterations) > Rounds

\* The records count the rounds, and only the last may be of one that failed.
RecordsInv ==
  \A n \in DOMAIN iterations :
    /\ iterations[n].iteration = n - 1
    /\ iterations[n].failed =>
         n = Len(iterations) /\ n > 1 /\ iterations[n].poem = iterations[n - 1].poem

RunInv ==
  StateInv /\ BeforeInv /\ DraftInv /\ AbortedInv /\ JudgedInv /\ LoopInv /\ SettledInv
    /\ RecordsInv

\* The invariant holds when a run begins.
LEMMA RunInit == Init => RunInv
<1> SUFFICES ASSUME Init PROVE RunInv
  OBVIOUS
<1>1. "validation" \in config
  BY ValidationIsOn DEF Init
<1>2. StateInv
  <2>1. maxRounds \in Nat /\ usage \in Nat
    BY PipelineAssumption DEF Init
  <2>2. poem \in Text /\ iterations \in Seq(TrueRecords)
    BY DEF Init, Text
  <2>3. QED
    BY <1>1, <2>1, <2>2 DEF Init, StateInv
<1>3. QED
  BY <1>2 DEF Init, RunInv, BeforeInv, DraftInv, AbortedInv, JudgedInv, LoopInv, SettledInv,
              RecordsInv, BeforeVerdict

\* The record of a round that ended well, or that failed, describes its poem.
LEMMA RecordIsTrue ==
  ASSUME NEW n \in Nat, NEW text \in Text \ {<<>>}, NEW tokens \in Nat
  PROVE  /\ IterationRecord(n, text, MeterResult(text), RhymeResult(text), MessagesOf(text),
                            FALSE, tokens) \in TrueRecords
         /\ IterationRecord(n, text, MeterResult(text), RhymeResult(text), MessagesOf(text),
                            TRUE, tokens) \in TrueRecords
<1>1. \A failed \in BOOLEAN :
        IterationRecord(n, text, MeterResult(text), RhymeResult(text), MessagesOf(text), failed,
                        tokens) \in TrueRecords
  BY DEF TrueRecords
<1>2. QED
  BY <1>1

\* One more record.
LEMMA RecordAdded ==
  ASSUME StateInv, NEW rec \in TrueRecords, iterations' = Append(iterations, rec)
  PROVE  /\ iterations' \in Seq(TrueRecords)
         /\ Len(iterations') = Len(iterations) + 1
         /\ iterations' # <<>>
         /\ iterations'[Len(iterations')] = rec
BY DEF StateInv

\* A record added to records that have not failed, of which it continues the count.
LEMMA RecordsCount ==
  ASSUME StateInv, RecordsInv, NEW rec,
         iterations' = Append(iterations, rec),
         rec.iteration = Len(iterations),
         \A i \in DOMAIN iterations : ~ iterations[i].failed,
         rec.failed => iterations # <<>> /\ rec.poem = iterations[Len(iterations)].poem
  PROVE  RecordsInv'
<1>1. Len(iterations) \in Nat /\ DOMAIN iterations = 1 .. Len(iterations)
  BY DEF StateInv
<1>2. Len(iterations') = Len(iterations) + 1 /\ DOMAIN iterations' = 1 .. Len(iterations) + 1
  BY <1>1 DEF StateInv
<1>3. iterations'[Len(iterations) + 1] = rec
  BY <1>1 DEF StateInv
<1>4. \A i \in 1 .. Len(iterations) : iterations'[i] = iterations[i]
  BY <1>1 DEF StateInv
<1>5. ASSUME NEW n \in 1 .. Len(iterations) PROVE iterations'[n].iteration = n - 1 /\ ~ iterations'[n].failed
  BY <1>1, <1>4 DEF RecordsInv
<1>6. Len(iterations) > 0 <=> iterations # <<>>
  BY <1>1 DEF StateInv
<1>7. QED
  BY <1>1, <1>2, <1>3, <1>4, <1>5, <1>6 DEF RecordsInv

\* While the loop may go on, no record is of a failed round.
LEMMA NoneFailed ==
  ASSUME RunInv, stage = "feedback_loop", ~ aborted
  PROVE  \A i \in DOMAIN iterations : ~ iterations[i].failed
BY DEF RunInv, RecordsInv, LoopInv

-----------------------------------------------------------------------------
\* What each step does to the invariant.

\* A step that leaves everything alone but the stage, before a verdict.
LEMMA EarlyKeeps ==
  ASSUME RunInv, stage \in BeforeVerdict \ {"validation"},
         stage' \in BeforeVerdict, stage' = "validation" => aborted',
         UNCHANGED <<inputs, poemVars, aborted, usage, round, iterations>>
  PROVE  RunInv'
<1>1. /\ config' = config /\ maxRounds' = maxRounds /\ poem' = poem /\ meter' = meter
      /\ rhyme' = rhyme /\ feedback' = feedback /\ aborted' = aborted /\ round' = round
      /\ iterations' = iterations /\ usage' = usage
  BY DEF inputs, poemVars
<1>2. stage' \notin {"feedback_loop", "return"} /\ stage' \in StageNames \cup {"request"}
  BY OrderOfStages DEF BeforeVerdict
<1>3. StateInv'
  BY <1>1, <1>2 DEF RunInv, StateInv
<1>4. BeforeInv' /\ AbortedInv' /\ RecordsInv'
  BY <1>1 DEF RunInv, BeforeInv, AbortedInv, RecordsInv
<1>5. DraftInv' /\ JudgedInv' /\ LoopInv' /\ SettledInv'
  BY <1>2 DEF DraftInv, JudgedInv, LoopInv, SettledInv
<1>6. QED
  BY <1>3, <1>4, <1>5 DEF RunInv

\* So does one that goes on from there with nothing to go on with.
LEMMA AbortKeeps ==
  ASSUME RunInv, aborted', iterations' = <<>>, iterations = <<>>, poem' = poem,
         UNCHANGED <<inputs, round>>, usage' \in Nat,
         stage' \in StageNames \cup {"return", "done"},
         stage' \in BeforeVerdict => meter' = None /\ round' = 1
  PROVE  RunInv'
<1>1. config' = config /\ maxRounds' = maxRounds /\ round' = round /\ aborted' = TRUE
  BY DEF inputs
<1>2. aborted' \in BOOLEAN /\ iterations' \in Seq(TrueRecords)
  OBVIOUS
<1>3. StateInv'
  BY <1>1, <1>2 DEF RunInv, StateInv
<1>4. BeforeInv' /\ AbortedInv' /\ RecordsInv'
  BY DEF BeforeInv, AbortedInv, RecordsInv
<1>5. DraftInv' /\ JudgedInv' /\ LoopInv' /\ SettledInv'
  BY DEF DraftInv, JudgedInv, LoopInv, SettledInv
<1>6. QED
  BY <1>3, <1>4, <1>5 DEF RunInv

\* Skipping a stage, after an abort or because it is turned off.
LEMMA SkipKeeps == ASSUME RunInv, SkipStage PROVE RunInv'
<1>1. UNCHANGED <<inputs, poemVars, aborted, usage, round, iterations>> /\ stage' = NextStage(stage)
      /\ usage' \in Nat
  BY DEF SkipStage, SkipTo, RunInv, StateInv
<1>2. stage \in StageNames
  BY DEF SkipStage, SkipTo
<1>3. CASE stage \in {"retrieval", "metric_examples", "initial_generation", "prompt_construction"}
  <2>1. stage' \in BeforeVerdict /\ stage \in BeforeVerdict \ {"validation"}
    BY <1>1, <1>3, OrderOfStages DEF BeforeVerdict
  <2>2. stage' = "validation" => stage = "initial_generation"
    BY <1>1, <1>3, OrderOfStages
  <2>3. stage = "initial_generation" => aborted
    BY DEF SkipStage, SkipTo
  <2>4. aborted' = aborted
    BY <1>1
  <2>5. stage' = "validation" => aborted'
    BY <2>2, <2>3, <2>4
  <2>6. QED
    BY <1>1, <2>1, <2>5, EarlyKeeps
<1>4. CASE stage = "validation"
  <2>1. aborted
    BY <1>4 DEF RunInv, StateInv, SkipStage, SkipTo
  <2>2. stage' = "feedback_loop" /\ stage' \in StageNames /\ stage' \notin BeforeVerdict
    BY <1>1, <1>4, OrderOfStages DEF BeforeVerdict
  <2>3. iterations = <<>>
    BY <2>1 DEF RunInv, AbortedInv
  <2>4. QED
    BY <1>1, <2>1, <2>2, <2>3, AbortKeeps DEF poemVars
<1>5. CASE stage = "feedback_loop"
  <2>1. stage' = "return" /\ stage' \notin BeforeVerdict
    BY <1>1, <1>5, OrderOfStages DEF BeforeVerdict
  <2>2. CASE aborted
    <3>1. iterations = <<>>
      BY <2>2 DEF RunInv, AbortedInv
    <3>2. QED
      BY <1>1, <2>1, <2>2, <3>1, AbortKeeps DEF poemVars
  <2>3. CASE ~ aborted
    <3>1. /\ config' = config /\ maxRounds' = maxRounds /\ poem' = poem /\ meter' = meter
          /\ rhyme' = rhyme /\ feedback' = feedback /\ aborted' = aborted /\ round' = round
          /\ iterations' = iterations /\ usage' = usage
      BY <1>1 DEF inputs, poemVars
    <3>2. meter # None
      BY <1>5, <2>3, VerdictIsNotNone DEF RunInv, JudgedInv, Judged, StateInv
    <3>3. "feedback_loop" \notin config
      BY <1>5, <2>3, <3>2 DEF SkipStage, SkipTo
    <3>4. StateInv'
      BY <2>1, <3>1 DEF RunInv, StateInv
    <3>5. BeforeInv' /\ DraftInv' /\ AbortedInv' /\ LoopInv' /\ RecordsInv'
      BY <2>1, <3>1 DEF RunInv, BeforeInv, DraftInv, AbortedInv, LoopInv, RecordsInv
    <3>6. JudgedInv'
      BY <1>5, <2>1, <3>1 DEF RunInv, JudgedInv, Judged
    <3>7. Len(iterations) > 0
      BY <1>5, <2>3 DEF RunInv, JudgedInv, StateInv
    <3>8. SettledInv'
      BY <3>1, <3>3, <3>7 DEF SettledInv, Rounds
    <3>9. QED
      BY <3>4, <3>5, <3>6, <3>8 DEF RunInv
  <2>4. QED
    BY <2>2, <2>3
<1>6. QED
  BY <1>2, <1>3, <1>4, <1>5, OrderOfStages

\* The stages up to the prompt.
LEMMA EnrichKeeps ==
  ASSUME RunInv, Retrieve \/ FindExamples \/ BuildPrompt \/ Start
  PROVE  RunInv'
<1>1. UNCHANGED <<inputs, poemVars, aborted, usage, round, iterations>>
  BY DEF Retrieve, FindExamples, Enrich, BuildPrompt, Start
<1>2. /\ stage \in {"request", "retrieval", "metric_examples", "prompt_construction"}
      /\ stage' \in BeforeVerdict \ {"validation"}
  BY OrderOfStages DEF Retrieve, FindExamples, Enrich, BuildPrompt, Start, BeforeVerdict
<1>3. QED
  BY <1>1, <1>2, EarlyKeeps DEF BeforeVerdict

\* What a call is: answered, or raised.
Called(kind, response) == IF response = None THEN Raise(kind) ELSE Answer(kind, response)

\* A call is logged with what it reports, which the recorder holds then.
LEMMA CallMade ==
  ASSUME StateInv, NEW kind, NEW response, Called(kind, response)
  PROVE  /\ usage' \in Nat
         /\ \E reported \in Usages \cup {None} :
              /\ LogCall(kind, response, reported)
              /\ reported # None => response # None /\ usage' = reported
<1>1. CASE response = None
  BY <1>1, PipelineAssumption DEF Called, Raise, KeepsUsage, StateInv
<1>2. CASE response # None
  <2>1. CASE \E reported \in Usages : LogCall(kind, response, reported) /\ usage' = reported
    BY <1>2, <2>1, PipelineAssumption
  <2>2. CASE LogCall(kind, response, None) /\ KeepsUsage
    BY <2>2, PipelineAssumption DEF KeepsUsage, StateInv
  <2> QED
    BY <1>2, <2>1, <2>2 DEF Called, Answer
<1> QED
  BY <1>1, <1>2

\* What each step that calls asks for, and whether it is answered.
LEMMA Callers ==
  /\ Generate => \E raw \in Responses : Called("generate", raw)
  /\ GenerateFails => Called("generate", None)
  /\ RegenerateAll => \E raw \in Responses : Called("generate", raw)
  /\ RegenerateLines => \E raw \in Responses : Called("regenerate_lines", raw)
  /\ RegenerationFails => \E kind \in {"generate", "regenerate_lines"} : Called(kind, None)
<1>1. \A kind : \A raw \in Responses : Answer(kind, raw) => Called(kind, raw)
  BY PipelineAssumption DEF Called
<1>2. \A kind : Raise(kind) => Called(kind, None)
  BY DEF Called
<1> QED
  BY <1>1, <1>2 DEF Generate, GenerateFails, RegenerateAll, RegenerateLines, RegenerationFails

\* The first draft is not blank, whatever the LLM returns (generation_stage.py:30-42).
LEMMA DraftIsText ==
  ASSUME NEW raw \in Responses
  PROVE  (IF Len(FromText(raw)) < ExpectedLines THEN raw ELSE FromText(raw)) \in Text \ {<<>>}
<1>1. raw \in Text \ {<<>>} /\ FromText(raw) \in Text /\ ExpectedLines \in Nat \ {0}
  BY PipelineAssumption
<1>2. FromText(raw) = <<>> => Len(FromText(raw)) = 0
  OBVIOUS
<1>3. QED
  BY <1>1, <1>2

\* The first draft, or the error that aborts the run.
LEMMA GenerateKeeps == ASSUME RunInv, Generate \/ GenerateFails PROVE RunInv'
<1>1. /\ stage = "initial_generation" /\ stage' = "validation" /\ ~ aborted
      /\ stage \in BeforeVerdict /\ stage' \in StageNames
  BY OrderOfStages DEF Generate, GenerateFails, BeforeVerdict
<1>2. iterations = <<>> /\ meter = None /\ round = 1 /\ usage' \in Nat
  BY <1>1, Callers, CallMade DEF RunInv, BeforeInv
<1>3. CASE Generate
  <2>1. poem' \in Text \ {<<>>}
    BY <1>3, DraftIsText DEF Generate
  <2>2. /\ config' = config /\ maxRounds' = maxRounds /\ meter' = meter /\ round' = round
        /\ aborted' = aborted /\ iterations' = iterations
    BY <1>3 DEF Generate, inputs
  <2>3. StateInv'
    BY <1>1, <1>2, <2>1, <2>2 DEF RunInv, StateInv
  <2>4. BeforeInv' /\ DraftInv' /\ AbortedInv' /\ RecordsInv'
    BY <1>2, <2>1, <2>2 DEF RunInv, BeforeInv, DraftInv, AbortedInv, RecordsInv
  <2>5. JudgedInv' /\ LoopInv' /\ SettledInv'
    BY <1>1 DEF JudgedInv, LoopInv, SettledInv
  <2>6. QED
    BY <2>3, <2>4, <2>5 DEF RunInv
<1>4. CASE GenerateFails
  <2>1. aborted' /\ UNCHANGED <<inputs, poem, meter, round, iterations>>
    BY <1>4 DEF GenerateFails, poemVars
  <2>2. QED
    BY <1>1, <1>2, <2>1, AbortKeeps
<1>5. QED
  BY <1>3, <1>4

\* The first verdict.
LEMMA ValidateKeeps == ASSUME RunInv, Validate PROVE RunInv'
<1> DEFINE rec == IterationRecord(0, poem, MeterResult(poem), RhymeResult(poem),
                                  MessagesOf(poem), FALSE, usage)
<1>1. /\ stage = "validation" /\ stage' = "feedback_loop" /\ stage \in BeforeVerdict
      /\ stage' \in StageNames /\ stage' \notin BeforeVerdict /\ ~ aborted
  BY OrderOfStages DEF Validate, Skipped, BeforeVerdict
<1>2. iterations = <<>> /\ round = 1 /\ poem \in Text \ {<<>>}
  BY <1>1 DEF RunInv, BeforeInv, DraftInv, StateInv
<1>3. /\ config' = config /\ maxRounds' = maxRounds /\ poem' = poem /\ aborted' = aborted
      /\ round' = round /\ usage' = usage /\ usage \in Nat
  BY DEF Validate, inputs, RunInv, StateInv
<1>4. /\ meter' = MeterResult(poem) /\ rhyme' = RhymeResult(poem) /\ feedback' = MessagesOf(poem)
      /\ iterations' = Append(iterations, rec)
  BY DEF Validate, MessagesOf
<1>5. StateInv /\ RecordsInv
  BY DEF RunInv
<1>6. /\ iterations' \in Seq(TrueRecords) /\ Len(iterations') = Len(iterations) + 1
      /\ iterations' # <<>> /\ iterations'[Len(iterations')] = rec
      /\ rec.iteration = 0 /\ rec.poem = poem /\ rec.failed = FALSE
  <2>1. rec.iteration = 0 /\ rec.poem = poem /\ rec.failed = FALSE
    BY DEF IterationRecord
  <2>2. rec \in TrueRecords
    BY <1>2, <1>3, RecordIsTrue
  <2> HIDE DEF rec
  <2>3. QED
    BY <2>1, <2>2, <1>2, <1>4, <1>5, RecordAdded
<1>7. Len(iterations) = 0 /\ Len(iterations') = 1
  BY <1>2, <1>6
<1> HIDE DEF rec
<1>8. StateInv'
  BY <1>1, <1>3, <1>5, <1>6 DEF StateInv
<1>9. RecordsInv'
  BY <1>2, <1>4, <1>5, <1>6, <1>7, RecordsCount
<1>10. BeforeInv' /\ DraftInv' /\ AbortedInv' /\ SettledInv'
  BY <1>1, <1>3 DEF BeforeInv, DraftInv, AbortedInv, SettledInv, BeforeVerdict
<1>11. JudgedInv'
  <2>1. Judged'
    BY <1>3, <1>4 DEF Judged
  <2>2. QED
    BY <1>3, <1>6, <2>1 DEF JudgedInv
<1>12. LoopInv'
  BY <1>2, <1>3, <1>6, <1>7 DEF LoopInv
<1>13. QED
  BY <1>8, <1>9, <1>10, <1>11, <1>12 DEF RunInv

\* In the loop there is a poem, it is the one judged, and the rounds are counted.
LEMMA InTheLoop ==
  ASSUME RunInv, InLoop
  PROVE  /\ stage = "feedback_loop" /\ ~ aborted /\ stage \in StageNames
         /\ stage \notin BeforeVerdict
         /\ "feedback_loop" \in config
         /\ poem \in Text \ {<<>>} /\ Judged
         /\ iterations # <<>> /\ iterations[Len(iterations)].poem = poem
         /\ Len(iterations) \in Nat \ {0} /\ round = Len(iterations)
<1>1. /\ stage = "feedback_loop" /\ ~ aborted /\ "feedback_loop" \in config
      /\ stage \in StageNames /\ stage \notin BeforeVerdict
  BY OrderOfStages DEF InLoop, Skipped, BeforeVerdict
<1>2. iterations # <<>> /\ Judged /\ iterations[Len(iterations)].poem = poem
  BY <1>1 DEF RunInv, JudgedInv
<1>3. round = Len(iterations)
  BY <1>1 DEF RunInv, LoopInv
<1>4. iterations \in Seq(TrueRecords)
  BY DEF RunInv, StateInv
<1>5. Len(iterations) \in Nat \ {0} /\ iterations[Len(iterations)] \in TrueRecords
  BY <1>2, <1>4
<1>6. \A rec \in TrueRecords : rec.poem \in Text \ {<<>>}
  BY DEF TrueRecords, IterationRecord
<1>7. poem \in Text \ {<<>>}
  BY <1>2, <1>5, <1>6
<1>8. QED
  BY <1>1, <1>2, <1>3, <1>5, <1>7

\* A round that ends well.
LEMMA AcceptKeeps ==
  ASSUME RunInv, Refining, NEW text \in Text \ {<<>>}, Accept(text), usage' \in Nat
  PROVE  RunInv'
<1> DEFINE rec == IterationRecord(round, text, MeterResult(text), RhymeResult(text),
                                  MessagesOf(text), FALSE, usage')
<1>1. /\ stage = "feedback_loop" /\ ~ aborted /\ stage \in StageNames
      /\ stage \notin BeforeVerdict
      /\ Len(iterations) \in Nat \ {0} /\ round = Len(iterations) /\ round \in Nat
  BY InTheLoop DEF Refining
<1>2. /\ config' = config /\ maxRounds' = maxRounds /\ stage' = stage /\ aborted' = aborted
      /\ round' = round + 1 /\ poem' = text
  BY DEF Accept, EndRound, inputs
<1>3. /\ meter' = MeterResult(text) /\ rhyme' = RhymeResult(text) /\ feedback' = MessagesOf(text)
      /\ iterations' = Append(iterations, rec)
  BY DEF Accept, EndRound, Verdict, RoundTokens
<1>4. StateInv /\ RecordsInv
  BY DEF RunInv
<1>5. /\ iterations' \in Seq(TrueRecords) /\ Len(iterations') = Len(iterations) + 1
      /\ iterations' # <<>> /\ iterations'[Len(iterations')] = rec
      /\ rec.iteration = round /\ rec.poem = text /\ rec.failed = FALSE
  <2>1. rec.iteration = round /\ rec.poem = text /\ rec.failed = FALSE
    BY DEF IterationRecord
  <2>2. rec \in TrueRecords
    BY <1>1, RecordIsTrue
  <2> HIDE DEF rec
  <2>3. QED
    BY <2>1, <2>2, <1>1, <1>3, <1>4, RecordAdded
<1> HIDE DEF rec
<1>6. StateInv'
  BY <1>1, <1>2, <1>4, <1>5 DEF StateInv
<1>7. RecordsInv'
  <2>1. \A i \in DOMAIN iterations : ~ iterations[i].failed
    BY <1>1, NoneFailed
  <2>2. QED
    BY <1>1, <1>3, <1>4, <1>5, <2>1, RecordsCount
<1>8. BeforeInv' /\ DraftInv' /\ AbortedInv' /\ SettledInv'
  BY <1>1, <1>2 DEF BeforeInv, DraftInv, AbortedInv, SettledInv, BeforeVerdict
<1>9. JudgedInv'
  <2>1. Judged'
    BY <1>2, <1>3 DEF Judged
  <2>2. QED
    BY <1>2, <1>5, <2>1 DEF JudgedInv
<1>10. LoopInv'
  BY <1>1, <1>2, <1>5 DEF LoopInv
<1>11. QED
  BY <1>6, <1>7, <1>8, <1>9, <1>10 DEF RunInv

\* Whatever is answered, a round that ends well has a text that is not blank.
LEMMA RoundGivesText ==
  ASSUME RunInv, RegenerateAll \/ RegenerateLines
  PROVE  Refining /\ usage' \in Nat /\ \E text \in Text \ {<<>>} : Accept(text)
<1>1. Refining
  BY DEF RegenerateAll, RegenerateLines
<1>2. poem \in Text \ {<<>>}
  BY <1>1, InTheLoop DEF Refining
<1>3. \E text \in Text \ {<<>>} : Accept(text)
  <2>1. CASE RegenerateAll
    <3>1. PICK raw \in Responses : Accept(IF FromText(raw) = <<>> THEN poem ELSE FromText(raw))
      BY <2>1 DEF RegenerateAll
    <3>2. (IF FromText(raw) = <<>> THEN poem ELSE FromText(raw)) \in Text \ {<<>>}
      BY <1>2, PipelineAssumption
    <3>3. QED
      BY <3>1, <3>2
  <2>2. CASE RegenerateLines
    <3>1. PICK raw \in Responses :
            Accept(IF FromText(raw) = <<>> THEN poem
                   ELSE Merge(poem, FromText(raw), meter.feedback, rhyme.feedback))
      BY <2>2 DEF RegenerateLines
    <3>2. (IF FromText(raw) = <<>> THEN poem
           ELSE Merge(poem, FromText(raw), meter.feedback, rhyme.feedback)) \in Text \ {<<>>}
      BY <1>2, PipelineAssumption, MergeGivesText
    <3>3. QED
      BY <3>1, <3>2
  <2>3. QED
    BY <2>1, <2>2
<1>4. usage' \in Nat
  BY Callers, CallMade DEF RunInv
<1>5. QED
  BY <1>1, <1>3, <1>4

\* Both kinds of round.
LEMMA RegenerateKeeps == ASSUME RunInv, RegenerateAll \/ RegenerateLines PROVE RunInv'
BY RoundGivesText, AcceptKeeps

\* A round that fails.
LEMMA FailureKeeps == ASSUME RunInv, RegenerationFails PROVE RunInv'
<1> DEFINE rec == IterationRecord(round, poem, MeterResult(poem), RhymeResult(poem),
                                  MessagesOf(poem), TRUE, 0)
<1>1. /\ stage = "feedback_loop" /\ ~ aborted
      /\ poem \in Text \ {<<>>} /\ Judged
      /\ iterations # <<>> /\ iterations[Len(iterations)].poem = poem
      /\ Len(iterations) \in Nat \ {0} /\ round = Len(iterations) /\ round \in Nat
  BY InTheLoop DEF RegenerationFails, Refining
<1>2. stage' = "return" /\ stage' \notin BeforeVerdict
  BY <1>1, OrderOfStages DEF RegenerationFails, BeforeVerdict
<1>3. /\ config' = config /\ maxRounds' = maxRounds /\ poem' = poem /\ meter' = meter
      /\ rhyme' = rhyme /\ feedback' = feedback /\ aborted' = aborted /\ round' = round
  BY DEF RegenerationFails, inputs, poemVars
<1>4. iterations' = Append(iterations, rec) /\ usage' \in Nat
  BY <1>1, Callers, CallMade DEF RegenerationFails, Judged, RoundTokens, RunInv
<1>5. StateInv /\ RecordsInv
  BY DEF RunInv
<1>6. /\ iterations' \in Seq(TrueRecords) /\ Len(iterations') = Len(iterations) + 1
      /\ iterations' # <<>> /\ iterations'[Len(iterations')] = rec
      /\ rec.iteration = round /\ rec.poem = poem /\ rec.failed = TRUE
  <2>1. rec.iteration = round /\ rec.poem = poem /\ rec.failed = TRUE
    BY DEF IterationRecord
  <2>2. rec \in TrueRecords
    BY <1>1, RecordIsTrue
  <2> HIDE DEF rec
  <2>3. QED
    BY <2>1, <2>2, <1>1, <1>4, <1>5, RecordAdded
<1> HIDE DEF rec
<1>7. StateInv'
  BY <1>2, <1>3, <1>4, <1>5, <1>6 DEF StateInv
<1>8. RecordsInv'
  <2>1. \A i \in DOMAIN iterations : ~ iterations[i].failed
    BY <1>1, NoneFailed
  <2>2. QED
    BY <1>1, <1>4, <1>5, <1>6, <2>1, RecordsCount
<1>9. BeforeInv' /\ DraftInv' /\ AbortedInv' /\ LoopInv'
  BY <1>1, <1>2, <1>3 DEF BeforeInv, DraftInv, AbortedInv, LoopInv
<1>10. JudgedInv'
  BY <1>1, <1>3, <1>6 DEF JudgedInv, Judged
<1>11. SettledInv'
  BY <1>6 DEF SettledInv
<1>12. QED
  BY <1>7, <1>8, <1>9, <1>10, <1>11 DEF RunInv

\* The loop stops: the poem is valid or no round is left.
LEMMA LeaveKeeps == ASSUME RunInv, LeaveLoop PROVE RunInv'
<1>1. /\ stage = "feedback_loop" /\ ~ aborted /\ "feedback_loop" \in config /\ Judged
      /\ iterations # <<>> /\ iterations[Len(iterations)].poem = poem
      /\ round = Len(iterations)
  BY InTheLoop DEF LeaveLoop
<1>2. stage' = "return" /\ stage' \notin BeforeVerdict
  BY <1>1, OrderOfStages DEF LeaveLoop, BeforeVerdict
<1>3. /\ config' = config /\ maxRounds' = maxRounds /\ poem' = poem /\ meter' = meter
      /\ rhyme' = rhyme /\ feedback' = feedback /\ aborted' = aborted /\ round' = round
      /\ iterations' = iterations /\ usage' = usage
  BY DEF LeaveLoop, inputs, poemVars
<1>4. StateInv'
  BY <1>2, <1>3 DEF RunInv, StateInv
<1>5. BeforeInv' /\ DraftInv' /\ AbortedInv' /\ LoopInv' /\ RecordsInv'
  BY <1>2, <1>3 DEF RunInv, BeforeInv, DraftInv, AbortedInv, LoopInv, RecordsInv
<1>6. JudgedInv'
  BY <1>1, <1>3 DEF JudgedInv, Judged
<1>7. IsValid(poem) \/ Len(iterations) > Rounds
  BY <1>1 DEF LeaveLoop, ShouldStop, Judged, IsValid, Rounds
<1>8. SettledInv'
  <2>1. IsValid(poem)' = IsValid(poem) /\ Rounds' = Rounds
    BY <1>3 DEF IsValid, Rounds
  <2>2. QED
    BY <1>3, <1>7, <2>1 DEF SettledInv
<1>9. QED
  BY <1>4, <1>5, <1>6, <1>8 DEF RunInv

\* What ends a run leaves its records alone.
LEMMA EndKeeps ==
  ASSUME RunInv, Refuse \/ FinishEvaluation \/ FinishGeneration
  PROVE  RunInv'
<1>1. /\ config' = config /\ maxRounds' = maxRounds /\ poem' = poem /\ aborted' = aborted
      /\ round' = round /\ iterations' = iterations /\ usage' = usage /\ stage' = "done"
  BY DEF Refuse, FinishEvaluation, FinishGeneration, inputs, poemVars
<1>2. StateInv'
  BY <1>1 DEF RunInv, StateInv
<1>3. AbortedInv' /\ RecordsInv'
  BY <1>1 DEF RunInv, AbortedInv, RecordsInv
<1>4. BeforeInv' /\ DraftInv' /\ JudgedInv' /\ LoopInv' /\ SettledInv'
  BY <1>1 DEF BeforeInv, BeforeVerdict, DraftInv, JudgedInv, LoopInv, SettledInv
<1>5. QED
  BY <1>2, <1>3, <1>4 DEF RunInv

\* A stuttering step.
LEMMA StutterKeeps == ASSUME RunInv, UNCHANGED vars PROVE RunInv'
BY DEF vars, inputs, poemVars, RunInv, StateInv, BeforeInv, DraftInv, AbortedInv, JudgedInv,
       LoopInv, SettledInv, RecordsInv, Judged, Rounds, IsValid

\* Every step of a run keeps the invariant.
LEMMA StepKeeps == ASSUME RunInv, [Next]_vars PROVE RunInv'
BY SkipKeeps, EnrichKeeps, GenerateKeeps, ValidateKeeps, RegenerateKeeps, FailureKeeps,
   LeaveKeeps, EndKeeps, StutterKeeps DEF Next, Done

\* The invariant of a run, for any texts, verdicts, scheme and number of rounds.
THEOREM RunInvariant == Spec => []RunInv
<1>1. Init => RunInv
  BY RunInit
<1>2. RunInv /\ [Next]_vars => RunInv'
  BY StepKeeps
<1>3. QED
  BY <1>1, <1>2, PTL DEF Spec

\* Every record of the trace tells the accuracies and the violations of its own poem,
\* and only the last may be of a round that failed (evaluation.py:175-201).
THEOREM RecordsAreTrue == Spec => []RecordsDescribePoems
<1>1. ASSUME RunInv PROVE RecordsDescribePoems
  <2> SUFFICES ASSUME NEW n \in DOMAIN iterations
               PROVE  /\ iterations[n].iteration = n - 1
                      /\ iterations[n].meter = MeterResult(iterations[n].poem).accuracy
                      /\ iterations[n].rhyme = RhymeResult(iterations[n].poem).accuracy
                      /\ iterations[n].feedback = MessagesOf(iterations[n].poem)
                      /\ iterations[n].failed =>
                           /\ n = Len(iterations) /\ n > 1
                           /\ iterations[n].poem = iterations[n - 1].poem
    BY DEF RecordsDescribePoems
  <2>1. iterations[n] \in TrueRecords
    BY <1>1 DEF RunInv, StateInv
  <2>2. \A rec \in TrueRecords : /\ rec.meter = MeterResult(rec.poem).accuracy
                                 /\ rec.rhyme = RhymeResult(rec.poem).accuracy
                                 /\ rec.feedback = MessagesOf(rec.poem)
    BY DEF TrueRecords, IterationRecord
  <2>3. /\ iterations[n].iteration = n - 1
        /\ iterations[n].failed =>
             /\ n = Len(iterations) /\ n > 1
             /\ iterations[n].poem = iterations[n - 1].poem
    BY <1>1 DEF RunInv, RecordsInv
  <2>4. QED
    BY <2>1, <2>2, <2>3
<1>2. QED
  BY <1>1, RunInvariant, PTL

-----------------------------------------------------------------------------
\* The contract.

\* The history grows with the records.
LEMMA HistoryGrows ==
  ASSUME StateInv, NEW rec, iterations' = Append(iterations, rec)
  PROVE  /\ History' = Append(History, rec.poem)
         /\ Last(History') = rec.poem
         /\ Len(History) = Len(iterations)
<1>1. Len(iterations) \in Nat /\ DOMAIN iterations = 1 .. Len(iterations)
  BY DEF StateInv
<1>2. /\ DOMAIN iterations' = 1 .. Len(iterations) + 1
      /\ iterations'[Len(iterations) + 1] = rec
      /\ \A n \in 1 .. Len(iterations) : iterations'[n] = iterations[n]
  BY <1>1 DEF StateInv
<1>3. History \in Seq({iterations[n].poem : n \in DOMAIN iterations}) /\ Len(History) = Len(iterations)
  BY <1>1 DEF History
<1>4. History' = [n \in 1 .. Len(iterations) + 1 |-> iterations'[n].poem]
  BY <1>2 DEF History
<1>5. Append(History, rec.poem) = [n \in 1 .. Len(iterations) + 1 |->
                                     IF n = Len(iterations) + 1 THEN rec.poem ELSE History[n]]
  BY <1>1, <1>3
<1>6. \A n \in 1 .. Len(iterations) : History[n] = iterations[n].poem
  BY <1>1 DEF History
<1>7. History' = Append(History, rec.poem)
  BY <1>1, <1>2, <1>4, <1>5, <1>6
<1>8. Len(History') = Len(iterations) + 1 /\ History'[Len(iterations) + 1] = rec.poem
  BY <1>1, <1>2, <1>4
<1>9. QED
  BY <1>3, <1>7, <1>8 DEF Last

\* What the contract says of the last poem is what the last record says.
LEMMA LastPoem ==
  ASSUME StateInv, iterations # <<>>
  PROVE  /\ Last(History) = iterations[Len(iterations)].poem
         /\ Len(History) = Len(iterations) /\ Len(iterations) \in Nat \ {0}
<1>1. Len(iterations) \in Nat \ {0} /\ DOMAIN iterations = 1 .. Len(iterations)
  BY DEF StateInv
<1>2. Len(History) = Len(iterations) /\ History[Len(iterations)] = iterations[Len(iterations)].poem
  BY <1>1 DEF History
<1>3. QED
  BY <1>1, <1>2 DEF Last

\* A run begins where the contract begins.
LEMMA ContractInit == Init => Refinement!Init
<1> SUFFICES ASSUME Init PROVE Refinement!Init
  OBVIOUS
<1>1. stage # "done" /\ iterations = <<>>
  BY DEF Init
<1>2. Phase = "drafting" /\ DeliveredPoem = None
  BY <1>1 DEF Phase, DeliveredPoem, Delivered
<1>3. Rounds \in Nat
  BY RunInit DEF Rounds, RunInv, StateInv
<1>4. History = <<>>
  BY <1>1 DEF History
<1>5. QED
  BY <1>2, <1>3, <1>4 DEF Refinement!Init

\* Until the run ends, the phase depends on the records only, and nothing is delivered.
LEMMA Underway ==
  ASSUME stage # "done", stage' # "done"
  PROVE  /\ Phase = (IF iterations = <<>> THEN "drafting"
                     ELSE IF Last(iterations).failed THEN "interrupted" ELSE "refining")
         /\ Phase' = (IF iterations' = <<>> THEN "drafting"
                      ELSE IF Last(iterations').failed THEN "interrupted" ELSE "refining")
         /\ DeliveredPoem = None /\ DeliveredPoem' = None
BY DEF Phase, DeliveredPoem, Delivered

\* A step that records nothing and does not end the run is none of the contract's.
LEMMA QuietStep ==
  ASSUME stage # "done", stage' # "done", iterations' = iterations, UNCHANGED inputs
  PROVE  UNCHANGED <<Phase, Rounds, History, DeliveredPoem>>
<1>1. Phase' = Phase /\ DeliveredPoem' = DeliveredPoem
  BY Underway
<1>2. Rounds' = Rounds
  BY DEF Rounds, inputs
<1>3. History' = History
  BY DEF History
<1>4. QED
  BY <1>1, <1>2, <1>3

\* The first verdict is the draft of the contract.
LEMMA ValidateDrafts == ASSUME RunInv, Validate PROVE Refinement!Draft
<1> DEFINE rec == IterationRecord(0, poem, MeterResult(poem), RhymeResult(poem),
                                  MessagesOf(poem), FALSE, usage)
<1>1. stage = "validation" /\ stage' = "feedback_loop" /\ ~ aborted /\ stage \in BeforeVerdict
  BY OrderOfStages DEF Validate, Skipped, BeforeVerdict
<1>2. iterations = <<>> /\ poem \in Text \ {<<>>} /\ StateInv
  BY <1>1 DEF RunInv, BeforeInv, DraftInv, StateInv
<1>3. iterations' = Append(iterations, rec)
  BY DEF Validate, MessagesOf
<1>4. rec.poem = poem /\ rec.failed = FALSE /\ rec \in TrueRecords
  <2>1. usage \in Nat
    BY <1>2 DEF StateInv
  <2> QED
    BY <1>2, <2>1, RecordIsTrue DEF IterationRecord
<1> HIDE DEF rec
<1>5. iterations' # <<>> /\ iterations'[Len(iterations')] = rec
  BY <1>2, <1>3, <1>4, RecordAdded
<1>6. Phase = "drafting" /\ Phase' = "refining" /\ DeliveredPoem' = DeliveredPoem
  BY <1>1, <1>2, <1>4, <1>5, Underway DEF Last
<1>7. Rounds' = Rounds
  BY DEF Validate, inputs, Rounds
<1>8. History' = Append(History, poem) /\ Last(History') = poem
  BY <1>2, <1>3, <1>4, HistoryGrows
<1>9. QED
  BY <1>2, <1>6, <1>7, <1>8 DEF Refinement!Draft, Refinement!Record, Refinement!Last, Last

\* While the loop refines, the contract allows another round.
LEMMA RefiningMay == ASSUME RunInv, Refining PROVE Refinement!MayImprove
<1>1. /\ stage = "feedback_loop" /\ ~ aborted /\ "feedback_loop" \in config /\ Judged
      /\ iterations # <<>> /\ iterations[Len(iterations)].poem = poem
      /\ Len(iterations) \in Nat \ {0} /\ round = Len(iterations)
  BY InTheLoop DEF Refining
<1>2. StateInv /\ ~ iterations[Len(iterations)].failed
  BY <1>1 DEF RunInv, LoopInv
<1>3. Phase = "refining"
  BY <1>1, <1>2 DEF Phase, Last
<1>4. Last(History) = poem /\ Len(History) = Len(iterations)
  BY <1>1, <1>2, LastPoem
<1>5. ~ IsValid(poem) /\ Len(iterations) <= Rounds
  <2>1. ~ (round > maxRounds \/ (meter.ok /\ rhyme.ok))
    BY DEF Refining, ShouldStop
  <2>2. ~ IsValid(poem)
    BY <1>1, <2>1 DEF IsValid, Judged
  <2>3. maxRounds \in Nat
    BY <1>2 DEF StateInv
  <2>4. QED
    BY <1>1, <2>1, <2>2, <2>3 DEF Rounds
<1>6. QED
  BY <1>3, <1>4, <1>5 DEF Refinement!MayImprove, Refinement!Last, Last

\* A round that ends well is an improvement.
LEMMA AcceptImproves ==
  ASSUME RunInv, Refining, NEW text \in Text \ {<<>>}, Accept(text), usage' \in Nat
  PROVE  Refinement!Improve
<1> DEFINE rec == IterationRecord(round, text, MeterResult(text), RhymeResult(text),
                                  MessagesOf(text), FALSE, usage')
<1>1. stage = "feedback_loop" /\ round \in Nat /\ StateInv /\ iterations # <<>>
  BY InTheLoop DEF Refining, RunInv, StateInv
<1>2. stage' = "feedback_loop" /\ UNCHANGED inputs /\ iterations' = Append(iterations, rec)
  BY <1>1 DEF Accept, EndRound, Verdict, RoundTokens
<1>3. rec.poem = text /\ rec.failed = FALSE /\ rec \in TrueRecords
  BY <1>1, RecordIsTrue DEF IterationRecord
<1> HIDE DEF rec
<1>4. iterations' # <<>> /\ iterations'[Len(iterations')] = rec
  BY <1>1, <1>2, <1>3, RecordAdded
<1>5. Refinement!MayImprove
  BY RefiningMay
<1>6. Phase = "refining"
  BY <1>5 DEF Refinement!MayImprove
<1>7. Phase' = Phase /\ DeliveredPoem' = DeliveredPoem
  BY <1>1, <1>2, <1>3, <1>4, <1>6, Underway DEF Last
<1>8. Rounds' = Rounds
  BY <1>2 DEF inputs, Rounds
<1>9. History' = Append(History, text) /\ Last(History') = text
  BY <1>1, <1>2, <1>3, HistoryGrows
<1>10. QED
  BY <1>5, <1>7, <1>8, <1>9 DEF Refinement!Improve, Refinement!Record, Refinement!Last, Last

\* A round that fails is an interruption.
LEMMA FailureInterrupts == ASSUME RunInv, RegenerationFails PROVE Refinement!Interrupt
<1> DEFINE rec == IterationRecord(round, poem, MeterResult(poem), RhymeResult(poem),
                                  MessagesOf(poem), TRUE, 0)
<1>1. /\ stage = "feedback_loop" /\ round \in Nat /\ StateInv /\ iterations # <<>> /\ Judged
      /\ poem \in Text \ {<<>>} /\ iterations[Len(iterations)].poem = poem
  BY InTheLoop DEF RegenerationFails, Refining, RunInv, StateInv
<1>2. stage' = "return" /\ UNCHANGED inputs /\ iterations' = Append(iterations, rec)
  BY <1>1, OrderOfStages DEF RegenerationFails, Judged, RoundTokens
<1>3. rec.poem = poem /\ rec.failed = TRUE /\ rec \in TrueRecords
  BY <1>1, RecordIsTrue DEF IterationRecord
<1> HIDE DEF rec
<1>4. iterations' # <<>> /\ iterations'[Len(iterations')] = rec
  BY <1>1, <1>2, <1>3, RecordAdded
<1>5. Refinement!MayImprove
  BY RefiningMay DEF RegenerationFails
<1>6. Phase' = "interrupted" /\ DeliveredPoem' = DeliveredPoem
  BY <1>1, <1>2, <1>3, <1>4, Underway DEF Last
<1>7. Rounds' = Rounds
  BY <1>2 DEF inputs, Rounds
<1>8. History' = Append(History, poem) /\ Last(History) = poem
  BY <1>1, <1>2, <1>3, HistoryGrows, LastPoem
<1>9. QED
  BY <1>5, <1>6, <1>7, <1>8 DEF Refinement!Interrupt, Refinement!Last, Last

\* A run ends with the last poem, or without one if it never had a verdict.
LEMMA EndDelivers ==
  ASSUME RunInv, FinishEvaluation \/ FinishGeneration
  PROVE  Refinement!Deliver \/ Refinement!Fail
<1>1. /\ stage = "return" /\ stage' = "done" /\ UNCHANGED <<inputs, iterations>>
      /\ IF aborted THEN outcome'.kind \in {"error", "raised"}
         ELSE outcome'.kind \in {"metrics", "result"} /\ outcome'.poem = poem
  BY DEF FinishEvaluation, FinishGeneration, Failure, Delivery
<1>2. Rounds' = Rounds /\ History' = History /\ DeliveredPoem = None
  BY <1>1 DEF inputs, Rounds, History, DeliveredPoem, Delivered
<1>3. CASE aborted
  <2>1. iterations = <<>>
    BY <1>3 DEF RunInv, AbortedInv
  <2>2. Phase = "drafting" /\ Phase' = "failed" /\ DeliveredPoem' = None
    BY <1>1, <1>3, <2>1 DEF Phase, DeliveredPoem, Delivered
  <2>3. QED
    BY <1>2, <2>2 DEF Refinement!Fail
<1>4. CASE ~ aborted
  <2>1. iterations # <<>> /\ iterations[Len(iterations)].poem = poem /\ StateInv
    BY <1>1, <1>4 DEF RunInv, JudgedInv
  <2>2. Phase' = "delivered" /\ DeliveredPoem' = poem
    BY <1>1, <1>4 DEF Phase, DeliveredPoem, Delivered
  <2>3. Last(History) = poem /\ Len(History) = Len(iterations) /\ Len(iterations) \in Nat
    BY <2>1, LastPoem
  <2>4. Phase = IF iterations[Len(iterations)].failed THEN "interrupted" ELSE "refining"
    BY <1>1, <2>1 DEF Phase, Last
  <2>5. iterations[Len(iterations)].failed \/ IsValid(poem) \/ Len(iterations) > Rounds
    BY <1>1, <1>4 DEF RunInv, SettledInv
  <2>6. Rounds \in Nat
    BY <2>1 DEF Rounds, StateInv
  <2>7. ~ Refinement!MayImprove
    BY <2>3, <2>4, <2>5, <2>6 DEF Refinement!MayImprove, Refinement!Last, Last
  <2>8. QED
    BY <1>2, <2>2, <2>3, <2>4, <2>7 DEF Refinement!Deliver, Refinement!Last, Last
<1>5. QED
  BY <1>3, <1>4

\* A request that is refused fails.
LEMMA RefuseFails == ASSUME RunInv, Refuse PROVE Refinement!Fail
<1>1. stage = "request" /\ stage' = "done" /\ UNCHANGED <<inputs, iterations>>
      /\ outcome'.kind = "refused"
  BY DEF Refuse, Failure
<1>2. iterations = <<>>
  BY <1>1 DEF RunInv, BeforeInv, BeforeVerdict
<1>3. Rounds' = Rounds /\ History' = History /\ DeliveredPoem = None
  BY <1>1 DEF inputs, Rounds, History, DeliveredPoem, Delivered
<1>4. Phase = "drafting" /\ Phase' = "failed" /\ DeliveredPoem' = None
  BY <1>1, <1>2 DEF Phase, DeliveredPoem, Delivered
<1>5. QED
  BY <1>3, <1>4 DEF Refinement!Fail

\* The steps that record nothing and do not end the run.
LEMMA QuietSteps ==
  ASSUME \/ Start \/ SkipStage \/ Retrieve \/ FindExamples \/ BuildPrompt
         \/ Generate \/ GenerateFails \/ LeaveLoop
  PROVE  UNCHANGED <<Phase, Rounds, History, DeliveredPoem>>
<1>1. UNCHANGED <<inputs, iterations>>
  BY DEF Start, SkipStage, SkipTo, Retrieve, FindExamples, Enrich, BuildPrompt, Generate,
         GenerateFails, LeaveLoop
<1>2. \/ stage = "request" /\ stage' = "retrieval"
      \/ stage \in StageNames /\ stage' = NextStage(stage)
  BY OrderOfStages DEF Start, SkipStage, SkipTo, Retrieve, FindExamples, Enrich, BuildPrompt,
         Generate, GenerateFails, LeaveLoop, InLoop
<1>3. stage # "done" /\ stage' # "done"
  BY <1>2, OrderOfStages
<1>4. QED
  BY <1>1, <1>3, QuietStep

\* Every step of a run is one of the contract, or none.
LEMMA ContractStep ==
  ASSUME RunInv, [Next]_vars
  PROVE  [Refinement!Next]_(Refinement!vars)
<1> USE DEF Refinement!Next, Refinement!vars
<1>1. CASE Refuse
  BY <1>1, RefuseFails
<1>2. CASE Start \/ SkipStage \/ Retrieve \/ FindExamples \/ BuildPrompt
           \/ Generate \/ GenerateFails \/ LeaveLoop
  BY <1>2, QuietSteps
<1>3. CASE Validate
  BY <1>3, ValidateDrafts
<1>4. CASE RegenerateAll \/ RegenerateLines
  <2>1. Refining /\ usage' \in Nat /\ \E text \in Text \ {<<>>} : Accept(text)
    BY <1>4, RoundGivesText
  <2>2. QED
    BY <2>1, AcceptImproves
<1>5. CASE RegenerationFails
  BY <1>5, FailureInterrupts
<1>6. CASE FinishEvaluation \/ FinishGeneration
  BY <1>6, EndDelivers
<1>7. CASE UNCHANGED vars
  BY <1>7 DEF vars, inputs, poemVars, Phase, Rounds, History, DeliveredPoem, Delivered
<1>8. QED
  BY <1>1, <1>2, <1>3, <1>4, <1>5, <1>6, <1>7 DEF Next, Done

\* A run of the pipeline implements PoemRefinement: it improves a poem only while that
\* is not valid and rounds are left, survives a failed round with the poem it had, and
\* delivers the last poem of its records (feedback_iterator.py:51-142).
THEOREM ContractKept == Spec => KeepsContract
<1>1. Init => Refinement!Init
  BY ContractInit
<1>2. RunInv /\ [Next]_vars => [Refinement!Next]_(Refinement!vars)
  BY ContractStep
<1>3. QED
  BY <1>1, <1>2, RunInvariant, PTL DEF Spec, KeepsContract, Refinement!Spec

-----------------------------------------------------------------------------
\* What an abort ends.

\* Nothing is aborted before the run begins.
StartInv == stage = "request" => ~ aborted

\* After an abort a run changes only its trace, and its caller hears of the error
\* just if there was one (poem_generation_pipeline.py:76-85, final_metrics_stage.py:36-65).
THEOREM AbortEndsTheRun == Spec => AbortIsFinal
<1>1. Init => StartInv
  BY DEF Init, StartInv
<1>2. StartInv /\ [Next]_vars => StartInv'
  <2> SUFFICES ASSUME StartInv, [Next]_vars PROVE StartInv'
    OBVIOUS
  <2>1. CASE UNCHANGED vars
    BY <2>1 DEF vars, StartInv
  <2>2. CASE stage' # "request"
    BY <2>2 DEF StartInv
  <2>3. ASSUME Next, stage' = "request" PROVE UNCHANGED vars
    <3>1. stage = "request" => stage' # "request" \/ Done
      BY <2>3, OrderOfStages DEF Next, Refuse, Start, SkipStage, SkipTo, Retrieve, FindExamples,
         Enrich, BuildPrompt, Generate, GenerateFails, Validate, RegenerateAll, RegenerateLines,
         Refining, InLoop, RegenerationFails, LeaveLoop, FinishEvaluation, FinishGeneration
    <3>2. stage \in StageNames => stage' # "request"
      <4> SUFFICES ASSUME stage \in StageNames PROVE stage' # "request"
        OBVIOUS
      <4>1. NextStage(stage) # "request" /\ stage # "request"
        BY OrderOfStages
      <4>2. stage' = NextStage(stage) \/ stage' = stage
        BY <2>3, <4>1, OrderOfStages DEF Next, Refuse, Start, SkipStage, SkipTo, Retrieve,
           FindExamples, Enrich, BuildPrompt, Generate, GenerateFails, Validate, RegenerateAll,
           RegenerateLines, Accept, EndRound, RegenerationFails, LeaveLoop, FinishEvaluation,
           FinishGeneration, Done, vars
      <4>3. QED
        BY <4>1, <4>2
    <3>3. stage \in {"request", "return", "done"} \cup StageNames
      BY <2>3, OrderOfStages DEF Next, Refuse, Start, SkipStage, SkipTo, Retrieve, FindExamples,
         Enrich, BuildPrompt, Generate, GenerateFails, Validate, RegenerateAll, RegenerateLines,
         Refining, InLoop, RegenerationFails, LeaveLoop, FinishEvaluation, FinishGeneration, Done
    <3>4. stage \in {"return", "done"} => stage' = "done"
      BY <2>3, OrderOfStages DEF Next, Refuse, Start, SkipStage, SkipTo, Retrieve, FindExamples,
         Enrich, BuildPrompt, Generate, GenerateFails, Validate, RegenerateAll, RegenerateLines,
         Refining, InLoop, RegenerationFails, LeaveLoop, FinishEvaluation, FinishGeneration,
         Done, vars
    <3>5. QED
      BY <2>3, <3>1, <3>2, <3>3, <3>4 DEF Done
  <2>4. QED
    BY <2>1, <2>2, <2>3
<1>3. StartInv /\ [Next]_vars =>
        [/\ aborted => UNCHANGED <<aborted, poem, iterations, calls>>
         /\ outcome' # outcome => (aborted <=> outcome'.kind \in {"error", "raised"})]_vars
  <2> SUFFICES ASSUME StartInv, Next
               PROVE  /\ aborted => UNCHANGED <<aborted, poem, iterations, calls>>
                      /\ outcome' # outcome => (aborted <=> outcome'.kind \in {"error", "raised"})
    OBVIOUS
  <2>1. aborted => UNCHANGED <<aborted, poem, iterations, calls>>
    BY DEF Next, Refuse, Start, SkipStage, SkipTo, Retrieve, FindExamples, Enrich, BuildPrompt,
       Generate, GenerateFails, Validate, Skipped, RegenerateAll, RegenerateLines, Refining,
       InLoop, RegenerationFails, LeaveLoop, FinishEvaluation, FinishGeneration, Done, vars,
       poemVars
  <2>2. outcome' # outcome => (aborted <=> outcome'.kind \in {"error", "raised"})
    <3>1. CASE Refuse
      BY <3>1 DEF Refuse, Failure, StartInv
    <3>2. CASE FinishEvaluation \/ FinishGeneration
      BY <3>2 DEF FinishEvaluation, FinishGeneration, Failure, Delivery
    <3>3. CASE outcome' = outcome
      BY <3>3
    <3>4. QED
      BY <3>1, <3>2, <3>3 DEF Next, Start, SkipStage, SkipTo, Retrieve, FindExamples, Enrich,
         BuildPrompt, Generate, GenerateFails, Validate, RegenerateAll, RegenerateLines, Accept,
         EndRound, RegenerationFails, LeaveLoop, Done, vars
  <2>3. QED
    BY <2>1, <2>2
<1>4. QED
  BY <1>1, <1>2, <1>3, PTL DEF Spec, AbortIsFinal

-----------------------------------------------------------------------------
\* What the LLM is told.

\* What a prompt may have in a configuration.
PromptsOf(enabled) ==
  {p \in [excerpts : BOOLEAN, examples : BOOLEAN] :
     /\ p.excerpts => "retrieval" \in enabled
     /\ p.examples => "metric_examples" \in enabled}

SentMessages == {None} \cup {MessagesOf(text) : text \in Text}

TrueCalls(enabled) ==
  {c \in [kind : {"generate", "regenerate_lines"}, prompt : PromptsOf(enabled), poem : Text,
          feedback : SentMessages, response : Responses \cup {None},
          usage : Usages \cup {None}] :
     c.kind = "regenerate_lines" => c.feedback = MessagesOf(c.poem)}

CallsInv ==
  /\ prompt \in PromptsOf(config)
  /\ feedback \in SentMessages
  /\ calls \in Seq(TrueCalls(config))

\* A call that tells the truth joins those that do.
LEMMA CallLogged ==
  ASSUME RunInv, CallsInv, NEW kind \in {"generate", "regenerate_lines"},
         kind = "regenerate_lines" => feedback = MessagesOf(poem),
         NEW response \in Responses \cup {None}, Called(kind, response)
  PROVE  /\ calls' \in Seq(TrueCalls(config))
         /\ Last(calls').kind = kind /\ Last(calls').response = response
         /\ usage' \in Nat
         /\ \E call \in TrueCalls(config) :
              /\ calls' = Append(calls, call) /\ call.response = response
              /\ call.usage # None => response # None /\ usage' = call.usage
<1>1. PICK reported \in Usages \cup {None} :
        /\ LogCall(kind, response, reported)
        /\ reported # None => response # None /\ usage' = reported
  BY CallMade DEF RunInv
<1> DEFINE call == [kind |-> kind, prompt |-> prompt, poem |-> poem, feedback |-> feedback,
                    response |-> response, usage |-> reported]
<1>2. call \in TrueCalls(config)
  BY DEF TrueCalls, CallsInv, RunInv, StateInv
<1>3. calls' = Append(calls, call) /\ calls \in Seq(TrueCalls(config))
  BY <1>1 DEF LogCall, CallsInv
<1>4. call.kind = kind /\ call.response = response /\ call.usage = reported
  OBVIOUS
<1>5. usage' \in Nat
  BY CallMade DEF RunInv
<1> HIDE DEF call
<1>6. calls' \in Seq(TrueCalls(config)) /\ calls'[Len(calls')] = call
  BY <1>2, <1>3
<1>7. QED
  BY <1>1, <1>2, <1>3, <1>4, <1>5, <1>6 DEF Last

\* Only a stage that is enabled adds to the prompt.
LEMMA EnrichedPrompt ==
  ASSUME CallsInv, Retrieve \/ FindExamples
  PROVE  prompt' \in PromptsOf(config)
<1>1. PICK found \in BOOLEAN :
        \/ "retrieval" \in config /\ prompt' = [prompt EXCEPT !["excerpts"] = found]
        \/ "metric_examples" \in config /\ prompt' = [prompt EXCEPT !["examples"] = found]
  BY DEF Retrieve, FindExamples, Enrich, Skipped
<1>2. QED
  BY <1>1 DEF CallsInv, PromptsOf

\* Every step keeps the calls true.
LEMMA CallsStep == ASSUME RunInv, CallsInv, [Next]_vars PROVE CallsInv'
<1>1. config' = config
  BY DEF Next, Refuse, Start, SkipStage, SkipTo, Retrieve, FindExamples, Enrich, BuildPrompt,
     Generate, GenerateFails, Validate, RegenerateAll, RegenerateLines, Accept, EndRound,
     RegenerationFails, LeaveLoop, FinishEvaluation, FinishGeneration, Done, vars, inputs
<1>2. CASE UNCHANGED <<prompt, feedback, calls>>
  BY <1>1, <1>2 DEF CallsInv
<1>3. CASE Retrieve \/ FindExamples
  <2>1. UNCHANGED <<feedback, calls>>
    BY <1>3 DEF Retrieve, FindExamples, Enrich, poemVars
  <2>2. QED
    BY <1>1, <1>3, <2>1, EnrichedPrompt DEF CallsInv
<1>4. CASE Validate
  <2>1. feedback' = MessagesOf(poem) /\ UNCHANGED <<prompt, calls>> /\ poem \in Text
    BY <1>4 DEF Validate, MessagesOf, RunInv, StateInv
  <2>2. QED
    BY <1>1, <2>1 DEF CallsInv, SentMessages
<1>5. CASE Generate \/ GenerateFails
  <2>1. \E response \in Responses \cup {None} : Called("generate", response)
    BY <1>5, Callers
  <2>2. calls' \in Seq(TrueCalls(config))
    BY <2>1, CallLogged
  <2>3. UNCHANGED <<prompt, feedback>>
    BY <1>5 DEF Generate, GenerateFails, poemVars
  <2>4. QED
    BY <1>1, <2>2, <2>3 DEF CallsInv
<1>6. CASE RegenerateAll \/ RegenerateLines \/ RegenerationFails
  <2>1. feedback = MessagesOf(poem)
    BY <1>6, InTheLoop DEF RegenerateAll, RegenerateLines, RegenerationFails, Refining, Judged
  <2>2. \E kind \in {"generate", "regenerate_lines"}, response \in Responses \cup {None} :
          Called(kind, response)
    BY <1>6, Callers
  <2>3. calls' \in Seq(TrueCalls(config))
    BY <2>1, <2>2, CallLogged
  <2>4. prompt' = prompt /\ feedback' \in SentMessages
    <3>1. CASE RegenerationFails
      BY <3>1 DEF RegenerationFails, poemVars, CallsInv
    <3>2. CASE RegenerateAll \/ RegenerateLines
      <4>1. PICK text \in Text \ {<<>>} : Accept(text)
        BY <3>2, RoundGivesText
      <4>2. QED
        BY <4>1 DEF Accept, EndRound, SentMessages
    <3>3. QED
      BY <1>6, <3>1, <3>2
  <2>5. QED
    BY <1>1, <2>3, <2>4 DEF CallsInv
<1>7. QED
  BY <1>2, <1>3, <1>4, <1>5, <1>6 DEF Next, Refuse, Start, SkipStage, SkipTo, BuildPrompt, LeaveLoop,
     FinishEvaluation, FinishGeneration, Done, vars, poemVars

\* The invariant of the calls.
THEOREM CallsInvariant == Spec => []CallsInv
<1>1. Init => CallsInv
  BY DEF Init, CallsInv, EmptyPrompt, PromptsOf, SentMessages
<1>2. RunInv /\ CallsInv /\ [Next]_vars => CallsInv'
  BY CallsStep
<1>3. QED
  BY <1>1, <1>2, RunInvariant, PTL DEF Spec

\* The LLM is told of the violations of the poem it is sent, and of nothing the
\* configuration turns off.
THEOREM LLMIsToldTheTruth == Spec => []CallsTellTheTruth
<1>1. CallsInv => CallsTellTheTruth
  BY DEF CallsInv, CallsTellTheTruth, TrueCalls, PromptsOf
<1>2. QED
  BY <1>1, CallsInvariant, PTL

-----------------------------------------------------------------------------
\* What a merge leaves alone.

\* A scheme pairs only lines the poem has.
LEMMA PairsAreLines ==
  ASSUME NEW n \in Nat, NEW p \in ExtractPairs(Scheme, n)
  PROVE  p \in (1 .. n) \X (1 .. n)
<1> DEFINE size == Len(Scheme)
           stanzas == n \div size
<1>1. PICK k \in 0 .. stanzas - 1, q \in StanzaPairs(Scheme) :
        p = <<k * size + q[1], k * size + q[2]>>
  <2> DEFINE repeats == 0 .. stanzas - 1
             Shifted(k, q) == <<k * size + q[1], k * size + q[2]>>
  <2>1. ExtractPairs(Scheme, n) = {Shifted(k, q) : k \in repeats, q \in StanzaPairs(Scheme)}
    BY DEF ExtractPairs
  <2> HIDE DEF repeats, Shifted
  <2>2. \E k \in repeats, q \in StanzaPairs(Scheme) : p = Shifted(k, q)
    BY <2>1
  <2>3. QED
    BY <2>2 DEF repeats, Shifted
<1>2. size \in Nat /\ DOMAIN Scheme = 1 .. size
  BY TextAssumption
<1>3. q[2] \in 1 .. size /\ q[1] \in 1 .. size
  BY <1>2 DEF StanzaPairs
<1>4. size \in Nat \ {0}
  BY <1>2, <1>3
<1> HIDE DEF size
<1>5. stanzas \in Nat /\ stanzas * size <= n
  BY <1>4
<1> HIDE DEF stanzas
<1>6. k \in Nat /\ k + 1 <= stanzas
  BY <1>5
<1>7. (k + 1) * size <= stanzas * size
  BY <1>4, <1>5, <1>6
<1>8. (k + 1) * size = k * size + size /\ k * size \in Nat
  BY <1>4, <1>6
<1>9. k * size + q[2] \in 1 .. n /\ k * size + q[1] \in 1 .. n
  <2> DEFINE before == k * size
             all == stanzas * size
             upTo == (k + 1) * size
  <2>1. before \in Nat /\ upTo = before + size /\ upTo <= all /\ all <= n
    BY <1>5, <1>7, <1>8
  <2>2. all \in Int /\ upTo \in Int
    BY <1>4, <1>5, <1>6
  <2> HIDE DEF before, all, upTo
  <2>3. before + q[2] \in 1 .. n /\ before + q[1] \in 1 .. n
    BY <1>3, <1>4, <2>1, <2>2
  <2>4. QED
    BY <2>3 DEF before
<1>10. QED
  BY <1>1, <1>9

\* A poem that is not valid has a line that may be rewritten.
LEMMA SomethingIsFlagged ==
  ASSUME NEW text \in Text \ {<<>>}, ~ IsValid(text)
  PROVE  Flagged(Len(text), MeterResult(text).feedback, RhymeResult(text).feedback) # {}
<1>1. Len(text) \in Nat /\ DOMAIN text = 1 .. Len(text)
  BY DEF Text
<1>2. CASE ~ MeterResult(text).ok
  <2>1. PICK i \in DOMAIN text : i \in MeterResult(text).feedback
    BY <1>2 DEF MeterResult
  <2>2. QED
    BY <1>1, <2>1 DEF Flagged
<1>3. CASE ~ RhymeResult(text).ok
  <2>1. PICK p \in ExtractPairs(Scheme, Len(text)) : p \in RhymeResult(text).feedback
    BY <1>3 DEF RhymeResult
  <2>2. p[2] \in 1 .. Len(text)
    BY <1>1, PairsAreLines
  <2>3. QED
    BY <2>1, <2>2 DEF Flagged
<1>4. QED
  BY <1>2, <1>3 DEF IsValid

\* What splicing and copying have in common.
LEMMA MergeKeepsLines ==
  ASSUME NEW original \in Text, NEW regenerated \in Text, NEW lines, NEW pairs,
         Flagged(Len(original), lines, pairs) # {},
         Len(regenerated) # Len(original),
         Len(regenerated) >= Cardinality(Flagged(Len(original), lines, pairs))
  PROVE  LET merged  == Merge(original, regenerated, lines, pairs)
             flagged == Flagged(Len(original), lines, pairs)
         IN  /\ Len(merged) = Len(original)
             /\ \A i \in DOMAIN original :
                  merged[i] = original[i] \/ (i \in flagged /\ merged[i] \in Range(regenerated))
<1> DEFINE flagged == Flagged(Len(original), lines, pairs)
<1>1. flagged \in SUBSET (1 .. Len(original)) /\ Len(original) \in Nat /\ Len(regenerated) \in Nat
  BY DEF Flagged, Text
<1>2. Cardinality(flagged) \in Nat
  BY <1>1, PlacesAreFinite
<1>3. Merge(original, regenerated, lines, pairs) \in {original, Splice(original, regenerated, flagged)}
  BY <1>1, <1>2 DEF Merge
<1> HIDE DEF flagged
<1>4. /\ Len(Splice(original, regenerated, flagged)) = Len(original)
      /\ \A i \in DOMAIN original :
           IF i \in flagged THEN Splice(original, regenerated, flagged)[i] \in Range(regenerated)
           ELSE Splice(original, regenerated, flagged)[i] = original[i]
  BY <1>1, SpliceKeepsLines DEF flagged
<1>5. QED
  BY <1>3, <1>4 DEF flagged

\* The step property of UnflaggedLinesKept, for one response.
LineKept(raw) ==
  LET verse   == FromText(raw)
      flagged == Flagged(Len(poem), meter.feedback, rhyme.feedback)
  IN  /\ calls' # calls
      /\ iterations # <<>>
      /\ Last(calls').kind = "regenerate_lines"
      /\ Last(calls').response = raw
      /\ Len(verse) # Len(poem)
      /\ Len(verse) >= Cardinality(flagged)
      => /\ Len(poem') = Len(poem)
         /\ \A i \in DOMAIN poem :
              poem'[i] = poem[i] \/ (i \in flagged /\ poem'[i] \in Range(verse))

\* A round that regenerates lines keeps those not flagged, whatever it was answered.
LEMMA RegenerationKeeps ==
  ASSUME RunInv, CallsInv, RegenerateLines, NEW raw \in Responses
  PROVE  LineKept(raw)
<1>1. /\ poem \in Text \ {<<>>} /\ Judged /\ Refining
  BY InTheLoop DEF RegenerateLines, Refining
<1>2. PICK answer \in Responses :
        /\ Called("regenerate_lines", answer)
        /\ Accept(IF FromText(answer) = <<>> THEN poem
                  ELSE Merge(poem, FromText(answer), meter.feedback, rhyme.feedback))
  BY PipelineAssumption DEF RegenerateLines, Called
<1>3. Last(calls').response = answer
  <2>1. feedback = MessagesOf(poem)
    BY <1>1 DEF Judged
  <2>2. QED
    BY <1>2, <2>1, CallLogged
<1>4. FromText(answer) \in Text
  BY PipelineAssumption
<1>5. poem' = IF FromText(answer) = <<>> THEN poem
              ELSE Merge(poem, FromText(answer), meter.feedback, rhyme.feedback)
  BY <1>2 DEF Accept, EndRound
<1>6. Flagged(Len(poem), meter.feedback, rhyme.feedback) # {}
  <2>1. ~ IsValid(poem)
    BY <1>1 DEF Refining, ShouldStop, Judged, IsValid
  <2>2. QED
    BY <1>1, <2>1, SomethingIsFlagged DEF Judged
<1>7. CASE FromText(answer) = <<>>
  BY <1>5, <1>7 DEF LineKept
<1>8. CASE FromText(answer) # <<>>
  <2> SUFFICES ASSUME answer = raw, Len(FromText(answer)) # Len(poem),
                      Len(FromText(answer)) >=
                        Cardinality(Flagged(Len(poem), meter.feedback, rhyme.feedback))
               PROVE  LineKept(raw)
    BY <1>3 DEF LineKept
  <2>1. poem' = Merge(poem, FromText(raw), meter.feedback, rhyme.feedback)
    BY <1>5, <1>8
  <2>2. QED
    BY <1>1, <1>4, <1>6, <2>1, MergeKeepsLines DEF LineKept
<1>9. QED
  BY <1>7, <1>8

\* A merge that splices rewrites only flagged lines, in a poem of any length under any
\* scheme (line_index_merger.py:27-61).
THEOREM LinesKept == Spec => UnflaggedLinesKept
<1>1. RunInv /\ CallsInv /\ [Next]_vars => [\A raw \in Responses : LineKept(raw)]_vars
  <2> SUFFICES ASSUME RunInv, CallsInv, Next, NEW raw \in Responses PROVE LineKept(raw)
    OBVIOUS
  <2>1. CASE UNCHANGED poem
    BY <2>1 DEF LineKept
  <2>2. CASE UNCHANGED calls
    BY <2>2 DEF LineKept
  <2>3. CASE Generate
    <3>1. iterations = <<>>
      BY <2>3 DEF Generate, RunInv, BeforeInv, BeforeVerdict
    <3>2. QED
      BY <3>1 DEF LineKept
  <2>4. CASE RegenerateAll
    <3>1. \E response \in Responses : Called("generate", response)
      BY <2>4, Callers
    <3>2. Last(calls').kind = "generate"
      BY <3>1, CallLogged
    <3>3. QED
      BY <3>2 DEF LineKept
  <2>5. CASE RegenerateLines
    BY <2>5, RegenerationKeeps
  <2>6. QED
    BY <2>1, <2>2, <2>3, <2>4, <2>5 DEF Next, Refuse, Start, SkipStage, SkipTo, Retrieve, FindExamples,
       Enrich, BuildPrompt, GenerateFails, Validate, RegenerationFails, LeaveLoop,
       FinishEvaluation, FinishGeneration, Done, vars, poemVars
<1>2. QED
  BY <1>1, RunInvariant, CallsInvariant, PTL DEF Spec, UnflaggedLinesKept, LineKept

-----------------------------------------------------------------------------
\* What the caller gets.

\* What an accuracy may be: so many of all that could be right, of which there is one.
Accuracies == {f \in Nat \X (Nat \ {0}) : f[1] <= f[2]}

\* The meter of a text is accurate to the full just if it is right.
LEMMA MeterAccuracy ==
  ASSUME NEW text \in Text \ {<<>>}
  PROVE  LET f == MeterResult(text).accuracy
         IN  f \in Accuracies /\ (MeterResult(text).ok <=> f[1] = f[2])
<1> DEFINE bad == {i \in DOMAIN text : text[i] \notin Metrical}
           n == Len(text)
<1>1. n \in Nat \ {0} /\ DOMAIN text = 1 .. n
  BY DEF Text
<1>2. IsFiniteSet(bad) /\ Cardinality(bad) \in Nat /\ Cardinality(bad) <= n
  <2>1. IsFiniteSet(1 .. n) /\ Cardinality(1 .. n) = n
    BY <1>1, FS_Interval
  <2>2. bad \subseteq 1 .. n
    BY <1>1
  <2> HIDE DEF bad, n
  <2> QED
    BY <2>1, <2>2, FS_Subset, FS_CardinalityType
<1>3. MeterResult(text).accuracy = <<n - Cardinality(bad), n>>
  BY DEF MeterResult
<1>4. MeterResult(text).ok <=> bad = {}
  BY DEF MeterResult
<1>5. bad = {} <=> Cardinality(bad) = 0
  BY <1>2, FS_EmptySet
<1> HIDE DEF bad, n
<1> QED
  BY <1>1, <1>2, <1>3, <1>4, <1>5 DEF Accuracies

\* So are its rhymes; where the scheme has no pairs they are right.
LEMMA RhymeAccuracy ==
  ASSUME NEW text \in Text \ {<<>>}
  PROVE  LET f == RhymeResult(text).accuracy
         IN  f \in Accuracies /\ (RhymeResult(text).ok <=> f[1] = f[2])
<1> DEFINE n == Len(text)
           pairs == ExtractPairs(Scheme, n)
           bad == {p \in pairs : <<text[p[1]], text[p[2]]>> \notin Rhyming}
<1>1. n \in Nat
  BY DEF Text
<1>2. IsFiniteSet(pairs)
  <2>1. IsFiniteSet((1 .. n) \X (1 .. n))
    <3>1. IsFiniteSet(1 .. n)
      BY <1>1, FS_Interval
    <3> QED
      BY <3>1, FS_Product
  <2>2. pairs \subseteq (1 .. n) \X (1 .. n)
    BY <1>1, PairsAreLines
  <2> HIDE DEF pairs
  <2> QED
    BY <2>1, <2>2, FS_Subset
<1>3. /\ RhymeResult(text).accuracy =
           IF pairs = {} THEN <<1, 1>>
           ELSE <<Cardinality(pairs) - Cardinality(bad), Cardinality(pairs)>>
      /\ RhymeResult(text).ok <=> bad = {}
  BY DEF RhymeResult
<1>4. bad \subseteq pairs
  OBVIOUS
<1> HIDE DEF n, pairs, bad
<1>5. /\ Cardinality(pairs) \in Nat /\ Cardinality(bad) \in Nat
      /\ Cardinality(bad) <= Cardinality(pairs)
      /\ pairs = {} <=> Cardinality(pairs) = 0
      /\ bad = {} <=> Cardinality(bad) = 0
  BY <1>2, <1>4, FS_Subset, FS_CardinalityType, FS_EmptySet
<1>6. CASE pairs = {}
  BY <1>3, <1>4, <1>6 DEF Accuracies
<1>7. CASE pairs # {}
  BY <1>3, <1>5, <1>7 DEF Accuracies
<1> QED
  BY <1>6, <1>7

\* An accuracy and the distance of another one to it lead to that one.
LEMMA DistanceLeads ==
  ASSUME NEW p \in Accuracies, NEW q \in Accuracies
  PROVE  SameFraction(p, Plus(q, Minus(p, q))) /\ SameFraction(q, Plus(q, Zero))
<1>1. PICK a, b, c, d \in Int : p = <<a, b>> /\ q = <<c, d>>
  BY DEF Accuracies
<1>2. a * (d * (b * d)) = b * (c * (b * d) + (a * d + -c * b) * d)
  OBVIOUS
<1>3. /\ p[1] = a /\ p[2] = b /\ q[1] = c /\ q[2] = d
  BY <1>1
<1>4. Minus(p, q) = <<a * d + (-c) * b, b * d>>
  BY <1>3 DEF Minus, Plus
<1> QED
  BY <1>2, <1>3, <1>4 DEF SameFraction, Plus, Zero

\* The share two accuracies are short of, as Violations has it.
Short(p, r) == Plus(Minus(One, p), Minus(One, r))

\* How much better p and r are than q and s, measured by what q and s are short of: on
\* balance an improvement just if it is positive, and whole only if p and r are.
LEMMA SuccessIsBalance ==
  ASSUME NEW p \in Accuracies, NEW q \in Accuracies, NEW r \in Accuracies, NEW s \in Accuracies
  PROVE  LET success == Minus(One, Quotient(Short(p, r), Short(q, s)))
         IN  /\ Short(q, s)[1] <= 0 => q[1] = q[2] /\ s[1] = s[2]
             /\ success[1] > 0 <=> Plus(Minus(p, q), Minus(r, s))[1] > 0
             /\ SameFraction(success, One) => p[1] = p[2] /\ r[1] = r[2]
<1>1. PICK a, c, e, g \in Nat, b, d, f, h \in Nat \ {0} :
        /\ p = <<a, b>> /\ q = <<c, d>> /\ r = <<e, f>> /\ s = <<g, h>>
        /\ a <= b /\ c <= d /\ e <= f /\ g <= h
  <2>1. \A v \in Accuracies : \E good \in Nat, all \in Nat \ {0} : v = <<good, all>> /\ good <= all
    BY DEF Accuracies
  <2>2. PICK a \in Nat, b \in Nat \ {0} : p = <<a, b>> /\ a <= b
    BY <2>1
  <2>3. PICK c \in Nat, d \in Nat \ {0} : q = <<c, d>> /\ c <= d
    BY <2>1
  <2>4. PICK e \in Nat, f \in Nat \ {0} : r = <<e, f>> /\ e <= f
    BY <2>1
  <2>5. PICK g \in Nat, h \in Nat \ {0} : s = <<g, h>> /\ g <= h
    BY <2>1
  <2> QED
    BY <2>2, <2>3, <2>4, <2>5
<1> DEFINE shortOfLast == (b - a) * f + (f - e) * b
           shortOfFirst == (d - c) * h + (h - g) * d
<1>2. /\ Minus(One, p) = <<b - a, b>> /\ Minus(One, q) = <<d - c, d>>
      /\ Minus(One, r) = <<f - e, f>> /\ Minus(One, s) = <<h - g, h>>
  BY <1>1 DEF Minus, Plus, One
<1>3. Short(p, r) = <<shortOfLast, b * f>> /\ Short(q, s) = <<shortOfFirst, d * h>>
  BY <1>2 DEF Short, Plus
<1>4. Minus(One, Quotient(Short(p, r), Short(q, s))) =
        <<shortOfFirst * (b * f) - shortOfLast * (d * h), shortOfFirst * (b * f)>>
  <2> HIDE DEF shortOfFirst, shortOfLast
  <2>1. shortOfFirst \in Int /\ shortOfLast \in Int /\ b * f \in Int /\ d * h \in Int
    BY DEF shortOfFirst, shortOfLast
  <2>2. Quotient(Short(p, r), Short(q, s)) = <<shortOfLast * (d * h), shortOfFirst * (b * f)>>
    BY <1>3, <2>1 DEF Quotient
  <2> QED
    BY <2>1, <2>2 DEF Minus, Plus, One
<1>5. Plus(Minus(p, q), Minus(r, s))[1] =
        (a * d + (-c) * b) * (f * h) + (e * h + (-g) * f) * (b * d)
  BY <1>1 DEF Minus, Plus
<1>6. shortOfFirst * (b * f) - shortOfLast * (d * h) =
        (a * d + (-c) * b) * (f * h) + (e * h + (-g) * f) * (b * d)
  OBVIOUS
<1>7. shortOfFirst <= 0 => c = d /\ g = h
  <2>1. (d - c) * h >= 0 /\ (h - g) * d >= 0
    BY <1>1
  <2>2. (d - c) * h = 0 => c = d
    BY <1>1
  <2>3. (h - g) * d = 0 => g = h
    BY <1>1
  <2> QED
    BY <1>1, <2>1, <2>2, <2>3
<1>8. shortOfLast * (d * h) = 0 => a = b /\ e = f
  <2>1. (b - a) * f >= 0 /\ (f - e) * b >= 0
    BY <1>1
  <2>2. (b - a) * f = 0 => a = b
    BY <1>1
  <2>3. (f - e) * b = 0 => e = f
    BY <1>1
  <2>4. d * h > 0
    BY <1>1
  <2>5. shortOfLast * (d * h) = 0 => shortOfLast = 0
    <3> HIDE DEF shortOfLast
    <3>1. shortOfLast \in Int
      BY DEF shortOfLast
    <3> QED
      BY <2>4, <3>1
  <2> QED
    BY <1>1, <2>1, <2>2, <2>3, <2>5
<1>9. /\ shortOfFirst * (b * f) \in Int /\ shortOfLast * (d * h) \in Int
  OBVIOUS
<1> HIDE DEF shortOfFirst, shortOfLast
<1>10. SameFraction(Minus(One, Quotient(Short(p, r), Short(q, s))), One) => a = b /\ e = f
  <2> DEFINE x == shortOfFirst * (b * f)
             y == shortOfLast * (d * h)
  <2>1. Minus(One, Quotient(Short(p, r), Short(q, s))) = <<x - y, x>> /\ x \in Int /\ y \in Int
    BY <1>4, <1>9
  <2>2. y = 0 => a = b /\ e = f
    BY <1>8
  <2> HIDE DEF x, y
  <2> QED
    BY <2>1, <2>2 DEF SameFraction, One
<1>11. Short(q, s)[1] = shortOfFirst
  BY <1>3
<1>12. Minus(One, Quotient(Short(p, r), Short(q, s)))[1] = Plus(Minus(p, q), Minus(r, s))[1]
  BY <1>4, <1>5, <1>6
<1> QED
  BY <1>1, <1>7, <1>10, <1>11, <1>12

-----------------------------------------------------------------------------
\* What is billed, and what is refined.

\* A number that has all the log's answers reported, and nothing else if each reported.
Bills(tokens, log) ==
  /\ tokens >= Reported(log)
  /\ AllReported(log) => tokens = Reported(log)

\* As long as a run has not been aborted, what its answers reported is billed: by the
\* recorder until the first record takes it down, by the records from then on, ...
PaidInv ==
  ~ aborted =>
    /\ stage \in BeforeVerdict \ {"validation"} => calls = <<>>
    /\ stage = "validation" => Bills(usage, calls)
    /\ stage \in {"feedback_loop", "return"} => Bills(TotalTokens(iterations), calls)

\* ... and every poem but the last was one to improve.
NeededInv ==
  \A n \in DOMAIN iterations : n < Len(iterations) => ~ IsValid(iterations[n].poem)

\* The tokens of one call more are added, and nothing was reported before the first.
LEMMA ReportedOneMore ==
  ASSUME NEW log \in Seq(TrueCalls(config)), NEW call \in TrueCalls(config)
  PROVE  /\ Reported(log) \in Int
         /\ Reported(Append(log, call)) =
              Reported(log) + (IF call.usage = None THEN 0 ELSE call.usage)
         /\ Reported(<<>>) = 0
         /\ AllReported(Append(log, call)) =>
              AllReported(log) /\ (call.response # None => call.usage # None)
<1> DEFINE Tokens(c) == IF c.usage = None THEN 0 ELSE c.usage
           tokens == [n \in DOMAIN log |-> Tokens(log[n])]
           after == Append(log, call)
           size == Len(log)
<1>1. ASSUME NEW c \in TrueCalls(config) PROVE Tokens(c) \in Int
  <2>1. \A u \in Usages \cup {None} : u = None \/ u \in Int
    BY PipelineAssumption
  <2>2. c.usage \in Usages \cup {None}
    BY DEF TrueCalls
  <2>3. c.usage = None \/ c.usage \in Int
    BY <2>1, <2>2, Zenon
  <2>4. 0 \in Int
    OBVIOUS
  <2> QED
    BY <2>3, <2>4, Zenon
<1> HIDE DEF Tokens
<1>2. /\ size \in Nat /\ DOMAIN log = 1 .. size
      /\ \A n \in DOMAIN log : log[n] \in TrueCalls(config)
      /\ DOMAIN after = 1 .. size + 1
      /\ after[size + 1] = call
      /\ \A n \in 1 .. size : after[n] = log[n]
  OBVIOUS
<1>3. tokens \in Seq(Int) /\ Len(tokens) = size
  BY <1>1, <1>2
<1> HIDE DEF after
<1>4. [n \in DOMAIN after |-> Tokens(after[n])] = Append(tokens, Tokens(call))
  <2> DEFINE right == Append(tokens, Tokens(call))
  <2>1. DOMAIN right = 1 .. size + 1
    BY <1>2, <1>3
  <2>2. right[size + 1] = Tokens(call)
    BY <1>2, <1>3
  <2>3. \A n \in 1 .. size : right[n] = Tokens(log[n])
    BY <1>2, <1>3
  <2>4. \A n \in 1 .. size + 1 : right[n] = Tokens(after[n])
    BY <1>2, <2>2, <2>3
  <2>5. right = [n \in 1 .. size + 1 |-> right[n]]
    BY <2>1, <1>3
  <2> HIDE DEF right
  <2> QED
    BY <1>2, <2>4, <2>5 DEF right
<1>5. SumOf(Append(tokens, Tokens(call))) = SumOf(tokens) + Tokens(call) /\ SumOf(tokens) \in Int
  BY <1>1, <1>3, SumOneMore, SumIsInt
<1>6. Reported(log) = SumOf(tokens) /\ Reported(after) = SumOf(Append(tokens, Tokens(call)))
  BY <1>4 DEF Reported, Tokens
<1>7. Reported(<<>>) = 0
  <2>1. [n \in DOMAIN <<>> |-> IF <<>>[n].usage = None THEN 0 ELSE <<>>[n].usage] = <<>>
    OBVIOUS
  <2> QED
    BY <2>1, SumOneMore DEF Reported
<1>8. AllReported(after) => AllReported(log) /\ (call.response # None => call.usage # None)
  BY <1>2 DEF AllReported
<1> QED
  BY <1>5, <1>6, <1>7, <1>8 DEF Tokens, after

\* A bill that has a call's tokens added, whatever is added if it reported none, is a
\* bill of the call too.
LEMMA BillGrows ==
  ASSUME NEW log \in Seq(TrueCalls(config)), NEW call \in TrueCalls(config),
         NEW tokens \in Int, NEW more \in Nat, Bills(tokens, log),
         call.usage # None => more = call.usage,
         call.response = None => call.usage = None /\ more = 0
  PROVE  Bills(tokens + more, Append(log, call))
<1> DEFINE reported == IF call.usage = None THEN 0 ELSE call.usage
           now == Reported(Append(log, call))
           all == AllReported(Append(log, call))
<1>1. /\ Reported(log) \in Int /\ now = Reported(log) + reported
      /\ all => AllReported(log) /\ (call.response # None => call.usage # None)
  BY ReportedOneMore
<1>2. reported \in Nat /\ reported <= more
  BY PipelineAssumption
<1>3. all => reported = more
  BY <1>1
<1> HIDE DEF reported, now, all
<1>4. tokens + more >= now
  BY <1>1, <1>2 DEF Bills
<1>5. all => tokens + more = now
  BY <1>1, <1>2, <1>3 DEF Bills
<1> QED
  BY <1>4, <1>5 DEF Bills, now, all

\* One record more.
LEMMA TokensOneMore ==
  ASSUME NEW records \in Seq(TrueRecords), NEW rec \in TrueRecords
  PROVE  /\ TotalTokens(records) \in Int
         /\ TotalTokens(Append(records, rec)) = TotalTokens(records) + rec.tokens
         /\ TotalTokens(<<>>) = 0
<1> DEFINE tokens == [n \in DOMAIN records |-> records[n].tokens]
           after == Append(records, rec)
<1>1. \A r \in TrueRecords : r.tokens \in Int
  BY DEF TrueRecords, IterationRecord
<1>2. /\ Len(records) \in Nat /\ DOMAIN records = 1 .. Len(records)
      /\ \A n \in DOMAIN records : records[n] \in TrueRecords
      /\ DOMAIN after = 1 .. Len(records) + 1
      /\ after[Len(records) + 1] = rec
      /\ \A n \in 1 .. Len(records) : after[n] = records[n]
  OBVIOUS
<1>3. tokens \in Seq(Int) /\ Len(tokens) = Len(records)
  BY <1>1, <1>2
<1> HIDE DEF after
<1>4. [n \in DOMAIN after |-> after[n].tokens] = Append(tokens, rec.tokens)
  <2> DEFINE left == [n \in DOMAIN after |-> after[n].tokens]
             right == Append(tokens, rec.tokens)
  <2>1. DOMAIN right = 1 .. Len(records) + 1
    BY <1>2, <1>3
  <2>2. right[Len(records) + 1] = rec.tokens
    BY <1>2, <1>3
  <2>3. \A n \in 1 .. Len(records) : right[n] = records[n].tokens
    BY <1>2, <1>3
  <2>4. \A n \in 1 .. Len(records) + 1 : right[n] = after[n].tokens
    BY <1>2, <2>2, <2>3
  <2>5. right = [n \in 1 .. Len(records) + 1 |-> right[n]]
    BY <2>1, <1>3
  <2> HIDE DEF right
  <2> QED
    BY <1>2, <2>4, <2>5 DEF right
<1>5. SumOf(Append(tokens, rec.tokens)) = SumOf(tokens) + rec.tokens /\ SumOf(tokens) \in Int
  BY <1>1, <1>3, SumOneMore, SumIsInt
<1>6. TotalTokens(<<>>) = 0
  <2>1. [n \in DOMAIN <<>> |-> <<>>[n].tokens] = <<>>
    OBVIOUS
  <2> QED
    BY <2>1, SumOneMore DEF TotalTokens
<1> QED
  BY <1>1, <1>4, <1>5, <1>6 DEF TotalTokens, after

\* A record that is added to those of poems to improve.
LEMMA NeededOneMore ==
  ASSUME RunInv, NeededInv, NEW rec, iterations' = Append(iterations, rec),
         iterations # <<>> => ~ IsValid(iterations[Len(iterations)].poem)
  PROVE  NeededInv'
<1>1. Len(iterations) \in Nat /\ DOMAIN iterations = 1 .. Len(iterations)
  BY DEF RunInv, StateInv
<1>2. /\ Len(iterations') = Len(iterations) + 1 /\ DOMAIN iterations' = 1 .. Len(iterations) + 1
      /\ \A n \in 1 .. Len(iterations) : iterations'[n] = iterations[n]
  BY <1>1 DEF RunInv, StateInv
<1>3. ASSUME NEW n \in 1 .. Len(iterations) PROVE ~ IsValid(iterations'[n].poem)
  <2>1. CASE n < Len(iterations)
    BY <1>1, <1>2, <2>1 DEF NeededInv
  <2>2. CASE n = Len(iterations)
    <3>1. iterations # <<>>
      BY <1>1, <2>2
    <3>2. iterations'[n] = iterations[Len(iterations)]
      BY <1>2, <2>2
    <3>3. ~ IsValid(iterations[Len(iterations)].poem)
      BY <3>1
    <3> QED
      BY <3>2, <3>3
  <2>3. n < Len(iterations) \/ n = Len(iterations)
    <3>1. Len(iterations) \in Nat
      BY <1>1
    <3> QED
      BY <3>1
  <2> QED
    BY <2>1, <2>2, <2>3
<1> QED
  BY <1>1, <1>2, <1>3 DEF NeededInv

\* The steps that neither call nor record.
LEMMA NothingPaid ==
  ASSUME RunInv, PaidInv, NeededInv,
         Start \/ SkipStage \/ Retrieve \/ FindExamples \/ BuildPrompt \/ LeaveLoop
  PROVE  PaidInv' /\ NeededInv'
<1>1. UNCHANGED <<calls, iterations, aborted>>
  BY DEF Start, SkipStage, SkipTo, Retrieve, FindExamples, Enrich, BuildPrompt, LeaveLoop
<1>2. \/ aborted
      \/ /\ stage \in BeforeVerdict \ {"initial_generation", "validation"}
         /\ stage' \in BeforeVerdict \ {"validation"}
      \/ stage = "feedback_loop" /\ stage' = "return"
  <2>1. CASE Start
    BY <2>1, OrderOfStages DEF Start, BeforeVerdict
  <2>2. CASE SkipStage
    <3>1. stage # "validation" \/ aborted
      BY <2>2 DEF SkipStage, SkipTo, RunInv, StateInv
    <3> QED
      BY <2>2, <3>1, OrderOfStages DEF SkipStage, SkipTo, BeforeVerdict
  <2>3. CASE Retrieve \/ FindExamples \/ BuildPrompt \/ LeaveLoop
    BY <2>3, OrderOfStages DEF Retrieve, FindExamples, Enrich, BuildPrompt, LeaveLoop, InLoop,
       BeforeVerdict
  <2> QED
    BY <2>1, <2>2, <2>3
<1>3. NeededInv'
  BY <1>1 DEF NeededInv, IsValid
<1>4. PaidInv'
  BY <1>1, <1>2 DEF PaidInv, BeforeVerdict
<1> QED
  BY <1>3, <1>4

\* The recorder has what the first draft reported, or the run is aborted.
LEMMA DraftPaid ==
  ASSUME RunInv, CallsInv, PaidInv, NeededInv, Generate \/ GenerateFails
  PROVE  PaidInv' /\ NeededInv'
<1>1. NeededInv'
  <2>1. iterations' = iterations
    BY DEF Generate, GenerateFails
  <2> QED
    BY <2>1 DEF NeededInv, IsValid
<1>2. CASE Generate
  <2>1. /\ stage = "initial_generation" /\ stage' = "validation" /\ aborted' = aborted
        /\ ~ aborted
    BY <1>2, OrderOfStages DEF Generate
  <2>2. calls = <<>>
    BY <2>1 DEF PaidInv, BeforeVerdict
  <2>3. PICK raw \in Responses : Called("generate", raw)
    BY <1>2, Callers
  <2>4. PICK call \in TrueCalls(config) :
          /\ calls' = Append(calls, call) /\ call.response = raw
          /\ call.usage # None => usage' = call.usage
    BY <2>3, CallLogged
  <2>5. usage' \in Nat /\ raw # None
    BY <2>3, CallLogged, PipelineAssumption
  <2>6. Bills(0, calls)
    <3>1. Reported(<<>>) = 0
      BY <2>4, ReportedOneMore DEF CallsInv
    <3> QED
      BY <2>2, <3>1 DEF Bills
  <2>7. Bills(0 + usage', Append(calls, call))
    BY <2>4, <2>5, <2>6, BillGrows DEF CallsInv
  <2>8. Bills(usage', calls')
    BY <2>4, <2>5, <2>7
  <2> QED
    BY <1>1, <2>1, <2>8 DEF PaidInv, BeforeVerdict, Bills, Reported, AllReported
<1>3. CASE GenerateFails
  BY <1>1, <1>3 DEF GenerateFails, PaidInv
<1> QED
  BY <1>2, <1>3

\* The first record takes down what the recorder has.
LEMMA VerdictPaid ==
  ASSUME RunInv, PaidInv, NeededInv, Validate
  PROVE  PaidInv' /\ NeededInv'
<1> DEFINE rec == IterationRecord(0, poem, MeterResult(poem), RhymeResult(poem),
                                  MessagesOf(poem), FALSE, usage)
<1>1. /\ stage = "validation" /\ stage' = "feedback_loop" /\ ~ aborted /\ aborted' = aborted
      /\ calls' = calls
  BY OrderOfStages DEF Validate, Skipped
<1>2. iterations = <<>> /\ poem \in Text \ {<<>>} /\ usage \in Nat
  BY <1>1 DEF RunInv, BeforeInv, DraftInv, StateInv, BeforeVerdict
<1>3. iterations' = Append(iterations, rec)
  BY DEF Validate, MessagesOf
<1>4. rec \in TrueRecords /\ rec.tokens = usage
  BY <1>2, RecordIsTrue DEF IterationRecord
<1> HIDE DEF rec
<1>5. TotalTokens(iterations') = usage
  <2>1. iterations \in Seq(TrueRecords)
    BY DEF RunInv, StateInv
  <2>2. TotalTokens(iterations) = 0
    BY <1>2, <1>4, <2>1, TokensOneMore
  <2>3. TotalTokens(Append(iterations, rec)) = TotalTokens(iterations) + usage
    BY <1>4, <2>1, TokensOneMore
  <2> QED
    BY <1>2, <1>3, <2>2, <2>3
<1>6. PaidInv'
  <2>1. Bills(usage, calls)
    BY <1>1 DEF PaidInv
  <2>2. Bills(TotalTokens(iterations'), calls')
    BY <1>1, <1>5, <2>1
  <2> QED
    BY <1>1, <2>2 DEF PaidInv, BeforeVerdict, Bills, TotalTokens, Reported, AllReported
<1>7. NeededInv'
  BY <1>2, <1>3, NeededOneMore
<1> QED
  BY <1>6, <1>7

\* A round calls once and records once: what the recorder has when it was answered, and
\* nothing when it was not.
LEMMA RoundPaid ==
  ASSUME RunInv, CallsInv, PaidInv, NeededInv,
         RegenerateAll \/ RegenerateLines \/ RegenerationFails
  PROVE  PaidInv' /\ NeededInv'
<1>1. Refining
  BY DEF RegenerateAll, RegenerateLines, RegenerationFails
<1>2. /\ stage = "feedback_loop" /\ ~ aborted
      /\ poem \in Text \ {<<>>} /\ Judged
      /\ iterations # <<>> /\ iterations[Len(iterations)].poem = poem
      /\ round = Len(iterations) /\ round \in Nat
  BY <1>1, InTheLoop DEF Refining
<1>3. ~ IsValid(poem)
  BY <1>1, <1>2 DEF Refining, ShouldStop, Judged, IsValid
<1>4. iterations \in Seq(TrueRecords) /\ calls \in Seq(TrueCalls(config))
  BY DEF RunInv, StateInv, CallsInv
<1>5. Bills(TotalTokens(iterations), calls)
  BY <1>2 DEF PaidInv
<1>6. PICK kind \in {"generate", "regenerate_lines"}, response \in Responses \cup {None} :
        /\ Called(kind, response)
        /\ response = None <=> RegenerationFails
  <2>1. CASE RegenerationFails
    BY <2>1, Callers
  <2>2. CASE ~ RegenerationFails
    BY <2>2, Callers, PipelineAssumption
  <2> QED
    BY <2>1, <2>2
<1>7. PICK call \in TrueCalls(config) :
        /\ calls' = Append(calls, call) /\ call.response = response
        /\ call.usage # None => response # None /\ usage' = call.usage
  BY <1>2, <1>6, CallLogged DEF Judged
<1>8. usage' \in Nat
  BY <1>2, <1>6, CallLogged DEF Judged
<1>9. PICK rec \in TrueRecords :
        /\ iterations' = Append(iterations, rec)
        /\ rec.tokens = IF RegenerationFails THEN 0 ELSE usage'
        /\ stage' \in {"feedback_loop", "return"} /\ aborted' = aborted
  <2>1. CASE RegenerationFails
    <3> DEFINE rec == IterationRecord(round, poem, MeterResult(poem), RhymeResult(poem),
                                      MessagesOf(poem), TRUE, 0)
    <3>1. iterations' = Append(iterations, rec) /\ stage' = "return" /\ aborted' = aborted
      BY <1>2, <2>1, OrderOfStages DEF RegenerationFails, Judged, RoundTokens
    <3>2. rec \in TrueRecords /\ rec.tokens = 0
      BY <1>2, RecordIsTrue DEF IterationRecord
    <3> HIDE DEF rec
    <3> QED
      BY <2>1, <3>1, <3>2
  <2>2. CASE ~ RegenerationFails
    <3>1. PICK text \in Text \ {<<>>} : Accept(text)
      BY <2>2, RoundGivesText
    <3> DEFINE rec == IterationRecord(round, text, MeterResult(text), RhymeResult(text),
                                      MessagesOf(text), FALSE, usage')
    <3>2. iterations' = Append(iterations, rec) /\ stage' = stage /\ aborted' = aborted
      BY <3>1 DEF Accept, EndRound, Verdict, RoundTokens
    <3>3. rec \in TrueRecords /\ rec.tokens = usage'
      BY <1>2, <1>8, RecordIsTrue DEF IterationRecord
    <3> HIDE DEF rec
    <3> QED
      BY <1>2, <2>2, <3>2, <3>3
  <2> QED
    BY <2>1, <2>2
<1> DEFINE more == IF RegenerationFails THEN 0 ELSE usage'
<1>10. /\ more \in Nat
       /\ call.usage # None => more = call.usage
       /\ call.response = None => call.usage = None /\ more = 0
  BY <1>6, <1>7, <1>8
<1>11. rec.tokens = more
  BY <1>9
<1> HIDE DEF more
<1>12. TotalTokens(iterations') = TotalTokens(iterations) + more /\ TotalTokens(iterations) \in Int
  BY <1>4, <1>9, <1>11, TokensOneMore
<1>13. Bills(TotalTokens(iterations) + more, Append(calls, call))
  BY <1>4, <1>5, <1>10, <1>12, BillGrows
<1>14. PaidInv'
  <2>1. Bills(TotalTokens(iterations'), calls')
    BY <1>7, <1>12, <1>13
  <2> QED
    BY <1>9, <2>1 DEF PaidInv, BeforeVerdict, Bills, TotalTokens, Reported, AllReported
<1>15. NeededInv'
  BY <1>2, <1>3, <1>9, NeededOneMore
<1> QED
  BY <1>14, <1>15

\* Every step keeps the account.
LEMMA PaidStep ==
  ASSUME RunInv, CallsInv, PaidInv, NeededInv, [Next]_vars
  PROVE  PaidInv' /\ NeededInv'
<1>1. CASE Refuse \/ FinishEvaluation \/ FinishGeneration
  <2>1. stage' = "done" /\ iterations' = iterations
    BY <1>1 DEF Refuse, FinishEvaluation, FinishGeneration
  <2> QED
    BY <2>1 DEF PaidInv, NeededInv, IsValid, BeforeVerdict
<1>2. CASE UNCHANGED vars
  BY <1>2 DEF vars, PaidInv, NeededInv, IsValid
<1> QED
  BY <1>1, <1>2, NothingPaid, DraftPaid, VerdictPaid, RoundPaid DEF Next, Done

\* The outcome tells the run once it is there, and it is there in the end only.
OutcomeInv ==
  /\ stage # "done" => outcome = None
  /\ OutcomeTellsTheRun

\* What the records of a run say of its first and its last poem.
LEMMA RecordedVerdicts ==
  ASSUME RunInv, iterations # <<>>
  PROVE  LET n == Len(iterations) IN
         /\ n \in Nat \ {0}
         /\ Head(iterations) = iterations[1] /\ Last(iterations) = iterations[n]
         /\ \A i \in {1, n} :
              /\ iterations[i].poem \in Text \ {<<>>}
              /\ iterations[i].meter = MeterResult(iterations[i].poem).accuracy
              /\ iterations[i].rhyme = RhymeResult(iterations[i].poem).accuracy
              /\ iterations[i].meter \in Accuracies /\ iterations[i].rhyme \in Accuracies
              /\ IsValid(iterations[i].poem) <=>
                   /\ iterations[i].meter[1] = iterations[i].meter[2]
                   /\ iterations[i].rhyme[1] = iterations[i].rhyme[2]
<1> DEFINE n == Len(iterations)
<1>1. iterations \in Seq(TrueRecords)
  BY DEF RunInv, StateInv
<1>2. /\ n \in Nat \ {0} /\ Head(iterations) = iterations[1] /\ Last(iterations) = iterations[n]
      /\ iterations[1] \in TrueRecords /\ iterations[n] \in TrueRecords
  BY <1>1 DEF Last
<1>3. \A rec \in TrueRecords :
        /\ rec.poem \in Text \ {<<>>}
        /\ rec.meter = MeterResult(rec.poem).accuracy
        /\ rec.rhyme = RhymeResult(rec.poem).accuracy
  BY DEF TrueRecords, IterationRecord
<1>4. ASSUME NEW rec \in TrueRecords
      PROVE  /\ rec.meter \in Accuracies /\ rec.rhyme \in Accuracies
             /\ IsValid(rec.poem) <=> rec.meter[1] = rec.meter[2] /\ rec.rhyme[1] = rec.rhyme[2]
  BY <1>3, MeterAccuracy, RhymeAccuracy DEF IsValid
<1> HIDE DEF n
<1> QED
  BY <1>2, <1>3, <1>4 DEF n

\* The metrics of a run that has a verdict.
LEMMA MetricsTellTheRun ==
  ASSUME RunInv, NeededInv, iterations # <<>>, iterations[Len(iterations)].poem = poem
  PROVE  LET m == AllMetrics(poem, iterations)
             Step(field, change) == Plus(Head(iterations)[field], m[change])
             balance == Plus(m.meter_improvement, m.rhyme_improvement)
         IN  /\ poem = Last(iterations).poem
             /\ SameFraction(m.meter_accuracy, Step("meter", "meter_improvement"))
             /\ SameFraction(m.rhyme_accuracy, Step("rhyme", "rhyme_improvement"))
             /\ m.regeneration_success[1] > 0 <=> balance[1] > 0
             /\ SameFraction(m.regeneration_success, One) => IsValid(poem)
<1> DEFINE n == Len(iterations)
           first == iterations[1]
           last == iterations[n]
           m == AllMetrics(poem, iterations)
<1>1. /\ n \in Nat \ {0} /\ Head(iterations) = first /\ Last(iterations) = last
      /\ last.poem = poem
      /\ first.meter \in Accuracies /\ first.rhyme \in Accuracies
      /\ last.meter \in Accuracies /\ last.rhyme \in Accuracies
      /\ IsValid(first.poem) <=> first.meter[1] = first.meter[2] /\ first.rhyme[1] = first.rhyme[2]
      /\ IsValid(last.poem) <=> last.meter[1] = last.meter[2] /\ last.rhyme[1] = last.rhyme[2]
      /\ last.meter = MeterResult(poem).accuracy /\ last.rhyme = RhymeResult(poem).accuracy
  BY RecordedVerdicts
<1>2. /\ m.meter_accuracy = last.meter /\ m.rhyme_accuracy = last.rhyme
      /\ m.meter_improvement = IterationDelta(iterations, "meter")
      /\ m.rhyme_improvement = IterationDelta(iterations, "rhyme")
      /\ m.regeneration_success = RegenerationSuccess(iterations)
  BY <1>1 DEF AllMetrics
<1>3. CASE n < 2
  <2>1. first = last
    BY <1>1, <1>3
  <2>2. m.meter_improvement = Zero /\ m.rhyme_improvement = Zero /\ m.regeneration_success = Zero
    BY <1>2, <1>3 DEF IterationDelta, RegenerationSuccess
  <2>3. Plus(Zero, Zero)[1] = 0 /\ Zero[1] = 0 /\ ~ SameFraction(Zero, One)
    BY DEF Plus, Zero, One, SameFraction
  <2>4. /\ SameFraction(last.meter, Plus(first.meter, Zero))
        /\ SameFraction(last.rhyme, Plus(first.rhyme, Zero))
    BY <1>1, <2>1, DistanceLeads
  <2> HIDE DEF m, first, last
  <2> QED
    BY <1>1, <1>2, <2>2, <2>3, <2>4 DEF m
<1>4. CASE n >= 2
  <2>1. /\ m.meter_improvement = Minus(last.meter, first.meter)
        /\ m.rhyme_improvement = Minus(last.rhyme, first.rhyme)
    BY <1>1, <1>2, <1>4 DEF IterationDelta
  <2>2. ~ IsValid(first.poem)
    BY <1>1, <1>4 DEF NeededInv, RunInv, StateInv
  <2>3. /\ Violations(first) = Short(first.meter, first.rhyme)
        /\ Violations(last) = Short(last.meter, last.rhyme)
    BY DEF Violations, Short
  <2> DEFINE success == Minus(One, Quotient(Short(last.meter, last.rhyme),
                                            Short(first.meter, first.rhyme)))
  <2>4. /\ Short(first.meter, first.rhyme)[1] <= 0 =>
             first.meter[1] = first.meter[2] /\ first.rhyme[1] = first.rhyme[2]
        /\ success[1] > 0 <=> Plus(Minus(last.meter, first.meter),
                                   Minus(last.rhyme, first.rhyme))[1] > 0
        /\ SameFraction(success, One) =>
             last.meter[1] = last.meter[2] /\ last.rhyme[1] = last.rhyme[2]
    BY <1>1, SuccessIsBalance
  <2>5. m.regeneration_success = success
    <3>1. ~ (Violations(first)[1] <= 0)
      BY <1>1, <2>2, <2>3, <2>4
    <3> QED
      BY <1>1, <1>2, <1>4, <2>3, <3>1 DEF RegenerationSuccess
  <2>6. /\ SameFraction(last.meter, Plus(first.meter, Minus(last.meter, first.meter)))
        /\ SameFraction(last.rhyme, Plus(first.rhyme, Minus(last.rhyme, first.rhyme)))
    BY <1>1, DistanceLeads
  <2> HIDE DEF m, first, last, success
  <2> QED
    BY <1>1, <1>2, <2>1, <2>4, <2>5, <2>6 DEF m
<1> QED
  BY <1>1, <1>3, <1>4

\* A run that ends well is told truly.
LEMMA DeliveryTells ==
  ASSUME RunInv, PaidInv, NeededInv, FinishEvaluation \/ FinishGeneration
  PROVE  OutcomeInv'
<1>1. /\ stage = "return" /\ stage' = "done"
      /\ UNCHANGED <<iterations, calls, poem>>
  BY DEF FinishEvaluation, FinishGeneration, poemVars
<1>2. CASE aborted
  <2>1. \E kind \in {"error", "raised"}, text \in {poem, <<>>} : outcome' = Failure(kind, text)
    BY <1>2 DEF FinishEvaluation, FinishGeneration
  <2>2. outcome'.kind \in {"error", "raised"}
    BY <2>1 DEF Failure
  <2> QED
    BY <1>1, <2>2 DEF OutcomeInv, OutcomeTellsTheRun
<1>3. CASE ~ aborted
  <2>1. iterations # <<>> /\ Judged /\ iterations[Len(iterations)].poem = poem
    BY <1>1, <1>3 DEF RunInv, JudgedInv
  <2>2. PICK kind : outcome' = Delivery(kind, MeterResult(poem), RhymeResult(poem))
    BY <1>3, <2>1 DEF FinishEvaluation, FinishGeneration, Judged
  <2>3. /\ outcome'.meter = MeterResult(poem) /\ outcome'.rhyme = RhymeResult(poem)
        /\ outcome'.poem = poem /\ outcome'.metrics = AllMetrics(poem, iterations)
    BY <2>2 DEF Delivery
  <2>4. Bills(AllMetrics(poem, iterations).total_tokens, calls)
    BY <1>1, <1>3 DEF AllMetrics, PaidInv
  <2>5. OutcomeTellsTheRun'
    BY <1>1, <2>1, <2>3, <2>4, MetricsTellTheRun DEF OutcomeTellsTheRun, Bills, Reported, AllReported
  <2> QED
    BY <1>1, <2>5 DEF OutcomeInv
<1> QED
  BY <1>2, <1>3

\* Nothing that happens before the end has an outcome, and nothing happens after it.
LEMMA OutcomeStep ==
  ASSUME RunInv, PaidInv, NeededInv, OutcomeInv, [Next]_vars
  PROVE  OutcomeInv'
<1>1. CASE Refuse
  BY <1>1 DEF Refuse, Failure, OutcomeInv, OutcomeTellsTheRun
<1>2. CASE UNCHANGED vars
  BY <1>2 DEF vars, inputs, poemVars, OutcomeInv, OutcomeTellsTheRun, IsValid
<1>3. CASE \/ Start \/ SkipStage \/ Retrieve \/ FindExamples \/ BuildPrompt \/ Generate
           \/ GenerateFails \/ Validate \/ RegenerateAll \/ RegenerateLines
           \/ RegenerationFails \/ LeaveLoop
  <2>1. stage # "done" /\ outcome' = outcome
    BY <1>3, OrderOfStages DEF Start, SkipStage, SkipTo, Retrieve, FindExamples, Enrich,
       BuildPrompt, Generate, GenerateFails, Validate, RegenerateAll, RegenerateLines, Accept,
       EndRound, Refining, InLoop, RegenerationFails, LeaveLoop
  <2> QED
    BY <2>1 DEF OutcomeInv, OutcomeTellsTheRun
<1> QED
  BY <1>1, <1>2, <1>3, DeliveryTells DEF Next, Done

\* Before a run begins nothing is paid, recorded or given out.
LEMMA OutcomeStarts == Init => PaidInv /\ NeededInv /\ OutcomeInv
BY DEF Init, PaidInv, NeededInv, OutcomeInv, OutcomeTellsTheRun, BeforeVerdict

\* The verdicts and the metrics a caller gets are those of the poem and of the run, and
\* the bill has what every answer reported, and nothing else if each answer reported its
\* usage (poem_generation_pipeline.py:47-85, final_metrics_stage.py:36-65,
\* token_usage.py:49-52).
THEOREM OutcomeTold == Spec => []OutcomeTellsTheRun
<1>1. RunInv /\ CallsInv /\ PaidInv /\ NeededInv /\ OutcomeInv /\ [Next]_vars
        => PaidInv' /\ NeededInv' /\ OutcomeInv'
  BY PaidStep, OutcomeStep
<1>2. OutcomeInv => OutcomeTellsTheRun
  BY DEF OutcomeInv
<1> QED
  BY <1>1, <1>2, OutcomeStarts, RunInvariant, CallsInvariant, PTL DEF Spec

=============================================================================
