------------------------- MODULE GenerationPipeline -------------------------
(***************************************************************************)
(* One run of the generation pipeline: the stages SequentialPipeline walks,*)
(* the PipelineState they share, the feedback loop that regenerates, merges*)
(* and re-validates, and the two front ends, the evaluation (traced, with  *)
(* final metrics, under an ablation configuration) and the interactive     *)
(* generation (everything on, errors re-raised).                           *)
(*                                                                         *)
(* A run is sequential and owns its PipelineState, so a stage and a round  *)
(* of the loop are one step each.  The LLM is what LLMCallStack shows it   *)
(* to be: a call returns a text that is not blank, or raises an LLMError.  *)
(* The recorder of its token counts is as a run that is alone finds it     *)
(* (LoneCallIsTraced): what other requests and abandoned attempts do to it *)
(* is shown there.                                                         *)
(* The validators raise only for meters and schemes no request can hold    *)
(* (specifications.py:22-52), so the handlers of that error are left out.  *)
(***************************************************************************)
EXTENDS RunMetrics, EvaluationData

CONSTANTS
  Responses,      \* the texts the LLM may return
  ExpectedLines,  \* request.structure.total_lines
  MaxRounds,      \* bound of the model: the largest request.max_iterations
  Usages,         \* the token counts a response may report
  OmitsUsage,     \* the calls of a run whose responses may come without usage metadata
  None            \* Python's None

\* Of a response that is a text the verse is one; that None is neither a verdict nor a
\* text is what "is None" in the code relies on.
ASSUME PipelineAssumption ==
  /\ Responses \subseteq Text \ {<<>>}
  /\ \A raw \in Responses : FromText(raw) \in Text
  /\ ExpectedLines \in Nat \ {0}
  /\ MaxRounds \in Nat
  /\ Usages \subseteq Nat
  /\ OmitsUsage \subseteq Nat
  /\ None \notin Responses
  /\ None \notin Usages
  /\ None \notin [ok : BOOLEAN, accuracy : Int \X Int, feedback : SUBSET Nat]

\* The order of declaration of the stage registrations.
StageOrder ==
  <<"retrieval", "metric_examples", "prompt_construction", "initial_generation",
    "validation", "feedback_loop">>

StageNames == Range(StageOrder)

VARIABLES
  frontEnd,    \* who runs the pipeline: "evaluate" or "generate"
  config,      \* config.enabled_stages
  maxRounds,   \* request.max_iterations
  supported,   \* can the scenario be made into a request at all?
  stage,       \* the stage that runs next
  prompt,      \* what the prompt contains besides the request
  poem,        \* state.poem
  meter,       \* state.last_meter_result
  rhyme,       \* state.last_rhyme_result
  feedback,    \* the feedback messages of the last validation
  aborted,     \* state.aborted
  usage,       \* the token counts the recorder holds
  round,       \* the loop counter "it" of the feedback iterator
  iterations,  \* tracer.iterations()
  stages,      \* the stage records of the tracer
  outcome,     \* what the front end gives its caller
  calls        \* history: the LLM calls made

inputs == <<frontEnd, config, maxRounds, supported>>
poemVars == <<poem, meter, rhyme, feedback>>
vars == <<inputs, stage, prompt, poemVars, aborted, usage, round, iterations, stages, outcome,
          calls>>

EmptyPrompt == [excerpts |-> FALSE, examples |-> FALSE]

\* The recorder outlives the run: it holds what the run before it left there.
Init ==
  /\ \/ frontEnd = "evaluate" /\ config \in Range(EnabledStages)
     \/ frontEnd = "generate" /\ config = GenerationConfig
  /\ maxRounds \in 0 .. MaxRounds
  /\ supported \in BOOLEAN
  /\ stage = "request"
  /\ prompt = EmptyPrompt
  /\ poem = <<>>
  /\ meter = None
  /\ rhyme = None
  /\ feedback = None
  /\ aborted = FALSE
  /\ usage \in {0} \cup Usages
  /\ round = 1
  /\ iterations = <<>>
  /\ stages = <<>>
  /\ outcome = None
  /\ calls = <<>>

-----------------------------------------------------------------------------

\* NullTracer forgets stage records, PipelineTracer keeps them.
AddStages(records) ==
  stages' = IF frontEnd = "evaluate" THEN stages \o records ELSE stages

StageRecord(name, status) == [name |-> name, status |-> status]

\* The stage after the given one; "return" after the last.
NextStage(name) ==
  IF name = Last(StageOrder) THEN "return"
  ELSE StageOrder[(CHOOSE i \in DOMAIN StageOrder : StageOrder[i] = name) + 1]

\* Mutant of Skipped: the ablation configuration is not consulted.
SkippedOnAbort(name) == aborted

\* The skip policy, for a stage an ablation configuration may turn off.
Skipped(name) == aborted \/ name \notin config

\* A stage that is turned off leaves a record; after an abort most leave none,
\* but the feedback stage asks the skip policy first and records that it is skipped.
\* It skips as well when there is no verdict to start from.
SkipTo(next) ==
  /\ stage \in StageNames
  /\ \/ aborted
     \/ stage \in {"retrieval", "metric_examples", "validation", "feedback_loop"} \ config
     \/ stage = "feedback_loop" /\ meter = None
  /\ stage' = next
  /\ AddStages(IF aborted /\ stage # "feedback_loop"
               THEN <<>> ELSE <<StageRecord(stage, "skipped")>>)
  /\ UNCHANGED <<inputs, prompt, poemVars, aborted, usage, round, iterations, outcome, calls>>

\* Mutant of SkipStage: a run without a draft is sent back to make one, with the abort
\* still set.
SkipStageRedrafts ==
  SkipTo(IF aborted /\ stage = "validation" THEN "initial_generation" ELSE NextStage(stage))

SkipStage == SkipTo(NextStage(stage))

\* What the caller of a run gets when there is no poem to give.
Failure(kind, text) ==
  [kind |-> kind, poem |-> text, meter |-> None, rhyme |-> None, metrics |-> None]

\* A scenario whose meter, scheme or structure is not supported never becomes a
\* request: the evaluation records the error, the handler refuses the form.
Refuse ==
  /\ stage = "request"
  /\ ~ supported
  /\ stage' = "done"
  /\ outcome' = Failure("refused", <<>>)
  /\ UNCHANGED <<inputs, prompt, poemVars, aborted, usage, round, iterations, stages, calls>>

Start ==
  /\ stage = "request"
  /\ supported
  /\ stage' = StageOrder[1]
  /\ UNCHANGED <<inputs, prompt, poemVars, aborted, usage, round, iterations, stages, outcome,
                 calls>>

\* Retrieval and metric examples: what they find goes into the prompt.  They
\* may find nothing, or fail, which the run survives with nothing found.
Enrich(name, field) ==
  /\ stage = name
  /\ ~ Skipped(name)
  /\ \E found \in {"some", "nothing", "error"} :
       /\ prompt' = [prompt EXCEPT ![field] = (found = "some")]
       /\ AddStages(<<StageRecord(name, IF found = "error" THEN "error" ELSE "ok")>>)
  /\ stage' = NextStage(name)
  /\ UNCHANGED <<inputs, poemVars, aborted, usage, round, iterations, outcome, calls>>

Retrieve == Enrich("retrieval", "excerpts")

FindExamples == Enrich("metric_examples", "examples")

\* The prompt is built from what was found: in the model it is collected already.
BuildPrompt ==
  /\ stage = "prompt_construction"
  /\ ~ aborted
  /\ stage' = NextStage(stage)
  /\ AddStages(<<StageRecord(stage, "ok")>>)
  /\ UNCHANGED <<inputs, prompt, poemVars, aborted, usage, round, iterations, outcome, calls>>

\* A call to the LLM, with what it answered (None when it raised) and the usage the
\* answer reported (None when there is none).
LogCall(kind, response, reported) ==
  calls' = Append(calls, [kind |-> kind, prompt |-> prompt, poem |-> poem,
                          feedback |-> feedback, response |-> response, usage |-> reported])

\* The recorder after a call without an answer, or one whose answer reports no usage: it
\* holds what it held, unless an attempt of the call that was rejected reported its own.
KeepsUsage == usage' \in {usage} \cup Usages

\* _call and _record_usage: the usage of the answer is recorded, if it reports one.
Answer(kind, raw) ==
  \/ \E reported \in Usages : LogCall(kind, raw, reported) /\ usage' = reported
  \/ /\ Len(calls) + 1 \in OmitsUsage
     /\ LogCall(kind, raw, None)
     /\ KeepsUsage

\* The call raises an LLMError: its attempts are spent or the quota is.
Raise(kind) == LogCall(kind, None, None) /\ KeepsUsage

\* The first draft: the verse of the response, or the response itself if it has
\* too little verse.
Generate ==
  /\ stage = "initial_generation"
  /\ ~ aborted
  /\ \E raw \in Responses :
       /\ poem' = IF Len(FromText(raw)) < ExpectedLines THEN raw ELSE FromText(raw)
       /\ Answer("generate", raw)
  /\ stage' = NextStage(stage)
  /\ AddStages(<<StageRecord(stage, "ok")>>)
  /\ UNCHANGED <<inputs, prompt, meter, rhyme, feedback, aborted, round, iterations, outcome>>

GenerateFails ==
  /\ stage = "initial_generation"
  /\ ~ aborted
  /\ aborted' = TRUE
  /\ Raise("generate")
  /\ stage' = NextStage(stage)
  /\ AddStages(<<StageRecord(stage, "error")>>)
  /\ UNCHANGED <<inputs, prompt, poemVars, round, iterations, outcome>>

-----------------------------------------------------------------------------

\* format_all_feedback: one message for each violation.
Messages(m, r) == [lines |-> m.feedback, pairs |-> r.feedback]

\* The IterationRecord of round n.
IterationRecord(n, text, m, r, messages, failed, tokens) ==
  [iteration |-> n, poem |-> text, meter |-> m.accuracy, rhyme |-> r.accuracy,
   feedback  |-> messages, failed |-> failed, tokens |-> tokens]

\* The validation stage: the first verdict and the record of iteration 0.
Validate ==
  LET m == MeterResult(poem)
      r == RhymeResult(poem)
  IN  /\ stage = "validation"
      /\ ~ Skipped(stage)
      /\ meter' = m
      /\ rhyme' = r
      /\ feedback' = Messages(m, r)
      /\ iterations' = Append(iterations,
                              IterationRecord(0, poem, m, r, Messages(m, r), FALSE, usage))
      /\ stage' = NextStage(stage)
      /\ AddStages(<<StageRecord(stage, "ok")>>)
      /\ UNCHANGED <<inputs, prompt, poem, aborted, usage, round, outcome, calls>>

\* Mutant of ShouldStop: the poem is good enough when its meter is.
ShouldStopOnMeter == round > maxRounds \/ meter.ok

\* MaxIterationsOrValidStopPolicy, and the end of the loop's range.
ShouldStop == round > maxRounds \/ (meter.ok /\ rhyme.ok)

\* The feedback stage runs the iterator if there is a verdict to start from.
InLoop ==
  /\ stage = "feedback_loop"
  /\ ~ Skipped(stage)
  /\ meter # None

Refining == InLoop /\ ~ ShouldStop

\* Both verdicts on a text.
Verdict(text) == [meter |-> MeterResult(text), rhyme |-> RhymeResult(text)]

\* Mutant of RoundTokens: the recorder is read whether or not the call answered.
RoundTokensOfRecorder(failed) == usage'

\* The tokens of a round: the recorder as it is read after the answer.  A call that
\* raises leaves the round the empty snapshot it began with, not the recorder an empty one.
RoundTokens(failed) == IF failed THEN 0 ELSE usage'

\* The round ends: the poem, its verdict and its messages replace those before, and
\* the round is recorded with the accuracies shown.
EndRound(text, verdict, messages, shown) ==
  /\ poem' = text
  /\ meter' = verdict.meter
  /\ rhyme' = verdict.rhyme
  /\ feedback' = messages
  /\ iterations' = Append(iterations, IterationRecord(round, text, shown.meter, shown.rhyme,
                                                      messages, FALSE, RoundTokens(FALSE)))
  /\ round' = round + 1
  /\ UNCHANGED <<inputs, stage, prompt, aborted, stages, outcome>>

MessagesOf(text) == Messages(MeterResult(text), RhymeResult(text))

\* Mutant of Accept: the record keeps the accuracies of the poem before.
AcceptOldRecord(text) ==
  EndRound(text, Verdict(text), MessagesOf(text), [meter |-> meter, rhyme |-> rhyme])

\* The poem a round produced is validated and recorded.
Accept(text) ==
  EndRound(text, Verdict(text), MessagesOf(text), Verdict(text))

\* The poem has the wrong number of lines: it is generated anew from the prompt.
RegenerateAll ==
  /\ Refining
  /\ Len(poem) # ExpectedLines
  /\ \E raw \in Responses :
       /\ Answer("generate", raw)
       /\ Accept(IF FromText(raw) = <<>> THEN poem ELSE FromText(raw))

\* It has the right number: the lines the feedback names are regenerated.
RegenerateLines ==
  /\ Refining
  /\ Len(poem) = ExpectedLines
  /\ \E raw \in Responses :
       /\ Answer("regenerate_lines", raw)
       /\ Accept(IF FromText(raw) = <<>> THEN poem
                 ELSE Merge(poem, FromText(raw), meter.feedback, rhyme.feedback))

\* The call fails: the round is recorded with the poem and the accuracies it
\* started from, and the loop ends.
RegenerationFails ==
  /\ Refining
  /\ Raise(IF Len(poem) = ExpectedLines THEN "regenerate_lines" ELSE "generate")
  /\ iterations' = Append(iterations,
                          IterationRecord(round, poem, meter, rhyme, feedback, TRUE,
                                          RoundTokens(TRUE)))
  /\ stage' = NextStage(stage)
  /\ AddStages(<<StageRecord("feedback_iter", "error"), StageRecord(stage, "ok")>>)
  /\ UNCHANGED <<inputs, prompt, poemVars, aborted, round, outcome>>

LeaveLoop ==
  /\ InLoop
  /\ ShouldStop
  /\ stage' = NextStage(stage)
  /\ AddStages(<<StageRecord(stage, "ok")>>)
  /\ UNCHANGED <<inputs, prompt, poemVars, aborted, usage, round, iterations, outcome, calls>>

-----------------------------------------------------------------------------

\* What its caller gets of a run that ends well, with the verdicts m and r.
Delivery(kind, m, r) ==
  [kind |-> kind, poem |-> poem, meter |-> m, rhyme |-> r,
   metrics |-> AllMetrics(poem, iterations)]

\* The final metrics stage runs after an abort too: it closes the trace with the
\* poem and either the error or the metrics, which validate the poem once more.
FinishEvaluation ==
  /\ stage = "return"
  /\ frontEnd = "evaluate"
  /\ stage' = "done"
  /\ outcome' = IF aborted THEN Failure("error", poem)
                ELSE Delivery("metrics", MeterResult(poem), RhymeResult(poem))
  /\ UNCHANGED <<inputs, prompt, poemVars, aborted, usage, round, iterations, stages, calls>>

\* Mutant of FinishGeneration: what aborted the run is swallowed.
FinishGenerationSwallows ==
  /\ stage = "return"
  /\ frontEnd = "generate"
  /\ stage' = "done"
  /\ outcome' = Delivery("result", meter, rhyme)
  /\ UNCHANGED <<inputs, prompt, poemVars, aborted, usage, round, iterations, stages, calls>>

\* The interactive front end re-raises what aborted the run, else packs the poem
\* and the last results; the handler asks the registry for the metrics.
FinishGeneration ==
  /\ stage = "return"
  /\ frontEnd = "generate"
  /\ stage' = "done"
  /\ outcome' = IF aborted THEN Failure("raised", <<>>)
                ELSE Delivery("result", meter, rhyme)
  /\ UNCHANGED <<inputs, prompt, poemVars, aborted, usage, round, iterations, stages, calls>>

Done == stage = "done" /\ UNCHANGED vars

Next ==
  \/ Refuse
  \/ Start
  \/ SkipStage
  \/ Retrieve
  \/ FindExamples
  \/ BuildPrompt
  \/ Generate
  \/ GenerateFails
  \/ Validate
  \/ RegenerateAll
  \/ RegenerateLines
  \/ RegenerationFails
  \/ LeaveLoop
  \/ FinishEvaluation
  \/ FinishGeneration
  \/ Done

\* The thread of the run goes on: every LLM call returns (LLMCallStack).
Spec == Init /\ [][Next]_vars /\ WF_vars(Next)

-----------------------------------------------------------------------------
(***************************************************************************)
(* Properties                                                              *)
(***************************************************************************)

\* The record of a validated poem tells its own accuracies and violations; that
\* of a failed round repeats those before it and is the last (evaluation.py:175-201).
RecordsDescribePoems ==
  \A n \in DOMAIN iterations :
    LET rec == iterations[n]
    IN  /\ rec.iteration = n - 1
        /\ rec.meter = MeterResult(rec.poem).accuracy
        /\ rec.rhyme = RhymeResult(rec.poem).accuracy
        /\ rec.feedback = MessagesOf(rec.poem)
        /\ rec.failed => n = Len(iterations) /\ n > 1 /\ rec.poem = iterations[n - 1].poem

\* The LLM is told of this poem and of this configuration: the violations it is sent
\* are those of the poem it is sent, never those of a draft that has been replaced,
\* and a prompt has only what an enabled stage found (feedback_iterator.py:57-68,
\* 92-112, evaluation.py:25-111).
CallsTellTheTruth ==
  \A n \in DOMAIN calls :
    /\ calls[n].kind = "regenerate_lines" => calls[n].feedback = MessagesOf(calls[n].poem)
    /\ calls[n].prompt.excerpts => "retrieval" \in config
    /\ calls[n].prompt.examples => "metric_examples" \in config

\* After an abort the run changes nothing but its trace: no call, no record of an
\* iteration, and the caller hears of the error.
AbortIsFinal ==
  [][/\ aborted => UNCHANGED <<aborted, poem, iterations, calls>>
     /\ outcome' # outcome => (aborted <=> outcome'.kind \in {"error", "raised"})]_vars

\* A merge that splices rewrites only flagged lines, and every line of the result
\* is one of the poem or of the response (line_index_merger.py:27-61).
UnflaggedLinesKept ==
  [][\A raw \in Responses :
       LET verse   == FromText(raw)
           flagged == Flagged(Len(poem), meter.feedback, rhyme.feedback)
       IN  /\ calls' # calls
           /\ iterations # <<>>
           /\ Last(calls').kind = "regenerate_lines"
           /\ Last(calls').response = raw
           /\ Len(verse) # Len(poem)
           /\ Len(verse) >= Cardinality(flagged)
           => /\ Len(poem') = Len(poem)
              /\ \A i \in DOMAIN poem :
                   poem'[i] = poem[i] \/ (i \in flagged /\ poem'[i] \in Range(verse))]_vars

IsValid(text) == MeterResult(text).ok /\ RhymeResult(text).ok

\* The tokens the answers of a run reported, and whether each answer reported them.
Reported(log) == SumOf([n \in DOMAIN log |-> IF log[n].usage = None THEN 0 ELSE log[n].usage])

AllReported(log) == \A n \in DOMAIN log : log[n].response # None => log[n].usage # None

\* What the caller gets tells the run: the verdicts are those of the poem delivered,
\* which is that of the last record; the improvements lead from the first verdict to
\* them; the success is positive just if the improvements are on balance, and whole
\* only for a valid poem; and the bill has the usage of every answer once
\* (poem_generation_pipeline.py:47-85, final_metrics_stage.py:36-65,
\* regeneration_success.py:27-39, iteration_metrics.py:23-55, token_usage.py:49-52).
\* An answer that reports none is billed whatever the recorder held, not zero, so the
\* bill is exact only if all reported; attempts that were rejected or failed are in no
\* bill, whatever they cost (gemini.py:201-203, feedback_iterator.py:68, against
\* evaluation.py:147, 190-195, 242).
OutcomeTellsTheRun ==
  outcome # None /\ outcome.kind \in {"metrics", "result"} =>
    LET m == outcome.metrics
        Step(field, change) == Plus(Head(iterations)[field], m[change])
        balance == Plus(m.meter_improvement, m.rhyme_improvement)
    IN  /\ outcome.meter = MeterResult(outcome.poem)
        /\ outcome.rhyme = RhymeResult(outcome.poem)
        /\ outcome.poem = Last(iterations).poem
        /\ SameFraction(m.meter_accuracy, Step("meter", "meter_improvement"))
        /\ SameFraction(m.rhyme_accuracy, Step("rhyme", "rhyme_improvement"))
        /\ m.regeneration_success[1] > 0 <=> balance[1] > 0
        /\ SameFraction(m.regeneration_success, One) => IsValid(outcome.poem)
        /\ m.total_tokens >= Reported(calls)
        /\ AllReported(calls) => m.total_tokens = Reported(calls)

\* What regeneration_success.py:14-16 says: a draft without violations has nothing
\* to repair, and its success is whole.
ValidDraftIsSuccess ==
  outcome # None /\ outcome.kind \in {"metrics", "result"} =>
    (IsValid(Head(iterations).poem) => SameFraction(outcome.metrics.regeneration_success, One))

\* The run as its callers see it: how far it is, the rounds it may take, the poem
\* after each validation or round, and what they are given in the end.
Delivered == stage = "done" /\ outcome.kind \in {"metrics", "result"}

Phase ==
  IF stage = "done" THEN IF Delivered THEN "delivered" ELSE "failed"
  ELSE IF iterations = <<>> THEN "drafting"
  ELSE IF Last(iterations).failed THEN "interrupted"
  ELSE "refining"

Rounds == IF "feedback_loop" \in config THEN maxRounds ELSE 0

History == [n \in DOMAIN iterations |-> iterations[n].poem]

DeliveredPoem == IF Delivered THEN outcome.poem ELSE None

Refinement ==
  INSTANCE PoemRefinement WITH
    Poems     <- Text \ {<<>>},
    Valid     <- IsValid,
    Nothing   <- None,
    phase     <- Phase,
    rounds    <- Rounds,
    history   <- History,
    delivered <- DeliveredPoem

\* A run implements the contract of PoemRefinement; no response blanks a poem.
KeepsContract == Refinement!Spec

\* Every run ends, whatever the LLM answers and however often.
EveryRunEnds == <>(stage = "done" /\ outcome # None)

=============================================================================
