# Formal models of the Ukrainian poetry generator

The program generates Ukrainian poems with an LLM, validates their metre and
rhyme, sends the violations back to the LLM as feedback for a bounded number of
rounds, and evaluates the effect of each part of this pipeline over an ablation
matrix, whose results it analyses and shows. It also classifies poems it is given.
These TLA+ modules model the parts of it in which order, failure, stale state, a
rule written twice or arithmetic at a boundary decide whether the result is right.
TLC checks them on small instances; TLAPS proves nearly all safety properties that
these runs check for every value of the constants.

All definitions are translated from the Python source; `PROJECT.json` ("map")
names the lines behind each of them. Sequences are numbered from 1 in the
modules and from 0 in the code. Operators that a comment calls a "Mutant of ..."
belong to no model: each is a plausible bug of the definition it stands before,
and a run that is given it in the definition's place finds the property listed
with it ("mutants") violated.

## 1. The system

| Component | State it keeps | Operations | Correct when |
|---|---|---|---|
| **LLM reliability stack** (`infrastructure/llm`, `tracing/llm_call_recorder.py`) | per call: the attempt number, a thread and a result dictionary per attempt; per process: one trace recorder | `generate`, `regenerate_lines` through retry, timeout, sanitizing, extracting, Gemini; `snapshot` | a call returns, in bounded attempts, the text of the attempt it waited for; the trace tells of that call |
| **Generation pipeline and feedback loop** (`infrastructure/pipeline`, `stages`, `regeneration`) | `PipelineState`: poem, last verdicts, feedback, aborted; the tracer's records | seven stages, each run, skipped or failing; rounds of the feedback iterator | poem, verdicts, feedback, records and metrics are about one and the same poem; an ablation changes only what it says |
| **Line merge and poem text** (`line_index_merger.py`, `aggregates.py`) | none | `merge`, `from_text` | lines nobody complained about survive a merge |
| **Metrics** (`infrastructure/metrics`) | none | calculators over a run's poem and records | numbers handed out agree with each other and with the run |
| **Batch evaluation with resume** (`batch_evaluation_service.py`, its runner, `csv_batch_results_writer.py`) | `runs.csv`; kept rows and cells to skip of an invocation | start, resume, run a cell, write a row, die | one whole row per cell whatever the history of kills; results are kept, failures retried |
| **Ablation analysis and report** (`scripts/analyze_contributions.py`, `scripts/aggregate_runs.py`, `handlers/shared/ablation_report.py`) | the tables, plots and report of a batch directory | analyse, summarise, build the page | the page is not put together from the wrong files; both programs judge a row alike |
| **Evaluation data** (`domain/evaluation.py`, scenarios) | none | configurations A to H, scenarios N01 to C08 | a difference of two configurations is what the report says it is |
| **Metre validation** (`validators/meter`, `meter`, `stress`) | none | stress pattern of a line, comparison with a metre, two interchangeable validators | what is tolerated is tolerated and nothing else |
| **Rhyme validation** (`validators/rhyme`, `phonetics`, `string_distance.py`) | none | pairs of a scheme, candidates, phonetic similarity | a verdict does not depend on which line comes first |
| **Detection** (`detection_service.py`, `infrastructure/detection`, `detect_orchestrator.py`) | locals of one request | brute-force search over metres and schemes, split into stanzas, fallbacks per stanza | no line is lost, ties are decided for the stricter reading, each stanza gets a metre and scheme that fit it |
| **Container** (`composition_root.py`, `infrastructure/composition`) | a cache of adapters per container | `_get` of a key, recursively through factories | an adapter exists once, and after all it is made of |
| **Stress dictionary** (`stress/ukrainian.py`) | one backend per process, behind a lock | look up, load once, remember a failure | loaded once, the same for all |
| **Embeddings and retrieval** (`embeddings`, `retrieval`) | a model loaded lazily, a sticky fallback | encode, rank excerpts, score relevance | vectors of one space are compared |
| **Repositories, corpus runners** (`repositories`, `runners/build_*`) | the corpus file | read; write from another process | a torn file does not end a request |
| **Configuration and front ends** (`config.py`, `llm/factory.py`, `handlers/api`, `handlers/web`) | the configuration, the provider and what is shown of it | startup; four operations as JSON endpoint and as form | both twins accept the same requests; the provider shown is the one that writes |
| Sanitizer and extractor; prompts, feedback texts, Markdown reports, serialization; logging, clock | none | | not modelled, see 7 |

How they interact. A request thread (HTTP or web handler) or the single thread
of a batch calls the pipeline; the pipeline calls the LLM stack in
`initial_generation` and in each feedback round, the validators after every
text, and the calculators at the end; the stack starts a daemon thread for every
attempt. The threads of all requests share one container: the recorder that every
layer of the stack writes and the stages read, the embedder with its fallback, and
the stress backend, which all containers of the process share. The batch calls the
evaluation service once per cell and streams the row to disk; the analysis script
reads that file and writes others, which the web page reads at any time. The
corpus runners rewrite a file that requests read. Detection calls the two
validators, hundreds of times per poem, and nothing else.

What is hard here:

- *threads*: Python cannot stop the thread of an attempt that missed its
  deadline. It keeps running, answers later, and writes the shared recorder while
  its caller is in another attempt, in another call, or gone. The container and
  the embedder are shared without a lock;
- *processes that share files*: page and analysis, resumed batch and analysis,
  requests and corpus runners take turns at files that are emptied before they
  are filled, and any of the writers may be killed;
- *failure half-way*: a round can fail after the poem was replaced, a stage after
  an earlier one filled in part of the state, a write in the middle of a row;
- *stale state*: verdicts and feedback are carried in locals across LLM calls, a
  scheme found for the poem is handed to stanzas it was not found on, the embedder
  falls back in the middle of a comparison;
- *rules written twice*: two metre validators, two front ends, two readings of the
  provider, three programs that each drop failed runs and judge effects;
- *boundaries*: rounds, attempts, numbers of lines, mismatches allowed, thresholds,
  bounds of requests, ties among candidates of equal accuracy.

`PROJECT.json` lists each such place as a hazard, at its line, with the
properties that would notice it going wrong.

## 2. Modules

| Module | Models | Used by |
|---|---|---|
| `LLMCallStack` | the stack of decorators, the threads, the recorder | `MCLLMCallStack`, `LLMCallStackProofs` |
| `RhymeScheme` | the pairs of lines a scheme demands | `PoemText`, `Detectors` |
| `PoemText` | verse of a text, verdicts, the merge | `RunMetrics` |
| `RunMetrics` | the calculators, as fractions over poem and records | `GenerationPipeline` |
| `EvaluationData` | configurations and scenarios | `GenerationPipeline`, `AblationStudy`, `FrontEnds` |
| `GenerationPipeline` | one run of the pipeline with both front ends | `MCGenerationPipeline`, `GenerationPipelineProofs` |
| `PoemRefinement` | the abstract contract of a run | `GenerationPipeline` (refinement mapping) |
| `BatchResume` | the batch process and its file over several invocations | `MCBatchResume`, `BatchResumeProofs` |
| `AblationStudy` | paired comparisons, tables, cost, Markdown summary | `AblationReport` |
| `AblationReport` | verdicts, headline and commentaries of the page | `ReportPage` |
| `ReportPage` | script, page and resumed batch over one directory | `MCReportPage`, `ReportPageProofs` |
| `MeterValidation` | stress, patterns, tolerance, both metre validators | `ProsodyCases`, `MCDetection` |
| `RhymeAnalysis` | rhyme parts, edit distance, the verdict on two words | `ProsodyCases`, `MCDetection` |
| `Detectors` | both detectors, the best guess, the detection service | `ProsodyCases`, `Detection` |
| `ProsodyCases` | all lines of a vocabulary and all pairs of another, to ask questions of the three above | `MCProsodyCases`, `DetectionProofs` |
| `Detection` | `detect_poem` | `MCDetection`, `DetectionProofs` |
| `Wiring` | the graph of adapters and factories, what each program asks for | `Container` |
| `Container` | `Container._get` and the stress backend, by threads | `Resources` |
| `Resources` | a process at work: containers, embedder, corpus file, requests | `MCResources`, `ResourcesProofs` |
| `FrontEnds` | environment, configuration, startup, eight handlers | `MCFrontEnds`, `FrontEndsProofs` |
| `Loops` | filter, sums and the first best one: loops that several components run | `BatchResume`, `RunMetrics`, `AblationStudy`, `Detectors`, `RhymeAnalysis` |
| `*Proofs` | inductive invariants and theorems about the module they are named for | |
| `SequenceFacts` | lemmas about `Loops` and about lists, for any length | `BatchResumeProofs`, `GenerationPipelineProofs`, `ReportPageProofs`, `DetectionProofs` |
| `MC*` | the instance TLC checks | the `.cfg` files |

### LLMCallStack

A caller `c` is a thread that calls the stack. `pc[c]` is where it is:
`idle`, `joining` (in `thread.join(timeout)`), `backoff` (in the retry loop's
sleep), `answered` (the call has returned, the stage has not read the recorder
yet) or `failed`. An attempt is a triple of caller, call and attempt number;
`thread[t]` is the state of its daemon thread, whose steps are the layers it
passes on its way out: the response and its usage, `record_raw`,
`record_extracted`, `record_sanitized`. `result[t]` is the dictionary the thread
leaves a value or an exception in. `recorder` is the one `InMemoryLLMCallRecorder`
and `trace[c]` what the stage copies out of it. `abandoned` is a history
variable: attempts whose deadline has passed.

A text is the identity of the attempt it comes from, which is what the properties
are about; of its content only "is anything left after sanitization" matters.
Nothing in the model orders the steps of a daemon thread and of any caller, so a
thread of one call may finish in the middle of the next. Backoff has no length
and the logging decorator no state.

`NoAttempt` also stands for the empty string and zero tokens of a fresh snapshot.

### PoemText, RunMetrics, GenerationPipeline, PoemRefinement

A line is a model value; which lines scan and which pairs rhyme are constants,
and a verdict is what the loop uses of it: passed or not, the accuracy as a
fraction, the places of the violations. `Merge` is `LineIndexMerger.merge` with
its three early returns and the splice. `RunMetrics` computes with fractions, so
nothing is rounded.

`GenerationPipeline` has one action per stage, outcome and front end: a run is
sequential and owns its state, so a stage is atomic, and a call of the LLM either
returns any of the texts in `Responses` or raises. `stage` is the stage that runs
next, the variables `poem`, `meter`, `rhyme`, `feedback` and `aborted` are the
fields of `PipelineState`, `iterations` and `stages` the records of the tracer,
`calls` the calls made, with what the prompt held, the answer and the usage it reported.
`usage` is the token counts of the recorder, which outlive the run: an answer that
reports its usage (one of `Usages`) overwrites them, and one that does not (`OmitsUsage`
says which call's may not), like a call that raises, leaves them as they were or as a
rejected attempt of the same call has set them. The recorder is that of a run that is
alone, as `LoneCallIsTraced` has it; with others at work see `llm_trace_mixed`.
`Init` chooses the front end, one of the eight ablation configurations (or the
fixed configuration of interactive generation), the number of rounds and whether
the scenario is supported. A round of the feedback loop is one action: the call,
the parse, the merge or the new poem, the validation and the record, or the
failure that ends the loop.

`PoemRefinement` states what a caller may rely on: a draft is improved in at most
the allowed rounds and only while it is invalid, an interrupted round leaves the
poem alone and is the last, and what is delivered is the last poem of the
recorded history. `Refinement` maps a run to it: the history is the poems of the
iteration records, the phase is read off the outcome and the last record. It is a
safety contract; that a run ends is `EveryRunEnds`.

### BatchResume

`file` is `runs.csv`, a row is its cell, the execution that made it, its error
flag and what a crash left of it. `Invoke` starts a process, afresh or to resume;
`OpenFile` truncates; `WritePreserved`, `SkipCell`, `RunCell` and `WriteRow` are
the streaming loop. `Crash` may come at any point, and may cut the row a write is
working on before the seed column, at it, or after it: these are the three ways
`read_existing_runs` tells a short row apart (`TypeError`, which nobody catches,
`ValueError`, which drops the row, and a row that parses). An evaluation is one
step that yields a result or an error row, as `EveryRunEnds` and
`OutcomeTellsTheRun` of the pipeline allow.

### EvaluationData, AblationStudy, AblationReport, ReportPage

A `runs.csv` is a function from cells to rows, which `OneRowPerCell` of the batch
justifies. A value is an integer number of a small unit, and a mean is kept as a
sum and a count, so that comparisons of means are exact. `AblationStudy` has the
paired comparisons and interactions, the tables (overall and by category), the
cost summary and the second script's Markdown summary. The bootstrap interval of at
most three pairs is exact: it reaches from the least to the greatest difference.
The p-value of the Wilcoxon test decides nothing and is left out. `AblationReport`
recomputes, as the page does, verdicts, headline and the commentary on each plot.

`ReportPage` puts the two programs side by side. The script reads `runs.csv` once
and writes contributions, categories, plots and last the report; each file is
emptied in one step and filled in another; it may be killed anywhere, and started
again over the files of the run before. The page reads report, contributions,
categories and runs, one step each. A batch may be resumed at any time and replace
failed rows. A file is known by the analysis that wrote it and the revision of
`runs.csv` it was computed from.

### MeterValidation, RhymeAnalysis, RhymeScheme, Detectors, ProsodyCases, Detection

A word is a record of what prosody knows of it: its vowels, the vowel the
dictionary names (or none), the class of its ending, whether it is a function
word, and its transcription. `MeterValidation` builds the pattern of a line as
`prosody.py` does, with the guess for unknown words and the clamp, and decides
with `PatternMeterValidator` and `BSPMeterValidator`; the score of the BSP
pyramids is a real number and is a parameter here. `RhymeAnalysis` is the pair
analyzer with its candidates of stress, the gate on stressed syllables, the edit
distance (a table, row by row), precision and clausula; similarities are
fractions and thresholds are compared by cross-multiplication. Two pairs of
candidates may be equally close; the code keeps the first, which depends on the
order of the words, so their precision may differ although the verdict does not
(`RhymeIsSymmetric` says just this; the words "toa" and "totaa", stressed by
the dictionary on the second and the first vowel, are such a pair and in the run). `Detectors` takes the two
validators as operator constants and folds over the candidates in the order of
the code. `Detection` is `detect_poem`, a state machine of a request; its
instance uses `MeterValidation` and `RhymeAnalysis` as the validators (the pairs of
lines that rhyme are written out there, and an assumption checks that they are
those `LinesRhyme` finds), and `ProsodyCases` gives the metre detector the same one.

### Wiring, Container, Resources

`Wiring` lists, for each key of each sub-container, the keys its factory asks for,
in the order of the code, and what each program asks its containers for.
`Container` runs `_get` by any number of threads without a lock: `GetCached`,
`CallFactory` (which pushes the factory and what it needs) and `Store`. The stress
dictionary's factory goes through the double-checked lock of `_get_stressifier`:
`LookUpBackend`, `AcquireLock`, `LookAgain`, `LoadBackend`. The cache is the order
of the stores, so that building twice, or before what is needed, is visible.

`Resources` lets a process run: programs fill their containers, and once the
application has all it asks for before it serves, workers take requests. A request
retrieves excerpts (from the demo list or from the corpus file, by what was there
when the repository was made) and scores relevance; both compare one text with
others, one vector a step, each encoded by the model, loaded without a lock, or by
the fallback, which stays in use for all requests from the first failure on. A
vector is known by the space it is of. The two corpus runners are processes that
empty and fill the file, and may be killed in between.

### FrontEnds

The application reads its environment into a configuration, checks it, shows one
reading of the provider (`llm_info`) and builds another (`LLMProviderFactory`), and
serves `generate`, `validate`, `detect` and `evaluate`, each as JSON endpoint and as form.
A handler shares nothing with another but what startup set, so it is one step. A
request is submitted to both twins; `answers` are status and kind of body, `calls`
the command each made for its service and the provider behind it. What FastAPI and
the browser do with fields that are empty or absent is modelled from how the
handlers use them (`FormFields`).

## 3. Runs

| Run | Question | Instance and why it is enough |
|---|---|---|
| `llm` | Does a call return, with the right text, in the right number of attempts, truly traced while it is alone? | One caller, two calls of two attempts, a provider that may outlive the deadline or never answer and may omit usage in the first call. Two calls let a thread of the first one finish in the second, and a layer survive from one to the next; two attempts are the least with a retry and a last one. Callers share only the recorder, which control never reads, so a second caller adds nothing to control; for the same reason the VIEW keeps recorder and traces only while nothing has been abandoned, which is when a property asks for them. |
| `llm_trace_mixed` | Is a trace true with two request threads? (violated) | Two callers, one call and one attempt each. |
| `pipeline` | Do poem, verdicts, feedback, records and metrics stay together in every configuration? | Four lines AABB, up to two rounds, every configuration and both front ends, fourteen responses: valid, wrong in metre, in rhyme, in both, too long, too short for a merge, just enough for one, copies only, fragments only; the answer of the second call may report no usage, so that one round may be billed stale counts and the others their own. Two rounds are the least in which a round starts from a merged poem. |
| `regeneration_success` | Is the success of a valid draft whole, as documented? (violated) | the same |
| `batch` | Does the file survive kills, narrowed matrices, fresh starts and resumes? | Three cells, the full matrix and one without the middle cell, three invocations, kills anywhere, torn rows. Three invocations are the least in which a resumed batch is killed and resumed again. |
| `batch_torn_row` | Is a corrupt last line dropped and its cell run again, as documented? (violated) | Two cells, resumes only. |
| `report` | Can a page show a report its tables do not bear out, and do the programs judge alike? | Two starts of the analysis, which may be killed anywhere, one resume of the batch, pages at any time; batches over one or two scenarios made of every combination of an effect of feedback, of retrieval, of both together, with and without a failed run. Two starts are the least with files left from an earlier one. |
| `report_category` | Does the component named as most helpful help? (violated) | the same |
| `resources` | Is anything built twice or before its parts, the stress model loaded twice, and when are two spaces compared? | The application or one of three scripts starts while another thread, whose container was given a provider, asks for a little; two workers with a request each, of two comparisons each; one write of the corpus. Two workers are the least in which one request's failure switches the embedder under another's. |
| `front_ends` | Do the twins answer alike, and is the provider shown the one that writes? | Every combination of provider and key, every number of the configuration at and beyond its bounds; requests that differ from the ordinary one in up to two fields, each at, inside and beyond its bounds, empty or absent. A check of a handler reads one field or two. |
| `prosody` | Do the validators agree, forgive what they should, is a metre told from the others, and is the rhyme of two words well defined? | Every line of up to four words of ten: one to three syllables, stress anywhere, unknown, miscounted, light and vowelless words; one to six feet, as the detector tries. Every pair of 33 words of up to five letters, two vowels and two consonants, with every stress: enough for both orders of length in the edit distance, for candidates that differ, and for pairs of every precision. |
| `detection` | Is every line shown, and is what a stanza gets justified? | All texts of up to four lines over two kinds of lines, one without a word, and blank ones; poems of two and three quatrains with blank lines between, before, inside and after them; all four choices of aspects. |

### What each property says beyond a unit test

- `TypeOK` is the type invariant of the call stack; those of the other proved modules
  are conjuncts of their inductive invariants. `FreshAnswer`, `SingleLiveAttempt`,
  `QuotaIsFinal`, `FailsOnlyWhenSpent`, `EveryCallReturns`: the control of a call
  with threads that cannot be stopped. `LoneCallIsTraced`: when the recorder tells the
  truth, over failed attempts and consecutive calls. Each of its conditions is needed:
  `llm_trace_mixed` violates it with a second caller, and an abandoned thread or a
  response without usage would.
- `RecordsDescribePoems`, `OutcomeTellsTheRun`, `CallsTellTheTruth`: pieces of
  state written at different times about the same poem, and the metrics computed
  from them. `UnflaggedLinesKept` is about two successive poems and the response
  between them, `AbortIsFinal` about stages that must not have happened,
  `KeepsContract` about all of it, with the number of rounds, as a refinement.
  The bill in `OutcomeTellsTheRun` has all that the run's answers reported, and is exactly
  that if each of them reported its usage. It promises no more, because the code does not
  keep more: see 5.
- `OneRowPerCell`, `FinishedIsComplete`, `ResultsSurviveResume`,
  `FailuresAreRetried`, `SuccessNotRerun`, `InvocationEnds`: the file across
  invocations.
- `PageIsNeverAheadOfItsData`: two programs, one writing in the opposite order of
  the other's reading, with kills. `EffectsAddUp`: ten comparisons, four sums between
  them that a swapped or mistaken arm breaks. `RowsMeasureWhatTheyName`: the
  comparisons against the configurations they compare. `VerdictsAgree`,
  `ViewsCountTheSameRuns`: rules written in two programs, over the same rows.
- `OneInstanceEach`: a cache without a lock is safe only because of who fills it
  when. `OneStressBackend`: the double check. `ComparedInOneSpace`: the two cases, and
  only those, in which a ranking mixes vector spaces.
- `TwinsAnswerAlike`: two sets of bounds, defaults and refusals. `ShownProviderServes`:
  two readings of one configuration.
- `OneWrongStressIsForgiven`: the limit on mismatches is what one wrong look-up
  costs. `ValidatorsAgree`: a rule that is written twice. `DetectsOwnMeter`: no
  metre is silently read as another one. `DistanceIsFewestEdits`: the table against a
  definition without recursion. `RhymeIsSymmetric`: the search over candidates is
  complete. `OneStressForMeterAndRhyme`: three clamps of the same stress in three files.
- `EveryLineShownOnce`, `StanzaSchemeIsJustified`, `MonorhymeIffSchemesAgree`,
  `ScanningStanzaGetsMeter`: the split and the fallbacks of detection.

### Fairness

- `LLMCallStack`: weak fairness, for each caller, of the step that ends its join
  or its pause: the interpreter schedules a request thread that can go on and the
  timeout of a join is kept. There is none for daemon threads (the service may
  never answer) nor for the stage that would make the next call.
- `GenerationPipeline`: weak fairness of the run; its only waits are LLM calls,
  which return by `EveryCallReturns`.
- `BatchResume`: weak fairness of the process that runs; none of crashes and none
  of starting another. The weak fairness of `Steps` is enough because a crash ends
  the invocation as well.
- The others are checked for safety only.

Deadlock is checked wherever something might wait for ever: `Quiescent`, `Done`,
`Over`, `AtRest` and `Ended` are the only states in which a system may stop, and
`ReportPage` never does. `ProsodyCases` and `Detection` run without that check: lines
stop growing at the bound and a request is over when it is answered.

## 4. Proofs

Seven of the eight proof modules are about a component: each states an inductive
invariant, shows it of the initial states and of every step (one lemma per action or
group of actions), and derives the properties of the runs from it. The eighth,
`SequenceFacts`, has what they need to know of loops. TLC was asked first about every
conjunct it can evaluate (all but the few that speak of sets of sequences).

**`SequenceFacts`**: the loops of the code (filter, sum, first best) are recursive
functions of how far they have come. The induction theorems of the library take an
operator as a parameter and cannot be used, so `Reached` is induction as a statement
about a set: numbers up to a bound that contain 0 and with each the next are all of
them, by the least one missing (`LeastNat`, from the well-foundedness of the naturals).
`Recursion` shows that a recursive function exists, from a set of rules for its next
value; the lemmas about `Filter`, `SumOf`, `SumOver`, `FirstBest` and `FlattenSeq` rest
on these two. A sum over a set does not depend on the order (`SumOver` adds whichever
member it chooses next), is linear, and of numbers of one sign is zero only if all are.

**`LLMCallStackProofs`**: any callers, calls and attempts, both values of
`SlowProvider`, any `OmitsUsage`. The only assumption is `StackAssumption`: at least one attempt (the
constructor of the retry policy insists), well-typed switches, and a `NoAttempt` that
is no attempt. `Invariance` is `Spec => []Inv`; `TypeCorrect`, `AnswersAreFresh`, `OneLiveAttempt`,
`FailuresAreEarned` and `QuotaStopsRetries` follow.
The safety properties are not inductive by themselves. That an answer is fresh
needs to know what a dictionary can contain (`ResultInv`: a thread that has ended
left its own identity or an error, one that has not left nothing), that the thread
a caller joins exists (`CallerInv`), that threads of attempts still to come have
not been born (`UnbornInv`: otherwise a new attempt could meet an old result), and
that abandoned attempts are attempts of the past or the present (`AbandonedInv`).
`QuotaIsFinal` needs `HistoryInv`: an attempt that has a successor in its call was
abandoned or ended with an error other than the quota. A step of a daemon thread
changes only its own thread, its dictionary and the recorder (`ThreadStepEffect`), and
that alone preserves `Inv` (`ThreadStepInv`); starting an attempt is one lemma
(`StartInv`), the end of a join another (`MoveInv`).
`LoneCallsAreTraced` adds `RecorderInv` for a caller that is alone: by
`SingleLiveAttempt` the only running thread is the one it joins (`OneThread`), so what
the recorder holds is decided by how far that thread is (`UnderWay`), and stays until
the stage has read it (`AnswerInv`).

**`GenerationPipelineProofs`**: any lines, scheme, validators, responses and number of
rounds, under `TextAssumption` and `PipelineAssumption`. `RunInv` says at each stage
what holds of poem, verdicts and records: nothing is recorded before validation
(`BeforeInv`), a draft that was made is verse (`DraftInv`), an aborted run has no
records (`AbortedInv`), verdicts are those of the poem (`JudgedInv`), in the loop the
last record is of the poem and rounds are counted by records (`LoopInv`, `RecordsInv`), and
what was delivered is what they hold (`SettledInv`). From it: `RecordsAreTrue`,
`AbortEndsTheRun`, `LLMIsToldTheTruth` (with `CallsInv` on the log of calls), and
`LinesKept`, which rests on lemmas about `Merge` and `Splice` for poems of any length and
on `SomethingIsFlagged`: an invalid poem has a flagged line.
`ContractKept` is the refinement, `Spec => Refinement!Spec`: `Validate` is `Draft`,
`RegenerateAll` and `RegenerateLines` are `Improve`, `RegenerationFails` is `Interrupt`, the two
front ends' finish is `Deliver` or `Fail`, `Refuse` is `Fail`, and all other steps
leave phase, history and what is delivered alone.
`OutcomeTold` compares what the caller gets with the run: `PaidInv` says that, until a run
is aborted, what its answers reported is in the recorder (until the first verdict) or in its
records (from then on), and nothing else is if each of them reported; `BillGrows` adds a call,
whatever is billed for it when it reported nothing. `NeededInv` says that every poem
but the last was one to improve, and the sums over records and calls are those of
`SequenceFacts`, one more at a time.

**`BatchResumeProofs`**: any cells, matrices, cuts and invocations, under
`BatchAssumption`. `BatchInv` has what is needed between two rows: a row is of an
execution its cell has had (`EarnedInv`), what was kept are whole successes, one of a
cell, and all that were found (`KeptInv`), the file is a beginning of what was kept or
has rows of this invocation after it (`FileInv`), and every cell asked for is to be done,
kept, in the file or waiting to be written (`ProgressInv`). `KeptOfFile` says what
`read_existing_runs` makes of a file. From it: `OneRowEach`, `EndIsComplete`,
`ResultsSurvive`, `FailuresRetried`, `SuccessesStand`.

**`ResourcesProofs`**: any threads, programs, corpora, requests and rewrites, under
`ContainerAssumption` and `ResourcesAssumption`. `StressInv`: whoever is between the second look and
the store holds the lock, and what is being loaded is absent; hence
`OneBackendForAll`. `SpaceInv` gives each vector of a comparison a reason: a model's
vector was stored, or the comparison began before the switch; a stand-in vector came
after it, or the container is offline; hence
`SpacesExplained`. `ContainerInv` is about the caches, which have no lock: what a
container has stored is stored in the order of the graph (`BuiltInOrder`), the factories
a thread is running are nested along it (`Nested`), and a request asks
only for what was made before it came (`OnlyAsks`). That nesting ends needs a
measure: `Depth` ranks the nearly sixty keys of `Wiring` so that each needs only keys of
lesser rank (`NeedsLieDeeper`), by which the graph has no cycle; hence `OneInstance`.

**`FrontEndsProofs`**: any environments and requests, under `FrontEndsAssumption`.
`ShownInv`: both readings come from one legal configuration, and a writer was ready;
hence `ShownProviderWrites`. `TwinInv` ties each twin's answer and call to its own
schema or form; lemmas per operation (`GenerationAlike`, `ValidationAlike`,
`DetectionAlike`, `EvaluationAlike`) show that schema and form accept the same fields and
make the same command unless the request is one-sided; hence `TwinsAgree`.

**`ReportPageProofs`**: any batches, any number of analyses, kills and resumes, under
`ReportAssumption`. `Inv` says that files before the script's place are of the
running analysis (`ScriptInv`), that no table on disk is behind the report
(`DiskInv`), that a page has read from a disk that has only moved on since (`PageInv`), and that
revisions are ones that existed (`KnownInv`); hence `PageIsBehind`.
The other four theorems are about the numbers: `DataInv` says that
every revision of the runs has rows for the same, finitely many cells, under
`BatchAssumption` (what a row of `runs.csv` is, and that its cells are cells of the matrix of
the registry), and the rest holds of any batch. `RowsMeasure` compares the
table of comparisons with the stages of the configurations. `EffectsSum` is linearity of
the sums of differences, where all rows are complete. `JudgedAlike`: an effect that is
significant has an interval on one side of zero, hence a sum that is not zero, hence a
verdict, the same from both programs; what the headline names improves, and the strongest
effect it could name exists because products taken crosswise order
fractions strictly, its row being found again by its name. The interval is that of the
model: least to greatest difference, which is the script's for at most three pairs.
`ViewsCountAlike`: `RunsInv` says that a resume adds successes and takes none away
(`ResumeBatch` rewrites the failed rows) and that a page which is shown has read one of those
revisions (`ShownPossible`). The two counts of a table agree because every cell belongs to one scenario
of the catalogue, in which the scenarios of the three categories do not overlap. The quartiles of the
exclusive method are interpolations between values picked by rank, and values by rank
ascend (`QuartilesAscend`, `BoxInOrder`). The attempt made the model more
exact: it had sorted values with an operator of the library that leaves open how equal
elements are placed, and now says what the value of a rank is (`Ascending`).

**`DetectionProofs`**: any poem, validators and thresholds, under `TextAssumption`,
`DetectionAssumption` and `NoneAssumption`. `DetectInv` says that the lines left and
shown are those of the poem and that a shown stanza is the result for some lines; what
splitting at blank lines and into quatrains does to the lines is shown by induction over
them (`CollectGathers`, `ChunksHaveTheLines`); hence `LinesShownOnce`, `SchemesJustified` and
`ScanningGetsMeter`. `MonorhymeFound`: the pairs AAAA demands are the disjoint union of
those the other three schemes demand, in equal numbers, so that its accuracy is their
mean (`Shares`, `ScaleCompares`), and the first best of the candidates is AAAA only if
none is above the mean.
On any vocabulary (`VocabularyAssumption`, `MismatchAssumption`): `ValidatorsAlike`;
`WrongStressForgiven`, where a word with another stress changes the pattern of its own
span only and in two places at most (`LineRestressed`), under the hypothesis that two
mismatches are allowed, as they are in the code; `OneStressHeard`, by counting vowels
from the end of a word (`OneHasSoManyBelow`, `VowelsFrom`).
On any two words, of any letters: `FewestEditsFound` describes the table cell by cell (`RowIs`,
`TableIs`) and shows, by induction over rows and columns, that a cell holds the least cost of
an alignment of the two prefixes it stands for (`TableHasFewest`; `FewestStep` takes apart an
alignment of longer prefixes). `OrderOfLinesIrrelevant`: the tables of two words and of the
words exchanged mirror each other (`TablesMirrored`), so ending, score and precision of a pair of candidates
do too; fractions compared crosswise are a strict order (`CloserOrders`), and what the
analyzer keeps is the first of the closest pairs (`AnalyzeIs`), hence as close in either order. An attempt
to have the two orders agree in precision as well showed that they need not (see 2).
`OwnMeterDetected`, for any numbers of feet (`FeetAssumption`: finitely many, none of them zero): the reading in
the line's own metre passes in every line without an error, so the first best of the
readings passes without one, too, and as no word is tolerated (`NothingTolerated`) the line scans exactly in the winner's
metre as well. A line that scans exactly has the very stresses of the metre (`ExactBeats`), and the
first two of them with the last tell foot, place of the stress and number of feet
(`BeatsTell`) as soon as there are two.

Checked by TLC only: `EveryRunEnds`, `EveryCallReturns` and `InvocationEnds`, liveness under
fairness, which the prover does not reach. Every invariant and action property that a passing run
checks is a theorem.

## 5. Where code and documentation differ

Each is shown by a run that is expected to find a violation ("findings").

1. **A trace can be another request's.** One recorder serves all threads; between
   the return of a call and the snapshot another request overwrites it, while
   `domain/evaluation.py:185` promises the texts of the iteration's call.
2. **A torn row** may stop the resume or be taken for a success;
   `csv_batch_results_writer.py:68-71` says it is dropped and run again.
3. **The most helpful component of a category** may be the one that adds most
   iterations: `ablation_report.py:1171` takes the greatest positive mean, whatever the metric.
4. **A valid draft has a regeneration success of 0**, where
   `regeneration_success.py:14-16` and the documentation say 1.0: with one record
   `calculate` returns before it looks at the violations.

Met while modelling and left without a run of their own:

- *pipeline*: a response with fewer lines than are flagged becomes the poem
  (`line_index_merger.py:46`), while `docs/en/feedback_loop.md:185` says the number of
  lines cannot decrease; the check for a thin draft counts fragments as lines, so not
  every draft it is meant for is generated anew (`generation_stage.py:37-39`);
- *the bill of a run*: a response without usage metadata leaves the token counts of the
  call before in the recorder (`gemini.py:201-203`; the feedback loop resets its own snapshot
  only, `feedback_iterator.py:68`), and the iteration is billed with these, where
  `evaluation.py:190-195` promises the usage reported for the iteration's call, 0 if it is not
  available. Attempts that were paid for but retried, rejected, abandoned or followed by an
  error are billed to no iteration, while `evaluation.py:147, 242` speak of totals across
  every LLM call of the run. That is why the bill is compared with
  what the answers of the run reported, and for equality only when all of them did;
- *batch*: a kill while a batch resumes, after the file was truncated, loses results
  that were on disk, while `csv_batch_results_writer.py:3-6` says the bill is not paid
  twice; that is why `ResultsSurviveResume` speaks of invocations that finish;
- *report*: the headline's winner among comparisons with feedback may be the interaction
  without feedback, which is not one of the "pure" components
  (`ablation_report.py:679-681, 718-727`); the plot glossary says that A to E have
  feedback, A has none (`ablation_report.py:273`); quartiles of few values lie beyond them; a batch
  with nothing to compare ends the analysis in a `KeyError` after its tables are
  written; an analysis killed over the files of an earlier one leaves a torn table
  under a whole report, which the page shows as empty; the service's aggregator
  averages the zeros of failed runs, which every view of the report drops;
- *resources*: rankings may mix vector spaces in the two cases `ComparedInOneSpace`
  names, while `docs/en/system_overview.md:985` speaks of metrological consistency; a runner
  killed between emptying and filling the corpus leaves a file that ends its next run
  in an uncaught `JSONDecodeError` (`build_embeddings_runner.py:87`);
- *front ends*: an unknown configuration label is silently taken for the last
  configuration, H; `LLM_PROVIDER=gemini` without a key may fail at startup, before
  the error prepared for it can be shown; a word left empty is the default in a form
  and an error in JSON; boxes of detection that are left out are read as checked by
  JSON and as unchecked by the form; the page for an unknown scenario is rendered
  without the provider's state;
- *detection and prosody*: detection of the rhyme alone finds the scheme of the poem and shows its stanzas
  without it, while `docs/en/detection_algorithm.md:261-266` describes each stanza as
  validated and shown with it; a poem of fewer than four lines takes its metre from
  `_best_guess_meter`, which has no threshold; lines of a single foot are ambiguous (an
  amphibrach or a dactyl also reads as a truncated or extended line of two syllables
  per foot with no error), so `DetectsOwnMeter` speaks of two feet and more, and of
  lines without words of one syllable, which the tolerance makes ambiguous; a blank
  line at the very start or end of a poem keeps it from being cut into quatrains; a
  pair may be classified as consonance and yet be below the threshold, as the pair
  град / звід of the comment at `pair_analyzer.py:104-105` is (similarity one half); the
  metre found for a poem is given to all its stanzas, the scheme only to those it fits.

## 6. Bounds and omissions

Bounds of the models: `MaxCalls`, `MaxRounds`, `MaxInvocations`, `MaxWords`, `MaxAnalyses`,
`MaxResumes`, `MaxRequests`, `MaxWrites`, and the sets `Responses`, `Usages`, `OmitsUsage`, `Matrices`,
`Vocabulary`, `Poems`, `Batches`, `Values`, `Corpora`, `Environments` and `Requests`.
`MaxAttempts`, `ExpectedLines`, `AllowedMismatches`, the percentages and
the feet are parameters of the program. The confidence interval is exact for up to three
pairs; an assumption of `MCReportPage` checks that its batches have no more.

Left out on purpose: logging, wording, prompts, layouts, drawing; pauses (backoff, the
delay between cells) have no effect on state; errors that need an unknown metre or
scheme inside the validators, which the constructors of the requests refuse; tokenizing and
transcribing text; the numbers in vectors; prices; columns of a row that no view compares.

## 7. Not modelled

- *Sanitizer and extractor*: regular expressions over characters. `LLMCallStack` has
  their outcomes (a text, an empty text) and the order in which they run and record;
  `PoemText` has what the later parse keeps of a text.
- *Prompts, feedback texts, Markdown reports, serialization*: wording and layout. A
  feedback is the violations it was formatted for.
- *Logging and clock*: output, and pauses.
- *Partly modelled*: the aggregator of the evaluation service, whose averages repeat
  those of the Markdown summary; pages that only show a catalogue, and the shape of
  responses; prices, paths and thresholds of the configuration; the scores of the BSP
  pyramids, which are real numbers; downloading and parsing of poems by the corpus
  runners; the metric examples, a file nothing writes while the program runs.

What is left to do: the sanitizer's rules on lines that are classified beforehand, and
theorems about the operators that no listed property reaches (the metrics of a run, the ranking
of retrieved poems).
