----------------------------- MODULE ReportPage -----------------------------
(***************************************************************************)
(* A batch directory between two programs: the analysis script, which      *)
(* writes its tables, its plots and last its report, and the web page or   *)
(* API endpoint, which reads report, tables and runs one after the other   *)
(* while the script may be running again.  In between a resumed batch may  *)
(* change runs.csv (BatchResume).                                          *)
(*                                                                         *)
(* A file is opened, which empties it, and filled in a second step.  A     *)
(* table read in between is taken to have no rows.  An HTTP request reads  *)
(* in a thread of its own; pages share nothing but the files, so one page  *)
(* at a time is enough.                                                    *)
(***************************************************************************)
EXTENDS AblationReport

CONSTANTS
  Batches,      \* the contents runs.csv may start with
  Values,       \* the rows a resumed batch may put in place of a failed one
  MaxAnalyses,  \* bound of the model: how often the script is started
  MaxResumes    \* bound of the model: how often the batch is resumed

ASSUME ReportAssumption ==
  /\ MaxAnalyses \in Nat
  /\ MaxResumes \in Nat

\* A row of runs.csv.
RunRow == [error : BOOLEAN, lines : Nat, tokens : Nat, value : [Range(METRICS) -> Int]]

\* A cell of the matrix: scenario, configuration and seed.
Cells == (DOMAIN ALL_SCENARIOS) \X Range(ConfigLabels) \X Nat

ASSUME BatchAssumption ==
  /\ \A batch \in Batches :
       /\ IsFiniteSet(DOMAIN batch) /\ DOMAIN batch \subseteq Cells
       /\ batch \in [DOMAIN batch -> RunRow]
  /\ Values \subseteq RunRow

\* Mutant of WriteOrder: the report is written before what it reports.
WriteOrderReportFirst == <<"report", "contributions", "by_category", "plots">>

\* The order in which run() writes its files.
WriteOrder == <<"contributions", "by_category", "plots", "report">>

\* The order in which build_artifacts reads them, and runs.csv.
ReadOrder == <<"report", "contributions", "by_category", "runs">>

\* A file of the analysis: which start of the script wrote it, of what runs.
File(state, analysis, revision) ==
  [state |-> state, analysis |-> analysis, revision |-> revision]

Missing == File("missing", 0, 0)

Torn == File("torn", 0, 0)

VARIABLES
  history,   \* the contents runs.csv has had; the last one is on disk
  files,     \* the files of the analysis
  analyses,  \* how often the script has been started
  script,    \* the position of the running script in WriteOrder; 0: none runs
  opened,    \* has the script opened the file at its position?
  df,        \* the revision of runs.csv the script has read
  reader,    \* the position of the page in ReadOrder; 0: none is being built
  parts,     \* what the page has read so far
  page       \* the last page: "none", "no batch", "server error" or "shown"

vars == <<history, files, analyses, script, opened, df, reader, parts, page>>

scriptVars == <<files, analyses, script, opened, df>>
pageVars == <<reader, parts, page>>

NothingRead == [f \in Range(ReadOrder) |-> Missing]

Init ==
  /\ history \in {<<batch>> : batch \in Batches}
  /\ files = [f \in Range(WriteOrder) |-> Missing]
  /\ analyses = 0
  /\ script = 0
  /\ opened = FALSE
  /\ df = 0
  /\ reader = 0
  /\ parts = NothingRead
  /\ page = "none"

-----------------------------------------------------------------------------

\* The batch is resumed: a failed cell is run again and succeeds.
ResumeBatch ==
  /\ Len(history) <= MaxResumes
  /\ \E cell \in {c \in DOMAIN Last(history) : Last(history)[c].error} :
       \E row \in Values : history' = Append(history, [Last(history) EXCEPT ![cell] = row])
  /\ UNCHANGED <<scriptVars, pageVars>>

\* The script starts: it reads runs.csv once.
StartAnalysis ==
  /\ script = 0
  /\ analyses < MaxAnalyses
  /\ analyses' = analyses + 1
  /\ script' = 1
  /\ df' = Len(history)
  /\ UNCHANGED <<history, files, opened, pageVars>>

\* The plots cannot be drawn of a table without rows: the script ends in a KeyError.
CanWrite(file) == file = "plots" => ComputeOverall(history[df]) # <<>>

OpenFile ==
  /\ script # 0
  /\ ~ opened
  /\ CanWrite(WriteOrder[script])
  /\ opened' = TRUE
  /\ files' = [files EXCEPT ![WriteOrder[script]] = Torn]
  /\ UNCHANGED <<history, analyses, script, df, pageVars>>

FillFile ==
  /\ script # 0
  /\ opened
  /\ opened' = FALSE
  /\ files' = [files EXCEPT ![WriteOrder[script]] = File("whole", analyses, df)]
  /\ script' = IF script = Len(WriteOrder) THEN 0 ELSE script + 1
  /\ UNCHANGED <<history, analyses, df, pageVars>>

\* The script is killed, or ends in an error: what it has written stays.
AnalysisStops ==
  /\ script # 0
  /\ script' = 0
  /\ opened' = FALSE
  /\ UNCHANGED <<history, files, analyses, df, pageVars>>

-----------------------------------------------------------------------------

\* A request: only a batch directory with a report is shown.
RequestPage ==
  /\ reader = 0
  /\ parts' = NothingRead
  /\ IF files["report"] = Missing
     THEN page' = "no batch" /\ UNCHANGED reader
     ELSE page' = "none" /\ reader' = 1
  /\ UNCHANGED <<history, scriptVars>>

\* A report that is being written is no JSON: the request ends in a server error.
ReadTornReport ==
  /\ reader # 0
  /\ ReadOrder[reader] = "report"
  /\ files["report"] = Torn
  /\ reader' = 0
  /\ page' = "server error"
  /\ UNCHANGED <<parts, history, scriptVars>>

ReadFile ==
  /\ reader # 0
  /\ ReadOrder[reader] = "report" => files["report"] # Torn
  /\ parts' = [parts EXCEPT ![ReadOrder[reader]] =
                 IF ReadOrder[reader] = "runs" THEN File("whole", 0, Len(history))
                 ELSE files[ReadOrder[reader]]]
  /\ IF reader < Len(ReadOrder)
     THEN reader' = reader + 1 /\ UNCHANGED page
     ELSE reader' = 0 /\ page' = "shown"
  /\ UNCHANGED <<history, scriptVars>>

Next ==
  \/ ResumeBatch
  \/ StartAnalysis
  \/ OpenFile
  \/ FillFile
  \/ AnalysisStops
  \/ RequestPage
  \/ ReadTornReport
  \/ ReadFile

Spec == Init /\ [][Next]_vars

-----------------------------------------------------------------------------
(***************************************************************************)
(* Properties                                                              *)
(***************************************************************************)

Shown == page = "shown"

\* The tables a page shows, from the files it has read: no rows if torn.
ContributionsShown ==
  IF parts["contributions"].state = "whole"
  THEN ComputeOverall(history[parts["contributions"].revision]) ELSE <<>>

CategoryTableShown ==
  IF parts["by_category"].state = "whole"
  THEN ComputeByCategory(history[parts["by_category"].revision]) ELSE <<>>

\* A page may be behind, never ahead: each table on it, unless it was being
\* written, is of the analysis that wrote the report beside it or a later one, from
\* runs no newer than those of the box plot; and the plots it links to are there
\* (analyze_contributions.py:525-553, ablation_report.py:502-506).
PageIsNeverAheadOfItsData ==
  Shown =>
    /\ \A table \in {parts["contributions"], parts["by_category"]} :
         table # Torn => /\ table.state = "whole"
                         /\ parts["report"].analysis <= table.analysis
                         /\ table.revision <= parts["runs"].revision
    /\ files["plots"] # Missing

\* In a table of complete rows the effects of the parts add up to that of the
\* whole: RAG, examples and their interaction to both, with feedback and without;
\* and from A to E it does not matter what is switched on first
\* (analyze_contributions.py:52-77, 175-194).
EffectsAddUp ==
  Shown =>
    LET table   == ContributionsShown
        pairs   == Cardinality({PairOf(cell) : cell \in DOMAIN history[1]})
        whole(m) == {r \in Range(table) : r.metric = m /\ r.n = pairs}
    IN  \A m \in Range(METRICS) :
          LET made        == {r.component : r \in whole(m)}
              total(name) == (CHOOSE r \in whole(m) : r.component = name).sum
          IN  /\ {"semantic_rag", "metric_examples", "rag_metric_combined",
                  "interaction_rag_metric"} \subseteq made
                 => total("rag_metric_combined") = total("semantic_rag")
                      + total("metric_examples") + total("interaction_rag_metric")
              /\ {"pure_semantic_rag", "pure_metric_examples", "pure_rag_metric_combined",
                  "interaction_rag_metric_no_feedback"} \subseteq made
                 => total("pure_rag_metric_combined") = total("pure_semantic_rag")
                      + total("pure_metric_examples")
                      + total("interaction_rag_metric_no_feedback")
              /\ {"feedback_loop", "rag_metric_combined", "pure_rag_metric_combined",
                  "feedback_value_full"} \subseteq made
                 => total("feedback_loop") + total("rag_metric_combined")
                      = total("pure_rag_metric_combined") + total("feedback_value_full")

\* The stages a component is named for.
StagesNamed(component) ==
  CASE component \in {"feedback_loop", "feedback_value_full"}    -> {"feedback_loop"}
    [] component \in {"semantic_rag", "pure_semantic_rag"}       -> {"retrieval"}
    [] component \in {"metric_examples", "pure_metric_examples"} -> {"metric_examples"}
    [] OTHER -> {"retrieval", "metric_examples"}

\* Every row of the page is explained by the formula it was computed with; a
\* difference between two configurations is that of the stages it is named for;
\* and a "pure" one has no feedback in it (ablation_report.py:62-222,
\* evaluation.py:54-111).
RowsMeasureWhatTheyName ==
  Shown =>
    \A name \in {r.component : r \in Range(ContributionsShown)} :
      LET cmp == CHOOSE c \in Range(Comparisons) : c.component = name
      IN  /\ name \in DOMAIN ComponentGlossary
          /\ ComponentGlossary[name] = [plus |-> cmp.plus, minus |-> cmp.minus]
          /\ Cardinality(cmp.plus) = 1 =>
               \A one \in cmp.plus, two \in cmp.minus :
                 /\ EnabledStages[two] \subseteq EnabledStages[one]
                 /\ EnabledStages[one] \ EnabledStages[two] = StagesNamed(name)
          /\ name \in PureComponents =>
               \A l \in cmp.plus \cup cmp.minus : "feedback_loop" \notin EnabledStages[l]

\* The script and the page, each with its own copy of the rules, judge alike: the
\* colour of a point, its bucket in the commentary and its verdict agree; the headline
\* names good effects only, and no good effect exceeds all of those it names
\* (analyze_contributions.py:275-280, ablation_report.py:690-728, 799-811, 843-863).
VerdictsAgree ==
  Shown =>
    LET table    == ContributionsShown
        insights == Insights(table)
        forest   == AnalyzeForest(table)
        winners  == Range(insights.converged \o insights.raw)
        Name(r)  == <<r.component, r.metric>>
        Judged(r, tone) == <<r.component, r.metric, tone>> \in insights.verdicts
    IN  /\ \A r \in Range(HeadlineRows(table)) :
             /\ PointColour(r) = "green" <=> Name(r) \in forest.improve
             /\ PointColour(r) = "green" <=> Judged(r, "positive")
             /\ PointColour(r) = "red"   <=> Name(r) \in forest.harm
             /\ PointColour(r) = "red"   <=> Judged(r, "negative")
             /\ PointColour(r) = "green" => \E w \in winners : ~ Stronger(r, w)
        /\ \A w \in winners : PointColour(w) = "green"

\* The views of one batch count the same runs, those that did not fail: the cost
\* summary, the tables, the box plot, the heatmap and the Markdown summary; they
\* agree on which configuration scans best, and on how long a poem should be
\* (analyze_contributions.py:223-228, ablation_report.py:530-555,
\* aggregate_runs.py:159-167).
ViewsCountTheSameRuns ==
  Shown /\ parts["report"].revision = parts["runs"].revision =>
    LET all     == history[parts["runs"].revision]
        counts  == CostSummary(all).perConfig
        box     == AnalyzeBox(LoadRuns(all)).stats
        heatmap == AnalyzeHeatmap(LoadRuns(all))
        text    == MarkdownSummary(all)
        Mean(l) == [sum |-> text[l].overall.sums["meter_accuracy"], n |-> text[l].overall.n]
    IN  /\ DOMAIN counts = DOMAIN box
        /\ DOMAIN counts = DOMAIN text
        /\ \A l \in DOMAIN counts :
             /\ counts[l].runs = text[l].overall.n
             /\ counts[l].runs = Cardinality({c \in DOMAIN all : ConfigOf(c) = l /\ ~ all[c].error})
             /\ l \in heatmap.best <=> \A k \in DOMAIN counts : NotAbove(Mean(k), Mean(l))
             /\ box[l].low <= box[l].median /\ box[l].median <= box[l].high
        /\ heatmap.weak = heatmap.weakWithFeedback \cup heatmap.weakNoFeedback
        /\ \A id \in DOMAIN ALL_SCENARIOS : EXPECTED_LINES[id] = TotalLines(ALL_SCENARIOS[id])
        /\ \A r \in Range(ContributionsShown), cmp \in Range(Comparisons) :
             cmp.component = r.component =>
               \A l \in cmp.plus \cup cmp.minus : l \in DOMAIN counts /\ r.n <= counts[l].runs

\* What ablation_batch_and_report.md:429 says of the commentary by category: the
\* component it picks is one that helps.
CategoryWinnerHelps ==
  Shown =>
    LET picked == AnalyzeByCategory(CategoryTableShown)
    IN  \A cat \in DOMAIN picked : \A r \in picked[cat] : IsGood(r.metric, r.sum)

=============================================================================
