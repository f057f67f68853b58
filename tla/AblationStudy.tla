---------------------------- MODULE AblationStudy ----------------------------
(***************************************************************************)
(* The statistics of an ablation batch (analyze_contributions.py): paired  *)
(* differences between configurations, their interval and significance,    *)
(* the cost summary, and the colours of the forest plot; and the tables of *)
(* the second script, aggregate_runs.py.                                   *)
(*                                                                         *)
(* A runs.csv is a function from cells <<scenario, config, seed>> to rows: *)
(* BatchResume shows that a cell has one row.  A value is an integer count *)
(* of some small unit, and a mean is kept as a sum and a number, so that   *)
(* everything compared is exact.  Wording and drawing are left out, and so *)
(* is the p-value, which nothing decides on.                               *)
(***************************************************************************)
EXTENDS EvaluationData, Loops, SequencesExt, FiniteSetsExt

METRICS == <<"meter_accuracy", "rhyme_accuracy", "regeneration_success",
             "semantic_relevance", "num_iterations">>

LOWER_IS_BETTER_METRICS == {"num_iterations"}

Comparison(component, plus, minus) ==
  [component |-> component, plus |-> plus, minus |-> minus]

\* Mutant of Comparisons: the first two arms are swapped.
ComparisonsSwapped ==
  << Comparison("feedback_loop", {"A"}, {"B"}),
     Comparison("semantic_rag", {"C"}, {"B"}),
     Comparison("metric_examples", {"D"}, {"B"}),
     Comparison("rag_metric_combined", {"E"}, {"B"}),
     Comparison("pure_semantic_rag", {"F"}, {"A"}),
     Comparison("pure_metric_examples", {"G"}, {"A"}),
     Comparison("pure_rag_metric_combined", {"H"}, {"A"}),
     Comparison("feedback_value_full", {"E"}, {"H"}),
     Comparison("interaction_rag_metric", {"E", "B"}, {"C", "D"}),
     Comparison("interaction_rag_metric_no_feedback", {"H", "A"}, {"F", "G"}) >>

\* PAIRWISE_COMPARISONS, then the two interactions _compute adds to them.
Comparisons ==
  << Comparison("feedback_loop", {"B"}, {"A"}),
     Comparison("semantic_rag", {"C"}, {"B"}),
     Comparison("metric_examples", {"D"}, {"B"}),
     Comparison("rag_metric_combined", {"E"}, {"B"}),
     Comparison("pure_semantic_rag", {"F"}, {"A"}),
     Comparison("pure_metric_examples", {"G"}, {"A"}),
     Comparison("pure_rag_metric_combined", {"H"}, {"A"}),
     Comparison("feedback_value_full", {"E"}, {"H"}),
     Comparison("interaction_rag_metric", {"E", "B"}, {"C", "D"}),
     Comparison("interaction_rag_metric_no_feedback", {"H", "A"}, {"F", "G"}) >>

ConfigOf(cell) == cell[2]

PairOf(cell) == <<cell[1], cell[3]>>

CategoryOf(cell) == ALL_SCENARIOS[cell[1]].category

\* _filter_successful: a row with an error has no metrics worth counting.
FilterSuccessful(runs) == Restrict(runs, {c \in DOMAIN runs : ~ runs[c].error})

ConfigsIn(runs) == {ConfigOf(c) : c \in DOMAIN runs}

\* The (scenario, seed) pairs for which every one of the configurations has a row.
PairsOf(runs, labels) ==
  {pair \in {PairOf(c) : c \in DOMAIN runs} :
     \A l \in labels : <<pair[1], l, pair[2]>> \in DOMAIN runs}

ValueAt(runs, pair, label, metric) == runs[<<pair[1], label, pair[2]>>].value[metric]

\* The paired difference of one (scenario, seed).
Delta(runs, cmp, metric, pair) ==
  SumOver([l \in cmp.plus |-> ValueAt(runs, pair, l, metric)])
  - SumOver([l \in cmp.minus |-> ValueAt(runs, pair, l, metric)])

\* bootstrap_ci for at most three pairs, from the set of their differences: a
\* resample repeats the least of them throughout with a probability of 1/27 at
\* least, more than the 2.5 % cut off, so the interval is from least to greatest.
ConfidenceInterval(deltas) ==
  IF deltas = {} THEN [low |-> 0, high |-> 0]
  ELSE [low |-> Min(deltas), high |-> Max(deltas)]

\* _stat_row; the mean is sum / n.  With no pairs everything is zero.
StatRow(runs, category, cmp, metric) ==
  LET pairs    == PairsOf(runs, cmp.plus \cup cmp.minus)
      interval == ConfidenceInterval({Delta(runs, cmp, metric, p) : p \in pairs})
  IN  [category    |-> category,
       component   |-> cmp.component,
       metric      |-> metric,
       n           |-> Cardinality(pairs),
       sum         |-> SumOver([p \in pairs |-> Delta(runs, cmp, metric, p)]),
       low         |-> interval.low,
       high        |-> interval.high,
       significant |-> interval.low > 0 \/ interval.high < 0]

\* _compute: a comparison is made when all its configurations occur at all.
Compute(runs, category) ==
  LET possible == Filter(Comparisons, {cmp \in Range(Comparisons) :
                                         (cmp.plus \cup cmp.minus) \subseteq ConfigsIn(runs)})
  IN  FlattenSeq([m \in DOMAIN METRICS |->
                    [i \in DOMAIN possible |->
                       StatRow(runs, category, possible[i], METRICS[m])]])

\* compute_overall and compute_by_category, on the successful rows.
ComputeOverall(runs) == Compute(FilterSuccessful(runs), "overall")

ComputeByCategory(runs) ==
  LET ok     == FilterSuccessful(runs)
      within == [cat \in {"corner", "edge", "normal"} |->
                   Restrict(ok, {c \in DOMAIN ok : CategoryOf(c) = cat})]
      used   == SelectSeq(<<"corner", "edge", "normal">>,
                          LAMBDA cat : DOMAIN within[cat] # {})
  IN  FlattenSeq([i \in DOMAIN used |-> Compute(within[used[i]], used[i])])

\* _cost_summary: tokens stand for tokens and cost alike, which are proportional.
CostSummary(runs) ==
  LET ok == FilterSuccessful(runs)
      RunsOf(label) == {c \in DOMAIN ok : ConfigOf(c) = label}
  IN  [total     |-> SumOver([c \in DOMAIN ok |-> ok[c].tokens]),
       perConfig |-> [l \in ConfigsIn(ok) |->
                        [runs   |-> Cardinality(RunsOf(l)),
                         tokens |-> SumOver([c \in RunsOf(l) |-> ok[c].tokens])]]]

\* _is_improvement; the sum of the differences has the sign of their mean.
IsImprovement(metric, sum) ==
  IF metric \in LOWER_IS_BETTER_METRICS THEN sum < 0 ELSE sum > 0

\* The colour of a component's point in the forest plot.
PointColour(row) ==
  CASE row.significant /\ IsImprovement(row.metric, row.sum) -> "green"
    [] row.significant /\ ~ IsImprovement(row.metric, row.sum) /\ row.sum # 0 -> "red"
    [] OTHER -> "grey"

-----------------------------------------------------------------------------
(***************************************************************************)
(* aggregate_runs.py                                                       *)
(***************************************************************************)

\* The number of lines each scenario asks for, mirrored from the registry.
EXPECTED_LINES ==
  [id \in DOMAIN ALL_SCENARIOS |-> IF id \in {"N04", "N05"} THEN 8 ELSE 4]

\* load_runs, without --include-errors.
LoadRunsForSummary(runs) ==
  Restrict(runs, {c \in DOMAIN runs : ~ runs[c].error})

\* aggregate: the rows, the mean metrics and the rate of poems with the lines
\* asked for, of one configuration, overall or within a category.
Aggregate(runs, label, categories) ==
  LET rows == {c \in DOMAIN runs : ConfigOf(c) = label /\ CategoryOf(c) \in categories}
  IN  [n        |-> Cardinality(rows),
       sums     |-> [m \in Range(METRICS) |->
                       SumOver([c \in rows |-> runs[c].value[m]])],
       matching |-> Cardinality({c \in rows : runs[c].lines = EXPECTED_LINES[c[1]]}),
       tokens   |-> SumOver([c \in rows |-> runs[c].tokens])]

\* render_full_report: every configuration present, each with its categories.
MarkdownSummary(runs) ==
  LET rows == LoadRunsForSummary(runs)
  IN  [l \in ConfigsIn(rows) |->
         [overall    |-> Aggregate(rows, l, {"normal", "edge", "corner"}),
          categories |-> [cat \in {CategoryOf(c) : c \in {d \in DOMAIN rows : ConfigOf(d) = l}} |->
                            Aggregate(rows, l, {cat})]]]

=============================================================================
