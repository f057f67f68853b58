--------------------------- MODULE AblationReport ---------------------------
(***************************************************************************)
(* What the dashboard reads out of an analysed batch (ablation_report.py): *)
(* the verdicts, the headline and the commentary on each plot, computed    *)
(* anew from the tables and from runs.csv.  The sentences themselves are   *)
(* left out: a bullet is the data it quotes.                               *)
(***************************************************************************)
EXTENDS AblationStudy

CONSTANT
  Unit    \* an accuracy of 1.0, as a value of a row

ASSUME UnitAssumption == Unit \in Nat \ {0}

\* COMPONENT_GLOSSARY: the formula each component is explained by.
ComponentGlossary ==
  [feedback_loop                      |-> [plus |-> {"B"}, minus |-> {"A"}],
   semantic_rag                       |-> [plus |-> {"C"}, minus |-> {"B"}],
   metric_examples                    |-> [plus |-> {"D"}, minus |-> {"B"}],
   rag_metric_combined                |-> [plus |-> {"E"}, minus |-> {"B"}],
   interaction_rag_metric             |-> [plus |-> {"E", "B"}, minus |-> {"C", "D"}],
   pure_semantic_rag                  |-> [plus |-> {"F"}, minus |-> {"A"}],
   pure_metric_examples               |-> [plus |-> {"G"}, minus |-> {"A"}],
   pure_rag_metric_combined           |-> [plus |-> {"H"}, minus |-> {"A"}],
   feedback_value_full                |-> [plus |-> {"E"}, minus |-> {"H"}],
   interaction_rag_metric_no_feedback |-> [plus |-> {"H", "A"}, minus |-> {"F", "G"}]]

HeadlineMetrics == <<"meter_accuracy", "rhyme_accuracy", "num_iterations">>

LowerIsBetterMetrics == {"num_iterations"}

WithFeedbackConfigs == {"B", "C", "D", "E"}

NoFeedbackConfigs == {"A", "F", "G", "H"}

\* _FEEDBACK_PAIRS: without feedback, with feedback.
FeedbackPairs == {<<"A", "B">>, <<"F", "C">>, <<"G", "D">>, <<"H", "E">>}

PureComponents == {"pure_semantic_rag", "pure_metric_examples", "pure_rag_metric_combined"}

-----------------------------------------------------------------------------

\* Mutant of LoadRuns: failed rows are kept, with their zeros.
LoadRunsAll(runs) == runs

\* _load_runs drops failed rows: their values are zeros nobody measured.
LoadRuns(runs) == Restrict(runs, {c \in DOMAIN runs : ~ runs[c].error})

IsGood(metric, sum) == IF metric \in LowerIsBetterMetrics THEN sum < 0 ELSE sum > 0

\* Mutant of VerdictFor: the sign is not turned for metrics that should be low.
VerdictForUpward(row) ==
  CASE ~ row.significant -> "neutral"
    [] row.significant /\ row.sum > 0 -> "positive"
    [] OTHER -> "negative"

\* _verdict_for.
VerdictFor(row) ==
  CASE ~ row.significant -> "neutral"
    [] row.significant /\ IsGood(row.metric, row.sum) -> "positive"
    [] OTHER -> "negative"

OnHeadline(row) == row.metric \in Range(HeadlineMetrics)

RowsOfMetric(table, metric) == Filter(table, {row \in Range(table) : row.metric = metric})

\* The rows of the headline metrics, metric by metric.
HeadlineRows(table) ==
  FlattenSeq([m \in DOMAIN HeadlineMetrics |-> RowsOfMetric(table, HeadlineMetrics[m])])

Abs(x) == IF x < 0 THEN -x ELSE x

\* |mean| of one row against that of another.
Stronger(r, s) == Abs(r.sum) * s.n > Abs(s.sum) * r.n

\* The first of the rows no other is stronger than, if there is any row.
Strongest(rows) ==
  LET best == Filter(rows, {r \in Range(rows) : \A s \in Range(rows) : ~ Stronger(s, r)})
  IN  IF best = <<>> THEN <<>> ELSE <<Head(best)>>

\* _build_insights: the verdicts, and the winners of the two parts of the
\* headline, among significant effects in the right direction.
Insights(table) ==
  LET rows == HeadlineRows(table)
      good == {r \in Range(rows) : r.significant /\ IsGood(r.metric, r.sum)}
      pure == {r \in Range(rows) : r.component \in PureComponents}
  IN  [verdicts  |-> {<<r.component, r.metric, VerdictFor(r)>> : r \in Range(rows)},
       converged |-> Strongest(Filter(rows, good \ pure)),
       raw       |-> Strongest(Filter(rows, good \cap pure))]

\* _analyze_forest: the components that improve, harm, or do neither for sure.
AnalyzeForest(table) ==
  LET rows == {r \in Range(table) : OnHeadline(r)}
      Names(set) == {<<r.component, r.metric>> : r \in set}
      good == {r \in rows : r.significant /\ IsGood(r.metric, r.sum)}
      bad  == {r \in rows \ good : r.significant /\ r.sum # 0}
  IN  [improve |-> Names(good), harm |-> Names(bad),
       unclear |-> Names(rows \ (good \cup bad))]

-----------------------------------------------------------------------------

\* The values of a function with finitely many arguments in ascending order: the i-th of
\* them is the one that fewer than i lie below, and i or more do not exceed.
Ascending(f) ==
  LET below == [v \in Range(f) |-> Cardinality({x \in DOMAIN f : f[x] < v})]
      upTo  == [v \in Range(f) |-> Cardinality({x \in DOMAIN f : f[x] <= v})]
  IN  [i \in 1 .. Cardinality(DOMAIN f) |->
         CHOOSE v \in Range(f) : below[v] < i /\ i <= upTo[v]]

\* The meter accuracies of a configuration, sorted.
MeterValues(rows, label) ==
  Ascending([c \in {d \in DOMAIN rows : ConfigOf(d) = label} |-> rows[c].value["meter_accuracy"]])

\* statistics.quantiles(n=4), of two values or more, in quarters of a unit: the
\* exclusive method, which for few values extrapolates beyond them.
Quartile(values, i) ==
  LET m == Len(values) + 1
      j == Max({1, Min({Len(values) - 1, (i * m) \div 4})})
      d == i * m - j * 4
  IN  values[j] * (4 - d) + values[j + 1] * d

\* The median and the quartiles of one configuration, in quarters of a unit.
BoxStats(values) ==
  IF Len(values) < 2
  THEN [median |-> 4 * values[1], low |-> 4 * values[1], high |-> 4 * values[1]]
  ELSE [median |-> Quartile(values, 2), low |-> Quartile(values, 1),
        high   |-> Quartile(values, 3)]

\* _analyze_box; a configuration is noisy with a spread of more than 0.10.  Here
\* and below, of several that are best the code names the first.
AnalyzeBox(rows) ==
  LET stats     == [l \in ConfigsIn(rows) |-> BoxStats(MeterValues(rows, l))]
      Spread(l) == stats[l].high - stats[l].low
  IN  [stats |-> stats,
       best  |-> {l \in DOMAIN stats : \A k \in DOMAIN stats : stats[k].median <= stats[l].median},
       noisy |-> {l \in DOMAIN stats :
                    /\ \A k \in DOMAIN stats : Spread(k) <= Spread(l)
                    /\ 10 * Spread(l) > 4 * Unit},
       gaps  |-> [pair \in {p \in FeedbackPairs : Range(p) \subseteq DOMAIN stats} |->
                    stats[pair[2]].median - stats[pair[1]].median]]

\* The sum and the number of the meter accuracies of a set of cells.
MeanOf(rows, cells) ==
  [sum |-> SumOver([c \in cells |-> rows[c].value["meter_accuracy"]]),
   n   |-> Cardinality(cells)]

NotAbove(x, y) == x.sum * y.n <= y.sum * x.n

\* _analyze_heatmap: the best configuration, the hardest scenario, and the cells
\* of the map below 0.5, those with feedback apart from those without.
AnalyzeHeatmap(rows) ==
  LET Of(label)   == MeanOf(rows, {c \in DOMAIN rows : ConfigOf(c) = label})
      In(id)      == MeanOf(rows, {c \in DOMAIN rows : c[1] = id})
      scenarios   == {c[1] : c \in DOMAIN rows}
      At(l, id)   == MeanOf(rows, {c \in DOMAIN rows : c[1] = id /\ ConfigOf(c) = l})
      weak        == {cell \in {<<ConfigOf(c), c[1]>> : c \in DOMAIN rows} :
                        2 * At(cell[1], cell[2]).sum < Unit * At(cell[1], cell[2]).n}
  IN  [best             |-> {l \in ConfigsIn(rows) :
                               \A k \in ConfigsIn(rows) : NotAbove(Of(k), Of(l))},
       hardest          |-> {id \in scenarios : \A s \in scenarios : NotAbove(In(id), In(s))},
       weak             |-> weak,
       weakWithFeedback |-> {cell \in weak : cell[1] \in WithFeedbackConfigs},
       weakNoFeedback   |-> {cell \in weak : cell[1] \in NoFeedbackConfigs}]

\* _analyze_by_category: for each category the significant row with the greatest
\* mean, whatever its metric.
AnalyzeByCategory(table) ==
  LET rows   == {r \in Range(table) : OnHeadline(r)}
      raised == {r \in rows : r.significant /\ r.sum > 0}
  IN  [cat \in {r.category : r \in rows} |->
         {r \in raised : /\ r.category = cat
                         /\ \A s \in raised : s.category = cat => ~ Stronger(s, r)}]

=============================================================================
