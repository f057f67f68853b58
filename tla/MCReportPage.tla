---------------------------- MODULE MCReportPage ----------------------------
(***************************************************************************)
(* Small instances of ReportPage: batches over one or two scenarios, one   *)
(* normal and one corner case, whose accuracies are made of an effect of   *)
(* feedback, of retrieval, of examples and of their combination.           *)
(***************************************************************************)
EXTENDS ReportPage

\* The effects a batch is made of; where a second scenario differs from the first;
\* the cell that failed.  Retrieval saves an iteration where feedback helps.
Effects ==
  [feedback : {0, 1}, rag : {-1, 1}, both : {-1, 1}, second : {"same", "flat"},
   failed : {"none", "A", "E"}]

On(label, stage) == stage \in EnabledStages[label]

Accuracy(e, label) ==
  Max({0, Min({Unit, 1 + (IF On(label, "feedback_loop") THEN e.feedback ELSE 0)
                       + (IF On(label, "retrieval") THEN e.rag ELSE 0)
                       + (IF On(label, "metric_examples") THEN 1 ELSE 0)
                       + (IF On(label, "retrieval") /\ On(label, "metric_examples")
                          THEN e.both ELSE 0)})})

Iterations(e, label) ==
  IF ~ On(label, "feedback_loop") THEN 0
  ELSE IF On(label, "retrieval") THEN 2 - e.feedback ELSE 2

Row(accuracy, iterations) ==
  [error  |-> FALSE, lines |-> 4, tokens |-> 1 + iterations,
   value  |-> [m \in Range(METRICS) |-> CASE m = "meter_accuracy" -> accuracy
                                          [] m = "num_iterations" -> iterations
                                          [] OTHER -> 0]]

FailedRow ==
  [error |-> TRUE, lines |-> 0, tokens |-> 0, value |-> [m \in Range(METRICS) |-> 0]]

Batch(e, scenarios, labels) ==
  [cell \in scenarios \X labels \X {1} |->
     IF cell[1] = "N01" /\ cell[2] = e.failed THEN FailedRow
     ELSE IF cell[1] = "C01" /\ e.second = "flat" THEN Row(1, Iterations(e, cell[2]))
     ELSE Row(Accuracy(e, cell[2]), Iterations(e, cell[2]))]

AllLabels == Range(ConfigLabels)

\* All configurations on two scenarios; those with feedback on one; A alone, of
\* which there is nothing to compare.
MCBatches ==
  {Batch(e, {"N01", "C01"}, AllLabels) : e \in Effects}
    \cup {Batch(e, {"N01"}, {"A", "B", "C", "D", "E"}) :
            e \in {f \in Effects : f.second = "same" /\ f.both = 1}}
    \cup {Batch(e, {"N01"}, {"A"}) : e \in {f \in Effects : f.second = "same"}}

MCValues == {Row(Unit, 1)}

\* The interval is exact for at most three pairs.
ASSUME \A b \in MCBatches : Cardinality({PairOf(c) : c \in DOMAIN b}) <= 3

=============================================================================
