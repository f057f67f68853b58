----------------------------- MODULE RunMetrics -----------------------------
(***************************************************************************)
(* The metric calculators of a run, as functions of its poem and of the    *)
(* records of its iterations.  An accuracy is a fraction <<good, of all>>, *)
(* and so is what is computed from it: nothing is rounded.  The prices of  *)
(* tokens, which scale the cost, are left out, and so is the semantic      *)
(* relevance, which asks an embedder (Resources).                          *)
(***************************************************************************)
EXTENDS PoemText, Integers, SequencesExt, Loops

\* a/b + c/d, a/b - c/d and (a/b) / (c/d) for positive b, c and d.
Plus(p, q) == <<p[1] * q[2] + q[1] * p[2], p[2] * q[2]>>

Minus(p, q) == Plus(p, <<-q[1], q[2]>>)

Quotient(p, q) == <<p[1] * q[2], p[2] * q[1]>>

SameFraction(p, q) == p[1] * q[2] = q[1] * p[2]

One == <<1, 1>>

Zero == <<0, 1>>

\* _IterationDeltaCalculator, for a field of the records.
IterationDelta(records, field) ==
  IF Len(records) < 2 THEN Zero ELSE Minus(Last(records)[field], Head(records)[field])

FeedbackIterations(records) == Max({0, Len(records) - 1})

\* The share of a perfect score a record is short of.
Violations(rec) == Plus(Minus(One, rec.meter), Minus(One, rec.rhyme))

\* Mutant of RegenerationSuccess: the first round is taken for the last.
RegenerationSuccessOfFirst(records) ==
  IF Len(records) < 2 THEN Zero
  ELSE IF Violations(Head(records))[1] <= 0 THEN One
  ELSE Minus(One, Quotient(Violations(records[2]), Violations(Head(records))))

\* RegenerationSuccessCalculator.
RegenerationSuccess(records) ==
  IF Len(records) < 2 THEN Zero
  ELSE IF Violations(Head(records))[1] <= 0 THEN One
  ELSE Minus(One, Quotient(Violations(Last(records)), Violations(Head(records))))

\* TotalTokensCalculator; its two parts and the cost go the same way.
TotalTokens(records) == SumOf([n \in DOMAIN records |-> records[n].tokens])

LineCount(text) == Len(FromText(text))

\* The registry: every calculator, asked for the same poem and records.
AllMetrics(text, records) ==
  [meter_accuracy       |-> MeterResult(text).accuracy,
   rhyme_accuracy       |-> RhymeResult(text).accuracy,
   meter_improvement    |-> IterationDelta(records, "meter"),
   rhyme_improvement    |-> IterationDelta(records, "rhyme"),
   regeneration_success |-> RegenerationSuccess(records),
   feedback_iterations  |-> FeedbackIterations(records),
   num_lines            |-> LineCount(text),
   total_tokens         |-> TotalTokens(records)]

=============================================================================
