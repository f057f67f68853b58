------------------------------ MODULE PoemText ------------------------------
(***************************************************************************)
(* What the pipeline knows of a text: its non-blank lines, the lines that  *)
(* Poem.from_text takes for verse, the verdict of the two validators and   *)
(* the merge of a partial regeneration into the poem it was asked to fix.  *)
(*                                                                         *)
(* A line is a model value.  Prosody and phonetics decide which lines scan *)
(* and which rhyme; here the answers are the constants Metrical and        *)
(* Rhyming.  Lines are numbered from 1, the code numbers them from 0.      *)
(***************************************************************************)
EXTENDS RhymeScheme, FiniteSets, Functions

CONSTANTS
  Lines,      \* the lines a sanitized response may consist of
  Stubs,      \* lines the sanitizer lets through and Poem.from_text drops
  Metrical,   \* lines the meter validator accepts
  Rhyming,    \* pairs of lines the rhyme validator accepts
  Scheme      \* the rhyme scheme, a sequence of letters

\* RhymePattern admits only schemes that repeat a letter.
ASSUME TextAssumption ==
  /\ Stubs \subseteq Lines
  /\ Metrical \subseteq Lines
  /\ Rhyming \subseteq Lines \X Lines
  /\ Scheme \in Seq(STRING)
  /\ StanzaPairs(Scheme) # {}

Text == Seq(Lines)

-----------------------------------------------------------------------------

\* Poem.from_text: the lines of a response that are verse.
FromText(text) == SelectSeq(text, LAMBDA line : line \notin Stubs)

\* A validator's result: the verdict, the accuracy as a fraction, and where the
\* violations are (lines for the meter, pairs of lines for the rhyme).
MeterResult(text) ==
  LET bad == {i \in DOMAIN text : text[i] \notin Metrical}
  IN  [ok       |-> text # <<>> /\ bad = {},
       accuracy |-> IF text = <<>> THEN <<0, 1>>
                    ELSE <<Len(text) - Cardinality(bad), Len(text)>>,
       feedback |-> bad]

RhymeResult(text) ==
  LET pairs == ExtractPairs(Scheme, Len(text))
      bad   == {p \in pairs : <<text[p[1]], text[p[2]]>> \notin Rhyming}
  IN  [ok       |-> bad = {},
       accuracy |-> IF pairs = {} THEN <<1, 1>>
                    ELSE <<Cardinality(pairs) - Cardinality(bad), Cardinality(pairs)>>,
       feedback |-> bad]

-----------------------------------------------------------------------------

\* The lines a merge may rewrite: those with a meter violation, and the second
\* line of each pair that does not rhyme, if the poem has them.
Flagged(n, lineFeedback, pairFeedback) ==
  (lineFeedback \cup {p[2] : p \in pairFeedback}) \cap (1 .. n)

\* The position of i among the flagged lines in increasing order.
Rank(flagged, i) == Cardinality({j \in flagged : j <= i})

\* Mutant of Splice: the places are off by one.
SpliceOffByOne(original, regenerated, flagged) ==
  [i \in 1 .. Len(original) |->
     IF i + 1 \in flagged THEN regenerated[Rank(flagged, i + 1)] ELSE original[i]]

\* Put the regenerated lines, in order, in the places of the flagged ones.
Splice(original, regenerated, flagged) ==
  [i \in 1 .. Len(original) |->
     IF i \in flagged THEN regenerated[Rank(flagged, i)] ELSE original[i]]

\* LineIndexMerger.merge: a full poem, or a response too short to splice, is used
\* as it is; one that only copies lines of the poem leaves the poem as it is.
Merge(original, regenerated, lineFeedback, pairFeedback) ==
  LET flagged == Flagged(Len(original), lineFeedback, pairFeedback)
  IN  IF \/ Len(regenerated) = Len(original)
         \/ flagged = {}
         \/ Len(regenerated) < Cardinality(flagged)
      THEN regenerated
      ELSE IF Range(regenerated) \subseteq Range(original)
           THEN original
           ELSE Splice(original, regenerated, flagged)

=============================================================================
