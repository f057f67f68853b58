---------------------------- MODULE ProsodyCases ----------------------------
(***************************************************************************)
(* Every line that can be put together from a vocabulary, word by word, and*)
(* every pair of words from another one, to ask of each what the meter     *)
(* validators, the meter detector and the rhyme analyzer make of it.       *)
(***************************************************************************)
EXTENDS RhymeAnalysis

CONSTANTS
  Vocabulary,    \* the words lines are made of
  MaxWords,      \* bound on the words of a line
  EndWords,      \* the words that are compared as ends of lines
  Feet,          \* the numbers of feet the detector tries
  Nothing        \* no meter was detected

ASSUME VocabularyAssumption ==
  \A word \in Vocabulary \cup EndWords :
    word \in Word /\ word.syllables = Cardinality(VowelPositions(word.ipa))

ASSUME FeetAssumption == Feet \subseteq Nat \ {0} /\ IsFiniteSet(Feet)

VARIABLE line

Detector ==
  INSTANCE Detectors WITH
    Scan <- LineResult, RhymeOk <- LAMBDA a, b : TRUE, None <- Nothing,
    MeterMinPercent <- 85, RhymeMinPercent <- 50, SampleLines <- 4,
    FeetMin <- Min(Feet), FeetMax <- Max(Feet)

CasesInit == line = <<>>

AddWord(word) ==
  /\ Len(line) < MaxWords
  /\ ToSet(line) \subseteq Vocabulary
  /\ line' = Append(line, word)

\* The line consists of two words that are to be compared.
Compare(word, other) ==
  /\ line = <<>>
  /\ line' = <<word, other>>

CasesNext ==
  \/ \E word \in Vocabulary : AddWord(word)
  \/ \E word, other \in EndWords : Compare(word, other)

CasesSpec == CasesInit /\ [][CasesNext]_line

-----------------------------------------------------------------------------

\* The positions of the k-th word in the pattern of the line.
Span(k) ==
  LET start == Len(ActualPattern(SubSeq(line, 1, k - 1)))
  IN  start + 1 .. start + line[k].syllables

\* The line has exactly the stresses a meter asks for, and a length it allows.
ScansExactly(meter, feet) ==
  /\ Mismatches(ActualPattern(line), Expected(meter, feet)) = {}
  /\ LineLengthOk(ActualPattern(line), Expected(meter, feet))

\* A line that scans exactly still passes when the stress of one of its words was
\* resolved wrongly, unless the word reaches into the clausula beyond the last
\* foot: a wrong stress makes two mismatches, and two are allowed.
OneWrongStressIsForgiven ==
  \A meter \in DOMAIN Foot, feet \in Feet :
    ScansExactly(meter, feet) =>
      \A k \in {i \in DOMAIN line : Span(i) \subseteq 1 .. Len(Expected(meter, feet))} :
        \A stress \in 0 .. line[k].syllables :
          LineResult([line EXCEPT ![k].dictionary = stress], meter, feet).ok

\* The validators name the same error positions and, but for the score, pass the
\* same lines: either can stand behind the meter port.
ValidatorsAgree ==
  \A meter \in DOMAIN Foot, feet \in Feet, scoreOk \in BOOLEAN :
    LET pattern == LineResult(line, meter, feet)
        bsp     == BspLineResult(line, meter, feet, scoreOk)
    IN  bsp.errors = pattern.errors /\ (bsp.ok <=> scoreOk /\ pattern.ok)

\* A quatrain of lines of two feet or more that scan exactly, with no word the
\* validator is lenient about, is detected as what it is: no other meter and no
\* other number of feet reads it without an error (DetectMeter and its tie-break).
DetectsOwnMeter ==
  (\A k \in DOMAIN line : line[k].syllables # 1 /\ ~ line[k].weak) =>
    \A meter \in DOMAIN Foot, feet \in Feet \ {1} :
      ScansExactly(meter, feet) =>
        LET detected == Detector!DetectMeter(<<line, line, line, line>>)
        IN  detected.meter = meter /\ detected.feet = feet

\* The ways to make some letters of the one word into letters of the other, in order.
Alignments(a, b) ==
  {f \in UNION {[kept -> DOMAIN b] : kept \in SUBSET DOMAIN a} :
     \A i, j \in DOMAIN f : i < j => f[i] < f[j]}

\* Letters that are left out are deleted and inserted, those that differ replaced.
Edits(a, b, f) ==
  (Len(a) + Len(b)) - 2 * Cardinality(DOMAIN f) + Cardinality({i \in DOMAIN f : a[i] # b[f[i]]})

FewestEdits(a, b) == Min({Edits(a, b, f) : f \in Alignments(a, b)})

\* The table of levenshtein_distance, with its two words exchanged when the first is
\* the shorter one, finds the fewest letters to insert, delete or replace.
DistanceIsFewestEdits ==
  Len(line) = 2 =>
    \A a, b \in {word.ipa : word \in ToSet(line)} : Distance(a, b) = FewestEdits(a, b)

\* Which line of a pair comes first does not matter to the verdict: the candidates of
\* both words are tried with each other, so whether any of them align and how close
\* the closest are is the same.  Of several that are as close the first in the order
\* is kept, so the precision may be another one, but only if another pair wins.
RhymeIsSymmetric ==
  Len(line) = 2 =>
    \A a, b \in ToSet(line) :
      LET one == Analyze(a, b)
          two == Analyze(b, a)
      IN  /\ one.aligned = two.aligned
          /\ ~ Closer(one.score, two.score)
          /\ Rhyme(a, b) = Rhyme(b, a)
          /\ one.a = two.b /\ one.b = two.a => one.precision = two.precision

\* Meter and rhyme hear the same stress, also where the dictionary names a vowel the
\* word does not have: the first candidate of the rhyme and the clausula end a word
\* where its pattern says (rhyme_part, _detect_clausula, actual_stress_pattern).
OneStressForMeterAndRhyme ==
  \A k \in DOMAIN line :
    line[k].syllables > 0 =>
      LET trailing == line[k].syllables - StressOf(line[k])
      IN  /\ Cardinality(VowelPositions(Candidates(line[k])[1])) = trailing + 1
          /\ Clausula(line[k]) = CASE trailing = 0 -> "MASCULINE"
                                   [] trailing = 1 -> "FEMININE"
                                   [] trailing = 2 -> "DACTYLIC"
                                   [] trailing > 2 -> "HYPERDACTYLIC"

=============================================================================
