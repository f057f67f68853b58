--------------------------- MODULE MeterValidation ---------------------------
(***************************************************************************)
(* Does a line scan?  The stress pattern of a line is put together from    *)
(* the words' stresses, compared with the pattern of a meter, and the line *)
(* passes if few enough mismatches remain after the tolerated ones and its *)
(* length is one the meter allows.                                         *)
(*                                                                         *)
(* A word is what prosody knows of it: the number of its vowels, the       *)
(* stressed vowel the dictionary names (from 0, as in the code), the class *)
(* of its ending, whether it is a function word, and its transcription.    *)
(* Positions in a pattern are numbered from 1.                             *)
(***************************************************************************)
EXTENDS Integers, Sequences, FiniteSets, SequencesExt

CONSTANTS
  AllowedMismatches,  \* untolerated mismatches a line may have
  NoAnswer            \* the dictionary does not know the word

ASSUME MismatchAssumption == AllowedMismatches \in Nat

\* Words ending in -ota are stressed on the last vowel; other soft endings
\* (a vowel, a soft sign, a short i) on the one before.
Endings == {"ota", "soft", "hard"}

Word == [syllables : Nat, dictionary : Nat \cup {NoAnswer}, ending : Endings,
         weak : BOOLEAN, ipa : Seq(STRING)]

-----------------------------------------------------------------------------
\* The pattern a line has.

\* _guess_stress: where a word the dictionary does not know is stressed.
GuessStress(word) ==
  IF word.syllables <= 1 THEN 0
  ELSE IF word.ending = "hard" \/ (word.ending = "ota" /\ word.syllables >= 3)
       THEN word.syllables - 1
       ELSE word.syllables - 2

Resolve(word) == IF word.dictionary # NoAnswer THEN word.dictionary ELSE GuessStress(word)

\* The stressed syllable of a word, from 1; the dictionary may count more vowels
\* than the word has.
StressOf(word) == IF Resolve(word) >= word.syllables THEN word.syllables ELSE Resolve(word) + 1

\* A function word of one syllable has no stress, a word without vowels no pattern.
WordPattern(word) ==
  [i \in 1 .. word.syllables |->
     IF i = StressOf(word) /\ ~ (word.syllables = 1 /\ word.weak) THEN "S" ELSE "u"]

WordFlags(word) == [i \in 1 .. word.syllables |-> [mono |-> word.syllables = 1, weak |-> word.weak]]

ActualPattern(line) == FlattenSeq([k \in DOMAIN line |-> WordPattern(line[k])])

\* The flags of the word each syllable belongs to.
Flags(line) == FlattenSeq([k \in DOMAIN line |-> WordFlags(line[k])])

-----------------------------------------------------------------------------
\* The pattern a meter asks for.

Foot == [iamb       |-> <<"u", "S">>,
         trochee    |-> <<"S", "u">>,
         dactyl     |-> <<"S", "u", "u">>,
         amphibrach |-> <<"u", "S", "u">>,
         anapest    |-> <<"u", "u", "S">>]

\* build_expected_pattern: the foot repeated.
Expected(meter, feet) ==
  [i \in 1 .. feet * Len(Foot[meter]) |-> Foot[meter][((i - 1) % Len(Foot[meter])) + 1]]

Stressed(pattern) == {i \in DOMAIN pattern : pattern[i] = "S"}

\* _foot_size: the distance of the first two stresses, or the whole pattern.
FootSize(pattern) ==
  IF Cardinality(Stressed(pattern)) >= 2
  THEN LET first == Min(Stressed(pattern))
       IN  Min(Stressed(pattern) \ {first}) - first
  ELSE Len(pattern)

\* line_length_ok: at most two unstressed syllables more, or less than a foot
\* missing and no stress in what is missing.
LineLengthOk(actual, expected) ==
  /\ Len(actual) <= Len(expected) + 2
  /\ \A i \in Len(expected) + 1 .. Len(actual) : actual[i] = "u"
  /\ Len(actual) < Len(expected) =>
       /\ Len(expected) - Len(actual) < FootSize(expected)
       /\ \A i \in Len(actual) + 1 .. Len(expected) : expected[i] = "u"

-----------------------------------------------------------------------------
\* PatternMeterValidator, the one in use.

\* is_tolerated_mismatch, at a position where the patterns differ.
Tolerated(flag) == flag.mono \/ flag.weak

\* The positions both patterns have and disagree on.
Mismatches(actual, expected) ==
  {i \in DOMAIN actual \cap DOMAIN expected : actual[i] # expected[i]}

RealErrors(line, meter, feet) ==
  LET flags == Flags(line)
  IN  {i \in Mismatches(ActualPattern(line), Expected(meter, feet)) :
         ~ (i \in DOMAIN flags /\ Tolerated(flags[i]))}

\* Mutant of FewEnough: an error too few.
FewerThanAllowed(errors) == Cardinality(errors) < AllowedMismatches

FewEnough(errors) == Cardinality(errors) <= AllowedMismatches

\* _validate_line: the verdict on a line and the positions of its errors.
LineResult(line, meter, feet) ==
  LET errors == RealErrors(line, meter, feet)
  IN  [ok     |-> FewEnough(errors) /\ LineLengthOk(ActualPattern(line), Expected(meter, feet)),
       errors |-> errors]

-----------------------------------------------------------------------------
\* BSPMeterValidator, which can take its place.

Bits(pattern) == [i \in DOMAIN pattern |-> IF pattern[i] = "S" THEN 1 ELSE 0]

\* detect_errors: stress_missing, stress_overflow and rhythm_break by position.
BspIssues(actual, expected, flags) ==
  LET Forgiven(i) == i \in DOMAIN flags /\ (flags[i].mono \/ flags[i].weak)
      both        == DOMAIN actual \cap DOMAIN expected
  IN  [stress_missing  |-> {i \in both : expected[i] = 1 /\ actual[i] = 0 /\ ~ Forgiven(i)},
       stress_overflow |-> {i \in both : expected[i] = 0 /\ actual[i] = 1 /\ ~ Forgiven(i)},
       rhythm_break    |-> {i \in 1 .. Len(actual) - 1 :
                              /\ actual[i] = 1 /\ actual[i + 1] = 1
                              /\ ~ (/\ i + 1 \in DOMAIN expected
                                    /\ expected[i] = 1 /\ expected[i + 1] = 1)}]

\* Mutant of HardErrors: broken rhythm is hard as well.
HardErrorsAll(issues) == issues.stress_missing \cup issues.stress_overflow \cup issues.rhythm_break

HardErrors(issues) == issues.stress_missing \cup issues.stress_overflow

\* _validate_line of the BSP validator; whether the score of the pyramids reaches
\* the threshold is a parameter.
BspLineResult(line, meter, feet, scoreOk) ==
  LET actual   == ActualPattern(line)
      expected == Expected(meter, feet)
      errors   == HardErrors(BspIssues(Bits(actual), Bits(expected), Flags(line)))
  IN  [ok     |-> scoreOk /\ FewEnough(errors) /\ LineLengthOk(actual, expected),
       errors |-> errors]

=============================================================================
