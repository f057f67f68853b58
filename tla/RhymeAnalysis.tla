---------------------------- MODULE RhymeAnalysis ----------------------------
(***************************************************************************)
(* Do two words rhyme?  Of each the part from its stressed vowel on is     *)
(* taken, for the stress the resolver names and for the penultimate one,   *)
(* and the best edit distance between two such parts decides, unless the   *)
(* stressed syllables have nothing in common.                              *)
(*                                                                         *)
(* A word has its transcription in the field ipa, a sequence of letters.   *)
(* A similarity is a fraction, a pair of what agrees and what there is.    *)
(***************************************************************************)
EXTENDS MeterValidation, Loops

Vowels == {"a", "e", "i", "o", "u", "I"}

\* vowel_positions.
VowelPositions(ipa) == {i \in DOMAIN ipa : ipa[i] \in Vowels}

Suffix(ipa, i) == SubSeq(ipa, i, Len(ipa))

-----------------------------------------------------------------------------
\* Edit distance and similarity.

Least(x, y) == IF x <= y THEN x ELSE y

\* Mutant of ReplacementCost: the condition is the wrong way round.
ReplacementCostInverted(x, y) == IF x = y THEN 1 ELSE 0

ReplacementCost(x, y) == IF x = y THEN 0 ELSE 1

\* levenshtein_distance: the longer word goes down the table, of which row i tells what
\* it takes to make its first i letters into each prefix of the other.
Distance(x, y) ==
  LET a == IF Len(x) < Len(y) THEN y ELSE x
      b == IF Len(x) < Len(y) THEN x ELSE y
      table[i \in 0 .. Len(a)] ==
        LET previous == table[i - 1]
            row[j \in 0 .. Len(b)] ==
              IF j = 0 THEN i
              ELSE Least(Least(row[j - 1] + 1, previous[j] + 1),
                         previous[j - 1] + ReplacementCost(a[i], b[j]))
        IN  IF i = 0 THEN [j \in 0 .. Len(b) |-> j] ELSE row
  IN  table[Len(a)][Len(b)]

Longer(a, b) == IF Len(a) < Len(b) THEN Len(b) ELSE Len(a)

\* normalized_similarity.
Similarity(a, b) ==
  IF a = <<>> /\ b = <<>> THEN <<1, 1>>
  ELSE <<Longer(a, b) - Distance(a, b), Longer(a, b)>>

AtLeast(similarity, percent) == 100 * similarity[1] >= percent * similarity[2]

Closer(similarity, other) == similarity[1] * other[2] > other[1] * similarity[2]

-----------------------------------------------------------------------------
\* The parts of two words that are compared.

\* The vowel that n others precede.
VowelAt(ipa, n) ==
  CHOOSE i \in VowelPositions(ipa) : Cardinality({j \in VowelPositions(ipa) : j < i}) = n

\* Mutant of RhymePart: a stress beyond the last vowel leaves nothing.
RhymePartUnclamped(word, stress) ==
  IF stress >= word.syllables THEN <<>>
  ELSE Suffix(word.ipa, VowelAt(word.ipa, stress))

\* rhyme_part: from the stressed vowel on, the last one if there are too few.
RhymePart(word, stress) ==
  LET count == Cardinality(VowelPositions(word.ipa))
  IN  IF count = 0 THEN word.ipa
      ELSE Suffix(word.ipa, VowelAt(word.ipa, Least(stress, count - 1)))

Penultimate(word) == IF word.syllables >= 2 THEN word.syllables - 2 ELSE 0

\* _rhyme_candidates: the part by the resolved stress and, if it is another one
\* and not empty, the part by the penultimate.
Candidates(word) ==
  LET first  == RhymePart(word, Resolve(word))
      second == RhymePart(word, Penultimate(word))
  IN  IF second = <<>> \/ second = first THEN <<first>> ELSE <<first, second>>

StressedVowel(part) ==
  IF VowelPositions(part) = {} THEN <<>> ELSE <<part[Min(VowelPositions(part))]>>

\* The consonants between the stressed vowel and the next vowel or the end.
StressedConsonants(part) ==
  IF VowelPositions(part) = {} THEN <<>>
  ELSE LET first == Min(VowelPositions(part))
           next  == Min((VowelPositions(part) \ {first}) \cup {Len(part) + 1})
       IN  SubSeq(part, first + 1, next - 1)

\* _stressed_syllables_align: the stressed vowels are the same or the consonants
\* after them nearly are; words that share an inflection only do not rhyme.
Align(a, b) ==
  \/ StressedVowel(a) = <<>> \/ StressedVowel(b) = <<>>
  \/ StressedVowel(a) = StressedVowel(b)
  \/ /\ StressedConsonants(a) # <<>> /\ StressedConsonants(b) # <<>>
     /\ AtLeast(Similarity(StressedConsonants(a), StressedConsonants(b)), 75)

\* _suffix_aligned_score.
Score(a, b) == IF a = <<>> \/ b = <<>> THEN <<0, 1>> ELSE Similarity(a, b)

-----------------------------------------------------------------------------
\* The verdict on a pair of words.

Channel(part, vowels) ==
  Filter(part, IF vowels THEN Vowels ELSE ToSet(part) \ Vowels)

\* _classify_precision, on the ends of equal length of the two parts.
Precision(a, b) ==
  LET n == IF Len(a) < Len(b) THEN Len(a) ELSE Len(b)
      \* of the vowels (TRUE) and the consonants (FALSE), those that are alike
      alike == {vowels \in BOOLEAN :
                  AtLeast(Similarity(Channel(Suffix(a, Len(a) - n + 1), vowels),
                                     Channel(Suffix(b, Len(b) - n + 1), vowels)), 75)}
  IN  IF n = 0 THEN "NONE"
      ELSE IF AtLeast(Score(a, b), 95) THEN "EXACT"
      ELSE CASE alike = {TRUE}         -> "ASSONANCE"
             [] alike = {FALSE}        -> "CONSONANCE"
             [] Cardinality(alike) # 1 -> IF Score(a, b)[1] > 0 THEN "INEXACT" ELSE "NONE"

\* What is found of two parts.
Rating(a, b) ==
  [a |-> a, b |-> b, aligned |-> Align(a, b), score |-> Score(a, b), precision |-> Precision(a, b)]

\* _detect_clausula: by the syllables after the stressed one.
Clausula(word) ==
  LET trailing == word.syllables - 1 - Resolve(word)
  IN  CASE word.syllables = 0 -> "UNKNOWN"
        [] OTHER -> CASE trailing <= 0 -> "MASCULINE"
                      [] trailing = 1  -> "FEMININE"
                      [] trailing = 2  -> "DACTYLIC"
                      [] trailing > 2  -> "HYPERDACTYLIC"

\* Mutant of Pairings: the penultimate stress of the second word is not tried.
PairingsOfFirst(ca, cb) == [i \in DOMAIN ca |-> <<ca[i], cb[1]>>]

\* Every candidate of the one word with every candidate of the other, in order.
Pairings(ca, cb) ==
  [i \in 1 .. Len(ca) * Len(cb) |->
     <<ca[((i - 1) \div Len(cb)) + 1], cb[((i - 1) % Len(cb)) + 1]>>]

\* analyze: of the pairs of candidates that align the first of the closest; the first
\* of all, with a score of zero, when none do.  (It reports the clausulas as well.)
Analyze(wordA, wordB) ==
  LET ca      == Candidates(wordA)
      cb      == Candidates(wordB)
      rating  == [pair \in ToSet(ca) \X ToSet(cb) |-> Rating(pair[1], pair[2])]
      rated   == [k \in DOMAIN Pairings(ca, cb) |-> rating[Pairings(ca, cb)[k]]]
      aligned == {k \in DOMAIN rated : rated[k].aligned}
      closest == {k \in aligned : \A m \in aligned : ~ Closer(rated[m].score, rated[k].score)}
  IN  IF aligned = {}
      THEN [a |-> ca[1], b |-> cb[1], aligned |-> FALSE, score |-> <<0, 1>>,
            precision |-> "NONE"]
      ELSE rated[Min(closest)]

RhymeThreshold == 55

Rhyme(wordA, wordB) == AtLeast(Analyze(wordA, wordB).score, RhymeThreshold)

\* The ends of two lines rhyme if both have a last word and these rhyme.
LinesRhyme(line, other) ==
  /\ line # <<>> /\ other # <<>>
  /\ Rhyme(Last(line), Last(other))

=============================================================================
