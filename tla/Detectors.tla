------------------------------ MODULE Detectors ------------------------------
(***************************************************************************)
(* Which meter and which rhyme scheme is a text written in?  Both          *)
(* detectors try every candidate in a fixed order with the validator they  *)
(* are given and keep the best one that reaches a threshold.               *)
(*                                                                         *)
(* A text is a sequence of non-blank lines.  An accuracy is a fraction, a  *)
(* pair of what passed and what was tried.                                 *)
(***************************************************************************)
EXTENDS Integers, Sequences, FiniteSets, Functions, Loops, RhymeScheme

CONSTANTS
  Scan(_, _, _),    \* the meter validator: [ok, errors] of a line, a meter and its feet
  RhymeOk(_, _),    \* the rhyme validator: do the ends of two lines rhyme?
  MeterMinPercent,  \* meter_min_accuracy
  RhymeMinPercent,  \* rhyme_min_accuracy
  FeetMin, FeetMax, \* the feet the meter detector tries
  SampleLines,      \* lines a text must have to be classified
  None              \* nothing was detected

ASSUME DetectionAssumption ==
  /\ MeterMinPercent \in 0 .. 100
  /\ RhymeMinPercent \in 0 .. 100
  /\ FeetMin \in Nat \ {0} /\ FeetMax \in Nat /\ FeetMin <= FeetMax
  /\ SampleLines = 4

Reaches(accuracy, percent) == 100 * accuracy[1] >= percent * accuracy[2]

Higher(accuracy, other) == accuracy[1] * other[2] > other[1] * accuracy[2]

\* What a detector returns: the candidate it is left with, if it is.
Winner(tried, eligible, beats) ==
  LET best == FirstBest(Len(tried), eligible, beats)
  IN  IF best = 0 THEN None ELSE tried[best]

-----------------------------------------------------------------------------
\* Meter.

Meters == <<"iamb", "trochee", "dactyl", "amphibrach", "anapest">>

\* Every meter with every number of feet, in the order they are tried.
MeterSpecs(feetMin, feetMax) ==
  LET n == feetMax - feetMin + 1
  IN  [i \in 1 .. Len(Meters) * n |->
         [meter |-> Meters[((i - 1) \div n) + 1], feet |-> feetMin + ((i - 1) % n)]]

\* What the validator finds when a text is read in a meter: the share of its lines
\* that pass and the number of errors in all of them.
Reading(text, spec) ==
  LET result == [i \in DOMAIN text |-> Scan(text[i], spec.meter, spec.feet)]
      passed == {i \in DOMAIN text : result[i].ok}
  IN  [meter    |-> spec.meter,
       feet     |-> spec.feet,
       accuracy |-> IF text = <<>> THEN <<0, 1>> ELSE <<Cardinality(passed), Len(text)>>,
       errors   |-> SumOf([i \in DOMAIN text |-> Cardinality(result[i].errors)])]

Readings(text, feetMin, feetMax) ==
  LET specs == MeterSpecs(feetMin, feetMax)
  IN  [i \in DOMAIN specs |-> Reading(text, specs[i])]

\* Mutant of MoreConvincing: errors do not count.
MoreAccurate(reading, best) == Higher(reading.accuracy, best.accuracy)

\* The greater (accuracy, -errors).
MoreConvincing(reading, best) ==
  \/ Higher(reading.accuracy, best.accuracy)
  \/ /\ ~ Higher(best.accuracy, reading.accuracy)
     /\ reading.errors < best.errors

\* BruteForceMeterDetector.detect: of the readings that reach the threshold the most
\* convincing one, of equals the one tried first.
DetectMeter(text) ==
  LET readings == Readings(text, FeetMin, FeetMax)
  IN  Winner(readings,
             {i \in DOMAIN readings : Reaches(readings[i].accuracy, MeterMinPercent)},
             [i \in DOMAIN readings |->
                [j \in DOMAIN readings |-> MoreConvincing(readings[i], readings[j])]])

\* Mutant of BestGuessMeter: it has the detector's threshold.
BestGuessMeterStrict(text) == DetectMeter(text)

\* _best_guess_meter: the most accurate reading of 2 to 6 feet in which any line passes.
BestGuessMeter(text) ==
  LET readings == Readings(text, 2, 6)
  IN  Winner(readings,
             {i \in DOMAIN readings : readings[i].accuracy[1] # 0},
             [i \in DOMAIN readings |->
                [j \in DOMAIN readings |-> Higher(readings[i].accuracy, readings[j].accuracy)]])

-----------------------------------------------------------------------------
\* Rhyme.

\* The schemes in the order they are tried, the strictest first.
Schemes == <<"AAAA", "ABAB", "AABB", "ABBA">>

Letters == [AAAA |-> <<"A", "A", "A", "A">>, ABAB |-> <<"A", "B", "A", "B">>,
            AABB |-> <<"A", "A", "B", "B">>, ABBA |-> <<"A", "B", "B", "A">>]

\* No detection is no reading and no scheme.
ASSUME NoneAssumption ==
  /\ None \notin [meter : Range(Meters), feet : Nat, accuracy : Nat \X Nat, errors : Int]
  /\ None \notin [scheme : Range(Schemes), accuracy : Nat \X Nat]

\* The share of the pairs a scheme demands that rhyme; all of them when it demands none.
RhymeAccuracy(text, scheme) ==
  LET pairs == ExtractPairs(Letters[scheme], Len(text))
  IN  IF pairs = {} THEN <<1, 1>>
      ELSE <<Cardinality({p \in pairs : RhymeOk(text[p[1]], text[p[2]])}), Cardinality(pairs)>>

\* Mutant of BetterScheme: of equal schemes the last one wins.
NoWorseScheme(accuracy, best) == ~ Higher(best.accuracy, accuracy)

BetterScheme(accuracy, best) == Higher(accuracy, best.accuracy)

\* BruteForceRhymeDetector.detect.
DetectRhyme(text) ==
  LET tried == [i \in DOMAIN Schemes |->
                  [scheme |-> Schemes[i], accuracy |-> RhymeAccuracy(text, Schemes[i])]]
  IN  Winner(tried,
             {i \in DOMAIN tried : Reaches(tried[i].accuracy, RhymeMinPercent)},
             [i \in DOMAIN tried |->
                [j \in DOMAIN tried |-> BetterScheme(tried[i].accuracy, tried[j])]])

-----------------------------------------------------------------------------

\* DetectionService.detect: nothing for a text shorter than the sample.
Detect(text) ==
  IF Len(text) < SampleLines THEN [meter |-> None, rhyme |-> None]
  ELSE [meter |-> DetectMeter(text), rhyme |-> DetectRhyme(text)]

=============================================================================
