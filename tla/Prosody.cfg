\* Every line of up to four words, and pairs of words that may rhyme.
CONSTANTS
  AllowedMismatches = 2
  NoAnswer = NoAnswer
  Nothing = Nothing
  Vocabulary <- MCVocabulary
  MaxWords = 4
  EndWords <- MCEndWords
  Feet <- MCFeet
SPECIFICATION CasesSpec
INVARIANTS
  OneWrongStressIsForgiven
  ValidatorsAgree
  DetectsOwnMeter
  DistanceIsFewestEdits
  RhymeIsSymmetric
  OneStressForMeterAndRhyme
CHECK_DEADLOCK FALSE
