\* The analysis of a batch, started up to twice, and the page built meanwhile.
CONSTANTS
  Unit = 2
  Batches <- MCBatches
  Values <- MCValues
  MaxAnalyses = 2
  MaxResumes = 1
SPECIFICATION Spec
INVARIANTS
  PageIsNeverAheadOfItsData
  EffectsAddUp
  RowsMeasureWhatTheyName
  VerdictsAgree
  ViewsCountTheSameRuns
