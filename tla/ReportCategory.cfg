\* A component that raises the number of iterations is named as one that helps.
CONSTANTS
  Unit = 2
  Batches <- MCBatches
  Values <- MCValues
  MaxAnalyses = 2
  MaxResumes = 1
SPECIFICATION Spec
INVARIANT
  CategoryWinnerHelps
