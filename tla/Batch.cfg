\* Fresh starts and resumes, crashes anywhere, torn rows.
CONSTANTS
  c1 = c1
  c2 = c2
  c3 = c3
  Cells <- MCCells
  Matrices <- MCMatrices
  AllowFresh = TRUE
  TornWrites = TRUE
  MaxInvocations = 3
  NoRow = NoRow
SPECIFICATION Spec
INVARIANTS
  OneRowPerCell
  FinishedIsComplete
  ResultsSurviveResume
  FailuresAreRetried
PROPERTIES
  SuccessNotRerun
  InvocationEnds
