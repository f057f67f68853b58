\* A crash cuts the row being written, and the batch is resumed.
CONSTANTS
  c1 = c1
  c2 = c2
  c3 = c3
  Cells <- MCCells
  Matrices <- MCOneMatrix
  AllowFresh = FALSE
  TornWrites = TRUE
  MaxInvocations = 2
  NoRow = NoRow
SPECIFICATION Spec
INVARIANT
  CorruptLineIsRerun
