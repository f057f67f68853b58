\* The whole pipeline under every ablation configuration and both front ends.
CONSTANTS
  a = a
  b = b
  x = x
  stub = stub
  Lines <- MCLines
  Stubs <- MCStubs
  Metrical <- MCMetrical
  Rhyming <- MCRhyming
  Scheme <- MCScheme
  Responses <- MCResponses
  ExpectedLines = 4
  MaxRounds = 2
  Usages = {3}
  OmitsUsage = {2}
  None = None
SPECIFICATION Spec
INVARIANTS
  RecordsDescribePoems
  OutcomeTellsTheRun
  CallsTellTheTruth
PROPERTIES
  AbortIsFinal
  UnflaggedLinesKept
  KeepsContract
  EveryRunEnds
