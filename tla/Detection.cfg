\* Every combination of aspects, on short texts and on poems of two and three quatrains.
CONSTANTS
  AllowedMismatches = 2
  NoAnswer = NoAnswer
  MeterMinPercent = 85
  RhymeMinPercent = 50
  FeetMin = 1
  FeetMax = 6
  SampleLines = 4
  None = None
  Blank = Blank
  Poems <- MCPoems
  Scan <- MCScan
  RhymeOk <- MCRhymeOk
SPECIFICATION Spec
INVARIANTS
  EveryLineShownOnce
  StanzaSchemeIsJustified
  MonorhymeIffSchemesAgree
  ScanningStanzaGetsMeter
CHECK_DEADLOCK FALSE
