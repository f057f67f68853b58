SPECIFICATION Spec
CONSTANTS
  None = None
  Environments <- MCEnvironments
  Requests <- MCRequests
INVARIANT TwinsAnswerAlike
INVARIANT ShownProviderServes
