\* The success of a draft that needs no feedback.
CONSTANTS
  a = a
  b = b
  x = x
  stub = stub
  Lines <- MCLines
  Stubs <- MCStubs
  Metrical <- MCMetrical
  Rhyming <- MCRhyming
  Scheme <- MCScheme
  Responses <- MCResponses
  ExpectedLines = 4
  MaxRounds = 2
  Usages = {3}
  OmitsUsage = {2}
  None = None
SPECIFICATION Spec
INVARIANT
  ValidDraftIsSuccess
