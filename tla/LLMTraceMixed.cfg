\* Two request threads, one attempt each, no timeouts.
SPECIFICATION Spec
CONSTANTS
  Callers = {c1, c2}
  MaxCalls = 1
  MaxAttempts = 1
  SlowProvider = FALSE
  OmitsUsage = {}
  NoAttempt = NoAttempt
INVARIANT TraceOfThisCall
