\* One caller, two calls of two attempts, with a provider that may outlive the
\* deadline: threads leaked by the first call are still running in the second.
SPECIFICATION Spec
CONSTANTS
  Callers = {c1}
  MaxCalls = 2
  MaxAttempts = 2
  SlowProvider = TRUE
  OmitsUsage = {1}
  NoAttempt = NoAttempt
VIEW ControlView
INVARIANTS
  TypeOK
  FreshAnswer
  QuotaIsFinal
  FailsOnlyWhenSpent
  SingleLiveAttempt
  LoneCallIsTraced
PROPERTY
  EveryCallReturns
