SPECIFICATION RetrySpec
CONSTANTS
  Procs = {p1, p2}
  maxFailures = 2
  timeout = 1
  maxHalfOpenRequests = 1
  MaxNow = 4
  MaxAttempts = 3
  InitialDelay = 1
  MaxDelay = 2
  BreakerWait = 2
  Texts <- SomeTexts
SYMMETRY Symmetric
INVARIANTS RetryTypeOK ClosedBelowLimit NeverLockedOut WaitBounded
PROPERTIES RestsAfterFailure RefusedAnew
