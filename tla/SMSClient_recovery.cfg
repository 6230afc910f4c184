\* The bridge state after a rejection in mid-run.
CONSTANTS
  HasLogin = TRUE
  RetryInterval = 1
  MaxInterval = 1
  Budgets = {0}
SPECIFICATION Spec
INVARIANT SuccessShown
