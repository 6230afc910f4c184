\* Retries disabled, without a limit and with a budget; waits that reach the cap.
CONSTANTS
  HasLogin = TRUE
  RetryInterval = 2
  MaxInterval = 5
  Budgets = {0, 2}
SPECIFICATION FairSpec
INVARIANTS ClientTypeOK PublishedIsCurrent FlagsFollowAnswer DownWhenDone BudgetKept
  ShownFollowsAnswer
PROPERTIES LoginRecovers DisconnectEnds
