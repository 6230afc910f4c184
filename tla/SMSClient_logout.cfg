\* A poll in flight while the user logs out.
CONSTANTS
  HasLogin = TRUE
  RetryInterval = 1
  MaxInterval = 1
  Budgets = {0}
SPECIFICATION Spec
PROPERTY LogoutSticks
