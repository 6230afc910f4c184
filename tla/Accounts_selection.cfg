\* A selection with a bad entry, then another one.
CONSTANTS
  x = x  y = y  d1 = d1  d2 = d2
  Apis = {x, y}
  DIDs = {d1, d2}
  MaxContents = 4
  MaxStarts = 1
  MaxClients = 2
  MaxTries = 3
SYMMETRY MCSymmetry
SPECIFICATION Spec
INVARIANTS BridgedAsAsked
CHECK_DEADLOCK FALSE
