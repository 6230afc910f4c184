\* Two accounts, two numbers, two starts, three login attempts.
CONSTANTS
  x = x  y = y  d1 = d1  d2 = d2
  Apis = {x, y}
  DIDs = {d1, d2}
  MaxContents = 4
  MaxStarts = 2
  MaxClients = 2
  MaxTries = 3
SYMMETRY MCSymmetry
SPECIFICATION Spec
INVARIANTS TypeOK LoginsLoad StoredAsVerified NothingLeftBehind
CHECK_DEADLOCK FALSE
