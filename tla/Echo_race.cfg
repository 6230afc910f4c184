\* The poll sees a part before it is marked.
CONSTANTS
  a1 = a1  a2 = a2  b1 = b1  f1 = f1  h1 = h1  h2 = h2
  text = text  other = other
  Rows <- MCTextRows
  Sends <- MCOneText
  PartsOf <- MCTextParts
  Reactions = {}
  Outgoing <- MCTextRows
  Fallbacks = {}
  Quotes <- MCNoQuotes
  Removes = {}
  Recent = 2
  DayLen = 2
  Lookback = 1
  Backfill = 1
  MaxRange = 10
  TTL = 2
  QueueCap = 2
  MaxSends = 1
  MaxRows = 3
  MaxNow = 1
  MaxRestarts = 0
SPECIFICATION Spec
INVARIANT NoPartComesBack
