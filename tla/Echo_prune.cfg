\* A day later, a reaction prunes the entry of the first.
CONSTANTS
  a1 = a1  a2 = a2  b1 = b1  f1 = f1  h1 = h1  h2 = h2
  text = text  other = other
  Rows <- MCPrunes
  Sends <- MCSends
  PartsOf <- MCParts
  Reactions = {other}
  Outgoing <- MCOwn
  Fallbacks <- MCOwnReaction
  Quotes <- MCQuotesText
  Removes = {}
  Recent = 2
  DayLen = 2
  Lookback = 1
  Backfill = 1
  MaxRange = 10
  TTL = 2
  QueueCap = 2
  MaxSends = 2
  MaxRows = 3
  MaxNow = 5
  MaxRestarts = 0
SPECIFICATION Spec
PROPERTIES MarkedStaysOut
