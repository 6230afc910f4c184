\* A text in two parts or a reaction, a reply, one restart, under fairness.
CONSTANTS
  a1 = a1  a2 = a2  b1 = b1  f1 = f1  h1 = h1  h2 = h2
  text = text  other = other
  Rows <- MCRows
  Sends <- MCSends
  PartsOf <- MCParts
  Reactions = {other}
  Outgoing <- MCOutgoing
  Fallbacks <- MCFallbacks
  Quotes <- MCQuotes
  Removes = {h2}
  Recent = 2
  DayLen = 2
  Lookback = 1
  Backfill = 1
  MaxRange = 2
  TTL = 2
  QueueCap = 2
  MaxSends = 1
  MaxRows = 3
  MaxNow = 3
  MaxRestarts = 1
SPECIFICATION FairSpec
INVARIANTS TypeOK FirstPartOnce CursorCovers LastReactionWins
PROPERTIES  KeepsInbox EchoesDropped
