\* Two numbers under fairness: through failures, one stop and one crash.
CONSTANTS
  d1 = d1  d2 = d2  s1 = s1  s2 = s2  p1 = p1
  Msgs <- MCTwo
  Numbers = {d1, d2}
  DIDs <- MCBothDIDs
  DidOf <- MCTwoNumbers
  MMS = {p1}
  DayLen = 2
  Lookback = 1
  MaxRange = 3
  StartupBackfill = 3
  FetchSpan = 1
  Answered = {d2}
  MaxNow = 3
  MaxStops = 1
SPECIFICATION FairSpec
PROPERTIES EveryMessageHanded
