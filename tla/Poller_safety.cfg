\* Every order of arrivals, failures, cancellations and crashes on one number.
CONSTANTS
  d1 = d1  d2 = d2  s1 = s1  s2 = s2  p1 = p1
  Msgs <- MCMsgs
  Numbers = {d1}
  DIDs <- MCDIDs
  DidOf <- MCOneNumber
  MMS = {p1}
  DayLen = 2
  Lookback = 1
  MaxRange = 3
  StartupBackfill = 1
  FetchSpan = 1
  Answered = {}
  MaxNow = 6
  MaxStops = 1
SYMMETRY Segments
SPECIFICATION Spec
INVARIANTS TypeOK NothingSkipped SegmentOrder CursorWasHanded TextsInOrder
