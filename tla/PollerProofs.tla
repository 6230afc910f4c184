---------------------------- MODULE PollerProofs ----------------------------
(***************************************************************************)
(* The poll loop is type correct, hands over the texts of a number and the *)
(* segments of each in order, stores only cursors it has reached, and      *)
(* never moves a cursor past a message that was not delivered: for every   *)
(* set of messages and numbers, every day length and overlap, every clock. *)
(***************************************************************************)
EXTENDS Poller, TLAPS

-----------------------------------------------------------------------------
(* Days.                                                                   *)

\* Later instants fall on the same day or a later one.
LEMMA DayMonotone ==
  ASSUME NEW s \in Int, NEW t \in Int, s <= t
  PROVE  Day(s) \in Int /\ Day(t) \in Int /\ Day(s) <= Day(t)
BY DayAssumption DEF Day

LEMMA DayInt ==
  ASSUME NEW t \in Int
  PROVE  Day(t) \in Int
BY DayAssumption DEF Day

-----------------------------------------------------------------------------
(* Types.                                                                  *)

\* While a number is polled, the position names one.
LEMMA DidType ==
  ASSUME TypeOK, pos <= Len(DIDs)
  PROVE  Did \in Numbers
<1>1. Len(DIDs) \in Nat
  BY DIDsAssumption
<1>2. pos \in 1 .. Len(DIDs)
  BY <1>1 DEF TypeOK
<1> QED
  BY <1>2, DIDsAssumption DEF Did

\* A query starts at some instant.
LEMMA QueryStartType ==
  ASSUME NEW c \in Nat, NEW t \in Nat
  PROVE  QueryStart(c, t) \in Int
BY SpanAssumption, RangeAssumption, DayAssumption
   DEF QueryStart, BackfillSpan, Backfill

\* A step of the goroutine or of its surroundings keeps every variable's type.
LEMMA TypeStep == TypeOK /\ [Next]_vars => TypeOK'
<1> SUFFICES ASSUME TypeOK, [Next]_vars PROVE TypeOK'
  OBVIOUS
<1> USE DEF TypeOK, Positions
<1>0. Len(DIDs) \in Nat
  BY DIDsAssumption
<1>1. CASE AdvanceClock
  BY <1>1 DEF AdvanceClock, poll, channels, durable
<1>2. ASSUME NEW m \in Msgs, Arrive(m) PROVE TypeOK'
  BY <1>2 DEF Arrive, poll, channels, durable
<1>3. CASE TriggerPoll
  BY <1>3 DEF TriggerPoll, server, poll, durable
<1>4. CASE TickerFires
  BY <1>4 DEF TickerFires, server, poll, durable
<1>5. CASE Cancel
  BY <1>5 DEF Cancel, server, poll, channels, durable
<1>6. CASE Crash
  <2>1. pos' \in 1 .. Len(DIDs) + 1
    BY <1>6, <1>0 DEF Crash
  <2>2. /\ loaded' \in Nat /\ newest' \in Nat /\ to' \in Nat /\ from' \in Int
        /\ todo' \subseteq Msgs
    BY <1>6 DEF Crash, LocalsGone
  <2>3. ctxDone' \in BOOLEAN /\ trigger' \in BOOLEAN /\ tick' \in BOOLEAN
    BY <1>6 DEF Crash
  <2> QED
    BY <1>6, <2>1, <2>2, <2>3 DEF Crash, server, durable
<1>7. CASE Start
  BY <1>7, <1>0 DEF Start, server, poll, channels, durable
<1>8. CASE WakeOnTick
  BY <1>8, <1>0 DEF WakeOnTick, server, poll, durable
<1>9. CASE WakeOnTrigger
  BY <1>9, <1>0 DEF WakeOnTrigger, server, poll, durable
<1>10. CASE Return
  BY <1>10 DEF Return, server, poll, durable
<1>11. CASE EndSweep
  BY <1>11, <1>0 DEF EndSweep, server, poll, channels, durable
<1>12. CASE CursorLoad
  <2>1. cursor[Did] \in Nat
    BY <1>12, DidType DEF CursorLoad, Polling
  <2>2. QueryStart(cursor[Did], now) \in Int
    BY <2>1, QueryStartType
  <2> QED
    BY <1>12, <2>1, <2>2 DEF CursorLoad, server, channels, durable
<1>13. ASSUME NEW step, Fail(step) PROVE TypeOK'
  BY <1>13, <1>0 DEF Fail, Polling, NextDID, LocalsGone, server, channels, durable
<1>14. CASE FetchMMS
  BY <1>14, DIDsAssumption DEF FetchMMS, Listed, server, channels, durable
<1>15. CASE FetchSMS
  BY <1>15 DEF FetchSMS, Listed, SMS, server, channels, durable
<1>16. ASSUME NEW m \in Msgs, HandOver(m) PROVE TypeOK'
  BY <1>16 DEF HandOver, server, channels
<1>17. CASE HandOverFails
  BY <1>17 DEF HandOverFails, server, poll, channels, durable
<1>18. CASE CursorSave
  <2>1. Day(from) \in Int
    BY DayInt
  <2>2. cursor' \in [Numbers -> Nat] /\ base' \in [Numbers -> Int]
    BY <1>18, <2>1 DEF CursorSave
  <2>3. pos' \in 1 .. Len(DIDs) + 1
    BY <1>18, <1>0 DEF CursorSave, BatchDone, Polling, NextDID
  <2> QED
    BY <1>18, <2>2, <2>3
       DEF CursorSave, NextDID, LocalsGone, server, channels
<1>19. CASE NothingToSave
  BY <1>19, <1>0
     DEF NothingToSave, BatchDone, Polling, NextDID, LocalsGone, server,
         channels, durable
<1>20. CASE UNCHANGED vars
  BY <1>20 DEF vars, server, poll, channels, durable
<1> QED
  BY <1>1, <1>2, <1>3, <1>4, <1>5, <1>6, <1>7, <1>8, <1>9, <1>10, <1>11, <1>12,
     <1>13, <1>14, <1>15, <1>16, <1>17, <1>18, <1>19, <1>20
     DEF Next, Run, CursorLoadFails, FetchFails, CursorSaveFails

\* The initial values have their types.
LEMMA InitType == Init => TypeOK
<1>1. Len(DIDs) \in Nat
  BY DIDsAssumption
<1>2. Init => ctxDone \in BOOLEAN /\ trigger \in BOOLEAN /\ tick \in BOOLEAN
  BY DEF Init
<1>3. Init => todo \subseteq Msgs /\ handed \subseteq Msgs
  BY DEF Init
<1> QED
  BY <1>1, <1>2, <1>3 DEF Init, TypeOK, Positions

\* Every variable keeps its type for ever.
THEOREM TypeCorrect == Spec => []TypeOK
BY InitType, TypeStep, PTL DEF Spec

-----------------------------------------------------------------------------
(* The inductive invariant.                                                *)

Fetching == pc \in {"mms", "sms"}
Fetched  == pc \in {"deliver", "save"}

\* The API's rows: dated in the past, numbered below the next ID; only rows
\* that exist are handed over.
RowsOK ==
  /\ now >= 1
  /\ \A m \in Msgs : date[m] <= now /\ rowId[m] < nextId
  /\ \A m \in handed : date[m] # 0

\* The locals of a poll under way: the query it made, from the cursor that is
\* still the stored one, not long ago while it waits for the API.
QueryOK ==
  Fetching \/ Fetched =>
    /\ pos <= Len(DIDs)
    /\ loaded = cursor[Did]
    /\ from = QueryStart(loaded, to)
    /\ to <= now
    /\ Fetching => now - to <= FetchSpan /\ newest = loaded

\* The rows it holds are of its number and not dated long after the query.
TodoOK ==
  /\ ~(pc = "sms" \/ Fetched) => todo = {}
  /\ pc = "sms" => todo \subseteq MMS
  /\ \A m \in todo : /\ DidOf[m] = Did
                     /\ date[m] # 0
                     /\ date[m] <= to + FetchSpan

\* It has seen every row of its number, but for those before its range and
\* those that arrived after the query.
SeenOK ==
  /\ pc = "sms" => \A m \in MMS : DidOf[m] = Did /\ Pending(m) =>
       m \in todo \/ Day(date[m]) < Day(from) \/ date[m] >= to
  /\ Fetched => \A m \in Msgs : DidOf[m] = Did /\ Pending(m) =>
       m \in todo \/ Day(date[m]) < Day(from) \/ date[m] >= to

\* newest is the cursor or the date of a row it handed over, which no row it
\* still holds precedes.
NewestOK ==
  Fetched /\ newest # loaded =>
    /\ newest <= to + FetchSpan
    /\ \A m \in todo : newest <= date[m]
    /\ \E m \in handed : DidOf[m] = Did /\ date[m] = newest

\* The segments of one text are handed over or held together.
SegmentsOK ==
  Fetched => \A m, n \in SMS :
    /\ DidOf[m] = DidOf[n] /\ date[m] = date[n] /\ rowId[m] < rowId[n]
    /\ n \in todo
    => m \in handed \/ m \in todo

IInv == /\ TypeOK /\ RowsOK /\ QueryOK /\ TodoOK /\ SeenOK /\ NewestOK
        /\ SegmentsOK /\ SegmentOrder /\ CursorWasHanded /\ NothingSkipped

-----------------------------------------------------------------------------
(* Facts about query ranges.                                               *)

\* A row on or after the day the overlap of cursor c starts is asked for at t,
\* or too old to be.
LEMMA OverlapReached ==
  ASSUME NEW c \in Nat, c # 0, NEW t \in Nat, NEW x \in Int,
         Day(c - Lookback) <= Day(x)
  PROVE  Day(QueryStart(c, t)) <= Day(x) \/ Day(x) < Day(t - MaxRange)
<1>1. Day(x) \in Int /\ Day(t - MaxRange) \in Int
  BY DayInt, RangeAssumption
<1>2. QueryStart(c, t) = c - Lookback \/ QueryStart(c, t) = t - MaxRange
  BY DEF QueryStart
<1> QED
  BY <1>1, <1>2

\* And what is asked for is not before that day.
LEMMA ReachedInOverlap ==
  ASSUME NEW c \in Nat, c # 0, NEW t \in Nat, NEW x \in Int,
         Day(QueryStart(c, t)) <= Day(x)
  PROVE  Day(c - Lookback) <= Day(x)
<1>1. c - Lookback \in Int /\ QueryStart(c, t) \in Int
  BY QueryStartType, SpanAssumption
<1>2. c - Lookback <= QueryStart(c, t)
  BY <1>1, RangeAssumption, SpanAssumption DEF QueryStart
<1>3. Day(c - Lookback) <= Day(QueryStart(c, t))
  BY <1>1, <1>2, DayMonotone
<1> QED
  BY <1>1, <1>3, DayInt

\* The range of a number with a cursor starts later as time passes.
LEMMA QueryStartMonotone ==
  ASSUME NEW c \in Nat, c # 0, NEW s \in Nat, NEW t \in Nat, s <= t
  PROVE  QueryStart(c, s) <= QueryStart(c, t)
BY SpanAssumption, RangeAssumption DEF QueryStart

-----------------------------------------------------------------------------
(* Steps that disturb nothing the invariant is about.                      *)

\* Only the channels, the context or the stop count change.
LEMMA SignalStep ==
  ASSUME IInv, TypeOK', UNCHANGED <<server, poll, durable, pc, pos>>
  PROVE  IInv'
<1> USE DEF server, poll, durable, IInv
<1>1. RowsOK' /\ QueryOK' /\ TodoOK'
  BY DEF RowsOK, QueryOK, TodoOK, Fetching, Fetched, Did
<1>2. SeenOK' /\ NewestOK' /\ SegmentsOK'
  BY DEF SeenOK, NewestOK, SegmentsOK, Fetched, Did, Pending
<1>3. SegmentOrder' /\ CursorWasHanded'
  BY DEF SegmentOrder, CursorWasHanded
<1>4. NothingSkipped'
  BY DEF NothingSkipped, Pending, InReach, BeforeBackfill, Expired
<1> QED
  BY <1>1, <1>2, <1>3, <1>4

\* The goroutine ends a poll without saving, or moves where no poll is under
\* way.
LEMMA RestStep ==
  ASSUME IInv, TypeOK', UNCHANGED <<server, durable>>,
         pc' \in {"off", "idle", "sweep"}, todo' = {}
  PROVE  IInv'
<1> USE DEF server, durable, IInv
<1>1. ~Fetching' /\ ~Fetched' /\ pc' # "sms"
  BY DEF Fetching, Fetched
<1>2. RowsOK' /\ QueryOK' /\ TodoOK' /\ SeenOK' /\ NewestOK' /\ SegmentsOK'
  BY <1>1 DEF RowsOK, QueryOK, TodoOK, SeenOK, NewestOK, SegmentsOK
<1>3. SegmentOrder' /\ CursorWasHanded'
  BY DEF SegmentOrder, CursorWasHanded
<1>4. NothingSkipped'
  BY DEF NothingSkipped, Pending, InReach, BeforeBackfill, Expired
<1> QED
  BY <1>2, <1>3, <1>4

-----------------------------------------------------------------------------
(* The surroundings: the clock and the API's rows.                         *)

\* As the clock advances, a row leaves the reach of the next poll only by
\* becoming too old for the API.
LEMMA ClockStep ==
  ASSUME IInv, TypeOK', AdvanceClock
  PROVE  IInv'
<1> USE DEF AdvanceClock, poll, channels, durable, IInv
<1>0. now \in Nat /\ now' = now + 1 /\ to \in Nat
  BY DEF TypeOK
<1>1. RowsOK'
  BY <1>0 DEF RowsOK, TypeOK
<1>2. QueryOK'
  BY <1>0, SpanAssumption DEF QueryOK, Fetching, Fetched, Did
<1>3. TodoOK' /\ NewestOK' /\ SegmentsOK'
  BY DEF TodoOK, NewestOK, SegmentsOK, Fetched, Did
<1>4. SeenOK'
  BY DEF SeenOK, Fetched, Did, Pending
<1>5. SegmentOrder' /\ CursorWasHanded'
  BY DEF SegmentOrder, CursorWasHanded
<1>6. NothingSkipped'
  <2> SUFFICES ASSUME NEW m \in Msgs, Pending(m), cursor[DidOf[m]] # 0,
                      ~BeforeBackfill(m)
               PROVE  InReach(m)' \/ Expired(m)'
    BY DEF NothingSkipped, Pending, BeforeBackfill
  <2>1. date[m] \in Int /\ DidOf[m] \in Numbers /\ cursor[DidOf[m]] \in Nat
    BY DIDsAssumption DEF TypeOK
  <2>2. CASE InReach(m)
    <3>1. Day(cursor[DidOf[m]] - Lookback) <= Day(date[m])
      BY <1>0, <2>1, <2>2, ReachedInOverlap DEF InReach
    <3> QED
      BY <1>0, <2>1, <3>1, OverlapReached DEF InReach, Expired
  <2>3. CASE Expired(m)
    <3>1. now - MaxRange \in Int /\ now' - MaxRange \in Int
          /\ now - MaxRange <= now' - MaxRange
      BY <1>0, RangeAssumption
    <3>2. Day(now - MaxRange) <= Day(now' - MaxRange)
      BY <3>1, DayMonotone
    <3> QED
      BY <2>1, <2>3, <3>1, <3>2, DayInt DEF Expired
  <2> QED
    BY <2>2, <2>3 DEF NothingSkipped
<1> QED
  BY <1>1, <1>2, <1>3, <1>4, <1>5, <1>6

\* A row that arrives is dated now: after every query under way, and within
\* the overlap of every cursor.
LEMMA ArriveStep ==
  ASSUME IInv, TypeOK', NEW r \in Msgs, Arrive(r)
  PROVE  IInv'
<1> USE DEF Arrive, poll, channels, durable, IInv
<1>0. /\ now \in Nat /\ nextId \in Nat /\ nextId' = nextId + 1 /\ date[r] = 0
      /\ date'[r] = now /\ rowId'[r] = nextId
      /\ \A m \in Msgs : m # r => date'[m] = date[m] /\ rowId'[m] = rowId[m]
      /\ now >= 1
  BY DEF TypeOK, RowsOK
<1>00. /\ \A m \in Msgs : date[m] \in Nat /\ rowId[m] \in Nat
       /\ todo \subseteq Msgs /\ handed \subseteq Msgs
  BY DEF TypeOK
<1>1. RowsOK'
  BY <1>0, <1>00 DEF RowsOK
<1>2. QueryOK'
  BY DEF QueryOK, Fetching, Fetched, Did
<1>3. r \notin todo /\ r \notin handed
  BY <1>0 DEF TodoOK, RowsOK
<1>4. TodoOK' /\ NewestOK'
  BY <1>0, <1>00, <1>3 DEF TodoOK, NewestOK, Fetched, Did
<1>5. SegmentsOK' /\ SegmentOrder'
  <2>1. \A n \in Msgs : rowId[n] < nextId
    BY DEF RowsOK
  <2>2. ASSUME NEW m \in SMS, NEW n \in SMS, n \in todo \/ n \in handed,
               date'[m] = date'[n], rowId'[m] < rowId'[n]
        PROVE  date[m] = date[n] /\ rowId[m] < rowId[n]
    <3>1. m \in Msgs /\ n \in Msgs /\ n # r
      BY <1>3, <2>2 DEF SMS
    <3>2. m # r
      BY <1>0, <1>00, <2>1, <2>2, <3>1
    <3> QED
      BY <1>0, <2>2, <3>1, <3>2
  <2>3. SegmentOrder'
    BY <2>2 DEF SegmentOrder
  <2>4. SegmentsOK'
    BY <2>2 DEF SegmentsOK, Fetched
  <2> QED
    BY <2>3, <2>4
<1>6. SeenOK'
  <2>1. Fetching \/ Fetched => now >= to
    BY DEF QueryOK, TypeOK
  <2> QED
    BY <1>0, <2>1 DEF SeenOK, Fetching, Fetched, Did, Pending
<1>7. CursorWasHanded'
  BY <1>0, <1>00, <1>3 DEF CursorWasHanded
<1>8. NothingSkipped'
  <2>1. \A m \in Msgs : m # r => (InReach(m)' <=> InReach(m))
                                 /\ (Expired(m)' <=> Expired(m))
                                 /\ (BeforeBackfill(m)' <=> BeforeBackfill(m))
                                 /\ (Pending(m)' <=> Pending(m))
    BY <1>0 DEF InReach, Expired, BeforeBackfill, Pending
  <2>2. ASSUME cursor[DidOf[r]] # 0
        PROVE  InReach(r)' \/ Expired(r)'
    <3>1. DidOf[r] \in Numbers /\ cursor[DidOf[r]] \in Nat
      BY DIDsAssumption DEF TypeOK
    <3>2. cursor[DidOf[r]] <= now
      BY <1>00, <2>2, <3>1 DEF CursorWasHanded, RowsOK
    <3>3. cursor[DidOf[r]] - Lookback \in Int /\ cursor[DidOf[r]] - Lookback <= now
      BY <1>0, <3>1, <3>2, SpanAssumption
    <3>4. Day(cursor[DidOf[r]] - Lookback) <= Day(now)
      BY <1>0, <3>3, DayMonotone
    <3> QED
      BY <1>0, <2>2, <3>1, <3>4, OverlapReached DEF InReach, Expired
  <2> QED
    BY <2>1, <2>2 DEF NothingSkipped
<1> QED
  BY <1>1, <1>2, <1>4, <1>5, <1>6, <1>7, <1>8

-----------------------------------------------------------------------------
(* pollDID.                                                                *)

\* The parts of the invariant that only the API's rows and the database can
\* disturb.
LEMMA DurableUntouched ==
  ASSUME IInv, UNCHANGED <<server, durable>>
  PROVE  RowsOK' /\ SegmentOrder' /\ CursorWasHanded' /\ NothingSkipped'
<1> USE DEF server, durable, IInv
<1>1. RowsOK' /\ SegmentOrder' /\ CursorWasHanded'
  BY DEF RowsOK, SegmentOrder, CursorWasHanded
<1>2. NothingSkipped'
  BY DEF NothingSkipped, Pending, InReach, BeforeBackfill, Expired
<1> QED
  BY <1>1, <1>2

\* A poll begins with the query its cursor asks for, and no row.
LEMMA LoadStep ==
  ASSUME IInv, TypeOK', CursorLoad
  PROVE  IInv'
<1>1. pc' = "mms" /\ todo' = {} /\ Did' = Did
  BY DEF CursorLoad, Did
<1>2. QueryOK'
  BY <1>1, SpanAssumption
     DEF CursorLoad, Polling, QueryOK, Fetching, Fetched, IInv, TypeOK, durable,
         server
<1>3. TodoOK' /\ SeenOK' /\ NewestOK' /\ SegmentsOK'
  BY <1>1 DEF TodoOK, SeenOK, NewestOK, SegmentsOK, Fetched
<1>4. UNCHANGED <<server, durable>>
  BY DEF CursorLoad
<1> QED
  BY <1>2, <1>3, <1>4, DurableUntouched DEF IInv

\* A row of the number that the API lists to neither call is before the range
\* or arrived after the query.
LEMMA ListedOrLate ==
  ASSUME TypeOK, NEW m \in Msgs, NEW kind, m \in kind, Pending(m),
         DidOf[m] = Did, m \notin Listed(Did, kind)
  PROVE  Day(date[m]) < Day(from) \/ date[m] >= to
<1>1. date[m] \in Nat /\ from \in Int /\ to \in Nat
  BY DEF TypeOK
<1>2. Day(date[m]) < Day(from) \/ Day(date[m]) > Day(to)
  BY <1>1, DayInt DEF Listed, Pending
<1>3. date[m] < to => Day(date[m]) <= Day(to)
  BY <1>1, DayMonotone
<1> QED
  BY <1>1, <1>2, <1>3, DayInt

\* The MMS rows listed now are of the number and dated up to now.
LEMMA FetchMMSStep ==
  ASSUME IInv, TypeOK', FetchMMS
  PROVE  IInv'
<1> USE DEF FetchMMS, Polling, IInv
<1>1. /\ UNCHANGED <<server, durable, loaded, from, to, newest, pos>>
      /\ pc = "mms" /\ pc' = "sms" /\ Did' = Did /\ todo' = Listed(Did, MMS)
  BY DEF Did
<1>2. QueryOK'
  BY <1>1 DEF QueryOK, Fetching, Fetched, server, durable
<1>3. TodoOK'
  <2>1. \A m \in Msgs : date[m] <= to + FetchSpan
    BY SpanAssumption DEF QueryOK, Fetching, RowsOK, TypeOK
  <2>2. \A m \in todo' : m \in MMS /\ m \in Msgs /\ DidOf[m] = Did /\ date[m] # 0
    BY <1>1, DIDsAssumption DEF Listed
  <2> QED
    BY <1>1, <2>1, <2>2 DEF TodoOK, server
<1>4. SeenOK'
  <2>1. \A m \in MMS : DidOf[m] = Did /\ Pending(m) =>
          m \in todo' \/ Day(date[m]) < Day(from) \/ date[m] >= to
    BY <1>1, DIDsAssumption, ListedOrLate
  <2> QED
    BY <1>1, <2>1 DEF SeenOK, Fetched, Pending, server, durable
<1>5. NewestOK' /\ SegmentsOK'
  BY <1>1 DEF NewestOK, SegmentsOK, Fetched
<1> QED
  BY <1>1, <1>2, <1>3, <1>4, <1>5, DurableUntouched

\* With the SMS rows the poll has seen all of its number; the segments of one
\* text are on one day, so they are listed together.
LEMMA FetchSMSStep ==
  ASSUME IInv, TypeOK', FetchSMS
  PROVE  IInv'
<1> USE DEF FetchSMS, Polling, IInv
<1>1. /\ UNCHANGED <<server, durable, loaded, from, to, newest, pos>>
      /\ pc = "sms" /\ pc' = "deliver" /\ Did' = Did
      /\ todo' = todo \cup Listed(Did, SMS)
  BY DEF Did
<1>2. QueryOK'
  BY <1>1 DEF QueryOK, Fetching, Fetched, server, durable
<1>3. TodoOK'
  <2>1. \A m \in Msgs : date[m] <= to + FetchSpan
    BY SpanAssumption DEF QueryOK, Fetching, RowsOK, TypeOK
  <2>2. \A m \in Listed(Did, SMS) : m \in Msgs /\ DidOf[m] = Did /\ date[m] # 0
    BY DEF Listed, SMS
  <2> QED
    BY <1>1, <2>1, <2>2 DEF TodoOK, Fetched, server
<1>4. SeenOK'
  <2>1. \A m \in Msgs : DidOf[m] = Did /\ Pending(m) =>
          m \in todo' \/ Day(date[m]) < Day(from) \/ date[m] >= to
    <3> SUFFICES ASSUME NEW m \in Msgs, DidOf[m] = Did, Pending(m)
                 PROVE  m \in todo' \/ Day(date[m]) < Day(from) \/ date[m] >= to
      OBVIOUS
    <3>1. CASE m \in MMS
      BY <1>1, <3>1 DEF SeenOK
    <3>2. CASE m \in SMS
      BY <1>1, <3>2, ListedOrLate
    <3> QED
      BY <3>1, <3>2 DEF SMS
  <2> QED
    BY <1>1, <2>1 DEF SeenOK, Fetched, Pending, server, durable
<1>5. NewestOK'
  BY <1>1 DEF NewestOK, QueryOK, Fetching
<1>6. SegmentsOK'
  <2> SUFFICES ASSUME NEW m \in SMS, NEW n \in SMS, DidOf[m] = DidOf[n],
                      date[m] = date[n], n \in todo'
               PROVE  m \in todo'
    BY <1>1 DEF SegmentsOK, server, durable
  <2>1. n \in Listed(Did, SMS)
    BY <1>1 DEF TodoOK, SMS
  <2> QED
    BY <1>1, <2>1 DEF Listed
<1> QED
  BY <1>1, <1>2, <1>3, <1>4, <1>5, <1>6, DurableUntouched

\* The row OnMessage accepts is the first of those left: the segments before
\* it have been accepted, and newest precedes what is left.
LEMMA HandOverStep ==
  ASSUME IInv, TypeOK', NEW r \in Msgs, HandOver(r)
  PROVE  IInv'
<1> USE DEF HandOver, Polling, IInv
<1>1. /\ UNCHANGED <<server, loaded, from, to, pc, pos, cursor, base>>
      /\ pc = "deliver" /\ Did' = Did /\ Fetched /\ ~Fetching
      /\ r \in todo /\ todo' = todo \ {r} /\ handed' = handed \cup {r}
      /\ DidOf[r] = Did /\ date[r] # 0 /\ date[r] <= to + FetchSpan
  BY DEF Did, Fetched, Fetching, TodoOK
<1>2. /\ todo \subseteq Msgs
      /\ \A m \in Msgs : date[m] \in Nat /\ rowId[m] \in Nat
      /\ newest \in Nat /\ loaded \in Nat /\ to \in Nat
  BY DEF TypeOK
<1>3. RowsOK' /\ QueryOK' /\ TodoOK'
  BY <1>1 DEF RowsOK, QueryOK, TodoOK, Fetching, Fetched, server
<1>4. SeenOK'
  BY <1>1 DEF SeenOK, Fetched, Pending, server
<1>5. NewestOK'
  <2>1. \A m \in todo : date[r] <= date[m]
    BY <1>1, <1>2 DEF Precedes
  <2>2. CASE date[r] > newest
    BY <1>1, <1>2, <2>1, <2>2 DEF NewestOK, Fetched, server
  <2>3. CASE ~(date[r] > newest)
    BY <1>1, <1>2, <2>3 DEF NewestOK, Fetched, server
  <2> QED
    BY <2>2, <2>3
<1>6. SegmentsOK'
  BY <1>1 DEF SegmentsOK, Fetched, server
<1>7. SegmentOrder'
  <2> SUFFICES ASSUME NEW m \in SMS, r \in SMS, DidOf[m] = DidOf[r],
                      date[m] = date[r], rowId[m] < rowId[r]
               PROVE  m \in handed
    BY <1>1 DEF SegmentOrder, server
  <2>1. m \in Msgs
    BY DEF SMS
  <2>2. m \notin todo
    BY <1>1, <1>2, <2>1 DEF Precedes
  <2> QED
    BY <1>1, <2>2 DEF SegmentsOK
<1>8. CursorWasHanded'
  BY <1>1 DEF CursorWasHanded, server
<1>9. NothingSkipped'
  BY <1>1 DEF NothingSkipped, Pending, InReach, BeforeBackfill, Expired, server
<1> QED
  BY <1>3, <1>4, <1>5, <1>6, <1>7, <1>8, <1>9

\* OnMessage fails: the rows left stay with the poll until it has saved.
LEMMA HandOverFailsStep ==
  ASSUME IInv, TypeOK', HandOverFails
  PROVE  IInv'
<1> USE DEF HandOverFails, Polling, IInv
<1>1. /\ UNCHANGED <<server, poll, durable, pos>> /\ Did' = Did
      /\ pc = "deliver" /\ pc' = "save"
  BY DEF Did
<1>2. QueryOK' /\ TodoOK' /\ NewestOK'
  BY <1>1 DEF QueryOK, TodoOK, NewestOK, Fetching, Fetched, server, poll, durable
<1>3. SeenOK' /\ SegmentsOK'
  BY <1>1 DEF SeenOK, SegmentsOK, Fetched, Pending, server, poll, durable
<1> QED
  BY <1>1, <1>2, <1>3, DurableUntouched

\* The cursor moves to newest.  A row of the number that was not accepted is
\* still held, so not before newest; or arrived after the query, so at most
\* FetchSpan before newest; or is before the range the old cursor gave.
LEMMA CursorSaveStep ==
  ASSUME IInv, TypeOK', CursorSave
  PROVE  IInv'
<1> USE DEF CursorSave, IInv
<1>1. /\ UNCHANGED server /\ handed' = handed /\ now' = now
      /\ Fetched /\ pos <= Len(DIDs) /\ pc' = "sweep" /\ todo' = {}
      /\ newest > loaded
  BY DEF BatchDone, Polling, Fetched, NextDID, LocalsGone, server
<1>2. ~Fetching' /\ ~Fetched' /\ pc' # "sms"
  BY <1>1 DEF Fetching, Fetched
<1>3. RowsOK' /\ QueryOK' /\ TodoOK' /\ SeenOK' /\ NewestOK' /\ SegmentsOK'
  BY <1>1, <1>2 DEF RowsOK, QueryOK, TodoOK, SeenOK, NewestOK, SegmentsOK, server
<1>4. SegmentOrder'
  BY <1>1 DEF SegmentOrder, server
<1>5. Did \in Numbers
  BY <1>1, DidType
<1>6. /\ newest \in Nat /\ loaded \in Nat /\ to \in Nat /\ from \in Int
      /\ now \in Nat /\ newest # 0 /\ newest # loaded
      /\ \A m \in Msgs : date[m] \in Nat /\ DidOf[m] \in Numbers
      /\ cursor \in [Numbers -> Nat] /\ base \in [Numbers -> Int]
  <2>1. \A m \in Msgs : date[m] \in Nat /\ DidOf[m] \in Numbers
    BY DIDsAssumption DEF TypeOK
  <2>2. newest \in Nat /\ loaded \in Nat /\ newest # 0 /\ newest # loaded
    BY <1>1 DEF TypeOK
  <2> QED
    BY <2>1, <2>2 DEF TypeOK
<1>7. /\ cursor'[Did] = newest
      /\ \A d \in Numbers : d # Did => cursor'[d] = cursor[d] /\ base'[d] = base[d]
  BY <1>5, <1>6
<1>8. CursorWasHanded'
  BY <1>1, <1>6, <1>7 DEF CursorWasHanded, NewestOK, server
<1>9. ASSUME NEW m \in Msgs, Pending(m), DidOf[m] = Did
      PROVE  InReach(m)' \/ BeforeBackfill(m)' \/ Expired(m)'
  <2>1. m \in todo \/ Day(date[m]) < Day(from) \/ date[m] >= to
    BY <1>1, <1>9 DEF SeenOK
  <2>2. CASE m \in todo \/ date[m] >= to
    <3>1. newest - Lookback <= date[m]
      BY <1>1, <1>6, <2>2, SpanAssumption DEF NewestOK
    <3>2. newest - Lookback \in Int /\ date[m] \in Int
      BY <1>6, SpanAssumption
    <3>3. Day(newest - Lookback) <= Day(date[m])
      BY <3>1, <3>2, DayMonotone
    <3>4. Day(QueryStart(newest, now)) <= Day(date[m])
          \/ Day(date[m]) < Day(now - MaxRange)
      BY <1>6, <3>2, <3>3, OverlapReached
    <3> QED
      BY <1>1, <1>7, <1>9, <3>4 DEF InReach, Expired, server
  <2>3. CASE Day(date[m]) < Day(from) /\ loaded = 0
    <3>1. base'[Did] = Day(from)
      BY <1>1, <1>5, <1>6, <2>3 DEF QueryOK
    <3> QED
      BY <1>1, <1>6, <1>7, <1>9, <2>3, <3>1 DEF BeforeBackfill, server
  <2>4. CASE Day(date[m]) < Day(from) /\ loaded # 0
    <3>1. loaded = cursor[Did] /\ from = QueryStart(loaded, to) /\ to <= now
      BY <1>1 DEF QueryOK
    <3>2. base' = base
      BY <2>4, <3>1
    <3>3. QueryStart(loaded, to) <= QueryStart(loaded, now)
      BY <1>6, <2>4, <3>1, QueryStartMonotone
    <3>4. Day(from) <= Day(QueryStart(loaded, now))
          /\ Day(QueryStart(loaded, now)) \in Int
      BY <1>6, <3>1, <3>3, QueryStartType, DayMonotone
    <3>5. ~InReach(m)
      BY <1>6, <1>9, <2>4, <3>1, <3>4, DayInt DEF InReach
    <3>6. BeforeBackfill(m) \/ Expired(m)
      BY <1>9, <2>4, <3>1, <3>5 DEF NothingSkipped
    <3> QED
      BY <1>1, <1>6, <1>7, <1>9, <3>2, <3>6
         DEF BeforeBackfill, Expired, server
  <2> QED
    BY <2>1, <2>2, <2>3, <2>4
<1>10. NothingSkipped'
  <2> SUFFICES ASSUME NEW m \in Msgs, Pending(m), cursor'[DidOf[m]] # 0
               PROVE  InReach(m)' \/ BeforeBackfill(m)' \/ Expired(m)'
    BY <1>1 DEF NothingSkipped, Pending, server
  <2>1. CASE DidOf[m] = Did
    BY <1>9, <2>1
  <2>2. CASE DidOf[m] # Did
    <3>1. cursor'[DidOf[m]] = cursor[DidOf[m]] /\ base'[DidOf[m]] = base[DidOf[m]]
      BY <1>6, <1>7, <2>2
    <3>2. InReach(m) \/ BeforeBackfill(m) \/ Expired(m)
      BY <3>1 DEF NothingSkipped
    <3> QED
      BY <1>1, <3>1, <3>2 DEF InReach, BeforeBackfill, Expired, server
  <2> QED
    BY <2>1, <2>2
<1> QED
  BY <1>3, <1>4, <1>8, <1>10

-----------------------------------------------------------------------------
(* The invariant and the theorems.                                         *)

\* The inductive invariant holds initially: nothing has a date or a cursor.
LEMMA InitInv == Init => IInv
<1> SUFFICES ASSUME Init PROVE IInv
  OBVIOUS
<1>1. TypeOK
  BY InitType
<1>2. ~Fetching /\ ~Fetched /\ pc # "sms" /\ todo = {} /\ handed = {}
  BY DEF Init, Fetching, Fetched
<1>3. RowsOK /\ QueryOK /\ TodoOK /\ SeenOK /\ NewestOK /\ SegmentsOK
  BY <1>2 DEF Init, RowsOK, QueryOK, TodoOK, SeenOK, NewestOK, SegmentsOK
<1>4. SegmentOrder /\ CursorWasHanded
  BY <1>2 DEF Init, SegmentOrder, CursorWasHanded
<1>5. NothingSkipped
  BY DEF Init, NothingSkipped, Pending
<1> QED
  BY <1>1, <1>3, <1>4, <1>5 DEF IInv

\* Every step of the goroutine and of its surroundings keeps the inductive
\* invariant: one case per action of Next.
LEMMA InvStep == IInv /\ [Next]_vars => IInv'
<1> SUFFICES ASSUME IInv, [Next]_vars PROVE IInv'
  OBVIOUS
<1>0. TypeOK'
  BY TypeStep DEF IInv
<1>1. CASE AdvanceClock
  BY <1>0, <1>1, ClockStep
<1>2. ASSUME NEW m \in Msgs, Arrive(m) PROVE IInv'
  BY <1>0, <1>2, ArriveStep
<1>3. CASE TriggerPoll \/ TickerFires \/ Cancel \/ UNCHANGED vars
  <2>1. UNCHANGED <<server, poll, durable, pc, pos>>
    BY <1>3 DEF TriggerPoll, TickerFires, Cancel, vars
  <2> QED
    BY <1>0, <2>1, SignalStep
<1>4. CASE Start \/ WakeOnTick \/ WakeOnTrigger \/ Return \/ EndSweep
  <2>1. /\ UNCHANGED <<server, durable, todo>>
        /\ pc \in {"off", "idle", "sweep"} /\ pc' \in {"off", "idle", "sweep"}
    BY <1>4 DEF Start, WakeOnTick, WakeOnTrigger, Return, EndSweep, poll
  <2>2. todo' = {}
    BY <2>1 DEF IInv, TodoOK, Fetched
  <2> QED
    BY <1>0, <2>1, <2>2, RestStep
<1>5. CASE Crash \/ NothingToSave
  <2>1. /\ UNCHANGED <<server, durable>>
        /\ pc' \in {"off", "idle", "sweep"} /\ todo' = {}
    BY <1>5 DEF Crash, NothingToSave, NextDID, LocalsGone
  <2> QED
    BY <1>0, <2>1, RestStep
<1>6. ASSUME NEW step, Fail(step) PROVE IInv'
  <2>1. /\ UNCHANGED <<server, durable>>
        /\ pc' \in {"off", "idle", "sweep"} /\ todo' = {}
    BY <1>6 DEF Fail, NextDID, LocalsGone
  <2> QED
    BY <1>0, <2>1, RestStep
<1>7. CASE CursorLoad
  BY <1>0, <1>7, LoadStep
<1>8. CASE FetchMMS
  BY <1>0, <1>8, FetchMMSStep
<1>9. CASE FetchSMS
  BY <1>0, <1>9, FetchSMSStep
<1>10. ASSUME NEW m \in Msgs, HandOver(m) PROVE IInv'
  BY <1>0, <1>10, HandOverStep
<1>11. CASE HandOverFails
  BY <1>0, <1>11, HandOverFailsStep
<1>12. CASE CursorSave
  BY <1>0, <1>12, CursorSaveStep
<1> QED
  BY <1>1, <1>2, <1>3, <1>4, <1>5, <1>6, <1>7, <1>8, <1>9, <1>10, <1>11, <1>12
     DEF Next, Run, CursorLoadFails, FetchFails, CursorSaveFails

\* The inductive invariant holds in every reachable state.
THEOREM Invariant == Spec => []IInv
BY InitInv, InvStep, PTL DEF Spec

\* Once a number has a cursor, no row OnMessage has not accepted falls out of
\* the range of the next poll, but for rows older than the backfill or than
\* the API's limit.
THEOREM NothingIsSkipped == Spec => []NothingSkipped
<1>1. IInv => NothingSkipped
  BY DEF IInv
<1> QED
  BY <1>1, Invariant, PTL

\* Segments with one timestamp are accepted in the order of their IDs.
THEOREM SegmentsInOrder == Spec => []SegmentOrder
<1>1. IInv => SegmentOrder
  BY DEF IInv
<1> QED
  BY <1>1, Invariant, PTL

\* A stored cursor is the date of an accepted row.
THEOREM CursorsReached == Spec => []CursorWasHanded
<1>1. IInv => CursorWasHanded
  BY DEF IInv
<1> QED
  BY <1>1, Invariant, PTL

-----------------------------------------------------------------------------
(* The order of the texts.                                                 *)

\* The text m is older than n, of the same number.
Older(m, n) == DidOf[m] = DidOf[n] /\ date[m] < date[n]

\* A poll that holds a text holds the older ones of its range or has handed
\* them over.
TextsHeld ==
  Fetched => \A m, n \in SMS :
    Older(m, n) /\ Pending(m) /\ n \in todo
      => m \in todo \/ Day(date[m]) < Day(from)

\* A text that was overtaken before its number has a cursor is before the range
\* of the poll under way, whose first day the cursor's base becomes.
OvertakenBefore ==
  (Fetching \/ Fetched) /\ loaded = 0 => \A m, n \in SMS :
    Older(m, n) /\ DidOf[m] = Did /\ Pending(m) /\ n \in handed
      => Day(date[m]) < Day(from)

OrderInv == TextsHeld /\ OvertakenBefore /\ TextsInOrder

\* What is too old to be asked for stays so.
LEMMA ExcusedStays ==
  ASSUME TypeOK, NEW m \in Msgs, Excused(m), now' \in Nat, now <= now',
         date' = date, cursor' = cursor, base' = base
  PROVE  Excused(m)'
<1>1. now \in Nat /\ date[m] \in Int /\ now - MaxRange \in Int /\ now' - MaxRange \in Int
  BY RangeAssumption DEF TypeOK
<1>2. BeforeBackfill(m) => BeforeBackfill(m)'
  BY DEF BeforeBackfill
<1>3. Expired(m) => Expired(m)'
  <2>1. Day(now - MaxRange) <= Day(now' - MaxRange)
    BY <1>1, RangeAssumption, DayMonotone
  <2> QED
    BY <1>1, <2>1, DayInt DEF Expired
<1>4. BackfillMissed(m) => BackfillMissed(m)'
  <2>1. QueryStart(0, now) \in Int /\ QueryStart(0, now') \in Int
    BY <1>1, QueryStartType
  <2>2. QueryStart(0, now) <= QueryStart(0, now')
    BY <1>1, RangeAssumption, DayAssumption DEF QueryStart, BackfillSpan, Backfill
  <2>3. Day(QueryStart(0, now)) <= Day(QueryStart(0, now'))
    BY <2>1, <2>2, DayMonotone
  <2> QED
    BY <1>1, <2>1, <2>3, DayInt DEF BackfillMissed
<1> QED
  BY <1>2, <1>3, <1>4 DEF Excused

\* A row that a poll does not ask for is too old.
LEMMA BeforeRangeExcused ==
  ASSUME IInv, Fetching \/ Fetched, NEW m \in Msgs, DidOf[m] = Did, Pending(m),
         Day(date[m]) < Day(from)
  PROVE  Excused(m)
<1> USE DEF IInv
<1>1. /\ loaded = cursor[Did] /\ from = QueryStart(loaded, to) /\ to <= now
      /\ Did \in Numbers
  BY DidType DEF QueryOK
<1>2. /\ now \in Nat /\ to \in Nat /\ loaded \in Nat /\ date[m] \in Int
      /\ QueryStart(loaded, now) \in Int /\ QueryStart(loaded, to) \in Int
  <2>1. now \in Nat /\ to \in Nat /\ loaded \in Nat /\ date[m] \in Int
    BY DEF TypeOK
  <2> QED
    BY <2>1, QueryStartType
<1>3. QueryStart(loaded, to) <= QueryStart(loaded, now)
  BY <1>1, <1>2, RangeAssumption, DayAssumption, SpanAssumption
     DEF QueryStart, BackfillSpan, Backfill
<1>4. Day(date[m]) < Day(QueryStart(loaded, now))
  BY <1>1, <1>2, <1>3, DayMonotone, DayInt
<1>5. CASE loaded = 0
  BY <1>1, <1>4, <1>5 DEF BackfillMissed, Excused
<1>6. CASE loaded # 0
  <2>1. ~InReach(m)
    BY <1>1, <1>2, <1>4, DayInt DEF InReach
  <2> QED
    BY <1>1, <1>6, <2>1 DEF NothingSkipped, Excused
<1> QED
  BY <1>5, <1>6

\* Steps that leave rows, cursors and the clock as they are, in a poll or at its
\* end.
LEMMA OrderKept ==
  ASSUME IInv, OrderInv, UNCHANGED <<server, durable>>,
         \/ UNCHANGED <<pos, from, loaded, todo>> /\ (Fetched' => Fetched)
              /\ (Fetching' \/ Fetched' => Fetching \/ Fetched)
         \/ pc' \in {"off", "idle", "sweep"}
  PROVE  OrderInv'
<1> USE DEF server, durable, OrderInv
<1>1. TextsInOrder'
  BY DEF TextsInOrder, Pending, Excused, BeforeBackfill, Expired, BackfillMissed
<1>2. CASE pc' \in {"off", "idle", "sweep"}
  BY <1>1, <1>2 DEF TextsHeld, OvertakenBefore, Fetched, Fetching
<1>3. CASE UNCHANGED <<pos, from, loaded, todo>> /\ (Fetched' => Fetched)
             /\ (Fetching' \/ Fetched' => Fetching \/ Fetched)
  <2>1. Did' = Did
    BY <1>3 DEF Did
  <2> QED
    BY <1>1, <1>3, <2>1 DEF TextsHeld, OvertakenBefore, Older, Pending
<1> QED
  BY <1>2, <1>3

LEMMA ClockKeepsOrder ==
  ASSUME IInv, OrderInv, AdvanceClock
  PROVE  OrderInv'
<1> USE DEF AdvanceClock, poll, channels, durable, OrderInv
<1>1. TextsInOrder'
  <2>1. now' \in Nat /\ now <= now' /\ TypeOK
    BY DEF IInv, TypeOK
  <2>2. \A m \in SMS : m \in Msgs
    BY DEF SMS
  <2> QED
    BY <2>1, <2>2, ExcusedStays DEF TextsInOrder, Pending
<1>2. TextsHeld' /\ OvertakenBefore'
  BY DEF TextsHeld, OvertakenBefore, Older, Pending, Fetched, Fetching, Did
<1> QED
  BY <1>1, <1>2

\* A row that arrives is no older than the others.
LEMMA ArriveKeepsOrder ==
  ASSUME IInv, OrderInv, NEW r \in Msgs, Arrive(r)
  PROVE  OrderInv'
<1> USE DEF Arrive, poll, channels, durable, OrderInv, IInv
<1>1. /\ date'[r] = now /\ \A m \in Msgs : m # r => date'[m] = date[m]
      /\ \A m \in Msgs : date[m] <= now /\ date[m] \in Nat
      /\ now \in Nat /\ r \notin handed /\ r \notin todo
  BY DEF TypeOK, RowsOK, TodoOK
<1>2. ASSUME NEW m \in SMS, NEW n \in SMS, Older(m, n)', Pending(m)',
             n \in handed \/ n \in todo
      PROVE  m # r /\ n # r /\ Older(m, n) /\ Pending(m) /\ date'[m] = date[m]
  <2>1. m \in Msgs /\ n \in Msgs
    BY DEF SMS
  <2>2. n # r /\ date'[n] = date[n]
    BY <1>1, <1>2, <2>1
  <2>3. m # r /\ date'[m] = date[m]
    BY <1>1, <1>2, <2>1, <2>2 DEF Older
  <2> QED
    BY <1>2, <2>2, <2>3 DEF Older, Pending
<1>3. TextsInOrder'
  <2> SUFFICES ASSUME NEW m \in SMS, NEW n \in SMS, Older(m, n)', Pending(m)',
                      n \in handed
               PROVE  Excused(m)'
    BY DEF TextsInOrder, Older
  <2>1. Older(m, n) /\ Pending(m) /\ date'[m] = date[m]
    BY <1>2
  <2>2. Excused(m)
    BY <2>1 DEF TextsInOrder, Older
  <2> QED
    BY <2>1, <2>2 DEF Excused, BeforeBackfill, Expired, BackfillMissed
<1>4. TextsHeld'
  <2> SUFFICES ASSUME Fetched, NEW m \in SMS, NEW n \in SMS, Older(m, n)', Pending(m)',
                      n \in todo
               PROVE  m \in todo \/ Day(date'[m]) < Day(from)
    BY DEF TextsHeld, Fetched
  <2> QED
    BY <1>2 DEF TextsHeld
<1>5. OvertakenBefore'
  <2> SUFFICES ASSUME Fetching \/ Fetched, loaded = 0, NEW m \in SMS, NEW n \in SMS,
                      Older(m, n)', DidOf[m] = Did, Pending(m)', n \in handed
               PROVE  Day(date'[m]) < Day(from)
    BY DEF OvertakenBefore, Fetched, Fetching, Did
  <2> QED
    BY <1>2 DEF OvertakenBefore
<1> QED
  BY <1>3, <1>4, <1>5

\* A poll without a cursor begins after what was overtaken before.
LEMMA LoadKeepsOrder ==
  ASSUME IInv, OrderInv, CursorLoad
  PROVE  OrderInv'
<1> USE DEF CursorLoad, Polling, server, durable, OrderInv
<1>1. TextsInOrder'
  BY DEF TextsInOrder, Pending, Excused, BeforeBackfill, Expired, BackfillMissed
<1>2. TextsHeld'
  BY DEF TextsHeld, Fetched
<1>3. OvertakenBefore'
  <2> SUFFICES ASSUME NEW m \in SMS, NEW n \in SMS, Older(m, n), DidOf[m] = Did,
                      cursor[Did] = 0, Pending(m), n \in handed
               PROVE  Day(date[m]) < Day(QueryStart(0, now))
    BY DEF OvertakenBefore, Older, Pending, Did
  <2>1. Excused(m) /\ ~BeforeBackfill(m)
    BY DEF TextsInOrder, Older, BeforeBackfill
  <2>2. CASE BackfillMissed(m)
    BY <2>2 DEF BackfillMissed
  <2>3. CASE Expired(m)
    <3>1. now \in Nat /\ date[m] \in Int
      BY DEF IInv, TypeOK, SMS
    <3>2. /\ QueryStart(0, now) \in Int /\ now - MaxRange \in Int
          /\ now - MaxRange <= QueryStart(0, now)
      <4>1. QueryStart(0, now) \in Int
        BY <3>1, QueryStartType
      <4> QED
        BY <3>1, <4>1, RangeAssumption DEF QueryStart
    <3>3. /\ Day(now - MaxRange) <= Day(QueryStart(0, now))
          /\ Day(now - MaxRange) \in Int /\ Day(QueryStart(0, now)) \in Int
          /\ Day(date[m]) \in Int
      BY <3>1, <3>2, DayMonotone, DayInt
    <3>4. Day(date[m]) < Day(now - MaxRange)
      BY <2>3 DEF Expired
    <3> QED
      BY <3>3, <3>4
  <2> QED
    BY <2>1, <2>2, <2>3 DEF Excused
<1> QED
  BY <1>1, <1>2, <1>3

\* Texts are listed by one call, up to a day that no older text is after.
LEMMA FetchSMSKeepsOrder ==
  ASSUME IInv, OrderInv, FetchSMS
  PROVE  OrderInv'
<1> USE DEF FetchSMS, server, durable, OrderInv, IInv
<1>1. /\ pc = "sms" /\ pc' = "deliver" /\ Did' = Did /\ Fetching
      /\ todo \subseteq MMS
  BY DEF Did, Polling, Fetching, TodoOK
<1>2. TextsInOrder' /\ OvertakenBefore'
  BY <1>1 DEF TextsInOrder, OvertakenBefore, Older, Pending, Excused, BeforeBackfill,
              Expired, BackfillMissed
<1>3. TextsHeld'
  <2> SUFFICES ASSUME NEW m \in SMS, NEW n \in SMS, Older(m, n), Pending(m), n \in todo'
               PROVE  m \in todo' \/ Day(date[m]) < Day(from)
    BY DEF TextsHeld, Older, Pending
  <2>1. n \in Listed(Did, SMS)
    BY <1>1 DEF SMS
  <2>2. /\ date[m] \in Int /\ date[n] \in Int /\ from \in Int /\ to \in Int
    BY DEF TypeOK, SMS
  <2>3. /\ Day(date[m]) <= Day(date[n]) /\ Day(date[n]) <= Day(to)
        /\ DidOf[m] = Did /\ date[m] # 0
    BY <2>1, <2>2, DayMonotone DEF Older, Listed, Pending
  <2>4. m \in Listed(Did, SMS) \/ Day(date[m]) < Day(from)
    BY <2>2, <2>3, DayInt DEF Listed
  <2> QED
    BY <2>4
<1> QED
  BY <1>2, <1>3

\* The oldest row goes first.
LEMMA HandOverKeepsOrder ==
  ASSUME IInv, OrderInv, NEW r \in Msgs, HandOver(r)
  PROVE  OrderInv'
<1> USE DEF HandOver, Polling, server, OrderInv
<1>1. /\ UNCHANGED <<server, loaded, from, to, pc, pos, cursor, base>>
      /\ pc = "deliver" /\ Did' = Did /\ Fetched
      /\ r \in todo /\ todo' = todo \ {r} /\ handed' = handed \cup {r}
      /\ DidOf[r] = Did
  BY DEF Did, Fetched, IInv, TodoOK
<1>2. \A m \in SMS : m \in Msgs /\ date[m] \in Nat /\ date[r] \in Nat
  BY DEF IInv, TypeOK, SMS
<1>3. ASSUME NEW m \in SMS, r \in SMS, Older(m, r), Pending(m)
      PROVE  Day(date[m]) < Day(from)
  <2>1. m \notin todo
    BY <1>2, <1>3 DEF Precedes, Older
  <2> QED
    BY <1>1, <1>3, <2>1 DEF TextsHeld
<1>4. TextsInOrder'
  <2> SUFFICES ASSUME NEW m \in SMS, NEW n \in SMS, Older(m, n), Pending(m),
                      n \in handed \cup {r}
               PROVE  Excused(m)
    BY <1>1 DEF TextsInOrder, Older, Pending, Excused, BeforeBackfill, Expired,
                BackfillMissed
  <2>1. CASE n \in handed
    BY <2>1 DEF TextsInOrder, Older
  <2>2. CASE n = r
    <3>1. Day(date[m]) < Day(from) /\ DidOf[m] = Did
      BY <1>1, <1>3, <2>2 DEF Older
    <3> QED
      BY <1>1, <1>2, <3>1, BeforeRangeExcused
  <2> QED
    BY <2>1, <2>2
<1>5. TextsHeld'
  BY <1>1 DEF TextsHeld, Older, Pending, Fetched
<1>6. OvertakenBefore'
  BY <1>1, <1>3 DEF OvertakenBefore, Older, Pending, Fetched
<1> QED
  BY <1>4, <1>5, <1>6

\* The first cursor's base excuses what was overtaken.
LEMMA SaveKeepsOrder ==
  ASSUME IInv, OrderInv, CursorSave
  PROVE  OrderInv'
<1> USE DEF CursorSave, server, OrderInv, IInv
<1>1. /\ UNCHANGED <<date, rowId, now>> /\ handed' = handed
      /\ Fetched /\ pos <= Len(DIDs) /\ ~Fetched' /\ ~Fetching'
      /\ newest > loaded /\ loaded = cursor[Did]
  BY DEF BatchDone, Polling, Fetched, Fetching, NextDID, QueryOK
<1>2. /\ Did \in Numbers /\ newest # 0
      /\ cursor \in [Numbers -> Nat] /\ base \in [Numbers -> Int]
  BY <1>1, DidType DEF TypeOK
<1>3. TextsHeld' /\ OvertakenBefore'
  BY <1>1 DEF TextsHeld, OvertakenBefore
<1>4. TextsInOrder'
  <2> SUFFICES ASSUME NEW m \in SMS, NEW n \in SMS, Older(m, n), Pending(m), n \in handed
               PROVE  Excused(m)'
    BY <1>1 DEF TextsInOrder, Older, Pending
  <2>1. Excused(m) /\ DidOf[m] \in Numbers
    BY DIDsAssumption DEF TextsInOrder, Older, SMS
  <2>2. CASE DidOf[m] # Did
    <3>1. cursor'[DidOf[m]] = cursor[DidOf[m]] /\ base'[DidOf[m]] = base[DidOf[m]]
      BY <1>2, <2>1, <2>2
    <3> QED
      BY <1>1, <2>1, <3>1 DEF Excused, BeforeBackfill, Expired, BackfillMissed
  <2>3. CASE DidOf[m] = Did /\ cursor[Did] # 0
    <3>1. cursor'[Did] # 0 /\ base' = base
      BY <1>2, <2>3
    <3> QED
      BY <1>1, <2>1, <2>3, <3>1 DEF Excused, BeforeBackfill, Expired, BackfillMissed
  <2>4. CASE DidOf[m] = Did /\ cursor[Did] = 0
    <3>1. Day(date[m]) < Day(from)
      BY <1>1, <2>4 DEF OvertakenBefore
    <3>2. cursor'[Did] # 0 /\ base'[Did] = Day(from)
      BY <1>2, <2>4
    <3> QED
      BY <1>1, <2>4, <3>1, <3>2 DEF Excused, BeforeBackfill
  <2> QED
    BY <2>2, <2>3, <2>4
<1> QED
  BY <1>3, <1>4

LEMMA OrderStep == IInv /\ OrderInv /\ [Next]_vars => OrderInv'
<1> SUFFICES ASSUME IInv, OrderInv, [Next]_vars PROVE OrderInv'
  OBVIOUS
<1>1. ASSUME TriggerPoll \/ TickerFires \/ Cancel \/ HandOverFails \/ UNCHANGED vars
      PROVE  OrderInv'
  <2>1. /\ UNCHANGED <<server, durable, pos, from, loaded, todo>>
        /\ pc' = pc \/ (pc = "deliver" /\ pc' = "save")
    BY <1>1 DEF TriggerPoll, TickerFires, Cancel, HandOverFails, Polling, vars, poll
  <2> QED
    BY <2>1, OrderKept DEF Fetched, Fetching
<1>2. ASSUME \/ Start \/ WakeOnTick \/ WakeOnTrigger \/ Return \/ EndSweep \/ Crash
             \/ NothingToSave \/ (\E step \in {"sweep", "mms", "sms", "save", "deliver"} :
                                    Fail(step))
      PROVE  OrderInv'
  <2>1. UNCHANGED <<server, durable>> /\ pc' \in {"off", "idle", "sweep"}
    BY <1>2 DEF Start, WakeOnTick, WakeOnTrigger, Return, EndSweep, Crash, NothingToSave,
                Fail, NextDID
  <2> QED
    BY <2>1, OrderKept
<1>3. CASE FetchMMS
  <2>1. /\ UNCHANGED <<server, durable, pos, from, loaded>> /\ Did' = Did
        /\ Fetching /\ ~Fetched'
    BY <1>3 DEF FetchMMS, Polling, Did, Fetching, Fetched
  <2> QED
    BY <2>1 DEF OrderInv, TextsHeld, OvertakenBefore, TextsInOrder, Older, Pending,
                Excused, BeforeBackfill, Expired, BackfillMissed, server, durable
<1> QED
  BY <1>1, <1>2, <1>3, ClockKeepsOrder, ArriveKeepsOrder, LoadKeepsOrder,
     FetchSMSKeepsOrder, HandOverKeepsOrder, SaveKeepsOrder
     DEF Next, Run, CursorLoadFails, FetchFails, CursorSaveFails

\* No text overtakes an older one of its number, whatever fails and wherever the
\* process stops, but for those too old to be asked for.
THEOREM TextsArriveInOrder == Spec => []TextsInOrder
<1>1. Init => OrderInv
  BY DEF Init, OrderInv, TextsHeld, OvertakenBefore, TextsInOrder, Fetched, Fetching
<1>2. OrderInv => TextsInOrder
  BY DEF OrderInv
<1> QED
  BY <1>1, <1>2, OrderStep, Invariant, PTL DEF Spec

\* A cursor never goes back, and the day its number's deliveries began on stays:
\* what is too old for the backfill is decided once.
THEOREM CursorsAdvance ==
  Spec => [][\A d \in Numbers : /\ cursor[d] <= cursor'[d]
                                /\ cursor[d] # 0 => base'[d] = base[d]]_vars
<1>1. ASSUME IInv, [Next]_vars, NEW d \in Numbers
      PROVE  cursor[d] <= cursor'[d] /\ (cursor[d] # 0 => base'[d] = base[d])
  <2>1. cursor[d] \in Nat
    BY <1>1 DEF IInv, TypeOK
  <2>2. CASE CursorSave
    <3>1. Fetched /\ newest > loaded /\ cursor' = [cursor EXCEPT ![Did] = newest]
          /\ base' = IF cursor[Did] = 0 THEN [base EXCEPT ![Did] = Day(from)] ELSE base
      BY <2>2 DEF CursorSave, BatchDone, Polling, Fetched
    <3>2. loaded = cursor[Did] /\ newest \in Nat
          /\ cursor \in [Numbers -> Nat] /\ base \in [Numbers -> Int]
      BY <1>1, <3>1 DEF IInv, QueryOK, TypeOK
    <3> QED
      BY <2>1, <3>1, <3>2
  <2>3. CASE ~CursorSave
    <3>1. cursor' = cursor /\ base' = base
      BY <1>1, <2>3
         DEF Next, Run, AdvanceClock, Arrive, TriggerPoll, TickerFires, Cancel, Crash,
             Start, WakeOnTick, WakeOnTrigger, Return, EndSweep, CursorLoad,
             CursorLoadFails, FetchMMS, FetchSMS, FetchFails, HandOver, HandOverFails,
             CursorSaveFails, NothingToSave, Fail, vars, durable
    <3> QED
      BY <2>1, <3>1
  <2> QED
    BY <2>2, <2>3
<1>2. IInv /\ [Next]_vars =>
        \A d \in Numbers : /\ cursor[d] <= cursor'[d]
                           /\ cursor[d] # 0 => base'[d] = base[d]
  BY <1>1
<1> QED
  BY <1>2, Invariant, PTL DEF Spec
=============================================================================
