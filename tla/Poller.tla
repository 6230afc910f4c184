------------------------------- MODULE Poller -------------------------------
(***************************************************************************)
(* The VoIP.ms poll loop, pkg/voipms/poller.go, with the two API calls it  *)
(* makes per number (GetMessages in pkg/voipms/client.go).                 *)
(*                                                                         *)
(* The API only filters by whole days, so every poll re-fetches an overlap *)
(* and a persisted cursor per number (DID) remembers how far delivery got. *)
(* Time is counted in ticks; a day is DayLen ticks.  Messages are model    *)
(* values: the date and numeric ID the API gives a row are state, its body *)
(* is not.                                                                 *)
(***************************************************************************)
EXTENDS Integers, Sequences

CONSTANTS
  Msgs,        \* the rows the API may ever hold
  Numbers,     \* phone numbers
  DIDs,        \* Poller.DIDs: the numbers polled, in order
  DidOf,       \* the number each row belongs to
  MMS,         \* the rows getMMS lists; getSMS lists the others
  DayLen,      \* ticks in a day
  Lookback,    \* the 12 hours a poll steps back from the cursor
  MaxRange,    \* the 90 days a query may span
  StartupBackfill, \* the configured startup_backfill_hours, in ticks
  FetchSpan,   \* ticks the two API calls of one poll may take together
  Answered,    \* the numbers whose API and database calls are answered
  MaxNow,      \* bound: the clock stops here
  MaxStops     \* bound: cancellations and crashes

ASSUME DayAssumption == DayLen \in Nat /\ DayLen > 0
ASSUME DIDsAssumption == /\ DIDs \in Seq(Numbers)
                         /\ DidOf \in [Msgs -> Numbers] /\ MMS \subseteq Msgs
\* Each HTTP call times out after a minute: a fetch cannot outlast the overlap.
ASSUME SpanAssumption == /\ Lookback \in Nat /\ FetchSpan \in Nat
                         /\ FetchSpan <= Lookback
ASSUME RangeAssumption == MaxRange \in Nat /\ StartupBackfill \in Int

VARIABLES
  now,       \* the clock
  date,      \* API: the timestamp of each row, 0 while there is none
  rowId,     \* API: the numeric ID of each row
  nextId,    \* API: IDs increase monotonically
  cursor,    \* database: Cursor.LastDate per number, 0 is the zero time
  pc,        \* where the Run goroutine is
  pos,       \* index in DIDs of the number being polled
  ctxDone,   \* the context given to Run is cancelled
  trigger,   \* the trigger channel holds a nudge
  tick,      \* the ticker channel holds a tick
  loaded,    \* pollDID's cursor.LastDate
  from, to,  \* pollDID's query range
  newest,    \* pollDID's newest
  todo,      \* pollDID's msgs that OnMessage has not accepted yet
  handed,    \* history: the rows OnMessage has accepted
  base,      \* history: first day of the range that produced the first cursor
  stops      \* cancellations and crashes so far

server   == <<now, date, rowId, nextId>>
poll     == <<loaded, from, to, newest, todo>>
channels == <<trigger, tick>>
durable  == <<cursor, handed, base>>
vars == <<server, poll, channels, durable, pc, pos, ctxDone, stops>>

-----------------------------------------------------------------------------
(* Days, query ranges and the delivery order.                              *)

Day(t) == t \div DayLen

Did == DIDs[pos]

\* VoIPmsConfig.EffectiveBackfill, which the connector gives the poller.
Backfill == CASE StartupBackfill < 0 -> 0
              [] StartupBackfill = 0 -> DayLen
              [] StartupBackfill > 0 -> StartupBackfill

BackfillSpan == IF Backfill < 0 THEN 0 ELSE Backfill

\* The start of the range a poll at time t asks for when the cursor is c.
QueryStart(c, t) ==
  LET wanted == IF c = 0 THEN t - BackfillSpan ELSE c - Lookback
  IN  IF t - wanted > MaxRange THEN t - MaxRange ELSE wanted

\* The rows one API call of the poll of number d returns.
Listed(d, kind) ==
  {m \in kind : /\ date[m] # 0
                /\ DidOf[m] = d
                /\ Day(from) <= Day(date[m])
                /\ Day(date[m]) <= Day(to)}

SMS == Msgs \ MMS

\* Mutant: no tie-break within a second.
PrecedesByDate(m, n) == date[m] <= date[n]

\* Mutant: as the API lists them, newest first.
PrecedesListed(m, n) == date[m] >= date[n]

\* SortMessages: by date, then by numeric ID.
Precedes(m, n) == \/ date[m] < date[n]
                  \/ date[m] = date[n] /\ rowId[m] <= rowId[n]

-----------------------------------------------------------------------------
Init ==
  /\ now = 1
  /\ date = [m \in Msgs |-> 0]
  /\ rowId = [m \in Msgs |-> 0]
  /\ nextId = 1
  /\ cursor = [d \in Numbers |-> 0]
  /\ pc = "off"
  /\ pos = 1
  /\ ctxDone = FALSE
  /\ trigger = FALSE
  /\ tick = FALSE
  /\ loaded = 0 /\ from = 0 /\ to = 0 /\ newest = 0
  /\ todo = {}
  /\ handed = {}
  /\ base = [d \in Numbers |-> 0]
  /\ stops = 0

LocalsGone == loaded' = 0 /\ from' = 0 /\ to' = 0 /\ newest' = 0 /\ todo' = {}

(* The world outside the goroutine.                                        *)

\* Real time passes; the two API calls of one poll take at most FetchSpan.
AdvanceClock ==
  /\ now < MaxNow
  /\ pc \in {"mms", "sms"} => now - to < FetchSpan
  /\ now' = now + 1
  /\ UNCHANGED <<date, rowId, nextId, poll, channels, durable, pc, pos,
                 ctxDone, stops>>

\* VoIP.ms receives or sends a message and lists it from now on.
Arrive(m) ==
  /\ date[m] = 0
  /\ date' = [date EXCEPT ![m] = now]
  /\ rowId' = [rowId EXCEPT ![m] = nextId]
  /\ nextId' = nextId + 1
  /\ UNCHANGED <<now, poll, channels, durable, pc, pos, ctxDone, stops>>

\* TriggerPoll: a nil channel (no Run yet) drops the nudge, a full one
\* coalesces it.
TriggerPoll ==
  /\ trigger' = (pc # "off")
  /\ UNCHANGED <<server, poll, tick, durable, pc, pos, ctxDone, stops>>

TickerFires ==
  /\ pc # "off"
  /\ tick' = TRUE
  /\ UNCHANGED <<server, poll, trigger, durable, pc, pos, ctxDone, stops>>

\* Disconnect cancels the context while Run is wherever it is.
Cancel ==
  /\ pc # "off" /\ ~ctxDone /\ stops < MaxStops
  /\ ctxDone' = TRUE
  /\ stops' = stops + 1
  /\ UNCHANGED <<server, poll, channels, durable, pc, pos>>

\* The process dies: everything but the database is gone.
Crash ==
  /\ pc # "off" /\ stops < MaxStops
  /\ pc' = "off" /\ pos' = 1
  /\ ctxDone' = FALSE /\ trigger' = FALSE /\ tick' = FALSE
  /\ LocalsGone
  /\ stops' = stops + 1
  /\ UNCHANGED <<server, durable>>

-----------------------------------------------------------------------------
(* Run and pollOnce.                                                       *)

\* Connect: Run makes its channels, empty, and sweeps at once.
Start ==
  /\ pc = "off"
  /\ pc' = "sweep" /\ pos' = 1
  /\ UNCHANGED <<server, poll, channels, durable, ctxDone, stops>>

\* Mutant: the tick is consumed and no sweep follows.
TickSwallowed ==
  /\ pc = "idle" /\ tick
  /\ tick' = FALSE
  /\ UNCHANGED <<server, poll, trigger, durable, pc, pos, ctxDone, stops>>

\* The three arms of Run's select; Go picks any ready one.
WakeOnTick ==
  /\ pc = "idle" /\ tick
  /\ tick' = FALSE
  /\ pc' = "sweep"
  /\ UNCHANGED <<server, poll, trigger, durable, pos, ctxDone, stops>>

WakeOnTrigger ==
  /\ pc = "idle" /\ trigger
  /\ trigger' = FALSE
  /\ pc' = "sweep"
  /\ UNCHANGED <<server, poll, tick, durable, pos, ctxDone, stops>>

Return ==
  /\ pc = "idle" /\ ctxDone
  /\ pc' = "off"
  /\ ctxDone' = FALSE /\ trigger' = FALSE /\ tick' = FALSE
  /\ UNCHANGED <<server, poll, durable, pos, stops>>

\* pollOnce's loop is over: all numbers polled, or the context is cancelled.
EndSweep ==
  /\ pc = "sweep"
  /\ pos > Len(DIDs) \/ ctxDone
  /\ pc' = "idle" /\ pos' = 1
  /\ UNCHANGED <<server, poll, channels, durable, ctxDone, stops>>

\* Mutant: a number is skipped.
NextButOneDID == pc' = "sweep" /\ pos' = pos + 2 /\ LocalsGone

\* pollDID returns, with an error or without: its locals are gone and the loop
\* goes on with the next number.
NextDID == pc' = "sweep" /\ pos' = pos + 1 /\ LocalsGone

(* pollDID.                                                                *)

Polling(step) == pc = step /\ pos <= Len(DIDs)

\* The database or an API call fails: pollDID returns the error.
Fail(step) ==
  /\ Polling(step)
  /\ NextDID
  /\ UNCHANGED <<server, channels, durable, ctxDone, stops>>

CursorLoad ==
  /\ Polling("sweep") /\ ~ctxDone
  /\ loaded' = cursor[Did]
  /\ newest' = cursor[Did]
  /\ from' = QueryStart(cursor[Did], now)
  /\ to' = now
  /\ todo' = {}
  /\ pc' = "mms"
  /\ UNCHANGED <<server, channels, durable, pos, ctxDone, stops>>

CursorLoadFails == ~ctxDone /\ Fail("sweep")

\* GetMessages asks for the MMS rows first ...
FetchMMS ==
  /\ Polling("mms")
  /\ todo' = Listed(Did, MMS)
  /\ pc' = "sms"
  /\ UNCHANGED <<server, loaded, from, to, newest, channels, durable, pos,
                 ctxDone, stops>>

\* ... then for the SMS rows; rows may arrive in between.
FetchSMS ==
  /\ Polling("sms")
  /\ todo' = todo \cup Listed(Did, SMS)
  /\ pc' = "deliver"
  /\ UNCHANGED <<server, loaded, from, to, newest, channels, durable, pos,
                 ctxDone, stops>>

FetchFails == Fail("mms") \/ Fail("sms")

\* OnMessage accepts the oldest message that is left.
HandOver(m) ==
  /\ Polling("deliver")
  /\ m \in todo
  /\ \A n \in todo : Precedes(m, n)
  /\ todo' = todo \ {m}
  /\ handed' = handed \cup {m}
  /\ newest' = IF date[m] > newest THEN date[m] ELSE newest
  /\ UNCHANGED <<server, loaded, from, to, channels, cursor, base, pc, pos,
                 ctxDone, stops>>

\* Mutant: a failing message is skipped and the batch goes on.
HandOverSkips ==
  /\ Polling("deliver")
  /\ \E m \in todo : (\A n \in todo : Precedes(m, n)) /\ todo' = todo \ {m}
  /\ UNCHANGED <<server, loaded, from, to, newest, channels, durable, pc, pos,
                 ctxDone, stops>>

\* OnMessage fails: the rest of the batch waits for the next poll.
HandOverFails ==
  /\ Polling("deliver") /\ todo # {}
  /\ pc' = "save"
  /\ UNCHANGED <<server, poll, channels, durable, pos, ctxDone, stops>>

BatchDone == Polling("save") \/ (Polling("deliver") /\ todo = {})

\* Mutant: the poll's own time is saved, not the newest message's.
CursorSaveNow ==
  /\ BatchDone
  /\ newest > loaded
  /\ cursor' = [cursor EXCEPT ![Did] = to]
  /\ base' = IF cursor[Did] = 0 THEN [base EXCEPT ![Did] = Day(from)] ELSE base
  /\ NextDID
  /\ UNCHANGED <<server, channels, handed, ctxDone, stops>>

CursorSave ==
  /\ BatchDone
  /\ newest > loaded
  /\ cursor' = [cursor EXCEPT ![Did] = newest]
  /\ base' = IF cursor[Did] = 0 THEN [base EXCEPT ![Did] = Day(from)] ELSE base
  /\ NextDID
  /\ UNCHANGED <<server, channels, handed, ctxDone, stops>>

CursorSaveFails ==
  /\ newest > loaded
  /\ Fail("save") \/ (todo = {} /\ Fail("deliver"))

\* Nothing newer than the cursor was delivered: nothing to save.
NothingToSave ==
  /\ BatchDone
  /\ newest <= loaded
  /\ NextDID
  /\ UNCHANGED <<server, channels, durable, ctxDone, stops>>

-----------------------------------------------------------------------------
Run == \/ Start \/ WakeOnTick \/ WakeOnTrigger \/ Return \/ EndSweep
       \/ CursorLoad \/ CursorLoadFails
       \/ FetchMMS \/ FetchSMS \/ FetchFails
       \/ \E m \in Msgs : HandOver(m)
       \/ HandOverFails
       \/ CursorSave \/ CursorSaveFails \/ NothingToSave

Next == \/ AdvanceClock
        \/ \E m \in Msgs : Arrive(m)
        \/ TriggerPoll \/ TickerFires \/ Cancel \/ Crash
        \/ Run

Spec == Init /\ [][Next]_vars

\* Calls about number d that are repeated for ever are answered in the end;
\* nothing is assumed of saving the cursor.
Answers(d) ==
  /\ SF_vars(CursorLoad /\ Did = d)
  /\ SF_vars(FetchMMS /\ Did = d)
  /\ SF_vars(FetchSMS /\ Did = d)
  /\ SF_vars((\E m \in Msgs : HandOver(m)) /\ Did = d)

\* The goroutine keeps running, a stopped client is connected again, the ticker
\* ticks, and select does not ignore a cancelled context for ever.
FairSpec == /\ Spec
            /\ WF_vars(Run) /\ SF_vars(Return) /\ WF_vars(TickerFires)
            /\ \A d \in Answered : Answers(d)

-----------------------------------------------------------------------------
(* What the poll loop promises.                                            *)

Positions == {"off", "idle", "sweep", "mms", "sms", "deliver", "save"}

\* Every variable has its type.
TypeOK ==
  /\ now \in Nat /\ nextId \in Nat /\ stops \in Nat
  /\ date \in [Msgs -> Nat] /\ rowId \in [Msgs -> Nat]
  /\ cursor \in [Numbers -> Nat]
  /\ pc \in Positions
  /\ pos \in 1 .. Len(DIDs) + 1
  /\ ctxDone \in BOOLEAN /\ trigger \in BOOLEAN /\ tick \in BOOLEAN
  /\ loaded \in Nat /\ newest \in Nat /\ to \in Nat /\ from \in Int
  /\ todo \subseteq Msgs /\ handed \subseteq Msgs
  /\ base \in [Numbers -> Int]

\* The next poll of its number asks for this row's day.
InReach(m) == Day(QueryStart(cursor[DidOf[m]], now)) <= Day(date[m])

\* Older than the range that started the number's cursor: never promised.
BeforeBackfill(m) ==
  cursor[DidOf[m]] # 0 /\ Day(date[m]) < base[DidOf[m]]

\* Older than the API lets a query reach: skipped on purpose.
Expired(m) == Day(date[m]) < Day(now - MaxRange)

\* Listed and not accepted by OnMessage yet.
Pending(m) == date[m] # 0 /\ m \notin handed

\* Once a number has a cursor, every row OnMessage has not accepted is still
\* inside the range of the next poll: the cursor never moves past a message,
\* whatever arrives between the two API calls, whichever call or OnMessage
\* fails, and wherever the process stops.  (pollDID's newest, its break on
\* the first error, and the 12 hours it steps back.)
NothingSkipped ==
  \A m \in Msgs :
    Pending(m) /\ cursor[DidOf[m]] # 0
      => InReach(m) \/ BeforeBackfill(m) \/ Expired(m)

\* The segments of a long text carry one timestamp: OnMessage accepts them in
\* the order of their IDs even when a poll falls between two of them or one of
\* them fails.  (SortMessages and the break in pollDID.)
SegmentOrder ==
  \A m, n \in SMS :
    /\ DidOf[m] = DidOf[n] /\ date[m] = date[n] /\ rowId[m] < rowId[n]
    /\ n \in handed
    => m \in handed

\* A stored cursor is the date of a message OnMessage has accepted, as the
\* comment on Cursor.LastDate says: a poll that delivered nothing, or that
\* failed before its first message, leaves no trace in the database.
CursorWasHanded ==
  \A d \in Numbers :
    cursor[d] # 0 => \E m \in handed : DidOf[m] = d /\ date[m] = cursor[d]

\* No cursor yet and too old for the backfill by now.
BackfillMissed(m) ==
  /\ cursor[DidOf[m]] = 0
  /\ Day(date[m]) < Day(QueryStart(0, now))

Excused(m) == BeforeBackfill(m) \/ Expired(m) \/ BackfillMissed(m)

\* The texts of a number are handed over in the order VoIP.ms got them, across
\* polls, failures, cancellations and crashes: none overtakes an older one, but
\* for those too old to be asked for.  (A picture may be overtaken: a poll asks
\* for the pictures first, and one that arrives before it asks for the texts
\* waits for the next poll.)
TextsInOrder ==
  \A m, n \in SMS :
    DidOf[m] = DidOf[n] /\ date[m] < date[n] /\ Pending(m) /\ n \in handed
      => Excused(m)

\* Every listed row of a number whose calls are answered is accepted by
\* OnMessage in the end, unless it is too old to be asked for: the ticker
\* retries from the cursor after failures, cancellations and crashes, and a
\* number whose calls always fail does not hold up the others.  (Run's loop,
\* pollOnce going on after an error.)
EveryMessageHanded ==
  \A m \in Msgs :
    DidOf[m] \in Answered => (Pending(m) ~> (m \in handed \/ Excused(m)))
=============================================================================
