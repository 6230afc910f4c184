----------------------------- MODULE EchoProofs -----------------------------
(***************************************************************************)
(* Polls, echoes and restarts keep what module Inbox promises, the cursor  *)
(* never passes a message the room did not get, the first part of a text   *)
(* never comes back, a marked row only after a restart or a day, and after *)
(* a complete sweep the newest fallback decides each reaction: for every   *)
(* set of rows and sends, every buffer, day length and overlap.            *)
(***************************************************************************)
EXTENDS Echo, TLAPS

-----------------------------------------------------------------------------
(* Days and buffers.                                                       *)

LEMMA DayMonotone ==
  ASSUME NEW s \in Int, NEW t \in Int, s <= t
  PROVE  Day(s) \in Int /\ Day(t) \in Int /\ Day(s) <= Day(t)
BY TimeAssumption DEF Day

\* A row that the cursor has passed is older than it.
LEMMA PassedIsOld ==
  ASSUME cursor \in Nat, date \in [Rows -> Nat], NEW r \in Rows, Passed(r)
  PROVE  cursor # 0 /\ date[r] < cursor
<1>1. cursor # 0 /\ Day(date[r]) < Day(cursor - Lookback)
  BY DEF Passed
<1>2. cursor - Lookback \in Int /\ date[r] \in Int
  BY TimeAssumption
<1>3. cursor - Lookback > date[r]
  <2>1. ASSUME cursor - Lookback <= date[r] PROVE FALSE
    BY <1>1, <1>2, <2>1, DayMonotone
  <2> QED
    BY <1>2, <2>1
<1> QED
  BY <1>1, <1>3, TimeAssumption

\* A sweep asks for nothing that the cursor has passed.
LEMMA AskedIsAhead ==
  ASSUME now \in Nat, cursor \in Nat, date \in [Rows -> Nat], NEW r \in Rows,
         AskedFor(r)
  PROVE  ~Passed(r)
<1> SUFFICES ASSUME cursor # 0 PROVE ~(Day(date[r]) < Day(cursor - Lookback))
  BY DEF Passed
<1>1. QueryStart \in Int /\ cursor - Lookback \in Int /\ cursor - Lookback <= QueryStart
  BY TimeAssumption DEF QueryStart
<1>2. Day(cursor - Lookback) <= Day(QueryStart) /\ Day(QueryStart) \in Int
      /\ Day(cursor - Lookback) \in Int /\ Day(date[r]) \in Int
  BY <1>1, DayMonotone
<1> QED
  BY <1>2 DEF AskedFor

\* What a sweep does not ask for the cursor has passed, or it is too old.
LEMMA LeftOutIsTooOld ==
  ASSUME now \in Nat, cursor \in Nat, date \in [Rows -> Nat], NEW r \in Rows,
         ~AskedFor(r), ~Passed(r)
  PROVE  TooOld(r)
<1>1. /\ now - MaxRange \in Int /\ now - Backfill \in Int /\ cursor - Lookback \in Int
      /\ QueryStart \in Int /\ date[r] \in Int
  BY TimeAssumption DEF QueryStart
<1>2. /\ Day(now - MaxRange) \in Int /\ Day(now - Backfill) \in Int
      /\ Day(cursor - Lookback) \in Int /\ Day(QueryStart) \in Int /\ Day(date[r]) \in Int
  BY <1>1, DayMonotone
<1>3. Day(date[r]) < Day(QueryStart)
  BY <1>2 DEF AskedFor
<1>4. \/ QueryStart = now - MaxRange
      \/ cursor = 0 /\ QueryStart = now - Backfill
      \/ cursor # 0 /\ QueryStart = cursor - Lookback
  BY DEF QueryStart
<1> QED
  BY <1>3, <1>4 DEF TooOld, Passed

\* The rows among the events of a buffer.
RowsOf(q) == {r \in Rows : \E i \in 1 .. Len(q) : q[i].type # "send" /\ q[i].what = r}
RowsIn(event) == {r \in Rows : event.type # "send" /\ event.what = r}

LEMMA WaitingRows ==
  ASSUME NEW S, queue \in Seq(S)
  PROVE  Waiting = RowsOf(queue)
BY DEF Waiting, RowsOf, ToSet

LEMMA AppendedRows ==
  ASSUME NEW S, NEW q \in Seq(S), NEW event \in S
  PROVE  RowsOf(Append(q, event)) = RowsOf(q) \cup RowsIn(event)
<1>1. /\ Len(Append(q, event)) = Len(q) + 1
      /\ \A i \in 1 .. Len(q) : Append(q, event)[i] = q[i]
      /\ Append(q, event)[Len(q) + 1] = event
      /\ Len(q) \in Nat
  OBVIOUS
<1>2. 1 .. Len(q) + 1 = (1 .. Len(q)) \cup {Len(q) + 1}
  BY <1>1
<1> QED
  BY <1>1, <1>2, Zenon DEF RowsOf, RowsIn

LEMMA TakenRows ==
  ASSUME NEW S, NEW q \in Seq(S), q # <<>>
  PROVE  RowsOf(q) = RowsOf(Tail(q)) \cup RowsIn(Head(q))
<1>1. /\ Len(q) \in Nat \ {0} /\ Len(Tail(q)) = Len(q) - 1 /\ Head(q) = q[1]
      /\ \A i \in 1 .. Len(Tail(q)) : Tail(q)[i] = q[i + 1]
  OBVIOUS
<1>2. ASSUME NEW i \in 1 .. Len(q)
      PROVE  q[i] = Head(q) \/ \E k \in 1 .. Len(Tail(q)) : Tail(q)[k] = q[i]
  <2>1. CASE i = 1
    BY <1>1, <2>1
  <2>2. CASE i # 1
    <3>1. i - 1 \in 1 .. Len(Tail(q)) /\ Tail(q)[i - 1] = q[i]
      BY <1>1, <2>2
    <3> QED
      BY <3>1
  <2> QED
    BY <2>1, <2>2
<1>3. ASSUME NEW k \in 1 .. Len(Tail(q))
      PROVE  \E i \in 1 .. Len(q) : Tail(q)[k] = q[i]
  <2>1. k + 1 \in 1 .. Len(q) /\ Tail(q)[k] = q[k + 1]
    BY <1>1
  <2> QED
    BY <2>1
<1>4. 1 \in 1 .. Len(q) /\ Head(q) = q[1]
  BY <1>1
<1>5. ASSUME NEW r \in RowsOf(q)
      PROVE  r \in RowsOf(Tail(q)) \cup RowsIn(Head(q))
  <2>1. PICK i \in 1 .. Len(q) : q[i].type # "send" /\ q[i].what = r
    BY DEF RowsOf
  <2>2. CASE q[i] = Head(q)
    BY <2>1, <2>2 DEF RowsOf, RowsIn
  <2>3. CASE \E k \in 1 .. Len(Tail(q)) : Tail(q)[k] = q[i]
    BY <2>1, <2>3, Zenon DEF RowsOf
  <2> QED
    BY <1>2, <2>2, <2>3
<1>6. ASSUME NEW r \in RowsOf(Tail(q))
      PROVE  r \in RowsOf(q)
  <2>1. PICK k \in 1 .. Len(Tail(q)) :
          Tail(q)[k].type # "send" /\ Tail(q)[k].what = r
    BY DEF RowsOf
  <2> QED
    BY <1>3, <2>1, Zenon DEF RowsOf
<1>7. RowsIn(Head(q)) \subseteq RowsOf(q)
  BY <1>4, Zenon DEF RowsOf, RowsIn
<1> QED
  BY <1>5, <1>6, <1>7
-----------------------------------------------------------------------------
(* Types, one part for each actor.                                         *)

\* The send that the portal loop handles.
Sending ==
  \/ sending = NoSend
  \/ /\ sending.send \in Sends
     /\ sending.part \in 1 .. Len(PartsOf[sending.send])
     /\ sending.phase \in {"call", "sent", "mark", "store"}
     /\ sending = [send |-> sending.send, part |-> sending.part,
                   phase |-> sending.phase]

\* Its parts are rows of a text.
LEMMA PartIsOwn ==
  ASSUME Sending, sending # NoSend
  PROVE  /\ sending.send \in Sends
         /\ Part \in Rows /\ Part \in OwnRows
         /\ PartsOf[sending.send] \in Seq(Rows)
         /\ PartsOf[sending.send][1] \in Rows /\ PartsOf[sending.send][1] \in OwnRows
         /\ Len(PartsOf[sending.send]) \in Nat
<1> DEFINE s == sending.send
<1>1. s \in Sends /\ sending.part \in 1 .. Len(PartsOf[s])
  BY DEF Sending
<1>2. PartsOf[s] \in Seq(Rows) /\ Len(PartsOf[s]) >= 1
  BY <1>1, PartsAssumption
<1>3. 1 \in 1 .. Len(PartsOf[s]) /\ Len(PartsOf[s]) \in Nat
  BY <1>2
<1>4. /\ PartsOf[s][1] \in Rows /\ PartsOf[s][sending.part] \in Rows
      /\ PartsOf[s][1] \in ToSet(PartsOf[s])
      /\ PartsOf[s][sending.part] \in ToSet(PartsOf[s])
  BY <1>1, <1>2, <1>3 DEF ToSet
<1>5. ToSet(PartsOf[s]) \subseteq OwnRows
  BY <1>1 DEF OwnRows
<1> QED
  BY <1>1, <1>2, <1>3, <1>4, <1>5 DEF Part

QueueTypes == queue \in Seq(Events) /\ Len(queue) <= QueueCap

\* What the loop takes first.
LEMMA HeadType ==
  ASSUME QueueTypes, queue # <<>>
  PROVE  /\ Head(queue) \in Events /\ Tail(queue) \in Seq(Events)
         /\ Len(Tail(queue)) <= QueueCap
  BY TimeAssumption DEF QueueTypes

LEMMA EventTypes ==
  ASSUME NEW event \in Events
  PROVE  /\ event.type = "send" => event.what \in Sends
         /\ event.type = "row" => event.what \in Rows
         /\ event.type = "reaction" =>
              event.what \in Fallbacks /\ event.what \in Rows /\ event.target \in Rows
  BY FallbackAssumption DEF Events, FromPoll

LEMMA RowEvents ==
  ASSUME NEW r \in Rows, NEW event \in EventsFor(r), db \subseteq Rows
  PROVE  /\ event \in FromPoll /\ event.type \in {"row", "reaction"} /\ event.what = r
         /\ event.type = "reaction" => event.target \in db
<1>1. CASE Targets(r) = {}
  BY <1>1 DEF EventsFor, FromPoll
<1>2. CASE Targets(r) # {}
  <2>1. PICK t \in Targets(r) : event = [type |-> "reaction", what |-> r, target |-> t]
    BY <1>2 DEF EventsFor
  <2>2. r \in Fallbacks /\ t \in db
    BY <1>2 DEF Targets
  <2> QED
    BY <2>1, <2>2 DEF FromPoll
<1> QED
  BY <1>1, <1>2

LEMMA PollEvents ==
  ASSUME NEW event \in FromPoll
  PROVE  /\ event \in Events /\ event.type \in {"row", "reaction"} /\ event # NoEvent
         /\ event.what \in Rows
BY FallbackAssumption DEF FromPoll, Events, NoEvent

\* A step of the loop starts with the send it handles or ends it; QueueTypes
\* says that what it takes from the buffer is a send.
LEMMA SendingStep == Sending /\ QueueTypes /\ [Next]_vars => Sending'
<1> SUFFICES ASSUME Sending, QueueTypes, [Next]_vars PROVE Sending'
  OBVIOUS
<1> USE DEF loop
<1>1. CASE BeginSend
  <2>1. Head(queue).what \in Sends
    BY <1>1, HeadType, EventTypes DEF BeginSend, NextIs
  <2>2. 1 \in 1 .. Len(PartsOf[Head(queue).what])
    BY <2>1, PartsAssumption
  <2> QED
    BY <1>1, <2>1, <2>2 DEF BeginSend, Sending
<1>2. CASE SendSMS
  BY <1>2, PartIsOwn DEF SendSMS, Sending, NoSend
<1>3. CASE Answered \/ MarkSentEcho
  <2>1. sending # NoSend /\ sending.phase \in {"sent", "mark"}
    BY <1>3 DEF Answered, MarkSentEcho, NoSend
  <2>2. /\ Len(PartsOf[sending.send]) \in Nat
        /\ sending.part \in 1 .. Len(PartsOf[sending.send])
    BY <2>1, PartIsOwn DEF Sending
  <2>3. CASE sending' = [sending EXCEPT !.phase = "mark"]
    BY <2>1, <2>3 DEF Sending
  <2>4. CASE PartDone
    <3>1. sending.part # Len(PartsOf[sending.send])
          => sending.part + 1 \in 1 .. Len(PartsOf[sending.send])
      BY <2>2
    <3>2. CASE LastPart
      BY <2>1, <2>4, <3>2 DEF Sending, PartDone
    <3>3. CASE ~LastPart
      <4>1. sending' = [sending EXCEPT !.phase = "call", !.part = sending.part + 1]
        BY <2>4, <3>3 DEF PartDone
      <4>2. /\ sending'.send = sending.send /\ sending'.part = sending.part + 1
            /\ sending'.phase = "call"
            /\ sending' = [send |-> sending'.send, part |-> sending'.part,
                           phase |-> sending'.phase]
        BY <2>1, <4>1 DEF Sending
      <4> QED
        BY <2>1, <3>1, <3>3, <4>2 DEF Sending, LastPart
    <3> QED
      BY <3>2, <3>3
  <2> QED
    BY <1>3, <2>3, <2>4 DEF Answered, MarkSentEcho
<1>4. CASE SendFails \/ StoreRow \/ StoreReaction \/ Restart
  BY <1>4 DEF SendFails, StoreRow, StoreReaction, Sent, Restart, Sending
<1>5. ASSUME \/ AdvanceClock \/ (\E r \in Rows : Arrive(r))
             \/ (\E s \in Sends : MatrixSend(s)) \/ HandleRow \/ HandleReaction
             \/ Poll \/ UNCHANGED vars
      PROVE  Sending'
  <2>1. UNCHANGED sending
    BY <1>5 DEF AdvanceClock, Arrive, MatrixSend, HandleRow, HandleReaction, Poll,
                Fetch, SaveCursor, HandOverFails, DropEcho, CheckRow, QueueRow, vars
  <2> QED
    BY <2>1 DEF Sending
<1> QED
  BY <1>1, <1>2, <1>3, <1>4, <1>5 DEF Next, PortalLoop

\* What is listed was listed by now, and the cursor is no later.
Clock ==
  /\ now \in Nat \ {0}
  /\ date \in [Rows -> Nat] /\ \A r \in Rows : date[r] <= now
  /\ cursor \in Nat /\ cursor <= now
  /\ newest \in Nat /\ newest <= now

LEMMA ClockStep == Clock /\ Sending /\ [Next]_vars => Clock'
<1> SUFFICES ASSUME Clock, Sending, [Next]_vars PROVE Clock'
  OBVIOUS
<1> USE DEF Clock, api, poll
<1>1. CASE AdvanceClock
  BY <1>1 DEF AdvanceClock
<1>2. ASSUME NEW r \in Rows, Arrive(r) PROVE Clock'
  BY <1>2 DEF Arrive
<1>3. CASE SendSMS
  <2>1. Part \in Rows
    BY <1>3, PartIsOwn DEF SendSMS, NoSend
  <2> QED
    BY <1>3, <2>1 DEF SendSMS
<1>4. ASSUME NEW r \in Rows, DropEcho(r) \/ QueueRow(r) PROVE Clock'
  BY <1>4 DEF DropEcho, QueueRow, Handled
<1>5. CASE Fetch \/ SaveCursor \/ HandOverFails \/ Restart
  BY <1>5 DEF Fetch, SaveCursor, HandOverFails, Restart
<1>6. CASE (\E s \in Sends : MatrixSend(s)) \/ BeginSend \/ Answered \/ SendFails
           \/ MarkSentEcho \/ StoreRow \/ StoreReaction \/ HandleRow \/ HandleReaction
           \/ (\E r \in Rows : CheckRow(r))
  BY <1>6 DEF MatrixSend, BeginSend, Answered, SendFails, MarkSentEcho, StoreRow,
              StoreReaction, HandleRow, HandleReaction, CheckRow
<1>7. CASE UNCHANGED vars
  BY <1>7 DEF vars
<1> QED
  BY <1>1, <1>2, <1>3, <1>4, <1>5, <1>6, <1>7 DEF Next, PortalLoop, Poll

\* VoIP.ms lists a row for good, and the room keeps what it has.
LEMMA Keeps ==
  Clock /\ Sending /\ [Next]_vars =>
    /\ \A r \in Rows : date[r] # 0 => date'[r] = date[r]
    /\ db \subseteq db' /\ applied \subseteq applied'
<1> SUFFICES ASSUME Clock, Sending, [Next]_vars
             PROVE  /\ \A r \in Rows : date[r] # 0 => date'[r] = date[r]
                    /\ db \subseteq db' /\ applied \subseteq applied'
  OBVIOUS
<1> USE DEF Clock, api, room
<1>1. ASSUME NEW r \in Rows, Arrive(r)
      PROVE  /\ \A x \in Rows : date[x] # 0 => date'[x] = date[x]
             /\ db \subseteq db' /\ applied \subseteq applied'
  BY <1>1 DEF Arrive
<1>2. ASSUME SendSMS
      PROVE  /\ \A x \in Rows : date[x] # 0 => date'[x] = date[x]
             /\ db \subseteq db' /\ applied \subseteq applied'
  <2>1. Part \in Rows
    BY <1>2, PartIsOwn DEF SendSMS, NoSend
  <2> QED
    BY <1>2, <2>1 DEF SendSMS
<1>3. ASSUME \/ AdvanceClock \/ (\E s \in Sends : MatrixSend(s)) \/ BeginSend
             \/ Answered \/ SendFails \/ MarkSentEcho \/ StoreRow \/ StoreReaction
             \/ HandleRow \/ HandleReaction \/ Poll \/ Restart \/ UNCHANGED vars
      PROVE  date' = date /\ db \subseteq db' /\ applied \subseteq applied'
  BY <1>3 DEF AdvanceClock, MatrixSend, BeginSend, Answered, SendFails, MarkSentEcho,
              StoreRow, StoreReaction, HandleRow, HandleReaction, React, Poll, Fetch,
              SaveCursor, HandOverFails, DropEcho, CheckRow, QueueRow, Restart, vars
<1> QED
  BY <1>1, <1>2, <1>3 DEF Next, PortalLoop

\* An event of the buffer is about a listed row, a reaction about a message.
Ready(event, dates, rows) ==
  /\ event.type # "send" => dates[event.what] # 0
  /\ event.type = "reaction" => event.target \in rows
Buffer == QueueTypes /\ \A i \in 1 .. Len(queue) : Ready(queue[i], date, db)

\* So is what is past the check, about the next row of the sweep.
Checked ==
  found # NoEvent =>
    found \in FromPoll /\ Ready(found, date, db) /\ First(found.what)

Room ==
  /\ db \subseteq Rows /\ bridged \subseteq {r \in db : date[r] # 0}
  /\ applied \subseteq db \X Fallbacks /\ shown \subseteq applied

\* The rows of a sweep are listed and not passed; only own rows are marked.
Sweep ==
  /\ polling \in BOOLEAN /\ whole \in BOOLEAN
  /\ batch \subseteq {r \in Rows : date[r] # 0 /\ ~Passed(r)}
  /\ polling => cursor <= newest
  /\ ~polling => batch = {}
  /\ echo \in [Rows -> Nat] /\ \A r \in Rows : echo[r] # 0 => r \in OwnRows
  /\ marked \subseteq Rows /\ lost \subseteq Rows
  /\ missed \subseteq {r \in Rows : date[r] # 0}
  /\ asked \subseteq Sends /\ done \subseteq Sends
  /\ restarts \in Nat

\* What the loop takes is ready, and so is the rest.
LEMMA TakenReady ==
  ASSUME Buffer, queue # <<>>
  PROVE  /\ Ready(Head(queue), date, db)
         /\ \A i \in 1 .. Len(Tail(queue)) : Ready(Tail(queue)[i], date, db)
<1>1. queue \in Seq(Events)
  BY DEF Buffer, QueueTypes
<1>2. /\ Len(queue) \in Nat \ {0} /\ Len(Tail(queue)) = Len(queue) - 1
      /\ Head(queue) = queue[1]
      /\ \A i \in 1 .. Len(Tail(queue)) : Tail(queue)[i] = queue[i + 1]
  BY <1>1
<1>3. 1 \in 1 .. Len(queue)
      /\ \A i \in 1 .. Len(Tail(queue)) : i + 1 \in 1 .. Len(queue)
  BY <1>2
<1> QED
  BY <1>2, <1>3 DEF Buffer

\* An event that is ready stays so.
LEMMA StaysReady ==
  Clock /\ Sending /\ [Next]_vars =>
    \A event \in Events : Ready(event, date, db) => Ready(event, date', db')
<1> SUFFICES ASSUME Clock, Sending, [Next]_vars, NEW event \in Events,
                    Ready(event, date, db)
             PROVE  Ready(event, date', db')
  OBVIOUS
<1> QED
  BY Keeps, EventTypes DEF Ready, Events, FromPoll

LEMMA BufferStep ==
  Clock /\ Sending /\ Buffer /\ Checked /\ [Next]_vars => Buffer'
<1> SUFFICES ASSUME Clock, Sending, Buffer, Checked, [Next]_vars PROVE Buffer'
  OBVIOUS
<1> USE DEF loop
<1>0. queue \in Seq(Events) /\ Len(queue) \in Nat /\ QueueCap \in Nat
  BY TimeAssumption DEF Buffer, QueueTypes
<1>1. ASSUME NEW event \in Events, Enqueue(event), Ready(event, date, db)
      PROVE  Buffer'
  <2>1. queue' = Append(queue, event) /\ Len(queue) < QueueCap
    BY <1>1 DEF Enqueue
  <2>2. queue' \in Seq(Events) /\ Len(queue') = Len(queue) + 1
    BY <1>0, <2>1
  <2>3. ASSUME NEW i \in 1 .. Len(queue') PROVE Ready(queue'[i], date', db')
    <3>1. CASE i \in 1 .. Len(queue)
      <4>1. queue'[i] = queue[i] /\ queue[i] \in Events /\ Ready(queue[i], date, db)
        BY <1>0, <2>1, <3>1 DEF Buffer
      <4> QED
        BY <4>1, StaysReady
    <3>2. CASE i = Len(queue) + 1
      <4>1. queue'[i] = event
        BY <1>0, <2>1, <3>2
      <4> QED
        BY <1>1, <4>1, StaysReady
    <3> QED
      BY <1>0, <2>2, <3>1, <3>2
  <2> QED
    BY <1>0, <2>1, <2>2, <2>3 DEF Buffer, QueueTypes
<1>2. ASSUME queue # <<>>, queue' = Tail(queue) PROVE Buffer'
  <2>1. QueueTypes' /\ Tail(queue) \in Seq(Events)
    BY <1>2, HeadType DEF Buffer, QueueTypes
  <2>2. ASSUME NEW i \in 1 .. Len(queue') PROVE Ready(queue'[i], date', db')
    <3>1. Ready(queue'[i], date, db) /\ queue'[i] \in Events
      BY <1>2, <2>1, TakenReady
    <3> QED
      BY <3>1, StaysReady
  <2> QED
    BY <2>1, <2>2 DEF Buffer
<1>3. ASSUME NEW s \in Sends, MatrixSend(s) PROVE Buffer'
  BY <1>1, <1>3 DEF MatrixSend, Events, Ready
<1>4. ASSUME NEW r \in Rows, QueueRow(r) PROVE Buffer'
  BY <1>1, <1>4, PollEvents DEF QueueRow, Checked
<1>5. CASE BeginSend \/ HandleRow \/ HandleReaction
  BY <1>2, <1>5 DEF BeginSend, HandleRow, HandleReaction, NextIs
<1>6. CASE Restart
  BY <1>0, <1>6 DEF Restart, Buffer, QueueTypes
<1>7. ASSUME UNCHANGED queue PROVE Buffer'
  <2>1. ASSUME NEW i \in 1 .. Len(queue) PROVE Ready(queue[i], date', db')
    BY <1>0, StaysReady DEF Buffer
  <2> QED
    BY <1>7, <2>1 DEF Buffer, QueueTypes
<1>8. ASSUME \/ AdvanceClock \/ (\E r \in Rows : Arrive(r) \/ DropEcho(r) \/ CheckRow(r))
             \/ SendSMS \/ Answered \/ SendFails \/ MarkSentEcho
             \/ StoreRow \/ StoreReaction
             \/ Fetch \/ SaveCursor \/ HandOverFails \/ UNCHANGED vars
      PROVE  UNCHANGED queue
  BY <1>8 DEF AdvanceClock, Arrive, DropEcho, CheckRow, SendSMS, Answered, SendFails,
              MarkSentEcho, StoreRow, StoreReaction, Fetch, SaveCursor, HandOverFails, vars
<1> QED
  BY <1>3, <1>4, <1>5, <1>6, <1>7, <1>8 DEF Next, PortalLoop, Poll

\* The check leaves its event for the next step, and only that takes it.
LEMMA CheckedStep ==
  Clock /\ Sending /\ Room /\ Sweep /\ Checked /\ [Next]_vars => Checked'
<1> SUFFICES ASSUME Clock, Sending, Room, Sweep, Checked, [Next]_vars PROVE Checked'
  OBVIOUS
<1> USE DEF poll
<1>0. \A r \in Rows : date[r] # 0 => date'[r] = date[r]
  BY Keeps
<1>1. ASSUME UNCHANGED <<found, batch>> PROVE Checked'
  <2> SUFFICES ASSUME found # NoEvent
               PROVE  found \in FromPoll /\ Ready(found, date', db') /\ First(found.what)'
    BY <1>1 DEF Checked
  <2>1. found \in FromPoll /\ Ready(found, date, db) /\ First(found.what)
    BY DEF Checked
  <2>2. Ready(found, date', db')
    BY <2>1, PollEvents, StaysReady
  <2>3. First(found.what)'
    BY <1>0, <1>1, <2>1 DEF First, Sweep
  <2> QED
    BY <2>1, <2>2, <2>3
<1>2. ASSUME NEW r \in Rows, CheckRow(r) PROVE Checked'
  <2>1. found' \in FromPoll /\ found'.what = r /\ First(r)
        /\ (found'.type = "reaction" => found'.target \in db)
        /\ UNCHANGED <<date, db, batch>>
    BY <1>2, RowEvents DEF CheckRow, Upcoming, Room, api, room
  <2>2. Ready(found', date', db')
    BY <2>1 DEF Ready, First, Sweep
  <2> QED
    BY <2>1, <2>2 DEF Checked, First
<1>3. CASE Fetch
  <2>1. ~polling /\ found' = found /\ date' = date
    BY <1>3 DEF Fetch, api
  <2>2. found = NoEvent
    BY <2>1 DEF Checked, First, Sweep
  <2> QED
    BY <2>1, <2>2 DEF Checked
<1>4. ASSUME NEW r \in Rows, DropEcho(r) \/ QueueRow(r) PROVE Checked'
  BY <1>4 DEF DropEcho, Upcoming, QueueRow, Checked
<1>5. CASE HandOverFails \/ Restart
  BY <1>5 DEF HandOverFails, Restart, Checked
<1>6. ASSUME \/ AdvanceClock \/ (\E r \in Rows : Arrive(r))
             \/ (\E s \in Sends : MatrixSend(s)) \/ PortalLoop \/ SaveCursor
             \/ UNCHANGED vars
      PROVE  UNCHANGED <<found, batch>>
  BY <1>6 DEF AdvanceClock, Arrive, MatrixSend, PortalLoop, BeginSend, SendSMS, Answered,
              SendFails, MarkSentEcho, StoreRow, StoreReaction, HandleRow, HandleReaction,
              SaveCursor, vars
<1> QED
  BY <1>1, <1>2, <1>3, <1>4, <1>5, <1>6 DEF Next, Poll

LEMMA RoomStep == Clock /\ Sending /\ Buffer /\ Room /\ [Next]_vars => Room'
<1> SUFFICES ASSUME Clock, Sending, Buffer, Room, [Next]_vars PROVE Room'
  OBVIOUS
<1> USE DEF room, past
<1>0. \A r \in Rows : date[r] # 0 => date'[r] # 0
  BY Keeps
<1>1. CASE StoreRow
  <2>1. PartsOf[sending.send][1] \in Rows
    BY <1>1, PartIsOwn DEF StoreRow, NoSend
  <2> QED
    BY <1>0, <1>1, <2>1 DEF StoreRow, Sent, Room
<1>2. CASE HandleRow
  <2>1. Head(queue).what \in Rows /\ date[Head(queue).what] # 0
    BY <1>2, TakenReady, HeadType, EventTypes DEF HandleRow, NextIs, Buffer, Ready
  <2> QED
    BY <1>0, <1>2, <2>1 DEF HandleRow, Room
<1>3. CASE HandleReaction
  <2>1. Head(queue).target \in db /\ Head(queue).what \in Fallbacks
    BY <1>3, TakenReady, HeadType, EventTypes DEF HandleReaction, NextIs, Buffer, Ready
  <2>2. /\ shown' \subseteq shown \cup {<<Head(queue).target, Head(queue).what>>}
        /\ applied' = applied \cup {<<Head(queue).target, Head(queue).what>>}
        /\ db' = db /\ bridged' = bridged
    BY <1>3 DEF HandleReaction, React, Reacted
  <2> QED
    BY <1>0, <2>1, <2>2 DEF Room
<1>5. CASE StoreReaction
  <2> DEFINE f == PartsOf[sending.send][1]
  <2>1. sending.send \in Reactions /\ sending # NoSend /\ sending.send \in Sends
    BY <1>5, PartIsOwn DEF StoreReaction, NoSend
  <2>2. f \in Fallbacks
    <3>1. PartsOf[sending.send] \in Seq(Rows) /\ Len(PartsOf[sending.send]) >= 1
      BY <2>1, PartsAssumption
    <3>2. f \in ToSet(PartsOf[sending.send])
      BY <3>1 DEF ToSet
    <3> QED
      BY <2>1, <3>2, FallbackAssumption
  <2>3. PICK t \in Reactable(sending.send) : React(t, f)
    BY <1>5 DEF StoreReaction
  <2>4. /\ t \in db /\ shown' \subseteq shown \cup {<<t, f>>}
        /\ applied' = applied \cup {<<t, f>>} /\ db' = db /\ bridged' = bridged
    BY <1>5, <2>3 DEF StoreReaction, React, Reacted, Reactable
  <2> HIDE DEF f
  <2> QED
    BY <1>0, <2>2, <2>4 DEF Room
<1>4. ASSUME \/ AdvanceClock \/ (\E r \in Rows : Arrive(r))
             \/ (\E s \in Sends : MatrixSend(s)) \/ BeginSend \/ SendSMS
             \/ Answered \/ SendFails \/ MarkSentEcho
             \/ Poll \/ Restart \/ UNCHANGED vars
      PROVE  Room'
  <2>1. UNCHANGED <<db, shown, applied, bridged>>
    BY <1>4 DEF AdvanceClock, Arrive, MatrixSend, BeginSend, SendSMS, Answered,
                SendFails, MarkSentEcho, Poll, Fetch, SaveCursor, HandOverFails,
                DropEcho, CheckRow, QueueRow, Restart, vars
  <2> QED
    BY <1>0, <2>1 DEF Room
<1> QED
  BY <1>1, <1>2, <1>3, <1>4, <1>5 DEF Next, PortalLoop

\* A row of the sweep is still ahead when dates are added.
LEMMA BatchStays ==
  ASSUME Sweep, cursor' = cursor, \A r \in Rows : date[r] # 0 => date'[r] = date[r]
  PROVE  /\ batch \subseteq {r \in Rows : date'[r] # 0 /\ ~Passed(r)'}
         /\ missed \subseteq {r \in Rows : date'[r] # 0}
  BY DEF Sweep, Passed

LEMMA SweepStep == Clock /\ Sending /\ Buffer /\ Checked /\ Sweep /\ [Next]_vars => Sweep'
<1> SUFFICES ASSUME Clock, Sending, Buffer, Checked, Sweep, [Next]_vars PROVE Sweep'
  OBVIOUS
<1> USE DEF poll, past
<1>0. \A r \in Rows : date[r] # 0 => date'[r] = date[r]
  BY Keeps
<1>1. CASE Fetch
  <2>1. cursor' = cursor /\ date' = date
    BY <1>1 DEF Fetch, api
  <2>2. /\ batch' \subseteq {r \in Rows : date'[r] # 0 /\ ~Passed(r)'}
        /\ missed' \subseteq {r \in Rows : date'[r] # 0}
    BY <1>1, <2>1, AskedIsAhead DEF Fetch, Passed, Sweep, Clock
  <2> QED
    BY <1>1, <2>1, <2>2 DEF Fetch, Sweep, Clock
<1>2. ASSUME NEW r \in Rows, DropEcho(r) \/ QueueRow(r) PROVE Sweep'
  <2>1. /\ batch' \subseteq {x \in Rows : date'[x] # 0 /\ ~Passed(x)'}
        /\ missed' \subseteq {x \in Rows : date'[x] # 0}
    BY <1>0, <1>2, BatchStays DEF DropEcho, CheckRow, QueueRow, Handled
  <2>2. newest' >= newest /\ newest' \in Nat
    BY <1>2 DEF DropEcho, CheckRow, QueueRow, Handled, Clock
  <2>3. polling
    BY <1>2 DEF DropEcho, Upcoming, QueueRow, Checked, NoEvent, First, Sweep
  <2> QED
    <3>1. polling' => cursor' <= newest'
      BY <1>2, <2>2, <2>3 DEF DropEcho, CheckRow, QueueRow, Sweep, Clock
    <3>2. UNCHANGED <<polling, whole, echo, marked, lost, asked, done, restarts>>
      BY <1>2 DEF DropEcho, CheckRow, QueueRow
    <3> QED
      BY <2>1, <2>3, <3>1, <3>2 DEF Sweep
<1>3. CASE HandOverFails
  BY <1>0, <1>3, BatchStays DEF HandOverFails, Sweep
<1>4. CASE SaveCursor
  BY <1>4 DEF SaveCursor, Sweep, api
<1>5. CASE Restart
  <2>1. /\ polling' = FALSE /\ whole' = FALSE /\ batch' = {}
        /\ echo' = [r \in Rows |-> 0] /\ restarts' = restarts + 1
        /\ UNCHANGED <<marked, asked, done, missed, date>>
    BY <1>5 DEF Restart, api
  <2>2. lost' \subseteq Rows
    BY <1>5 DEF Restart, Sweep, Waiting
  <2>3. echo' \in [Rows -> Nat] /\ \A r \in Rows : echo'[r] = 0
    BY <2>1
  <2>4. restarts' \in Nat /\ marked' \subseteq Rows /\ asked' \subseteq Sends
        /\ done' \subseteq Sends /\ missed' \subseteq {r \in Rows : date'[r] # 0}
    BY <2>1 DEF Sweep
  <2> QED
    BY <2>1, <2>2, <2>3, <2>4, Zenon DEF Sweep
<1>6. CASE MarkSentEcho
  <2>1. Part \in Rows /\ Part \in OwnRows
    BY <1>6, PartIsOwn DEF MarkSentEcho, NoSend
  <2>2. echo' \in [Rows -> Nat] /\ \A r \in Rows : echo'[r] # 0 => r \in OwnRows
    BY <1>6, <2>1 DEF MarkSentEcho, Pruned, Sweep, Clock
  <2>3. /\ batch' \subseteq {r \in Rows : date'[r] # 0 /\ ~Passed(r)'}
        /\ missed' \subseteq {r \in Rows : date'[r] # 0}
    BY <1>0, <1>6, BatchStays DEF MarkSentEcho
  <2> QED
    BY <1>6, <2>1, <2>2, <2>3 DEF MarkSentEcho, Sweep
<1>7. CASE StoreRow \/ StoreReaction
  <2>1. sending.send \in Sends
    BY <1>7, PartIsOwn DEF StoreRow, StoreReaction, NoSend
  <2>2. /\ batch' \subseteq {r \in Rows : date'[r] # 0 /\ ~Passed(r)'}
        /\ missed' \subseteq {r \in Rows : date'[r] # 0}
    BY <1>0, <1>7, BatchStays DEF StoreRow, StoreReaction
  <2> QED
    BY <1>7, <2>1, <2>2 DEF StoreRow, StoreReaction, Sent, Sweep
<1>8. ASSUME \/ AdvanceClock \/ (\E r \in Rows : Arrive(r))
             \/ (\E s \in Sends : MatrixSend(s)) \/ BeginSend \/ SendSMS
             \/ Answered \/ SendFails \/ HandleRow \/ HandleReaction
             \/ (\E r \in Rows : CheckRow(r)) \/ UNCHANGED vars
      PROVE  Sweep'
  <2>1. /\ UNCHANGED <<cursor, polling, batch, newest, whole, echo, marked, lost,
                        missed, done, restarts>>
        /\ asked' \subseteq Sends
    BY <1>8 DEF AdvanceClock, Arrive, MatrixSend, BeginSend, SendSMS, Answered,
                SendFails, HandleRow, HandleReaction, CheckRow, vars, Sweep
  <2>2. /\ batch' \subseteq {r \in Rows : date'[r] # 0 /\ ~Passed(r)'}
        /\ missed' \subseteq {r \in Rows : date'[r] # 0}
    BY <1>0, <2>1, BatchStays
  <2> QED
    BY <2>1, <2>2 DEF Sweep
<1> QED
  BY <1>1, <1>2, <1>3, <1>4, <1>5, <1>6, <1>7, <1>8 DEF Next, PortalLoop, Poll
Types == Clock /\ Sending /\ Buffer /\ Checked /\ Room /\ Sweep

LEMMA TypesInit == Init => Types
<1> SUFFICES ASSUME Init PROVE Types
  OBVIOUS
<1> USE DEF Init
<1>1. Clock /\ Sending
  BY DEF Clock, Sending
<1>2. Buffer
  BY TimeAssumption DEF Buffer, QueueTypes
<1>3. Checked /\ Room /\ Sweep
  BY DEF Checked, Room, Sweep
<1> QED
  BY <1>1, <1>2, <1>3 DEF Types

LEMMA TypesStep == Types /\ [Next]_vars => Types'
  BY SendingStep, ClockStep, BufferStep, CheckedStep, RoomStep, SweepStep DEF Types, Buffer

\* The bridge is type correct: what it queues, marks and stores are rows and
\* sends, an event buffer never exceeds its size, and a send stays within the
\* parts of its text.
THEOREM EchoTypes == Spec => []TypeOK
<1>1. Types => TypeOK
  BY DEF Types, Clock, Sending, Buffer, QueueTypes, Checked, First, Room, Sweep, TypeOK
<1> QED
  BY <1>1, TypesInit, TypesStep, PTL DEF Spec

-----------------------------------------------------------------------------
(* What a step does to the rows in the room and on their way there.        *)

LEMMA WaitingListed ==
  ASSUME Buffer
  PROVE  Waiting = RowsOf(queue) /\ \A r \in Waiting : date[r] # 0
<1>1. Waiting = RowsOf(queue)
  BY WaitingRows DEF Buffer, QueueTypes
<1> QED
  BY <1>1 DEF RowsOf, Buffer, Ready

LEMMA SendIsNoRow ==
  ASSUME Types, [Next]_vars,
         (\E s \in Sends : MatrixSend(s)) \/ BeginSend
  PROVE  Waiting' = Waiting
<1>1. queue \in Seq(Events) /\ queue' \in Seq(Events)
  BY TypesStep DEF Types, Buffer, QueueTypes
<1>2. Waiting = RowsOf(queue) /\ Waiting' = RowsOf(queue')
  BY <1>1, WaitingRows DEF Waiting, RowsOf, ToSet
<1>3. ASSUME NEW s \in Sends, MatrixSend(s) PROVE RowsOf(queue') = RowsOf(queue)
  <2> DEFINE event == [type |-> "send", what |-> s]
  <2>1. queue' = Append(queue, event) /\ event \in Events
    BY <1>3 DEF MatrixSend, Enqueue, Events
  <2>2. RowsIn(event) = {}
    BY DEF RowsIn
  <2> HIDE DEF event
  <2>3. RowsOf(Append(queue, event)) = RowsOf(queue) \cup RowsIn(event)
    BY <1>1, <2>1, AppendedRows
  <2> QED
    BY <2>1, <2>2, <2>3
<1>4. ASSUME BeginSend PROVE RowsOf(queue') = RowsOf(queue)
  <2>1. queue # <<>> /\ queue' = Tail(queue) /\ Head(queue).type = "send"
    BY <1>4 DEF BeginSend, NextIs
  <2>2. RowsIn(Head(queue)) = {}
    BY <2>1 DEF RowsIn
  <2> QED
    BY <1>1, <2>1, <2>2, TakenRows
<1> QED
  BY <1>2, <1>3, <1>4

LEMMA QueuedRow ==
  ASSUME Types, [Next]_vars, NEW r \in Rows, QueueRow(r)
  PROVE  Waiting' = Waiting \cup {r}
<1>1. queue \in Seq(Events) /\ queue' \in Seq(Events)
  BY TypesStep DEF Types, Buffer, QueueTypes
<1>2. Waiting = RowsOf(queue) /\ Waiting' = RowsOf(queue')
  BY <1>1, WaitingRows DEF Waiting, RowsOf, ToSet
<1>3. queue' = Append(queue, found)
  BY DEF QueueRow, Enqueue
<1>4. found \in Events /\ found.type \in {"row", "reaction"} /\ found.what = r
  BY PollEvents DEF QueueRow, Types, Checked
<1>5. RowsIn(found) = {r}
  BY <1>4 DEF RowsIn
<1> QED
  BY <1>1, <1>2, <1>3, <1>4, <1>5, AppendedRows

LEMMA HandledRow ==
  ASSUME Types, [Next]_vars, HandleRow \/ HandleReaction
  PROVE  LET r == Head(queue).what
         IN  /\ r \in Waiting /\ Waiting' \subseteq Waiting
             /\ Waiting \subseteq Waiting' \cup {r}
             /\ InRoom' = InRoom \cup {r}
<1> DEFINE r == Head(queue).what
<1>1. queue \in Seq(Events) /\ queue' \in Seq(Events)
  BY TypesStep DEF Types, Buffer, QueueTypes
<1>2. Waiting = RowsOf(queue) /\ Waiting' = RowsOf(queue')
  BY <1>1, WaitingRows DEF Waiting, RowsOf, ToSet
<1>3. queue # <<>> /\ queue' = Tail(queue) /\ Head(queue).type \in {"row", "reaction"}
  BY DEF HandleRow, HandleReaction, NextIs
<1>4. r \in Rows
  BY <1>3, HeadType, EventTypes DEF Types, Buffer
<1>5. RowsIn(Head(queue)) = {r}
  BY <1>3, <1>4 DEF RowsIn
<1>6. RowsOf(queue) = RowsOf(queue') \cup {r}
  BY <1>1, <1>3, <1>5, TakenRows
<1>7. ASSUME HandleRow PROVE InRoom' = InRoom \cup {r}
  <2>1. db' = db \cup {r} /\ applied' = applied
    BY <1>7 DEF HandleRow, room
  <2> QED
    BY <2>1 DEF InRoom
<1>8. ASSUME HandleReaction PROVE InRoom' = InRoom \cup {r}
  <2>1. db' = db /\ applied' = applied \cup {<<Head(queue).target, r>>}
    BY <1>8 DEF HandleReaction, React
  <2> DEFINE x == <<Head(queue).target, r>>
  <2>2. x[2] = r
    OBVIOUS
  <2> HIDE DEF x
  <2>3. {y[2] : y \in applied \cup {x}} = {y[2] : y \in applied} \cup {x[2]}
    OBVIOUS
  <2>4. applied' = applied \cup {x}
    BY <2>1 DEF x
  <2> QED
    BY <2>1, <2>2, <2>3, <2>4 DEF InRoom
<1> QED
  BY <1>2, <1>6, <1>7, <1>8

LEMMA Untouched ==
  ASSUME \/ AdvanceClock \/ (\E r \in Rows : Arrive(r) \/ DropEcho(r) \/ CheckRow(r))
         \/ SendSMS \/ Answered \/ SendFails \/ MarkSentEcho
         \/ Fetch \/ SaveCursor \/ HandOverFails \/ UNCHANGED vars
  PROVE  Waiting' = Waiting /\ InRoom' = InRoom
<1>1. UNCHANGED <<queue, db, applied>>
  BY DEF AdvanceClock, Arrive, DropEcho, CheckRow, SendSMS, Answered, SendFails,
         MarkSentEcho, Fetch, SaveCursor, HandOverFails, vars, room, loop
<1> QED
  BY <1>1 DEF Waiting, InRoom

\* A stored row or reaction is one the user sent.
LEMMA StoredIsOwn ==
  ASSUME Types, StoreRow \/ StoreReaction
  PROVE  /\ Waiting' = Waiting /\ InRoom \subseteq InRoom'
         /\ InRoom' \subseteq InRoom \cup OwnRows
<1> DEFINE f == PartsOf[sending.send][1]
<1>1. f \in OwnRows
  BY PartIsOwn DEF StoreRow, StoreReaction, NoSend, Types
<1>2. ASSUME StoreRow
      PROVE  queue' = queue /\ InRoom' = InRoom \cup {f}
  <2>1. queue' = queue /\ applied' = applied /\ db' = db \cup {f}
    BY <1>2 DEF StoreRow
  <2> QED
    BY <2>1 DEF InRoom
<1>3. ASSUME StoreReaction
      PROVE  queue' = queue /\ InRoom' = InRoom \cup {f}
  <2>1. PICK t : applied' = applied \cup {<<t, f>>} /\ queue' = queue /\ db' = db
    BY <1>3 DEF StoreReaction, React
  <2> DEFINE x == <<t, f>>
  <2>2. x[2] = f /\ applied' = applied \cup {x}
    BY <2>1
  <2> HIDE DEF x
  <2>3. {y[2] : y \in applied \cup {x}} = {y[2] : y \in applied} \cup {x[2]}
    OBVIOUS
  <2> QED
    BY <2>1, <2>2, <2>3 DEF InRoom
<1>4. queue' = queue => Waiting' = Waiting
  BY DEF Waiting
<1> HIDE DEF f
<1> QED
  BY <1>1, <1>2, <1>3, <1>4

\* Only a restart loses what the room holds or waits for.
LEMMA HeldStays ==
  ASSUME Types, [Next]_vars, ~Restart
  PROVE  InRoom \cup Waiting \subseteq InRoom' \cup Waiting'
<1>1. CASE (\E s \in Sends : MatrixSend(s)) \/ BeginSend
  <2>1. UNCHANGED <<db, applied>>
    BY <1>1 DEF MatrixSend, BeginSend, room
  <2> QED
    BY <1>1, <2>1, SendIsNoRow DEF InRoom
<1>2. ASSUME NEW r \in Rows, QueueRow(r)
      PROVE  InRoom \cup Waiting \subseteq InRoom' \cup Waiting'
  <2>1. UNCHANGED <<db, applied>>
    BY <1>2 DEF QueueRow, room
  <2> QED
    BY <1>2, <2>1, QueuedRow DEF InRoom
<1>3. CASE HandleRow \/ HandleReaction
  BY <1>3, HandledRow
<1>4. CASE StoreRow \/ StoreReaction
  BY <1>4, StoredIsOwn
<1> QED
  BY <1>1, <1>2, <1>3, <1>4, Untouched DEF Next, PortalLoop, Poll

-----------------------------------------------------------------------------
(* A sweep misses nothing.                                                 *)

\* The rows still to be handled are no older than those that were.
Ahead == \A r \in batch : newest = cursor \/ newest <= date[r]

\* While a sweep is under way, a row that no cursor has passed is held, or was too
\* old for a sweep, or is still to be handled, or no older than everything it
\* handled and will handle: it arrived later or comes after the place where the
\* buffer was full.
Later(r) == /\ \A b \in batch : date[b] <= date[r]
            /\ newest = cursor \/ newest <= date[r]
Seen ==
  polling => \A r \in Others : date[r] # 0 /\ ~Passed(r) =>
               r \in InRoom \cup Waiting \cup missed \cup batch \/ Later(r)

LEMMA AheadStep == Types /\ Ahead /\ [Next]_vars => Ahead'
<1> SUFFICES ASSUME Types, Ahead, [Next]_vars PROVE Ahead'
  OBVIOUS
<1> USE DEF poll
<1>0. /\ \A r \in Rows : date[r] # 0 => date'[r] = date[r]
      /\ batch \subseteq {r \in Rows : date[r] # 0} /\ Clock /\ Checked
  BY Keeps DEF Types, Sweep
<1>1. ASSUME NEW r \in Rows, DropEcho(r) \/ QueueRow(r) PROVE Ahead'
  <2>1. /\ date' = date /\ cursor' = cursor /\ First(r)
        /\ batch' = batch \ {r}
        /\ newest' = IF date[r] > newest THEN date[r] ELSE newest
    BY <1>0, <1>1 DEF DropEcho, Upcoming, QueueRow, Handled, Checked, api
  <2> QED
    BY <1>0, <2>1 DEF Ahead, First, Clock
<1>2. CASE Fetch
  BY <1>2 DEF Fetch, Ahead
<1>3. CASE SaveCursor \/ HandOverFails \/ Restart
  BY <1>3 DEF SaveCursor, HandOverFails, Restart, Ahead
<1>4. ASSUME \/ AdvanceClock \/ (\E r \in Rows : Arrive(r) \/ CheckRow(r))
             \/ (\E s \in Sends : MatrixSend(s)) \/ PortalLoop \/ UNCHANGED vars
      PROVE  Ahead'
  <2>1. UNCHANGED <<batch, newest, cursor>>
    BY <1>4 DEF AdvanceClock, Arrive, MatrixSend, PortalLoop, BeginSend, SendSMS,
                Answered, SendFails, MarkSentEcho, StoreRow, StoreReaction, HandleRow,
                HandleReaction, CheckRow, vars
  <2> QED
    BY <1>0, <2>1 DEF Ahead
<1> QED
  BY <1>1, <1>2, <1>3, <1>4 DEF Next, Poll

LEMMA SeenStep == Types /\ Ahead /\ Seen /\ [Next]_vars => Seen'
<1> SUFFICES ASSUME Types, Ahead, Seen, [Next]_vars, polling',
                    NEW r \in Others, date'[r] # 0, ~Passed(r)'
             PROVE  r \in InRoom' \cup Waiting' \cup missed' \cup batch' \/ Later(r)'
  BY DEF Seen
<1> USE DEF poll
<1>0. /\ \A x \in Rows : date[x] # 0 => date'[x] = date[x]
      /\ batch \subseteq {x \in Rows : date[x] # 0} /\ Clock /\ Checked
      /\ r \in Rows /\ r \notin OwnRows
  BY Keeps DEF Types, Sweep, Others
<1>1. ASSUME NEW b \in Rows, DropEcho(b) \/ QueueRow(b)
      PROVE  r \in InRoom' \cup Waiting' \cup missed' \cup batch' \/ Later(r)'
  <2>1. /\ date' = date /\ cursor' = cursor /\ First(b) /\ b \in batch
        /\ batch' = batch \ {b}
        /\ newest' = IF date[b] > newest THEN date[b] ELSE newest
        /\ missed' = missed
    BY <1>0, <1>1 DEF DropEcho, Upcoming, QueueRow, Handled, Checked, First, api
  <2>2. polling /\ ~Passed(r)
    BY <2>1 DEF Types, Sweep, Passed
  <2>3. r \in InRoom \cup Waiting \cup missed \cup batch \/ Later(r)
    BY <2>1, <2>2 DEF Seen
  <2>4. InRoom \cup Waiting \subseteq InRoom' \cup Waiting'
    <3>1. ~Restart
      BY <2>1, <2>2, <1>1 DEF Restart, DropEcho, QueueRow
    <3> QED
      BY <3>1, HeldStays
  <2>5. CASE r = b
    <3>1. QueueRow(b)
      BY <1>0, <1>1, <2>5 DEF DropEcho, IsSentEcho, Types, Sweep
    <3> QED
      BY <2>5, <3>1, QueuedRow
  <2>6. CASE r # b /\ Later(r)
    BY <1>0, <2>1, <2>6 DEF Later, Clock
  <2> QED
    BY <2>1, <2>3, <2>4, <2>5, <2>6
<1>2. CASE Fetch
  <2>1. r \in batch' \cup missed'
    BY <1>0, <1>2, LeftOutIsTooOld DEF Fetch, Passed, Clock, api
  <2> QED
    BY <2>1
<1>3. CASE HandOverFails
  <2>1. /\ date' = date /\ cursor' = cursor /\ newest' = newest /\ batch' = {}
        /\ polling /\ missed' = missed
    BY <1>0, <1>3 DEF HandOverFails, api, Checked, Types, Sweep, First
  <2>2. ~Passed(r)
    BY <2>1 DEF Passed
  <2>3. r \in InRoom \cup Waiting \cup missed \cup batch \/ Later(r)
    BY <2>1, <2>2 DEF Seen
  <2>4. Waiting' = Waiting /\ InRoom' = InRoom
    BY <1>3, Untouched
  <2> QED
    BY <2>1, <2>3, <2>4 DEF Ahead, Later
<1>4. CASE SaveCursor \/ Restart
  BY <1>4 DEF SaveCursor, Restart
<1>5. ASSUME \/ AdvanceClock \/ (\E x \in Rows : Arrive(x) \/ CheckRow(x))
             \/ (\E s \in Sends : MatrixSend(s)) \/ PortalLoop \/ UNCHANGED vars
      PROVE  r \in InRoom' \cup Waiting' \cup missed' \cup batch' \/ Later(r)'
  <2>1. /\ UNCHANGED <<polling, batch, newest, cursor, missed, restarts>>
        /\ date'[r] # date[r] => date'[r] = now
    BY <1>0, <1>5 DEF AdvanceClock, Arrive, MatrixSend, PortalLoop, BeginSend, SendSMS,
                Answered, SendFails, MarkSentEcho, StoreRow, StoreReaction, HandleRow,
                HandleReaction, CheckRow, vars, api, Clock
  <2>2. CASE date[r] # 0
    <3>1. ~Passed(r)
      BY <1>0, <2>1, <2>2 DEF Passed
    <3>2. r \in InRoom \cup Waiting \cup missed \cup batch \/ Later(r)
      BY <2>1, <2>2, <3>1 DEF Seen
    <3>3. ~Restart
      BY <2>1 DEF Restart, Types, Sweep
    <3>4. InRoom \cup Waiting \subseteq InRoom' \cup Waiting'
      BY <3>3, HeldStays
    <3>5. Later(r) => Later(r)'
      BY <1>0, <2>1, <2>2 DEF Later
    <3> QED
      BY <2>1, <3>2, <3>4, <3>5
  <2>3. CASE date[r] = 0
    <3>1. date'[r] = now
      BY <2>1, <2>3
    <3> QED
      BY <1>0, <2>1, <3>1 DEF Later, Clock
  <2> QED
    BY <2>2, <2>3
<1> QED
  BY <1>1, <1>2, <1>3, <1>4, <1>5 DEF Next, Poll
SweepInv == Types /\ Ahead /\ Seen

LEMMA SweepInvHolds == Spec => []SweepInv
<1>1. Init => SweepInv
  BY TypesInit DEF Init, SweepInv, Ahead, Seen
<1>2. SweepInv /\ [Next]_vars => SweepInv'
  BY TypesStep, AheadStep, SeenStep DEF SweepInv
<1> QED
  BY <1>1, <1>2, PTL DEF Spec

\* When the cursor moves, what it passes is held or was too old for a sweep.
LEMMA PassedIsHeld ==
  ASSUME SweepInv, SaveCursor, NEW r \in Others, date[r] # 0, ~Passed(r), date[r] < newest
  PROVE  newest = cursor \/ r \in InRoom \cup Waiting \cup missed
<1>1. r \in InRoom \cup Waiting \cup missed \cup batch \/ Later(r)
  BY DEF SweepInv, Seen, SaveCursor
<1>2. batch = {} /\ r \in Rows
  BY DEF SaveCursor, Others
<1> QED
  BY <1>1, <1>2 DEF Later, SweepInv, Types, Clock

LEMMA CoversStep == SweepInv /\ CursorCovers /\ [Next]_vars => CursorCovers'
<1> SUFFICES ASSUME SweepInv, CursorCovers, [Next]_vars, restarts' = 0,
                    NEW r \in Rows \ OwnRows, date'[r] \in 1 .. cursor' - 1
             PROVE  r \in InRoom' \cup Waiting' \cup missed'
  BY DEF CursorCovers
<1> USE DEF SweepInv, Types
<1>1. ~Restart /\ restarts = 0
  <2>1. restarts' = restarts \/ restarts' = restarts + 1
    BY DEF Next, AdvanceClock, Arrive, MatrixSend, PortalLoop, BeginSend, SendSMS,
           Answered, SendFails, MarkSentEcho, StoreRow, StoreReaction, HandleRow, HandleReaction,
           Poll, Fetch, DropEcho, CheckRow, QueueRow, HandOverFails, SaveCursor, Restart, vars
  <2> QED
    BY <2>1 DEF Restart, Sweep
<1>2. InRoom \cup Waiting \cup missed \subseteq InRoom' \cup Waiting' \cup missed'
  <2>1. missed \subseteq missed'
    BY DEF Next, AdvanceClock, Arrive, MatrixSend, PortalLoop, BeginSend, SendSMS,
           Answered, SendFails, MarkSentEcho, StoreRow, StoreReaction, HandleRow,
           HandleReaction, Poll, Fetch, DropEcho, CheckRow, QueueRow, HandOverFails,
           SaveCursor, Restart, vars, poll
  <2> QED
    BY <1>1, <2>1, HeldStays
<1>3. CASE SaveCursor
  <2>1. /\ date' = date /\ cursor' = newest /\ Clock /\ r \in Others
        /\ date[r] # 0 /\ date[r] < newest /\ date[r] >= 1
    BY <1>3 DEF SaveCursor, api, Others, Clock
  <2>2. CASE ~Passed(r)
    <3>1. newest = cursor \/ r \in InRoom \cup Waiting \cup missed
      BY <1>3, <2>1, <2>2, PassedIsHeld
    <3> QED
      BY <1>1, <1>2, <2>1, <3>1 DEF CursorCovers, Clock
  <2>3. CASE Passed(r)
    <3>1. date[r] < cursor
      BY <2>1, <2>3, PassedIsOld DEF Clock
    <3> QED
      BY <1>1, <1>2, <2>1, <3>1 DEF CursorCovers, Clock
  <2> QED
    BY <2>2, <2>3
<1>4. CASE ~SaveCursor
  <2>1. cursor' = cursor /\ (date'[r] # date[r] => date'[r] = now)
    <3>1. cursor' = cursor
      BY <1>1, <1>4 DEF Next, AdvanceClock, Arrive, MatrixSend, PortalLoop, BeginSend,
           SendSMS, Answered, SendFails, MarkSentEcho, StoreRow, StoreReaction, HandleRow,
           HandleReaction, Poll, Fetch, DropEcho, CheckRow, QueueRow, HandOverFails, vars, poll
    <3>2. \/ date' = date
          \/ \E x : date' = [date EXCEPT ![x] = now]
      BY <1>1, <1>4 DEF Next, AdvanceClock, Arrive, MatrixSend, PortalLoop, BeginSend,
           SendSMS, Answered, SendFails, MarkSentEcho, StoreRow, StoreReaction, HandleRow,
           HandleReaction, Poll, Fetch, DropEcho, CheckRow, QueueRow, HandOverFails, vars, api
    <3> QED
      BY <3>1, <3>2 DEF Clock
  <2>2. date'[r] = date[r]
    BY <2>1 DEF Clock
  <2> QED
    BY <1>1, <1>2, <2>1, <2>2 DEF CursorCovers
<1> QED
  BY <1>3, <1>4

\* The cursor never passes a message of somebody else that the room did not get,
\* that is not on its way and that no sweep found too old to ask for: whatever the
\* buffer's size, the overlap, the window of the backfill and the order of
\* arrivals, polls and deliveries.
THEOREM CursorNeverSkips == Spec => []CursorCovers
<1>1. Init => CursorCovers
  BY DEF Init, CursorCovers
<1> QED
  BY <1>1, CoversStep, SweepInvHolds, PTL DEF Spec

-----------------------------------------------------------------------------
(* Reactions.                                                              *)

\* A row that is still to be handled: by this sweep, or by the next, which asks
\* for what follows the newest row of one that stopped.
Open(f) ==
  ~Passed(f) /\ (polling /\ newest # 0 => ~(Day(date[f]) < Day(newest - Lookback)))
Due(f) == f \in batch \/ (~whole /\ date[f] # 0 /\ Open(f))

\* A sweep that stopped at a failed hand-over has nothing left to handle.
Stopped == ~whole => batch = {}

HeldListed == \A f \in Others \cap (InRoom \cup Waiting) : date[f] # 0

\* A sweep that delivers a row again delivers the newer ones again after it ...
BatchOrder ==
  \A f \in Others \cap (InRoom \cup Waiting), g \in batch : date[g] < date[f] => f \in batch

\* ... so that behind a reaction in the buffer the newer fallbacks follow, but for
\* those that have got too old.
Behind(i, f) == \E k \in i + 1 .. Len(queue) : queue[k].type # "send" /\ queue[k].what = f
QueueOrder ==
  \A f \in Others \cap (InRoom \cup Waiting), i \in 1 .. Len(queue) :
    queue[i].type = "reaction" /\ date[queue[i].what] < date[f]
      => Behind(i, f) \/ Due(f) \/ f \in missed

\* The newest fallback decides, or it is delivered once more.
Decided ==
  \A x \in applied :
    x[2] \in Others /\ Newest(x) /\ ~Astray(x[2])
    => (x \in shown <=> x[2] \notin Removes) \/ x[2] \in Waiting \/ Due(x[2])

\* While the loop sends a reaction it applies no other, so that all those applied
\* are no newer than the one it sends.
Quiet ==
  sending.phase \in {"sent", "mark", "store"} /\ sending.send \in Reactions =>
    /\ date[PartsOf[sending.send][1]] # 0
    /\ \A x \in applied :
         x[2] \in Others => date[x[2]] <= date[PartsOf[sending.send][1]]

ReactionInv == Stopped /\ HeldListed /\ BatchOrder /\ QueueOrder /\ Quiet /\ Decided

Appended(f) == \E event \in Events : /\ queue' = Append(queue, event)
                                     /\ event.type # "send" /\ event.what = f

LEMMA QueuedIsNext ==
  ASSUME Types, NEW r \in Rows, QueueRow(r)
  PROVE  /\ First(r) /\ r \in batch /\ batch' = batch \ {r} /\ date' = date
         /\ found \in Events /\ found.type # "send" /\ found.what = r
         /\ queue' = Append(queue, found) /\ Appended(r) /\ missed' = missed
<1>1. found \in FromPoll /\ found.what = r /\ First(r)
  BY DEF QueueRow, Types, Checked
<1>2. found \in Events /\ found.type # "send" /\ queue' = Append(queue, found)
  BY <1>1, PollEvents DEF QueueRow, Enqueue
<1> QED
  BY <1>1, <1>2 DEF QueueRow, Handled, First, Appended, api

LEMMA MissedGrows == [Next]_vars => missed \subseteq missed'
BY DEF Next, AdvanceClock, Arrive, MatrixSend, PortalLoop, BeginSend, SendSMS, Answered,
       SendFails, MarkSentEcho, StoreRow, StoreReaction, HandleRow, HandleReaction, Poll,
       Fetch, DropEcho, CheckRow, QueueRow, HandOverFails, SaveCursor, Restart, vars, poll

LEMMA StoppedStep == Types /\ Stopped /\ [Next]_vars => Stopped'
<1> SUFFICES ASSUME Types, Stopped, [Next]_vars PROVE Stopped'
  OBVIOUS
<1> USE DEF Stopped, poll
<1>1. ASSUME NEW r \in Rows, DropEcho(r) \/ QueueRow(r) PROVE Stopped'
  BY <1>1 DEF DropEcho, QueueRow, Handled
<1>2. CASE Fetch \/ HandOverFails \/ SaveCursor \/ Restart
  BY <1>2 DEF Fetch, HandOverFails, SaveCursor, Restart
<1>3. CASE \/ AdvanceClock \/ (\E r \in Rows : Arrive(r) \/ CheckRow(r))
           \/ (\E s \in Sends : MatrixSend(s)) \/ PortalLoop \/ UNCHANGED vars
  BY <1>3 DEF AdvanceClock, Arrive, MatrixSend, PortalLoop, BeginSend, SendSMS, Answered,
              SendFails, MarkSentEcho, StoreRow, StoreReaction, HandleRow, HandleReaction,
                CheckRow, vars
<1> QED
  BY <1>1, <1>2, <1>3 DEF Next, Poll

\* A step away from the poll leaves what is due.
LEMMA DueUntouched ==
  ASSUME Types, [Next]_vars, UNCHANGED <<cursor, polling, batch, newest, whole>>,
         NEW f \in Others, Due(f)
  PROVE  Due(f)'
<1>1. f \in Rows /\ date[f] # 0
  BY DEF Others, Due, Types, Sweep
<1>2. date'[f] = date[f]
  BY <1>1, Keeps DEF Types
<1> QED
  BY <1>2 DEF Due, Open, Passed

\* What is due stays so until it is queued.
LEMMA DueStays ==
  ASSUME Types, Ahead, Stopped, [Next]_vars, NEW f \in Others, Due(f)
  PROVE  Due(f)' \/ Appended(f) \/ f \in missed'
<1>1. /\ f \in Rows /\ f \notin OwnRows /\ date[f] # 0 /\ ~Passed(f)
      /\ Clock /\ Sweep
  BY DEF Others, Due, Open, Types, Sweep
<1>2. ASSUME NEW r \in Rows, DropEcho(r) \/ QueueRow(r) PROVE Due(f)' \/ Appended(f)
  <2>1. r \in batch /\ batch' = batch \ {r} /\ f \in batch
    BY <1>2, QueuedIsNext DEF DropEcho, Upcoming, First, Handled, Stopped, Due
  <2>2. CASE f # r
    BY <2>1, <2>2 DEF Due
  <2>3. CASE f = r
    <3>1. QueueRow(f)
      BY <1>1, <1>2, <2>3 DEF DropEcho, IsSentEcho, Sweep
    <3> QED
      BY <1>1, <3>1, QueuedIsNext
  <2> QED
    BY <2>2, <2>3
<1>3. CASE Fetch
  BY <1>1, <1>3, LeftOutIsTooOld DEF Fetch, Due, Clock
<1>4. CASE HandOverFails
  <2>1. /\ f \in batch /\ batch' = {} /\ ~whole'
        /\ UNCHANGED <<date, cursor, newest, polling>>
    BY <1>4 DEF HandOverFails, Types, Checked, First, Stopped, Due, api
  <2>2. newest = cursor \/ newest <= date[f]
    BY <2>1 DEF Ahead
  <2>3. ASSUME newest <= date[f] PROVE ~(Day(date[f]) < Day(newest - Lookback))
    <3>1. newest - Lookback \in Int /\ date[f] \in Int /\ newest - Lookback <= date[f]
      BY <1>1, <2>3, TimeAssumption DEF Clock
    <3> QED
      BY <3>1, DayMonotone
  <2> QED
    BY <1>1, <2>1, <2>2, <2>3 DEF Due, Open, Passed
<1>5. CASE SaveCursor
  <2>1. /\ batch = {} /\ batch' = {} /\ polling /\ ~polling' /\ cursor' = newest
        /\ UNCHANGED <<date, whole>>
    BY <1>5 DEF SaveCursor, api
  <2> QED
    BY <1>1, <2>1 DEF Due, Open, Passed
<1>6. CASE Restart
  <2>1. ~polling' /\ ~whole' /\ UNCHANGED <<date, cursor>>
    BY <1>6 DEF Restart, api
  <2> QED
    BY <1>1, <2>1 DEF Due, Open, Passed
<1>7. CASE \/ AdvanceClock \/ (\E r \in Rows : Arrive(r) \/ CheckRow(r))
           \/ (\E s \in Sends : MatrixSend(s)) \/ PortalLoop \/ UNCHANGED vars
  <2>1. UNCHANGED <<cursor, polling, batch, newest, whole>>
    BY <1>7 DEF AdvanceClock, Arrive, MatrixSend, PortalLoop, BeginSend, SendSMS, Answered,
                SendFails, MarkSentEcho, StoreRow, StoreReaction, HandleRow, HandleReaction,
                CheckRow, vars, poll
  <2> QED
    BY <2>1, DueUntouched
<1> QED
  BY <1>2, <1>3, <1>4, <1>5, <1>6, <1>7 DEF Next, Poll

\* Only the poll brings a row of somebody else.
LEMMA HeldGrows ==
  ASSUME Types, [Next]_vars, NEW f \in Others, f \in InRoom' \cup Waiting'
  PROVE  f \in InRoom \cup Waiting \/ QueueRow(f)
<1>0. f \notin OwnRows
  BY DEF Others
<1>1. CASE (\E s \in Sends : MatrixSend(s)) \/ BeginSend
  <2>1. UNCHANGED <<db, applied>>
    BY <1>1 DEF MatrixSend, BeginSend, room
  <2> QED
    BY <1>1, <2>1, SendIsNoRow DEF InRoom
<1>2. ASSUME NEW r \in Rows, QueueRow(r) PROVE f \in InRoom \cup Waiting \/ QueueRow(f)
  <2>1. UNCHANGED <<db, applied>>
    BY <1>2 DEF QueueRow, room
  <2> QED
    BY <1>2, <2>1, QueuedRow DEF InRoom
<1>3. CASE HandleRow \/ HandleReaction
  BY <1>3, HandledRow
<1>4. CASE StoreRow \/ StoreReaction
  BY <1>0, <1>4, StoredIsOwn
<1>5. CASE Restart
  <2>1. UNCHANGED <<db, applied>> /\ queue' = <<>>
    BY <1>5 DEF Restart, room
  <2> QED
    BY <2>1 DEF InRoom, Waiting, ToSet
<1> QED
  BY <1>1, <1>2, <1>3, <1>4, <1>5, Untouched DEF Next, PortalLoop, Poll

LEMMA HeldListedStep == Types /\ HeldListed /\ [Next]_vars => HeldListed'
<1> SUFFICES ASSUME Types, HeldListed, [Next]_vars,
                    NEW f \in Others, f \in InRoom' \cup Waiting'
             PROVE  date'[f] # 0
  BY DEF HeldListed, Others
<1>1. f \in Rows /\ (f \in InRoom \cup Waiting \/ f \in batch)
  BY HeldGrows, QueuedIsNext DEF Others
<1>2. date[f] # 0
  BY <1>1 DEF HeldListed, Types, Sweep
<1> QED
  BY <1>1, <1>2, Keeps DEF Types

LEMMA BatchOrderStep ==
  Types /\ HeldListed /\ BatchOrder /\ [Next]_vars => BatchOrder'
<1> SUFFICES ASSUME Types, HeldListed, BatchOrder, [Next]_vars,
                    NEW f \in Others, f \in InRoom' \cup Waiting',
                    NEW g \in batch', date'[g] < date'[f]
             PROVE  f \in batch'
  BY DEF BatchOrder, Others
<1>0. /\ f \in Rows /\ Clock /\ Sweep /\ \A r \in Rows : date[r] # 0 => date'[r] = date[r]
      /\ f \in InRoom \cup Waiting \/ QueueRow(f)
  BY Keeps, HeldGrows DEF Types, Others
<1>1. ASSUME NEW r \in Rows, DropEcho(r) \/ QueueRow(r) PROVE f \in batch'
  <2>1. /\ First(r) /\ batch' = batch \ {r} /\ date' = date
    BY <1>1, QueuedIsNext DEF DropEcho, Upcoming, Handled, api
  <2>2. date[r] <= date[g] /\ g \in batch /\ g \in Rows
    BY <1>0, <2>1 DEF First, Sweep
  <2>3. f # r
    BY <1>0, <2>1, <2>2 DEF Clock
  <2>4. f \in batch
    BY <1>0, <2>1, <2>2, QueuedIsNext DEF BatchOrder
  <2> QED
    BY <2>1, <2>3, <2>4
<1>2. CASE Fetch
  <2>1. /\ batch' = {r \in Rows : date[r] # 0 /\ AskedFor(r)} /\ date' = date
    BY <1>2 DEF Fetch, api
  <2>2. /\ date[g] \in Int /\ date[f] \in Int /\ date[g] <= date[f] /\ date[f] # 0
        /\ AskedFor(g) /\ cursor \in Nat /\ now \in Nat
    BY <1>0, <2>1 DEF Clock
  <2>3. /\ Day(date[g]) <= Day(date[f]) /\ Day(date[g]) \in Int /\ Day(date[f]) \in Int
    BY <2>2, DayMonotone
  <2>4. QueryStart \in Int /\ Day(QueryStart) \in Int
    <3>1. QueryStart \in Int
      BY <2>2, TimeAssumption DEF QueryStart
    <3> QED
      BY <3>1, DayMonotone
  <2>5. AskedFor(f)
    BY <2>2, <2>3, <2>4 DEF AskedFor
  <2> QED
    BY <1>0, <2>1, <2>2, <2>5
<1>3. CASE HandOverFails \/ SaveCursor \/ Restart
  BY <1>3 DEF HandOverFails, SaveCursor, Restart
<1>4. CASE \/ AdvanceClock \/ (\E r \in Rows : Arrive(r) \/ CheckRow(r))
           \/ (\E s \in Sends : MatrixSend(s)) \/ PortalLoop \/ UNCHANGED vars
  <2>1. batch' = batch /\ (QueueRow(f) => f \in batch)
    BY <1>0, <1>4, QueuedIsNext DEF AdvanceClock, Arrive, MatrixSend, PortalLoop, BeginSend, SendSMS, Answered,
                SendFails, MarkSentEcho, StoreRow, StoreReaction, HandleRow, HandleReaction,
                CheckRow, vars, poll
  <2>2. CASE f \in InRoom \cup Waiting
    <3>1. date[f] # 0 /\ g \in Rows /\ date[g] # 0
      BY <1>0, <2>1, <2>2 DEF HeldListed, Sweep
    <3>2. date[g] < date[f]
      BY <1>0, <3>1
    <3> QED
      BY <2>1, <2>2, <3>2 DEF BatchOrder
  <2> QED
    BY <1>0, <2>1, <2>2
<1> QED
  BY <1>1, <1>2, <1>3, <1>4 DEF Next, Poll

\* The loop takes its first event.
LEMMA Taken ==
  ASSUME Types, BeginSend \/ HandleRow \/ HandleReaction
  PROVE  /\ queue # <<>> /\ queue' = Tail(queue) /\ Len(queue) \in Nat \ {0}
         /\ Len(queue') = Len(queue) - 1 /\ Head(queue) = queue[1]
         /\ \A i \in 1 .. Len(queue') : queue'[i] = queue[i + 1]
         /\ UNCHANGED <<date, cursor, polling, batch, newest, whole>>
<1>1. queue # <<>> /\ queue' = Tail(queue) /\ queue \in Seq(Events)
  BY DEF BeginSend, HandleRow, HandleReaction, NextIs, Types, Buffer, QueueTypes
<1>2. UNCHANGED <<date, cursor, polling, batch, newest, whole>>
  BY DEF BeginSend, HandleRow, HandleReaction, api, poll
<1> QED
  BY <1>1, <1>2

\* What comes behind an event still does when it is taken, or comes first.
LEMMA BehindTaken ==
  ASSUME Types, BeginSend \/ HandleRow \/ HandleReaction,
         NEW f \in Others, NEW i \in 1 .. Len(queue), Behind(i, f)
  PROVE  /\ i > 1 => Behind(i - 1, f)'
         /\ f \in RowsOf(queue')
<1>1. PICK k \in i + 1 .. Len(queue) : queue[k].type # "send" /\ queue[k].what = f
  BY DEF Behind
<1>2. /\ k - 1 \in 1 .. Len(queue') /\ k - 1 >= i /\ queue'[k - 1] = queue[k]
      /\ i \in Nat /\ Len(queue') \in Nat
  BY <1>1, Taken
<1>3. f \in Rows
  BY DEF Others
<1> QED
  BY <1>1, <1>2, <1>3 DEF Behind, RowsOf

\* What is queued comes behind everything.
LEMMA BehindAppended ==
  ASSUME Types, NEW f, Appended(f), NEW i \in 1 .. Len(queue)
  PROVE  Behind(i, f)'
<1>1. PICK event \in Events : /\ queue' = Append(queue, event)
                             /\ event.type # "send" /\ event.what = f
  BY DEF Appended
<1>2. queue \in Seq(Events)
  BY DEF Types, Buffer, QueueTypes
<1>3. Len(queue') = Len(queue) + 1 /\ Len(queue) \in Nat /\ queue'[Len(queue) + 1] = event
  BY <1>1, <1>2
<1> QED
  BY <1>1, <1>3 DEF Behind

LEMMA QueueOrderStep ==
  ReactionInv /\ SweepInv /\ [Next]_vars => QueueOrder'
<1> SUFFICES ASSUME ReactionInv, SweepInv, [Next]_vars,
                    NEW f \in Others, f \in InRoom' \cup Waiting',
                    NEW i \in 1 .. Len(queue'), queue'[i].type = "reaction",
                    date'[queue'[i].what] < date'[f]
             PROVE  Behind(i, f)' \/ Due(f)' \/ f \in missed'
  BY DEF QueueOrder, Others
<1> USE DEF SweepInv
<1>0. /\ f \in Rows /\ Clock /\ Sweep /\ \A r \in Rows : date[r] # 0 => date'[r] = date[r]
      /\ f \in InRoom \cup Waiting \/ QueueRow(f)
      /\ queue \in Seq(Events) /\ Len(queue) \in Nat
      /\ QueueOrder /\ Stopped /\ BatchOrder /\ HeldListed
  BY Keeps, HeldGrows DEF Types, Others, Buffer, QueueTypes, ReactionInv
<1>m. missed \subseteq missed'
  BY MissedGrows
<1>1. ASSUME NEW r \in Rows, QueueRow(r)
      PROVE  Behind(i, f)' \/ Due(f)' \/ f \in missed'
  <2> DEFINE event == found
  <2>1. queue' = Append(queue, event) /\ Appended(r)
    BY <1>1, QueuedIsNext
  <2>2. event \in Events /\ event.type # "send" /\ event.what = r
    BY <1>1, QueuedIsNext
  <2>3. First(r) /\ batch' = batch \ {r} /\ date' = date
    BY <1>1, QueuedIsNext
  <2>4. CASE i = Len(queue) + 1
    <3>1. queue'[i] = event /\ date[r] < date[f]
      BY <1>0, <2>1, <2>2, <2>3, <2>4
    <3>2. f # r /\ f \in InRoom \cup Waiting \cup batch
      BY <1>0, <3>1, QueuedIsNext DEF Clock
    <3>3. f \in batch
      BY <1>0, <2>3, <3>1, <3>2 DEF BatchOrder, First
    <3> QED
      BY <2>3, <3>2, <3>3 DEF Due
  <2>5. CASE i # Len(queue) + 1
    <3>1. i \in 1 .. Len(queue) /\ queue'[i] = queue[i]
      BY <1>0, <2>1, <2>5
    <3>2. CASE f = r
      BY <2>1, <3>1, <3>2, BehindAppended
    <3>3. CASE f # r
      <4>1. f \in InRoom \cup Waiting \/ Due(f)
        BY <1>0, QueuedIsNext DEF Due
      <4>2. Behind(i, f) \/ Due(f) \/ f \in missed
        BY <1>0, <2>3, <3>1, <4>1 DEF QueueOrder
      <4>3. Behind(i, f) => Behind(i, f)'
        BY <1>0, <2>1 DEF Behind
      <4> QED
        BY <1>0, <1>m, <3>1, <4>2, <4>3, DueStays, BehindAppended
    <3> QED
      BY <3>2, <3>3
  <2> QED
    BY <2>4, <2>5
<1>2. CASE BeginSend \/ HandleRow \/ HandleReaction
  <2>1. /\ i + 1 \in 1 .. Len(queue) /\ queue'[i] = queue[i + 1]
        /\ UNCHANGED <<date, cursor, polling, batch, newest, whole>>
    BY <1>2, Taken
  <2>2. f \in InRoom \cup Waiting
    <3>1. ~QueueRow(f)
      BY <1>0, <2>1, QueuedIsNext
    <3> QED
      BY <1>0, <3>1
  <2>3. Behind(i + 1, f) \/ Due(f) \/ f \in missed
    BY <1>0, <2>1, <2>2 DEF QueueOrder
  <2>4. Behind(i + 1, f) => Behind(i, f)'
    <3>1. i + 1 > 1 /\ (i + 1) - 1 = i
      BY <2>1
    <3> QED
      BY <1>2, <2>1, <3>1, BehindTaken
  <2> QED
    BY <1>m, <2>1, <2>3, <2>4, DueUntouched
<1>3. ASSUME NEW s \in Sends, MatrixSend(s)
      PROVE  Behind(i, f)' \/ Due(f)' \/ f \in missed'
  <2>1. /\ queue' = Append(queue, [type |-> "send", what |-> s])
        /\ UNCHANGED <<date, cursor, polling, batch, newest, whole>>
    BY <1>3 DEF MatrixSend, Enqueue, api, poll
  <2>2. i \in 1 .. Len(queue) /\ queue'[i] = queue[i]
    BY <1>0, <2>1
  <2>3. f \in InRoom \cup Waiting
    BY <1>0, <2>1, QueuedIsNext
  <2>4. Behind(i, f) \/ Due(f) \/ f \in missed
    BY <1>0, <2>1, <2>2, <2>3 DEF QueueOrder
  <2>5. Behind(i, f) => Behind(i, f)'
    BY <1>0, <2>1 DEF Behind
  <2> QED
    BY <1>m, <2>1, <2>4, <2>5, DueUntouched
<1>4. CASE Restart
  BY <1>4 DEF Restart
<1>5. CASE \/ AdvanceClock \/ (\E r \in Rows : Arrive(r) \/ DropEcho(r) \/ CheckRow(r))
           \/ SendSMS \/ Answered \/ SendFails \/ MarkSentEcho \/ StoreRow \/ StoreReaction
           \/ Fetch \/ SaveCursor \/ HandOverFails \/ UNCHANGED vars
  <2>1. queue' = queue
    BY <1>5 DEF AdvanceClock, Arrive, DropEcho, CheckRow, SendSMS, Answered, SendFails,
                MarkSentEcho, StoreRow, StoreReaction, Fetch, SaveCursor, HandOverFails,
                vars, loop
  <2>2. f \in InRoom \cup Waiting
    <3>1. ~QueueRow(f)
      BY <1>0, <2>1 DEF QueueRow, Enqueue
    <3> QED
      BY <1>0, <3>1
  <2>3. /\ queue[i] \in Events /\ queue[i].what \in Rows /\ date[queue[i].what] # 0
        /\ date[f] # 0
    BY <1>0, <2>1, <2>2, EventTypes DEF Types, Buffer, Ready, HeldListed
  <2>4. Behind(i, f) \/ Due(f) \/ f \in missed
    BY <1>0, <2>1, <2>2, <2>3 DEF QueueOrder
  <2>5. ~Appended(f)
    BY <1>0, <2>1 DEF Appended
  <2> QED
    BY <1>0, <1>m, <2>1, <2>4, <2>5, DueStays DEF Behind
<1> QED
  BY <1>1, <1>2, <1>3, <1>4, <1>5 DEF Next, PortalLoop, Poll

LEMMA QuietStep == ReactionInv /\ SweepInv /\ [Next]_vars => Quiet'
<1> SUFFICES ASSUME ReactionInv, SweepInv, [Next]_vars,
                    sending'.phase \in {"sent", "mark", "store"},
                    sending'.send \in Reactions
             PROVE  LET f == PartsOf[sending'.send][1]
                    IN  /\ date'[f] # 0
                        /\ \A x \in applied' : x[2] \in Others => date'[x[2]] <= date'[f]
  BY DEF Quiet, Others
<1> DEFINE f == PartsOf[sending'.send][1]
<1>0. /\ Types /\ Clock /\ Sending /\ Sending' /\ HeldListed /\ Quiet
      /\ \A r \in Rows : date[r] # 0 => date'[r] = date[r]
      /\ \A x \in applied : x[2] \in Others => date[x[2]] # 0 /\ x[2] \in Rows
  BY Keeps, TypesStep DEF Types, SweepInv, ReactionInv, HeldListed, InRoom, Others
<1>1. sending' # NoSend /\ f \in Rows
  <2>1. /\ sending' # NoSend /\ sending'.send \in Sends
    BY <1>0 DEF NoSend, Sending
  <2>2. PartsOf[sending'.send] \in Seq(Rows) /\ Len(PartsOf[sending'.send]) >= 1
    BY <2>1, PartsAssumption
  <2> QED
    BY <2>1, <2>2
<1>2. CASE SendSMS
  <2>1. sending # NoSend /\ sending.phase = "call"
    BY <1>2 DEF SendSMS, NoSend
  <2>2. sending'.send = sending.send /\ sending.send \in Sends
    BY <1>0, <1>2, <2>1 DEF SendSMS, Sending
  <2>3. Part = f
    <3>1. Len(PartsOf[sending.send]) = 1 /\ sending.part \in 1 .. 1
      BY <1>0, <2>1, <2>2, PartsAssumption DEF Sending
    <3> QED
      BY <2>2, <3>1 DEF Part
  <2>4. date'[f] = now /\ applied' = applied
    BY <1>0, <1>1, <1>2, <2>3 DEF SendSMS, Clock, room
  <2> QED
    BY <1>0, <2>4 DEF Clock
<1>3. ASSUME sending.phase \in {"sent", "mark", "store"}, sending'.send = sending.send,
             applied' = applied
      PROVE  /\ date'[f] # 0
             /\ \A x \in applied' : x[2] \in Others => date'[x[2]] <= date'[f]
  <2>1. date[f] # 0 /\ \A x \in applied : x[2] \in Others => date[x[2]] <= date[f]
    BY <1>0, <1>3 DEF Quiet
  <2>2. date'[f] = date[f]
    BY <1>0, <1>1, <2>1
  <2> QED
    BY <1>0, <1>3, <2>1, <2>2
<1>4. CASE Answered \/ MarkSentEcho
  <2>1. sending # NoSend /\ sending.phase \in {"sent", "mark"} /\ applied' = applied
    BY <1>4 DEF Answered, MarkSentEcho, NoSend, room
  <2>2. sending'.send = sending.send
    BY <1>0, <1>4, <2>1 DEF Answered, MarkSentEcho, PartDone, Sending
  <2> QED
    BY <1>3, <2>1, <2>2
<1>5. CASE BeginSend \/ SendFails \/ StoreRow \/ StoreReaction \/ Restart
  BY <1>5 DEF BeginSend, SendFails, StoreRow, StoreReaction, Sent, Restart, NoSend
<1>6. CASE HandleRow \/ HandleReaction
  BY <1>1, <1>6 DEF HandleRow, HandleReaction, NextIs
<1>7. CASE \/ AdvanceClock \/ (\E r \in Rows : Arrive(r))
           \/ (\E s \in Sends : MatrixSend(s)) \/ Poll \/ UNCHANGED vars
  <2>1. sending' = sending /\ applied' = applied
    BY <1>7 DEF AdvanceClock, Arrive, MatrixSend, Poll, Fetch, SaveCursor, HandOverFails,
                DropEcho, CheckRow, QueueRow, vars, loop, room
  <2> QED
    BY <1>3, <2>1
<1> QED
  BY <1>2, <1>4, <1>5, <1>6, <1>7 DEF Next, PortalLoop

\* What decided or went astray before a step still does.
LEMMA StillNewest ==
  ASSUME SweepInv, HeldListed, [Next]_vars, NEW x \in applied, x[2] \in Others,
         Newest(x)', ~Astray(x[2])', lost \subseteq lost'
  PROVE  Newest(x) /\ ~Astray(x[2])
<1>1. /\ db \subseteq db' /\ applied \subseteq applied' /\ x[2] \in InRoom
      /\ date \in [Rows -> Nat] /\ date' \in [Rows -> Nat]
      /\ \A r \in Rows : date[r] # 0 => date'[r] = date[r]
      /\ \A y \in applied : y[2] \in Rows
  BY Keeps, TypesStep, FallbackAssumption DEF SweepInv, Types, Clock, Room, InRoom
<1>2. ~Astray(x[2])
  BY <1>1, MissedGrows DEF Astray
<1>3. date'[x[2]] = date[x[2]]
  BY <1>1 DEF HeldListed, Others
<1>4. \A y \in applied : date[y[2]] <= date'[y[2]]
  BY <1>1
<1>5. ASSUME NEW y \in applied \ {x}, y[1] = x[1], Sender(y[2]) = Sender(x[2])
      PROVE  date[y[2]] < date[x[2]]
  <2>1. date'[y[2]] < date'[x[2]]
    BY <1>1, <1>5 DEF Newest, Sender
  <2> QED
    BY <1>1, <1>3, <1>4, <2>1 DEF Others
<1> QED
  BY <1>2, <1>5 DEF Newest

\* The buffer's first reaction is overruled by a newer one of its sender.
LEMMA OverruledSoon ==
  ASSUME SweepInv, ReactionInv, [Next]_vars, HandleReaction,
         NEW f \in Others \cap InRoom, date[Head(queue).what] < date[f]
  PROVE  f \in Waiting' \/ Due(f)' \/ f \in missed
<1>1. Head(queue).type = "reaction"
  BY DEF HandleReaction, NextIs
<1>2. 1 \in 1 .. Len(queue) /\ Head(queue) = queue[1] /\ Types
  BY Taken DEF SweepInv
<1>3. Behind(1, f) \/ Due(f) \/ f \in missed
  BY <1>1, <1>2 DEF ReactionInv, QueueOrder
<1>4. CASE Behind(1, f)
  <2>1. f \in RowsOf(queue')
    BY <1>2, <1>4, BehindTaken
  <2>2. queue' \in Seq(Events)
    BY <1>2, TypesStep DEF Types, Buffer, QueueTypes
  <2>3. Waiting' = RowsOf(queue')
    BY <2>2, WaitingRows DEF Waiting, RowsOf, ToSet
  <2> QED
    BY <2>1, <2>3
<1>5. CASE Due(f)
  BY <1>2, <1>5, Taken, DueUntouched
<1> QED
  BY <1>3, <1>4, <1>5

LEMMA DecidedStep == ReactionInv /\ SweepInv /\ [Next]_vars => Decided'
<1> SUFFICES ASSUME ReactionInv, SweepInv, [Next]_vars,
                    NEW x \in applied', x[2] \in Others, Newest(x)', ~Astray(x[2])'
             PROVE  (x \in shown' <=> x[2] \notin Removes) \/ x[2] \in Waiting' \/ Due(x[2])'
  BY DEF Decided, Others
<1> DEFINE f == x[2]
           Outcome(set) == x \in set <=> f \notin Removes
<1>0. Types /\ Ahead /\ Stopped /\ HeldListed /\ Decided
  BY DEF SweepInv, ReactionInv
<1>1. ASSUME x \in applied, lost \subseteq lost'
      PROVE  /\ Outcome(shown) \/ f \in Waiting \/ Due(f)
             /\ f \in Others \cap InRoom
  BY <1>0, <1>1, StillNewest DEF Decided, InRoom
<1>m. f \notin missed /\ f \notin missed'
  BY MissedGrows DEF Astray
<1>2. CASE HandleReaction
  <2> DEFINE g == Head(queue).what
             t == Head(queue).target
             y == <<t, g>>
  <2>1. /\ shown' = Reacted(t, g) /\ applied' = applied \cup {y}
        /\ UNCHANGED <<date, lost, db, cursor, polling, batch, newest, whole>>
    BY <1>2 DEF HandleReaction, React, api, poll, past
  <2>2. t \in Rows /\ shown \subseteq applied /\ g \in Rows
    <3>1. Head(queue) \in Events /\ Head(queue).type = "reaction"
      BY <1>0, <1>2, HeadType DEF HandleReaction, NextIs, Types, Buffer
    <3> QED
      BY <1>0, <3>1, EventTypes DEF Types, Room
  <2>3. CASE x = y
    <3>1. x[1] = t /\ x[2] = g
      BY <2>3
    <3>2. x \in Rows \X Removes <=> f \in Removes
      BY <2>2, <2>3
    <3>3. x \notin {z \in shown : z[1] = t => Sender(z[2]) # Sender(g)}
      BY <3>1
    <3>4. x \in shown' <=> x \notin Rows \X Removes
      BY <2>1, <2>3, <3>3 DEF Reacted
    <3> QED
      BY <3>2, <3>4
  <2>4. CASE x # y
    <3>1. x \in applied /\ lost \subseteq lost'
      BY <2>1, <2>4
    <3>2. CASE x[1] = t /\ Sender(f) = Sender(g)
      <4>1. y \in applied' \ {x} /\ y[1] = x[1] /\ Sender(y[2]) = Sender(x[2]) /\ y[2] = g
        BY <2>1, <2>4, <3>2
      <4>2. date'[g] < date'[f]
        <5>1. \A z \in applied' \ {x} :
                z[1] = x[1] /\ Sender(z[2]) = Sender(x[2]) => date'[z[2]] < date'[x[2]]
          BY DEF Newest, Sender
        <5> HIDE DEF y
        <5> QED
          BY <4>1, <5>1
      <4> QED
        BY <1>1, <1>2, <1>m, <2>1, <3>1, <4>2, OverruledSoon
    <3>3. CASE ~(x[1] = t /\ Sender(f) = Sender(g))
      <4>1. f # g
        <5>1. ASSUME f = g PROVE Astray(f)'
          <6>1. x \in applied' /\ y \in applied' /\ x[2] = f /\ y[2] = f /\ x[1] # y[1]
            BY <2>1, <3>3, <5>1
          <6> HIDE DEF y, f
          <6> QED
            BY <6>1, Zenon DEF Astray
        <5> QED
          BY <5>1
      <4>2. x \in shown' <=> x \in shown
        BY <2>1, <2>4, <3>3 DEF Reacted
      <4>3. f \in Waiting => f \in Waiting'
        BY <1>0, <1>2, <4>1, HandledRow
      <4>4. Due(f) => Due(f)'
        BY <1>0, <2>1, DueUntouched
      <4> QED
        BY <1>1, <3>1, <4>2, <4>3, <4>4
    <3> QED
      BY <3>2, <3>3
  <2> QED
    BY <2>3, <2>4
<1>3. CASE HandleRow
  <2>1. /\ UNCHANGED <<shown, applied, lost, cursor, polling, batch, newest, whole>>
        /\ Head(queue).what \in db'
    BY <1>3 DEF HandleRow, poll
  <2>2. f # Head(queue).what
    BY <2>1 DEF Astray
  <2>3. f \in Waiting => f \in Waiting'
    BY <1>0, <1>3, <2>2, HandledRow
  <2> QED
    BY <1>0, <1>1, <2>1, <2>3, DueUntouched
<1>4. CASE Restart
  <2>1. /\ UNCHANGED <<shown, applied, date, cursor>> /\ ~whole' /\ ~polling'
        /\ lost' = lost \cup {r \in Waiting : Passed(r)} /\ queue' = <<>>
    BY <1>4 DEF Restart, api, room
  <2>2. CASE Outcome(shown)
    BY <2>1, <2>2
  <2>3. CASE f \in Waiting
    <3>1. ~Passed(f)
      BY <2>1, <2>3 DEF Astray
    <3>2. date[f] # 0
      BY <1>0, <2>3 DEF HeldListed
    <3> QED
      BY <2>1, <3>1, <3>2 DEF Due, Open, Passed
  <2>4. CASE Due(f)
    <3>1. ~Appended(f)
      <4>1. \A event \in Events : Append(queue, event) # <<>>
        BY <1>0 DEF Types, Buffer, QueueTypes
      <4> QED
        BY <2>1, <4>1, Zenon DEF Appended
    <3> QED
      BY <1>0, <1>m, <2>4, <3>1, DueStays
  <2> QED
    BY <1>1, <2>1, <2>2, <2>3, <2>4
<1>5. CASE \/ (\E s \in Sends : MatrixSend(s)) \/ BeginSend
           \/ AdvanceClock
           \/ (\E r \in Rows : Arrive(r) \/ DropEcho(r) \/ CheckRow(r) \/ QueueRow(r))
           \/ SendSMS \/ Answered \/ SendFails \/ MarkSentEcho \/ StoreRow
           \/ Fetch \/ SaveCursor \/ HandOverFails \/ UNCHANGED vars
  <2>1. UNCHANGED <<shown, applied, lost>>
    BY <1>5 DEF MatrixSend, BeginSend, AdvanceClock, Arrive, DropEcho, CheckRow, QueueRow, SendSMS,
                Answered, SendFails, MarkSentEcho, StoreRow, Fetch, SaveCursor, HandOverFails,
                vars, room, past
  <2>2. Waiting \subseteq Waiting'
    BY <1>0, <1>5, SendIsNoRow, QueuedRow, Untouched, StoredIsOwn
  <2>3. Appended(f) => f \in Waiting'
    <3> SUFFICES ASSUME Appended(f) PROVE f \in Waiting'
      OBVIOUS
    <3>1. PICK event \in Events : /\ queue' = Append(queue, event)
                                 /\ event.type # "send" /\ event.what = f
      BY DEF Appended
    <3>2. queue \in Seq(Events) /\ f \in Rows
      BY <1>0 DEF Types, Buffer, QueueTypes, Others
    <3>3. event \in ToSet(queue')
      <4>1. Len(queue') = Len(queue) + 1 /\ queue'[Len(queue) + 1] = event
            /\ Len(queue) + 1 \in 1 .. Len(queue')
        BY <3>1, <3>2
      <4> QED
        BY <4>1 DEF ToSet
    <3> QED
      BY <3>1, <3>2, <3>3 DEF Waiting
  <2> QED
    BY <1>0, <1>1, <1>m, <2>1, <2>2, <2>3, DueStays
<1>6. CASE StoreReaction
  <2> DEFINE g == PartsOf[sending.send][1]
  <2>1. PICK t \in Reactable(sending.send) : React(t, g)
    BY <1>6 DEF StoreReaction
  <2> DEFINE y == <<t, g>>
  <2>2. /\ shown' = Reacted(t, g) /\ applied' = applied \cup {y}
        /\ UNCHANGED <<date, lost, cursor, polling, batch, newest, whole>>
    BY <1>6, <2>1 DEF StoreReaction, React, api, poll
  <2>3. g \in OwnRows /\ f \notin OwnRows
    BY <1>0, <1>6, PartIsOwn DEF StoreReaction, NoSend, Types, Others
  <2>4. x # y /\ x \in applied /\ lost \subseteq lost'
    <3>1. y[2] = g
      OBVIOUS
    <3> HIDE DEF y
    <3> QED
      BY <2>2, <2>3, <3>1
  <2>5. ~(x[1] = t /\ Sender(f) = Sender(g))
    <3> SUFFICES ASSUME x[1] = t, Sender(f) = Sender(g) PROVE FALSE
      OBVIOUS
    <3>1. y \in applied' \ {x} /\ y[1] = x[1] /\ Sender(y[2]) = Sender(x[2]) /\ y[2] = g
      BY <2>2, <2>4
    <3>2. date'[g] < date'[f]
      <4>1. \A z \in applied' \ {x} :
              z[1] = x[1] /\ Sender(z[2]) = Sender(x[2]) => date'[z[2]] < date'[x[2]]
        BY DEF Newest, Sender
      <4> HIDE DEF y
      <4> QED
        BY <3>1, <4>1
    <3>3. date[f] <= date[g]
      <4>1. sending.phase = "store" /\ sending.send \in Reactions
        BY <1>6 DEF StoreReaction
      <4> QED
        BY <2>4, <4>1 DEF ReactionInv, Quiet
    <3>4. date[f] \in Int /\ date[g] \in Int
      <4>1. f \in Rows /\ g \in Rows
        BY <1>0, <1>6, PartIsOwn DEF StoreReaction, NoSend, Types, Others
      <4> QED
        BY <1>0, <4>1 DEF Types, Clock
    <3> QED
      BY <2>2, <3>2, <3>3, <3>4
  <2>6. x \in shown' <=> x \in shown
    BY <2>2, <2>4, <2>5 DEF Reacted
  <2>7. Waiting' = Waiting
    BY <1>0, <1>6, StoredIsOwn
  <2>8. Due(f) => Due(f)'
    BY <1>0, <2>2, DueUntouched
  <2> QED
    BY <1>1, <2>4, <2>6, <2>7, <2>8
<1> QED
  BY <1>2, <1>3, <1>4, <1>5, <1>6 DEF Next, PortalLoop, Poll

\* Whenever a sweep was handled to its end, a reaction that was not sent from the
\* room is what the newest fallback of its sender says, however often the older
\* ones were delivered again meanwhile, however small the buffer, and across
\* restarts.
THEOREM LastReactionStays == Spec => []LastReactionWins
<1>1. Init => ReactionInv
  BY DEF Init, ReactionInv, Stopped, HeldListed, BatchOrder, QueueOrder, Quiet, Decided,
         InRoom, Waiting, ToSet, NoSend
<1>2. ReactionInv /\ SweepInv /\ [Next]_vars => ReactionInv'
  BY StoppedStep, HeldListedStep, BatchOrderStep, QueueOrderStep, QuietStep, DecidedStep
     DEF ReactionInv, SweepInv
<1>3. ReactionInv /\ SweepInv => LastReactionWins
  <2> SUFFICES ASSUME ReactionInv, SweepInv, whole, ~polling, Waiting = {},
                      NEW x \in applied, x[2] \notin OwnRows, Newest(x), ~Astray(x[2])
               PROVE  x \in shown <=> x[2] \notin Removes
    BY DEF LastReactionWins
  <2>1. x[2] \in Others
    BY FallbackAssumption DEF SweepInv, Types, Room, Others
  <2>2. batch = {}
    BY DEF SweepInv, Types, Sweep
  <2> QED
    BY <2>1, <2>2 DEF ReactionInv, Decided, Due
<1> QED
  BY <1>1, <1>2, <1>3, SweepInvHolds, PTL DEF Spec

-----------------------------------------------------------------------------
(* First parts.                                                            *)

\* The first part of a text has its row when the send returns, and from the
\* moment VoIP.ms lists it until then the loop bridges nothing.
FirstPart == PartsOf[sending.send][1]
FirstKept ==
  /\ \A s \in done \ Reactions : PartsOf[s][1] \in db \ bridged
  /\ sending # NoSend /\ (sending.part # 1 \/ sending.phase # "call")
       => FirstPart \notin bridged

LEMMA FirstStep == Types /\ FirstKept /\ [Next]_vars => FirstKept'
<1> SUFFICES ASSUME Types, FirstKept, [Next]_vars PROVE FirstKept'
  OBVIOUS
<1> USE DEF Types, room, past
<1>1. CASE HandleRow
  BY <1>1 DEF HandleRow, NextIs, FirstKept, FirstPart
<1>2. CASE StoreRow
  <2>1. sending # NoSend /\ sending.phase = "store"
    BY <1>2 DEF StoreRow, NoSend
  <2> QED
    BY <1>2, <2>1 DEF StoreRow, Sent, FirstKept, FirstPart
<1>8. CASE StoreReaction
  BY <1>8 DEF StoreReaction, Sent, FirstKept
<1>3. CASE SendSMS
  <2>1. sending # NoSend /\ sending.phase = "call"
    BY <1>3 DEF SendSMS, NoSend
  <2>2. sending' = [sending EXCEPT !.phase = "sent"] /\ date[Part] = 0
    BY <1>3 DEF SendSMS
  <2>3. /\ sending'.send = sending.send /\ sending'.part = sending.part
    BY <2>1, <2>2 DEF Sending
  <2>4. sending.part = 1 => FirstPart \notin bridged
    BY <2>2 DEF Part, FirstPart, Room
  <2> QED
    BY <1>3, <2>1, <2>3, <2>4 DEF SendSMS, FirstKept, FirstPart
<1>4. CASE Answered \/ MarkSentEcho
  <2>1. sending # NoSend /\ sending.phase \in {"sent", "mark"}
    BY <1>4 DEF Answered, MarkSentEcho, NoSend
  <2>2. sending'.send = sending.send
    BY <1>4, <2>1 DEF Answered, MarkSentEcho, PartDone, Sending
  <2> QED
    BY <1>4, <2>1, <2>2 DEF Answered, MarkSentEcho, FirstKept, FirstPart
<1>5. CASE BeginSend
  <2>1. sending'.part = 1 /\ sending'.phase = "call"
    BY <1>5 DEF BeginSend
  <2> QED
    BY <1>5, <2>1 DEF BeginSend, FirstKept
<1>6. CASE SendFails \/ Restart
  BY <1>6 DEF SendFails, Restart, FirstKept
<1>7. ASSUME \/ AdvanceClock \/ (\E r \in Rows : Arrive(r))
             \/ (\E s \in Sends : MatrixSend(s)) \/ HandleReaction
             \/ Poll \/ UNCHANGED vars
      PROVE  FirstKept'
  <2>1. UNCHANGED <<sending, done, db, bridged>>
    BY <1>7 DEF AdvanceClock, Arrive, MatrixSend, HandleReaction, Poll, Fetch,
                SaveCursor, HandOverFails, DropEcho, CheckRow, QueueRow, vars, loop
  <2> QED
    BY <2>1 DEF FirstKept, FirstPart
<1> QED
  BY <1>1, <1>2, <1>3, <1>4, <1>5, <1>6, <1>7, <1>8 DEF Next, PortalLoop

\* However early a poll sees the first part of a text that was sent, it is never
\* bridged back as a message.
THEOREM FirstPartsStay == Spec => []FirstPartOnce
<1>1. Init => FirstKept
  BY DEF Init, FirstKept
<1>2. FirstKept => FirstPartOnce
  BY DEF FirstKept, FirstPartOnce
<1> QED
  BY <1>1, <1>2, TypesInit, TypesStep, FirstStep, PTL DEF Spec

-----------------------------------------------------------------------------
(* Echoes.                                                                 *)

\* A part that VoIP.ms accepted is listed.
SentListed == sending.phase \in {"sent", "mark"} => date[Part] # 0

\* An entry outlives its row by a day unless the process ends before.
EchoKept ==
  restarts = 0 =>
    \A r \in marked :
      /\ date[r] # 0
      /\ \/ echo[r] # 0 /\ date[r] <= echo[r]
         \/ now - date[r] > TTL

\* The send that the loop handles has marked its parts so far, those done have
\* marked all they have to.
PartsSent == {j \in 1 .. Len(PartsOf[sending.send]) :
             j < sending.part \/ sending.phase = "store"}
SentMarked ==
  sending # NoSend =>
    /\ sending.phase = "store" => LastPart
    /\ \A j \in PartsSent : (j > 1 \/ sending.send \in Reactions)
                         => PartsOf[sending.send][j] \in marked
DoneMarked == \A s \in done : LaterRows(s) \subseteq marked

EchoInv == SentListed /\ EchoKept /\ SentMarked /\ DoneMarked

\* VoIP.ms lists what it accepts before its answer can come.
LEMMA SentListedStep == Types /\ SentListed /\ [Next]_vars => SentListed'
<1> SUFFICES ASSUME Types, SentListed, [Next]_vars PROVE SentListed'
  OBVIOUS
<1> USE DEF Types
<1>0. \A r \in Rows : date[r] # 0 => date'[r] # 0
  BY Keeps
<1>1. CASE SendSMS
  <2>1. sending # NoSend /\ Part \in Rows
    BY <1>1, PartIsOwn DEF SendSMS, NoSend
  <2>2. sending'.send = sending.send /\ sending'.part = sending.part
    BY <1>1, <2>1 DEF SendSMS, Sending
  <2>3. date'[Part] # 0
    BY <1>1, <2>1 DEF SendSMS, Clock
  <2> QED
    BY <2>2, <2>3 DEF SentListed, Part
<1>2. CASE Answered \/ MarkSentEcho
  <2>1. sending # NoSend /\ sending.phase \in {"sent", "mark"} /\ date' = date
    BY <1>2 DEF Answered, MarkSentEcho, NoSend, api
  <2>2. sending'.phase \in {"call", "store", "mark"}
    BY <1>2, <2>1 DEF Answered, MarkSentEcho, PartDone, Sending
  <2>3. sending'.phase = "mark" => sending' = [sending EXCEPT !.phase = "mark"]
    BY <1>2, <2>1 DEF Answered, MarkSentEcho, PartDone, Sending
  <2>4. sending'.phase = "mark" =>
          sending'.send = sending.send /\ sending'.part = sending.part
    BY <2>1, <2>3 DEF Sending
  <2> QED
    BY <2>1, <2>2, <2>4 DEF SentListed, Part
<1>3. CASE BeginSend \/ SendFails \/ StoreRow \/ StoreReaction \/ Restart
  BY <1>3 DEF BeginSend, SendFails, StoreRow, StoreReaction, Sent, Restart, NoSend,
              SentListed
<1>4. ASSUME \/ AdvanceClock \/ (\E r \in Rows : Arrive(r))
             \/ (\E s \in Sends : MatrixSend(s)) \/ HandleRow \/ HandleReaction
             \/ Poll \/ UNCHANGED vars
      PROVE  SentListed'
  <2>1. sending' = sending
    BY <1>4 DEF AdvanceClock, Arrive, MatrixSend, HandleRow, HandleReaction, Poll, Fetch,
                SaveCursor, HandOverFails, DropEcho, CheckRow, QueueRow, vars, loop
  <2>2. CASE sending.phase \in {"sent", "mark"}
    <3>1. Part \in Rows /\ Part' = Part
      BY <2>1, <2>2, PartIsOwn DEF NoSend, Part
    <3> QED
      BY <1>0, <2>1, <3>1 DEF SentListed
  <2> QED
    BY <2>1, <2>2 DEF SentListed
<1> QED
  BY <1>1, <1>2, <1>3, <1>4 DEF Next, PortalLoop

\* Marking prunes what is older than the 24 hours, and nothing else loses an
\* entry but a restart.
LEMMA EchoKeptStep ==
  Types /\ SentListed /\ EchoKept /\ [Next]_vars => EchoKept'
<1> SUFFICES ASSUME Types, SentListed, EchoKept, [Next]_vars, restarts' = 0,
                    NEW r \in marked'
             PROVE  /\ date'[r] # 0
                    /\ \/ echo'[r] # 0 /\ date'[r] <= echo'[r]
                       \/ now' - date'[r] > TTL
  BY DEF EchoKept
<1> USE DEF Types
<1>0. /\ \A x \in Rows : date[x] # 0 => date'[x] = date[x]
      /\ date \in [Rows -> Nat] /\ echo \in [Rows -> Nat] /\ marked \subseteq Rows
      /\ now \in Nat \ {0} /\ \A x \in Rows : date[x] <= now
      /\ TTL \in Nat
  BY Keeps, TimeAssumption DEF Clock, Sweep
<1>1. CASE MarkSentEcho
  <2>1. Part \in Rows /\ date[Part] # 0
    BY <1>1, PartIsOwn DEF MarkSentEcho, NoSend, SentListed
  <2>2. /\ marked' = marked \cup {Part} /\ now' = now /\ date' = date /\ restarts' = restarts
        /\ echo' = [Pruned EXCEPT ![Part] = now]
    BY <1>1 DEF MarkSentEcho, api
  <2>3. CASE r = Part
    BY <1>0, <2>1, <2>2, <2>3 DEF Pruned
  <2>4. CASE r # Part
    <3>1. r \in marked /\ r \in Rows
          /\ echo'[r] = IF now - echo[r] > TTL THEN 0 ELSE echo[r]
      BY <1>0, <2>2, <2>4 DEF Pruned
    <3>2. /\ date[r] # 0
          /\ \/ echo[r] # 0 /\ date[r] <= echo[r]
             \/ now - date[r] > TTL
      BY <2>2, <3>1 DEF EchoKept
    <3>3. echo[r] \in Nat /\ date[r] \in Nat
      BY <1>0, <3>1
    <3> QED
      BY <1>0, <2>2, <3>1, <3>2, <3>3
  <2> QED
    BY <2>3, <2>4
<1>2. CASE Restart
  BY <1>2 DEF Restart, Sweep
<1>3. ASSUME \/ AdvanceClock \/ (\E x \in Rows : Arrive(x))
             \/ (\E s \in Sends : MatrixSend(s)) \/ BeginSend \/ SendSMS
             \/ Answered \/ SendFails \/ StoreRow \/ StoreReaction \/ HandleRow \/ HandleReaction
             \/ Poll \/ UNCHANGED vars
      PROVE  /\ date'[r] # 0
             /\ \/ echo'[r] # 0 /\ date'[r] <= echo'[r]
                \/ now' - date'[r] > TTL
  <2>1. UNCHANGED <<echo, marked, restarts>> /\ now' \in {now, now + 1}
    BY <1>3 DEF AdvanceClock, Arrive, MatrixSend, BeginSend, SendSMS, Answered, SendFails,
                StoreRow, StoreReaction, HandleRow, HandleReaction, Poll, Fetch, SaveCursor, HandOverFails,
                DropEcho, CheckRow, QueueRow, vars, api, past
  <2>2. /\ date[r] # 0
        /\ \/ echo[r] # 0 /\ date[r] <= echo[r]
           \/ now - date[r] > TTL
    BY <2>1 DEF EchoKept
  <2>3. r \in Rows /\ echo[r] \in Nat /\ date[r] \in Nat /\ date'[r] \in Nat
    BY <1>0, <2>1, ClockStep DEF Clock
  <2> QED
    BY <1>0, <2>1, <2>2, <2>3
<1> QED
  BY <1>1, <1>2, <1>3 DEF Next, PortalLoop

\* The parts behind the one the loop handles.
LEMMA SentMarkedStep == Types /\ SentMarked /\ [Next]_vars => SentMarked'
<1> SUFFICES ASSUME Types, SentMarked, [Next]_vars PROVE SentMarked'
  OBVIOUS
<1> USE DEF Types
<1> DEFINE parts == PartsOf[sending.send]
           Marks(j) == j > 1 \/ sending.send \in Reactions
<1>1. ASSUME Answered \/ MarkSentEcho PROVE SentMarked'
  <2>1. sending # NoSend /\ sending.phase \in {"sent", "mark"}
    BY <1>1 DEF Answered, MarkSentEcho, NoSend
  <2>2. sending.part \in 1 .. Len(parts) /\ Len(parts) \in Nat
    BY <2>1, PartIsOwn DEF Sending
  <2>3. marked \subseteq marked'
    BY <1>1 DEF Answered, MarkSentEcho, past
  <2>4. CASE sending' = [sending EXCEPT !.phase = "mark"]
    <3>1. /\ sending'.send = sending.send /\ sending'.part = sending.part
          /\ sending'.phase = "mark"
      BY <2>1, <2>4 DEF Sending
    <3> QED
      BY <2>1, <2>3, <3>1 DEF SentMarked, PartsSent
  <2>5. CASE PartDone /\ (NeedsMark => Part \in marked')
    <3>1. /\ sending'.send = sending.send
          /\ sending'.phase = IF LastPart THEN "store" ELSE "call"
          /\ sending'.part = IF LastPart THEN sending.part ELSE sending.part + 1
      BY <2>1, <2>5 DEF PartDone, Sending
    <3>2. Marks(sending.part) => parts[sending.part] \in marked'
      BY <2>5 DEF NeedsMark, Part
    <3>3. ASSUME NEW j \in 1 .. Len(parts), j < sending.part, Marks(j)
          PROVE  parts[j] \in marked'
      BY <2>1, <2>3, <3>3 DEF SentMarked, PartsSent
    <3>4. \A j \in PartsSent' : j \in 1 .. Len(parts) /\ (j < sending.part \/ j = sending.part)
      BY <2>2, <3>1 DEF PartsSent, LastPart
    <3>5. sending'.phase = "store" => LastPart'
      BY <3>1 DEF LastPart
    <3> QED
      BY <3>1, <3>2, <3>3, <3>4, <3>5 DEF SentMarked
  <2> QED
    BY <1>1, <2>4, <2>5 DEF Answered, MarkSentEcho
<1>2. CASE SendSMS
  <2>1. sending # NoSend /\ sending.phase = "call"
    BY <1>2 DEF SendSMS, NoSend
  <2>2. /\ sending'.send = sending.send /\ sending'.part = sending.part
        /\ sending'.phase = "sent" /\ marked' = marked
    BY <1>2, <2>1 DEF SendSMS, Sending, past
  <2> QED
    BY <2>1, <2>2 DEF SentMarked, PartsSent
<1>3. CASE BeginSend
  <2>1. sending'.part = 1 /\ sending'.phase = "call"
    BY <1>3 DEF BeginSend
  <2> QED
    BY <2>1 DEF SentMarked, PartsSent
<1>4. CASE SendFails \/ StoreRow \/ StoreReaction \/ Restart
  BY <1>4 DEF SendFails, StoreRow, StoreReaction, Sent, Restart, SentMarked
<1>5. ASSUME \/ AdvanceClock \/ (\E r \in Rows : Arrive(r))
             \/ (\E s \in Sends : MatrixSend(s)) \/ HandleRow \/ HandleReaction
             \/ Poll \/ UNCHANGED vars
      PROVE  SentMarked'
  <2>1. UNCHANGED <<sending, marked>>
    BY <1>5 DEF AdvanceClock, Arrive, MatrixSend, HandleRow, HandleReaction, Poll, Fetch,
                SaveCursor, HandOverFails, DropEcho, CheckRow, QueueRow, vars, loop, past
  <2> QED
    BY <2>1 DEF SentMarked, PartsSent, LastPart
<1> QED
  BY <1>1, <1>2, <1>3, <1>4, <1>5 DEF Next, PortalLoop

\* A send returns when all its parts are behind.
LEMMA DoneMarkedStep ==
  Types /\ SentMarked /\ DoneMarked /\ [Next]_vars => DoneMarked'
<1> SUFFICES ASSUME Types, SentMarked, DoneMarked, [Next]_vars PROVE DoneMarked'
  OBVIOUS
<1>1. CASE StoreRow \/ StoreReaction
  <2>1. sending # NoSend /\ sending.phase = "store"
        /\ done' = done \cup {sending.send} /\ marked' = marked
    BY <1>1 DEF StoreRow, StoreReaction, Sent, NoSend
  <2>2. LaterRows(sending.send) \subseteq marked
    BY <2>1 DEF SentMarked, PartsSent, LaterRows
  <2> QED
    BY <2>1, <2>2 DEF DoneMarked
<1>2. ASSUME ~StoreRow, ~StoreReaction PROVE done' = done /\ marked \subseteq marked'
  BY <1>2 DEF Next, PortalLoop, Poll, AdvanceClock, Arrive, MatrixSend, BeginSend, SendSMS,
              Answered, SendFails, MarkSentEcho, HandleRow, HandleReaction, Fetch,
              SaveCursor, HandOverFails, DropEcho, CheckRow, QueueRow, Restart, vars, past
<1> QED
  BY <1>1, <1>2 DEF DoneMarked

LEMMA EchoInvHolds == Spec => [](Types /\ EchoInv)
<1>1. Init => EchoInv
  BY DEF Init, EchoInv, SentListed, EchoKept, SentMarked, DoneMarked, NoSend
<1>2. Types /\ EchoInv /\ [Next]_vars => EchoInv'
  BY SentListedStep, EchoKeptStep, SentMarkedStep, DoneMarkedStep DEF EchoInv
<1> QED
  BY <1>1, <1>2, TypesInit, TypesStep, PTL DEF Spec

\* An echo that was marked is dropped at the check, in every interleaving of
\* sends, polls and clock: a row of a send passes it only before it is marked,
\* after a restart, or more than 24 hours after VoIP.ms listed it.
THEOREM MarkedEchoesDropped == Spec => EchoesDropped
<1>1. ASSUME Types, EchoInv, [Next]_vars,
             NEW r \in marked \cup UNION {LaterRows(s) : s \in done}, PassesCheck(r)
      PROVE  restarts > 0 \/ now - date[r] > TTL
  <2>1. r \in marked /\ r \in Rows
    BY <1>1 DEF EchoInv, DoneMarked, Types, Sweep
  <2>2. PICK x \in Rows : CheckRow(x)
    <3>1. ASSUME ~(\E x \in Rows : CheckRow(x)) PROVE found' = NoEvent
      BY <1>1, <3>1
         DEF PassesCheck, Next, PortalLoop, Poll, AdvanceClock, Arrive, MatrixSend,
             BeginSend, SendSMS, Answered, SendFails, MarkSentEcho, StoreRow,
             StoreReaction, HandleRow, HandleReaction, Fetch, SaveCursor, HandOverFails,
             DropEcho, QueueRow, Restart, vars, poll
    <3> QED
      BY <1>1, <3>1 DEF PassesCheck
  <2>3. x = r /\ echo[r] = 0
    <3>1. found'.what = x
      BY <1>1, <2>2, RowEvents DEF CheckRow, Types, Room
    <3> QED
      BY <1>1, <2>2, <3>1 DEF PassesCheck, CheckRow, IsSentEcho
  <2>4. restarts # 0 => restarts > 0
    BY <1>1 DEF Types, Sweep
  <2> QED
    BY <1>1, <2>1, <2>3, <2>4 DEF EchoInv, EchoKept
<1>2. Types /\ EchoInv /\ [Next]_vars =>
        \A r \in marked \cup UNION {LaterRows(s) : s \in done} :
          PassesCheck(r) => restarts > 0 \/ now - date[r] > TTL
  BY <1>1
<1> QED
  BY <1>2, EchoInvHolds, PTL DEF Spec, EchoesDropped

-----------------------------------------------------------------------------
(* Inbox.                                                                  *)

\* What Inbox sees.
Listed  == {r \in Others : date[r] # 0}
Coming  == Waiting \cap Others
Shown   == InRoom \cap Others
LeftOut == missed \cap Others
Settled == {r \in Others : date[r] # 0 /\ Passed(r)}
Dropped == lost \cap Others

LEMMA InboxView ==
  /\ Promise!Init <=> /\ Listed = {} /\ Coming = {} /\ Shown = {} /\ LeftOut = {}
                     /\ Settled = {} /\ Dropped = {}
  /\ UNCHANGED <<Listed, Coming, Shown, LeftOut, Settled, Dropped>>
       <=> UNCHANGED Promise!inbox
  /\ \A r \in Others :
       /\ Listed' = Listed \cup {r} /\ UNCHANGED <<Coming, Shown, LeftOut, Settled, Dropped>>
            => Promise!List(r)
       /\ r \in Listed \ Settled /\ Coming' = Coming \cup {r}
            /\ UNCHANGED <<Listed, Shown, LeftOut, Settled, Dropped>> => Promise!Accept(r)
       /\ r \in Coming /\ Shown' = Shown \cup {r} /\ Coming' \in {Coming, Coming \ {r}}
            /\ UNCHANGED <<Listed, LeftOut, Settled, Dropped>> => Promise!Show(r)
  /\ LeftOut \subseteq LeftOut' /\ LeftOut' \subseteq Listed
       /\ UNCHANGED <<Listed, Coming, Shown, Settled, Dropped>> => Promise!Miss
  /\ Settled \subseteq Settled' /\ Settled' \subseteq Listed
       /\ Settled' \ Settled \subseteq Shown \cup Coming \cup LeftOut
       /\ UNCHANGED <<Listed, Coming, Shown, LeftOut, Dropped>> => Promise!Settle
  /\ Dropped' = Dropped \cup (Coming \cap Settled) /\ Coming' = {}
       /\ UNCHANGED <<Listed, Shown, LeftOut, Settled>> => Promise!Restart
BY Zenon DEF Listed, Coming, Shown, LeftOut, Settled, Dropped, Promise!Init,
   Promise!inbox, Promise!List, Promise!Accept, Promise!Show, Promise!Miss,
   Promise!Settle, Promise!Restart

\* Inbox keeps what no step lists, leaves out, passes or loses.
LEMMA SameView ==
  ASSUME UNCHANGED <<date, cursor, lost>>
  PROVE  /\ UNCHANGED <<Listed, Settled, Dropped>>
         /\ missed' = missed => UNCHANGED LeftOut
BY DEF Listed, LeftOut, Settled, Dropped, Passed

LEMMA ArriveLists ==
  ASSUME Types, NEW r \in Rows, Arrive(r)
  PROVE  r \in Others /\ Promise!List(r)
<1>1. /\ date' = [date EXCEPT ![r] = now] /\ UNCHANGED <<now, cursor, missed, lost>>
      /\ date[r] = 0 /\ r \in Others /\ date \in [Rows -> Nat] /\ now \in Nat \ {0}
      /\ cursor \in Nat /\ cursor <= now
  BY DEF Arrive, poll, past, Others, Types, Clock
<1>2. UNCHANGED <<Coming, Shown, LeftOut, Dropped>>
  BY <1>1, Untouched DEF Coming, Shown, LeftOut, Dropped
<1>3. ~Passed(r)'
  <2>1. cursor - Lookback \in Int /\ cursor - Lookback <= now /\ date'[r] = now
        /\ cursor' = cursor /\ now \in Int
    BY <1>1, TimeAssumption
  <2>2. /\ Day(cursor - Lookback) \in Int /\ Day(now) \in Int
        /\ Day(cursor - Lookback) <= Day(now)
    BY <2>1, DayMonotone
  <2> QED
    BY <2>1, <2>2 DEF Passed
<1>4. \A x \in Rows \ {r} : date'[x] = date[x] /\ (Passed(x)' <=> Passed(x))
  BY <1>1 DEF Passed
<1>5. Listed' = Listed \cup {r} /\ Settled' = Settled
  BY <1>1, <1>3, <1>4 DEF Listed, Settled, Others
<1> QED
  BY <1>1, <1>2, <1>5, InboxView

LEMMA SendListsNothing ==
  ASSUME Types, SendSMS
  PROVE  UNCHANGED Promise!inbox
<1>1. Part \in OwnRows /\ date' = [date EXCEPT ![Part] = now] /\ UNCHANGED <<cursor, missed, lost>>
  BY PartIsOwn DEF SendSMS, NoSend, Types, poll, past
<1>2. \A x \in Others : date'[x] = date[x]
  BY <1>1 DEF Others, Types, Clock
<1>3. UNCHANGED <<Listed, Settled>>
  BY <1>1, <1>2 DEF Listed, Settled, Passed
<1>4. UNCHANGED <<Coming, Shown, LeftOut, Dropped>>
  BY <1>1, Untouched DEF Coming, Shown, LeftOut, Dropped
<1> QED
  BY <1>3, <1>4, InboxView

LEMMA QueueAccepts ==
  ASSUME Types, [Next]_vars, NEW r \in Rows, QueueRow(r)
  PROVE  UNCHANGED Promise!inbox \/ (r \in Others /\ Promise!Accept(r))
<1>1. UNCHANGED <<date, cursor, missed, lost, db, applied>> /\ date[r] # 0 /\ ~Passed(r)
  BY QueuedIsNext DEF QueueRow, Types, Sweep, api, past, room
<1>2. Waiting' = Waiting \cup {r}
  BY QueuedRow
<1>3. UNCHANGED <<Listed, LeftOut, Settled, Dropped, Shown>>
  BY <1>1, SameView DEF Shown, InRoom
<1>4. CASE r \in Others
  <2>1. r \in Listed \ Settled
    BY <1>1, <1>4 DEF Listed, Settled
  <2>2. Coming' = Coming \cup {r}
    BY <1>2, <1>4 DEF Coming
  <2> QED
    BY <1>3, <1>4, <2>1, <2>2, InboxView
<1>5. CASE r \notin Others
  <2>1. Coming' = Coming
    BY <1>2, <1>5 DEF Coming
  <2>2. UNCHANGED Promise!inbox
    BY <1>3, <2>1, InboxView
  <2> QED
    BY <2>2
<1> QED
  BY <1>4, <1>5

LEMMA HandleShows ==
  ASSUME Types, [Next]_vars, HandleRow \/ HandleReaction
  PROVE  UNCHANGED Promise!inbox \/ (\E r \in Others : Promise!Show(r))
<1> DEFINE r == Head(queue).what
<1>1. UNCHANGED <<date, cursor, missed, lost>>
  BY DEF HandleRow, HandleReaction, api, poll, past
<1>2. UNCHANGED <<Listed, LeftOut, Settled, Dropped>>
  BY <1>1, SameView
<1>3. /\ r \in Waiting /\ Waiting' \subseteq Waiting /\ Waiting \subseteq Waiting' \cup {r}
      /\ InRoom' = InRoom \cup {r}
  BY HandledRow
<1> HIDE DEF r
<1>4. CASE r \in Others
  <2>1. r \in Coming /\ Shown' = Shown \cup {r}
    BY <1>3, <1>4 DEF Coming, Shown
  <2>2. Coming' = Coming \/ Coming' = Coming \ {r}
    BY <1>3, <1>4 DEF Coming
  <2> QED
    BY <1>2, <1>4, <2>1, <2>2, InboxView
<1>5. CASE r \notin Others
  <2>1. UNCHANGED <<Coming, Shown>>
    BY <1>3, <1>5 DEF Coming, Shown
  <2> QED
    BY <1>2, <2>1, InboxView
<1> QED
  BY <1>4, <1>5

\* Moving the cursor settles what is held or was too old: a row that it passes is
\* of an earlier day than the newest one the sweep handled.
LEMMA SaveSettles ==
  ASSUME SweepInv, SaveCursor
  PROVE  Promise!Settle
<1>1. /\ cursor' = newest /\ UNCHANGED <<date, missed, lost>> /\ polling /\ Clock /\ Sweep
      /\ cursor <= newest
  BY DEF SaveCursor, SweepInv, Types, Sweep, api, past
<1>2. UNCHANGED <<Coming, Shown, LeftOut, Dropped, Listed>>
  BY <1>1, Untouched DEF Coming, Shown, LeftOut, Dropped, Listed
<1>3. Settled' \subseteq Listed
  BY <1>1 DEF Settled, Listed
<1>4. ASSUME NEW r \in Settled PROVE r \in Settled'
  <2>1. r \in Others /\ r \in Rows /\ date[r] # 0 /\ Passed(r)
    BY DEF Settled, Others
  <2>2. cursor # 0 /\ newest # 0 /\ Day(date[r]) < Day(cursor - Lookback)
    BY <1>1, <2>1 DEF Passed, Clock
  <2>3. /\ Day(cursor - Lookback) \in Int /\ Day(newest - Lookback) \in Int
        /\ Day(cursor - Lookback) <= Day(newest - Lookback)
    <3>1. /\ cursor - Lookback \in Int /\ newest - Lookback \in Int
          /\ cursor - Lookback <= newest - Lookback
      BY <1>1, TimeAssumption DEF Clock
    <3> QED
      BY <3>1, DayMonotone
  <2>4. Day(date[r]) \in Int
    BY <1>1, <2>1, DayMonotone DEF Clock
  <2>5. Day(date[r]) < Day(newest - Lookback)
    BY <2>2, <2>3, <2>4
  <2> QED
    BY <1>1, <2>1, <2>2, <2>5 DEF Settled, Passed
<1>5. ASSUME NEW r \in Settled' \ Settled PROVE r \in Shown \cup Coming \cup LeftOut
  <2>1. r \in Others /\ r \in Rows /\ date[r] # 0 /\ ~Passed(r) /\ Passed(r)'
    BY <1>1 DEF Settled, Others
  <2>2. newest # cursor
    BY <1>1, <2>1 DEF Passed
  <2>3. date[r] < newest
    <3>1. Day(date[r]) < Day(newest - Lookback)
      BY <1>1, <2>1 DEF Passed
    <3>2. newest - Lookback \in Int /\ date[r] \in Int
      BY <1>1, <2>1, TimeAssumption DEF Clock
    <3>3. newest - Lookback > date[r]
      <4>1. ASSUME newest - Lookback <= date[r] PROVE FALSE
        BY <3>1, <3>2, <4>1, DayMonotone
      <4> QED
        BY <3>2, <4>1
    <3> QED
      BY <1>1, <3>2, <3>3, TimeAssumption DEF Clock
  <2> QED
    BY <2>1, <2>2, <2>3, PassedIsHeld DEF Shown, Coming, LeftOut
<1> QED
  BY <1>2, <1>3, <1>4, <1>5, InboxView

LEMMA RestartDrops ==
  ASSUME Types, Restart
  PROVE  Promise!Restart
<1>1. /\ UNCHANGED <<date, cursor, missed, db, applied>> /\ queue' = <<>>
      /\ lost' = lost \cup {r \in Waiting : Passed(r)}
  BY DEF Restart, api, room
<1>2. UNCHANGED <<Listed, LeftOut, Settled, Shown>>
  BY <1>1 DEF Listed, LeftOut, Settled, Shown, InRoom, Passed
<1>3. Waiting' = {}
  BY <1>1 DEF Waiting, ToSet
<1>4. {r \in Waiting : Passed(r)} \cap Others = Coming \cap Settled
  BY WaitingListed DEF Types, Coming, Settled
<1>5. Dropped' = Dropped \cup (Coming \cap Settled) /\ Coming' = {}
  BY <1>1, <1>3, <1>4 DEF Dropped, Coming
<1> QED
  BY <1>2, <1>5, InboxView

\* A sweep leaves out what is too old.
LEMMA FetchMisses ==
  ASSUME Types, Fetch
  PROVE  Promise!Miss
<1>1. /\ UNCHANGED <<date, cursor, lost>>
      /\ missed \subseteq missed' /\ missed' \subseteq {r \in Rows : date[r] # 0}
  BY DEF Fetch, Types, Sweep, api, past
<1>2. UNCHANGED <<Coming, Shown>>
  BY Untouched DEF Coming, Shown
<1>3. LeftOut \subseteq LeftOut' /\ LeftOut' \subseteq Listed
  BY <1>1 DEF LeftOut, Listed
<1> QED
  BY <1>1, <1>2, <1>3, SameView, InboxView

LEMMA StepKeeps ==
  SweepInv /\ [Next]_vars => [Promise!Next]_(Promise!inbox)
<1> SUFFICES ASSUME SweepInv, [Next]_vars PROVE [Promise!Next]_(Promise!inbox)
  OBVIOUS
<1> USE DEF SweepInv
<1>1. ASSUME NEW r \in Rows, Arrive(r) PROVE [Promise!Next]_(Promise!inbox)
  BY <1>1, ArriveLists DEF Promise!Next
<1>2. CASE SendSMS
  BY <1>2, SendListsNothing
<1>3. ASSUME NEW r \in Rows, QueueRow(r) PROVE [Promise!Next]_(Promise!inbox)
  BY <1>3, QueueAccepts DEF Promise!Next
<1>4. CASE HandleRow \/ HandleReaction
  BY <1>4, HandleShows DEF Promise!Next
<1>5. CASE SaveCursor
  BY <1>5, SaveSettles DEF Promise!Next
<1>6. CASE Restart
  BY <1>6, RestartDrops DEF Promise!Next
<1>7. CASE (\E s \in Sends : MatrixSend(s)) \/ BeginSend
  <2>1. UNCHANGED <<date, cursor, missed, lost, db, applied>>
    BY <1>7 DEF MatrixSend, BeginSend, api, poll, past, room
  <2>2. UNCHANGED <<Listed, LeftOut, Settled, Dropped, Shown>>
    BY <2>1, SameView DEF Shown, InRoom
  <2>3. Coming' = Coming
    BY <1>7, SendIsNoRow DEF Coming
  <2> QED
    BY <2>2, <2>3, InboxView
<1>8. CASE StoreRow \/ StoreReaction
  <2>1. UNCHANGED <<date, cursor, missed, lost>>
    BY <1>8 DEF StoreRow, StoreReaction, api, poll
  <2>2. UNCHANGED <<Coming, Shown>>
    BY <1>8, StoredIsOwn DEF Coming, Shown, Others
  <2> QED
    BY <2>1, <2>2, SameView, InboxView
<1>9. ASSUME \/ AdvanceClock \/ (\E r \in Rows : DropEcho(r) \/ CheckRow(r))
             \/ Answered \/ SendFails \/ MarkSentEcho
             \/ HandOverFails \/ UNCHANGED vars
      PROVE  [Promise!Next]_(Promise!inbox)
  <2>1. UNCHANGED <<date, cursor, missed, lost>>
    BY <1>9 DEF AdvanceClock, DropEcho, CheckRow, Answered, SendFails, MarkSentEcho,
                HandOverFails, vars, api, poll, past
  <2>2. UNCHANGED <<Coming, Shown>>
    BY <1>9, Untouched DEF Coming, Shown
  <2> QED
    BY <2>1, <2>2, SameView, InboxView
<1>10. CASE Fetch
  BY <1>10, FetchMisses DEF Promise!Next
<1> QED
  BY <1>1, <1>2, <1>3, <1>4, <1>5, <1>6, <1>7, <1>8, <1>9, <1>10
     DEF Next, PortalLoop, Poll

\* Polls, overlaps, failed hand-overs and restarts keep Inbox's promise, whatever
\* arrives and whenever the process ends: the bridge implements the abstract
\* specification.
THEOREM KeepsThePromise == Spec => KeepsInbox
<1>1. Init => Promise!Init
  <2> SUFFICES ASSUME Init PROVE Promise!Init
    OBVIOUS
  <2>1. Listed = {} /\ LeftOut = {} /\ Settled = {}
    BY DEF Init, Listed, LeftOut, Settled, Others
  <2>2. Coming = {} /\ Shown = {} /\ Dropped = {}
    BY DEF Init, Coming, Shown, Dropped, Waiting, InRoom, ToSet
  <2> QED
    BY <2>1, <2>2, InboxView
<1> QED
  BY <1>1, StepKeeps, SweepInvHolds, PTL DEF Spec, KeepsInbox, Promise!Spec

\* So a message of somebody else that the cursor has passed is in the room, on its
\* way there, was too old for a query, or was on its way when the process ended.
THEOREM NothingSilentlySkipped == Spec => []Promise!SettledIsHeld
<1>1. Promise!Init => Promise!SettledIsHeld
  BY Zenon DEF Promise!Init, Promise!SettledIsHeld
<1>2. Promise!SettledIsHeld /\ [Promise!Next]_(Promise!inbox) => Promise!SettledIsHeld'
  <2> SUFFICES ASSUME Promise!SettledIsHeld, [Promise!Next]_(Promise!inbox)
               PROVE  Promise!SettledIsHeld'
    OBVIOUS
  <2> QED
    BY DEF Promise!SettledIsHeld, Promise!Next, Promise!inbox, Promise!List,
       Promise!Accept, Promise!Show, Promise!Miss, Promise!Settle, Promise!Restart
<1> QED
  BY <1>1, <1>2, KeepsThePromise, PTL DEF KeepsInbox, Promise!Spec
=============================================================================
