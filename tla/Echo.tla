-------------------------------- MODULE Echo --------------------------------
(***************************************************************************)
(* Messages sent from Matrix and their echoes: everything sent through     *)
(* VoIP.ms comes back in the poll, and must not be bridged a second time.  *)
(* pkg/connector/client_send.go sends, client.go remembers the echoes that *)
(* have no database row, remote_event.go drops them.                       *)
(*                                                                         *)
(* Three actors: the portal's event loop of bridgev2 (external), which     *)
(* handles the Matrix and the remote events of one room one at a time; the *)
(* poll goroutine; and VoIP.ms, which lists a row as soon as it accepts    *)
(* it.  The poll is the one of module Poller, where handing a row over may *)
(* fail at any time and the other failures are left out.                   *)
(***************************************************************************)
EXTENDS Integers, Sequences, FiniteSets, SequencesExt

CONSTANTS
  Rows,       \* the rows VoIP.ms may list for the room
  Sends,      \* what the Matrix user sends
  PartsOf,    \* the rows of each: the parts SplitSMS makes, or one MMS
  Reactions,  \* the sends that are reactions or their removals
  Outgoing,   \* the rows sent from the account, by the bridge or by another client
  Fallbacks,  \* the rows whose text is a reaction fallback
  Quotes,     \* of each, the rows it may quote: MatchesTarget
  Removes,    \* those that take a reaction back
  Recent,     \* the 50 messages findReactionTarget looks at
  DayLen, Lookback, Backfill, MaxRange, \* as in Poller, Backfill is its BackfillSpan
  TTL,        \* the 24 hours markSentEcho keeps an entry
  QueueCap,   \* bound: the portal's event buffer
  MaxSends,   \* bound: sends the user makes
  MaxRows,    \* bound: rows that arrive or that sends ask for
  MaxNow,     \* bound: the clock stops here
  MaxRestarts \* bound: restarts of the bridge

ASSUME PartsAssumption ==
  /\ Reactions \subseteq Sends /\ Outgoing \subseteq Rows
  /\ PartsOf \in [Sends -> Seq(Rows)]
  /\ \A s \in Sends : Len(PartsOf[s]) >= 1 /\ ToSet(PartsOf[s]) \subseteq Outgoing
  /\ \A s \in Reactions : Len(PartsOf[s]) = 1
ASSUME FallbackAssumption ==
  /\ Fallbacks \subseteq Rows /\ Removes \subseteq Fallbacks
  /\ Quotes \in [Fallbacks -> SUBSET Rows]
  /\ \A s \in Reactions : ToSet(PartsOf[s]) \subseteq Fallbacks
  /\ Recent \in Nat
ASSUME TimeAssumption ==
  /\ DayLen \in Nat /\ DayLen > 0 /\ Lookback \in Nat /\ TTL \in Nat
  /\ Backfill \in Nat /\ MaxRange \in Nat /\ QueueCap \in Nat

VARIABLES
  now,        \* the clock
  date,       \* API: when each row was accepted, 0 while it was not
  db,         \* bridgev2's message rows
  shown,      \* the reactions in the room: <<message, fallback>>
  queue,      \* the portal's event buffer
  sending,    \* the send the portal loop handles, and its next part
  echo,       \* sentEchoIDs: insert time of each entry, 0 for none
  cursor,     \* the poll cursor
  polling,    \* a sweep is under way
  batch,      \* the rows of the sweep still to be handled
  found,      \* the event of its next row, past the echo check, until it is queued
  newest,     \* the newest row handled by it
  whole,      \* history: the last sweep handled all its rows
  missed,     \* history: rows that were too old when a sweep asked
  applied,    \* history: every <<message, fallback>> that was shown or removed
  lost,       \* history: rows that were waiting at a restart and were not asked for again
  bridged,    \* history: rows bridged into the room as remote messages
  asked,      \* history: sends the user made
  done,       \* history: sends that returned a row or a reaction
  marked,     \* history: rows ever given to markSentEcho
  restarts    \* restarts so far

api    == <<now, date>>
loop   == <<queue, sending>>
poll   == <<cursor, polling, batch, found, newest, whole, missed>>
room   == <<db, shown, applied>>
past   == <<bridged, asked, done, marked, lost>>
vars == <<api, room, loop, echo, poll, past, restarts>>

NoSend == [send |-> "none", part |-> 0, phase |-> "idle"]
NoEvent == [type |-> "none", what |-> "none"]

Init ==
  /\ now = 1
  /\ date = [r \in Rows |-> 0]
  /\ db = {} /\ shown = {} /\ applied = {}
  /\ queue = <<>> /\ sending = NoSend
  /\ echo = [r \in Rows |-> 0]
  /\ cursor = 0 /\ polling = FALSE /\ batch = {} /\ newest = 0
  /\ found = NoEvent /\ whole = FALSE /\ missed = {}
  /\ bridged = {} /\ asked = {} /\ done = {} /\ marked = {}
  /\ lost = {}
  /\ restarts = 0

Day(t) == t \div DayLen

OwnRows == UNION {ToSet(PartsOf[s]) : s \in Sends}

AdvanceClock ==
  /\ now < MaxNow
  /\ now' = now + 1
  /\ UNCHANGED <<date, room, loop, echo, poll, past, restarts>>

\* Bound: the rows there are and may be.
RoomFor(rows, sends) ==
  Cardinality(rows \cup {r \in Rows : date[r] # 0}
                   \cup UNION {ToSet(PartsOf[s]) : s \in sends}) <= MaxRows

\* Somebody else's message: received, or sent from another client.  Who reacts
\* has the message.
Arrive(r) ==
  /\ date[r] = 0 /\ r \notin OwnRows
  /\ RoomFor({r}, asked)
  /\ r \in Fallbacks => \E quoted \in Quotes[r] : date[quoted] # 0
  /\ date' = [date EXCEPT ![r] = now]
  /\ UNCHANGED <<now, room, loop, echo, poll, past, restarts>>

-----------------------------------------------------------------------------
(* The portal's event loop.                                                *)

Enqueue(event) == Len(queue) < QueueCap /\ queue' = Append(queue, event)

\* The messages a reaction sent from the room may be about.
Reactable(s) == Quotes[PartsOf[s][1]] \cap db

\* The user sends a message or a reaction in the room.
MatrixSend(s) ==
  /\ s \notin asked /\ Cardinality(asked) < MaxSends
  /\ RoomFor({}, asked \cup {s})
  /\ s \in Reactions => Reactable(s) # {}
  /\ Enqueue([type |-> "send", what |-> s])
  /\ asked' = asked \cup {s}
  /\ UNCHANGED <<api, room, sending, echo, poll, bridged, done, marked,
                 lost, restarts>>

NextIs(type) == queue # <<>> /\ Head(queue).type = type /\ sending = NoSend

\* handleMatrixMessageOutbound or HandleMatrixReaction begins.
BeginSend ==
  /\ NextIs("send")
  /\ sending' = [send |-> Head(queue).what, part |-> 1, phase |-> "call"]
  /\ queue' = Tail(queue)
  /\ UNCHANGED <<api, room, echo, poll, past, restarts>>

Part == PartsOf[sending.send][sending.part]

\* Mutant: one part too many.
LastPartLate == sending.part > Len(PartsOf[sending.send])

LastPart == sending.part = Len(PartsOf[sending.send])

\* VoIP.ms accepts the part and lists it under a new ID; its answer is still on
\* the way.
SendSMS ==
  /\ sending.phase = "call" /\ date[Part] = 0
  /\ date' = [date EXCEPT ![Part] = now]
  /\ sending' = [sending EXCEPT !.phase = "sent"]
  /\ UNCHANGED <<now, room, queue, echo, poll, past, restarts>>

\* Mutant: only reactions are marked.
NeedsMarkReaction == sending.send \in Reactions

\* The first part of a text or an MMS gets the row, the others and reactions
\* are marked.
NeedsMark == sending.part > 1 \/ sending.send \in Reactions

\* The loop goes on to the next part, or has sent them all.
PartDone ==
  sending' = IF LastPart THEN [sending EXCEPT !.phase = "store"]
             ELSE [sending EXCEPT !.phase = "call", !.part = @ + 1]

Answered ==
  /\ sending.phase = "sent"
  /\ IF NeedsMark THEN sending' = [sending EXCEPT !.phase = "mark"] ELSE PartDone
  /\ UNCHANGED <<api, room, queue, echo, poll, past, restarts>>

\* The call fails: VoIP.ms refused the part, or its answer was lost.  The
\* whole send fails and gets no row, whatever was sent before.
SendFails ==
  /\ sending.phase \in {"call", "sent"}
  /\ sending' = NoSend
  /\ UNCHANGED <<api, room, queue, echo, poll, past, restarts>>

Pruned == [r \in Rows |-> IF now - echo[r] > TTL THEN 0 ELSE echo[r]]

MarkSentEcho ==
  /\ sending.phase = "mark"
  /\ echo' = [Pruned EXCEPT ![Part] = now]
  /\ marked' = marked \cup {Part}
  /\ PartDone
  /\ UNCHANGED <<api, room, queue, poll, bridged, asked, done, lost, restarts>>

Sent == done' = done \cup {sending.send} /\ sending' = NoSend

\* Mutant: the row is stored under the ID of the last part.
StoreLastRow ==
  /\ sending.phase = "store" /\ sending.send \notin Reactions
  /\ db' = db \cup {Part} /\ Sent
  /\ UNCHANGED <<api, shown, applied, queue, echo, poll, bridged, asked, marked,
                 lost, restarts>>

\* All parts are sent: the handler returns the first part's ID and bridgev2
\* stores it.
StoreRow ==
  /\ sending.phase = "store" /\ sending.send \notin Reactions
  /\ db' = db \cup {PartsOf[sending.send][1]} /\ Sent
  /\ UNCHANGED <<api, shown, applied, queue, echo, poll, bridged, asked, marked,
                 lost, restarts>>

\* The reactions to a message once a fallback is applied to it: everybody has
\* one reaction, whatever its emoji, and a new one replaces it.
Sender(f) == f \in Outgoing
Reacted(t, f) ==
  {x \in shown : x[1] = t => Sender(x[2]) # Sender(f)}
    \cup ({<<t, f>>} \ (Rows \X Removes))
React(t, f) ==
  /\ shown' = Reacted(t, f)
  /\ applied' = applied \cup {<<t, f>>}

\* A reaction, or its removal, gets no message row; with MaxReactions 1 it
\* replaces what its sender had, on whatever client.
StoreReaction ==
  /\ sending.phase = "store" /\ sending.send \in Reactions
  /\ \E t \in Reactable(sending.send) : React(t, PartsOf[sending.send][1])
  /\ Sent
  /\ UNCHANGED <<api, db, queue, echo, poll, bridged, asked, marked, lost, restarts>>

\* A remote message is bridged unless its ID has a row.
HandleRow ==
  /\ NextIs("row")
  /\ queue' = Tail(queue)
  /\ LET r == Head(queue).what
     IN  IF r \in db THEN UNCHANGED <<db, bridged>>
         ELSE db' = db \cup {r} /\ bridged' = bridged \cup {r}
  /\ UNCHANGED <<api, shown, applied, sending, echo, poll, asked, done, marked,
                 lost, restarts>>

HandleReaction ==
  /\ NextIs("reaction")
  /\ queue' = Tail(queue)
  /\ React(Head(queue).target, Head(queue).what)
  /\ UNCHANGED <<api, db, sending, echo, poll, past, restarts>>

-----------------------------------------------------------------------------
(* The poll.                                                               *)

\* The start of the range a sweep asks for.
QueryStart ==
  LET wanted == IF cursor = 0 THEN now - Backfill ELSE cursor - Lookback
  IN  IF now - wanted > MaxRange THEN now - MaxRange ELSE wanted

\* Mutant: it asks for what is newer than the cursor.
AskedForNewer(r) == Day(QueryStart) <= Day(date[r]) /\ cursor < date[r]

\* A sweep asks for the rows of the range's first day and of those after it.
AskedFor(r) == Day(QueryStart) <= Day(date[r])

\* The cursor and its overlap have moved on to a later day.
Passed(r) == cursor # 0 /\ Day(date[r]) < Day(cursor - Lookback)

\* A row that no cursor has passed is too old: for any query, or for the backfill
\* while there is no cursor.
TooOld(r) ==
  /\ ~Passed(r)
  /\ \/ Day(date[r]) < Day(now - MaxRange)
     \/ cursor = 0 /\ Day(date[r]) < Day(now - Backfill)

Fetch ==
  /\ ~polling
  /\ polling' = TRUE
  /\ batch' = {r \in Rows : date[r] # 0 /\ AskedFor(r)}
  /\ missed' = missed \cup {r \in Rows : date[r] # 0 /\ TooOld(r)}
  /\ newest' = cursor /\ whole' = TRUE
  /\ UNCHANGED <<api, room, loop, echo, cursor, found, past, restarts>>

\* Mutant: rows are handled in the order VoIP.ms lists them.
AnyOf(r) == r \in batch

First(r) == r \in batch /\ \A other \in batch : date[r] <= date[other]

Handled(r) ==
  /\ batch' = batch \ {r}
  /\ newest' = IF date[r] > newest THEN date[r] ELSE newest


IsSentEcho(r) == echo[r] # 0

\* The next row, not looked at yet.
Upcoming(r) == First(r) /\ found = NoEvent

\* handleRemoteMessage drops the echo of a marked row ...
DropEcho(r) ==
  /\ Upcoming(r) /\ IsSentEcho(r)
  /\ Handled(r)
  /\ UNCHANGED <<api, room, loop, echo, cursor, polling, found, whole, missed, past,
                 restarts>>

\* findReactionTarget: the newest of the room's recent messages that the
\* fallback may quote.
Newer(t) == {other \in db : date[other] > date[t]}
Targets(r) ==
  LET recent == {t \in db : Cardinality(Newer(t)) < Recent}
      quoted == IF r \in Fallbacks THEN Quotes[r] \cap recent ELSE {}
  IN  {t \in quoted : Newer(t) \cap quoted = {}}

\* ... takes a fallback that quotes a message for a reaction to it, and any other
\* row for a message of the room,
EventsFor(r) ==
  IF Targets(r) = {} THEN {[type |-> "row", what |-> r]}
  ELSE {[type |-> "reaction", what |-> r, target |-> t] : t \in Targets(r)}

CheckRow(r) ==
  /\ Upcoming(r) /\ ~IsSentEcho(r)
  /\ found' \in EventsFor(r)
  /\ UNCHANGED <<api, room, loop, echo, cursor, polling, batch, newest, whole, missed,
                 past, restarts>>

\* and queues that, once it has loaded the portal or created its room,
QueueRow(r) ==
  /\ found # NoEvent /\ found.what = r
  /\ Enqueue(found) /\ found' = NoEvent
  /\ Handled(r)
  /\ UNCHANGED <<api, room, sending, echo, cursor, polling, whole, missed, past,
                 restarts>>

\* Mutant: a full buffer loses the row.
BufferLoses ==
  /\ found # NoEvent /\ Len(queue) = QueueCap
  /\ found' = NoEvent /\ Handled(found.what)
  /\ UNCHANGED <<api, room, loop, echo, cursor, polling, whole, missed, past, restarts>>

\* or fails, because the portal cannot be loaded or its room created, or because
\* the buffer is full, and the sweep ends there.
HandOverFails ==
  /\ found # NoEvent
  /\ batch' = {} /\ found' = NoEvent /\ whole' = FALSE
  /\ UNCHANGED <<api, room, loop, echo, cursor, polling, newest, missed, past, restarts>>

SaveCursor ==
  /\ polling /\ batch = {}
  /\ polling' = FALSE
  /\ cursor' = newest /\ newest' = 0
  /\ UNCHANGED <<api, room, loop, echo, batch, found, whole, missed, past, restarts>>

\* The rows in the room's buffer.
Waiting == {r \in Rows : \E event \in ToSet(queue) :
                           event.type # "send" /\ event.what = r}

\* What the room has of VoIP.ms' rows: its messages and the fallbacks applied.
InRoom == db \cup {x[2] : x \in applied}

\* The bridge restarts: what is in memory is gone.
Restart ==
  /\ restarts < MaxRestarts
  /\ restarts' = restarts + 1
  /\ queue' = <<>> /\ sending' = NoSend
  /\ echo' = [r \in Rows |-> 0]
  /\ polling' = FALSE /\ batch' = {} /\ newest' = 0 /\ whole' = FALSE
  /\ found' = NoEvent
  /\ lost' = lost \cup {r \in Waiting : Passed(r)}
  /\ UNCHANGED <<api, room, cursor, missed, bridged, asked, done, marked>>

-----------------------------------------------------------------------------
PortalLoop == \/ BeginSend \/ SendSMS \/ Answered \/ SendFails \/ MarkSentEcho
              \/ StoreRow \/ StoreReaction \/ HandleRow \/ HandleReaction

Poll == \/ Fetch \/ SaveCursor \/ HandOverFails
        \/ \E r \in Rows : DropEcho(r) \/ CheckRow(r) \/ QueueRow(r)

Next == \/ AdvanceClock
        \/ \E r \in Rows : Arrive(r)
        \/ \E s \in Sends : MatrixSend(s)
        \/ PortalLoop \/ Poll \/ Restart

Spec == Init /\ [][Next]_vars

\* Both goroutines run, and again and again a sweep is handled to its end.  That
\* is assumed, the code does not see to it: it takes a buffer (64 events) that
\* holds what one sweep delivers of the room, or a loop that drains it in the
\* meantime.  Otherwise every sweep would fill the buffer with the rows of the
\* overlap and end before the new ones.
FairSpec == /\ Spec
            /\ WF_vars(PortalLoop) /\ WF_vars(Poll)
            /\ []<><<SaveCursor /\ whole>>_vars

-----------------------------------------------------------------------------
(* What the two directions promise together.                               *)

FromPoll == [type : {"row"}, what : Rows]
              \cup [type : {"reaction"}, what : Fallbacks, target : Rows]
Events == [type : {"send"}, what : Sends] \cup FromPoll

TypeOK ==
  /\ now \in Nat /\ date \in [Rows -> Nat]
  /\ db \subseteq Rows
  /\ applied \subseteq db \X Fallbacks /\ shown \subseteq applied
  /\ queue \in Seq(Events) /\ Len(queue) <= QueueCap
  /\ \/ sending = NoSend
     \/ /\ sending.send \in Sends
        /\ sending.part \in 1 .. Len(PartsOf[sending.send])
        /\ sending.phase \in {"call", "sent", "mark", "store"}
  /\ echo \in [Rows -> Nat]
  /\ cursor \in Nat /\ newest \in Nat
  /\ polling \in BOOLEAN /\ whole \in BOOLEAN
  /\ batch \subseteq Rows /\ missed \subseteq Rows /\ lost \subseteq Rows
  /\ found \in FromPoll \cup {NoEvent}
  /\ found # NoEvent => found.what \in batch
  /\ bridged \subseteq Rows /\ marked \subseteq Rows
  /\ asked \subseteq Sends /\ done \subseteq Sends
  /\ restarts \in Nat

\* A text that was sent has its row before any echo of its first part can be
\* handled, however early the poll saw it: the first part is never bridged
\* back.  (The loop handles one event at a time and stores before the next.)
FirstPartOnce ==
  \A s \in done \ Reactions : PartsOf[s][1] \notin bridged

\* The cursor never passes a row of somebody else that the room did not get,
\* whatever fails on its way to the buffer: the room has it or waits for it, or
\* it was too old when a sweep asked, for the backfill while there was no cursor
\* or for any query.  (A restart loses the rows on their way; the overlap of the
\* next sweeps is their net.)
CursorCovers ==
  restarts = 0 =>
    \A r \in Rows \ OwnRows :
      date[r] \in 1 .. cursor - 1 => r \in InRoom \cup Waiting \cup missed


\* One of a fallback's deliveries quoted another message than the others, or
\* none of the recent ones, or it was lost at a restart, or too old to be asked
\* for.
Astray(f) ==
  \/ f \in db \cup lost \cup missed
  \/ \E x, y \in applied : x[2] = f /\ y[2] = f /\ x[1] # y[1]

\* No other fallback of its sender for the message is as new.
Newest(x) ==
  \A y \in applied \ {x} :
    y[1] = x[1] /\ Sender(y[2]) = Sender(x[2]) => date[y[2]] < date[x[2]]

\* Sweeps deliver the fallbacks of the overlap again and again, so that a
\* reaction that was taken back appears again in between; but whenever a sweep
\* was handled to its end, a reaction that was not sent from the room is what the
\* newest of its sender's fallbacks says, those sent from the room included,
\* unless that one went astray.  (One sent from the room has no such promise: the
\* next sweep puts an older fallback of the account's other client back.)
LastReactionWins ==
  whole /\ ~polling /\ Waiting = {} =>
    \A x \in applied :
      x[2] \notin OwnRows /\ Newest(x) /\ ~Astray(x[2])
      => (x \in shown <=> x[2] \notin Removes)

\* The rows of others, as Inbox sees them.
Others == Rows \ OwnRows
Promise ==
  INSTANCE Inbox WITH
    Messages <- Others,
    listed   <- {r \in Others : date[r] # 0},
    waiting  <- Waiting \cap Others,
    room     <- InRoom \cap Others,
    missed   <- missed \cap Others,
    settled  <- {r \in Others : date[r] # 0 /\ Passed(r)},
    lost     <- lost \cap Others

\* Polls, overlaps, failed hand-overs and restarts together keep Inbox's promise:
\* no cursor passes a message of somebody else that is neither in the room nor on
\* its way, unless a query left it out for its age, and only a restart loses one.
KeepsInbox == Promise!Spec

\* What is marked of a send that goes through: a text's later parts, a reaction.
LaterRows(s) ==
  {PartsOf[s][i] : i \in {j \in 1 .. Len(PartsOf[s]) : j > 1 \/ s \in Reactions}}

\* The row passes the echo check in this step.
PassesCheck(r) == found = NoEvent /\ found' # NoEvent /\ found'.what = r

\* From the call of markSentEcho on, and for each row that gets no message row
\* once its send is done, the check drops the echo: it lets the row through only
\* after a restart, or when VoIP.ms listed it more than the 24 hours ago.  (A row
\* that was past the check when markSentEcho was called is queued all the same.)
EchoesDropped ==
  [][\A r \in marked \cup UNION {LaterRows(s) : s \in done} :
       PassesCheck(r) => restarts > 0 \/ now - date[r] > TTL]_vars

\* As the comment on sentEchoIDs says, no part of a sent text comes back as an
\* incoming message.
NoPartComesBack ==
  \A s \in done : ToSet(PartsOf[s]) \cap bridged = {}

\* As the comment on isSentEcho says, an entry is kept for as long as polls
\* deliver its row: the check does not let a marked row through that the overlap
\* of the cursor delivers again.
MarkedStaysOut ==
  [][\A r \in marked : PassesCheck(r) => date[r] > cursor]_vars
=============================================================================
