-------------------------------- MODULE Inbox --------------------------------
(***************************************************************************)
(* What the bridge promises for the messages it receives for a room,       *)
(* without polls, cursors and buffers: it asks VoIP.ms for a message again *)
(* until it holds it, in the room or on the way there, unless the message  *)
(* is too old to be asked for; and only the end of the process loses what  *)
(* is on the way.                                                          *)
(***************************************************************************)
CONSTANT Messages

VARIABLES
  listed,   \* VoIP.ms has them
  waiting,  \* accepted for the room, in memory
  room,     \* in the room
  missed,   \* they were too old for a query
  settled,  \* the cursor has passed them: not asked for again
  lost      \* they were on the way, for the first time or again, when the process
            \* ended, and are not asked for any more

inbox == <<listed, waiting, room, missed, settled, lost>>

Init ==
  /\ listed = {} /\ waiting = {} /\ room = {}
  /\ missed = {} /\ settled = {} /\ lost = {}

List(m) ==
  /\ listed' = listed \cup {m}
  /\ UNCHANGED <<waiting, room, missed, settled, lost>>

\* A message may be accepted again until it is settled.
Accept(m) ==
  /\ m \in listed \ settled
  /\ waiting' = waiting \cup {m}
  /\ UNCHANGED <<listed, room, missed, settled, lost>>

\* It may be on the way once more; the room has it once.
Show(m) ==
  /\ m \in waiting
  /\ room' = room \cup {m}
  /\ waiting' \in {waiting, waiting \ {m}}
  /\ UNCHANGED <<listed, missed, settled, lost>>

\* Messages get too old to be asked for.
Miss ==
  /\ missed \subseteq missed' /\ missed' \subseteq listed
  /\ UNCHANGED <<listed, waiting, room, settled, lost>>

Settle ==
  /\ settled \subseteq settled' /\ settled' \subseteq listed
  /\ settled' \ settled \subseteq room \cup waiting \cup missed
  /\ UNCHANGED <<listed, waiting, room, missed, lost>>

Restart ==
  /\ lost' = lost \cup (waiting \cap settled)
  /\ waiting' = {}
  /\ UNCHANGED <<listed, room, missed, settled>>

Next == \/ \E m \in Messages : List(m) \/ Accept(m) \/ Show(m)
        \/ Miss \/ Settle \/ Restart

Spec == Init /\ [][Next]_inbox

\* What is not asked for again is in the room, on its way, was too old for a
\* query, or was lost when the process ended.
SettledIsHeld == settled \subseteq room \cup waiting \cup missed \cup lost
=============================================================================
