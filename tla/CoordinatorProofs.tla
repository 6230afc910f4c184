-------------------------- MODULE CoordinatorProofs --------------------------
(* Proofs about StateCoordinator, for every sequence of events of all its    *)
(* components: the runs only send what the client reports.                   *)
EXTENDS StateCoordinator, TLAPS

\* An event leaves the component states well-typed.
LEMMA ComponentTypes ==
  ASSUME CoordTypeOK, NEW component \in Components, NEW event \in Events,
         NEW error \in Errors, UpdateComponentState(component, event, error)
  PROVE  /\ inbox' \in ConnectionStates /\ sent' \in ConnectionStates
         /\ circuit' \in {"open", "closed", "half_open"}
<1> DEFINE InboxChanges == inbox' = InboxAfter(event, error)
           SentChanges == sent' = After(sent, event, error)
           CircuitChanges == circuit' = CircuitAfter(event)
<1>1. \/ InboxChanges /\ UNCHANGED <<sent, circuit>>
      \/ SentChanges /\ UNCHANGED <<inbox, circuit>>
      \/ CircuitChanges /\ UNCHANGED <<inbox, sent>>
  BY DEF UpdateComponentState, Components
<1>2. \A c \in ConnectionStates : After(c, event, error) \in ConnectionStates
  BY DEF ConnectionStates, After, ConnectedAfter, IdleAfter
<1>3. InboxAfter(event, error) \in ConnectionStates
  BY <1>2 DEF CoordTypeOK, InboxAfter, ConnectionStates
<1>4. CircuitAfter(event) \in {"open", "closed", "half_open"}
  BY DEF CoordTypeOK, CircuitAfter
<1> QED  BY <1>1, <1>2, <1>3, <1>4 DEF CoordTypeOK

\* What the components are in gives a publishable state.
LEMMA ComputedType ==
  /\ inbox \in ConnectionStates /\ sent \in ConnectionStates
  /\ circuit \in {"open", "closed", "half_open"}
  => ComputeBridgeState \in [state : States, error : Errors]
<1> SUFFICES ASSUME inbox \in ConnectionStates, sent \in ConnectionStates,
                    circuit \in {"open", "closed", "half_open"}
             PROVE  ComputeBridgeState \in [state : States, error : Errors]
  OBVIOUS
<1>1. /\ inbox.error \in Errors /\ inbox.connected \in BOOLEAN
      /\ inbox.idle \in BOOLEAN
  BY DEF ConnectionStates
<1>2. \A default \in Errors : OrElse(inbox.error, default) \in Errors
  BY <1>1 DEF OrElse
<1>3. \A error \in Errors : /\ Bad(error) \in [state : States, error : Errors]
                            /\ Transient(error) \in [state : States, error : Errors]
  BY DEF Bad, Transient, States
<1>4. Connected \in [state : States, error : Errors]
  BY DEF Connected, States, Errors
<1>5. {"E-SMS-002", "E-SMS-003", "E-SMS-007"} \subseteq Errors
  BY DEF Errors
<1> QED  BY <1>1, <1>2, <1>3, <1>4, <1>5 DEF ComputeBridgeState

\* Every variable of the coordinator keeps its type, whatever is reported.
THEOREM CoordTypes == CoordSpec => []CoordTypeOK
<1> DEFINE WellTyped == /\ inbox \in ConnectionStates /\ sent \in ConnectionStates
                       /\ circuit \in {"open", "closed", "half_open"}
<1>1. CoordInit => CoordTypeOK
  <2>1. "" \in Errors /\ Starting \in [state : States, error : Errors]
    BY DEF Errors, Starting, States
  <2>2. [connected |-> FALSE, idle |-> FALSE, error |-> ""] \in ConnectionStates
    BY <2>1 DEF ConnectionStates
  <2> QED  BY <2>1, <2>2, Zenon DEF CoordInit, CoordTypeOK
<1>a. (WellTyped => ComputeBridgeState \in [state : States, error : Errors])'
  BY ComputedType, PTL
<1>2. CoordTypeOK /\ [CoordNext]_coord => CoordTypeOK'
  <2> SUFFICES ASSUME CoordTypeOK, [CoordNext]_coord PROVE CoordTypeOK'
    OBVIOUS
  <2>1. ASSUME NEW component \in Components, NEW event \in Events,
               NEW error \in Errors, ReportEvent(component, event, error)
        PROVE  CoordTypeOK'
    <3>1. /\ inbox' \in ConnectionStates /\ sent' \in ConnectionStates
          /\ circuit' \in {"open", "closed", "half_open"}
      BY <2>1, ComponentTypes DEF ReportEvent
    <3>2. ComputeBridgeState' \in [state : States, error : Errors]
      BY <1>a, <3>1
    <3>3. \/ current' = ComputeBridgeState' /\ throttled' = TRUE
          \/ UNCHANGED <<current, throttled>>
      BY <2>1 DEF ReportEvent, Publish
    <3> QED  BY <3>1, <3>2, <3>3 DEF CoordTypeOK
  <2>2. CASE ThrottleExpires
    BY <2>2 DEF ThrottleExpires, CoordTypeOK
  <2>3. CASE UNCHANGED coord
    BY <2>3 DEF coord, CoordTypeOK
  <2> QED  BY <2>1, <2>2, <2>3 DEF CoordNext
<1> QED  BY <1>1, <1>2, PTL DEF CoordSpec

\* What is published is what the components are in: neither the throttle nor
\* the order of events can leave a stale state or error code with the user.
THEOREM NothingStale == CoordSpec => []PublishedIsCurrent
<1>1. CoordInit => PublishedIsCurrent
  BY DEF CoordInit, PublishedIsCurrent
<1>2. PublishedIsCurrent /\ [CoordNext]_coord => PublishedIsCurrent'
  <2> SUFFICES ASSUME PublishedIsCurrent, [CoordNext]_coord, HasLogin
               PROVE  (current = Starting \/ current = ComputeBridgeState)'
    BY DEF PublishedIsCurrent
  <2>1. ASSUME NEW component \in Components, NEW event \in Events,
               NEW error \in Errors, ReportEvent(component, event, error)
        PROVE  current' = ComputeBridgeState'
    BY <2>1 DEF ReportEvent, Publish, ShouldSend
  <2>2. CASE ThrottleExpires
    BY <2>2 DEF ThrottleExpires, PublishedIsCurrent, ComputeBridgeState
  <2>3. CASE UNCHANGED coord
    BY <2>3 DEF coord, PublishedIsCurrent, ComputeBridgeState
  <2> QED  BY <2>1, <2>2, <2>3 DEF CoordNext
<1> QED  BY <1>1, <1>2, PTL DEF CoordSpec

\* Once something is published, the "sent" component cannot change it.
THEOREM SentIsIgnored == CoordSpec => SentNeverDecides
<1>1. CoordInit => PublishedIsCurrent /\ (~HasLogin => current = Starting)
  BY DEF CoordInit, PublishedIsCurrent
<1>2. (~HasLogin => current = Starting) /\ [CoordNext]_coord
        => (~HasLogin => current = Starting)'
  BY DEF CoordNext, ReportEvent, Publish, ThrottleExpires, coord
<1>3. PublishedIsCurrent /\ (~HasLogin => current = Starting)
        /\ [CoordNext]_coord
        => [inbox' = inbox /\ circuit' = circuit /\ current # Starting
              => current' = current]_coord
  <2> SUFFICES ASSUME PublishedIsCurrent, HasLogin, [CoordNext]_coord,
                      inbox' = inbox, circuit' = circuit, current # Starting
               PROVE  current' = current
    BY DEF PublishedIsCurrent
  <2>1. current = ComputeBridgeState
    BY DEF PublishedIsCurrent
  <2>2. ComputeBridgeState' = ComputeBridgeState
    BY DEF ComputeBridgeState
  <2>3. current' \in {current, ComputeBridgeState'}
    BY DEF CoordNext, ReportEvent, Publish, ThrottleExpires, coord
  <2> QED  BY <2>1, <2>2, <2>3
<1> QED  BY <1>1, <1>2, <1>3, NothingStale, PTL DEF CoordSpec, SentNeverDecides
=============================================================================
