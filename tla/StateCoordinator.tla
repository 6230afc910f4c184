-------------------------- MODULE StateCoordinator --------------------------
(***************************************************************************)
(* The bridge-state coordinator, pkg/coordinator/state_coordinator.go: it  *)
(* turns the connection events of a login's components into the state the  *)
(* user sees.  ReportEvent holds one mutex from end to end, so an event is *)
(* one step.  Counters, timestamps and metadata, which only decorate the   *)
(* published state, are left out.                                          *)
(***************************************************************************)

CONSTANT HasLogin  \* the coordinator was given a login to publish through

ASSUME LoginAssumption == HasLogin \in BOOLEAN

VARIABLES
  inbox,      \* ConnectionState of the poller (or "inbox") component
  sent,       \* ConnectionState of the "sent" component
  circuit,    \* circuitState
  current,    \* currentState and currentError: what was last published
  throttled   \* the throttle period since the last publication is running

coord == <<inbox, sent, circuit, current, throttled>>

Errors == {"", "E-SMS-001", "E-SMS-002", "E-SMS-003", "E-SMS-007"}

Bad(error)       == [state |-> "BRIDGE_UNREACHABLE", error |-> error]
Transient(error) == [state |-> "TRANSIENT_DISCONNECT", error |-> error]
Starting         == [state |-> "STARTING", error |-> ""]
Connected        == [state |-> "CONNECTED", error |-> ""]

Components == {"inbox", "poller", "sent", "circuit_breaker"}

Events == {"connection_started", "connection_established", "connection_lost",
           "connection_closed", "idle_started", "idle_failed",
           "idle_recovered", "auth_failure", "auth_success",
           "circuit_opened", "circuit_closed", "circuit_half_open",
           "health_check_passed", "health_check_failed"}

CoordInit ==
  /\ inbox = [connected |-> FALSE, idle |-> FALSE, error |-> ""]
  /\ sent  = [connected |-> FALSE, idle |-> FALSE, error |-> ""]
  /\ circuit = "closed"
  /\ current = Starting
  /\ throttled = FALSE

-----------------------------------------------------------------------------
(* updateComponentState.                                                   *)

\* Whether a component counts as connected after an event.
ConnectedAfter(c, event) ==
  \/ event = "connection_established"
  \/ /\ c.connected
     /\ event \notin {"connection_lost", "connection_closed"}

IdleAfter(c, event) ==
  \/ event \in {"idle_started", "idle_recovered"}
  \/ c.idle /\ event # "idle_failed"

After(c, event, error) ==
  [connected |-> ConnectedAfter(c, event),
   idle      |-> IdleAfter(c, event),
   error     |-> error]

\* An authentication failure is only known to the inbox component.
InboxAfter(event, error) ==
  IF event = "auth_failure"
  THEN [connected |-> FALSE, idle |-> FALSE, error |-> error]
  ELSE After(inbox, event, error)

CircuitAfter(event) ==
  CASE event = "circuit_opened"    -> "open"
    [] event = "circuit_closed"    -> "closed"
    [] event = "circuit_half_open" -> "half_open"
    [] OTHER                       -> circuit

UpdateComponentState(component, event, error) ==
  CASE component \in {"inbox", "poller"} ->
         inbox' = InboxAfter(event, error) /\ UNCHANGED <<sent, circuit>>
    [] component = "sent" ->
         sent' = After(sent, event, error) /\ UNCHANGED <<inbox, circuit>>
    [] component = "circuit_breaker" ->
         circuit' = CircuitAfter(event) /\ UNCHANGED <<inbox, sent>>

-----------------------------------------------------------------------------
(* computeBridgeState, shouldSendState and sendBridgeState.                *)

OrElse(error, default) == IF error # "" THEN error ELSE default

ComputeBridgeState ==
  CASE circuit = "open" -> Bad("E-SMS-007")
    [] circuit # "open" /\ ~inbox.connected ->
         Bad(OrElse(inbox.error, "E-SMS-002"))
    [] circuit # "open" /\ inbox.connected /\ ~inbox.idle ->
         Transient(OrElse(inbox.error, "E-SMS-003"))
    [] circuit # "open" /\ inbox.connected /\ inbox.idle -> Connected

\* Mutant: only a change of the state, not of its error, is published.
ShouldSendOnState(new) == new.state # current.state \/ ~throttled

\* A change is published at once, a repetition once the throttle allows it.
ShouldSend(new) == new # current \/ ~throttled

\* Without a login nothing is sent, and nothing is remembered as sent.
Publish(new) ==
  IF HasLogin /\ ShouldSend(new)
  THEN current' = new /\ throttled' = TRUE
  ELSE UNCHANGED <<current, throttled>>

ReportEvent(component, event, error) ==
  /\ UpdateComponentState(component, event, error)
  /\ Publish(ComputeBridgeState')

\* The throttle period runs out.
ThrottleExpires ==
  /\ throttled' = FALSE
  /\ UNCHANGED <<inbox, sent, circuit, current>>

CoordNext ==
  \/ \E component \in Components, event \in Events, error \in Errors :
       ReportEvent(component, event, error)
  \/ ThrottleExpires

CoordSpec == CoordInit /\ [][CoordNext]_coord

-----------------------------------------------------------------------------
(* What the coordinator promises.                                          *)

States == {"STARTING", "BRIDGE_UNREACHABLE", "TRANSIENT_DISCONNECT", "CONNECTED"}

ConnectionStates == [connected : BOOLEAN, idle : BOOLEAN, error : Errors]

CoordTypeOK ==
  /\ inbox \in ConnectionStates /\ sent \in ConnectionStates
  /\ circuit \in {"open", "closed", "half_open"}
  /\ current \in [state : States, error : Errors]
  /\ throttled \in BOOLEAN

\* The state the user sees is the one the components are in, down to the error
\* code: throttling delays repetitions, never a change.  (shouldSendState
\* compares both; ReportEvent computes after it updates.)
PublishedIsCurrent ==
  HasLogin => current = Starting \/ current = ComputeBridgeState

\* Once something is published, what the "sent" component reports never changes
\* the state: the inbox and the circuit breaker alone decide it.  (The comment
\* in computeBridgeState.)
SentNeverDecides ==
  [][inbox' = inbox /\ circuit' = circuit /\ current # Starting
       => current' = current]_coord
=============================================================================
