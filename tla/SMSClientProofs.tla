--------------------------- MODULE SMSClientProofs ---------------------------
(* Proofs about SMSClient, for every retry interval, cap and budget.  What   *)
(* CoordinatorProofs shows of the coordinator holds of the client, whose     *)
(* steps only report events to it.                                           *)
EXTENDS SMSClient, CoordinatorProofs

-----------------------------------------------------------------------------
(* The client's reports are events of the coordinator.                     *)

\* Every step of the client's two threads is an event that is reported, or
\* nothing to the coordinator.
THEOREM ClientReports == Spec => CoordSpec
<1>1. Init => CoordInit
  BY DEF Init
<1>2. [Next]_vars => [CoordNext]_coord
  <2>1. ASSUME NEW here, NEW there, NEW event \in Events, NEW error \in Errors,
               Report(here, there, event, error)
        PROVE  CoordNext
    BY <2>1 DEF Report, CoordNext, Components
  <2>2. /\ "" \in Errors /\ "E-SMS-001" \in Errors /\ "E-SMS-002" \in Errors
        /\ {"connection_started", "connection_established", "idle_started",
            "auth_failure"} \subseteq Events
    BY DEF Errors, Events
  <2>3. Connect => CoordNext
    BY <2>1, <2>2 DEF Connect
  <2>4. Connected1 => [CoordNext]_coord
    BY <2>1, <2>2 DEF Connected1, SetLoggedIn, SetFailure, SetConnected
  <2>5. Rejected \/ PollError \/ PollSuccess => [CoordNext]_coord
    BY <2>1, <2>2 DEF Rejected, PollError, PollSuccess, SetLoggedIn, SetFailure,
                      SetConnected, Skip
  <2>6. Loop \/ VerifyCancelled \/ GiveUpAtOnce \/ SleepCancelled \/ PollCancelled
          \/ PollUnreachable \/ Sweep \/ RunReturns => UNCHANGED coord
    BY DEF Loop, VerifyCancelled, GiveUpAtOnce, SleepCancelled, PollCancelled,
           PollUnreachable, Sweep, RunReturns, SetConnected, Skip
  <2>7. VerifyOK \/ (\E reply \in {"auth", "net"} : VerifyFails(reply))
          \/ RetryRejected \/ RetryUnreachable \/ Wake \/ PollOK \/ PollRejected
          => UNCHANGED coord
    BY DEF VerifyOK, VerifyFails, RetryRejected, RetryUnreachable, Wake, PollOK,
           PollRejected
  <2>8. Framework \/ AccountChanges => UNCHANGED coord
    BY DEF Framework, Disconnect, LogoutRemote, AccountDeleted, Cancel, Unregister,
           AccountChanges
  <2> QED  BY <2>3, <2>4, <2>5, <2>6, <2>7, <2>8
           DEF Next, Supervise, CoordNext, vars, coord
<1> QED  BY <1>1, <1>2, PTL DEF Spec, CoordSpec

\* What the user sees is what the client reported last, however its threads
\* interleave.
THEOREM ClientStateIsCurrent == Spec => []PublishedIsCurrent
  BY ClientReports, NothingStale, PTL

-----------------------------------------------------------------------------
(* The inductive invariant.                                                *)

FlagTypes ==
  /\ accepts \in BOOLEAN /\ cancelled \in BOOLEAN /\ registered \in BOOLEAN
  /\ loggedIn \in BOOLEAN /\ isConnected \in BOOLEAN
  /\ authFailure \in BOOLEAN /\ loggedOut \in BOOLEAN
  /\ retryEnabled \in BOOLEAN
  /\ g \in Places
  /\ m \in {"none", "delete", "cancel", "unregister", "out"}
  /\ answer \in {"none", "ok", "auth"}
BudgetTypes ==
  /\ maxRetries \in Budgets
  /\ failure \in {"none", "auth", "net"}
  /\ backoff \in RetryInterval .. MaxInterval
  /\ wait \in {0} \cup (RetryInterval .. MaxInterval)
  /\ attempt \in Nat /\ failed \in Nat
OwnTypes == FlagTypes /\ BudgetTypes

\* isConnected is set only between a check that succeeded and the end of Run.
Down ==
  g \in {"new", "loop", "verify", "valid1", "valid2", "up1", "rejected1",
         "rejected2", "rejected3", "unreachable", "retry", "sleep", "done"}
    => ~isConnected

Follows == (loggedIn <=> answer # "auth") /\ (authFailure <=> answer = "auth")

\* What each position knows of the flags while nobody disconnects the client.
FlagsKnown ==
  m = "none" =>
    /\ ~cancelled
    /\ g \in {"new", "loop", "verify", "unreachable", "retry", "sleep", "up1",
              "up2", "up3", "poll", "select"} => Follows
    /\ g \in {"poll", "select"} => (isConnected <=> answer = "ok")
    /\ g \in {"valid1", "valid2", "up1", "up2", "up3", "ok1", "ok2", "ok3", "ok4",
              "ok5"} => answer = "ok"
    /\ g \in {"up2", "up3", "ok3", "ok4", "ok5"} => isConnected
    /\ g \in {"valid2", "ok5"} => loggedIn
    /\ g \in {"rejected1", "rejected2", "rejected3", "bad1", "bad2", "bad3",
              "bad4"} => answer = "auth"
    /\ g \in {"bad2", "bad3", "bad4"} => ~isConnected
    /\ g \in {"rejected2", "rejected3", "bad3", "bad4"} => ~loggedIn
    /\ g \in {"rejected3", "bad4"} => authFailure

\* Why supervise sleeps, and the attempts it counted against the checks that
\* failed: a check that just failed is not counted yet.
FailureKnown ==
  /\ g \in {"rejected1", "rejected2", "rejected3"} => failure = "auth"
  /\ g = "unreachable" => failure = "net"
  /\ g \in {"retry", "sleep"} => failure \in {"auth", "net"}
  /\ g = "sleep" => retryEnabled /\ wait \in RetryInterval .. MaxInterval
Counts ==
  maxRetries > 0 =>
    /\ g \in {"new", "loop", "verify", "sleep", "rejected1", "rejected2",
              "rejected3"} => failed = attempt /\ attempt <= maxRetries
    /\ g = "retry" /\ failure = "auth" => failed = attempt /\ attempt <= maxRetries
    /\ g = "unreachable" => failed = attempt + 1 /\ attempt <= maxRetries
    /\ g = "retry" /\ failure = "net" => failed = attempt + 1 /\ attempt <= maxRetries
Stopped ==
  g = "done" /\ ~cancelled =>
    ~retryEnabled \/ (maxRetries > 0 /\ failed = maxRetries + 1)

ClientInv == OwnTypes /\ Down /\ FlagsKnown /\ FailureKnown /\ Counts /\ Stopped

LEMMA InitInv == Init => ClientInv
<1> SUFFICES ASSUME Init PROVE ClientInv
  OBVIOUS
<1>1. OwnTypes
  <2>1. /\ RetryInterval \in RetryInterval .. MaxInterval
        /\ 0 \in {0} \cup (RetryInterval .. MaxInterval) /\ 0 \in Nat
    BY RetryAssumption
  <2>2. "new" \in Places
    BY DEF Places
  <2> QED  BY <2>1, <2>2, Zenon DEF Init, OwnTypes, FlagTypes, BudgetTypes
<1>2. Down /\ FlagsKnown /\ FailureKnown /\ Counts /\ Stopped
  BY <1>1, RetryAssumption
  DEF OwnTypes, FlagTypes, BudgetTypes, Init, Down, FlagsKnown, Follows, FailureKnown, Counts, Stopped
<1> QED  BY <1>1, <1>2 DEF ClientInv

\* A step of the goroutine that only moves, or sets one flag, or reports.
Moves(here, there) ==
  /\ Go(here, there)
  /\ UNCHANGED <<accepts, m, retry, history, shared>>

LEMMA MovesKeep ==
  ASSUME ClientInv, NEW here, NEW there \in Places, Moves(here, there),
         loggedIn' \in BOOLEAN, isConnected' \in BOOLEAN, authFailure' \in BOOLEAN
  PROVE  OwnTypes'
<1>1. FlagTypes'
  BY DEF ClientInv, OwnTypes, FlagTypes, Moves, Go, history, shared, config
<1>2. BudgetTypes'
  BY DEF ClientInv, OwnTypes, BudgetTypes, Moves, retry, history, shared, config
<1> QED  BY <1>1, <1>2 DEF OwnTypes

\* What the two threads' other steps do with the types.
LEMMA SupervisedTypes ==
  ASSUME ClientInv,
         \/ VerifyOK \/ (\E reply \in {"auth", "net"} : VerifyFails(reply))
         \/ RetryRejected \/ RetryUnreachable \/ Wake \/ PollOK \/ PollRejected
  PROVE  OwnTypes'
<1> USE DEF ClientInv, OwnTypes, FlagTypes, BudgetTypes, Go, flags, retry, history, shared, config, Places
<1>1. CASE VerifyOK
  BY <1>1 DEF VerifyOK
<1>2. CASE \E reply \in {"auth", "net"} : VerifyFails(reply)
  BY <1>2 DEF VerifyFails
<1>3. CASE RetryRejected
  BY <1>3, RetryAssumption DEF RetryRejected
<1>4. CASE RetryUnreachable
  BY <1>4 DEF RetryUnreachable, Counted
<1>5. CASE Wake
  <2>1. Doubled \in RetryInterval .. MaxInterval
    BY RetryAssumption DEF Doubled
  <2> QED  BY <1>5, <2>1 DEF Wake
<1>6. CASE PollOK
  BY <1>6 DEF PollOK
<1>7. CASE PollRejected
  BY <1>7 DEF PollRejected
<1> QED  BY <1>1, <1>2, <1>3, <1>4, <1>5, <1>6, <1>7

\* A step of the framework or of VoIP.ms.
LEMMA FrameworkTypes ==
  ASSUME ClientInv, Framework \/ AccountChanges
  PROVE  OwnTypes'
<1>1. UNCHANGED <<g, retry, answer, failed, config>>
  BY DEF Framework, Disconnect, LogoutRemote, AccountDeleted, Cancel, Unregister,
         AccountChanges, history, shared
<1>2. BudgetTypes'
  BY <1>1 DEF ClientInv, OwnTypes, BudgetTypes, retry, config
<1>3. FlagTypes'
  <2> USE <1>1 DEF ClientInv, OwnTypes, FlagTypes, Move, flags, history, shared, config
  <2>1. CASE AccountChanges
    BY <2>1 DEF AccountChanges
  <2>2. CASE Disconnect
    BY <2>2 DEF Disconnect
  <2>3. CASE LogoutRemote
    BY <2>3 DEF LogoutRemote
  <2>4. CASE AccountDeleted
    BY <2>4 DEF AccountDeleted
  <2>5. CASE Cancel \/ Unregister
    BY <2>5 DEF Cancel, Unregister
  <2> QED  BY <2>1, <2>2, <2>3, <2>4, <2>5 DEF Framework
<1> QED  BY <1>2, <1>3 DEF OwnTypes

\* The rest of the invariant only speaks of what these steps change.
LEMMA FrameworkKeeps ==
  ClientInv /\ (Framework \/ AccountChanges)
    => (Down /\ FlagsKnown /\ FailureKnown /\ Counts /\ Stopped)'
  BY DEF ClientInv, OwnTypes, FlagTypes, BudgetTypes, Framework, Disconnect, LogoutRemote, AccountDeleted,
         Cancel, Unregister, AccountChanges, Move, flags, retry, history, shared,
         config, Down, FlagsKnown, Follows, FailureKnown, Counts, Stopped

\* A step of the goroutine keeps what its positions know of the flags.
LEMMA SuperviseKeeps ==
  ASSUME ClientInv, Supervise
  PROVE  (Down /\ FlagsKnown)'
<1> USE DEF ClientInv, OwnTypes, FlagTypes, Go, Skip, SetLoggedIn, SetConnected, SetFailure,
            Report, flags, retry, history, shared, config, Down, FlagsKnown, Follows
<1>1. CASE Connect
  BY <1>1 DEF Connect
<1>2. CASE Loop
  BY <1>2 DEF Loop
<1>3. CASE VerifyOK
  BY <1>3 DEF VerifyOK
<1>4. CASE Connected1
  <2>1. ASSUME SetLoggedIn("valid1", "valid2", TRUE) PROVE (Down /\ FlagsKnown)'
    BY <2>1
  <2>2. ASSUME SetFailure("valid2", "up1", FALSE) PROVE (Down /\ FlagsKnown)'
    BY <2>2
  <2>3. ASSUME SetConnected("up1", "up2", TRUE) PROVE (Down /\ FlagsKnown)'
    BY <2>3
  <2>4. ASSUME NEW event, NEW error,
               \/ Report("up2", "up3", event, error)
               \/ Report("up3", "poll", event, error)
        PROVE  (Down /\ FlagsKnown)'
    BY <2>4
  <2> QED  BY <1>4, <2>1, <2>2, <2>3, <2>4 DEF Connected1
<1>5. CASE VerifyCancelled
  BY <1>5 DEF VerifyCancelled
<1>6. CASE \E reply \in {"auth", "net"} : VerifyFails(reply)
  BY <1>6 DEF VerifyFails
<1>7. CASE Rejected
  BY <1>7 DEF Rejected
<1>8. CASE GiveUpAtOnce \/ RetryRejected \/ RetryUnreachable
  BY <1>8 DEF GiveUpAtOnce, RetryRejected, RetryUnreachable
<1>9. CASE Wake \/ SleepCancelled
  BY <1>9 DEF Wake, SleepCancelled
<1>10. CASE PollCancelled \/ PollUnreachable \/ Sweep
  BY <1>10 DEF PollCancelled, PollUnreachable, Sweep
<1>11. CASE PollOK \/ PollRejected
  BY <1>11 DEF PollOK, PollRejected
<1>12. CASE PollError
  BY <1>12 DEF PollError
<1>13. CASE PollSuccess
  <2>1. ASSUME NEW there \in {"select", "ok2"}, Skip("ok1", there),
               there = "select" <=> cancelled
        PROVE  (Down /\ FlagsKnown)'
    BY <2>1
  <2>2. ASSUME NEW there \in {"ok3", "ok4"}, SetConnected("ok2", there, TRUE)
        PROVE  (Down /\ FlagsKnown)'
    BY <2>2
  <2>3. ASSUME NEW event, NEW error, Report("ok3", "ok4", event, error)
        PROVE  (Down /\ FlagsKnown)'
    BY <2>3
  <2>4. ASSUME SetLoggedIn("ok4", "ok5", TRUE) PROVE (Down /\ FlagsKnown)'
    BY <2>4
  <2>5. ASSUME SetFailure("ok5", "select", FALSE) PROVE (Down /\ FlagsKnown)'
    BY <2>5
  <2> QED  BY <1>13, <2>1, <2>2, <2>3, <2>4, <2>5 DEF PollSuccess
<1>14. CASE RunReturns
  BY <1>14 DEF RunReturns
<1> QED  BY <1>1, <1>2, <1>3, <1>4, <1>5, <1>6, <1>7, <1>8, <1>9, <1>10, <1>11, <1>12,
            <1>13, <1>14 DEF Supervise


\* A step that only moves keeps the count of failures, and goes to "sleep" or
\* "done" from nowhere that knows less.
LEMMA MovesCount ==
  ASSUME ClientInv, NEW here, NEW there, Moves(here, there),
         \/ <<here, there>> \in {<<"new", "loop">>, <<"loop", "verify">>,
              <<"rejected1", "rejected2">>, <<"rejected2", "rejected3">>,
              <<"rejected3", "retry">>, <<"unreachable", "retry">>}
         \/ there \in {"valid2", "up1", "up2", "up3", "poll", "select", "ok2", "ok3",
                       "ok4", "ok5", "bad2", "bad3", "bad4"}
         \/ there = "done" /\ (cancelled \/ ~retryEnabled)
  PROVE  (FailureKnown /\ Counts /\ Stopped)'
  BY DEF ClientInv, OwnTypes, FlagTypes, BudgetTypes, Moves, Go, retry, history,
         shared, config, FailureKnown, Counts, Stopped

\* The steps that only move.
LEMMA SimpleSteps ==
  ASSUME ClientInv,
         \/ Connect \/ Loop \/ Connected1 \/ VerifyCancelled \/ Rejected
         \/ GiveUpAtOnce \/ SleepCancelled \/ PollCancelled \/ PollUnreachable
         \/ PollError \/ PollSuccess \/ Sweep \/ RunReturns
  PROVE  (OwnTypes /\ FailureKnown /\ Counts /\ Stopped)'
<1>1. ASSUME NEW here, NEW there,
             \/ <<here, there>> \in {<<"new", "loop">>, <<"loop", "verify">>,
                  <<"rejected1", "rejected2">>, <<"rejected2", "rejected3">>,
                  <<"rejected3", "retry">>, <<"unreachable", "retry">>}
             \/ there \in {"valid2", "up1", "up2", "up3", "poll", "select", "ok2",
                           "ok3", "ok4", "ok5", "bad2", "bad3", "bad4"}
             \/ there = "done" /\ (cancelled \/ ~retryEnabled),
             \/ Skip(here, there)
             \/ \E value \in BOOLEAN : \/ SetLoggedIn(here, there, value)
                                       \/ SetConnected(here, there, value)
                                       \/ SetFailure(here, there, value)
             \/ \E event, error : Report(here, there, event, error)
      PROVE  (OwnTypes /\ FailureKnown /\ Counts /\ Stopped)'
  <2>1. Moves(here, there)
    BY <1>1 DEF Skip, SetLoggedIn, SetConnected, SetFailure, Report, Moves
  <2>2. /\ loggedIn' \in BOOLEAN /\ isConnected' \in BOOLEAN
        /\ authFailure' \in BOOLEAN
    BY <1>1 DEF Skip, SetLoggedIn, SetConnected, SetFailure, Report, flags,
                ClientInv, OwnTypes, FlagTypes
  <2>3. there \in Places
    BY <1>1 DEF Places
  <2> QED  BY <1>1, <2>1, <2>2, <2>3, MovesKeep, MovesCount
<1>2. CASE Connect
  BY <1>1, <1>2 DEF Connect
<1>3. CASE Loop
  BY <1>1, <1>3 DEF Loop
<1>4. CASE Connected1
  BY <1>1, <1>4 DEF Connected1
<1>5. CASE VerifyCancelled \/ GiveUpAtOnce \/ SleepCancelled
  BY <1>1, <1>5 DEF VerifyCancelled, GiveUpAtOnce, SleepCancelled
<1>6. CASE Rejected
  BY <1>1, <1>6 DEF Rejected
<1>7. CASE PollCancelled \/ PollUnreachable \/ Sweep \/ RunReturns
  BY <1>1, <1>7 DEF PollCancelled, PollUnreachable, Sweep, RunReturns
<1>8. CASE PollError
  BY <1>1, <1>8 DEF PollError
<1>9. CASE PollSuccess
  BY <1>1, <1>9 DEF PollSuccess
<1> QED  BY <1>2, <1>3, <1>4, <1>5, <1>6, <1>7, <1>8, <1>9

\* The steps that count, wait or learn an answer.
LEMMA CountingSteps ==
  ASSUME ClientInv,
         \/ VerifyOK \/ (\E reply \in {"auth", "net"} : VerifyFails(reply))
         \/ RetryRejected \/ RetryUnreachable \/ Wake \/ PollOK \/ PollRejected
  PROVE  (FailureKnown /\ Counts /\ Stopped)'
<1> USE DEF ClientInv, OwnTypes, FlagTypes, BudgetTypes, Go, flags, retry, history,
            shared, config, FailureKnown, Counts, Stopped
<1>1. CASE VerifyOK
  BY <1>1 DEF VerifyOK
<1>2. CASE \E reply \in {"auth", "net"} : VerifyFails(reply)
  BY <1>2, RetryAssumption DEF VerifyFails
<1>3. CASE RetryRejected
  BY <1>3, RetryAssumption DEF RetryRejected
<1>4. CASE RetryUnreachable
  BY <1>4, RetryAssumption DEF RetryUnreachable, Counted, BudgetSpent
<1>5. CASE Wake
  BY <1>5 DEF Wake
<1>6. CASE PollOK \/ PollRejected
  BY <1>6 DEF PollOK, PollRejected
<1> QED  BY <1>1, <1>2, <1>3, <1>4, <1>5, <1>6

LEMMA Inductive == ClientInv /\ [Next]_vars => ClientInv'
<1> SUFFICES ASSUME ClientInv, [Next]_vars PROVE ClientInv'
  OBVIOUS
<1> DEFINE Simple == \/ Connect \/ Loop \/ Connected1 \/ VerifyCancelled \/ Rejected
                     \/ GiveUpAtOnce \/ SleepCancelled \/ PollCancelled
                     \/ PollUnreachable \/ PollError \/ PollSuccess \/ Sweep
                     \/ RunReturns
           Counting == \/ VerifyOK \/ (\E reply \in {"auth", "net"} : VerifyFails(reply))
                       \/ RetryRejected \/ RetryUnreachable \/ Wake \/ PollOK
                       \/ PollRejected
<1>1. CASE Supervise
  <2>1. Simple \/ Counting
    BY <1>1 DEF Supervise
  <2>2. CASE Simple
    BY <1>1, <2>2, SimpleSteps, SuperviseKeeps DEF ClientInv
  <2>3. CASE Counting
    BY <1>1, <2>3, SupervisedTypes, CountingSteps, SuperviseKeeps DEF ClientInv
  <2> QED  BY <2>1, <2>2, <2>3
<1>2. CASE Framework \/ AccountChanges
  BY <1>2, FrameworkTypes, FrameworkKeeps DEF ClientInv
<1>3. CASE UNCHANGED <<accepts, g, m, flags, retry, history, shared>>
  BY <1>3 DEF flags, retry, history, shared, config, ClientInv, OwnTypes, FlagTypes,
              BudgetTypes, Down, FlagsKnown, Follows, FailureKnown, Counts, Stopped
<1> QED  BY <1>1, <1>2, <1>3 DEF Next, vars

\* The inductive invariant: types, the flags at each position of the goroutine, and
\* the attempts counted against the checks that failed.
THEOREM ClientInvariant == Spec => []ClientInv
  BY InitInv, Inductive, PTL DEF Spec

-----------------------------------------------------------------------------
(* What follows.                                                           *)

\* The types, and that waits stay between the interval and its cap.
THEOREM ClientTypes == Spec => []ClientTypeOK
<1>1. CoordTypeOK /\ ClientInv => ClientTypeOK
  BY DEF ClientTypeOK, ClientInv, OwnTypes, FlagTypes, BudgetTypes
<1> QED  BY <1>1, ClientReports, CoordTypes, ClientInvariant, PTL

\* Between two calls, what bridgev2 and the status command read follows from
\* VoIP.ms' last definite answer.
THEOREM FlagsAreTrue == Spec => []FlagsFollowAnswer
<1>1. ClientInv => FlagsFollowAnswer
  BY DEF ClientInv, OwnTypes, FlagTypes, Down, FlagsKnown, Follows, FlagsFollowAnswer
<1> QED  BY <1>1, ClientInvariant, PTL

\* A client whose goroutine has ended is not connected.
THEOREM DownAtTheEnd == Spec => []DownWhenDone
<1>1. ClientInv => DownWhenDone
  BY DEF ClientInv, Down, DownWhenDone
<1> QED  BY <1>1, ClientInvariant, PTL

\* The retry budget is kept exactly, for every interval, cap and budget.
THEOREM BudgetIsKept == Spec => []BudgetKept
<1>1. ClientInv => BudgetKept
  BY RetryAssumption
  DEF ClientInv, OwnTypes, BudgetTypes, FailureKnown, Counts, Stopped, BudgetKept
<1> QED  BY <1>1, ClientInvariant, PTL

-----------------------------------------------------------------------------
(* What the user is shown.                                                 *)

\* What the coordinator knows of the poller after a failure, and when it is up.
Failing(error) == [connected |-> FALSE, idle |-> FALSE, error |-> error]
Up == inbox.connected /\ inbox.error = ""

\* A report reaches the coordinator's record of the poller, and is published.
LEMMA Reported ==
  ASSUME NEW here, NEW there, NEW event \in Events, NEW error, circuit = "closed",
         Report(here, there, event, error)
  PROVE  /\ inbox' = InboxAfter(event, error) /\ circuit' = "closed"
         /\ HasLogin => current' # Starting
<1>1. UpdateComponentState("poller", event, error) /\ Publish(ComputeBridgeState')
  BY DEF Report, ReportEvent
<1>2. inbox' = InboxAfter(event, error) /\ circuit' = "closed"
  BY <1>1 DEF UpdateComponentState
<1>3. ComputeBridgeState' # Starting
  <2>1. /\ \A e : Bad(e) # Starting /\ Transient(e) # Starting
        /\ Connected # Starting
    BY DEF Bad, Transient, Connected, Starting
  <2> QED
    BY <1>2, <2>1 DEF ComputeBridgeState
<1> QED
  BY <1>1, <1>2, <1>3 DEF Publish, ShouldSend

\* What each position knows of VoIP.ms' last answer and of the record.
AnswerKnown ==
  /\ g \in {"valid1", "valid2", "up1", "up2", "up3", "ok1", "ok2", "ok3", "ok4",
            "ok5"} => answer = "ok"
  /\ g \in {"bad1", "bad2", "bad3", "bad4"} => answer = "auth"
  /\ g \in {"bad2", "bad3", "bad4"} => ~isConnected
  /\ g \in {"poll", "select"} => answer # "none"

FailureTold ==
  /\ g \in {"retry", "sleep"} =>
       inbox = Failing(IF failure = "auth" THEN "E-SMS-001" ELSE "E-SMS-002")
  /\ g \in {"poll", "select"} /\ answer = "auth" => inbox = Failing("E-SMS-001")

SuccessTold ==
  /\ g \in {"up3", "ok4", "ok5"} => Up
  /\ g \in {"poll", "select", "ok1", "ok2"} /\ isConnected => Up
  /\ g \in {"poll", "select"} /\ answer = "ok" /\ ~cancelled => Up

Told ==
  /\ circuit = "closed"
  /\ HasLogin /\ g # "new" => current # Starting
  /\ AnswerKnown /\ FailureTold /\ SuccessTold

LEMMA ToldInit == Init => Told
  BY DEF Init, CoordInit, Told, AnswerKnown, FailureTold, SuccessTold

\* A step of the goroutine that moves or sets one flag.
LEMMA FlagKeeps ==
  ASSUME ClientInv, Told,
         \/ SetLoggedIn("valid1", "valid2", TRUE) \/ SetFailure("valid2", "up1", FALSE)
         \/ SetConnected("up1", "up2", TRUE)
         \/ SetLoggedIn("rejected1", "rejected2", FALSE)
         \/ SetFailure("rejected2", "rejected3", TRUE)
         \/ SetConnected("bad1", "bad2", FALSE) \/ SetLoggedIn("bad2", "bad3", FALSE)
         \/ SetFailure("bad3", "bad4", TRUE)
         \/ cancelled /\ Skip("ok1", "select")
         \/ ~cancelled /\ Skip("ok1", "ok2")
         \/ isConnected /\ SetConnected("ok2", "ok4", TRUE)
         \/ ~isConnected /\ SetConnected("ok2", "ok3", TRUE)
         \/ SetLoggedIn("ok4", "ok5", TRUE) \/ SetFailure("ok5", "select", FALSE)
  PROVE  Told'
<1>1. Up' = Up
  BY DEF Up, SetLoggedIn, SetConnected, SetFailure, Skip, coord
<1> QED
  BY <1>1 DEF Told, AnswerKnown, FailureTold, SuccessTold, Go, Skip, SetLoggedIn,
              SetConnected, SetFailure, coord, flags, retry, history, shared

\* A step that calls VoIP.ms, waits or decides.
LEMMA CallKeeps ==
  ASSUME ClientInv, Told,
         \/ Loop \/ VerifyOK \/ VerifyCancelled
         \/ (\E reply \in {"auth", "net"} : VerifyFails(reply))
         \/ GiveUpAtOnce \/ RetryRejected \/ RetryUnreachable \/ Wake \/ SleepCancelled
         \/ PollCancelled \/ PollOK \/ PollRejected \/ PollUnreachable \/ Sweep
         \/ RunReturns
  PROVE  Told'
<1> USE DEF Told, AnswerKnown, FailureTold, SuccessTold, Go, Skip, SetConnected, coord,
            flags, retry, history, shared
<1>0. Up' = Up
  BY DEF Up, Loop, VerifyOK, VerifyCancelled, VerifyFails, GiveUpAtOnce, RetryRejected,
         RetryUnreachable, Wake, SleepCancelled, PollCancelled, PollOK, PollRejected,
         PollUnreachable, Sweep, RunReturns
<1>1. CASE VerifyOK \/ VerifyCancelled \/ (\E reply \in {"auth", "net"} : VerifyFails(reply))
  BY <1>0, <1>1 DEF VerifyOK, VerifyCancelled, VerifyFails
<1>2. CASE Loop \/ Wake \/ SleepCancelled
  BY <1>0, <1>2 DEF Loop, Wake, SleepCancelled
<1>3. CASE GiveUpAtOnce \/ RetryRejected \/ RetryUnreachable
  BY <1>0, <1>3 DEF GiveUpAtOnce, RetryRejected, RetryUnreachable
<1>4. CASE PollCancelled \/ PollOK \/ PollRejected \/ PollUnreachable
  BY <1>0, <1>4 DEF PollCancelled, PollOK, PollRejected, PollUnreachable
<1>5. CASE Sweep \/ RunReturns
  BY <1>0, <1>5 DEF Sweep, RunReturns
<1> QED
  BY <1>1, <1>2, <1>3, <1>4, <1>5

\* A step that reports.
LEMMA ReportKeeps ==
  ASSUME ClientInv, Told,
         \/ Connect
         \/ Report("up2", "up3", "connection_established", "")
         \/ Report("up3", "poll", "idle_started", "")
         \/ Report("rejected3", "retry", "auth_failure", "E-SMS-001")
         \/ Report("unreachable", "retry", "auth_failure", "E-SMS-002")
         \/ Report("bad4", "select", "auth_failure", "E-SMS-001")
         \/ Report("ok3", "ok4", "connection_established", "")
  PROVE  Told'
<1>1. ASSUME NEW here, NEW there, NEW event \in Events, NEW error,
             Report(here, there, event, error)
      PROVE  /\ inbox' = InboxAfter(event, error) /\ circuit' = "closed"
             /\ HasLogin => current' # Starting
             /\ g = here /\ g' = there
             /\ UNCHANGED <<isConnected, failure, answer, cancelled>>
  BY <1>1, Reported DEF Report, Told, Go, flags, retry, history, shared
<1>2. /\ "connection_started" \in Events /\ "connection_established" \in Events
      /\ "idle_started" \in Events /\ "auth_failure" \in Events
  BY DEF Events
<1>3. ASSUME NEW here \in {"up2", "ok3"}, NEW there \in {"up3", "ok4"},
             Report(here, there, "connection_established", "")
      PROVE  Told'
  <2>1. /\ inbox' = InboxAfter("connection_established", "") /\ circuit' = "closed"
        /\ HasLogin => current' # Starting
        /\ g = here /\ g' = there /\ answer' = answer
    BY <1>1, <1>2, <1>3
  <2>2. Up'
    BY <2>1 DEF Up, InboxAfter, After, ConnectedAfter
  <2> QED
    BY <2>1, <2>2 DEF Told, AnswerKnown, FailureTold, SuccessTold
<1>4. CASE Report("up3", "poll", "idle_started", "")
  <2>1. /\ inbox' = InboxAfter("idle_started", "") /\ circuit' = "closed"
        /\ HasLogin => current' # Starting
        /\ g = "up3" /\ g' = "poll" /\ answer' = answer
    BY <1>1, <1>2, <1>4
  <2>2. Up'
    BY <2>1 DEF Up, InboxAfter, After, ConnectedAfter, Told, SuccessTold
  <2> QED
    BY <2>1, <2>2 DEF Told, AnswerKnown, FailureTold, SuccessTold
<1>5. ASSUME NEW here, NEW there \in {"retry", "select"},
             NEW error \in {"E-SMS-001", "E-SMS-002"},
             <<here, there, error>> \in {<<"rejected3", "retry", "E-SMS-001">>,
                                         <<"unreachable", "retry", "E-SMS-002">>,
                                         <<"bad4", "select", "E-SMS-001">>},
             Report(here, there, "auth_failure", error)
      PROVE  Told'
  <2>1. /\ inbox' = InboxAfter("auth_failure", error) /\ circuit' = "closed"
        /\ HasLogin => current' # Starting
        /\ g = here /\ g' = there
        /\ UNCHANGED <<isConnected, failure, answer, cancelled>>
    BY <1>1, <1>2, <1>5
  <2>2. inbox' = Failing(error)
    BY <2>1 DEF InboxAfter, Failing
  <2> QED
    BY <1>5, <2>1, <2>2
       DEF Told, AnswerKnown, FailureTold, SuccessTold, ClientInv, FailureKnown
<1>6. CASE Connect
  <2>1. /\ circuit' = "closed" /\ g' = "loop"
        /\ HasLogin => current' # Starting
    BY <1>1, <1>2, <1>6 DEF Connect
  <2> QED
    BY <2>1 DEF Told, AnswerKnown, FailureTold, SuccessTold
<1> QED
  BY <1>3, <1>4, <1>5, <1>6

LEMMA ToldStep == ClientInv /\ Told /\ [Next]_vars => Told'
<1> SUFFICES ASSUME ClientInv, Told, [Next]_vars PROVE Told'
  OBVIOUS
<1>1. CASE Supervise
  BY <1>1, FlagKeeps, CallKeeps, ReportKeeps
     DEF Supervise, Connected1, Rejected, PollError, PollSuccess
<1>2. ASSUME \/ Framework \/ AccountChanges
             \/ ThrottleExpires /\ UNCHANGED <<accepts, g, m, flags, retry, history, shared>>
             \/ UNCHANGED vars
      PROVE  Told'
  <2>1. /\ UNCHANGED <<g, inbox, circuit, current, failure, answer>>
        /\ isConnected' \in {isConnected, FALSE} /\ cancelled' \in {cancelled, TRUE}
    BY <1>2 DEF Framework, Disconnect, LogoutRemote, AccountDeleted, Cancel, Unregister,
                AccountChanges, ThrottleExpires, vars, coord, flags, retry, history,
                shared
  <2>2. Up' = Up
    BY <2>1 DEF Up
  <2>3. (isConnected' => isConnected) /\ (cancelled => cancelled')
    <3>1. /\ isConnected \in BOOLEAN /\ isConnected' \in BOOLEAN
          /\ cancelled \in BOOLEAN /\ cancelled' \in BOOLEAN
      BY Inductive DEF ClientInv, OwnTypes, FlagTypes
    <3>2. (isConnected' = isConnected \/ ~isConnected')
          /\ (cancelled' = cancelled \/ cancelled')
      BY <2>1, <3>1, Zenon
    <3> QED
      BY <3>1, <3>2
  <2> QED
    BY <2>1, <2>2, <2>3 DEF Told, AnswerKnown, FailureTold, SuccessTold
<1> QED
  BY <1>1, <1>2 DEF Next

\* What the user sees agrees with VoIP.ms' last answer about the credentials, in
\* every interleaving of the poll loop with a disconnect: a rejection is shown
\* until something is accepted again, and no failure hides behind CONNECTED.
THEOREM UserSeesTheAnswer == Spec => []ShownFollowsAnswer
<1>1. Told /\ PublishedIsCurrent => ShownFollowsAnswer
  <2> SUFFICES ASSUME Told, PublishedIsCurrent, HasLogin, g # "new"
               PROVE  /\ \A error \in {"E-SMS-001", "E-SMS-002"} :
                            inbox = Failing(error) => current = Bad(error)
                      /\ Up => current \in {Connected, Transient("E-SMS-003")}
    BY DEF ShownFollowsAnswer, Told, FailureTold, SuccessTold
  <2>1. current = ComputeBridgeState /\ circuit = "closed"
    BY DEF Told, PublishedIsCurrent
  <2>2. ASSUME NEW error \in {"E-SMS-001", "E-SMS-002"}, inbox = Failing(error)
        PROVE  current = Bad(error)
    <3>1. ~inbox.connected /\ inbox.error = error /\ error # ""
      BY <2>2 DEF Failing
    <3> QED
      BY <2>1, <3>1 DEF ComputeBridgeState, OrElse
  <2>3. ASSUME Up PROVE current \in {Connected, Transient("E-SMS-003")}
    BY <2>1, <2>3 DEF Up, ComputeBridgeState, OrElse
  <2> QED
    BY <2>2, <2>3
<1> QED
  BY <1>1, ToldInit, ToldStep, ClientInvariant, ClientStateIsCurrent, PTL DEF Spec
=============================================================================
