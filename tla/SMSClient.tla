----------------------------- MODULE SMSClient -----------------------------
(***************************************************************************)
(* The lifecycle of one login, pkg/connector/client.go: the supervise      *)
(* goroutine that checks the credentials and runs the poll loop, the       *)
(* callbacks the poll loop makes, and the framework thread that            *)
(* disconnects the client or logs it out.  The two threads share three     *)
(* atomics and a context; each atomic operation is a step of its own.      *)
(*                                                                         *)
(* The account is polled through one number: what a poll delivers is in    *)
(* module Poller, here only how VoIP.ms answers it.                        *)
(***************************************************************************)
EXTENDS Integers, StateCoordinator

CONSTANTS
  RetryInterval, \* EffectiveConnectRetryInterval
  MaxInterval,   \* EffectiveConnectRetryMaxInterval
  Budgets        \* the values of ConnectMaxRetries, 0 for no limit

ASSUME RetryAssumption ==
  /\ RetryInterval \in Nat /\ RetryInterval > 0
  /\ MaxInterval \in Nat /\ MaxInterval >= RetryInterval
  /\ Budgets \subseteq Nat

VARIABLES
  accepts,     \* VoIP.ms: it accepts the credentials and our address
  g,           \* where the supervise goroutine is
  m,           \* where the framework thread is
  cancelled,   \* c.ctx is done
  loggedIn, isConnected, authFailure,   \* the atomics; authFailure is non-nil
  registered,  \* the connector's registry holds this client
  retryEnabled, \* configuration: connect_retry_interval_seconds >= 0
  maxRetries,   \* configuration: connect_max_retries
  loggedOut,   \* history: LogoutRemote was called
  failure,     \* supervise's err: "none", "auth" or "net"
  backoff, attempt,  \* supervise's locals
  wait,        \* the sleep supervise asked for
  answer,      \* history: the last answer about the credentials, ok or auth
  failed       \* history: credential checks that failed but not on credentials

flags   == <<loggedIn, isConnected, authFailure>>
retry   == <<failure, backoff, attempt, wait>>
history == <<loggedOut, answer, failed>>
config  == <<retryEnabled, maxRetries>>
shared  == <<cancelled, registered, config>>
vars == <<accepts, g, m, flags, retry, history, shared, coord>>

\* LoadUserLogin has built and registered the client.
Init ==
  /\ CoordInit
  /\ accepts \in BOOLEAN
  /\ retryEnabled \in BOOLEAN /\ maxRetries \in Budgets
  /\ g = "new" /\ m = "none"
  /\ cancelled = FALSE /\ registered = TRUE
  /\ loggedIn = TRUE /\ isConnected = FALSE /\ authFailure = FALSE
  /\ failure = "none" /\ backoff = RetryInterval /\ attempt = 0 /\ wait = 0
  /\ loggedOut = FALSE /\ answer = "none" /\ failed = 0

-----------------------------------------------------------------------------
(* VoIP.ms: the account's API access or the bridge's address is allowed or *)
(* not; a call may fail otherwise at any time, and fails once cancelled.   *)

AccountChanges ==
  /\ accepts' = ~accepts
  /\ UNCHANGED <<g, m, flags, retry, history, shared, coord>>

\* What a call can answer now.
Answers(reply) == CASE reply = "ok"   -> accepts
                    [] reply = "auth" -> ~accepts
                    [] reply = "net"  -> TRUE

-----------------------------------------------------------------------------
(* Steps of the goroutine.                                                 *)

Go(here, there) == g = here /\ g' = there

\* A step that only moves.
Skip(here, there) ==
  /\ Go(here, there)
  /\ UNCHANGED <<accepts, m, flags, retry, history, shared, coord>>

SetLoggedIn(here, there, value) ==
  /\ Go(here, there)
  /\ loggedIn' = value
  /\ UNCHANGED <<accepts, m, isConnected, authFailure, retry, history, shared,
                 coord>>

SetConnected(here, there, value) ==
  /\ Go(here, there)
  /\ isConnected' = value
  /\ UNCHANGED <<accepts, m, loggedIn, authFailure, retry, history, shared,
                 coord>>

SetFailure(here, there, value) ==
  /\ Go(here, there)
  /\ authFailure' = value
  /\ UNCHANGED <<accepts, m, loggedIn, isConnected, retry, history, shared,
                 coord>>

Report(here, there, event, error) ==
  /\ Go(here, there)
  /\ ReportEvent("poller", event, error)
  /\ UNCHANGED <<accepts, m, flags, retry, history, shared>>

(* Connect, supervise and connectAndPoll.                                  *)

Connect == Report("new", "loop", "connection_started", "")

Loop == \/ cancelled /\ Skip("loop", "done")
        \/ ~cancelled /\ Skip("loop", "verify")

\* VerifyCredentials accepted: mark the credentials valid, then the client
\* connected, then tell the coordinator.
VerifyOK ==
  /\ Go("verify", "valid1") /\ Answers("ok") /\ ~cancelled
  /\ answer' = "ok" /\ failed' = 0
  /\ UNCHANGED <<accepts, m, flags, retry, loggedOut, shared, coord>>

Connected1 == \/ SetLoggedIn("valid1", "valid2", TRUE)
              \/ SetFailure("valid2", "up1", FALSE)
              \/ SetConnected("up1", "up2", TRUE)
              \/ Report("up2", "up3", "connection_established", "")
              \/ Report("up3", "poll", "idle_started", "")

\* VerifyCredentials failed because the client was disconnected.
VerifyCancelled == cancelled /\ Skip("verify", "done")

\* It failed otherwise.
VerifyFails(reply) ==
  /\ reply # "ok" /\ Answers(reply) /\ ~cancelled
  /\ Go("verify", IF reply = "auth" THEN "rejected1" ELSE "unreachable")
  /\ failure' = reply
  /\ answer' = IF reply = "auth" THEN "auth" ELSE answer
  /\ failed' = IF reply = "net" /\ maxRetries > 0 THEN failed + 1 ELSE failed
  /\ UNCHANGED <<accepts, m, flags, backoff, attempt, wait, loggedOut, shared,
                 coord>>

Rejected == \/ SetLoggedIn("rejected1", "rejected2", FALSE)
            \/ SetFailure("rejected2", "rejected3", TRUE)
            \/ Report("rejected3", "retry", "auth_failure", "E-SMS-001")
            \/ Report("unreachable", "retry", "auth_failure", "E-SMS-002")

\* supervise decides what to do about a failure.  Retries are disabled: stop.
GiveUpAtOnce == ~retryEnabled /\ Skip("retry", "done")

\* Mutant: a rejection ends the supervision.
RejectedGivesUp == failure = "auth" /\ retryEnabled /\ Skip("retry", "done")

\* Rejected credentials are checked again at the backoff cap, outside the
\* retry budget.
RetryRejected ==
  /\ Go("retry", "sleep") /\ failure = "auth" /\ retryEnabled
  /\ wait' = MaxInterval
  /\ UNCHANGED <<accepts, m, flags, failure, backoff, attempt, history, shared,
                 coord>>

\* Mutant: the budget is checked before the attempt is counted.
BudgetSpentLate == maxRetries > 0 /\ attempt > maxRetries

BudgetSpent == maxRetries > 0 /\ attempt + 1 > maxRetries

\* attempt is only compared with maxRetries: without a limit it is not kept.
Counted == IF maxRetries > 0 THEN attempt + 1 ELSE attempt

RetryUnreachable ==
  /\ Go("retry", IF BudgetSpent THEN "done" ELSE "sleep")
  /\ failure = "net" /\ retryEnabled
  /\ attempt' = Counted
  /\ wait' = backoff
  /\ UNCHANGED <<accepts, m, flags, failure, backoff, history, shared, coord>>

\* Mutant: the cap is applied before doubling.
DoubledLate == IF backoff > MaxInterval THEN MaxInterval ELSE 2 * backoff

Doubled == IF 2 * backoff > MaxInterval THEN MaxInterval ELSE 2 * backoff

\* sleepCtx; the ramp only moves after a failure that was not a rejection.
Wake ==
  /\ Go("sleep", "loop")
  /\ backoff' = IF failure = "net" THEN Doubled ELSE backoff
  /\ wait' = 0 /\ failure' = "none"
  /\ UNCHANGED <<accepts, m, flags, attempt, history, shared, coord>>

SleepCancelled == cancelled /\ Skip("sleep", "done")

(* Poller.Run, down to its callbacks.                                      *)

\* pollOnce's check before the number.
PollCancelled == cancelled /\ Skip("poll", "select")

\* pollDID answered; a cancelled call usually fails but may just have made it.
PollOK ==
  /\ Go("poll", "ok1") /\ Answers("ok")
  /\ answer' = "ok"
  /\ UNCHANGED <<accepts, m, flags, retry, loggedOut, failed, shared, coord>>

PollRejected ==
  /\ Go("poll", "bad1") /\ Answers("auth")
  /\ answer' = "auth"
  /\ UNCHANGED <<accepts, m, flags, retry, loggedOut, failed, shared, coord>>

\* handlePollError ignores what is not a rejection.
PollUnreachable == Skip("poll", "select")

\* Mutant: handlePollError does not tell the coordinator.
PollErrorUntold == \/ SetConnected("bad1", "bad2", FALSE)
                   \/ SetLoggedIn("bad2", "bad3", FALSE)
                   \/ SetFailure("bad3", "bad4", TRUE)
                   \/ Skip("bad4", "select")

PollError == \/ SetConnected("bad1", "bad2", FALSE)
             \/ SetLoggedIn("bad2", "bad3", FALSE)
             \/ SetFailure("bad3", "bad4", TRUE)
             \/ Report("bad4", "select", "auth_failure", "E-SMS-001")

\* Mutant: handlePollSuccess does not restore the login.
PollSuccessNoLogin ==
  \/ cancelled /\ Skip("ok1", "select")
  \/ ~cancelled /\ Skip("ok1", "ok2")
  \/ isConnected /\ SetConnected("ok2", "ok5", TRUE)
  \/ ~isConnected /\ SetConnected("ok2", "ok3", TRUE)
  \/ Report("ok3", "ok5", "connection_established", "")
  \/ SetFailure("ok5", "select", FALSE)

\* handlePollSuccess: the context check, the swap of isConnected, the event
\* when it was false, then markCredentialsValid.
PollSuccess ==
  \/ cancelled /\ Skip("ok1", "select")
  \/ ~cancelled /\ Skip("ok1", "ok2")
  \/ isConnected /\ SetConnected("ok2", "ok4", TRUE)
  \/ ~isConnected /\ SetConnected("ok2", "ok3", TRUE)
  \/ Report("ok3", "ok4", "connection_established", "")
  \/ SetLoggedIn("ok4", "ok5", TRUE)
  \/ SetFailure("ok5", "select", FALSE)

\* Run's select: a tick or a nudge starts another sweep ...
Sweep == Skip("select", "poll")

\* Mutant: connectAndPoll returns without marking the client disconnected.
RunReturnsSilently == cancelled /\ Skip("select", "done")

\* ... and cancellation makes Run return.
RunReturns == cancelled /\ SetConnected("select", "done", FALSE)

-----------------------------------------------------------------------------
(* The framework thread: Disconnect, or LogoutRemote that ends with it.    *)

Move(here, there) == m = here /\ m' = there

Disconnect ==
  /\ m = "none" /\ m' = "cancel"
  /\ isConnected' = FALSE
  /\ UNCHANGED <<accepts, g, loggedIn, authFailure, retry, history, shared,
                 coord>>

LogoutRemote ==
  /\ Move("none", "delete")
  /\ loggedIn' = FALSE
  /\ loggedOut' = TRUE
  /\ UNCHANGED <<accepts, g, isConnected, authFailure, retry, answer, failed,
                 shared, coord>>

\* DeleteAccount, which may fail, then Disconnect's first step.
AccountDeleted ==
  /\ Move("delete", "cancel")
  /\ isConnected' = FALSE
  /\ UNCHANGED <<accepts, g, loggedIn, authFailure, retry, history, shared,
                 coord>>

Cancel ==
  /\ Move("cancel", "unregister")
  /\ cancelled' = TRUE
  /\ UNCHANGED <<accepts, g, flags, retry, history, registered, config, coord>>

Unregister ==
  /\ Move("unregister", "out")
  /\ registered' = FALSE
  /\ UNCHANGED <<accepts, g, flags, retry, history, cancelled, config, coord>>

Framework == Disconnect \/ LogoutRemote \/ AccountDeleted \/ Cancel \/ Unregister

-----------------------------------------------------------------------------
Supervise ==
  \/ Connect \/ Loop
  \/ VerifyOK \/ Connected1 \/ VerifyCancelled
  \/ \E reply \in {"auth", "net"} : VerifyFails(reply)
  \/ Rejected \/ GiveUpAtOnce \/ RetryRejected \/ RetryUnreachable
  \/ Wake \/ SleepCancelled
  \/ PollCancelled \/ PollOK \/ PollRejected \/ PollUnreachable
  \/ PollError \/ PollSuccess \/ Sweep \/ RunReturns

Next ==
  \/ Supervise \/ Framework \/ AccountChanges
  \/ ThrottleExpires /\ UNCHANGED <<accepts, g, m, flags, retry, history, shared>>

Spec == Init /\ [][Next]_vars

\* The goroutine runs, its timers fire, select does not ignore a cancelled
\* context for ever, and VoIP.ms answers a call that is repeated for ever; the
\* framework finishes what it starts.
FairSpec == /\ Spec
            /\ WF_vars(Supervise)
            /\ SF_vars(VerifyOK) /\ SF_vars(PollOK) /\ SF_vars(RunReturns)
            /\ WF_vars(AccountDeleted \/ Cancel \/ Unregister)

-----------------------------------------------------------------------------
(* What the client promises.                                               *)

Places == {"new", "loop", "verify", "valid1", "valid2", "up1", "up2", "up3",
           "rejected1", "rejected2", "rejected3", "unreachable", "retry",
           "sleep", "poll", "ok1", "ok2", "ok3", "ok4", "ok5", "bad1", "bad2",
           "bad3", "bad4", "select", "done"}

ClientTypeOK ==
  /\ CoordTypeOK
  /\ accepts \in BOOLEAN /\ cancelled \in BOOLEAN /\ registered \in BOOLEAN
  /\ loggedIn \in BOOLEAN /\ isConnected \in BOOLEAN
  /\ authFailure \in BOOLEAN /\ loggedOut \in BOOLEAN
  /\ retryEnabled \in BOOLEAN /\ maxRetries \in Budgets
  /\ g \in Places
  /\ m \in {"none", "delete", "cancel", "unregister", "out"}
  /\ failure \in {"none", "auth", "net"} /\ answer \in {"none", "ok", "auth"}
  /\ backoff \in RetryInterval .. MaxInterval
  /\ wait \in {0} \cup (RetryInterval .. MaxInterval)
  /\ attempt \in Nat /\ failed \in Nat

\* Between two calls to VoIP.ms, of a client nobody is disconnecting, the flags
\* that bridgev2 and `!matrisms status` read follow from the last definite
\* answer: logged in unless it was a rejection, connected while polling after
\* an acceptance, and a failure recorded exactly after a rejection.  Calls that
\* fail otherwise change nothing.
FlagsFollowAnswer ==
  g \in {"select", "sleep"} /\ m = "none" =>
    /\ loggedIn <=> answer # "auth"
    /\ authFailure <=> answer = "auth"
    /\ isConnected <=> g = "select" /\ answer = "ok"

\* However a poll in flight interleaves with Disconnect, the client is not
\* connected once the goroutine has ended: a success that was past its context
\* check may set the flag again, but the end of Run clears it.
DownWhenDone == g = "done" => ~isConnected

\* The state the user sees agrees with VoIP.ms' last definite answer: while
\* supervise sleeps it names the failure; between two polls it names a rejection,
\* and after an acceptance that was not cancelled it is CONNECTED, or at worst
\* the transient state in which a rejected poll loop that recovers stays.
ShownFollowsAnswer ==
  HasLogin =>
    /\ g = "sleep" =>
         current = Bad(IF failure = "auth" THEN "E-SMS-001" ELSE "E-SMS-002")
    /\ g = "select" /\ answer = "auth" => current = Bad("E-SMS-001")
    /\ g = "select" /\ answer = "ok" /\ ~cancelled =>
         current \in {Connected, Transient("E-SMS-003")}

\* Waits between credential checks stay between the interval and its cap, and
\* the checks stop only on a disconnect, with retries disabled, or after the
\* first failed check and maxRetries retries of it; rejections do not count.
BudgetKept ==
  /\ g = "sleep" => retryEnabled /\ wait \in RetryInterval .. MaxInterval
  /\ g \in {"sleep", "loop"} /\ maxRetries > 0 => failed <= maxRetries
  /\ g = "done" /\ ~cancelled =>
       ~retryEnabled \/ (maxRetries > 0 /\ failed = maxRetries + 1)

\* If VoIP.ms accepts the credentials from some time on, nobody disconnects the
\* client and retries have no limit, the login recovers by itself for good,
\* whatever was rejected before.  (supervise's retries and handlePollSuccess.)
LoginRecovers ==
  <>[](accepts /\ m = "none" /\ retryEnabled /\ maxRetries = 0)
    => <>[](loggedIn /\ ~authFailure)

\* A client that is being disconnected stops polling, is unregistered, and
\* stays down.
DisconnectEnds ==
  m # "none" ~> [](g \in {"new", "done"} /\ ~isConnected /\ ~registered)

\* As the comment on handlePollSuccess says, the first poll that succeeds again
\* restores the connected state: between two polls, after an acceptance, the
\* bridge state is CONNECTED.
SuccessShown ==
  g = "select" /\ m = "none" /\ answer = "ok" => current = Connected

\* As the comment in handlePollSuccess says, "Disconnect already won; don't
\* resurrect the flags": once the Disconnect of a logout has cancelled the
\* context, a success the poll loop is reporting does not log the client in.
PollSucceeded == g \in {"ok1", "ok2", "ok3", "ok4", "ok5"}
LogoutSticks ==
  [][loggedOut /\ cancelled /\ PollSucceeded => (loggedIn' => loggedIn)]_vars
=============================================================================
