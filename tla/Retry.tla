-------------------------------- MODULE Retry --------------------------------
(***************************************************************************)
(* RetryWithBackoff of pkg/reliability/retry.go around Execute of the      *)
(* circuit breaker, as its special treatment of the breaker's two errors   *)
(* means it to be used, each call of the function under WithTimeout of     *)
(* pkg/reliability/timeout.go.  The goroutines of CircuitBreaker each run  *)
(* one retried operation after the other.                                  *)
(*                                                                         *)
(* Errors are known by their texts: an error is the set of the kinds of    *)
(* patterns its text contains.                                             *)
(***************************************************************************)
EXTENDS CircuitBreaker

CONSTANTS
  MaxAttempts, InitialDelay, MaxDelay, \* RetryConfig; BackoffFactor is 2
  BreakerWait,  \* circuitBreakerWait: two and a half minutes
  Texts         \* the error texts the operation fails with

ASSUME ConfigAssumption ==
  /\ MaxAttempts \in Int /\ InitialDelay \in Int /\ MaxDelay \in Int
  /\ Texts \subseteq SUBSET {"auth", "network", "timeout", "permanent"}
\* The breaker's timeout is the two minutes the code expects.
ASSUME WaitAssumption == BreakerWait \in Nat /\ BreakerWait > timeout

VARIABLES
  phase,   \* where each goroutine is in RetryWithBackoff
  attempt,
  error,   \* the outcome of the last attempt that was decided
  ctxDone, \* its context is cancelled
  since, until  \* the wait: when it began and when the timer fires

retry == <<phase, attempt, error, ctxDone, since, until>>
retryVars == <<vars, retry>>

NoError == [from |-> "none", text |-> {}]
Panic   == [from |-> "panic", text |-> {}]
ErrCircuitBreakerOpen == [from |-> "open", text |-> {}]
ErrTooManyRequests    == [from |-> "many", text |-> {}]
OfOperation(text)     == [from |-> "operation", text |-> text]

RetryInit ==
  /\ Init
  /\ phase = [p \in Procs |-> "out"]
  /\ attempt = [p \in Procs |-> 0]
  /\ error = [p \in Procs |-> NoError]
  /\ ctxDone = [p \in Procs |-> FALSE]
  /\ since = [p \in Procs |-> 0] /\ until = [p \in Procs |-> 0]

-----------------------------------------------------------------------------
(* The configuration as the function corrects it.                          *)

Attempts == IF MaxAttempts <= 0 THEN 1 ELSE MaxAttempts

\* 100 ms and 30 s where nothing is configured; a tick is 100 ms.
Initial == IF InitialDelay <= 0 THEN 1 ELSE InitialDelay
Longest == LET longest == IF MaxDelay <= 0 THEN 300 ELSE MaxDelay
           IN  IF longest < Initial THEN Initial ELSE longest

Capped(delay) == IF delay > Longest THEN Longest ELSE delay

(* calculateDelay: the exponential, then up to a quarter of jitter; a tick  *)
(* that has begun counts as one.                                           *)
Exponential(n) == Capped(Initial * 2^n)
Jittered(n)    == Exponential(n) + (Exponential(n) + 3) \div 4

\* Mutant: the jitter is added after the cap.
DelaysPastCap(n) == Exponential(n) .. Jittered(n)

Delays(n) == Exponential(n) .. Capped(Jittered(n))

\* CategorizeError: the first list with a match decides.
CategorizeError(text) ==
  CASE "auth" \in text -> "authentication"
    [] text \cap {"auth", "network"} = {"network"} -> "network"
    [] text \cap {"auth", "network", "timeout"} = {"timeout"} -> "timeout"
    [] text = {"permanent"} -> "permanent"
    [] text = {} -> "temporary"

ByBreaker(e) == e \in {ErrCircuitBreakerOpen, ErrTooManyRequests}

ShouldRetry(e) ==
  ByBreaker(e) \/ CategorizeError(e.text) \in {"temporary", "network", "timeout"}

-----------------------------------------------------------------------------
(* One attempt: Execute, whose outcome is kept in error.                   *)

Move(p, place) == phase' = [phase EXCEPT ![p] = place]
Outcome(p, e)  == error' = [error EXCEPT ![p] = e]
WaitIsOver(p)  == /\ since' = [since EXCEPT ![p] = 0]
                  /\ until' = [until EXCEPT ![p] = 0]
Keeps == UNCHANGED <<attempt, ctxDone, since, until>>

\* The function returns; its variables are gone.
Leave(p) ==
  /\ Move(p, "out")
  /\ attempt' = [attempt EXCEPT ![p] = 0]
  /\ Outcome(p, NoError)
  /\ ctxDone' = [ctxDone EXCEPT ![p] = FALSE]
  /\ WaitIsOver(p)

\* RetryWithBackoff is called.
Begin(p) ==
  /\ phase[p] = "out"
  /\ Move(p, "ready")
  /\ UNCHANGED <<vars, attempt, error, ctxDone, since, until>>

Attempt(p) ==
  /\ phase[p] = "ready"
  /\ QuickCheck(p)
  /\ Move(p, "calling")
  /\ UNCHANGED error
  /\ Keeps

\* The breaker refuses the call, at once or after a second look.
Refused(p) ==
  /\ phase[p] = "calling"
  /\ \/ /\ RejectOpen(p) \/ ToHalfOpen(p) \/ Relock(p)
        /\ pc'[p] = "idle"
        /\ Outcome(p, ErrCircuitBreakerOpen)
     \/ GiveBack(p) /\ Outcome(p, ErrTooManyRequests)
  /\ Move(p, "failed")
  /\ WaitIsOver(p)
  /\ UNCHANGED <<attempt, ctxDone>>

Proceeds(p) ==
  /\ phase[p] = "calling"
  /\ ToHalfOpen(p) \/ Relock(p) \/ Increment(p)
  /\ pc'[p] # "idle"
  /\ UNCHANGED retry

\* The operation answers.  (runWithCtx turns its panic into an error.)
Answers(p) ==
  /\ phase[p] = "calling"
  /\ \/ Succeed(p) /\ Outcome(p, NoError)
     \/ FailCall(p) /\ \E text \in Texts : Outcome(p, OfOperation(text))
  /\ UNCHANGED phase
  /\ Keeps

\* It does not answer in time, or its answer and the deadline are both there
\* and select takes the deadline: the caller goes on without it, and what the
\* goroutine still sends stays in the channel's buffer.
TimesOut(p) ==
  /\ phase[p] = "calling"
  /\ FailCall(p)
  /\ Outcome(p, OfOperation({"timeout"}))
  /\ UNCHANGED phase
  /\ Keeps

\* A panic outside WithTimeout unwinds RetryWithBackoff too.
Panics(p) ==
  /\ phase[p] = "calling"
  /\ PanicCall(p)
  /\ Outcome(p, Panic)
  /\ UNCHANGED phase
  /\ Keeps

Executed(p) ==
  /\ phase[p] = "calling"
  /\ Return(p)
  /\ IF error[p] \in {NoError, Panic}
     THEN Leave(p)
     ELSE Move(p, "failed") /\ WaitIsOver(p) /\ UNCHANGED <<attempt, error, ctxDone>>

-----------------------------------------------------------------------------
(* After a failed attempt.                                                 *)

LastAttempt(p) == attempt[p] = Attempts - 1

\* The error is returned: no attempts left, or no use in another one, or the
\* context is cancelled.
GiveUp(p) ==
  /\ phase[p] = "failed"
  /\ LastAttempt(p) \/ ~ShouldRetry(error[p]) \/ ctxDone[p]
  /\ Leave(p)
  /\ UNCHANGED vars

\* Mutant: a refusal by the breaker waits like any other error.
SameWait(p, delay) == delay

\* A refusal by the breaker waits until the breaker should have rested.
Lengthened(p, delay) ==
  IF ByBreaker(error[p]) /\ delay < BreakerWait THEN BreakerWait ELSE delay

StartWait(p) ==
  /\ phase[p] = "failed"
  /\ ~LastAttempt(p) /\ ShouldRetry(error[p]) /\ ~ctxDone[p]
  /\ since' = [since EXCEPT ![p] = now]
  /\ \E delay \in Delays(attempt[p]) :
       until' = [until EXCEPT ![p] = now + Lengthened(p, delay)]
  /\ Move(p, "waiting")
  /\ UNCHANGED <<vars, attempt, error, ctxDone>>

TimerFires(p) ==
  /\ phase[p] = "waiting" /\ now >= until[p]
  /\ Move(p, "ready")
  /\ attempt' = [attempt EXCEPT ![p] = @ + 1]
  /\ UNCHANGED <<vars, error, ctxDone, since, until>>

WaitCancelled(p) ==
  /\ phase[p] = "waiting" /\ ctxDone[p]
  /\ Leave(p)
  /\ UNCHANGED vars

CancelContext(p) ==
  /\ phase[p] # "out" /\ ~ctxDone[p]
  /\ ctxDone' = [ctxDone EXCEPT ![p] = TRUE]
  /\ UNCHANGED <<vars, phase, attempt, error, since, until>>

-----------------------------------------------------------------------------
RetryWithBackoff(p) ==
  \/ Begin(p) \/ Attempt(p) \/ Refused(p) \/ Proceeds(p) \/ Answers(p)
  \/ TimesOut(p) \/ Panics(p) \/ Executed(p)
  \/ GiveUp(p) \/ StartWait(p) \/ TimerFires(p) \/ WaitCancelled(p)
  \/ CancelContext(p)

RetryNext ==
  \/ (AdvanceClock \/ Reset) /\ UNCHANGED retry
  \/ \E p \in Procs : RetryWithBackoff(p)

RetrySpec == RetryInit /\ [][RetryNext]_retryVars

-----------------------------------------------------------------------------
(* What a caller may rely on.                                              *)

Phases == {"out", "ready", "calling", "failed", "waiting"}
Errors == {NoError, Panic, ErrCircuitBreakerOpen, ErrTooManyRequests}
            \cup {OfOperation(text) : text \in Texts \cup {{"timeout"}}}

\* The types; an operation is never tried more often than configured.
RetryTypeOK ==
  /\ TypeOK
  /\ phase \in [Procs -> Phases]
  /\ attempt \in [Procs -> 0..Attempts - 1]
  /\ error \in [Procs -> Errors]
  /\ ctxDone \in [Procs -> BOOLEAN]
  /\ since \in [Procs -> Nat] /\ until \in [Procs -> Int]

\* Whatever the configuration, jitter included, no wait is longer than its
\* longest delay, or than the breaker's rest where the breaker refused.
WaitBounded ==
  \A p \in Procs : phase[p] = "waiting" =>
    until[p] - since[p] <= IF ByBreaker(error[p]) /\ Longest < BreakerWait
                           THEN BreakerWait ELSE Longest

\* An operation that waited because the breaker had refused it finds an
\* open breaker again only because of a failure recorded after that wait
\* began, in whatever order other callers failed, tested and reset it: its
\* attempts are never used up by one opening of the breaker.
RefusedAnew ==
  [][\A p \in Procs :
       /\ phase[p] = "calling" /\ phase'[p] = "failed"
       /\ ByBreaker(error[p]) /\ error'[p] = ErrCircuitBreakerOpen
       => lastFailureTime > since[p]]_retryVars
=============================================================================
