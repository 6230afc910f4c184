--------------------------- MODULE CircuitBreaker ---------------------------
(***************************************************************************)
(* The circuit breaker of pkg/reliability/circuit_breaker.go, shared by    *)
(* goroutines that call Execute.  One action per stretch of code between   *)
(* two accesses to shared state: what the mutex protects is one step, and  *)
(* so is each operation on the atomic counter, which it does not protect.  *)
(***************************************************************************)
EXTENDS Integers, FiniteSets

CONSTANTS
  Procs,               \* the goroutines
  maxFailures, timeout,
  maxHalfOpenRequests, \* 1 in NewCircuitBreaker
  MaxNow               \* bound: the clock stops here

ASSUME BreakerAssumption ==
  /\ maxFailures \in Nat \ {0} /\ timeout \in Nat \ {0}
  /\ maxHalfOpenRequests \in Nat \ {0}
\* A process has finitely many goroutines.
ASSUME ProcsAssumption == IsFiniteSet(Procs)

VARIABLES
  now,              \* the clock
  state, failures, lastFailureTime,
  halfOpenRequests, \* the atomic counter
  pc,               \* where each goroutine is in Execute
  seenFailure,      \* the lastFailureTime it read without the write lock
  shouldDecrement   \* it owes the counter a decrement

breaker == <<state, failures, lastFailureTime>>
local   == <<pc, seenFailure, shouldDecrement>>
vars == <<now, breaker, halfOpenRequests, local>>

Init ==
  /\ now = 1
  /\ state = "closed" /\ failures = 0 /\ lastFailureTime = 0
  /\ halfOpenRequests = 0
  /\ pc = [p \in Procs |-> "idle"]
  /\ seenFailure = [p \in Procs |-> 0]
  /\ shouldDecrement = [p \in Procs |-> FALSE]

AdvanceClock ==
  /\ now < MaxNow
  /\ now' = now + 1
  /\ UNCHANGED <<breaker, halfOpenRequests, local>>

Expired(since) == now - since > timeout

Goto(p, place) == pc' = [pc EXCEPT ![p] = place]

-----------------------------------------------------------------------------
(* checkStateAndIncrement.                                                 *)

\* The quick check under the read lock.
QuickCheck(p) ==
  /\ pc[p] = "idle"
  /\ seenFailure' = [seenFailure EXCEPT ![p] = lastFailureTime]
  /\ Goto(p, CASE state = "closed" -> "fn"
               [] state = "open" -> "open"
               [] state = "half_open" -> "increment")
  /\ UNCHANGED <<now, breaker, halfOpenRequests, shouldDecrement>>

\* Open for too short a time: ErrCircuitBreakerOpen.
RejectOpen(p) ==
  /\ pc[p] = "open" /\ ~Expired(seenFailure[p])
  /\ Goto(p, "idle")
  /\ UNCHANGED <<now, breaker, halfOpenRequests, seenFailure, shouldDecrement>>

\* The state read again under the write lock decides.
AsItIsNow(p) == Goto(p, IF state = "open" THEN "idle" ELSE "increment")

\* Mutant: no second look at the time under the write lock.
StillOpen == state = "open"

DoubleCheck == state = "open" /\ Expired(lastFailureTime)

ToHalfOpen(p) ==
  /\ pc[p] = "open" /\ Expired(seenFailure[p])
  /\ IF DoubleCheck
     THEN /\ state' = "half_open" /\ halfOpenRequests' = 0
          /\ Goto(p, "relock")
     ELSE /\ AsItIsNow(p)
          /\ UNCHANGED <<state, halfOpenRequests>>
  /\ UNCHANGED <<now, failures, lastFailureTime, seenFailure, shouldDecrement>>

\* The lock was released for the callback and is taken again.
Relock(p) ==
  /\ pc[p] = "relock"
  /\ AsItIsNow(p)
  /\ UNCHANGED <<now, breaker, halfOpenRequests, seenFailure, shouldDecrement>>

Increment(p) ==
  /\ pc[p] = "increment"
  /\ halfOpenRequests' = halfOpenRequests + 1
  /\ IF halfOpenRequests' > maxHalfOpenRequests
     THEN Goto(p, "giveback") /\ UNCHANGED shouldDecrement
     ELSE /\ Goto(p, "fn")
          /\ shouldDecrement' = [shouldDecrement EXCEPT ![p] = TRUE]
  /\ UNCHANGED <<now, breaker, seenFailure>>

\* Mutant: a rejected call keeps its place.
GiveNothingBack(p) ==
  /\ pc[p] = "giveback"
  /\ Goto(p, "idle")
  /\ UNCHANGED <<now, breaker, halfOpenRequests, seenFailure, shouldDecrement>>

\* Over the limit: ErrTooManyRequests.
GiveBack(p) ==
  /\ pc[p] = "giveback"
  /\ halfOpenRequests' = halfOpenRequests - 1
  /\ Goto(p, "idle")
  /\ UNCHANGED <<now, breaker, seenFailure, shouldDecrement>>

-----------------------------------------------------------------------------
(* Execute, once admitted.                                                 *)

\* recordResult: leaving half-open resets the counter.
LeavesHalfOpen ==
  halfOpenRequests' = IF state = "half_open" /\ state' # "half_open"
                      THEN 0 ELSE halfOpenRequests

\* Mutant: a success takes back one failure.
OneLess == failures - 1

AfterSuccess == 0

Succeed(p) ==
  /\ pc[p] = "fn"
  /\ failures' = AfterSuccess /\ state' = "closed"
  /\ LeavesHalfOpen
  /\ Goto(p, "defer")
  /\ UNCHANGED <<now, lastFailureTime, seenFailure, shouldDecrement>>

\* Mutant: the breaker opens one failure late.
TooManyLate == failures' > maxFailures

TooMany == failures' >= maxFailures

FailCall(p) ==
  /\ pc[p] = "fn"
  /\ failures' = failures + 1 /\ lastFailureTime' = now
  /\ state' = IF TooMany THEN "open" ELSE state
  /\ LeavesHalfOpen
  /\ Goto(p, "defer")
  /\ UNCHANGED <<now, seenFailure, shouldDecrement>>

\* The function panics: no result is recorded, the deferred call still runs.
PanicCall(p) ==
  /\ pc[p] = "fn"
  /\ Goto(p, "defer")
  /\ UNCHANGED <<now, breaker, halfOpenRequests, seenFailure, shouldDecrement>>

\* The deferred decrement, whatever the state is by now.
Return(p) ==
  /\ pc[p] = "defer"
  /\ halfOpenRequests' = IF shouldDecrement[p] THEN halfOpenRequests - 1
                                               ELSE halfOpenRequests
  /\ shouldDecrement' = [shouldDecrement EXCEPT ![p] = FALSE]
  /\ Goto(p, "idle")
  /\ UNCHANGED <<now, breaker, seenFailure>>

Reset ==
  /\ failures' = 0 /\ state' = "closed"
  /\ halfOpenRequests' = 0
  /\ UNCHANGED <<now, lastFailureTime, local>>

-----------------------------------------------------------------------------
Execute(p) == \/ QuickCheck(p) \/ RejectOpen(p) \/ ToHalfOpen(p) \/ Relock(p)
              \/ Increment(p) \/ GiveBack(p)
              \/ Succeed(p) \/ FailCall(p) \/ PanicCall(p) \/ Return(p)

Next == AdvanceClock \/ Reset \/ \E p \in Procs : Execute(p)

Spec == Init /\ [][Next]_vars

-----------------------------------------------------------------------------
(* What the breaker promises.                                              *)

Places == {"idle", "open", "relock", "increment", "giveback", "fn", "defer"}

\* The types.
TypeOK ==
  /\ now \in Nat
  /\ state \in {"closed", "half_open", "open"}
  /\ failures \in Nat /\ lastFailureTime \in Nat
  /\ halfOpenRequests \in Int
  /\ pc \in [Procs -> Places]
  /\ seenFailure \in [Procs -> Nat]
  /\ shouldDecrement \in [Procs -> BOOLEAN]

\* Whatever results come in late, from calls admitted in an earlier state, the
\* breaker lets calls through exactly while fewer than maxFailures have failed
\* in a row.
ClosedBelowLimit == state = "closed" <=> failures < maxFailures

Holders == {p \in Procs : shouldDecrement[p] \/ pc[p] = "giveback"}

\* The counter never exceeds the goroutines that will decrement it: once they
\* returned a half-open breaker admits a test request again, it is never
\* locked out.  (It can fall below zero: a reset forgets a decrement that is
\* still to come, and a half-open breaker then admits one request more.)
NeverLockedOut == halfOpenRequests <= Cardinality(Holders)

\* A breaker goes half-open only when the timeout has passed since the last
\* failure of all, whichever failure the goroutine saw before it had the lock.
RestsAfterFailure ==
  [][state # "half_open" /\ state' = "half_open"
       => state = "open" /\ now - lastFailureTime > timeout]_vars
=============================================================================
