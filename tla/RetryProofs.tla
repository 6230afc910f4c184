----------------------------- MODULE RetryProofs -----------------------------
(* Theorems about Retry, for any number of goroutines and any delays.        *)
EXTENDS Retry, CircuitBreakerProofs

\* Every step of a retried operation is a step of the breaker, or none.
LEMMA CallStep == [RetryNext]_retryVars => [Next]_vars
<1> SUFFICES ASSUME [RetryNext]_retryVars PROVE [Next]_vars
  OBVIOUS
<1>1. CASE (AdvanceClock \/ Reset) /\ UNCHANGED retry
  BY <1>1 DEF Next
<1>2. ASSUME NEW p \in Procs, RetryWithBackoff(p) PROVE [Next]_vars
  <2>1. CASE Begin(p) \/ GiveUp(p) \/ StartWait(p) \/ TimerFires(p)
             \/ WaitCancelled(p) \/ CancelContext(p)
    BY <2>1 DEF Begin, GiveUp, StartWait, TimerFires, WaitCancelled,
                CancelContext
  <2>2. CASE Attempt(p) \/ Refused(p) \/ Proceeds(p) \/ Answers(p)
             \/ TimesOut(p) \/ Panics(p) \/ Executed(p)
    <3>1. Execute(p)
      BY <2>2 DEF Execute, Attempt, Refused, Proceeds, Answers, TimesOut,
                  Panics, Executed
    <3>2. QED
      BY <3>1 DEF Next
  <2>3. QED
    BY <1>2, <2>1, <2>2 DEF RetryWithBackoff
<1>3. CASE UNCHANGED retryVars
  BY <1>3 DEF retryVars
<1>4. QED
  BY <1>1, <1>2, <1>3 DEF RetryNext

\* A retried operation uses the breaker only through Execute: what is proved
\* of the breaker holds under retries too.
THEOREM RetriesAreCalls == RetrySpec => Spec
<1>1. RetryInit => Init
  BY DEF RetryInit
<1>2. QED
  BY <1>1, CallStep, PTL DEF RetrySpec, Spec

-----------------------------------------------------------------------------
(* Types.                                                                  *)

\* The configuration as corrected.
LEMMA Corrected ==
  /\ Attempts \in Nat \ {0}
  /\ Initial \in Nat \ {0} /\ Longest \in Nat \ {0}
  BY ConfigAssumption, SMT DEF Attempts, Initial, Longest

\* Where an operation is, and that it waits only with attempts left.
PhaseTypes ==
  /\ phase \in [Procs -> Phases]
  /\ attempt \in [Procs -> 0..Attempts - 1]
  /\ ctxDone \in [Procs -> BOOLEAN]
  /\ \A p \in Procs : phase[p] = "waiting" => attempt[p] < Attempts - 1

LEMMA PhaseStep == PhaseTypes /\ [RetryNext]_retryVars => PhaseTypes'
<1> SUFFICES ASSUME PhaseTypes, [RetryNext]_retryVars PROVE PhaseTypes'
  OBVIOUS
<1> USE Corrected DEF PhaseTypes, Phases
<1>1. CASE UNCHANGED retry
  BY <1>1 DEF retry
<1>2. ASSUME NEW p \in Procs, RetryWithBackoff(p) PROVE PhaseTypes'
  <2> USE DEF Move
  <2>1. CASE Begin(p) \/ Attempt(p) \/ Refused(p)
    BY <2>1 DEF Begin, Attempt, Refused, Keeps
  <2>2. CASE Proceeds(p) \/ Answers(p) \/ TimesOut(p) \/ Panics(p)
    BY <2>2 DEF Proceeds, Answers, TimesOut, Panics, Keeps, retry
  <2>3. ASSUME Leave(p) PROVE PhaseTypes'
    BY <2>3 DEF Leave
  <2>4. CASE Executed(p)
    <3>1. \/ Leave(p)
          \/ Move(p, "failed") /\ UNCHANGED <<attempt, ctxDone>>
      BY <2>4 DEF Executed
    <3>2. QED
      BY <2>3, <3>1
  <2>5. CASE GiveUp(p) \/ WaitCancelled(p)
    BY <2>3, <2>5 DEF GiveUp, WaitCancelled
  <2>6. CASE StartWait(p)
    BY <2>6 DEF StartWait, LastAttempt
  <2>7. CASE TimerFires(p)
    BY <2>7 DEF TimerFires
  <2>8. CASE CancelContext(p)
    BY <2>8 DEF CancelContext
  <2>9. QED
    BY <1>2, <2>1, <2>2, <2>4, <2>5, <2>6, <2>7, <2>8 DEF RetryWithBackoff
<1>3. QED
  BY <1>1, <1>2 DEF RetryNext, retryVars

\* What the last attempt ended with.
ErrorTypes == error \in [Procs -> Errors]

LEMMA ErrorStep == ErrorTypes /\ [RetryNext]_retryVars => ErrorTypes'
<1> SUFFICES ASSUME ErrorTypes, [RetryNext]_retryVars PROVE ErrorTypes'
  OBVIOUS
<1> USE DEF ErrorTypes
<1>1. CASE UNCHANGED retry
  BY <1>1 DEF retry
<1>2. ASSUME NEW p \in Procs, RetryWithBackoff(p) PROVE ErrorTypes'
  <2>e. ASSUME NEW e \in Errors, Outcome(p, e) PROVE ErrorTypes'
    BY <2>e DEF Outcome
  <2>k. /\ NoError \in Errors /\ Panic \in Errors
        /\ ErrCircuitBreakerOpen \in Errors /\ ErrTooManyRequests \in Errors
        /\ \A text \in Texts \cup {{"timeout"}} : OfOperation(text) \in Errors
    BY DEF Errors
  <2> HIDE DEF ErrorTypes
  <2>u. ASSUME UNCHANGED error PROVE ErrorTypes'
    BY <2>u DEF ErrorTypes
  <2>1. CASE Begin(p) \/ Attempt(p) \/ Proceeds(p) \/ StartWait(p)
             \/ TimerFires(p) \/ CancelContext(p)
    BY <2>1, <2>u DEF Begin, Attempt, Proceeds, StartWait, TimerFires,
                      CancelContext, retry
  <2>2. CASE Refused(p)
    BY <2>2, <2>e, <2>k DEF Refused
  <2>3. CASE Answers(p)
    <3>1. CASE Outcome(p, NoError)
      BY <2>e, <2>k, <3>1
    <3>2. ASSUME NEW text \in Texts, Outcome(p, OfOperation(text))
          PROVE  ErrorTypes'
      <4>1. OfOperation(text) \in Errors
        BY <2>k
      <4>2. QED
        BY <2>e, <3>2, <4>1
    <3>3. QED
      BY <2>3, <3>1, <3>2 DEF Answers
  <2>4. CASE TimesOut(p)
    <3>1. OfOperation({"timeout"}) \in Errors
      BY <2>k
    <3>2. QED
      BY <2>4, <2>e, <3>1 DEF TimesOut
  <2>5. CASE Panics(p)
    BY <2>5, <2>e, <2>k DEF Panics
  <2>6. CASE Leave(p)
    BY <2>6, <2>e, <2>k DEF Leave
  <2>7. CASE Executed(p)
    BY <2>6, <2>7, <2>u DEF Executed
  <2>8. CASE GiveUp(p) \/ WaitCancelled(p)
    BY <2>6, <2>8 DEF GiveUp, WaitCancelled
  <2>9. QED
    BY <1>2, <2>1, <2>2, <2>3, <2>4, <2>5, <2>7, <2>8 DEF RetryWithBackoff
<1>3. QED
  BY <1>1, <1>2 DEF RetryNext, retryVars

\* The wait an operation is in, or was in before its present attempt.
WaitTypes == since \in [Procs -> Nat] /\ until \in [Procs -> Int]

\* No delay is longer than the longest one.
LEMMA DelayInt ==
  \A n \in Nat : \A delay \in Delays(n) : delay \in Int /\ delay <= Longest
<1> SUFFICES ASSUME NEW n \in Nat, NEW delay \in Delays(n)
             PROVE  delay \in Int /\ delay <= Longest
  OBVIOUS
<1>1. Initial * 2^n \in Int
  BY Corrected, SMT
<1>2. \A d \in Int : Capped(d) \in Int /\ Capped(d) <= Longest
  BY Corrected, SMT DEF Capped
<1>3. Exponential(n) \in Int
  BY <1>1, <1>2 DEF Exponential
<1>4. Jittered(n) \in Int
  BY <1>3, SMT DEF Jittered
<1>5. Capped(Jittered(n)) \in Int /\ Capped(Jittered(n)) <= Longest
  BY <1>2, <1>4
<1>6. QED
  BY <1>3, <1>5, Corrected, SMT DEF Delays

LEMMA LengthenedInt ==
  \A p : \A delay \in Int : delay <= Longest =>
    /\ Lengthened(p, delay) \in Int
    /\ ByBreaker(error[p]) => Lengthened(p, delay) >= BreakerWait
    /\ Lengthened(p, delay) <= IF ByBreaker(error[p]) /\ Longest < BreakerWait
                               THEN BreakerWait ELSE Longest
  BY Corrected, WaitAssumption, SMT DEF Lengthened

\* A timer that StartWait sets.
LEMMA NewTimer ==
  ASSUME NEW p \in Procs, TypeOK, PhaseTypes, WaitTypes, StartWait(p)
  PROVE  /\ WaitTypes'
         /\ since'[p] = now
         /\ until'[p] - since'[p] <=
              IF ByBreaker(error[p]) /\ Longest < BreakerWait
              THEN BreakerWait ELSE Longest
         /\ ByBreaker(error[p]) => until'[p] - since'[p] >= BreakerWait
<1>1. PICK delay \in Delays(attempt[p]) :
        until' = [until EXCEPT ![p] = now + Lengthened(p, delay)]
  BY DEF StartWait
<1>2. attempt[p] \in Nat
  BY Corrected DEF PhaseTypes
<1>3. delay \in Int /\ delay <= Longest
  BY <1>1, <1>2, DelayInt
<1>4. now \in Nat
  BY DEF TypeOK
<1> DEFINE d == Lengthened(p, delay)
           most == IF ByBreaker(error[p]) /\ Longest < BreakerWait
                   THEN BreakerWait ELSE Longest
<1>5. /\ d \in Int /\ d <= most
      /\ ByBreaker(error[p]) => d >= BreakerWait
  BY <1>3, LengthenedInt
<1>6. most \in Int
  BY Corrected, WaitAssumption
<1>7. /\ since' = [since EXCEPT ![p] = now]
      /\ until' = [until EXCEPT ![p] = now + d]
  BY <1>1 DEF StartWait
<1> HIDE DEF d, most
<1>8. since'[p] = now /\ until'[p] = now + d
  BY <1>7 DEF WaitTypes
<1>9. WaitTypes'
  BY <1>4, <1>5, <1>7 DEF WaitTypes
<1>10. /\ until'[p] - since'[p] <= most
       /\ ByBreaker(error[p]) => until'[p] - since'[p] >= BreakerWait
  BY <1>4, <1>5, <1>6, <1>8, WaitAssumption
<1>11. QED
  BY <1>8, <1>9, <1>10 DEF most

LEMMA WaitStep ==
  TypeOK /\ PhaseTypes /\ WaitTypes /\ [RetryNext]_retryVars => WaitTypes'
<1> SUFFICES ASSUME TypeOK, PhaseTypes, WaitTypes, [RetryNext]_retryVars
             PROVE  WaitTypes'
  OBVIOUS
<1>u. ASSUME UNCHANGED <<since, until>> PROVE WaitTypes'
  BY <1>u DEF WaitTypes
<1>1. CASE UNCHANGED retry
  BY <1>1, <1>u DEF retry
<1>2. ASSUME NEW p \in Procs, RetryWithBackoff(p) PROVE WaitTypes'
  <2>1. CASE Begin(p) \/ Attempt(p) \/ Proceeds(p) \/ Answers(p)
             \/ TimesOut(p) \/ Panics(p) \/ TimerFires(p) \/ CancelContext(p)
    BY <2>1, <1>u DEF Begin, Attempt, Proceeds, Answers, TimesOut, Panics,
                      TimerFires, CancelContext, Keeps, retry
  <2>2. ASSUME WaitIsOver(p) PROVE WaitTypes'
    BY <2>2 DEF WaitIsOver, WaitTypes
  <2>3. CASE Refused(p) \/ Executed(p) \/ GiveUp(p) \/ WaitCancelled(p)
    BY <2>2, <2>3 DEF Refused, Executed, GiveUp, WaitCancelled, Leave
  <2>4. CASE StartWait(p)
    BY <2>4, NewTimer
  <2>5. QED
    BY <1>2, <2>1, <2>3, <2>4 DEF RetryWithBackoff
<1>3. QED
  BY <1>1, <1>2 DEF RetryNext, retryVars

\* The breaker's variables and those of every operation keep their types.
THEOREM RetryTypes == RetrySpec => []RetryTypeOK
<1>1. RetryInit => PhaseTypes /\ ErrorTypes /\ WaitTypes
  BY Corrected DEF RetryInit, PhaseTypes, ErrorTypes, WaitTypes, Phases, Errors
<1>2. TypeOK /\ PhaseTypes /\ ErrorTypes /\ WaitTypes => RetryTypeOK
  BY DEF RetryTypeOK, PhaseTypes, ErrorTypes, WaitTypes
<1>3. RetrySpec => []TypeOK
  BY RetriesAreCalls, BreakerTypes, PTL
<1>4. RetrySpec => []PhaseTypes
  BY <1>1, PhaseStep, PTL DEF RetrySpec
<1>5. RetrySpec => []ErrorTypes
  BY <1>1, ErrorStep, PTL DEF RetrySpec
<1>6. RetrySpec => []WaitTypes
  BY <1>1, <1>3, <1>4, WaitStep, PTL DEF RetrySpec
<1>7. QED
  BY <1>2, <1>3, <1>4, <1>5, <1>6, PTL

-----------------------------------------------------------------------------
(* The length of a wait.                                                   *)

\* For the operations another one's step leaves alone.
Others(p) == \A q \in Procs : q # p =>
  /\ phase'[q] = phase[q] /\ error'[q] = error[q]
  /\ since'[q] = since[q] /\ until'[q] = until[q]

LEMMA OthersKept ==
  ASSUME PhaseTypes, ErrorTypes, WaitTypes, NEW p \in Procs, RetryWithBackoff(p)
  PROVE  Others(p)
<1> USE DEF PhaseTypes, ErrorTypes, WaitTypes, Others, Move, Outcome,
            WaitIsOver, Keeps
<1>1. CASE Begin(p) \/ Attempt(p) \/ Refused(p) \/ Proceeds(p) \/ Answers(p)
  BY <1>1 DEF Begin, Attempt, Refused, Proceeds, Answers, retry
<1>2. CASE TimesOut(p) \/ Panics(p) \/ TimerFires(p) \/ CancelContext(p)
  BY <1>2 DEF TimesOut, Panics, TimerFires, CancelContext
<1>3. CASE Leave(p)
  BY <1>3 DEF Leave
<1>4. CASE Executed(p)
  BY <1>3, <1>4 DEF Executed
<1>5. CASE GiveUp(p) \/ WaitCancelled(p)
  BY <1>3, <1>5 DEF GiveUp, WaitCancelled
<1>6. CASE StartWait(p)
  <2>1. PICK d : until' = [until EXCEPT ![p] = d]
    BY <1>6 DEF StartWait
  <2>2. QED
    BY <1>6, <2>1 DEF StartWait
<1>7. QED
  BY <1>1, <1>2, <1>4, <1>5, <1>6 DEF RetryWithBackoff

LEMMA BoundedStep ==
  /\ TypeOK /\ PhaseTypes /\ ErrorTypes /\ WaitTypes
  /\ WaitBounded /\ [RetryNext]_retryVars
  => WaitBounded'
<1> SUFFICES ASSUME TypeOK, PhaseTypes, ErrorTypes, WaitTypes, WaitBounded,
                    [RetryNext]_retryVars
             PROVE  WaitBounded'
  OBVIOUS
<1>1. CASE UNCHANGED retry
  BY <1>1 DEF retry, WaitBounded, ByBreaker
<1>2. ASSUME NEW p \in Procs, RetryWithBackoff(p) PROVE WaitBounded'
  <2>1. Others(p)
    BY <1>2, OthersKept
  <2>2. ASSUME phase'[p] # "waiting" PROVE WaitBounded'
    BY <2>1, <2>2 DEF Others, WaitBounded, ByBreaker
  <2>3. CASE StartWait(p)
    <3>1. /\ until'[p] - since'[p] <=
               IF ByBreaker(error[p]) /\ Longest < BreakerWait
               THEN BreakerWait ELSE Longest
          /\ error'[p] = error[p]
      BY <2>3, NewTimer DEF StartWait
    <3>2. QED
      BY <2>1, <3>1 DEF Others, WaitBounded, ByBreaker
  <2>4. CASE CancelContext(p)
    BY <2>4 DEF CancelContext, WaitBounded, ByBreaker
  <2>5. CASE Proceeds(p)
    BY <2>5 DEF Proceeds, retry, WaitBounded, ByBreaker
  <2>6. CASE Begin(p) \/ Attempt(p) \/ Refused(p) \/ Answers(p)
             \/ TimesOut(p) \/ Panics(p) \/ Executed(p) \/ GiveUp(p)
             \/ TimerFires(p) \/ WaitCancelled(p)
    <3>1. phase'[p] # "waiting"
      BY <2>6 DEF Begin, Attempt, Refused, Answers, TimesOut, Panics, Executed,
                  GiveUp, TimerFires, WaitCancelled, Leave, Move, PhaseTypes
    <3>2. QED
      BY <2>2, <3>1
  <2>7. QED
    BY <1>2, <2>3, <2>4, <2>5, <2>6 DEF RetryWithBackoff
<1>3. QED
  BY <1>1, <1>2 DEF RetryNext, retryVars

\* Whatever is configured, a wait ends within the longest delay, or within
\* the breaker's rest after a refusal.
THEOREM WaitsAreBounded == RetrySpec => []WaitBounded
<1>1. RetryInit => PhaseTypes /\ ErrorTypes /\ WaitTypes /\ WaitBounded
  BY Corrected DEF RetryInit, PhaseTypes, ErrorTypes, WaitTypes, Phases, Errors,
                   WaitBounded
<1>2. RetrySpec => []TypeOK
  BY RetriesAreCalls, BreakerTypes, PTL
<1>3. QED
  BY <1>1, <1>2, PhaseStep, ErrorStep, WaitStep, BoundedStep, PTL DEF RetrySpec

-----------------------------------------------------------------------------
(* Refusals.                                                               *)

\* What a goroutine saw of the last failure is not newer than what is known.
SeenIsOld ==
  /\ lastFailureTime <= now
  /\ \A p \in Procs : seenFailure[p] <= lastFailureTime

LEMMA SeenStep == TypeOK /\ SeenIsOld /\ [Next]_vars => SeenIsOld'
<1> SUFFICES ASSUME TypeOK, SeenIsOld, [Next]_vars PROVE SeenIsOld'
  OBVIOUS
<1> USE DEF TypeOK, SeenIsOld
<1>1. CASE AdvanceClock \/ Reset \/ UNCHANGED vars
  BY <1>1 DEF AdvanceClock, Reset, vars, local, breaker
<1>2. ASSUME NEW p \in Procs, Execute(p) PROVE SeenIsOld'
  <2>1. CASE QuickCheck(p)
    BY <2>1 DEF QuickCheck, breaker
  <2>2. CASE FailCall(p)
    BY <2>2 DEF FailCall
  <2>3. CASE RejectOpen(p) \/ ToHalfOpen(p) \/ Relock(p) \/ Increment(p)
             \/ GiveBack(p) \/ Succeed(p) \/ PanicCall(p) \/ Return(p)
    BY <2>3 DEF RejectOpen, ToHalfOpen, Relock, Increment, GiveBack, Succeed,
                PanicCall, Return, breaker
  <2>4. QED
    BY <1>2, <2>1, <2>2, <2>3 DEF Execute
<1>3. QED
  BY <1>1, <1>2 DEF Next

\* An operation that was refused has waited for as long as a breaker rests,
\* and what opened the breaker behind its back is newer than its wait.
Rested(p) ==
  ByBreaker(error[p]) =>
    /\ phase[p] = "waiting" => until[p] - since[p] >= BreakerWait
    /\ phase[p] \in {"ready", "calling"} => now - since[p] >= BreakerWait
    /\ phase[p] = "calling" /\ pc[p] = "relock" /\ state = "open"
         => lastFailureTime > since[p]
    /\ phase[p] = "calling" => pc[p] # "defer"
AllRested == \A p \in Procs : Rested(p)

\* Outside the function there is no last error.
AllIdle == \A p \in Procs : phase[p] = "out" => error[p] = NoError

LEMMA IdleStep ==
  PhaseTypes /\ ErrorTypes /\ WaitTypes /\ AllIdle /\ [RetryNext]_retryVars
    => AllIdle'
<1> SUFFICES ASSUME PhaseTypes, ErrorTypes, WaitTypes, AllIdle,
                    [RetryNext]_retryVars
             PROVE  AllIdle'
  OBVIOUS
<1>1. CASE UNCHANGED retry
  BY <1>1 DEF retry, AllIdle
<1>2. ASSUME NEW p \in Procs, RetryWithBackoff(p) PROVE AllIdle'
  <2>1. Others(p)
    BY <1>2, OthersKept
  <2>2. phase'[p] = "out" => error'[p] = NoError
    <3>1. CASE Leave(p)
      BY <3>1 DEF Leave, Outcome, ErrorTypes
    <3>2. CASE ~Leave(p)
      BY <1>2, <3>2 DEF RetryWithBackoff, Begin, Attempt, Refused, Proceeds,
         Answers, TimesOut, Panics, Executed, GiveUp, StartWait, TimerFires,
         WaitCancelled, CancelContext, Move, PhaseTypes, AllIdle, retry
    <3>3. QED
      BY <3>1, <3>2
  <2>3. QED
    BY <2>1, <2>2 DEF Others, AllIdle
<1>3. QED
  BY <1>1, <1>2 DEF RetryNext, retryVars

\* Time passes and failures are recorded: what holds of an operation that
\* does not move goes on holding.
LEMMA RestedElsewhere ==
  ASSUME TypeOK, SeenIsOld, WaitTypes, NEW q \in Procs, Rested(q), [Next]_vars,
         pc'[q] = pc[q], phase'[q] = phase[q], error'[q] = error[q],
         since'[q] = since[q], until'[q] = until[q]
  PROVE  Rested(q)'
<1>1. now' \in Nat /\ now' >= now
  BY DEF Next, vars, TypeOK, AdvanceClock, Reset, Execute, QuickCheck,
         RejectOpen, ToHalfOpen, Relock, Increment, GiveBack, Succeed, FailCall,
         PanicCall, Return
<1>2. \/ state' = state /\ lastFailureTime' = lastFailureTime
      \/ state' # "open"
      \/ lastFailureTime' = now
  BY DEF Next, vars, breaker, AdvanceClock, Reset, Execute, QuickCheck,
         RejectOpen, ToHalfOpen, Relock, Increment, GiveBack, Succeed, FailCall,
         PanicCall, Return
<1>3. now \in Nat /\ since[q] \in Nat /\ BreakerWait > 0 /\ BreakerWait \in Nat
  BY WaitAssumption, BreakerAssumption DEF TypeOK, WaitTypes
<1>4. QED
  BY <1>1, <1>2, <1>3 DEF Rested, ByBreaker

LEMMA PlacesKept ==
  ASSUME TypeOK, NEW p \in Procs, RetryWithBackoff(p)
  PROVE  \A q \in Procs : q # p => pc'[q] = pc[q]
<1> USE DEF TypeOK, Goto
<1>1. CASE Execute(p)
  <2>1. PICK place : pc' = [pc EXCEPT ![p] = place]
    BY <1>1 DEF Execute, QuickCheck, RejectOpen, ToHalfOpen, AsItIsNow, Relock,
                Increment, GiveBack, Succeed, FailCall, PanicCall, Return
  <2>2. QED
    BY <2>1
<1>2. CASE UNCHANGED vars
  BY <1>2 DEF vars, local
<1>3. QED
  BY <1>1, <1>2 DEF RetryWithBackoff, Execute, Begin, Attempt, Refused,
     Proceeds, Answers, TimesOut, Panics, Executed, GiveUp, StartWait,
     TimerFires, WaitCancelled, CancelContext

LEMMA NotByBreaker ==
  /\ ~ByBreaker(NoError) /\ ~ByBreaker(Panic)
  /\ \A text : ~ByBreaker(OfOperation(text))
  BY DEF ByBreaker, NoError, Panic, OfOperation, ErrCircuitBreakerOpen,
         ErrTooManyRequests

LEMMA RestedStep ==
  /\ TypeOK /\ SeenIsOld /\ PhaseTypes /\ ErrorTypes /\ WaitTypes
  /\ AllIdle /\ AllRested /\ [RetryNext]_retryVars
  => AllRested'
<1> SUFFICES ASSUME TypeOK, SeenIsOld, PhaseTypes, ErrorTypes, WaitTypes,
                    AllIdle, AllRested, [RetryNext]_retryVars, [Next]_vars
             PROVE  AllRested'
  BY CallStep
<1>1. CASE (AdvanceClock \/ Reset \/ UNCHANGED vars) /\ UNCHANGED retry
  BY <1>1, RestedElsewhere DEF AllRested, retry, AdvanceClock, Reset, local, vars
<1>2. ASSUME NEW p \in Procs, RetryWithBackoff(p) PROVE AllRested'
  <2>1. Others(p)
    BY <1>2, OthersKept
  <2>2. \A q \in Procs : q # p => pc'[q] = pc[q]
    BY <1>2, PlacesKept
  <2>3. \A q \in Procs : q # p => Rested(q)'
    BY <2>1, <2>2, RestedElsewhere DEF Others, AllRested
  <2> SUFFICES Rested(p)'
    BY <2>3 DEF AllRested
  <2>4. ASSUME ~ByBreaker(error'[p]) PROVE Rested(p)'
    BY <2>4 DEF Rested
  <2>5. ASSUME phase'[p] \in {"out", "failed"} PROVE Rested(p)'
    BY <2>5 DEF Rested
  <2>6. Rested(p)
    BY DEF AllRested
  <2>t. /\ now \in Nat /\ since[p] \in Nat /\ until[p] \in Int
        /\ BreakerWait \in Nat
    BY WaitAssumption DEF TypeOK, WaitTypes
  <2>7. CASE Begin(p)
    <3>1. now' = now /\ error'[p] = error[p] /\ phase[p] = "out"
      BY <2>7 DEF Begin, vars
    <3>2. error[p] = NoError
      BY <3>1 DEF AllIdle
    <3>3. QED
      BY <2>4, <3>1, <3>2, NotByBreaker
  <2>8. CASE Attempt(p)
    <3>1. /\ phase[p] = "ready" /\ phase'[p] = "calling" /\ now' = now
          /\ error'[p] = error[p] /\ since'[p] = since[p]
          /\ pc'[p] \notin {"relock", "defer"}
      BY <2>8 DEF Attempt, Move, PhaseTypes, Keeps, QuickCheck, Goto, TypeOK
    <3>2. QED
      BY <3>1, <2>6 DEF Rested, ByBreaker
  <2>9. CASE Refused(p)
    BY <2>9, <2>5 DEF Refused, Move, PhaseTypes
  <2>10. CASE Proceeds(p)
    <3>1. /\ phase[p] = "calling" /\ phase'[p] = phase[p] /\ now' = now
          /\ error'[p] = error[p] /\ since'[p] = since[p]
          /\ pc'[p] = "relock" => state' # "open"
          /\ pc'[p] # "defer"
      BY <2>10 DEF Proceeds, retry, ToHalfOpen, AsItIsNow, Relock, Increment,
                   Goto, TypeOK
    <3>2. QED
      BY <3>1, <2>6 DEF Rested, ByBreaker
  <2>11. CASE Answers(p) \/ TimesOut(p) \/ Panics(p)
    <3>1. ~ByBreaker(error'[p])
      BY <2>11, NotByBreaker DEF Answers, TimesOut, Panics, Outcome, ErrorTypes
    <3>2. QED
      BY <3>1, <2>4
  <2>12. CASE Executed(p) \/ GiveUp(p) \/ WaitCancelled(p)
    <3>1. phase'[p] \in {"out", "failed"}
      BY <2>12 DEF Executed, GiveUp, WaitCancelled, Leave, Move, PhaseTypes
    <3>2. QED
      BY <3>1, <2>5
  <2>13. CASE StartWait(p)
    <3>1. phase'[p] = "waiting" /\ error'[p] = error[p]
      BY <2>13 DEF StartWait, Move, PhaseTypes
    <3>2. ByBreaker(error[p]) => until'[p] - since'[p] >= BreakerWait
      BY <2>13, NewTimer
    <3>3. QED
      BY <3>1, <3>2 DEF Rested, ByBreaker
  <2>14. CASE TimerFires(p)
    <3>1. /\ phase[p] = "waiting" /\ phase'[p] = "ready" /\ now' = now
          /\ error'[p] = error[p] /\ since'[p] = since[p]
          /\ now >= until[p]
      BY <2>14 DEF TimerFires, Move, PhaseTypes, vars
    <3>2. QED
      BY <3>1, <2>6, <2>t DEF Rested, ByBreaker
  <2>15. CASE CancelContext(p)
    BY <2>15, <2>6 DEF CancelContext, Rested, ByBreaker, vars, local, breaker
  <2>16. QED
    BY <1>2, <2>7, <2>8, <2>9, <2>10, <2>11, <2>12, <2>13, <2>14, <2>15
       DEF RetryWithBackoff
<1>3. QED
  BY <1>1, <1>2 DEF RetryNext, retryVars

\* An operation that waited after a refusal finds the breaker open again only
\* because of a failure recorded since: one opening of the breaker never uses
\* up an operation's attempts, whatever the other callers do.
THEOREM OneRefusalPerOpening == RetrySpec => RefusedAnew
<1>1. RetryInit => /\ PhaseTypes /\ ErrorTypes /\ WaitTypes
                   /\ AllIdle /\ AllRested /\ SeenIsOld
  <2>1. RetryInit => AllRested
    BY NotByBreaker DEF RetryInit, AllRested, Rested
  <2>2. RetryInit => SeenIsOld
    BY DEF RetryInit, Init, SeenIsOld
  <2>3. QED
    BY <2>1, <2>2, Corrected DEF RetryInit, PhaseTypes, ErrorTypes, WaitTypes,
       Phases, Errors, AllIdle
<1>2. RetrySpec => []TypeOK
  BY RetriesAreCalls, BreakerTypes, PTL
<1>3. RetrySpec => [](PhaseTypes /\ ErrorTypes /\ WaitTypes)
  BY <1>1, <1>2, PhaseStep, ErrorStep, WaitStep, PTL DEF RetrySpec
<1>4. RetrySpec => [](SeenIsOld /\ AllIdle)
  BY <1>1, <1>2, <1>3, SeenStep, CallStep, IdleStep, PTL DEF RetrySpec
<1>5. RetrySpec => []AllRested
  BY <1>1, <1>2, <1>3, <1>4, RestedStep, PTL DEF RetrySpec
<1>6. /\ TypeOK /\ SeenIsOld /\ AllRested
      /\ PhaseTypes /\ ErrorTypes /\ WaitTypes
      /\ [RetryNext]_retryVars
      => [\A p \in Procs :
            /\ phase[p] = "calling" /\ phase'[p] = "failed"
            /\ ByBreaker(error[p]) /\ error'[p] = ErrCircuitBreakerOpen
            => lastFailureTime > since[p]]_retryVars
  <2> SUFFICES ASSUME TypeOK, SeenIsOld, AllRested, PhaseTypes,
                      ErrorTypes, WaitTypes, [RetryNext]_retryVars, NEW p \in Procs,
                      phase[p] = "calling", phase'[p] = "failed",
                      ByBreaker(error[p]), error'[p] = ErrCircuitBreakerOpen
               PROVE  lastFailureTime > since[p]
    OBVIOUS
  <2>1. PICK q \in Procs : RetryWithBackoff(q)
    <3>1. ~UNCHANGED retry
      BY DEF retry
    <3>2. QED
      BY <3>1 DEF RetryNext, retryVars
  <2>2. q = p
    BY <2>1, OthersKept DEF Others
  <2>3. /\ now \in Nat /\ lastFailureTime \in Nat /\ seenFailure[p] \in Nat
        /\ since[p] \in Nat /\ BreakerWait \in Nat /\ BreakerWait > timeout
        /\ timeout \in Nat
    BY WaitAssumption, BreakerAssumption DEF TypeOK, WaitTypes
  <2>4. /\ now - since[p] >= BreakerWait
        /\ pc[p] = "relock" /\ state = "open" => lastFailureTime > since[p]
        /\ pc[p] # "defer"
    BY DEF AllRested, Rested
  <2>5. Refused(p)
    <3>1. ~(Proceeds(p) \/ Answers(p) \/ TimesOut(p) \/ Panics(p))
      BY DEF Proceeds, Answers, TimesOut, Panics, retry
    <3>2. ~Executed(p)
      BY <2>4 DEF Executed, Return
    <3>3. ~CancelContext(p)
      BY DEF CancelContext
    <3>4. QED
      BY <2>1, <2>2, <3>1, <3>2, <3>3 DEF RetryWithBackoff, Begin, Attempt,
         GiveUp, StartWait, TimerFires, WaitCancelled
  <2>6. /\ RejectOpen(p) \/ ToHalfOpen(p) \/ Relock(p)
        /\ pc'[p] = "idle"
    <3>1. error'[p] # ErrTooManyRequests
      BY DEF ErrTooManyRequests, ErrCircuitBreakerOpen
    <3>2. QED
      BY <2>5, <3>1 DEF Refused, Outcome, ErrorTypes
  <2>7. CASE RejectOpen(p)
    BY <2>3, <2>4, <2>7 DEF RejectOpen, Expired, SeenIsOld
  <2>8. CASE ToHalfOpen(p)
    <3>1. state = "open" /\ ~Expired(lastFailureTime)
      BY <2>6, <2>8 DEF ToHalfOpen, DoubleCheck, AsItIsNow, Goto, TypeOK
    <3>2. QED
      BY <2>3, <2>4, <3>1 DEF Expired
  <2>9. CASE Relock(p)
    BY <2>4, <2>6, <2>9 DEF Relock, AsItIsNow, Goto, TypeOK
  <2>10. QED
    BY <2>6, <2>7, <2>8, <2>9
<1>7. QED
  BY <1>2, <1>3, <1>4, <1>5, <1>6, PTL DEF RetrySpec, RefusedAnew
=============================================================================
