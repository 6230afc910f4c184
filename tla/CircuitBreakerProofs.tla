------------------------ MODULE CircuitBreakerProofs ------------------------
(* Theorems about CircuitBreaker, for any number of goroutines.              *)
EXTENDS CircuitBreaker, FiniteSetTheorems, TLAPS

\* Every step keeps the types.
LEMMA TypeStep == TypeOK /\ [Next]_vars => TypeOK'
<1> SUFFICES ASSUME TypeOK, [Next]_vars PROVE TypeOK'
  OBVIOUS
<1> USE BreakerAssumption DEF TypeOK, Places
<1>1. CASE AdvanceClock
  BY <1>1 DEF AdvanceClock, breaker, local
<1>2. CASE Reset
  BY <1>2 DEF Reset, local
<1>3. ASSUME NEW p \in Procs, Execute(p) PROVE TypeOK'
  <2> USE DEF Goto
  <2>1. CASE QuickCheck(p)
    BY <2>1 DEF QuickCheck, breaker
  <2>2. CASE RejectOpen(p) \/ Relock(p)
    BY <2>2 DEF RejectOpen, Relock, AsItIsNow, breaker
  <2>3. CASE ToHalfOpen(p)
    BY <2>3 DEF ToHalfOpen, AsItIsNow
  <2>4. CASE GiveBack(p)
    BY <2>4 DEF GiveBack, breaker
  <2>5. CASE Increment(p)
    <3>1. halfOpenRequests' \in Int
      BY <2>5 DEF Increment
    <3>2. \/ Goto(p, "giveback") /\ UNCHANGED shouldDecrement
          \/ /\ Goto(p, "fn")
             /\ shouldDecrement' = [shouldDecrement EXCEPT ![p] = TRUE]
      BY <2>5 DEF Increment
    <3>3. pc' \in [Procs -> Places] /\ shouldDecrement' \in [Procs -> BOOLEAN]
      BY <3>2
    <3>4. QED
      BY <2>5, <3>1, <3>3 DEF Increment, breaker
  <2>6. CASE Succeed(p) \/ FailCall(p)
    BY <2>6 DEF Succeed, FailCall, LeavesHalfOpen, AfterSuccess
  <2>7. CASE PanicCall(p)
    BY <2>7 DEF PanicCall, breaker
  <2>8. CASE Return(p)
    <3>1. \/ halfOpenRequests' = halfOpenRequests - 1
          \/ halfOpenRequests' = halfOpenRequests
      BY <2>8 DEF Return
    <3>2. halfOpenRequests' \in Int
      BY <3>1
    <3>3. shouldDecrement' \in [Procs -> BOOLEAN] /\ pc' \in [Procs -> Places]
      BY <2>8 DEF Return
    <3>4. QED
      BY <2>8, <3>2, <3>3 DEF Return, breaker
  <2>9. QED
    BY <1>3, <2>1, <2>2, <2>3, <2>4, <2>5, <2>6, <2>7, <2>8 DEF Execute
<1>4. CASE UNCHANGED vars
  BY <1>4 DEF vars, breaker, local
<1>5. QED
  BY <1>1, <1>2, <1>3, <1>4 DEF Next

\* Every variable keeps its type for ever.
THEOREM BreakerTypes == Spec => []TypeOK
<1>1. Init => TypeOK
  BY DEF Init, TypeOK, Places
<1>2. QED
  BY <1>1, TypeStep, PTL DEF Spec

\* Every step keeps the state in line with the failure count: only a recorded
\* result and a reset change the count, and both set the state with it.
LEMMA ClosedStep ==
  TypeOK /\ ClosedBelowLimit /\ [Next]_vars => ClosedBelowLimit'
<1> SUFFICES ASSUME TypeOK, ClosedBelowLimit, [Next]_vars
             PROVE  ClosedBelowLimit'
  OBVIOUS
<1> USE BreakerAssumption DEF TypeOK, ClosedBelowLimit
<1>1. CASE AdvanceClock
  BY <1>1 DEF AdvanceClock, breaker
<1>2. CASE Reset
  BY <1>2 DEF Reset
<1>3. ASSUME NEW p \in Procs, Execute(p) PROVE ClosedBelowLimit'
  <2>1. CASE Succeed(p)
    BY <2>1 DEF Succeed, AfterSuccess
  <2>2. CASE FailCall(p)
    BY <2>2 DEF FailCall, TooMany
  <2>3. CASE ToHalfOpen(p)
    BY <2>3 DEF ToHalfOpen, DoubleCheck
  <2>4. CASE QuickCheck(p) \/ RejectOpen(p) \/ Relock(p)
    BY <2>4 DEF QuickCheck, RejectOpen, Relock, breaker
  <2>5. CASE Increment(p) \/ GiveBack(p) \/ PanicCall(p) \/ Return(p)
    BY <2>5 DEF Increment, GiveBack, PanicCall, Return, breaker
  <2>6. QED
    BY <1>3, <2>1, <2>2, <2>3, <2>4, <2>5 DEF Execute
<1>4. CASE UNCHANGED vars
  BY <1>4 DEF vars, breaker
<1>5. QED
  BY <1>1, <1>2, <1>3, <1>4 DEF Next

\* Whatever results arrive late, calls pass exactly while fewer than
\* maxFailures have failed in a row.
THEOREM ClosedIsBelowLimit == Spec => []ClosedBelowLimit
<1>1. Init => ClosedBelowLimit
  BY BreakerAssumption DEF Init, ClosedBelowLimit
<1>2. QED
  BY <1>1, ClosedStep, BreakerTypes, PTL DEF Spec

\* A breaker goes half-open only when it is open and its timeout has passed
\* since the last failure recorded, which the second check establishes.
THEOREM RestsAlways == Spec => RestsAfterFailure
<1>1. ASSUME [Next]_vars
      PROVE  [state # "half_open" /\ state' = "half_open"
                => state = "open" /\ now - lastFailureTime > timeout]_vars
  <2>1. CASE AdvanceClock \/ Reset
    BY <2>1 DEF AdvanceClock, Reset, breaker
  <2>2. ASSUME NEW p \in Procs, Execute(p), state # "half_open",
               state' = "half_open"
        PROVE  state = "open" /\ now - lastFailureTime > timeout
    <3>1. ToHalfOpen(p)
      BY <2>2 DEF Execute, QuickCheck, RejectOpen, Relock, Increment, GiveBack,
                  Succeed, FailCall, PanicCall, Return, breaker
    <3>2. QED
      BY <2>2, <3>1 DEF ToHalfOpen, DoubleCheck, Expired
  <2>3. QED
    BY <1>1, <2>1, <2>2 DEF Next
<1>2. QED
  BY <1>1, PTL DEF Spec, RestsAfterFailure

-----------------------------------------------------------------------------
(* The half-open counter.                                                  *)

\* Only a goroutine inside its call, or about to leave it, owes a decrement.
OwesInside ==
  \A p \in Procs : shouldDecrement[p] => pc[p] \in {"fn", "defer"}

LEMMA OwesStep == TypeOK /\ OwesInside /\ [Next]_vars => OwesInside'
<1> SUFFICES ASSUME TypeOK, OwesInside, [Next]_vars PROVE OwesInside'
  OBVIOUS
<1> USE DEF TypeOK, OwesInside, Goto
<1>1. CASE AdvanceClock \/ Reset \/ UNCHANGED vars
  BY <1>1 DEF AdvanceClock, Reset, vars, local
<1>2. ASSUME NEW p \in Procs, Execute(p) PROVE OwesInside'
  <2>1. CASE QuickCheck(p) \/ RejectOpen(p) \/ Relock(p) \/ GiveBack(p)
    BY <2>1 DEF QuickCheck, RejectOpen, Relock, GiveBack, AsItIsNow
  <2>2. CASE ToHalfOpen(p)
    BY <2>2 DEF ToHalfOpen, AsItIsNow
  <2>3. CASE Increment(p)
    <3>1. \/ Goto(p, "giveback") /\ UNCHANGED shouldDecrement
          \/ /\ Goto(p, "fn")
             /\ shouldDecrement' = [shouldDecrement EXCEPT ![p] = TRUE]
      BY <2>3 DEF Increment
    <3>2. QED
      BY <2>3, <3>1 DEF Increment
  <2>4. CASE Succeed(p) \/ FailCall(p) \/ PanicCall(p)
    BY <2>4 DEF Succeed, FailCall, PanicCall
  <2>5. CASE Return(p)
    BY <2>5 DEF Return
  <2>6. QED
    BY <1>2, <2>1, <2>2, <2>3, <2>4, <2>5 DEF Execute
<1>3. QED
  BY <1>1, <1>2 DEF Next

\* The goroutines that will decrement are finitely many.
LEMMA HoldersFinite == IsFiniteSet(Holders) /\ Cardinality(Holders) \in Nat
<1>1. Holders \in SUBSET Procs
  BY DEF Holders
<1>2. IsFiniteSet(Holders)
  BY <1>1, ProcsAssumption, FS_Subset
<1>3. QED
  BY <1>2, FS_CardinalityType

\* A step that adds one to the counter adds a goroutine that will take it
\* back, and a goroutine stops being one only where it takes one.
LEMMA HoldersStep ==
  TypeOK /\ OwesInside /\ NeverLockedOut /\ [Next]_vars => NeverLockedOut'
<1> SUFFICES ASSUME TypeOK, OwesInside, NeverLockedOut, [Next]_vars
             PROVE  NeverLockedOut'
  OBVIOUS
<1>f. /\ IsFiniteSet(Holders) /\ Cardinality(Holders) \in Nat
      /\ halfOpenRequests \in Int
      /\ halfOpenRequests <= Cardinality(Holders)
  BY HoldersFinite DEF NeverLockedOut, TypeOK
<1>g. Cardinality(Holders') \in Nat
  <2>1. Holders' \in SUBSET Procs
    BY DEF Holders
  <2>2. QED
    BY <2>1, ProcsAssumption, FS_Subset, FS_CardinalityType
<1>h. ASSUME halfOpenRequests' = 0 PROVE NeverLockedOut'
  BY <1>g, <1>h DEF NeverLockedOut
<1>i. ASSUME UNCHANGED halfOpenRequests, Holders' = Holders
      PROVE  NeverLockedOut'
  BY <1>f, <1>i DEF NeverLockedOut
<1>1. CASE AdvanceClock \/ UNCHANGED vars
  BY <1>1, <1>i DEF AdvanceClock, vars, local, Holders
<1>2. CASE Reset
  BY <1>2, <1>h DEF Reset
<1>3. ASSUME NEW p \in Procs, Execute(p) PROVE NeverLockedOut'
  <2> USE DEF TypeOK, Goto
  <2>1. CASE QuickCheck(p) \/ RejectOpen(p) \/ Relock(p)
    <3>1. Holders' = Holders
      BY <2>1 DEF QuickCheck, RejectOpen, Relock, AsItIsNow, Holders
    <3>2. QED
      BY <2>1, <3>1, <1>i DEF QuickCheck, RejectOpen, Relock
  <2>2. CASE ToHalfOpen(p)
    <3>1. Holders' = Holders
      BY <2>2 DEF ToHalfOpen, AsItIsNow, Holders
    <3>2. halfOpenRequests' = 0 \/ UNCHANGED halfOpenRequests
      BY <2>2 DEF ToHalfOpen
    <3>3. QED
      BY <3>1, <3>2, <1>h, <1>i
  <2>3. CASE Increment(p)
    <3>1. p \notin Holders
      BY <2>3 DEF Increment, OwesInside, Holders
    <3>2. \/ Goto(p, "giveback") /\ UNCHANGED shouldDecrement
          \/ /\ Goto(p, "fn")
             /\ shouldDecrement' = [shouldDecrement EXCEPT ![p] = TRUE]
      BY <2>3 DEF Increment
    <3>3. Holders' = Holders \cup {p}
      BY <2>3, <3>2 DEF Increment, Holders
    <3>4. Cardinality(Holders') = Cardinality(Holders) + 1
      BY <3>1, <3>3, <1>f, FS_AddElement
    <3>5. halfOpenRequests' = halfOpenRequests + 1
      BY <2>3 DEF Increment
    <3>6. QED
      BY <3>4, <3>5, <1>f DEF NeverLockedOut
  <2>4. CASE GiveBack(p)
    <3>1. p \in Holders
      BY <2>4 DEF GiveBack, Holders
    <3>2. Holders' = Holders \ {p}
      BY <2>4 DEF GiveBack, OwesInside, Holders
    <3>3. Cardinality(Holders') = Cardinality(Holders) - 1
      BY <3>1, <3>2, <1>f, FS_RemoveElement
    <3>4. halfOpenRequests' = halfOpenRequests - 1
      BY <2>4 DEF GiveBack
    <3>5. QED
      BY <3>3, <3>4, <1>f DEF NeverLockedOut
  <2>5. CASE Succeed(p) \/ FailCall(p) \/ PanicCall(p)
    <3>1. Holders' = Holders
      BY <2>5 DEF Succeed, FailCall, PanicCall, Holders
    <3>2. halfOpenRequests' = 0 \/ UNCHANGED halfOpenRequests
      BY <2>5 DEF Succeed, FailCall, PanicCall, LeavesHalfOpen
    <3>3. QED
      BY <3>1, <3>2, <1>h, <1>i
  <2>6. CASE Return(p)
    <3>1. CASE shouldDecrement[p]
      <4>1. p \in Holders
        BY <3>1 DEF Holders
      <4>2. Holders' = Holders \ {p}
        BY <2>6 DEF Return, Holders
      <4>3. Cardinality(Holders') = Cardinality(Holders) - 1
        BY <4>1, <4>2, <1>f, FS_RemoveElement
      <4>4. halfOpenRequests' = halfOpenRequests - 1
        BY <2>6, <3>1 DEF Return
      <4>5. QED
        BY <4>3, <4>4, <1>f DEF NeverLockedOut
    <3>2. CASE ~shouldDecrement[p]
      <4>1. Holders' = Holders /\ UNCHANGED halfOpenRequests
        BY <2>6, <3>2 DEF Return, Holders
      <4>2. QED
        BY <4>1, <1>i
    <3>3. QED
      BY <3>1, <3>2
  <2>7. QED
    BY <1>3, <2>1, <2>2, <2>3, <2>4, <2>5, <2>6 DEF Execute
<1>4. QED
  BY <1>1, <1>2, <1>3 DEF Next

\* With any number of goroutines, the half-open counter never exceeds those
\* that will take their part back: the breaker does not lock its callers out.
THEOREM NobodyLockedOut == Spec => []NeverLockedOut
<1>1. Init => OwesInside
  BY DEF Init, OwesInside
<1>2. Init => NeverLockedOut
  BY HoldersFinite DEF Init, NeverLockedOut
<1>3. QED
  BY <1>1, <1>2, OwesStep, HoldersStep, BreakerTypes, PTL DEF Spec
=============================================================================
