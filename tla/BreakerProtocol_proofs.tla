----------------------- MODULE BreakerProtocol_proofs -----------------------
(***************************************************************************)
(* The circuit breaker's invariants for every threshold and timeout, and   *)
(* that it keeps BreakerContract.                                          *)
(***************************************************************************)
EXTENDS BreakerProtocol, TLAPS

(* The stored counter is the streak that was observed, and the circuit is   *)
(* open exactly while that streak has reached the threshold.  This is what  *)
(* the code keeps in every state; OpensOnStreak says the part of it that    *)
(* the documentation agrees with.                                           *)
StreakCounted ==
    /\ status.consecutiveErrors = failureStreak
    /\ status.circuitState = "Open" <=> failureStreak >= ErrorLimit(circuitBreaker)

(* The conjunction is inductive: StreakCounted needs OpenMeansIdle (an      *)
(* outcome is never recorded on an open circuit), and the refinement below  *)
(* needs all of it.                                                         *)
IInv == TypeOK /\ OpenMeansIdle /\ StreakCounted /\ ProbesCounted

-----------------------------------------------------------------------------

(* Both limits are positive whatever the thresholds: 0 selects a default   *)
(* (circuit_breaker.go:67-70, 101-104).                                    *)
LEMMA LimitsPositive ==
  ASSUME NEW b \in CircuitBreakerSpec
  PROVE  ErrorLimit(b) \in Nat \ {0} /\ SuccessLimit(b) \in Nat \ {0}
  <1>1. b.errorThreshold \in Nat /\ b.successThreshold \in Nat
    BY ThresholdAssumption DEF CircuitBreakerSpec
  <1> QED
    BY <1>1 DEF ErrorLimit, SuccessLimit

LEMMA ZeroIsAge == 0 \in Age
  BY BreakerAssumption DEF Age

LEMMA InitIInv == Init => IInv
  <1> SUFFICES ASSUME Init
               PROVE  IInv
    OBVIOUS
  <1> USE DEF Init
  <1>1. status \in CircuitStatus
    <2>1. Never \in Age
      BY DEF Age
    <2> QED
      BY <2>1 DEF NewCircuit, Circuit, CircuitStatus, CircuitState
  <1>2. TypeOK
    BY <1>1 DEF TypeOK
  <1>l. ErrorLimit(circuitBreaker) \in Nat \ {0} /\ SuccessLimit(circuitBreaker) \in Nat \ {0}
    BY LimitsPositive
  <1>3. OpenMeansIdle /\ StreakCounted /\ ProbesCounted
    BY <1>l DEF OpenMeansIdle, StreakCounted, ProbesCounted, NewCircuit, Circuit
  <1> QED
    BY <1>2, <1>3 DEF IInv

LEMMA NextIInv == IInv /\ [Next]_vars => IInv'
  <1> SUFFICES ASSUME IInv, [Next]_vars
               PROVE  IInv'
    OBVIOUS
  <1> USE DEF IInv
  <1>s. status \in CircuitStatus
    BY DEF TypeOK
  <1>l. ErrorLimit(circuitBreaker) \in Nat \ {0} /\ SuccessLimit(circuitBreaker) \in Nat \ {0}
    BY LimitsPositive DEF TypeOK
  <1>1. CASE ShouldAllow
    <2>1. TypeOK'
      <3>1. status' \in CircuitStatus
        BY <1>s, <1>1 DEF ShouldAllow, AfterShouldAllow, Circuit, CircuitStatus, CircuitState
      <3>2. circuitBreaker' \in CircuitBreakerSpec /\ inFlight' \in BOOLEAN /\ failureStreak' \in Nat
        BY <1>1 DEF ShouldAllow, TypeOK, Allows, TimedOut
      <3> QED
        BY <3>1, <3>2 DEF TypeOK
    <2>2. OpenMeansIdle'
      BY <1>s, <1>1 DEF ShouldAllow, OpenMeansIdle, Allows, TimedOut,
                        AfterShouldAllow, Circuit, Circuit, CircuitStatus
    <2>3. StreakCounted'
      BY <1>s, <1>1, <1>l
         DEF ShouldAllow, StreakCounted, TimedOut, AfterShouldAllow, Circuit, CircuitStatus
    <2>4. ProbesCounted'
      BY <1>s, <1>1, <1>l
         DEF ShouldAllow, ProbesCounted, TimedOut, AfterShouldAllow, Circuit, CircuitStatus
    <2> QED
      BY <2>1, <2>2, <2>3, <2>4
  <1>2. CASE RecordSuccess
    <2>1. TypeOK'
      <3>1. status' \in CircuitStatus
        BY <1>s, <1>2, ZeroIsAge
           DEF RecordSuccess, AfterSuccess, Circuit, CircuitStatus, CircuitState
      <3>2. circuitBreaker' \in CircuitBreakerSpec /\ inFlight' \in BOOLEAN /\ failureStreak' \in Nat
        BY <1>2 DEF RecordSuccess, TypeOK
      <3> QED
        BY <3>1, <3>2 DEF TypeOK
    <2>2. OpenMeansIdle'
      BY <1>2 DEF RecordSuccess, OpenMeansIdle
    <2>3. StreakCounted'
      BY <1>s, <1>2, <1>l
         DEF RecordSuccess, StreakCounted, OpenMeansIdle, AfterSuccess, Closes, Circuit, CircuitStatus
    <2>4. ProbesCounted'
      BY <1>s, <1>2, <1>l
         DEF RecordSuccess, ProbesCounted, AfterSuccess, Closes, Circuit, CircuitStatus
    <2> QED
      BY <2>1, <2>2, <2>3, <2>4
  <1>3. CASE RecordFailure
    <2>1. TypeOK'
      <3>1. status' \in CircuitStatus
        BY <1>s, <1>3, ZeroIsAge
           DEF RecordFailure, AfterFailure, Circuit, CircuitStatus, CircuitState
      <3>2. circuitBreaker' \in CircuitBreakerSpec /\ inFlight' \in BOOLEAN
        BY <1>3 DEF RecordFailure, TypeOK
      <3>3. failureStreak' \in Nat
        BY <1>3, SMT DEF RecordFailure, TypeOK
      <3> QED
        BY <3>1, <3>2, <3>3 DEF TypeOK
    <2>2. OpenMeansIdle'
      BY <1>3 DEF RecordFailure, OpenMeansIdle
    <2>3. StreakCounted'
      BY <1>s, <1>3, <1>l
         DEF RecordFailure, StreakCounted, OpenMeansIdle, AfterFailure, Trips, Circuit,
             CircuitStatus, TypeOK
    <2>4. ProbesCounted'
      BY <1>s, <1>3, <1>l
         DEF RecordFailure, ProbesCounted, AfterFailure, Trips, Circuit, CircuitStatus
    <2> QED
      BY <2>1, <2>2, <2>3, <2>4
  <1>4. CASE Tick
    <2>1. TypeOK'
      <3>1. Older(status.sinceUpdate) \in Age
        BY <1>s, BreakerAssumption DEF Older, CircuitStatus, Age
      <3> QED
        BY <1>s, <1>4, <3>1 DEF Tick, TypeOK, Aged, CircuitStatus
    <2>2. /\ status'.circuitState = status.circuitState
          /\ status'.consecutiveErrors = status.consecutiveErrors
          /\ status'.consecutiveSuccesses = status.consecutiveSuccesses
      BY <1>s, <1>4 DEF Tick, Aged, CircuitStatus
    <2>3. OpenMeansIdle' /\ StreakCounted' /\ ProbesCounted'
      BY <1>4, <2>2 DEF Tick, OpenMeansIdle, StreakCounted, ProbesCounted
    <2> QED
      BY <2>1, <2>3
  <1>5. CASE UNCHANGED vars
    BY <1>5 DEF vars, TypeOK, OpenMeansIdle, StreakCounted, ProbesCounted
  <1> QED
    BY <1>1, <1>2, <1>3, <1>4, <1>5 DEF Next

THEOREM Invariance == Spec => []IInv
  <1> QED
    BY InitIInv, NextIInv, PTL DEF Spec

(* The counters and the age stay what the status can hold, although the    *)
(* methods that change the state return before they set the time           *)
(* (circuit_breaker.go:36-119).                                            *)
THEOREM TypeCorrect == Spec => []TypeOK
  <1>1. IInv => TypeOK
    BY DEF IInv
  <1> QED
    BY <1>1, Invariance, PTL

(* An open circuit has no operation in flight, for every threshold and     *)
(* timeout.                                                                *)
THEOREM Isolation == Spec => []OpenMeansIdle
  <1>1. IInv => OpenMeansIdle
    BY DEF IInv
  <1> QED
    BY <1>1, Invariance, PTL

LEMMA StepOpensOnStreak ==
    IInv /\ IInv' /\ [Next]_vars =>
        [status.circuitState = "Closed" =>
           (status'.circuitState = "Open" <=> failureStreak' >= ErrorLimit(circuitBreaker))]_vars
  <1>1. [Next]_vars => circuitBreaker' = circuitBreaker
    BY DEF Next, ShouldAllow, RecordSuccess, RecordFailure, Tick, vars
  <1> QED
    BY <1>1 DEF IInv, StreakCounted

(* A closed circuit opens with the failure that completes the streak, and   *)
(* with nothing else, for every threshold.                                  *)
THEOREM OpensWhenDue == Spec => OpensOnStreak
  BY Invariance, StepOpensOnStreak, PTL DEF Spec, OpensOnStreak

(* The successes counted towards closing are those of the present spell of *)
(* HalfOpen, for every threshold.                                          *)
THEOREM CountsProbes == Spec => []ProbesCounted
  <1>1. IInv => ProbesCounted
    BY DEF IInv
  <1> QED
    BY <1>1, Invariance, PTL

-----------------------------------------------------------------------------

(* Each step of the breaker is a step the contract allows, or leaves the   *)
(* contract's view unchanged (a tick, a refusal, a caller that asks).      *)
LEMMA StepKeepsContract == IInv /\ [Next]_vars => [Contract!Next]_(Contract!contractVars)
  <1> SUFFICES ASSUME IInv, [Next]_vars
               PROVE  [Contract!Next]_(Contract!contractVars)
    OBVIOUS
  <1> USE DEF IInv
  <1>s. status \in CircuitStatus
    BY DEF TypeOK
  <1>l. ErrorLimit(circuitBreaker) \in Nat \ {0} /\ SuccessLimit(circuitBreaker) \in Nat \ {0}
    BY LimitsPositive DEF TypeOK
  <1>1. CASE ShouldAllow /\ TimedOut(status)
    <2>1. Contract!Probe
      BY <1>s, <1>1 DEF ShouldAllow, Contract!Probe, TimedOut, Allows,
                        AfterShouldAllow, Circuit
    <2> QED
      BY <2>1 DEF Contract!Next
  <1>2. CASE ShouldAllow /\ status.circuitState # "Open"
    <2>1. Contract!Admit
      BY <1>s, <1>2 DEF ShouldAllow, Contract!Admit, TimedOut, Allows, AfterShouldAllow
    <2> QED
      BY <2>1 DEF Contract!Next
  <1>3. CASE ShouldAllow /\ status.circuitState = "Open" /\ ~TimedOut(status)
    <2>1. status' = status /\ inFlight' = FALSE /\ ~inFlight
      BY <1>3 DEF ShouldAllow, Allows, AfterShouldAllow
    <2>2. circuitBreaker' = circuitBreaker /\ failureStreak' = failureStreak
      BY <1>3 DEF ShouldAllow
    <2> QED
      BY <2>1, <2>2 DEF Contract!contractVars, TypeOK
  <1>4. CASE RecordSuccess
    <2>1. status.circuitState # "Open"
      BY <1>4 DEF RecordSuccess, OpenMeansIdle
    <2>2. Contract!Succeed
      BY <1>s, <1>4, <2>1, <1>l
         DEF RecordSuccess, Contract!Succeed, AfterSuccess, Closes, Circuit, CircuitStatus
    <2> QED
      BY <2>2 DEF Contract!Next
  <1>5. CASE RecordFailure
    <2>1. status.circuitState # "Open"
      BY <1>5 DEF RecordFailure, OpenMeansIdle
    <2>2. Contract!Fail
      BY <1>s, <1>5, <2>1, <1>l
         DEF RecordFailure, Contract!Fail, AfterFailure, Trips, Circuit, CircuitStatus,
             StreakCounted
    <2> QED
      BY <2>2 DEF Contract!Next
  <1>6. CASE Tick
    <2>1. /\ status'.circuitState = status.circuitState
          /\ status'.consecutiveSuccesses = status.consecutiveSuccesses
      BY <1>s, <1>6 DEF Tick, Aged, CircuitStatus
    <2> QED
      BY <1>6, <2>1 DEF Tick, Contract!contractVars
  <1>7. CASE UNCHANGED vars
    BY <1>7 DEF vars, Contract!contractVars
  <1> QED
    BY <1>1, <1>2, <1>3, <1>4, <1>5, <1>6, <1>7 DEF Next, TimedOut

(* The breaker implements BreakerContract for every threshold and timeout: *)
(* only a streak of failures opens it when it is closed, nothing runs      *)
(* while it is open, and only a run of successful probes closes it.        *)
THEOREM Refinement == Spec => KeepsContract
  <1>1. Init => Contract!Init
    BY LimitsPositive DEF Init, Contract!Init, NewCircuit, Circuit
  <1> QED
    BY <1>1, StepKeepsContract, Invariance, PTL DEF Spec, KeepsContract, Contract!Spec

=============================================================================
