--------------------------- MODULE CircuitBreaker ---------------------------
(***************************************************************************)
(* The three methods of safety.CircuitBreaker                              *)
(* (pkg/safety/circuit_breaker.go), as operators on the circuit fields of  *)
(* an OptimizerConfig's status.  Every method runs under cb.mu and works   *)
(* on the one config it is handed, so each is a function from status to    *)
(* status; b is what that config says in spec.circuitBreaker.              *)
(*                                                                         *)
(* LastUpdateTime is kept as its age: the ticks since it was set, Never    *)
(* when it is nil.  The code only asks whether the age has reached         *)
(* Timeout, so the age stops growing there.  The accumulators              *)
(* TotalUpdatesApplied and TotalUpdatesFailed, which no method reads, are  *)
(* left to Reconciler, where a property is about one of them.              *)
(***************************************************************************)
EXTENDS Naturals

CONSTANTS
    Timeout,           \* spec.circuitBreaker.timeout, in ticks
    Never              \* a nil LastUpdateTime

ASSUME BreakerAssumption ==
    /\ Timeout \in Nat
    /\ Never \notin Nat

CircuitState == {"Closed", "Open", "HalfOpen"}

Age == {Never} \cup 0..Timeout

CircuitStatus ==
    [circuitState         : CircuitState,
     consecutiveErrors    : Nat,
     consecutiveSuccesses : Nat,
     sinceUpdate          : Age]

Circuit(state, errors, successes, age) ==
    [circuitState |-> state, consecutiveErrors |-> errors,
     consecutiveSuccesses |-> successes, sinceUpdate |-> age]

\* The status a new OptimizerConfig is created with.
NewCircuit == Circuit("Closed", 0, 0, Never)

\* The thresholds of spec.circuitBreaker; 0 means the default.
ErrorLimit(b)   == IF b.errorThreshold = 0 THEN 5 ELSE b.errorThreshold
SuccessLimit(b) == IF b.successThreshold = 0 THEN 3 ELSE b.successThreshold

-----------------------------------------------------------------------------

\* One clock tick later: time.Since(LastUpdateTime) has grown.
Older(age) == IF age \in 0..(Timeout - 1) THEN age + 1 ELSE age

Aged(s) == [s EXCEPT !.sinceUpdate = Older(@)]

\* A nil LastUpdateTime never times out, however long the circuit is open.
TimedOut(s) == s.circuitState = "Open" /\ s.sinceUpdate = Timeout

\* What ShouldAllow answers, and below, the status it leaves.
Allows(s) == s.circuitState # "Open" \/ TimedOut(s)

\* Mutated: lets the probe through and stays Open.
AfterShouldAllowStaysOpen(s) == s

\* Mutated: every refusal counts as an update.
AfterShouldAllowTouches(s) ==
    IF TimedOut(s) THEN Circuit("HalfOpen", 0, 0, Timeout)
    ELSE IF s.circuitState = "Open" THEN [s EXCEPT !.sinceUpdate = 0] ELSE s

AfterShouldAllow(s) ==
    IF TimedOut(s) THEN Circuit("HalfOpen", 0, 0, s.sinceUpdate) ELSE s

\* Mutated: closes one success late.
ClosesOneLate(b, s) == s.circuitState = "HalfOpen" /\ s.consecutiveSuccesses >= SuccessLimit(b)

\* The success being recorded is the one that closes the circuit.
Closes(b, s) == s.circuitState = "HalfOpen" /\ s.consecutiveSuccesses + 1 >= SuccessLimit(b)

\* Mutated: a success takes one error back instead of clearing them.
AfterSuccessDecrements(b, s) ==
    IF Closes(b, s)
    THEN Circuit("Closed", 0, 0, s.sinceUpdate)
    ELSE Circuit(s.circuitState, s.consecutiveErrors - 1, s.consecutiveSuccesses + 1, 0)

\* Mutated: only the success that closes the circuit clears the errors.
AfterSuccessKeepsErrors(b, s) ==
    IF Closes(b, s)
    THEN Circuit("Closed", 0, 0, s.sinceUpdate)
    ELSE Circuit(s.circuitState, s.consecutiveErrors, s.consecutiveSuccesses + 1, 0)

\* The success that closes the circuit returns before it touches LastUpdateTime.
AfterSuccess(b, s) ==
    IF Closes(b, s)
    THEN Circuit("Closed", 0, 0, s.sinceUpdate)
    ELSE Circuit(s.circuitState, 0, s.consecutiveSuccesses + 1, 0)

\* The failure being recorded is the one that opens the circuit.
Trips(b, s) == s.circuitState # "Open" /\ s.consecutiveErrors + 1 >= ErrorLimit(b)

\* Mutated: a failure leaves the successes counted so far.
AfterFailureKeepsSuccesses(b, s) ==
    IF Trips(b, s)
    THEN Circuit("Open", s.consecutiveErrors + 1, s.consecutiveSuccesses, s.sinceUpdate)
    ELSE Circuit(s.circuitState, s.consecutiveErrors + 1, s.consecutiveSuccesses, 0)

\* The failure that opens the circuit returns before it touches
\* LastUpdateTime: the timeout is then measured from the update before it.
AfterFailure(b, s) ==
    IF Trips(b, s)
    THEN Circuit("Open", s.consecutiveErrors + 1, 0, s.sinceUpdate)
    ELSE Circuit(s.circuitState, s.consecutiveErrors + 1, 0, 0)

=============================================================================
