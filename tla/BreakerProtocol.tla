-------------------------- MODULE BreakerProtocol --------------------------
(***************************************************************************)
(* A caller that uses the circuit breaker the way its API asks: ask        *)
(* ShouldAllow before an operation, report the operation's one outcome     *)
(* with RecordSuccess or RecordFailure after it.  The caller is serial     *)
(* (the work queue never hands one OptimizerConfig to two workers), and    *)
(* time passes between any two steps.  The ghost variables record what an  *)
(* observer of the operations would: they are read by properties only.     *)
(***************************************************************************)
EXTENDS CircuitBreaker

CONSTANTS
    ErrorThresholds,   \* values of spec.circuitBreaker.errorThreshold, 0 if not given
    SuccessThresholds, \* values of spec.circuitBreaker.successThreshold, 0 if not given
    MaxCount           \* bound: successes counted in a row before none is reported

ASSUME ThresholdAssumption ==
    /\ ErrorThresholds \subseteq Nat
    /\ SuccessThresholds \subseteq Nat

VARIABLES
    circuitBreaker,    \* config.Spec.CircuitBreaker
    status,            \* the circuit fields of config.Status
    inFlight,          \* an admitted operation that has not reported its outcome
    failureStreak      \* ghost: operations that failed since the last success or probe

vars == <<circuitBreaker, status, inFlight, failureStreak>>

CircuitBreakerSpec ==
    [errorThreshold : ErrorThresholds, successThreshold : SuccessThresholds]

Init ==
    /\ circuitBreaker \in CircuitBreakerSpec
    /\ status = NewCircuit
    /\ inFlight = FALSE
    /\ failureStreak = 0

-----------------------------------------------------------------------------

ShouldAllow ==
    /\ ~inFlight
    /\ status' = AfterShouldAllow(status)
    /\ inFlight' = Allows(status)
    /\ failureStreak' = IF TimedOut(status) THEN 0 ELSE failureStreak
    /\ UNCHANGED circuitBreaker

RecordSuccess ==
    /\ inFlight
    /\ status.consecutiveSuccesses < MaxCount
    /\ status' = AfterSuccess(circuitBreaker, status)
    /\ inFlight' = FALSE
    /\ failureStreak' = 0
    /\ UNCHANGED circuitBreaker

RecordFailure ==
    /\ inFlight
    /\ status' = AfterFailure(circuitBreaker, status)
    /\ inFlight' = FALSE
    /\ failureStreak' = failureStreak + 1
    /\ UNCHANGED circuitBreaker

Tick ==
    /\ status' = Aged(status)
    /\ UNCHANGED <<circuitBreaker, inFlight, failureStreak>>

Next == ShouldAllow \/ RecordSuccess \/ RecordFailure \/ Tick

Spec == Init /\ [][Next]_vars

\* The clock runs and the caller keeps asking: the controller requeues the
\* key of every pass that the breaker refused.
FairSpec == Spec /\ WF_vars(Tick) /\ WF_vars(ShouldAllow)

-----------------------------------------------------------------------------

TypeOK ==
    /\ circuitBreaker \in CircuitBreakerSpec
    /\ status \in CircuitStatus
    /\ inFlight \in BOOLEAN
    /\ failureStreak \in Nat

(* An open circuit lets nothing run: no operation admitted before it opened *)
(* is still in flight, and none is admitted until it half-opens             *)
(* (circuit_breaker.go:30-47).                                              *)
OpenMeansIdle == status.circuitState = "Open" => ~inFlight

(* A closed circuit opens with the failure that makes the streak as long as *)
(* the threshold, with no earlier one and with nothing else: no count left  *)
(* behind by a success, a probe or a return to Closed opens it early or     *)
(* keeps it closed too long (circuit_breaker.go:60-83, 95-113;              *)
(* ARCHITECTURE.md:267).                                                    *)
OpensOnStreak ==
    [][status.circuitState = "Closed" =>
         (status'.circuitState = "Open"
            <=> failureStreak' >= ErrorLimit(circuitBreaker))]_vars

(* The probes counted towards closing all belong to this half-open spell:   *)
(* a HalfOpen circuit has counted fewer than the limit, and has none        *)
(* counted while a failure is the latest outcome (circuit_breaker.go:41,    *)
(* 66-78, 95).                                                              *)
ProbesCounted ==
    /\ status.circuitState = "HalfOpen"
         => status.consecutiveSuccesses < SuccessLimit(circuitBreaker)
    /\ status.consecutiveErrors > 0 => status.consecutiveSuccesses = 0

(* The breaker keeps the contract callers rely on (BreakerContract): the    *)
(* counters in the status are an implementation of the observed streaks.    *)
Contract == INSTANCE BreakerContract WITH
    limits    <- [failures  |-> ErrorLimit(circuitBreaker),
                  successes |-> SuccessLimit(circuitBreaker)],
    circuit   <- status.circuitState,
    running   <- inFlight,
    failures  <- failureStreak,
    successes <- IF status.circuitState = "HalfOpen"
                 THEN status.consecutiveSuccesses ELSE 0

KeepsContract == Contract!Spec

(* A circuit that has opened is probed again: as long as the caller keeps   *)
(* asking, time gets it out of Open (circuit_breaker.go:36-45).  This needs *)
(* some outcome recorded before the failure that opened it: with an         *)
(* errorThreshold of 1 the first failure opens a circuit that has no        *)
(* LastUpdateTime, and that one stays open (circuit_breaker.go:36, 106-     *)
(* 112).                                                                    *)
OpenIsProbed ==
    status.circuitState = "Open" /\ status.sinceUpdate # Never
        ~> status.circuitState = "HalfOpen"

(* What ARCHITECTURE.md:270 says, "Half-Open --[any failure]--> Open".  The *)
(* code reopens at the threshold only (circuit_breaker.go:106).             *)
HalfOpenFailureReopens ==
    [][RecordFailure /\ status.circuitState = "HalfOpen"
         => status'.circuitState = "Open"]_vars

=============================================================================
