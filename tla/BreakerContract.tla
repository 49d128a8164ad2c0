-------------------------- MODULE BreakerContract --------------------------
(***************************************************************************)
(* What a circuit breaker promises its caller, whatever counters and       *)
(* timestamps it keeps: a streak of failed operations, and only that,      *)
(* opens it when it is closed; a streak of them, or a failed probe,        *)
(* reopens it; nothing runs while it is open; it leaves Open only for      *)
(* HalfOpen, where operations are let through as probes; and only a run of *)
(* successful probes closes it.                                            *)
(*                                                                         *)
(* The state is what an observer of the operations sees: where the circuit *)
(* is, whether an operation is running, and how the last operations ended. *)
(***************************************************************************)
EXTENDS Naturals

VARIABLES
    limits,    \* how many failures open it, how many successful probes close it
    circuit,   \* "Closed", "Open" or "HalfOpen"
    running,   \* an operation has been admitted and has not reported yet
    failures,  \* operations that failed in a row
    successes  \* operations that succeeded in a row since the circuit half-opened

contractVars == <<limits, circuit, running, failures, successes>>

Init ==
    /\ limits \in [failures : Nat \ {0}, successes : Nat \ {0}]
    /\ circuit = "Closed"
    /\ running = FALSE
    /\ failures = 0
    /\ successes = 0

Admit ==
    /\ circuit # "Open"
    /\ ~running
    /\ running' = TRUE
    /\ UNCHANGED <<limits, circuit, failures, successes>>

\* Leaving Open takes the first probe with it, and starts both streaks anew.
Probe ==
    /\ circuit = "Open"
    /\ circuit' = "HalfOpen"
    /\ running' = TRUE
    /\ failures' = 0
    /\ successes' = 0
    /\ UNCHANGED limits

\* Closing is due exactly when the streak of probes is long enough.
Succeed ==
    /\ running
    /\ running' = FALSE
    /\ failures' = 0
    /\ IF circuit = "HalfOpen"
       THEN IF successes + 1 >= limits.successes
            THEN circuit' = "Closed" /\ successes' = 0
            ELSE successes' = successes + 1 /\ UNCHANGED circuit
       ELSE UNCHANGED <<circuit, successes>>
    /\ UNCHANGED limits

\* Opening is due when the streak of failures is long enough, and not before
\* in Closed.  Whether a single failed probe reopens the circuit is left open
\* here: ARCHITECTURE.md:270 says that it does, the code waits for the streak;
\* HalfOpenFailureReopens of BreakerProtocol is about that.
Fail ==
    /\ running
    /\ running' = FALSE
    /\ failures' = failures + 1
    /\ successes' = 0
    /\ circuit' \in IF failures + 1 >= limits.failures THEN {"Open"}
                   ELSE IF circuit = "HalfOpen" THEN {"HalfOpen", "Open"}
                   ELSE {circuit}
    /\ UNCHANGED limits

Next == Admit \/ Probe \/ Succeed \/ Fail

Spec == Init /\ [][Next]_contractVars

=============================================================================
