----------------------------- MODULE Statistics -----------------------------
(***************************************************************************)
(* What the statistics of pkg/sla and pkg/anomaly are made of: the sum of  *)
(* values, their ascending order, and a selection that keeps their order.  *)
(***************************************************************************)
EXTENDS Integers, Sequences, FiniteSets, Functions

Sum(values) ==
    LET upto[n \in 0..Len(values)] == IF n = 0 THEN 0 ELSE upto[n - 1] + values[n]
    IN  upto[Len(values)]

\* The k-th of the sorted values: fewer than k are smaller, at least k are not larger.
Ascending(values) ==
    [k \in DOMAIN values |->
        CHOOSE v \in Range(values) :
            /\ Cardinality({i \in DOMAIN values : values[i] < v}) < k
            /\ k <= Cardinality({i \in DOMAIN values : values[i] <= v})]

\* The values at the indices of kept, in their order.
Only(values, kept) ==
    LET At(k) == CHOOSE i \in kept : Cardinality({j \in kept : j < i}) = k - 1
    IN  [k \in 1..Cardinality(kept) |-> values[At(k)]]

=============================================================================
