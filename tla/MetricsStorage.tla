--------------------------- MODULE MetricsStorage ---------------------------
(***************************************************************************)
(* InMemoryStorage (pkg/storage/memory.go): the samples of every pod, as   *)
(* operators on the map "history" from pods to sequences of samples.  A    *)
(* pod without an entry has the empty sequence.  A sample has at least the *)
(* fields "pod" and "at", its timestamp.  Every method holds the mutex     *)
(* from its first to its last access, so each operator is one step.        *)
(***************************************************************************)
EXTENDS Naturals, Sequences, FiniteSets

NewStorage(Pods) == [p \in Pods |-> <<>>]

\* Mutated: the new sample is put in front.
AddedInFront(history, sample) == [history EXCEPT ![sample.pod] = <<sample>> \o @]

Added(history, sample) == [history EXCEPT ![sample.pod] = Append(@, sample)]

\* Mutated: a pod is cleaned up as a whole, once its latest sample is too old.
CleanedUpPods(history, cutoff) ==
    [p \in DOMAIN history |->
        IF \E i \in DOMAIN history[p] : history[p][i].at > cutoff THEN history[p] ELSE <<>>]

\* The loop over one pod's samples: validMetrics, result.  One as old as the
\* cutoff is left out.
After(samples, cutoff) ==
    LET valid[n \in 0..Len(samples)] ==
            IF n = 0 THEN <<>>
            ELSE IF samples[n].at > cutoff THEN Append(valid[n - 1], samples[n])
            ELSE valid[n - 1]
    IN  valid[Len(samples)]

CleanedUp(history, cutoff) == [p \in DOMAIN history |-> After(history[p], cutoff)]

Synced(history, activePods) ==
    [p \in DOMAIN history |-> IF p \in activePods THEN history[p] ELSE <<>>]

\* GetMetricsByNamespace, pod by pod: the order in which the pods follow each
\* other is that of a Go map, any.
NewerThan(history, cutoff) == [p \in DOMAIN history |-> After(history[p], cutoff)]

Times(samples) == {samples[i].at : i \in DOMAIN samples}

=============================================================================
