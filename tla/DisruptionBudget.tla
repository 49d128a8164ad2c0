-------------------------- MODULE DisruptionBudget --------------------------
(***************************************************************************)
(* PDB and HPA checkers (pkg/safety).  A workload is [kind, name, labels,  *)
(* replicas, available]; a budget [selector, minAvailable, maxUnavailable] *)
(* whose selector is a set of labels, Unset or Broken, and whose amounts   *)
(* are [n, percent] or Unset.  Lists are in the order of the answer.       *)
(***************************************************************************)
EXTENDS Integers, Sequences, SequencesExt

CONSTANTS
    Unset,   \* a pointer of a budget that is nil
    Broken   \* a selector that cannot be converted

Kinds == {"Deployment", "StatefulSet", "DaemonSet"}

\* A percentage is rounded up.
calculateIntOrPercent(value, total) ==
    IF value.percent THEN (value.n * total + 99) \div 100 ELSE value.n

\* An empty selector selects everything.
Selects(pdb, labels) ==
    IF pdb.selector \in {Unset, Broken} THEN FALSE ELSE pdb.selector \subseteq labels

\* The first that selects; the others are not looked at.
findMatchingPDB(pdbs, labels) ==
    LET matching == {i \in DOMAIN pdbs : Selects(pdbs[i], labels)}
    IN IF matching = {} THEN Unset
       ELSE pdbs[CHOOSE i \in matching : \A j \in matching : i <= j]

Result(hasPDB, safe, minAvailable, maxUnavailable) ==
    [hasPDB |-> hasPDB, safe |-> safe, minAvailable |-> minAvailable,
     maxUnavailable |-> maxUnavailable]

\* A budget that gives neither amount permits nothing.
CheckPDBSafety(pdbs, workload, planned) ==
    LET pdb == findMatchingPDB(pdbs, workload.labels)
        Amount(value) == calculateIntOrPercent(value, workload.replicas)
    IN IF pdb = Unset THEN Result(FALSE, TRUE, 0, 0)
       ELSE IF pdb.minAvailable # Unset
       THEN Result(TRUE, workload.available - planned >= Amount(pdb.minAvailable),
                   Amount(pdb.minAvailable), 0)
       ELSE IF pdb.maxUnavailable # Unset
       THEN Result(TRUE,
                   workload.replicas - workload.available + planned <= Amount(pdb.maxUnavailable),
                   0, Amount(pdb.maxUnavailable))
       ELSE Result(TRUE, FALSE, 0, 0)

\* Mutated: pods that are down already are not subtracted.
RoomIgnoringUnavailable(workload, maxUnavailable) == maxUnavailable

Room(workload, maxUnavailable) ==
    maxUnavailable - (workload.replicas - workload.available)

\* Nothing where the amounts are zero; less than nothing where they are missed.
CalculateSafeDisruptionBudget(pdbs, workload) ==
    LET result == CheckPDBSafety(pdbs, workload, 0) IN
    CASE ~result.hasPDB -> workload.replicas
      [] result.minAvailable > 0 -> workload.available - result.minAvailable
      [] result.minAvailable <= 0 /\ result.maxUnavailable > 0 ->
             Room(workload, result.maxUnavailable)
      [] OTHER -> 0

-----------------------------------------------------------------------------

\* Without a name any workload of the kind is meant.
isTargetingWorkload(hpa, kind, name) ==
    /\ kind \in Kinds
    /\ hpa.target.kind = kind
    /\ name = "" \/ hpa.target.name = name

\* A metric is [type, name]; only whole pods' resources are looked at.
getConflictingMetrics(hpa) ==
    {m.name : m \in {n \in hpa.metrics : n.type = "Resource" /\ n.name \in {"cpu", "memory"}}}

\* The metrics of the first that conflicts, none without one.
CheckHPAConflict(hpas, kind, name) ==
    LET conflicting == SelectSeq(hpas, LAMBDA h : /\ isTargetingWorkload(h, kind, name)
                                                  /\ getConflictingMetrics(h) # {})
    IN IF conflicting = <<>> THEN {} ELSE getConflictingMetrics(Head(conflicting))

=============================================================================
