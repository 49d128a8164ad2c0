---------------------------- MODULE OOMDetector ----------------------------
(***************************************************************************)
(* OOMDetector (pkg/safety/oom_detector.go): what a scan of a namespace    *)
(* finds out about out-of-memory kills, and the history it leaves.  A pod  *)
(* is [name, owner, containers]: its name and its owner's are sequences of *)
(* the segments between dashes, a container is [restarts, last, current]   *)
(* where last and current are the times of its last and its present        *)
(* termination if that was a kill, 0 if not.  Boosts are percents.         *)
(***************************************************************************)
EXTENDS Integers, Sequences, SequencesExt, FiniteSetsExt

CONSTANTS
    Boosts,       \* calculateMemoryBoost: <<restarts, percent>>, highest first
    TicksPerHour  \* ticks of the clock in an hour

ASSUME OOMAssumption ==
    /\ Boosts \in Seq(Nat \X Nat) /\ Boosts # <<>>
    /\ \A i \in DOMAIN Boosts : Boosts[i][2] > 100
    /\ Boosts[Len(Boosts)][1] = 0
    /\ \A i \in 1..(Len(Boosts) - 1) :
           Boosts[i][1] > Boosts[i + 1][1] /\ Boosts[i][2] > Boosts[i + 1][2]

WithoutLast(name, k) == IF Len(name) > k THEN SubSeq(name, 1, Len(name) - k) ELSE name

extractDeploymentName(replicaSetName) == WithoutLast(replicaSetName, 1)

extractWorkloadFromPodName(podName) == WithoutLast(podName, 2)

\* A pod has at most one controlling owner.
extractWorkloadNameFromPod(pod) ==
    CASE pod.owner.kind = "ReplicaSet" -> extractDeploymentName(pod.owner.name)
      [] pod.owner.kind \in {"StatefulSet", "DaemonSet"} -> pod.owner.name
      [] OTHER -> extractWorkloadFromPodName(pod.name)

calculateMemoryBoost(restarts) ==
    Boosts[CHOOSE i \in DOMAIN Boosts :
        restarts >= Boosts[i][1] /\ \A j \in 1..(i - 1) : restarts < Boosts[j][1]][2]

Latest(t, u) == IF t > u THEN t ELSE u

\* The count is that of all restarts, for whatever reason.
checkContainerForOOM(status) ==
    [count |-> status.restarts,
     last |-> Latest(status.last, status.current),
     restarts |-> status.restarts,
     boost |-> calculateMemoryBoost(status.restarts)]

checkPodForOOM(pod) ==
    LET killed == {c \in DOMAIN pod.containers :
                       pod.containers[c].last > 0 \/ pod.containers[c].current > 0}
    IN [c \in killed |-> checkContainerForOOM(pod.containers[c])]

countOOMs(found) == FoldSet(LAMBDA c, n : found[c].count + n, 0, DOMAIN found)

getLatestOOMTime(found) == Max({0} \cup {found[c].last : c \in DOMAIN found})

\* Field by field the larger of two.
mergeContainerOOMs(existing, new) ==
    [c \in DOMAIN existing \cup DOMAIN new |->
        CASE c \notin DOMAIN new -> existing[c]
          [] c \notin DOMAIN existing -> new[c]
          [] OTHER -> [f \in DOMAIN new[c] |-> Latest(existing[c][f], new[c][f])]]

-----------------------------------------------------------------------------
\* The history of one workload.

NoHistory == [containers |-> <<>>, total |-> 0, last |-> 0]

\* Mutated: the time of the last kill is overwritten by an earlier one.
UpdatedContainerLastTime(existing, c) ==
    [count |-> Latest(existing.count, c.count), last |-> c.last,
     restarts |-> c.restarts, boost |-> c.boost]

\* Count and time are the largest there were, restarts and boost the last pod's.
UpdatedContainer(existing, c) ==
    [count |-> Latest(existing.count, c.count), last |-> Latest(existing.last, c.last),
     restarts |-> c.restarts, boost |-> c.boost]

\* A kill is counted again by every scan that still sees it.
updateOOMHistory(history, found) ==
    [containers |->
        [c \in DOMAIN history.containers \cup DOMAIN found |->
            CASE c \notin DOMAIN found -> history.containers[c]
              [] c \notin DOMAIN history.containers -> found[c]
              [] OTHER -> UpdatedContainer(history.containers[c], found[c])],
     total |-> history.total + countOOMs(found),
     last |-> Latest(history.last, getLatestOOMTime(found))]

calculatePriority(total, last, now) ==
    LET Within(hours) == now - last < hours * TicksPerHour IN
    IF Within(1) \/ total > 20 THEN "Critical"
    ELSE IF Within(24) \/ total > 10 THEN "High"
    ELSE IF Within(168) \/ total > 3 THEN "Medium"
    ELSE "Low"

\* The result of a scan for one workload; the pods are in the listing's order.
Aggregated(pods, now) ==
    LET found == [i \in DOMAIN pods |-> checkPodForOOM(pods[i])]
        total == FoldSet(LAMBDA i, n : countOOMs(found[i]) + n, 0, DOMAIN pods)
        last == FoldSet(LAMBDA i, t : Latest(getLatestOOMTime(found[i]), t), 0, DOMAIN pods)
    IN [affected |-> FoldLeft(mergeContainerOOMs, <<>>, found),
        total |-> total,
        last |-> last,
        priority |-> calculatePriority(total, last, now)]

\* Its effect on the history of one workload: that of its pods in which a
\* container was killed, one after the other.
CheckNamespaceForOOMs(history, workload, pods) ==
    LET after[n \in 0..Len(pods)] ==
            IF n = 0 THEN history
            ELSE LET found == checkPodForOOM(pods[n]) IN
                 IF DOMAIN found = {} \/ extractWorkloadNameFromPod(pods[n]) # workload
                 THEN after[n - 1]
                 ELSE updateOOMHistory(after[n - 1], found)
    IN  after[Len(pods)]

\* 100 if there is no history.
GetMemoryBoostFactor(history, container) ==
    IF container \in DOMAIN history.containers THEN history.containers[container].boost
    ELSE 100

ClearOOMHistory(history, cutoff) == IF history.last < cutoff THEN NoHistory ELSE history

=============================================================================
