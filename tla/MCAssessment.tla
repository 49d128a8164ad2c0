---------------------------- MODULE MCAssessment ----------------------------
EXTENDS Assessment

BoostSteps == <<<<3, 150>>, <<1, 130>>, <<0, 120>>>>

App == <<"app">>

PodOf(name, owner, restarts, last, current) ==
    [name |-> name, owner |-> owner,
     containers |-> [main |-> [restarts |-> restarts, last |-> last, current |-> current]]]

Owner(kind, name) == [kind |-> kind, name |-> name]

AppPod(restarts, last, current) ==
    PodOf(<<"app", "rs", "1">>, Owner("ReplicaSet", <<"app", "rs">>), restarts, last, current)

PodStates ==
    {AppPod(0, 0, 0), AppPod(1, 3, 0), AppPod(2, 0, 5),
     PodOf(<<"app", "rs", "2">>, Owner("none", <<>>), 4, 2, 0),
     PodOf(<<"db", "0">>, Owner("StatefulSet", <<"db">>), 7, 8, 0)}

Listings == {<<p>> : p \in PodStates} \cup {<<p, q>> : p, q \in PodStates}

KillHistories2 == [scans : {<<l, m>> : l, m \in Listings}, cutoff : {0, 4}]

PolicyOf(condition, action, limit, priority, enabled) ==
    [name |-> "p", condition |-> condition, action |-> action, limit |-> limit,
     priority |-> priority, enabled |-> enabled]

PolicyChoices ==
    {PolicyOf("a", "deny", None, 1, TRUE), PolicyOf("b", "skip_scaledown", None, 1, TRUE),
     PolicyOf("a", "set_max_memory", Whole(2, "K"), 2, TRUE),
     PolicyOf("b", "set_min_cpu", Quantity(0, TRUE, ""), 2, TRUE),
     PolicyOf("a", "require_approval", None, 3, FALSE),
     PolicyOf("b", "set_max_cpu", Unparsable, 3, TRUE)}

Recommended(changeType) == [cpu |-> 3, memory |-> 40, changeType |-> changeType]

PolicyCases3 ==
    [policies : {s \in SUBSET PolicyChoices : Cardinality(s) <= 3},
     default : {None, "deny"},
     context : [says : [{"a", "b"} -> {TRUE, FALSE, Fails}],
                recommendation : {Recommended("scaledown"), Recommended("scaleup")}]]

Usages ==
    {[current |-> c, average |-> u[1], p95 |-> u[2], p99 |-> u[3], peak |-> u[4]] :
        c \in {100, 400}, u \in {<<0, 0, 0, 0>>, <<100, 100, 100, 100>>, <<50, 80, 120, 200>>,
                                 <<90, 200, 210, 220>>}}

Workloads64 == [cpu : Usages, memory : Usages, confidence : {10, 80}]

SLAOf(type, target, percentile) ==
    [name |-> "sla", type |-> type, target |-> target, threshold |-> 1,
     percentile |-> percentile, window |-> 2]

SLAs7 ==
    {SLAOf("latency", 4, 95), SLAOf("latency", 4, 0), SLAOf("error_rate", 4, 0),
     SLAOf("availability", 60, 0), SLAOf("throughput", 4, 0), SLAOf("startup_time", 4, 50),
     SLAOf("startup_time", 4, 0)}

Reading(at, value) == [at |-> at, value |-> value]

\* The first may be from before the window.
ReadingLists ==
    {[i \in DOMAIN v |-> Reading(IF i = 1 THEN first ELSE 9, v[i])] :
        first \in {1, 9}, v \in UNION {[1..n -> {0, 1, 5, 12}] : n \in 0..3}
                                \cup [1..5 -> {1, 12}]}

\* Ten readings of 0, one of 1 and ten of 100: eleven are outliers.
Crowded == [i \in 1..21 |-> Reading(9, IF i <= 10 THEN 0 ELSE IF i = 11 THEN 1 ELSE 100)]

Befores == {<<>>, <<Reading(9, 1), Reading(9, 12)>>}

HealthCases7 == [sla : SLAs7, before : Befores, readings : ReadingLists \cup {Crowded}]

\* Steady or alternating, with up to two spikes.
Series10 ==
    {[i \in 1..n |-> IF i = p THEN s ELSE IF i = q THEN t
                     ELSE IF i % 3 = 0 THEN 4 + steady ELSE 4] :
        n \in {4, 10, 12}, p \in {1, 6}, q \in {2, 7, 12}, s, t \in {1, 6, 30}, steady \in {0, 1}}

Labels == {"x", "y"}

Amount(n, percent) == [n |-> n, percent |-> percent]

PDBs ==
    {[selector |-> s, minAvailable |-> a[1], maxUnavailable |-> a[2]] :
        s \in {{"x"}, {"z"}, Unset, Broken},
        a \in {<<Unset, Unset>>, <<Amount(0, FALSE), Unset>>, <<Amount(2, FALSE), Unset>>,
               <<Amount(50, TRUE), Unset>>, <<Unset, Amount(0, FALSE)>>,
               <<Unset, Amount(1, FALSE)>>, <<Unset, Amount(34, TRUE)>>}}

HPAs ==
    {<<>>, <<[target |-> [kind |-> "Deployment", name |-> "app"],
              metrics |-> {[type |-> "Resource", name |-> "cpu"],
                           [type |-> "Pods", name |-> "memory"]}]>>}

Disruptions3 ==
    [pdbs : {<<>>} \cup {<<p>> : p \in PDBs} \cup {<<p, q>> : p, q \in PDBs},
     hpas : HPAs,
     workload : {[kind |-> "Deployment", name |-> "app", labels |-> Labels,
                  replicas |-> 3, available |-> a] : a \in 0..4}]

=============================================================================
