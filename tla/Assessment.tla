----------------------------- MODULE Assessment -----------------------------
(***************************************************************************)
(* The assessments that other parts of the controller ask for: out of      *)
(* memory kills, policies, Pareto choices, health, anomalies, disruption   *)
(* budgets.  Each is asked one question at a time, from a set that is      *)
(* given for it, and the answer is what the code makes of the question.    *)
(* The properties compare answers with what they are meant to say.         *)
(***************************************************************************)
EXTENDS OOMDetector, PolicyEngine, Pareto, SLA, Anomaly, DisruptionBudget

CONSTANTS
    KillHistories,  \* [scans, cutoff]: a sequence of listings of a namespace's pods
    Watched,        \* the workload whose history is asked for
    PolicyCases,    \* [policies, default, context]
    Workloads,      \* of module Pareto
    HealthCases,    \* [sla, before, readings], before a change and after; now is Today
    Today,
    Series,         \* sequences of readings of a workload
    Disruptions     \* [pdbs, hpas, workload]

\* An amount of a budget: a number of pods, or a percentage.
IsAmount(value) == value # Unset => value.n \in Nat /\ value.percent \in BOOLEAN

\* What a kubelet reports of a container.
IsStatus(c) ==
    c.restarts \in Nat /\ c.last \in Nat /\ c.current \in Nat

IsPod(pod) ==
    /\ IsFiniteSet(DOMAIN pod.containers)
    /\ \A c \in DOMAIN pod.containers : IsStatus(pod.containers[c])

\* What a container used and asked for.
IsUsage(usage) ==
    usage \in [current : Nat, average : Nat, peak : Nat, p95 : Nat, p99 : Nat]

ASSUME AssessmentAssumption ==
    /\ Today \in Int
    /\ \A h \in KillHistories :
           /\ h.scans \in Seq(Range(h.scans)) /\ h.cutoff \in Int
           /\ \A listing \in Range(h.scans) :
                  listing \in Seq(Range(listing)) /\ \A pod \in Range(listing) : IsPod(pod)
    /\ \A c \in PolicyCases :
           IsFiniteSet(c.policies) /\ \A p \in c.policies : p.priority \in Int
    /\ \A w \in Workloads :
           IsUsage(w.cpu) /\ IsUsage(w.memory) /\ w.confidence \in Nat
    /\ \A c \in HealthCases :
           /\ c.sla.target \in Int /\ c.sla.threshold \in Int /\ c.sla.window \in Int
           /\ ValidateSLADefinition(c.sla)
           /\ c.readings \in Seq([at : Int, value : Nat])
    /\ \A values \in Series : values \in Seq(Int)
    /\ \A d \in Disruptions :
           /\ d.workload.replicas \in Nat /\ d.workload.available \in Nat
           /\ DOMAIN d.pdbs \subseteq Nat
           /\ \A i \in DOMAIN d.pdbs :
                  IsAmount(d.pdbs[i].minAvailable) /\ IsAmount(d.pdbs[i].maxUnavailable)

VARIABLES question, answer

vars == <<question, answer>>

Nothing == [about |-> "nothing"]

Init == question = Nothing /\ answer = Nothing

Answered(about, subject, verdict) ==
    /\ question = Nothing
    /\ question' = [about |-> about, subject |-> subject]
    /\ answer' = [about |-> about, verdict |-> verdict]

PodsOf(listing) == SelectSeq(listing, LAMBDA p : extractWorkloadNameFromPod(p) = Watched)

\* The history after the scans, one after the other.
Scanned(scans) ==
    LET after[n \in 0..Len(scans)] ==
            IF n = 0 THEN NoHistory
            ELSE CheckNamespaceForOOMs(after[n - 1], Watched, scans[n])
    IN  after[Len(scans)]

\* Scans, then a clearing.
ScanForOOMs ==
    \E h \in KillHistories :
        Answered("kills", h,
                 [history |-> ClearOOMHistory(Scanned(h.scans), h.cutoff),
                  latest |-> Aggregated(PodsOf(Last(h.scans)), Today)])

DecideByPolicy ==
    \E c \in PolicyCases :
        \E engine \in LoadPolicies([policies |-> <<>>, default |-> "allow"],
                                   c.policies, c.default) :
            Answered("policy", c, Evaluate(engine, c.context))

ChooseSolution ==
    \E w \in Workloads : Answered("solution", w, GenerateRecommendation(w))

CheckSystemHealth ==
    \E c \in HealthCases :
        LET Check(readings) == CheckHealth(<<>>, <<c.sla>>, readings, Today)
            impact == CompareHealth(Check(c.before), Check(c.readings))
        IN Answered("health", c,
                    [check |-> Check(c.readings),
                     blocked |-> ShouldBlockOptimization(Check(c.readings)),
                     rollback |-> ShouldRollback(impact),
                     recommendation |-> generateRecommendation(impact),
                     chart |-> GenerateChart(Values(c.readings), 3, 3)])

Metrics1(values) == [i \in DOMAIN values |-> <<[cpu |-> values[i], memory |-> 1]>>]

LookForAnomalies ==
    \E values \in Series : Answered("anomaly", values, CheckWorkload(Metrics1(values)))

CheckDisruption ==
    \E d \in Disruptions :
        Answered("disruption", d,
                 [budget |-> CalculateSafeDisruptionBudget(d.pdbs, d.workload),
                  conflict |-> CheckHPAConflict(d.hpas, d.workload.kind, d.workload.name)])

Dismiss == question # Nothing /\ question' = Nothing /\ answer' = Nothing

Next ==
    \/ ScanForOOMs \/ DecideByPolicy \/ ChooseSolution
    \/ CheckSystemHealth \/ LookForAnomalies \/ CheckDisruption
    \/ Dismiss

Spec == Init /\ [][Next]_vars

-----------------------------------------------------------------------------
(***************************************************************************)
(* The properties.                                                         *)
(***************************************************************************)

Asked(about) == question.about = about

\* The latest kill that a listing of a pod tells of.
Kill(c) == Max({c.last, c.current})

OfWatched(pods) == {p \in pods : extractWorkloadNameFromPod(p) = Watched}

\* What the pods report of the containers of this name that were killed.
Dead(pods, name) ==
    {c \in {r[name] : r \in {k \in {pod.containers : pod \in pods} : name \in DOMAIN k}} :
        Kill(c) > 0}

\* What the history keeps of the kills that a series of scans told of.
KillsIn(h, history) ==
    LET pods == OfWatched(UNION {Range(h.scans[i]) : i \in DOMAIN h.scans})
        kills == {pod.containers : pod \in pods}
        names == {n \in UNION {DOMAIN k : k \in kills} : Dead(pods, n) # {}}
        latest == Max({0} \cup {Max({Kill(c) : c \in Dead(pods, n)}) : n \in names})
    IN latest >= h.cutoff =>
           \A n \in names :
               /\ n \in DOMAIN history.containers
               /\ LET c == history.containers[n] IN
                  /\ c.last = Max({Kill(d) : d \in Dead(pods, n)})
                  /\ c.count = Max({d.restarts : d \in Dead(pods, n)})
               /\ GetMemoryBoostFactor(history, n) > 100

(***************************************************************************)
(* Pods come and go between scans and are listed in any order, and what a  *)
(* container reports is overwritten by the next listing: still its latest  *)
(* kill, and the highest count there was, stay in the history until the    *)
(* kill is older than the cutoff, and call for a boost (updateOOMHistory). *)
(***************************************************************************)
KillsRemembered ==
    Asked("kills") => KillsIn(question.subject, answer.verdict.history)

\* The verdict on a case is what its policies ask for.
DecidedBy(c, verdict) ==
    LET matching == {p \in c.policies : p.enabled /\ c.context.says[p.condition] = TRUE}
        top == {p \in matching : \A q \in matching : q.priority <= p.priority}
    IN IF \E p \in c.policies : ~ValidPolicy(p)
       THEN verdict = Decision("allow", None, None)
       ELSE IF top = {}
       THEN verdict.action = IF c.default = None THEN "allow" ELSE c.default
       ELSE verdict \in {applyAction(p, c.context.recommendation) : p \in top}

(***************************************************************************)
(* However the sort leaves policies of the same priority, the decision is  *)
(* that of a matching policy with the highest priority, and the default    *)
(* only without one; a file with one bad policy changes nothing            *)
(* (LoadPolicies, Evaluate).                                               *)
(***************************************************************************)
PolicyDecides ==
    Asked("policy") => DecidedBy(question.subject, answer.verdict)

\* What is chosen from a result is the best of all its candidates.
BestOf(result) ==
    LET all == result.all
        Choice(profile) == GetRecommendationForProfile(result, profile)
    IN \A s \in Range(all) :
           /\ Advantage(s, Choice("production"), "reliability") <= 0
           /\ Advantage(s, Choice("test"), "cost") <= 0
           /\ Advantage(s, Choice("performance"), "performance") <= 0
           /\ CalculateOverallScore(s, all) <= CalculateOverallScore(Choice("staging"), all)

(***************************************************************************)
(* Only the frontier is searched, and yet no candidate at all is more      *)
(* reliable than the choice for production, cheaper than that for test and *)
(* development, roomier than that for performance, or higher in the        *)
(* weighted score than the best (SelectBestForProfile, findBestSolution).  *)
(***************************************************************************)
ChoicesAreBest ==
    Asked("solution") => BestOf(answer.verdict.result)

\* A reading that misses what an SLA asks for; alone, it makes all or nothing available.
Misses(sla, value) ==
    CASE sla.type = "availability" ->
             (IF value > 0 THEN 100 ELSE 0) < sla.target - sla.threshold
      [] sla.type = "throughput" -> value < sla.target - sla.threshold
      [] OTHER -> value > sla.target + sla.threshold

(***************************************************************************)
(* A violation is found only if some reading inside the window misses the  *)
(* SLA, and always if all of them do, whichever way the type aggregates    *)
(* them: percentile, average, share or one by one (checkSLAViolations).    *)
(***************************************************************************)
BreachesAreBacked ==
    Asked("health") =>
        LET c == question.subject
            recent == {r \in Range(c.readings) : Today - r.at < c.sla.window}
            found == answer.verdict.check.violations[c.sla.name] # <<>>
        IN /\ found => \E r \in recent : Misses(c.sla, r.value)
           /\ (recent # {} /\ \A r \in recent : Misses(c.sla, r.value)) => found

(***************************************************************************)
(* Outliers cost points of the score, so they must not be the rule.  The   *)
(* screening by the median finds fewer than half of the readings, and the  *)
(* correction with limits from what it left adds fewer than a ninth of     *)
(* these: fewer than five ninths are found.  More than half is possible,   *)
(* from 21 readings on (DetectOutliers).                                   *)
(***************************************************************************)
OutliersAreFew ==
    (Asked("health") /\ question.subject.readings # <<>>) =>
        9 * Cardinality(answer.verdict.check.outliers) < 5 * Len(question.subject.readings)

(***************************************************************************)
(* Bytes or megabytes, with a constant load more or less, a spike or the   *)
(* drop that mirrors it: the same readings are anomalies and the same      *)
(* workloads are blocked (CheckWorkload).                                  *)
(***************************************************************************)
UnitsDoNotMatter ==
    Asked("anomaly") =>
        LET values == question.subject
            highest == Max(Range(values))
            units == {values, [i \in DOMAIN values |-> 2 * values[i] + 3],
                      [i \in DOMAIN values |-> highest - values[i]]}
            verdicts == {CheckWorkload(metrics) : metrics \in {Metrics1(u) : u \in units}}
            Indices(verdict) == {f.index : f \in verdict.cpu}
        IN \A v \in verdicts :
               /\ v.block = answer.verdict.block
               /\ Indices(v) = Indices(answer.verdict)

(***************************************************************************)
(* No disruption within the calculated budget fails the check that guards  *)
(* an update; and where the amount that applies, a minimum or a maximum,   *)
(* comes to more than zero, the check passes exactly the disruptions       *)
(* within the budget, be it positive, used up or overdrawn                 *)
(* (CalculateSafeDisruptionBudget, CheckPDBSafety).  Where that amount is  *)
(* zero, the calculation answers 0 without looking at the pods             *)
(* (pdb_checker.go:190-199), although the check lets every available pod   *)
(* go under a minimum of zero.                                             *)
(***************************************************************************)
BudgetIsAllowed ==
    Asked("disruption") =>
        LET d == question.subject
            Check(planned) == CheckPDBSafety(d.pdbs, d.workload, planned)
            applies == Check(0)
            budget == answer.verdict.budget
        IN /\ \A planned \in 1..budget : Check(planned).safe
           /\ applies.minAvailable > 0 \/ applies.maxUnavailable > 0 =>
                 \A planned \in 0..(d.workload.replicas + d.workload.available) :
                     Check(planned).safe <=> planned <= budget

=============================================================================
