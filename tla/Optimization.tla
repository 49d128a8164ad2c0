---------------------------- MODULE Optimization ----------------------------
(***************************************************************************)
(* What the reconciler makes of the metrics: the recommendation engine,    *)
(* the settings of the profile and the formatting of quantities, composed  *)
(* as in processRecommendations, around one Deployment with one container. *)
(* No OOM provider is given to the engine, as in the reconciler.  Load,    *)
(* the rollout of a new template, scaling, whoever fills the storage and   *)
(* the clock are the environment.                                          *)
(***************************************************************************)
EXTENDS RecommendationEngine, Profiles, SpecValidator, MetricsStorage

CONSTANTS
    PodNames,   \* names its pods may get, as segments
    Workload,   \* its name, as segments
    Container,  \* its container
    Specs,      \* specs a user may have
    Templates,  \* requests it may have before the first pass
    Usages,     \* [usageCPU, usageMemory] of a pod
    Horizon,    \* bound: the last tick
    MaxUpdates  \* bound: updates of the template

Maybe(values) == {None} \cup values

\* Amounts of a template, and what a sample says of a container.
Request == [requestCPU : Nat, requestMemory : Nat]

Measured ==
    [usageCPU : Nat, usageMemory : Nat, requestCPU : Nat, requestMemory : Nat]

\* What a limit may be: an amount of CPU or of memory, whole or with a half.
IsLimit(q, units) == q = Quantity(q.n, q.half, q.unit) /\ q.n \in Nat /\ q.half \in BOOLEAN
                         /\ q.unit \in units

\* What the schema of the OptimizerConfig makes of a spec.
InSchema(s) ==
    /\ s.dryRun \in BOOLEAN
    /\ s.strategy \in {"", "aggressive", "balanced", "conservative"}
    /\ s.overrides \in Maybe(
           [minConfidence : Maybe(Int), maxChangePercent : Maybe(Int),
            requireApproval : Maybe(BOOLEAN), applyDelay : Maybe(Nat \cup {Unparsable}),
            dryRun : Maybe(BOOLEAN)])
    /\ s.recommendations \in Maybe(
           [cpuPercentile : Int, memoryPercentile : Int, safetyMargin : Int, minSamples : Int,
            historyDuration : Maybe(Int)])
    /\ s.thresholds # None =>
           \A resource \in {"cpu", "memory"} :
               s.thresholds[resource] # None =>
                   \A side \in {"min", "max"} :
                       s.thresholds[resource][side] # None =>
                           IsLimit(s.thresholds[resource][side],
                                   IF resource = "cpu" THEN {"", "m"}
                                   ELSE {"", "Ki", "Mi", "Gi", "K", "M", "G"})

ASSUME OptimizationAssumption ==
    /\ IsFiniteSet(PodNames)
    /\ \A p \in PodNames : extractWorkloadName(p) = Workload
    /\ \A s \in Specs : InSchema(s) /\ ValidateCreate(s)
    /\ Templates \subseteq Request
    /\ Usages \subseteq [usageCPU : Nat, usageMemory : Nat]
    /\ Horizon \in Nat \ {0} /\ MaxUpdates \in Nat

VARIABLES
    clock,     \* the time
    spec,      \* of the OptimizerConfig
    template,  \* requests in the Deployment's template: [requestCPU, requestMemory]
    pods,      \* the pods that exist, with their requests
    history,   \* the metrics storage
    updates    \* how often passes have written the template

vars == <<clock, spec, template, pods, history, updates>>

Init ==
    /\ clock = 1
    /\ spec \in Specs
    /\ template \in Templates
    /\ \E p \in PodNames : pods = [q \in {p} |-> template]
    /\ history = NewStorage(PodNames)
    /\ updates = 0

-----------------------------------------------------------------------------
\* The environment.

\* A poll of the collector that fails.
Tick ==
    /\ clock < Horizon
    /\ clock' = clock + 1
    /\ UNCHANGED <<spec, template, pods, history, updates>>

\* Memory is in bytes, which the engine takes it for.  The collector program,
\* whose storage the controller does not read, writes it in Mi.
Containers(p, usage) ==
    [c \in {Container} |->
        [usageCPU |-> usage.usageCPU, usageMemory |-> usage.usageMemory,
         requestCPU |-> pods[p].requestCPU, requestMemory |-> pods[p].requestMemory]]

\* Mutated: the time is left out, so it is zero.
PodMetricUndated(p, usage, at) == [pod |-> p, at |-> 0, containers |-> Containers(p, usage)]

PodMetric(p, usage, at) == [pod |-> p, at |-> at, containers |-> Containers(p, usage)]

\* One that adds a sample of every pod; no others stay.
Scrape ==
    /\ clock < Horizon
    /\ clock' = clock + 1
    /\ \E usage \in [DOMAIN pods -> Usages] :
           history' = [p \in PodNames |->
               IF p \notin DOMAIN pods THEN <<>>
               ELSE Append(history[p], PodMetric(p, usage[p], clock'))]
    /\ UNCHANGED <<spec, template, pods, updates>>

\* A rollout, or a scaling: a pod with the template's requests comes.
PodComes(p) ==
    /\ p \notin DOMAIN pods
    /\ pods' = [q \in DOMAIN pods \cup {p} |-> IF q = p THEN template ELSE pods[q]]
    /\ UNCHANGED <<clock, spec, template, history, updates>>

PodGoes(p) ==
    /\ p \in DOMAIN pods /\ DOMAIN pods # {p}
    /\ pods' = [q \in DOMAIN pods \ {p} |-> pods[q]]
    /\ UNCHANGED <<clock, spec, template, history, updates>>

-----------------------------------------------------------------------------
\* The pass.

\* The metrics of the pods, in the order in which the map happens to be walked.
Metrics(order) ==
    LET recent == NewerThan(history, clock - EngineSettings(spec).historyDuration)
        walked[n \in 0..Len(order)] ==
            IF n = 0 THEN <<>> ELSE walked[n - 1] \o recent[order[n]]
    IN  walked[Len(order)]

Recommendations(samples) ==
    generateContainerRecommendationWithOOM(samples, EngineSettings(spec), spec.thresholds, None, clock)

\* The conversion to the applier's strings, and back by the API server.
Formatted(rec) ==
    [currentCPU |-> formatCPU(rec.currentCPU), recommendedCPU |-> formatCPU(rec.recommendedCPU),
     currentMemory |-> formatMemory(rec.currentMemory),
     recommendedMemory |-> formatMemory(rec.recommendedMemory)]

Requests(formatted) ==
    [requestCPU |-> MillicoresOf(formatted.recommendedCPU),
     requestMemory |-> BytesOf(formatted.recommendedMemory)]

\* A profile that is not known leaves nothing to ask.
MayBeApplied(rec) ==
    CanResolve(DefaultProfiles, spec) =>
        ShouldApplyRecommendation(Resolve(DefaultProfiles, spec), rec.confidence,
                                  MaxChangePercent(rec))

Pass ==
    /\ updates < MaxUpdates
    /\ \E order \in SetToSeqs(PodNames) :
        /\ Container \in Recommendable(Metrics(order), Workload, {Container}, EngineSettings(spec))
        /\ \E rec \in Recommendations(groupByWorkload(Metrics(order), Workload, Container)) :
               /\ HasChanges(Formatted(rec))
               /\ MayBeApplied(rec)
               /\ ~spec.dryRun
               /\ template' = Requests(Formatted(rec))
        /\ updates' = updates + 1
        /\ UNCHANGED <<clock, spec, pods, history>>

-----------------------------------------------------------------------------

Environment == Tick \/ Scrape \/ (\E p \in PodNames : PodComes(p) \/ PodGoes(p))

Next == Pass \/ Environment

Spec == Init /\ [][Next]_vars

-----------------------------------------------------------------------------

TypeOK ==
    /\ clock \in 1..Horizon
    /\ spec \in Specs
    /\ template \in Request
    /\ DOMAIN pods # {} /\ DOMAIN pods \subseteq PodNames
    /\ \A p \in DOMAIN pods : pods[p] \in Request
    /\ history \in [PodNames -> Seq([pod : PodNames, at : 1..Horizon,
                                    containers : [{Container} -> Measured]])]
    /\ \A p \in PodNames : Len(history[p]) <= clock
    /\ updates \in 0..MaxUpdates

\* The unit in which the memory of a template is written.
UnitOf(memory) ==
    IF memory >= Factor("Mi") THEN Factor("Mi")
    ELSE IF memory >= Factor("Ki") THEN Factor("Ki") ELSE 1

\* However thresholds are read, the minimum is not above the maximum.
ReadInOrder(minReadings, maxReadings) ==
    \A min \in minReadings, max \in maxReadings : max = 0 \/ min <= max

(* What a pass writes is within the thresholds of the spec, whatever the    *)
(* load, the strategy and the order of the samples: never above a maximum   *)
(* that is not read as zero, never below the CPU minimum as it is read, and *)
(* below a reading of the memory minimum by no more than the digits that    *)
(* formatMemory drops.  With "1.5Gi" for one byte, a maximum may be read as *)
(* less than the minimum; then nothing is promised                          *)
(* (engine.go:604-639, 717-748, reconciler.go:437-446, 569-586).            *)
WithinReadings ==
    (updates > 0 /\ spec.thresholds # None) =>
        LET CPU(side) == CPUReadings(spec.thresholds, side)
            Memory(side) == MemoryReadings(spec.thresholds, side)
        IN /\ (spec.thresholds.cpu # None /\ ReadInOrder(CPU("min"), CPU("max"))) =>
                  /\ \A min \in CPU("min") : min <= template.requestCPU
                  /\ 0 \notin CPU("max") =>
                         template.requestCPU <= MillicoresOf(spec.thresholds.cpu.max)
           /\ (spec.thresholds.memory # None /\ ReadInOrder(Memory("min"), Memory("max"))) =>
                  /\ \E min \in Memory("min") :
                         min < template.requestMemory + UnitOf(min)
                  /\ 0 \notin Memory("max") =>
                         template.requestMemory <= BytesOf(spec.thresholds.memory.max)

\* All samples, and so all pods that were scraped, have the template's requests.
Settled ==
    \A p \in PodNames : \A i \in DOMAIN history[p] :
        \A f \in DOMAIN template : history[p][i].containers[Container][f] = template[f]

\* The step changes the requests by no more than the settings allow.  From
\* nothing, any change counts as one of 100 percent.
ChangeWithin(resolved) ==
    LET Within(f, unit) ==
            (Max({template'[f] - template[f], template[f] - template'[f]}) - unit) * 100
                <= resolved.maxChangePercent * template[f]
        Grows(f) == template[f] = 0 /\ template'[f] > 0
    IN resolved.maxChangePercent > 0 =>
           /\ Within("requestCPU", 0) \/ (Grows("requestCPU") /\ resolved.maxChangePercent >= 100)
           /\ \/ Within("requestMemory", UnitOf(template.requestMemory))
              \/ Grows("requestMemory") /\ resolved.maxChangePercent >= 100

(* As long as no rollout is under way, no update changes a request by more  *)
(* than maxChangePercent and what formatMemory drops, in whatever order the *)
(* samples are read (resolver.go:308, reconciler.go:456-468).  During one   *)
(* it may: the samples of the old pods are taken for what is in force.      *)
LimitedWhenSettled ==
    [][(Settled /\ CanResolve(DefaultProfiles, spec))
           => ChangeWithin(Resolve(DefaultProfiles, spec))]_template

(* Under the production profile nothing is updated until its overrides say  *)
(* expressly that no approval is needed, whatever else they set             *)
(* (profile.go:160, resolver.go:177-179, 312-314).                          *)
NoUnapprovedChange ==
    [][spec.profile = "production" =>
           spec.overrides # None /\ spec.overrides.requireApproval = FALSE]_template

=============================================================================
