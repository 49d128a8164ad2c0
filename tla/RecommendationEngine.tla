------------------------ MODULE RecommendationEngine ------------------------
(***************************************************************************)
(* The recommendation engine (pkg/recommendation/engine.go).  A pod metric *)
(* is [pod, at, containers]: the segments of the pod's name, a timestamp   *)
(* and a function from containers to [usageCPU, usageMemory, requestCPU,   *)
(* requestMemory].  The metrics of a namespace are a set of sequences, one *)
(* per pod, that follow each other in any order.  Margins and boosts are   *)
(* percents.  What is nondeterministic in the code is a set of results.    *)
(***************************************************************************)
EXTENDS Quantities, Confidence, SequencesExt

CONSTANTS
    DefaultSettings,  \* [cpuPercentile, memoryPercentile, safetyMargin, minSamples, historyDuration]
    SampleInterval    \* expectedSampleInterval

ASSUME EngineAssumption ==
    /\ DefaultSettings \in
           [cpuPercentile : Nat, memoryPercentile : Nat, safetyMargin : Nat,
            minSamples : Nat \ {0}, historyDuration : Nat]
    /\ SampleInterval \in Nat \ {0}

applyStrategy(strategy, s) ==
    CASE strategy = "aggressive" ->
             [s EXCEPT !.cpuPercentile = Max({@ - 10, 50}),
                       !.memoryPercentile = Max({@ - 5, 50}),
                       !.safetyMargin = Max({@ - 10, 100})]
      [] strategy = "conservative" ->
             [s EXCEPT !.cpuPercentile = Min({@ + 4, 99}),
                       !.memoryPercentile = Min({@ + 4, 99}),
                       !.safetyMargin = Min({@ + 20, 200})]
      [] OTHER -> s

\* Zero in a spec is "not given".
Overridden(s, spec) == [f \in DOMAIN s |-> IF IsPositive(spec[f]) THEN spec[f] ELSE s[f]]

\* The profile of a spec has no say in this.
EngineSettings(spec) ==
    applyStrategy(spec.strategy,
                  IF spec.recommendations = None THEN DefaultSettings
                  ELSE Overridden(DefaultSettings, spec.recommendations))

-----------------------------------------------------------------------------

extractWorkloadName(podName) ==
    IF Len(podName) <= 2 THEN podName ELSE SubSeq(podName, 1, Len(podName) - 2)

containerSample(m, container) ==
    [at |-> m.at,
     usageCPU |-> m.containers[container].usageCPU,
     usageMemory |-> m.containers[container].usageMemory,
     requestCPU |-> m.containers[container].requestCPU,
     requestMemory |-> m.containers[container].requestMemory]

\* The samples of a container of a workload, in the order of the metrics.
groupByWorkload(metrics, workload, container) ==
    LET grouped[n \in 0..Len(metrics)] ==
            IF n = 0 THEN <<>>
            ELSE IF /\ extractWorkloadName(metrics[n].pod) = workload
                    /\ container \in DOMAIN metrics[n].containers
            THEN Append(grouped[n - 1], containerSample(metrics[n], container))
            ELSE grouped[n - 1]
    IN  grouped[Len(metrics)]

\* The value that is at the rank when they are sorted, the least that has as
\* many up to it.  The rank is rounded to the nearest, not up.
calculatePercentile(values, percentile) ==
    LET rank == clamp((Len(values) * percentile + 50) \div 100, 1, Len(values))
        UpTo(v) == Cardinality({i \in DOMAIN values : values[i] <= v})
    IN IF values = <<>> THEN 0
       ELSE Min({v \in {values[i] : i \in DOMAIN values} : UpTo(v) >= rank})

\* Mutated: where there is a maximum, the minimum is not looked at.
BoundedMaxOnly(value, min, max) ==
    IF max > 0 THEN Min({value, max}) ELSE Max({value, min})

Bounded(value, min, max) ==
    IF min > 0 /\ value < min THEN min
    ELSE IF max > 0 /\ value > max THEN max
    ELSE value

\* Zero is no threshold.  What a memory threshold is read as is not settled.
CPUReadings(thresholds, side) ==
    IF thresholds = None \/ thresholds.cpu = None THEN {0}
    ELSE {parseCPUToMillicores(thresholds.cpu[side])}

MemoryReadings(thresholds, side) ==
    IF thresholds = None \/ thresholds.memory = None THEN {0}
    ELSE parseMemoryToBytes(thresholds.memory[side])

\* The values that applyThresholds may return.
applyThresholds(value, minReadings, maxReadings) ==
    {Bounded(value, min, max) : min \in minReadings, max \in maxReadings}

\* Its absolute value.  Limits are whole percents, so a fraction of one counts
\* as one.
calculateChangePercent(current, recommended) ==
    IF current = 0 THEN IF recommended = 0 THEN 0 ELSE 100
    ELSE (Max({recommended - current, current - recommended}) * 100 + current - 1) \div current

\* Mutated: the change of the memory is not looked at.
MaxChangePercentOfCPU(rec) == calculateChangePercent(rec.currentCPU, rec.recommendedCPU)

MaxChangePercent(rec) ==
    Max({calculateChangePercent(rec.currentCPU, rec.recommendedCPU),
         calculateChangePercent(rec.currentMemory, rec.recommendedMemory)})

\* With a boost, memory is not cut below what is in force.
Boosted(memory, current, oom) ==
    IF oom = None \/ oom.boost <= 100 THEN memory
    ELSE Max({(memory * oom.boost) \div 100, current})

\* The recommendations that may result for one container.
generateContainerRecommendationWithOOM(samples, s, thresholds, oom, now) ==
    LET Values(f) == [i \in DOMAIN samples |-> samples[i][f]]
        last == Last(samples)
        cpu == (calculatePercentile(Values("usageCPU"), s.cpuPercentile) * s.safetyMargin) \div 100
        memory == Boosted((calculatePercentile(Values("usageMemory"), s.memoryPercentile)
                               * s.safetyMargin) \div 100, last.requestMemory, oom)
    IN [currentCPU : {last.requestCPU},
        currentMemory : {last.requestMemory},
        recommendedCPU :
            applyThresholds(cpu, CPUReadings(thresholds, "min"), CPUReadings(thresholds, "max")),
        recommendedMemory :
            applyThresholds(memory, MemoryReadings(thresholds, "min"),
                            MemoryReadings(thresholds, "max")),
        sampleCount : {Len(samples)},
        confidence : {CalculateFromSamples(Values("at"), Values("usageCPU"), SampleInterval, now)},
        oomCount : {IF oom = None THEN 0 ELSE oom.count}]

\* Containers with too few samples have no recommendation.
Recommendable(metrics, workload, containers, s) ==
    {c \in containers : Len(groupByWorkload(metrics, workload, c)) >= s.minSamples}

=============================================================================
