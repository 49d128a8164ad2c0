------------------------------ MODULE Profiles ------------------------------
(***************************************************************************)
(* Profiles and their resolution (pkg/profile): the settings by which the  *)
(* reconciler decides whether a recommendation may be applied, layered     *)
(* from a profile, its overrides and the spec.  Margins are percents,      *)
(* durations minutes, memory megabytes.                                    *)
(***************************************************************************)
EXTENDS Quantities

\* data is <<samples, hours>>, gates <<confidence, delay, change, approval>>,
\* failures <<rollback, circuit breaker, threshold>>.
Settings(strategy, percentiles, margin, data, gates, failures, dryRun, cpu, memory) ==
    [strategy |-> strategy,
     cpuPercentile |-> percentiles[1], memoryPercentile |-> percentiles[2],
     safetyMargin |-> margin, minSamples |-> data[1], historyDuration |-> data[2] * 60,
     minConfidence |-> gates[1], applyDelay |-> gates[2], maxChangePercent |-> gates[3],
     requireApproval |-> gates[4], rollbackOnError |-> failures[1],
     circuitBreakerEnabled |-> failures[2], circuitBreakerThreshold |-> failures[3],
     dryRun |-> dryRun,
     minCPU |-> cpu[1], maxCPU |-> cpu[2], minMemory |-> memory[1], maxMemory |-> memory[2]]

ProductionProfile ==
    Settings("conservative", <<99, 99>>, 140, <<200, 168>>, <<80, 1440, 20, TRUE>>,
             <<TRUE, TRUE, 2>>, TRUE, <<100, 16000>>, <<128, 65536>>)

StagingProfile ==
    Settings("balanced", <<95, 95>>, 120, <<100, 72>>, <<60, 240, 30, FALSE>>,
             <<TRUE, TRUE, 3>>, FALSE, <<50, 8000>>, <<64, 32768>>)

DevelopmentProfile ==
    Settings("aggressive", <<90, 90>>, 110, <<50, 24>>, <<40, 60, 50, FALSE>>,
             <<TRUE, TRUE, 5>>, FALSE, <<10, 4000>>, <<32, 16384>>)

TestProfile ==
    Settings("aggressive", <<80, 85>>, 105, <<20, 6>>, <<20, 15, 0, FALSE>>,
             <<FALSE, FALSE, 10>>, FALSE, <<5, 2000>>, <<16, 8192>>)

\* NewProfileManager.
DefaultProfiles ==
    [production |-> ProductionProfile, staging |-> StagingProfile,
     development |-> DevelopmentProfile, test |-> TestProfile]

PositiveOr(value, old) == IF IsPositive(value) THEN value ELSE old

\* What is asked of the settings of a profile.
Validate(s) ==
    /\ s.cpuPercentile \in 50..99 /\ s.memoryPercentile \in 50..99
    /\ s.safetyMargin \in 100..300
    /\ s.minSamples >= 1
    /\ s.minConfidence \in 0..100
    /\ s.maxChangePercent >= 0
    /\ s.strategy \in {"aggressive", "balanced", "conservative"}

-----------------------------------------------------------------------------
\* The resolver.  A spec is [profile, strategy, dryRun, overrides,
\* recommendations, circuitBreaker, thresholds], the last four possibly None.

\* Layered(base, top): the fields that top gives win.  A field is given when it
\* is not None.
Layered(base, top) ==
    IF top = None THEN base
    ELSE [f \in DOMAIN base |->
             IF f \in DOMAIN top THEN IF top[f] = None THEN base[f] ELSE top[f] ELSE base[f]]

\* A number is given when it is positive; a duration that is admitted is.
LayeredPositive(base, top) ==
    IF top = None THEN base
    ELSE [f \in DOMAIN base |->
             IF f \in DOMAIN top THEN PositiveOr(top[f], base[f]) ELSE base[f]]

\* Mutated: a flag of the overrides counts although it is not given.
applyOverridesMerging(resolved, overrides) ==
    IF overrides = None THEN resolved
    ELSE [Layered(resolved, overrides) EXCEPT !.requireApproval = (overrides.requireApproval = TRUE)]

\* [minConfidence, maxChangePercent, requireApproval, applyDelay, dryRun].
applyOverrides(resolved, overrides) == Layered(resolved, overrides)

OverriddenByBreaker(resolved, breaker) ==
    IF breaker = None THEN resolved
    ELSE [resolved EXCEPT
             !.circuitBreakerEnabled = breaker.enabled,
             !.circuitBreakerThreshold = PositiveOr(breaker.errorThreshold, @)]

\* Zero stands for a limit that is not given.
LimitOf(thresholds, resource, side) ==
    IF thresholds = None \/ thresholds[resource] = None THEN Whole(0, "")
    ELSE thresholds[resource][side]

OverriddenByLimits(resolved, thresholds) ==
    [resolved EXCEPT
        !.minCPU = PositiveOr(MillicoresOf(LimitOf(thresholds, "cpu", "min")), @),
        !.maxCPU = PositiveOr(MillicoresOf(LimitOf(thresholds, "cpu", "max")), @),
        !.minMemory = PositiveOr(parseMemoryToMegabytes(LimitOf(thresholds, "memory", "min")), @),
        !.maxMemory = PositiveOr(parseMemoryToMegabytes(LimitOf(thresholds, "memory", "max")), @)]

\* The spec's dryRun, which is FALSE when it is not given, replaces whatever the
\* profile and the overrides say.
applySpecOverrides(resolved, spec) ==
    [OverriddenByLimits(
         OverriddenByBreaker(LayeredPositive(resolved, spec.recommendations), spec.circuitBreaker),
         spec.thresholds)
     EXCEPT !.dryRun = spec.dryRun]

resolveFromProfile(profiles, spec) ==
    applySpecOverrides(applyOverrides(profiles[spec.profile], spec.overrides), spec)

SettingsWithoutProfile(spec) ==
    Settings(IF spec.strategy = "" THEN "balanced" ELSE spec.strategy, <<95, 95>>, 120,
             <<100, 24>>, <<50, 0, 0, FALSE>>, <<TRUE, TRUE, 5>>, spec.dryRun, <<10, 16000>>, <<32, 65536>>)

\* Without a profile the overrides are not looked at.
resolveFromSpec(spec) == applySpecOverrides(SettingsWithoutProfile(spec), spec)

\* For any other profile Resolve gives an error.
CanResolve(profiles, spec) == spec.profile \in {"", "custom"} \cup DOMAIN profiles

Resolve(profiles, spec) ==
    IF spec.profile \in {"", "custom"} THEN resolveFromSpec(spec)
    ELSE resolveFromProfile(profiles, spec)

ShouldApplyRecommendation(resolved, confidence, changePercent) ==
    /\ ~resolved.dryRun
    /\ confidence >= resolved.minConfidence
    /\ resolved.maxChangePercent > 0 => changePercent <= resolved.maxChangePercent
    /\ ~resolved.requireApproval

=============================================================================
