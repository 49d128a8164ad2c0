--------------------------- MODULE SpecValidator ---------------------------
(***************************************************************************)
(* OptimizerConfigValidator (pkg/webhook/validator.go): the specs that are *)
(* admitted.  A string of a spec is what its parser makes of it: a number, *)
(* a quantity, Unparsable, or None for the empty one; one that is only     *)
(* matched with a pattern is Good or not.                                  *)
(***************************************************************************)
EXTENDS Quantities

CONSTANTS Unparsable, Good

IsGiven(v) == v # None

Parses(v) == v \notin {None, Unparsable}

PositiveDuration(v) == Parses(v) /\ v > 0

\* An empty name is not a good one.
validateTargetNamespaces(spec) ==
    /\ spec.targetNamespaces # {}
    /\ \A ns \in spec.targetNamespaces : ns = Good

\* The profile itself is not looked at: an unknown one is admitted.
validateProfile(spec) ==
    IsGiven(spec.overrides) =>
        /\ IsGiven(spec.overrides.minConfidence) => spec.overrides.minConfidence \in 0..100
        /\ IsGiven(spec.overrides.maxChangePercent) => spec.overrides.maxChangePercent \in 0..100
        /\ spec.overrides.applyDelay # Unparsable

validateMaintenanceWindows(spec) ==
    \A w \in spec.maintenanceWindows :
        /\ Parses(w.schedule)
        /\ PositiveDuration(w.duration)
        /\ w.timezone # Unparsable

\* Both bounds must be there, whole or with a fraction.
validateResourceLimit(limit, resourceType) ==
    LET ValueOf(q) == IF resourceType = "cpu" THEN MillicoresOf(q) ELSE BytesOf(q) IN
    /\ Parses(limit.min) /\ Parses(limit.max)
    /\ ValueOf(limit.min) < ValueOf(limit.max)
    /\ ValueOf(limit.min) > 0

validateResourceThresholds(spec) ==
    IsGiven(spec.thresholds) =>
        /\ IsGiven(spec.thresholds.cpu) =>
               validateResourceLimit(spec.thresholds.cpu, "cpu")
        /\ IsGiven(spec.thresholds.memory) =>
               validateResourceLimit(spec.thresholds.memory, "memory")

\* Zero is "not given".
validateRecommendationConfig(spec) ==
    LET rec == spec.recommendations IN
    IsGiven(rec) =>
        /\ rec.cpuPercentile = 0 \/ rec.cpuPercentile \in 50..99
        /\ rec.memoryPercentile = 0 \/ rec.memoryPercentile \in 50..99
        /\ rec.minSamples = 0 \/ rec.minSamples >= 10
        /\ rec.safetyMargin = 0 \/ rec.safetyMargin \in 100..300
        /\ IsGiven(rec.historyDuration) => PositiveDuration(rec.historyDuration)

\* [n, percent], the number and whether a percent sign follows it.
validateIntOrPercentage(v) ==
    /\ v # Unparsable
    /\ v.n >= 0
    /\ v.percent => v.n <= 100

validateUpdateStrategy(spec) ==
    IsGiven(spec.rollingUpdate) =>
        \A v \in {spec.rollingUpdate.maxUnavailable, spec.rollingUpdate.maxSurge} :
            IsGiven(v) => validateIntOrPercentage(v)

validateCircuitBreaker(spec) ==
    IsGiven(spec.circuitBreaker) =>
        /\ spec.circuitBreaker.errorThreshold \in 0..20
        /\ spec.circuitBreaker.successThreshold \in 0..10
        /\ IsGiven(spec.circuitBreaker.timeout) => PositiveDuration(spec.circuitBreaker.timeout)

validateGitOpsExport(spec) ==
    LET gitops == spec.gitOpsExport IN
    (IsGiven(gitops) /\ gitops.enabled) =>
        /\ IsGiven(gitops.outputPath)
        /\ gitops.autoCommit =>
               /\ IsGiven(gitops.repository)
               /\ gitops.repository.url = Good
               /\ gitops.repository.createPR => IsGiven(gitops.repository.prTitle)

validateExcludeWorkloads(spec) == \A pattern \in spec.excludeWorkloads : Parses(pattern)

ValidateCreate(spec) ==
    /\ validateTargetNamespaces(spec)
    /\ validateProfile(spec)
    /\ validateMaintenanceWindows(spec)
    /\ validateResourceThresholds(spec)
    /\ validateRecommendationConfig(spec)
    /\ validateUpdateStrategy(spec)
    /\ validateCircuitBreaker(spec)
    /\ validateGitOpsExport(spec)
    /\ validateExcludeWorkloads(spec)

=============================================================================
