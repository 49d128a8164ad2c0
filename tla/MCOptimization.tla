--------------------------- MODULE MCOptimization ---------------------------
EXTENDS Optimization

App == <<"app">>

Pod(i) == <<"app", "rs", i>>

Pods2 == {Pod("1"), Pod("2")}

CPULimits == [min |-> Whole(10, "m"), max |-> Whole(2, "")]

Thresholds(max) == [cpu |-> CPULimits, memory |-> [min |-> Whole(3, "Mi"), max |-> max]]

Overrides(approval) ==
    [minConfidence |-> 30, maxChangePercent |-> None, requireApproval |-> approval,
     applyDelay |-> None, dryRun |-> None]

NewSpec(profile, overrides, thresholds) ==
    [profile |-> profile, strategy |-> "balanced", dryRun |-> FALSE, overrides |-> overrides,
     recommendations |-> None, circuitBreaker |-> None, thresholds |-> thresholds,
     targetNamespaces |-> {Good}, maintenanceWindows |-> {}, rollingUpdate |-> None,
     gitOpsExport |-> None, excludeWorkloads |-> {}]

HigherMargin ==
    [cpuPercentile |-> 0, memoryPercentile |-> 99, safetyMargin |-> 150, minSamples |-> 0,
     historyDuration |-> None]

SpecsWhole ==
    {NewSpec("production", Overrides(FALSE), None),
     NewSpec("production", Overrides(None), None),
     NewSpec("", None, Thresholds(Whole(2, "Gi"))),
     [NewSpec("canary", None, None) EXCEPT !.recommendations = HigherMargin]}

TwoTemplates ==
    {[requestCPU |-> 10, requestMemory |-> 64], [requestCPU |-> 0, requestMemory |-> 64]}

TwoUsages == {[usageCPU |-> 10, usageMemory |-> 5], [usageCPU |-> 8, usageMemory |-> 64]}

Defaults ==
    [cpuPercentile |-> 95, memoryPercentile |-> 95, safetyMargin |-> 120, minSamples |-> 2,
     historyDuration |-> 4]

=============================================================================
