-------------------------------- MODULE SLA --------------------------------
(***************************************************************************)
(* SLA monitor, control chart and health checker (pkg/sla).  A reading is  *)
(* [at, value], the value not negative.  Fractions are kept as [num, den]; *)
(* a severity is in thousandths, a score in thousandths of a point.  A     *)
(* definition is [name, type, target, threshold, percentile, window].      *)
(***************************************************************************)
EXTENDS Statistics, Integers, Sequences, SequencesExt, FiniteSets, FiniteSetsExt

Full == 1000

SLATypes ==
    {"latency", "error_rate", "availability", "throughput", "startup_time", "custom"}

ValidateSLADefinition(sla) ==
    /\ sla.name # ""
    /\ sla.type \in SLATypes
    /\ sla.threshold >= 0
    /\ sla.percentile \in 0..100
    /\ sla.window > 0

\* The monitor: definitions by name.
AddSLA(slas, sla) ==
    IF ValidateSLADefinition(sla)
    THEN [n \in DOMAIN slas \cup {sla.name} |-> IF n = sla.name THEN sla ELSE slas[n]]
    ELSE slas

\* Interpolated between the neighbours of the exact place.
calculatePercentile(values, percentile) ==
    LET sorted == Ascending(values)
        place == percentile * (Len(sorted) - 1)
        lower == place \div 100
        weight == place % 100
    IN [num |-> IF lower + 1 >= Len(sorted) THEN 100 * Last(sorted)
                ELSE (100 - weight) * sorted[lower + 1] + weight * sorted[lower + 2],
        den |-> 100]

Mean(values) == [num |-> Sum(values), den |-> Len(values)]

Exactly(v) == [num |-> v, den |-> 1]

\* How far actual is from limit, as a part of the limit and at most all of it.
Severity(actual, limit) ==
    LET excess == actual.num - limit * actual.den IN
    IF limit = 0 THEN Full
    ELSE Min({Full, ((IF excess < 0 THEN -excess ELSE excess) * Full) \div (limit * actual.den)})

Violation(sla, actual, limit) ==
    [name |-> sla.name, actual |-> actual, severity |-> Severity(actual, limit)]

AtMost(sla, actual) ==
    LET limit == sla.target + sla.threshold IN
    IF actual.num > limit * actual.den THEN <<Violation(sla, actual, limit)>> ELSE <<>>

AtLeast(sla, actual) ==
    LET limit == sla.target - sla.threshold IN
    IF actual.num < limit * actual.den THEN <<Violation(sla, actual, limit)>> ELSE <<>>

\* One violation for every value that is too large.
EachAtMost(sla, values) ==
    LET limit == sla.target + sla.threshold
        large == Only(values, {i \in DOMAIN values : values[i] > limit})
    IN  [k \in DOMAIN large |-> Violation(sla, Exactly(large[k]), limit)]

checkLatencySLA(sla, values) ==
    IF sla.percentile > 0 THEN AtMost(sla, calculatePercentile(values, sla.percentile))
    ELSE EachAtMost(sla, values)

\* Spikes are looked for only when the average is well.
checkErrorRateSLA(sla, values) ==
    LET average == AtMost(sla, Mean(values)) IN
    IF average # <<>> THEN average ELSE EachAtMost(sla, values)

\* The share, in percent, of values that are not zero.
checkAvailabilitySLA(sla, values) ==
    AtLeast(sla, [num |-> 100 * Cardinality({i \in DOMAIN values : values[i] > 0}),
                  den |-> Len(values)])

checkThroughputSLA(sla, values) == AtLeast(sla, Mean(values))

checkStartupTimeSLA(sla, values) ==
    AtMost(sla, IF sla.percentile > 0 THEN calculatePercentile(values, sla.percentile)
                ELSE Mean(values))

Values(readings) == [i \in DOMAIN readings |-> readings[i].value]

\* Mutated: the window is not looked at.
InWindowAlways(sla, readings, now) == readings

InWindow(sla, readings, now) ==
    Only(readings, {i \in DOMAIN readings : readings[i].at > now - sla.window})

checkSLAViolations(sla, readings, now) ==
    LET values == Values(InWindow(sla, readings, now)) IN
    IF values = <<>> THEN <<>>
    ELSE CASE sla.type = "error_rate" -> checkErrorRateSLA(sla, values)
           [] sla.type = "availability" -> checkAvailabilitySLA(sla, values)
           [] sla.type = "throughput" -> checkThroughputSLA(sla, values)
           [] sla.type = "startup_time" -> checkStartupTimeSLA(sla, values)
           [] OTHER -> checkLatencySLA(sla, values)

\* By name, each in the order it was found; the order of the names is random.
CheckAllSLAs(slas, readings, now) ==
    [n \in DOMAIN slas |-> checkSLAViolations(slas[n], readings, now)]

-----------------------------------------------------------------------------
\* The control chart.  Whether v is beyond mean + sigma * deviation is decided on
\* n * v - sum and the squares, with no root; below zero there is no lower limit.

Beyond(v, values, sigma) ==
    LET n == Len(values)
        sum == Sum(values)
        squares == Sum([i \in DOMAIN values |-> values[i] * values[i]])
        distance == n * v - sum
    IN distance * distance > sigma * sigma * (n * squares - sum * sum)

IsAbove(v, values, sigma) == Len(values) * v > Sum(values) /\ Beyond(v, values, sigma)

IsBelow(v, values, sigma) == Len(values) * v < Sum(values) /\ Beyond(v, values, sigma)

\* Mutated: the middle of the values as they came.
Median2Unsorted(values) == 2 * values[Len(values) \div 2 + 1]

\* The median, doubled.
Median2(values) ==
    LET sorted == Ascending(values)
        half == Len(values) \div 2
    IN IF Len(values) % 2 = 0 THEN sorted[half] + sorted[half + 1] ELSE 2 * sorted[half + 1]

Distance(x, y) == IF x > y THEN x - y ELSE y - x

\* The modified z-score is beyond 3.5.  A deviation of zero is taken for 0.6745.
detectOutliersRobust(values) ==
    LET deviation == [i \in DOMAIN values |-> Distance(2 * values[i], Median2(values))]
        mad4 == Median2(deviation)
    IN IF Len(values) < 3 THEN {}
       ELSE {i \in DOMAIN values :
                IF mad4 = 0 THEN deviation[i] > 7 ELSE 6745 * 2 * deviation[i] > 35000 * mad4}

Without(values, indices) == Only(values, DOMAIN values \ indices)

\* Limits from what the robust method leaves decide, where it finds anything.
OutlierIndices(values, sigma) ==
    LET robust == detectOutliersRobust(values)
        filtered == Without(values, robust)
    IN IF robust = {} \/ Len(filtered) < 2 THEN robust
       ELSE {i \in DOMAIN values : Beyond(values[i], filtered, sigma)}

DetectOutliers(values, sigma) ==
    LET indices == OutlierIndices(values, sigma)
        rest == Without(values, indices)
        reference == IF rest = <<>> THEN values ELSE rest
    IN {[index |-> i,
         type |-> IF IsBelow(values[i], reference, sigma) THEN "below_lcl" ELSE "above_ucl"] :
            i \in indices}

\* Windows of values that only rise or only fall.
Trends(values, window) ==
    {i \in 1..(Len(values) - window + 1) :
        \/ \A j \in i..(i + window - 2) : values[j] < values[j + 1]
        \/ \A j \in i..(i + window - 2) : values[j] > values[j + 1]}

\* A window that is not positive switches the trends off.
GenerateChart(values, sigma, window) ==
    [i \in DOMAIN values |->
        IF IsAbove(values[i], values, sigma) THEN "above_ucl"
        ELSE IF IsBelow(values[i], values, sigma) THEN "below_lcl"
        ELSE IF window > 0 /\ \E s \in Trends(values, window) : i \in s..(s + window - 1)
             THEN "trend"
        ELSE "none"]

-----------------------------------------------------------------------------
\* The health checker.

Found(violations) ==
    UNION {{n} \X DOMAIN violations[n] : n \in DOMAIN violations}

Penalty(severity) == Max({15 * Full, 35 * severity})

calculateHealthScore(violations, outliers) ==
    Max({0, 100 * Full - 2 * Full * Cardinality(outliers)
              - FoldSet(LAMBDA f, sum : sum + Penalty(violations[f[1]][f[2]].severity),
                        0, Found(violations))})

\* For a monitor that already knows slas; definitions are all valid.
CheckHealth(slas, definitions, readings, now) ==
    LET known[n \in 0..Len(definitions)] ==
            IF n = 0 THEN slas ELSE AddSLA(known[n - 1], definitions[n])
        violations == CheckAllSLAs(known[Len(definitions)], readings, now)
        outliers == DetectOutliers(Values(readings), 3)
        score == calculateHealthScore(violations, outliers)
    IN [score |-> score, healthy |-> score >= 70 * Full,
        violations |-> violations, outliers |-> outliers]

Names(health) == {n \in DOMAIN health.violations : health.violations[n] # <<>>}

\* The last violation of every name that had none.
Gained(from, to) == {Last(to.violations[n]) : n \in Names(to) \ Names(from)}

CompareHealth(pre, post) ==
    [impact |-> post.score - pre.score,
     added |-> Gained(pre, post),
     resolved |-> Gained(post, pre)]

generateRecommendation(impact) ==
    CASE impact.impact > 10 * Full -> "keep"
      [] impact.impact < -10 * Full -> "rollback"
      [] OTHER -> IF impact.added # {} THEN "monitor closely" ELSE "monitor"

Critical(violation) == 10 * violation.severity > 8 * Full

ShouldBlockOptimization(health) ==
    \/ ~health.healthy
    \/ \E f \in Found(health.violations) : Critical(health.violations[f[1]][f[2]])

ShouldRollback(impact) ==
    \/ impact.impact < -15 * Full
    \/ \E v \in impact.added : Critical(v)
    \/ Cardinality(impact.added) >= 3

=============================================================================
