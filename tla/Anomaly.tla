------------------------------ MODULE Anomaly ------------------------------
(***************************************************************************)
(* Anomaly detection (pkg/anomaly): three detectors, their consensus, and  *)
(* whether a workload may be scaled.  Comparisons with means, quartiles    *)
(* and deviations are multiplied out, so that no root is taken; rounding   *)
(* of floats is left out.  A finding is [index, severity, drop].           *)
(***************************************************************************)
EXTENDS Statistics, Integers, Sequences, SequencesExt, FiniteSets, FiniteSetsExt

CONSTANTS
    MinSamples,          \* config.MinSamples
    MovingAverageWindow, \* config.MovingAverageWindow
    Multiple,            \* a number that every count up to the window divides
    ConsensusThreshold   \* config.ConsensusThreshold

ASSUME AnomalyAssumption ==
    /\ MinSamples \in Nat /\ MinSamples > 1
    /\ MovingAverageWindow \in Nat \ {0}
    /\ Multiple \in Nat \ {0}
    /\ \A k \in 1..MovingAverageWindow : Multiple % k = 0
    /\ ConsensusThreshold \in 1..3

Severities == <<"low", "medium", "high", "critical">>

severityRank(s) == CHOOSE i \in DOMAIN Severities : Severities[i] = s

\* n * (n - 1) times the sample variance.
Spread(values) ==
    Len(values) * Sum([i \in DOMAIN values |-> values[i] * values[i]])
        - Sum(values) * Sum(values)

\* Is distance / n at least, or more than, k sample deviations?
Reaches(distance, k, values) ==
    distance * distance * (Len(values) - 1) >= k * k * Len(values) * Spread(values)

Exceeds(distance, k, values) ==
    distance * distance * (Len(values) - 1) > k * k * Len(values) * Spread(values)

\* One up for each of three, four and five deviations.
determineSeverity(distance, values) ==
    Severities[1 + Cardinality({k \in 3..5 : Reaches(distance, k, values)})]

Finding(index, severity, drop) == [index |-> index, severity |-> severity, drop |-> drop]

\* Three deviations from the mean.
ZScoreDetector(data) ==
    LET Off(i) == Len(data) * data[i] - Sum(data) IN
    IF Len(data) < MinSamples \/ Spread(data) = 0 THEN {}
    ELSE {Finding(i, determineSeverity(Off(i), data), Off(i) < 0) :
             i \in {j \in DOMAIN data : Exceeds(Off(j), 3, data)}}

\* Four times a quartile: interpolated, or the ends and their middle of very few.
calculateQuartiles4(data) ==
    LET sorted == Ascending(data)
        n == Len(sorted)
        Quartile(k) ==
            LET lower == ((n - 1) * k) \div 4 IN
            IF lower + 1 >= n THEN 4 * sorted[n]
            ELSE 4 * sorted[lower + 1]
                     + (((n - 1) * k) % 4) * (sorted[lower + 2] - sorted[lower + 1])
    IN IF n < 4 THEN <<4 * sorted[1], 2 * (sorted[1] + sorted[n]), 4 * sorted[n]>>
       ELSE <<Quartile(1), Quartile(2), Quartile(3)>>

\* deviation and iqr at the same scale: one up at one and a half, at two and at three.
determineSeverityFromIQR(deviation, iqr) ==
    Severities[1 + Cardinality({k \in {3, 4, 6} : 2 * deviation >= k * iqr})]

\* Mutated: only what is too large is found.
BeyondQuartilesAbove(v4, q1, q3) == Max({v4 - q3, 0})

\* How far outside the quartiles.
BeyondQuartiles(v4, q1, q3) == Max({q1 - v4, v4 - q3, 0})

\* One and a half interquartile ranges outside.
IQRDetector(data) ==
    LET q == calculateQuartiles4(data)
        iqr == q[3] - q[1]
        Outside(i) == BeyondQuartiles(4 * data[i], q[1], q[3])
    IN IF Len(data) < MinSamples \/ iqr = 0 THEN {}
       ELSE {Finding(i, determineSeverityFromIQR(Outside(i), iqr), 4 * data[i] < q[2]) :
                i \in {j \in DOMAIN data : 2 * Outside(j) > 3 * iqr}}

\* Multiple times the average of the readings up to i that the window holds.
calculateSMA(data) ==
    [i \in DOMAIN data |->
        LET start == Max({1, i - MovingAverageWindow + 1})
        IN (Multiple \div (i - start + 1)) * Sum(SubSeq(data, start, i))]

\* Two deviations, of the differences, from the moving average.
MovingAverageDetector(data) ==
    LET average == calculateSMA(data)
        difference == [i \in DOMAIN data |-> Multiple * data[i] - average[i]]
        n == Len(data)
    IN IF n < MinSamples \/ Spread(difference) = 0 THEN {}
       ELSE {Finding(i, determineSeverity(n * difference[i], difference), difference[i] < 0) :
                i \in {j \in DOMAIN data : Exceeds(n * difference[j], 2, difference)}}

Detectors(data) == <<ZScoreDetector(data), IQRDetector(data), MovingAverageDetector(data)>>

-----------------------------------------------------------------------------

HighestSeverity(findings) ==
    Severities[Max({1} \cup {severityRank(f.severity) : f \in findings})]

\* The detectors that have a finding, one at most, for an index.
Voters(results, index) ==
    {d \in DOMAIN results : \E f \in results[d] : f.index = index}

\* What enough of them found: as severe as the most severe, of the first one's kind.
ConsensusDetector(data) ==
    LET results == Detectors(data)
        Votes(i) == {f \in UNION Range(results) : f.index = i}
        First(i) == CHOOSE f \in results[Min(Voters(results, i))] : f.index = i
    IN {Finding(i, HighestSeverity(Votes(i)), First(i).drop) :
           i \in {j \in DOMAIN data : Cardinality(Voters(results, j)) >= ConsensusThreshold}}

IsHigh(f) == f.severity \in {"high", "critical"}

getRecommendedAction(findings) ==
    CASE HighestSeverity(findings) = "critical" -> "investigate immediately"
      [] HighestSeverity(findings) = "high" -> "review"
      [] HighestSeverity(findings) = "medium" -> "proceed with caution"
      [] OTHER -> "proceed"

\* Containers of a pod are added up.
extractMetricValues(metrics, resource) ==
    [i \in DOMAIN metrics |->
        Sum([c \in DOMAIN metrics[i] |-> metrics[i][c][resource]])]

\* Scaling is blocked by any finding that is high or critical.
Verdict(cpu, memory) ==
    [cpu |-> cpu, memory |-> memory,
     block |-> \E f \in cpu \cup memory : IsHigh(f),
     action |-> getRecommendedAction(cpu \cup memory)]

CheckWorkload(metrics) ==
    IF Len(metrics) < MinSamples THEN Verdict({}, {})
    ELSE Verdict(ConsensusDetector(extractMetricValues(metrics, "cpu")),
                 ConsensusDetector(extractMetricValues(metrics, "memory")))

=============================================================================
