----------------------------- MODULE Confidence -----------------------------
(***************************************************************************)
(* ConfidenceCalculator (pkg/recommendation/confidence.go): how far a      *)
(* recommendation can be trusted, from the age, number, spread and gaps of *)
(* its samples.  Scores and ratios are whole percents; logarithms are      *)
(* those to the base 2, rounded down.                                      *)
(***************************************************************************)
EXTENDS Integers, FiniteSets, FiniteSetsExt

CONSTANTS
    MinCount,      \* config.MinSamples
    IdealCount,    \* config.IdealSamples
    IdealHours,    \* config.IdealDataHours
    DayHours,      \* data of this age has no recency left, 24
    TicksPerHour   \* ticks of the timestamps in an hour

\* config.MinDataHours and config.MaxAcceptableRecency are an hour.
ASSUME ConfidenceAssumption ==
    /\ TicksPerHour \in Nat \ {0}
    /\ MinCount \in Nat \ {0} /\ IdealCount \in Nat /\ IdealCount >= 2 * MinCount
    /\ IdealHours \in Nat /\ IdealHours > 1
    /\ DayHours \in Nat /\ DayHours > 1

Log2(n) == CHOOSE e \in 0..n : 2^e <= n /\ n < 2^(e + 1)

\* 20 at low, 100 at ideal, and logarithmically between them.
LogScaled(x, low, ideal) ==
    20 + (80 * (Log2(x) - Log2(low))) \div (Log2(ideal) - Log2(low))

calculateDurationScore(ticks) ==
    CASE ticks < TicksPerHour -> (ticks * 20) \div TicksPerHour
      [] ticks >= IdealHours * TicksPerHour -> 100
      [] OTHER -> LogScaled(ticks, TicksPerHour, IdealHours * TicksPerHour)

calculateSampleScore(samples) ==
    CASE samples < MinCount -> (samples * 20) \div MinCount
      [] samples >= IdealCount -> 100
      [] OTHER -> LogScaled(samples, MinCount, IdealCount)

\* No variation at all is worth less than a little.
calculateConsistencyScore(cv) ==
    CASE cv <= 0 -> 50
      [] cv \in 1..10 -> 100
      [] cv >= 50 -> 20
      [] OTHER -> 100 - ((cv - 10) * 80) \div 40

calculateRecencyScore(age) ==
    CASE age <= 0 -> 100
      [] age \in 1..TicksPerHour -> 100 - (age * 20) \div TicksPerHour
      [] age >= DayHours * TicksPerHour -> 20
      [] OTHER -> 80 - ((age - TicksPerHour) * 60) \div ((DayHours - 1) * TicksPerHour)

calculateCoverageScore(count, gapTime, totalTime) ==
    LET ratio == (100 * gapTime) \div totalTime IN
    IF count < 2 THEN 50
    ELSE IF gapTime = 0 THEN 100
    ELSE IF totalTime <= 0 THEN 50
    ELSE CASE ratio <= 5 -> 100
           [] ratio >= 50 -> 20
           [] OTHER -> 100 - ((ratio - 5) * 80) \div 45

clamp(value, min, max) ==
    IF value < min THEN min ELSE IF value > max THEN max ELSE value

WeightedScore(duration, count, consistency, recency, coverage) ==
    clamp((25 * duration + 25 * count + 20 * consistency + 15 * recency + 15 * coverage)
              \div 100, 0, 100)

CalculateConfidence(summary, now) ==
    WeightedScore(
        calculateDurationScore(summary.newest - summary.oldest),
        calculateSampleScore(summary.count),
        calculateConsistencyScore(summary.cv),
        calculateRecencyScore(now - summary.newest),
        calculateCoverageScore(summary.count, summary.gapTime,
                               summary.newest - summary.oldest))

-----------------------------------------------------------------------------

ISqrt(n) == CHOOSE r \in 0..n : r * r <= n /\ n < (r + 1) * (r + 1)

SumOver(values, Op(_)) == FoldSet(LAMBDA i, acc : Op(values[i]) + acc, 0, DOMAIN values)

\* Standard deviation over mean, in percent.
Variation(values) ==
    LET n == Cardinality(DOMAIN values)
        sum == SumOver(values, LAMBDA v : v)
        squares == SumOver(values, LAMBDA v : v * v)
    IN IF sum <= 0 THEN 0 ELSE ISqrt(10000 * (n * squares - sum * sum)) \div sum

\* Time between neighbours that are more than two intervals apart.
GapTime(times, interval) ==
    LET Gap(t) == LET later == {u \in times : u > t} IN
                  IF later = {} THEN 0 ELSE Min(later) - t
    IN FoldSet(LAMBDA t, acc : (IF Gap(t) > 2 * interval THEN Gap(t) ELSE 0) + acc, 0, times)

\* timestamps and values are sequences of the same length.
computeMetricsSummary(timestamps, values, interval) ==
    LET times == {timestamps[i] : i \in DOMAIN timestamps} IN
    [count |-> Cardinality(DOMAIN values),
     oldest |-> Min(times),
     newest |-> Max(times),
     cv |-> Variation(values),
     gapTime |-> GapTime(times, interval)]

CalculateFromSamples(timestamps, values, interval, now) ==
    IF DOMAIN timestamps = {} \/ DOMAIN values = {} THEN 0
    ELSE CalculateConfidence(computeMetricsSummary(timestamps, values, interval), now)

=============================================================================
