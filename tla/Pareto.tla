------------------------------- MODULE Pareto -------------------------------
(***************************************************************************)
(* Multi-objective optimization (pkg/pareto).  A workload is               *)
(* [cpu, memory, confidence] and each resource [current, average, peak,    *)
(* p95, p99].  Objectives, normalized values and distances are in          *)
(* thousandths of a percent or of one, cut off below that.                 *)
(***************************************************************************)
EXTENDS Integers, Sequences, SequencesExt, FiniteSets, FiniteSetsExt

CONSTANTS
    CPUCost,    \* of a unit of CPU, in units of money as small as needed
    MemoryCost, \* of a unit of memory
    Infinite    \* math.MaxFloat64

ASSUME ParetoAssumption == CPUCost \in Nat /\ MemoryCost \in Nat

Unit == 1000

Resources == {"cpu", "memory"}

Objectives == {"cost", "performance", "reliability", "efficiency", "stability"}

Weights ==
    [cost |-> 25, performance |-> 20, reliability |-> 25, efficiency |-> 15, stability |-> 15]

IsMinimize(o) == o = "cost"

Least(x, y) == IF x < y THEN x ELSE y

AtLeastZero(x) == IF x < 0 THEN 0 ELSE x

\* x / y in percent.
PercentOf(x, y) == (x * 100 * Unit) \div y

Averaged(values) == (values["cpu"] + values["memory"]) \div 2

\* Limit over request, in percent.
LimitFactor == [cpu |-> 150, memory |-> 120]

CostObjective(request) == request["cpu"] * CPUCost + request["memory"] * MemoryCost

\* The room between use and limit.
PerformanceObjective(request, workload) ==
    LET limit == [r \in Resources |-> (request[r] * LimitFactor[r]) \div 100] IN
    Averaged([r \in Resources |->
        IF limit[r] > 0 THEN PercentOf(limit[r] - workload[r].average, limit[r]) ELSE 0])

\* The lesser of the buffers above the peaks.
ReliabilityObjective(request, workload) ==
    LET buffer == [r \in Resources |->
            IF workload[r].peak > 0
            THEN PercentOf(request[r] - workload[r].peak, workload[r].peak) ELSE 0]
    IN AtLeastZero(Least(buffer["cpu"], buffer["memory"]))

EfficiencyObjective(request, workload) ==
    Averaged([r \in Resources |->
        IF request[r] > 0 THEN PercentOf(workload[r].average, request[r]) ELSE 0])

StabilityObjective(confidence, change) ==
    AtLeastZero(confidence * Unit - Least(change, 100) * (Unit \div 2))

createSolution(id, request, workload, change) ==
    [id |-> id,
     request |-> request,
     objectives |->
        [cost |-> CostObjective(request),
         performance |-> PerformanceObjective(request, workload),
         reliability |-> ReliabilityObjective(request, workload),
         efficiency |-> EfficiencyObjective(request, workload),
         stability |-> StabilityObjective(workload.confidence, change)]]

\* Identity, basis, percents of it, and the change that is assumed.
Strategies ==
    <<<<"conservative", "p99", 120, 0>>, <<"balanced", "p95", 110, 10>>,
      <<"aggressive", "p95", 100, 20>>, <<"cost-optimized", "average", 130, 30>>,
      <<"performance", "peak", 125, 5>>, <<"current", "current", 100, 0>>>>

GenerateSolutionSet(workload) ==
    [i \in DOMAIN Strategies |->
        LET s == Strategies[i] IN
        createSolution(s[1], [r \in Resources |-> (workload[r][s[2]] * s[3]) \div 100],
                       workload, s[4])]

-----------------------------------------------------------------------------

\* How much better a is than b.
Advantage(a, b, o) ==
    IF IsMinimize(o) THEN b.objectives[o] - a.objectives[o]
    ELSE a.objectives[o] - b.objectives[o]

\* Mutated: more of the cost is better, too.
DominatesByValue(a, b) ==
    /\ \A o \in Objectives : a.objectives[o] >= b.objectives[o]
    /\ \E o \in Objectives : a.objectives[o] > b.objectives[o]

Dominates(a, b) ==
    /\ \A o \in Objectives : Advantage(a, b, o) >= 0
    /\ \E o \in Objectives : Advantage(a, b, o) > 0

\* Sets of solutions are sets of their positions, by which a slice is ordered.
NonDominated(solutions, remaining) ==
    {i \in remaining : ~\E j \in remaining : Dominates(solutions[j], solutions[i])}

\* RankedSolutions: the frontier of what the frontiers before it leave.
assignParetoRanks(solutions) ==
    LET Left[k \in 0..Len(solutions)] ==
            IF k = 0 THEN DOMAIN solutions
            ELSE Left[k - 1] \ NonDominated(solutions, Left[k - 1])
    IN [k \in {j \in 0..(Len(solutions) - 1) : Left[j] # {}} |->
           NonDominated(solutions, Left[k])]

Normalized(s, o, solutions) ==
    LET values == {t.objectives[o] : t \in Range(solutions)}
        low == Min(values)
        high == Max(values)
    IN IF high > low THEN ((s.objectives[o] - low) * Unit) \div (high - low)
       ELSE Unit \div 2

\* Weights are percents.
CalculateOverallScore(s, solutions) ==
    LET Weighted(o) ==
            Weights[o] * (IF IsMinimize(o) THEN Unit - Normalized(s, o, solutions)
                          ELSE Normalized(s, o, solutions))
    IN Weighted("cost") + Weighted("performance") + Weighted("reliability")
           + Weighted("efficiency") + Weighted("stability")

\* The order of a sort, which is stable for so few.
Before(solutions, o, i, j) ==
    LET x == solutions[i].objectives[o]
        y == solutions[j].objectives[o]
    IN x < y \/ (x = y /\ i < j)

\* The ends of every order are infinitely far.
calculateCrowdingDistance(solutions, frontier) ==
    LET n == Cardinality(frontier)
        Place(i, o) == 1 + Cardinality({j \in frontier : Before(solutions, o, j, i)})
        At(k, o) == solutions[CHOOSE i \in frontier : Place(i, o) = k].objectives[o]
        Share(i, o) == IF At(n, o) = At(1, o) THEN 0
                       ELSE ((At(Place(i, o) + 1, o) - At(Place(i, o) - 1, o)) * Unit)
                                \div (At(n, o) - At(1, o))
    IN [i \in frontier |->
           IF n <= 2 \/ \E o \in Objectives : Place(i, o) \in {1, n} THEN Infinite
           ELSE FoldSet(LAMBDA o, sum : sum + Share(i, o), 0, Objectives)]

-----------------------------------------------------------------------------

\* The first of the best.
FirstBest(solutions, frontier, scores) ==
    solutions[CHOOSE i \in frontier :
                  \A j \in frontier :
                      scores[j] < scores[i] \/ (scores[j] = scores[i] /\ i <= j)]

findBestSolution(solutions, frontier) ==
    FirstBest(solutions, frontier,
              [i \in frontier |-> CalculateOverallScore(solutions[i], solutions)])

\* Values are compared the way round that the objective asks for.
selectByObjective(solutions, frontier, o) ==
    FirstBest(solutions, frontier,
              [i \in frontier |-> IF IsMinimize(o) THEN -solutions[i].objectives[o]
                                  ELSE solutions[i].objectives[o]])

compareTradeOff(a, b) ==
    [pair |-> <<a.id, b.id>>,
     improvements |-> {o \in Objectives : Advantage(a, b, o) > 0},
     degradations |-> {o \in Objectives : Advantage(a, b, o) < 0}]

analyzeTradeOffs(solutions, frontier) ==
    {compareTradeOff(solutions[p[1]], solutions[p[2]]) :
        p \in {q \in frontier \X frontier : q[1] < q[2]}}

Optimize(solutions) ==
    LET ranks == assignParetoRanks(solutions) IN
    [all |-> solutions,
     ranks |-> ranks,
     frontier |-> ranks[0],
     distances |-> calculateCrowdingDistance(solutions, ranks[0]),
     best |-> findBestSolution(solutions, ranks[0]),
     tradeOffs |-> analyzeTradeOffs(solutions, ranks[0])]

SelectBestForProfile(result, profile) ==
    LET By(o) == selectByObjective(result.all, result.frontier, o) IN
    CASE profile = "production" -> By("reliability")
      [] profile = "development" -> By("cost")
      [] profile = "performance" -> By("performance")
      [] OTHER -> result.best

\* A "test" profile gets the choice of development.
GetRecommendationForProfile(result, profile) ==
    SelectBestForProfile(result, IF profile = "test" THEN "development" ELSE profile)

\* What the summary says, for current requests that are not zero.
SummaryAction(workload, best) ==
    LET Change(r) == PercentOf(best.request[r] - workload[r].current, workload[r].current) IN
    IF \E r \in Resources : Change(r) < -10 * Unit THEN "SCALE DOWN"
    ELSE IF \E r \in Resources : Change(r) > 10 * Unit THEN "SCALE UP"
    ELSE "MAINTAIN"

GenerateRecommendation(workload) ==
    LET result == Optimize(GenerateSolutionSet(workload)) IN
    [result |-> result,
     choices |-> [p \in {"production", "development", "performance"} |->
                     SelectBestForProfile(result, p)],
     action |-> SummaryAction(workload, result.best)]

=============================================================================
