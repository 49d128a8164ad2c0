-------------------------- MODULE Assessment_proofs --------------------------
(***************************************************************************)
(* The assessments, for any question they may be asked: the disruption     *)
(* budget against the check that guards an update, the policy that         *)
(* decides, the choice from the Pareto frontier, the memory of out of      *)
(* memory kills, the breaches of an SLA, the outliers of its readings, and *)
(* anomalies whatever the unit they are measured in.                       *)
(***************************************************************************)
EXTENDS Assessment, FiniteSetTheorems, WellFoundedInduction, TLAPS

LEMMA LeastIndex ==
  ASSUME NEW T, T \subseteq Nat, T # {}
  PROVE  \E i \in T : \A j \in T : i <= j
  <1>1. PICK i \in T : \A j \in T : <<j, i>> \notin OpToRel(<, Nat)
    BY NatLessThanWellFounded, WFMin, Zenon
  <1>2. \A j \in T : ~(j < i)
    BY <1>1 DEF OpToRel
  <1> QED
    BY <1>2

(* What is found is one of the budgets, if anything                         *)
(* (pdb_checker.go:146-168).                                                *)
LEMMA FoundIsListed ==
  ASSUME NEW pdbs, DOMAIN pdbs \subseteq Nat, NEW labels
  PROVE  \/ findMatchingPDB(pdbs, labels) = Unset
         \/ \E i \in DOMAIN pdbs : findMatchingPDB(pdbs, labels) = pdbs[i]
  <1> DEFINE matching == {i \in DOMAIN pdbs : Selects(pdbs[i], labels)}
  <1>1. CASE matching = {}
    BY <1>1 DEF findMatchingPDB
  <1>2. CASE matching # {}
    <2>1. \E i \in matching : \A j \in matching : i <= j
      BY <1>2, LeastIndex
    <2>2. (CHOOSE i \in matching : \A j \in matching : i <= j) \in matching
      BY <2>1
    <2> QED
      BY <1>2, <2>2 DEF findMatchingPDB
  <1> QED
    BY <1>1, <1>2

LEMMA ResultIsSafe ==
  ASSUME NEW hasPDB, NEW safe, NEW min, NEW max
  PROVE  Result(hasPDB, safe, min, max).safe = safe
  BY DEF Result

(* An amount of a budget comes to a number of pods.                        *)
LEMMA AmountIsNumber ==
  ASSUME NEW value, IsAmount(value), value # Unset, NEW total \in Nat
  PROVE  calculateIntOrPercent(value, total) \in Nat
  <1>1. value.n \in Nat /\ value.percent \in BOOLEAN
    BY DEF IsAmount
  <1>2. value.n * total \in Nat
    BY <1>1
  <1>3. (value.n * total + 99) \div 100 \in Nat
    BY <1>2
  <1> QED
    BY <1>1, <1>3 DEF calculateIntOrPercent

\* BudgetIsAllowed for one list of budgets and one workload.
WithinBudget(pdbs, w) ==
    LET Check(planned) == CheckPDBSafety(pdbs, w, planned)
        budget == CalculateSafeDisruptionBudget(pdbs, w)
    IN /\ \A planned \in 1..budget : Check(planned).safe
       /\ Check(0).minAvailable > 0 \/ Check(0).maxUnavailable > 0 =>
             \A planned \in Int : Check(planned).safe <=> planned <= budget

(* Both functions read the same budget the same way: minAvailable first,   *)
(* then maxUnavailable, and what neither gives permits nothing             *)
(* (pdb_checker.go:38-108, 180-200).                                       *)
LEMMA BudgetsAgree ==
  ASSUME NEW pdbs, DOMAIN pdbs \subseteq Nat,
         \A i \in DOMAIN pdbs : IsAmount(pdbs[i].minAvailable) /\ IsAmount(pdbs[i].maxUnavailable),
         NEW w, w.replicas \in Nat, w.available \in Nat
  PROVE  WithinBudget(pdbs, w)
  <1> DEFINE pdb == findMatchingPDB(pdbs, w.labels)
             budget == CalculateSafeDisruptionBudget(pdbs, w)
             Amount(value) == calculateIntOrPercent(value, w.replicas)
             Check(planned) == CheckPDBSafety(pdbs, w, planned)
  <1>1. CASE pdb = Unset
    <2>1. ASSUME NEW planned
          PROVE  Check(planned) = Result(FALSE, TRUE, 0, 0)
      BY <1>1 DEF CheckPDBSafety
    <2> QED
      BY <2>1 DEF WithinBudget, Result
  <1>2. CASE pdb # Unset
    <2>1. IsAmount(pdb.minAvailable) /\ IsAmount(pdb.maxUnavailable)
      BY <1>2, FoundIsListed
    <2>2. CASE pdb.minAvailable # Unset
      <3> DEFINE least == Amount(pdb.minAvailable)
      <3>1. least \in Nat
        BY <2>1, <2>2, AmountIsNumber
      <3>2. ASSUME NEW planned
            PROVE  Check(planned) = Result(TRUE, w.available - planned >= least, least, 0)
        BY <1>2, <2>2 DEF CheckPDBSafety
      <3> HIDE DEF least
      <3>3. budget = IF least > 0 THEN w.available - least ELSE 0
        BY <3>1, <3>2 DEF CalculateSafeDisruptionBudget, Result
      <3> HIDE DEF budget, Check
      <3>4. ASSUME NEW planned \in Int, w.available - planned >= least
            PROVE  Check(planned).safe
        <4>1. Check(planned) = Result(TRUE, TRUE, least, 0)
          BY <3>2, <3>4
        <4> QED
          BY <4>1 DEF Result
      <3>5. ASSUME NEW planned \in Int, ~(w.available - planned >= least)
            PROVE  ~Check(planned).safe
        <4>1. (w.available - planned >= least) = FALSE
          BY <3>1, <3>5
        <4>2. Check(planned) = Result(TRUE, FALSE, least, 0)
          BY <3>2, <4>1
        <4> QED
          BY <4>2 DEF Result
      <3>6. budget \in Int /\ w.replicas \in Int /\ w.available \in Int
        BY <3>1, <3>3
      <3>7. ASSUME NEW planned \in 1..budget
            PROVE  Check(planned).safe
        <4>1. planned \in Int /\ w.available - planned >= least
          BY <3>1, <3>3, <3>6
        <4> QED
          BY <3>4, <4>1
      <3>8. ASSUME least > 0, NEW planned \in Int
            PROVE  Check(planned).safe <=> planned <= budget
        <4>1. w.available - planned >= least <=> planned <= budget
          BY <3>1, <3>3, <3>6, <3>8
        <4> QED
          BY <3>4, <3>5, <4>1
      <3>9. Check(0).minAvailable = least /\ Check(0).maxUnavailable = 0
        BY <3>2 DEF Result
      <3>10. Check(0).minAvailable > 0 \/ Check(0).maxUnavailable > 0 => least > 0
        BY <3>9
      <3>11. Check(0).minAvailable > 0 \/ Check(0).maxUnavailable > 0 =>
               \A planned \in Int : Check(planned).safe <=> planned <= budget
        BY <3>8, <3>10, Zenon
      <3> QED
        BY <3>7, <3>11, Zenon DEF WithinBudget, budget, Check
    <2>3. CASE pdb.minAvailable = Unset /\ pdb.maxUnavailable # Unset
      <3> DEFINE most == Amount(pdb.maxUnavailable)
      <3>1. most \in Nat
        BY <2>1, <2>3, AmountIsNumber
      <3>2. ASSUME NEW planned
            PROVE  Check(planned)
                     = Result(TRUE, w.replicas - w.available + planned <= most, 0, most)
        BY <1>2, <2>3 DEF CheckPDBSafety
      <3> HIDE DEF most
      <3>3. budget = IF most > 0 THEN most - (w.replicas - w.available) ELSE 0
        BY <3>1, <3>2 DEF CalculateSafeDisruptionBudget, Room, Result
      <3> HIDE DEF budget, Check
      <3>4. ASSUME NEW planned \in Int, w.replicas - w.available + planned <= most
            PROVE  Check(planned).safe
        <4>1. Check(planned) = Result(TRUE, TRUE, 0, most)
          BY <3>2, <3>4
        <4> QED
          BY <4>1 DEF Result
      <3>5. ASSUME NEW planned \in Int, ~(w.replicas - w.available + planned <= most)
            PROVE  ~Check(planned).safe
        <4>1. (w.replicas - w.available + planned <= most) = FALSE
          BY <3>1, <3>5
        <4>2. Check(planned) = Result(TRUE, FALSE, 0, most)
          BY <3>2, <4>1
        <4> QED
          BY <4>2 DEF Result
      <3>6. budget \in Int /\ w.replicas \in Int /\ w.available \in Int
        BY <3>1, <3>3
      <3>7. ASSUME NEW planned \in 1..budget
            PROVE  Check(planned).safe
        <4>1. planned \in Int /\ w.replicas - w.available + planned <= most
          BY <3>1, <3>3, <3>6
        <4> QED
          BY <3>4, <4>1
      <3>8. ASSUME most > 0, NEW planned \in Int
            PROVE  Check(planned).safe <=> planned <= budget
        <4>1. w.replicas - w.available + planned <= most <=> planned <= budget
          BY <3>1, <3>3, <3>6, <3>8
        <4> QED
          BY <3>4, <3>5, <4>1
      <3>9. Check(0).minAvailable = 0 /\ Check(0).maxUnavailable = most
        BY <3>2 DEF Result
      <3>10. Check(0).minAvailable > 0 \/ Check(0).maxUnavailable > 0 => most > 0
        BY <3>9
      <3>11. Check(0).minAvailable > 0 \/ Check(0).maxUnavailable > 0 =>
               \A planned \in Int : Check(planned).safe <=> planned <= budget
        BY <3>8, <3>10, Zenon
      <3> QED
        BY <3>7, <3>11, Zenon DEF WithinBudget, budget, Check
    <2>4. CASE pdb.minAvailable = Unset /\ pdb.maxUnavailable = Unset
      <3>1. ASSUME NEW planned
            PROVE  Check(planned) = Result(TRUE, FALSE, 0, 0)
        BY <1>2, <2>4 DEF CheckPDBSafety
      <3>2. budget = 0
        BY <3>1 DEF CalculateSafeDisruptionBudget, Result
      <3>3. Check(0).minAvailable = 0 /\ Check(0).maxUnavailable = 0
        BY <3>1 DEF Result
      <3> HIDE DEF budget, Check
      <3>4. /\ ~(Check(0).minAvailable > 0 \/ Check(0).maxUnavailable > 0)
            /\ \A planned \in 1..budget : Check(planned).safe
        BY <3>2, <3>3
      <3> QED
        BY <3>4, Zenon DEF WithinBudget, budget, Check
    <2> QED
      BY <2>2, <2>3, <2>4
  <1> QED
    BY <1>1, <1>2

-----------------------------------------------------------------------------
\* Policies.

LEMMA MinOf ==
  ASSUME NEW T, T \subseteq Nat, T # {}
  PROVE  Min(T) \in T /\ \A i \in T : Min(T) <= i
  <1>1. \E i \in T : \A j \in T : i <= j
    BY LeastIndex
  <1> QED
    BY <1>1 DEF Min

(* A sorted slice has every policy in one place, and nowhere a policy of    *)
(* less priority before one of more (engine.go:78-80).                      *)
LEMMA SortedFacts ==
  ASSUME NEW policies, IsFiniteSet(policies), \A p \in policies : p.priority \in Int,
         NEW s \in Sorted(policies)
  PROVE  LET n == Cardinality(policies) IN
         /\ n \in Nat /\ s \in [1..n -> policies]
         /\ \A p \in policies : \E i \in 1..n : s[i] = p
         /\ \A i, j \in 1..n : i <= j => s[i].priority >= s[j].priority
  <1> DEFINE n == Cardinality(policies)
  <1>1. n \in Nat
    BY FS_CardinalityType
  <1>2. s \in [1..n -> policies] /\ \A i, j \in 1..n : i # j => s[i] # s[j]
    BY DEF Sorted, SetToSeqs
  <1>3. s \in Injection(1..n, policies)
    BY <1>2 DEF Injection, IsInjective
  <1>4. Cardinality(1..n) = n
    BY <1>1, FS_Interval
  <1>5. s \in Surjection(1..n, policies)
    BY <1>3, <1>4, FS_Injection
  <1>6. \A p \in policies : \E i \in 1..n : s[i] = p
    BY <1>5 DEF Surjection
  <1>7. Len(s) = n
    BY <1>1, <1>2
  <1>8. \A i \in 1..(n - 1) : s[i].priority >= s[i + 1].priority
    BY <1>7 DEF Sorted
  <1>9. ASSUME NEW i \in 1..n, NEW j \in 1..n, i <= j
        PROVE  s[i].priority >= s[j].priority
    <2> DEFINE more == {k \in i..n : ~(s[i].priority >= s[k].priority)}
    <2>1. CASE more # {}
      <3>0. more \subseteq Nat
        BY <1>1
      <3> HIDE DEF more
      <3>1. PICK k \in more : \A l \in more : k <= l
        BY <2>1, <3>0, LeastIndex
      <3> USE DEF more
      <3>2. s[i].priority \in Int /\ s[k].priority \in Int
        BY <1>1, <1>2, <3>1
      <3>3. k # i
        BY <3>1, <3>2
      <3>4. k - 1 \in i..n /\ k - 1 \in 1..(n - 1) /\ (k - 1) + 1 = k
        BY <1>1, <3>1, <3>3
      <3>5. k - 1 \notin more
        BY <1>1, <3>1, <3>4
      <3>6. s[i].priority >= s[k - 1].priority
        BY <3>4, <3>5
      <3>7. s[k - 1].priority >= s[k].priority
        BY <1>8, <3>4
      <3>8. s[k - 1].priority \in Int
        BY <1>1, <1>2, <3>4
      <3> QED
        BY <3>1, <3>2, <3>6, <3>7, <3>8
    <2> QED
      BY <1>1, <1>9, <2>1
  <1> QED
    BY <1>1, <1>2, <1>6, <1>9

(* The first policy that matches has the highest priority of all that do,   *)
(* whichever way the sort has left them (engine.go:49-165).                 *)
LEMMA TopPolicyDecides ==
  ASSUME NEW c, IsFiniteSet(c.policies), \A p \in c.policies : p.priority \in Int,
         NEW engine \in LoadPolicies([policies |-> <<>>, default |-> "allow"],
                                     c.policies, c.default)
  PROVE  DecidedBy(c, Evaluate(engine, c.context))
  <1> DEFINE Matches(p) == p.enabled /\ c.context.says[p.condition] = TRUE
             matching == {p \in c.policies : Matches(p)}
             top == {p \in matching : \A q \in matching : q.priority <= p.priority}
             s == engine.policies
             places == {i \in DOMAIN s : Matches(s[i])}
             verdict == Evaluate(engine, c.context)
  <1>1. verdict = IF places = {} THEN Decision(engine.default, None, None)
                  ELSE applyAction(s[Min(places)], c.context.recommendation)
    BY DEF Evaluate, evaluateCondition
  <1>2. CASE \E p \in c.policies : ~ValidPolicy(p)
    <2>1. engine = [policies |-> <<>>, default |-> "allow"]
      BY <1>2 DEF LoadPolicies
    <2>2. DOMAIN s = {}
      BY <2>1
    <2>3. verdict = Decision("allow", None, None)
      BY <1>1, <2>1, <2>2
    <2> QED
      BY <1>2, <2>3 DEF DecidedBy
  <1>3. CASE \A p \in c.policies : ValidPolicy(p)
    <2>1. s \in Sorted(c.policies) /\ engine.default = IF c.default = None THEN "allow" ELSE c.default
      BY <1>3 DEF LoadPolicies
    <2> DEFINE n == Cardinality(c.policies)
    <2>2. /\ n \in Nat /\ s \in [1..n -> c.policies]
          /\ \A p \in c.policies : \E i \in 1..n : s[i] = p
          /\ \A i, j \in 1..n : i <= j => s[i].priority >= s[j].priority
      BY <2>1, SortedFacts
    <2>3. CASE places = {}
      <3>1. matching = {}
        BY <2>2, <2>3
      <3>2. verdict.action = engine.default
        <4>1. verdict = Decision(engine.default, None, None)
          BY <1>1, <2>3
        <4> HIDE DEF verdict
        <4> QED
          BY <4>1 DEF Decision
      <3>3. top = {}
        BY <3>1
      <3> QED
        BY <1>3, <2>1, <3>2, <3>3 DEF DecidedBy
    <2>4. CASE places # {}
      <3> DEFINE first == Min(places)
      <3>0. places \subseteq Nat
        BY <2>2
      <3> HIDE DEF places
      <3>1. first \in places /\ \A i \in places : first <= i
        BY <2>4, <3>0, MinOf
      <3> USE DEF places
      <3>2. s[first] \in matching
        BY <2>2, <3>1
      <3>3. ASSUME NEW q \in matching
            PROVE  q.priority <= s[first].priority
        <4>1. PICK i \in 1..n : s[i] = q
          BY <2>2
        <4>2. first <= i /\ first \in 1..n
          BY <2>2, <3>1, <4>1
        <4>3. s[first].priority >= s[i].priority
          BY <2>2, <4>2
        <4>4. s[first].priority \in Int /\ s[i].priority \in Int
          BY <2>2, <4>2
        <4> QED
          BY <4>1, <4>3, <4>4
      <3>4. s[first] \in top
        BY <3>2, <3>3
      <3>5. verdict = applyAction(s[first], c.context.recommendation)
        BY <1>1, <2>4
      <3> HIDE DEF top, verdict, first
      <3>6. verdict \in {applyAction(p, c.context.recommendation) : p \in top} /\ top # {}
        BY <3>4, <3>5
      <3> QED
        BY <1>3, <3>6 DEF DecidedBy, top, verdict
    <2> QED
      BY <2>3, <2>4
  <1> QED
    BY <1>2, <1>3

-----------------------------------------------------------------------------
\* Candidates.

\* Induction: the least number that is not in S contradicts the step.
LEMMA Induction ==
  ASSUME NEW S, 0 \in S, \A n \in Nat : n \in S => n + 1 \in S
  PROVE  Nat \subseteq S
  <1> DEFINE missing == Nat \ S
  <1>1. CASE missing # {}
    <2>1. PICK m \in missing : \A k \in missing : m <= k
      BY <1>1, LeastIndex
    <2>2. m # 0 /\ m - 1 \in Nat /\ (m - 1) + 1 = m /\ m - 1 \notin missing
      BY <2>1
    <2> QED
      BY <2>1, <2>2
  <1> QED
    BY <1>1

(* Of finitely many numbers, one is the greatest.                           *)
LEMMA GreatestOf ==
  ASSUME NEW n \in Nat, NEW T, T # {}, \A i \in T : i \in Nat /\ 1 <= i /\ i <= n,
         NEW f, \A i \in T : f[i] \in Int
  PROVE  \E i \in T : \A j \in T : f[j] <= f[i]
  <1> DEFINE Upto(m) == {i \in T : i <= m}
             S == {m \in Nat : Upto(m) # {} => \E i \in Upto(m) : \A j \in Upto(m) : f[j] <= f[i]}
  <1>1. 0 \in S
    <2>1. Upto(0) = {}
      OBVIOUS
    <2> QED
      BY <2>1
  <1>2. ASSUME NEW m \in Nat, m \in S
        PROVE  m + 1 \in S
    <2>1. CASE m + 1 \notin T
      <3>1. Upto(m + 1) = Upto(m)
        BY <2>1
      <3> QED
        BY <1>2, <3>1
    <2>2. CASE m + 1 \in T /\ Upto(m) = {}
      <3>1. Upto(m + 1) = {m + 1}
        BY <2>2
      <3>2. f[m + 1] <= f[m + 1]
        BY <2>2
      <3> QED
        BY <3>1, <3>2
    <2>3. CASE m + 1 \in T /\ Upto(m) # {}
      <3>1. Upto(m + 1) = Upto(m) \cup {m + 1}
        BY <2>3
      <3>2. PICK i \in Upto(m) : \A j \in Upto(m) : f[j] <= f[i]
        BY <1>2, <2>3
      <3>3. f[i] \in Int /\ f[m + 1] \in Int /\ \A j \in Upto(m) : f[j] \in Int
        BY <2>3
      <3>4. CASE f[m + 1] <= f[i]
        <4>1. i \in Upto(m + 1) /\ \A j \in Upto(m + 1) : f[j] <= f[i]
          BY <3>1, <3>2, <3>4
        <4> QED
          BY <4>1
      <3>5. CASE f[i] < f[m + 1]
        <4>1. m + 1 \in Upto(m + 1) /\ \A j \in Upto(m + 1) : f[j] <= f[m + 1]
          BY <3>1, <3>2, <3>3, <3>5
        <4> QED
          BY <4>1
      <3> QED
        BY <3>3, <3>4, <3>5
    <2> QED
      BY <2>1, <2>2, <2>3
  <1>3. n \in S
    <2> HIDE DEF S
    <2> QED
      BY <1>1, <1>2, Induction
  <1>4. Upto(n) = T
    OBVIOUS
  <1> QED
    BY <1>3, <1>4

LEMMA MaxIs ==
  ASSUME NEW T, T \subseteq Int, NEW m \in T, \A i \in T : i <= m
  PROVE  Max(T) = m
  <1>1. Max(T) \in T /\ \A i \in T : Max(T) >= i
    BY DEF Max
  <1>2. Max(T) \in Int /\ m \in Int /\ Max(T) >= m /\ Max(T) <= m
    BY <1>1
  <1> QED
    BY <1>2

LEMMA MinIs ==
  ASSUME NEW T, T \subseteq Int, NEW m \in T, \A i \in T : m <= i
  PROVE  Min(T) = m
  <1>1. Min(T) \in T /\ \A i \in T : Min(T) <= i
    BY DEF Min
  <1>2. Min(T) \in Int /\ m \in Int /\ Min(T) <= m /\ m <= Min(T)
    BY <1>1
  <1> QED
    BY <1>2

\* A list of n solutions with numbers for values.
Measured(solutions, n) ==
    /\ n \in Nat \ {0}
    /\ DOMAIN solutions = 1..n
    /\ \A i \in 1..n : \A o \in Objectives : solutions[i].objectives[o] \in Int

LEMMA AdvantageFacts ==
  ASSUME NEW a, NEW b, NEW c, NEW o \in Objectives,
         a.objectives[o] \in Int, b.objectives[o] \in Int, c.objectives[o] \in Int
  PROVE  /\ Advantage(a, b, o) \in Int
         /\ Advantage(a, a, o) = 0
         /\ Advantage(a, c, o) = Advantage(a, b, o) + Advantage(b, c, o)
         /\ Advantage(b, a, o) = 0 - Advantage(a, b, o)
  BY DEF Advantage

(* A candidate is as good in everything as some solution on the frontier:   *)
(* the one that among all such is best in the sum (optimizer.go:144-197).   *)
LEMMA FrontierCovers ==
  ASSUME NEW solutions, NEW n, Measured(solutions, n), NEW i \in 1..n
  PROVE  \E j \in NonDominated(solutions, 1..n) :
             \A o \in Objectives : Advantage(solutions[j], solutions[i], o) >= 0
  <1> DEFINE Over(j, o) == Advantage(solutions[j], solutions[i], o)
             T == {j \in 1..n : \A o \in Objectives : Over(j, o) >= 0}
             f == [j \in 1..n |-> Over(j, "cost") + Over(j, "performance")
                                      + Over(j, "reliability") + Over(j, "efficiency")
                                      + Over(j, "stability")]
  <1>1. n \in Nat /\ \A j \in 1..n : \A o \in Objectives : solutions[j].objectives[o] \in Int
    BY DEF Measured
  <1>2. \A j \in 1..n : \A o \in Objectives : Over(j, o) \in Int
    BY <1>1, AdvantageFacts
  <1>3. i \in T
    <2>1. \A o \in Objectives : Over(i, o) = 0
      BY <1>1, AdvantageFacts
    <2> QED
      BY <2>1
  <1>4. {"cost", "performance", "reliability", "efficiency", "stability"} = Objectives
    BY DEF Objectives
  <1>5. \A j \in 1..n : f[j] \in Int
    BY <1>2, <1>4
  <1>6. PICK best \in T : \A j \in T : f[j] <= f[best]
    <2> HIDE DEF f
    <2>1. /\ T # {} /\ \A j \in T : f[j] \in Int
          /\ \A j \in T : j \in Nat /\ 1 <= j /\ j <= n
      BY <1>1, <1>3, <1>5
    <2> HIDE DEF T
    <2> QED
      BY <1>1, <2>1, GreatestOf
  <1>7. ASSUME NEW j \in 1..n, Dominates(solutions[j], solutions[best])
        PROVE  FALSE
    <2> DEFINE Gain(o) == Advantage(solutions[j], solutions[best], o)
    <2>1. \A o \in Objectives : Gain(o) \in Int /\ Over(j, o) = Gain(o) + Over(best, o)
      BY <1>1, <1>6, AdvantageFacts
    <2>2. /\ \A o \in Objectives : Gain(o) >= 0
          /\ \E o \in Objectives : Gain(o) > 0
      BY <1>7 DEF Dominates
    <2>3. \A o \in Objectives : Over(best, o) \in Int /\ Over(best, o) >= 0
      BY <1>2, <1>6
    <2> HIDE DEF Gain, Over
    <2>4. j \in T
      BY <2>1, <2>2, <2>3
    <2>5. f[j] = f[best] + (Gain("cost") + Gain("performance") + Gain("reliability")
                               + Gain("efficiency") + Gain("stability"))
      BY <1>4, <1>6, <2>1, <2>3
    <2>6. Gain("cost") + Gain("performance") + Gain("reliability")
              + Gain("efficiency") + Gain("stability") > 0
      BY <1>4, <2>1, <2>2
    <2>7. Gain("cost") + Gain("performance") + Gain("reliability")
              + Gain("efficiency") + Gain("stability") \in Int
      BY <1>4, <2>1
    <2>8. f[best] \in Int /\ f[j] <= f[best]
      BY <1>5, <1>6, <2>4
    <2> HIDE DEF f
    <2> QED
      BY <2>5, <2>6, <2>7, <2>8
  <1>8. best \in NonDominated(solutions, 1..n)
    BY <1>6, <1>7 DEF NonDominated
  <1> QED
    BY <1>6, <1>8

(* The search for the best finds one (optimizer.go:255-268, 432-461).       *)
LEMMA FirstBestIsBest ==
  ASSUME NEW solutions, NEW frontier, frontier # {},
         \E n \in Nat : \A i \in frontier : i \in Nat /\ 1 <= i /\ i <= n,
         NEW scores, \A i \in frontier : scores[i] \in Int
  PROVE  \E i \in frontier :
             /\ FirstBest(solutions, frontier, scores) = solutions[i]
             /\ \A j \in frontier : scores[j] <= scores[i]
  <1> DEFINE T == {i \in frontier : \A j \in frontier : scores[j] <= scores[i]}
             First(i) == \A j \in frontier :
                             scores[j] < scores[i] \/ (scores[j] = scores[i] /\ i <= j)
  <1>0. PICK n \in Nat : \A i \in frontier : i \in Nat /\ 1 <= i /\ i <= n
    OBVIOUS
  <1>1. T # {}
    BY <1>0, GreatestOf
  <1>2. T \subseteq Nat
    BY <1>0
  <1>3. PICK i \in T : \A j \in T : i <= j
    <2> HIDE DEF T
    <2> QED
      BY <1>1, <1>2, LeastIndex
  <1>4. ASSUME NEW j \in frontier
        PROVE  scores[j] < scores[i] \/ (scores[j] = scores[i] /\ i <= j)
    <2>1. scores[j] \in Int /\ scores[i] \in Int /\ scores[j] <= scores[i]
      BY <1>3
    <2>2. CASE scores[j] = scores[i]
      <3>1. j \in T
        BY <1>3, <2>2
      <3> QED
        BY <1>3, <2>2, <3>1
    <2> QED
      BY <2>1, <2>2
  <1>5. i \in frontier /\ First(i)
    BY <1>3, <1>4
  <1>6. (CHOOSE k \in frontier : First(k)) \in frontier /\ First(CHOOSE k \in frontier : First(k))
    BY <1>5
  <1> DEFINE first == CHOOSE k \in frontier : First(k)
  <1>7. FirstBest(solutions, frontier, scores) = solutions[first]
    BY DEF FirstBest
  <1>8. ASSUME NEW j \in frontier
        PROVE  scores[j] <= scores[first]
    <2>1. scores[j] \in Int /\ scores[first] \in Int
      BY <1>6
    <2>2. scores[j] < scores[first] \/ scores[j] = scores[first]
      BY <1>6
    <2> HIDE DEF first
    <2> QED
      BY <2>1, <2>2
  <1> QED
    BY <1>6, <1>7, <1>8

LEMMA DivisionIsMonotone ==
  ASSUME NEW x \in Int, NEW y \in Int, x <= y, NEW d \in Int, d > 0
  PROVE  x \div d \in Int /\ y \div d \in Int /\ x \div d <= y \div d
  OBVIOUS

(* The normalized value of an objective grows with its value; between the   *)
(* smallest and the greatest of a list (optimizer.go:105-141).              *)
LEMMA NormalizedIsMonotone ==
  ASSUME NEW solutions, NEW n, Measured(solutions, n), NEW o \in Objectives,
         NEW i \in 1..n, NEW j \in 1..n,
         solutions[i].objectives[o] <= solutions[j].objectives[o]
  PROVE  /\ Normalized(solutions[i], o, solutions) \in Int
         /\ Normalized(solutions[j], o, solutions) \in Int
         /\ Normalized(solutions[i], o, solutions) <= Normalized(solutions[j], o, solutions)
  <1> DEFINE v == [k \in 1..n |-> solutions[k].objectives[o]]
             minus == [k \in 1..n |-> 0 - v[k]]
             values == {t.objectives[o] : t \in Range(solutions)}
  <1>1. n \in Nat \ {0} /\ DOMAIN solutions = 1..n /\ \A k \in 1..n : v[k] \in Int
    BY DEF Measured
  <1>2. values = {v[k] : k \in 1..n}
    BY <1>1 DEF Range
  <1>3. \A k \in 1..n : minus[k] = 0 - v[k] /\ minus[k] \in Int
    BY <1>1
  <1>4. v[i] = solutions[i].objectives[o] /\ v[j] = solutions[j].objectives[o]
    OBVIOUS
  <1> HIDE DEF v, minus, values
  <1>5. 1..n # {} /\ \A k \in 1..n : k \in Nat /\ 1 <= k /\ k <= n
    <2>1. 1 \in 1..n /\ \A k \in 1..n : k \in Nat /\ 1 <= k /\ k <= n
      BY <1>1
    <2> QED
      BY <2>1
  <1>6. PICK h \in 1..n : \A k \in 1..n : v[k] <= v[h]
    BY <1>1, <1>5, GreatestOf
  <1>7. PICK l \in 1..n : \A k \in 1..n : minus[k] <= minus[l]
    BY <1>1, <1>3, <1>5, GreatestOf
  <1>8. \A k \in 1..n : v[l] <= v[k]
    BY <1>1, <1>3, <1>7
  <1>9. values \subseteq Int /\ v[h] \in values /\ v[l] \in values
    BY <1>1, <1>2
  <1>10. (\A x \in values : x <= v[h]) /\ (\A x \in values : v[l] <= x)
    BY <1>2, <1>6, <1>8
  <1>11. Max(values) = v[h] /\ Min(values) = v[l]
    BY <1>9, <1>10, MaxIs, MinIs
  <1> DEFINE N(x) == IF v[h] > v[l] THEN ((x - v[l]) * Unit) \div (v[h] - v[l]) ELSE Unit \div 2
  <1>12. /\ Normalized(solutions[i], o, solutions) = N(v[i])
         /\ Normalized(solutions[j], o, solutions) = N(v[j])
    BY <1>4, <1>11 DEF Normalized, values
  <1>13. v[h] \in Int /\ v[l] \in Int /\ v[i] \in Int /\ v[j] \in Int /\ v[i] <= v[j]
    BY <1>1, <1>4
  <1>14. N(v[i]) \in Int /\ N(v[j]) \in Int /\ N(v[i]) <= N(v[j])
    <2>1. CASE v[h] > v[l]
      <3>1. /\ (v[i] - v[l]) * Unit \in Int /\ (v[j] - v[l]) * Unit \in Int
            /\ (v[i] - v[l]) * Unit <= (v[j] - v[l]) * Unit
            /\ v[h] - v[l] \in Int /\ v[h] - v[l] > 0
        BY <1>13, <2>1 DEF Unit
      <3> QED
        BY <2>1, <3>1, DivisionIsMonotone
    <2>2. CASE ~(v[h] > v[l])
      BY <2>2 DEF Unit
    <2> QED
      BY <2>1, <2>2
  <1> QED
    BY <1>12, <1>14

(* What is as good in everything has no lower score (objectives.go).        *)
LEMMA ScoreIsMonotone ==
  ASSUME NEW solutions, NEW n, Measured(solutions, n), NEW i \in 1..n, NEW j \in 1..n,
         \A o \in Objectives : Advantage(solutions[j], solutions[i], o) >= 0
  PROVE  /\ CalculateOverallScore(solutions[i], solutions) \in Int
         /\ CalculateOverallScore(solutions[j], solutions) \in Int
         /\ CalculateOverallScore(solutions[i], solutions)
                <= CalculateOverallScore(solutions[j], solutions)
  <1> DEFINE N(k, o) == Normalized(solutions[k], o, solutions)
             x(k, o) == solutions[k].objectives[o]
  <1>1. \A o \in Objectives : x(i, o) \in Int /\ x(j, o) \in Int
    BY DEF Measured
  <1>2. \A o \in Objectives : IF o = "cost" THEN x(j, o) <= x(i, o) ELSE x(i, o) <= x(j, o)
    BY <1>1 DEF Advantage, IsMinimize
  <1>3. ASSUME NEW o \in Objectives
        PROVE  /\ N(i, o) \in Int /\ N(j, o) \in Int
               /\ IF o = "cost" THEN N(j, o) <= N(i, o) ELSE N(i, o) <= N(j, o)
    BY <1>2, NormalizedIsMonotone
  <1> DEFINE Score(k) ==
          25 * (1000 - N(k, "cost")) + 20 * N(k, "performance") + 25 * N(k, "reliability")
              + 15 * N(k, "efficiency") + 15 * N(k, "stability")
  <1>4. ASSUME NEW k
        PROVE  CalculateOverallScore(solutions[k], solutions) = Score(k)
    BY DEF CalculateOverallScore, Weights, IsMinimize, Unit
  <1>5. {"cost", "performance", "reliability", "efficiency", "stability"} \subseteq Objectives
    BY DEF Objectives
  <1> HIDE DEF N, x
  <1>6. /\ N(i, "cost") \in Int /\ N(j, "cost") \in Int /\ N(j, "cost") <= N(i, "cost")
        /\ N(i, "performance") \in Int /\ N(j, "performance") \in Int
        /\ N(i, "performance") <= N(j, "performance")
        /\ N(i, "reliability") \in Int /\ N(j, "reliability") \in Int
        /\ N(i, "reliability") <= N(j, "reliability")
    BY <1>3, <1>5
  <1>7. /\ N(i, "efficiency") \in Int /\ N(j, "efficiency") \in Int
        /\ N(i, "efficiency") <= N(j, "efficiency")
        /\ N(i, "stability") \in Int /\ N(j, "stability") \in Int
        /\ N(i, "stability") <= N(j, "stability")
    BY <1>3, <1>5
  <1>8. Score(i) \in Int /\ Score(j) \in Int /\ Score(i) <= Score(j)
    BY <1>6, <1>7
  <1> QED
    BY <1>4, <1>8

\* What is left after each of m frontiers, from the remainders g.
Layers(g, m, solutions) ==
    [k \in 0..m |-> IF k = 0 THEN DOMAIN solutions
                    ELSE g[k - 1] \ NonDominated(solutions, g[k - 1])]

LEMMA LayersExist ==
  ASSUME NEW solutions
  PROVE  \A m \in Nat : \E g : g = Layers(g, m, solutions)
  <1> DEFINE S == {m \in Nat : \E g : g = Layers(g, m, solutions)}
  <1>1. 0 \in S
    <2> DEFINE g == [k \in 0..0 |-> DOMAIN solutions]
    <2>1. g = Layers(g, 0, solutions)
      BY DEF Layers
    <2> QED
      BY <2>1
  <1>2. ASSUME NEW m \in Nat, m \in S
        PROVE  m + 1 \in S
    <2>1. PICK g : g = Layers(g, m, solutions)
      BY <1>2
    <2> DEFINE last == g[m] \ NonDominated(solutions, g[m])
               f == [k \in 0..(m + 1) |-> IF k = m + 1 THEN last ELSE g[k]]
    <2>2. ASSUME NEW k \in 0..(m + 1)
          PROVE  f[k] = Layers(f, m + 1, solutions)[k]
      <3>1. CASE k = m + 1
        <4>1. f[k] = last /\ f[k - 1] = g[m] /\ k # 0
          BY <3>1
        <4> HIDE DEF f
        <4> QED
          BY <3>1, <4>1 DEF Layers
      <3>2. CASE k # m + 1
        <4>1. k \in 0..m /\ f[k] = g[k]
          BY <3>2
        <4>2. k # 0 => k - 1 \in 0..m /\ f[k - 1] = g[k - 1]
          BY <4>1
        <4>3. g[k] = Layers(g, m, solutions)[k]
          BY <2>1
        <4> HIDE DEF f
        <4> QED
          BY <4>1, <4>2, <4>3 DEF Layers
      <3> QED
        BY <3>1, <3>2
    <2>3. f = [k \in 0..(m + 1) |-> f[k]]
      OBVIOUS
    <2> HIDE DEF f
    <2>4. f = Layers(f, m + 1, solutions)
      BY <2>2, <2>3 DEF Layers
    <2> QED
      BY <2>4
  <1> HIDE DEF S
  <1>3. Nat \subseteq S
    BY <1>1, <1>2, Induction
  <1> QED
    BY <1>3 DEF S

(* The solutions of rank zero are the frontier of all (optimizer.go:162).   *)
LEMMA RankZero ==
  ASSUME NEW solutions, NEW n \in Nat \ {0}, Len(solutions) = n, DOMAIN solutions = 1..n
  PROVE  assignParetoRanks(solutions)[0] = NonDominated(solutions, 1..n)
  <1> DEFINE Left[k \in 0..Len(solutions)] ==
                 IF k = 0 THEN DOMAIN solutions
                 ELSE Left[k - 1] \ NonDominated(solutions, Left[k - 1])
             ranked == {j \in 0..(Len(solutions) - 1) : Left[j] # {}}
  <1>1. Left = CHOOSE g : g = Layers(g, Len(solutions), solutions)
    BY DEF Left, Layers
  <1>2. Left = Layers(Left, Len(solutions), solutions)
    BY <1>1, LayersExist
  <1>3. assignParetoRanks(solutions) = [k \in ranked |-> NonDominated(solutions, Left[k])]
    BY DEF assignParetoRanks, Left, ranked
  <1> HIDE DEF Left
  <1>4. Left[0] = 1..n
    BY <1>2 DEF Layers
  <1>5. 0 \in ranked
    BY <1>4
  <1> QED
    BY <1>3, <1>4, <1>5

(* The candidates of a workload have numbers for values (optimizer.go:330). *)
LEMMA CandidatesAreMeasured ==
  ASSUME NEW w, IsUsage(w.cpu), IsUsage(w.memory), w.confidence \in Nat
  PROVE  Measured(GenerateSolutionSet(w), 6) /\ Len(GenerateSolutionSet(w)) = 6
  <1> DEFINE solutions == GenerateSolutionSet(w)
             request(i) == [r \in Resources |->
                               (w[r][Strategies[i][2]] * Strategies[i][3]) \div 100]
  <1>1. DOMAIN solutions = 1..6 /\ Len(solutions) = 6
    BY DEF GenerateSolutionSet, Strategies
  <1>2. ASSUME NEW i \in 1..6
        PROVE  /\ Strategies[i][2] \in {"current", "average", "peak", "p95", "p99"}
               /\ Strategies[i][3] \in Nat /\ Strategies[i][4] \in Nat
    BY DEF Strategies
  <1>3. ASSUME NEW r \in Resources
        PROVE  /\ \A f \in {"current", "average", "peak", "p95", "p99"} : w[r][f] \in Nat
               /\ w[r].average \in Nat /\ w[r].peak \in Nat
    BY DEF IsUsage, Resources
  <1>4. ASSUME NEW i \in 1..6, NEW r \in Resources
        PROVE  request(i)[r] \in Nat
    <2>1. w[r][Strategies[i][2]] \in Nat /\ Strategies[i][3] \in Nat
      BY <1>2, <1>3
    <2>2. w[r][Strategies[i][2]] * Strategies[i][3] \in Nat
      BY <2>1
    <2>3. request(i)[r] = (w[r][Strategies[i][2]] * Strategies[i][3]) \div 100
      OBVIOUS
    <2> QED
      BY <2>2, <2>3
  <1>5. ASSUME NEW x \in Int, NEW y \in Int, y > 0
        PROVE  PercentOf(x, y) \in Int
    <2>1. x * 100 * Unit \in Int
      BY DEF Unit
    <2> QED
      BY <2>1, <1>5, DivisionIsMonotone DEF PercentOf
  <1>6. ASSUME NEW v, v["cpu"] \in Int, v["memory"] \in Int
        PROVE  Averaged(v) \in Int
    BY <1>6 DEF Averaged
  <1>7. ASSUME NEW q, \A r \in Resources : q[r] \in Nat, NEW c \in Nat
        PROVE  /\ CostObjective(q) \in Int
               /\ PerformanceObjective(q, w) \in Int
               /\ ReliabilityObjective(q, w) \in Int
               /\ EfficiencyObjective(q, w) \in Int
               /\ StabilityObjective(w.confidence, c) \in Int
    <2>1. "cpu" \in Resources /\ "memory" \in Resources
      BY DEF Resources
    <2>2. CostObjective(q) \in Int
      <3>1. q["cpu"] * CPUCost \in Nat /\ q["memory"] * MemoryCost \in Nat
        BY <1>7, <2>1, ParetoAssumption
      <3> QED
        BY <3>1 DEF CostObjective
    <2>3. PerformanceObjective(q, w) \in Int
      <3> DEFINE limit == [r \in Resources |-> (q[r] * LimitFactor[r]) \div 100]
                 v == [r \in Resources |->
                          IF limit[r] > 0 THEN PercentOf(limit[r] - w[r].average, limit[r]) ELSE 0]
      <3>1. ASSUME NEW r \in Resources
            PROVE  limit[r] \in Nat
        <4>1. q[r] \in Nat /\ LimitFactor[r] \in Nat
          BY <1>7 DEF LimitFactor, Resources
        <4>2. q[r] * LimitFactor[r] \in Nat
          BY <4>1
        <4>3. limit[r] = (q[r] * LimitFactor[r]) \div 100
          OBVIOUS
        <4> QED
          BY <4>2, <4>3
      <3> HIDE DEF limit
      <3>2. \A r \in Resources : v[r] \in Int
        BY <1>3, <1>5, <3>1
      <3> HIDE DEF v
      <3> QED
        BY <1>6, <2>1, <3>2 DEF PerformanceObjective, limit, v
    <2>4. ReliabilityObjective(q, w) \in Int
      <3> DEFINE buffer == [r \in Resources |->
                               IF w[r].peak > 0 THEN PercentOf(q[r] - w[r].peak, w[r].peak) ELSE 0]
      <3>1. \A r \in Resources : buffer[r] \in Int
        BY <1>3, <1>5, <1>7
      <3> HIDE DEF buffer
      <3>2. ReliabilityObjective(q, w) = AtLeastZero(Least(buffer["cpu"], buffer["memory"]))
        BY DEF ReliabilityObjective, buffer
      <3> QED
        BY <2>1, <3>1, <3>2 DEF AtLeastZero, Least
    <2>5. EfficiencyObjective(q, w) \in Int
      <3> DEFINE v == [r \in Resources |-> IF q[r] > 0 THEN PercentOf(w[r].average, q[r]) ELSE 0]
      <3>1. \A r \in Resources : v[r] \in Int
        BY <1>3, <1>5, <1>7
      <3> HIDE DEF v
      <3> QED
        BY <1>6, <2>1, <3>1 DEF EfficiencyObjective, v
    <2>6. StabilityObjective(w.confidence, c) \in Int
      BY DEF StabilityObjective, AtLeastZero, Least, Unit
    <2> QED
      BY <2>2, <2>3, <2>4, <2>5, <2>6
  <1>8. ASSUME NEW i \in 1..6, NEW o \in Objectives
        PROVE  solutions[i].objectives[o] \in Int
    <2> DEFINE q == request(i)
    <2>1. solutions[i] = createSolution(Strategies[i][1], q, w, Strategies[i][4])
      BY <1>1 DEF GenerateSolutionSet
    <2> HIDE DEF solutions
    <2>2. solutions[i].objectives =
            [cost |-> CostObjective(q),
             performance |-> PerformanceObjective(q, w),
             reliability |-> ReliabilityObjective(q, w),
             efficiency |-> EfficiencyObjective(q, w),
             stability |-> StabilityObjective(w.confidence, Strategies[i][4])]
      BY <2>1, SMTT(30) DEF createSolution
    <2>3. \A r \in Resources : q[r] \in Nat
      BY <1>4
    <2> HIDE DEF q
    <2>4. /\ CostObjective(q) \in Int
          /\ PerformanceObjective(q, w) \in Int
          /\ ReliabilityObjective(q, w) \in Int
          /\ EfficiencyObjective(q, w) \in Int
          /\ StabilityObjective(w.confidence, Strategies[i][4]) \in Int
      BY <1>2, <1>7, <2>3
    <2> QED
      BY <2>2, <2>4 DEF Objectives
  <1> QED
    BY <1>1, <1>8 DEF Measured

(* The best of the frontier is the best of all, in one objective and in the *)
(* weighted score (optimizer.go:66-103, 407-461).                           *)
LEMMA OptimumIsBest ==
  ASSUME NEW solutions, NEW n, Measured(solutions, n), Len(solutions) = n
  PROVE  BestOf(Optimize(solutions))
  <1> DEFINE result == Optimize(solutions)
             frontier == NonDominated(solutions, 1..n)
             By(o) == selectByObjective(solutions, frontier, o)
             best == findBestSolution(solutions, frontier)
  <1>1. n \in Nat \ {0} /\ DOMAIN solutions = 1..n
        /\ \A i \in 1..n : \A o \in Objectives : solutions[i].objectives[o] \in Int
    BY DEF Measured
  <1>2. result.all = solutions /\ result.frontier = frontier /\ result.best = best
    BY <1>1, RankZero DEF Optimize
  <1>3. \A i \in frontier : i \in 1..n /\ i \in Nat /\ 1 <= i /\ i <= n
    BY <1>1 DEF NonDominated
  <1>4. frontier # {}
    <2>1. 1 \in 1..n
      BY <1>1
    <2> QED
      BY <2>1, FrontierCovers
  <1> HIDE DEF frontier
  <1>5. ASSUME NEW o \in Objectives, NEW i \in 1..n
        PROVE  Advantage(solutions[i], By(o), o) <= 0
    <2> DEFINE value == [k \in frontier |-> IF IsMinimize(o) THEN -solutions[k].objectives[o]
                                            ELSE solutions[k].objectives[o]]
    <2>1. \A k \in frontier : value[k] \in Int
      BY <1>1, <1>3
    <2>2. By(o) = FirstBest(solutions, frontier, value)
      BY DEF selectByObjective
    <2>3. PICK k \in frontier : By(o) = solutions[k] /\ \A l \in frontier : value[l] <= value[k]
      <3>1. \E m \in Nat : \A l \in frontier : l \in Nat /\ 1 <= l /\ l <= m
        BY <1>1, <1>3
      <3>2. \A l \in frontier : value[l] \in Int
        BY <2>1
      <3> HIDE DEF value
      <3>3. \E k \in frontier : /\ FirstBest(solutions, frontier, value) = solutions[k]
                                /\ \A l \in frontier : value[l] <= value[k]
        BY <1>4, <3>1, <3>2, FirstBestIsBest
      <3> QED
        BY <2>2, <3>3
    <2>4. PICK j \in frontier : \A p \in Objectives : Advantage(solutions[j], solutions[i], p) >= 0
      BY FrontierCovers DEF frontier
    <2>5. value[j] <= value[k]
      BY <2>3
    <2>6. /\ solutions[i].objectives[o] \in Int /\ solutions[j].objectives[o] \in Int
          /\ solutions[k].objectives[o] \in Int
      BY <1>1, <1>3
    <2>7. Advantage(solutions[j], solutions[i], o) >= 0
      BY <2>4
    <2>8. IF IsMinimize(o) THEN -solutions[j].objectives[o] <= -solutions[k].objectives[o]
          ELSE solutions[j].objectives[o] <= solutions[k].objectives[o]
      BY <2>3, <2>5
    <2> HIDE DEF value
    <2>9. Advantage(solutions[i], solutions[k], o) <= 0
      <3>1. CASE IsMinimize(o)
        <4>1. solutions[k].objectives[o] <= solutions[j].objectives[o]
          BY <2>6, <2>8, <3>1
        <4> QED
          BY <2>6, <2>7, <3>1, <4>1 DEF Advantage
      <3>2. CASE ~IsMinimize(o)
        BY <2>6, <2>7, <2>8, <3>2 DEF Advantage
      <3> QED
        BY <3>1, <3>2
    <2> QED
      BY <2>3, <2>9
  <1>6. ASSUME NEW i \in 1..n
        PROVE  CalculateOverallScore(solutions[i], solutions)
                 <= CalculateOverallScore(best, solutions)
    <2> DEFINE Score(k) == CalculateOverallScore(solutions[k], solutions)
               scores == [k \in frontier |-> Score(k)]
    <2>1. ASSUME NEW k \in 1..n
          PROVE  Score(k) \in Int
      <3>1. \A o \in Objectives : Advantage(solutions[k], solutions[k], o) >= 0
        BY <1>1, AdvantageFacts
      <3> QED
        BY <3>1, ScoreIsMonotone
    <2>2. best = FirstBest(solutions, frontier, scores)
      BY DEF findBestSolution
    <2> HIDE DEF Score
    <2>3. \A k \in frontier : scores[k] = Score(k) /\ scores[k] \in Int
      BY <1>3, <2>1
    <2>4. PICK k \in frontier : best = solutions[k] /\ \A l \in frontier : scores[l] <= scores[k]
      <3>1. \E m \in Nat : \A l \in frontier : l \in Nat /\ 1 <= l /\ l <= m
        BY <1>1, <1>3
      <3>2. \A l \in frontier : scores[l] \in Int
        BY <2>3
      <3> HIDE DEF scores
      <3>3. \E k \in frontier : /\ FirstBest(solutions, frontier, scores) = solutions[k]
                                /\ \A l \in frontier : scores[l] <= scores[k]
        BY <1>4, <3>1, <3>2, FirstBestIsBest
      <3> QED
        BY <2>2, <3>3
    <2>5. PICK j \in frontier : \A p \in Objectives : Advantage(solutions[j], solutions[i], p) >= 0
      BY FrontierCovers DEF frontier
    <2>6. Score(i) <= Score(j)
      BY <1>3, <2>5, ScoreIsMonotone DEF Score
    <2>7. Score(j) <= Score(k)
      BY <2>3, <2>4
    <2>8. Score(i) \in Int /\ Score(j) \in Int /\ Score(k) \in Int
      BY <1>3, <2>1
    <2>9. Score(i) <= Score(k)
      BY <2>6, <2>7, <2>8
    <2> QED
      BY <2>4, <2>9 DEF Score
  <1>7. /\ GetRecommendationForProfile(result, "production") = By("reliability")
        /\ GetRecommendationForProfile(result, "test") = By("cost")
        /\ GetRecommendationForProfile(result, "performance") = By("performance")
        /\ GetRecommendationForProfile(result, "staging") = best
    <2> HIDE DEF result, best
    <2> QED
      BY <1>2 DEF GetRecommendationForProfile, SelectBestForProfile
  <1>8. "reliability" \in Objectives /\ "cost" \in Objectives /\ "performance" \in Objectives
    BY DEF Objectives
  <1>9. \A s \in Range(solutions) : \E i \in 1..n : s = solutions[i]
    BY <1>1 DEF Range
  <1> HIDE DEF result, best, By
  <1> QED
    BY <1>2, <1>5, <1>6, <1>7, <1>8, <1>9 DEF BestOf, result

-----------------------------------------------------------------------------
\* Kills.

\* When a container was last killed, 0 if it was not.
\* The history's record of a container against the reports of its kills.
Remembered(record, dead) ==
    /\ record.last \in Nat /\ record.count \in Nat
    /\ record.boost \in Nat /\ record.boost > 100
    /\ \A c \in dead : IsStatus(c) /\ Kill(c) <= record.last /\ c.restarts <= record.count
    /\ \E c \in dead : record.last = Kill(c)
    /\ \E c \in dead : record.count = c.restarts

\* The history after all these pods have been looked at.
Remembers(history, pods) ==
    /\ \A n : n \in DOMAIN history.containers <=> Dead(pods, n) # {}
    /\ \A n \in DOMAIN history.containers :
           /\ Remembered(history.containers[n], Dead(pods, n))
           /\ history.containers[n].last <= history.last
    /\ history.last \in Nat
    /\ \/ history.last = 0
       \/ \E n \in DOMAIN history.containers : history.last = history.containers[n].last

LEMMA KillIsLatest ==
  ASSUME NEW c, IsStatus(c)
  PROVE  /\ Kill(c) = Latest(c.last, c.current)
         /\ Kill(c) \in Nat
         /\ Kill(c) > 0 <=> c.last > 0 \/ c.current > 0
  <1>1. c.last \in Nat /\ c.current \in Nat /\ c.restarts \in Nat
    BY DEF IsStatus
  <1> DEFINE T == {c.last, c.current}
             m == Latest(c.last, c.current)
  <1>2. m \in T /\ \A i \in T : i <= m
    BY <1>1 DEF Latest
  <1>3. T \subseteq Int
    BY <1>1
  <1>4. Max(T) = m
    <2> HIDE DEF T, m
    <2> QED
      BY <1>2, <1>3, MaxIs
  <1> QED
    BY <1>1, <1>4 DEF Kill, Latest

(* Every count of restarts calls for more memory (oom_detector.go).         *)
LEMMA BoostIsMore ==
  ASSUME NEW restarts \in Nat
  PROVE  calculateMemoryBoost(restarts) \in Nat /\ calculateMemoryBoost(restarts) > 100
  <1> DEFINE T == {i \in DOMAIN Boosts : restarts >= Boosts[i][1]}
             Step(i) == restarts >= Boosts[i][1] /\ \A j \in 1..(i - 1) : restarts < Boosts[j][1]
  <1>1. /\ Boosts \in Seq(Nat \X Nat) /\ Boosts # <<>> /\ Boosts[Len(Boosts)][1] = 0
        /\ \A i \in DOMAIN Boosts : Boosts[i][2] > 100
    BY OOMAssumption
  <1>2. /\ Len(Boosts) \in Nat /\ DOMAIN Boosts = 1..Len(Boosts) /\ Len(Boosts) > 0
        /\ \A i \in 1..Len(Boosts) : Boosts[i] \in Nat \X Nat
    BY <1>1
  <1>3. \A i \in 1..Len(Boosts) : Boosts[i][1] \in Nat /\ Boosts[i][2] \in Nat
    BY <1>2
  <1>4. Len(Boosts) \in T
    BY <1>1, <1>2
  <1>5. T \subseteq Nat
    BY <1>2
  <1>6. PICK i \in T : \A j \in T : i <= j
    <2> HIDE DEF T
    <2> QED
      BY <1>4, <1>5, LeastIndex
  <1>7. i \in DOMAIN Boosts /\ Step(i)
    <2>1. ASSUME NEW j \in 1..(i - 1)
          PROVE  restarts < Boosts[j][1]
      <3>1. i \in 1..Len(Boosts)
        BY <1>2, <1>6
      <3>2. j \in 1..Len(Boosts) /\ ~(i <= j)
        BY <1>2, <3>1
      <3>3. j \notin T
        BY <1>6, <3>2
      <3>4. ~(restarts >= Boosts[j][1])
        BY <1>2, <3>2, <3>3
      <3> QED
        BY <1>3, <3>2, <3>4
    <2> QED
      BY <1>6, <2>1
  <1> DEFINE k == CHOOSE l \in DOMAIN Boosts : Step(l)
  <1>8. k \in DOMAIN Boosts
    BY <1>7
  <1>9. calculateMemoryBoost(restarts) = Boosts[k][2]
    BY DEF calculateMemoryBoost
  <1> HIDE DEF k
  <1> QED
    BY <1>1, <1>2, <1>3, <1>8, <1>9

(* What a pod without a kill adds is nothing, and of another it is what     *)
(* checkPodForOOM finds.                                                    *)
LEMMA DeadOfMore ==
  ASSUME NEW pods, NEW pod, IsPod(pod), NEW n
  PROVE  /\ n \in DOMAIN checkPodForOOM(pod) =>
                Dead(pods \cup {pod}, n) = Dead(pods, n) \cup {pod.containers[n]}
         /\ n \notin DOMAIN checkPodForOOM(pod) => Dead(pods \cup {pod}, n) = Dead(pods, n)
  <1>1. n \in DOMAIN checkPodForOOM(pod)
            <=> n \in DOMAIN pod.containers
                    /\ (pod.containers[n].last > 0 \/ pod.containers[n].current > 0)
    BY DEF checkPodForOOM
  <1>2. n \in DOMAIN pod.containers => IsStatus(pod.containers[n])
    BY DEF IsPod
  <1>3. n \in DOMAIN checkPodForOOM(pod)
            <=> n \in DOMAIN pod.containers /\ Kill(pod.containers[n]) > 0
    BY <1>1, <1>2, KillIsLatest
  <1>4. \A c : c \in Dead(pods \cup {pod}, n)
            <=> \/ c \in Dead(pods, n)
                \/ n \in DOMAIN pod.containers /\ c = pod.containers[n] /\ Kill(c) > 0
    BY DEF Dead
  <1> QED
    BY <1>3, <1>4

(* Of a finite domain, one value is the greatest.                           *)
LEMMA GreatestOfFinite ==
  ASSUME NEW T, IsFiniteSet(T), T # {}, NEW f, \A i \in T : f[i] \in Int
  PROVE  \E i \in T : \A j \in T : f[j] <= f[i]
  <1>1. PICK n \in Nat : ExistsSurjection(1..n, T)
    BY FS_NatSurjection
  <1>2. PICK g \in Surjection(1..n, T) : TRUE
    BY <1>1 DEF ExistsSurjection
  <1>3. g \in [1..n -> T] /\ \A t \in T : \E k \in 1..n : g[k] = t
    BY <1>2 DEF Surjection
  <1> DEFINE v == [k \in 1..n |-> f[g[k]]]
  <1>4. \A k \in 1..n : v[k] = f[g[k]] /\ v[k] \in Int
    BY <1>3
  <1>5. 1..n # {} /\ \A k \in 1..n : k \in Nat /\ 1 <= k /\ k <= n
    <2>1. 1..n # {}
      BY <1>3
    <2> QED
      BY <2>1
  <1> HIDE DEF v
  <1>6. PICK k \in 1..n : \A l \in 1..n : v[l] <= v[k]
    BY <1>4, <1>5, GreatestOf
  <1>7. ASSUME NEW j \in T
        PROVE  f[j] <= f[g[k]]
    <2>1. PICK l \in 1..n : g[l] = j
      BY <1>3
    <2> QED
      BY <1>4, <1>6, <2>1
  <1> QED
    BY <1>3, <1>7

LEMMA LatestTime ==
  ASSUME NEW pod, IsPod(pod), DOMAIN checkPodForOOM(pod) # {}
  PROVE  LET found == checkPodForOOM(pod)
             t == getLatestOOMTime(found)
         IN /\ t \in Nat
            /\ \A c \in DOMAIN found : found[c].last \in Nat /\ found[c].last <= t
            /\ \E c \in DOMAIN found : t = found[c].last
  <1> DEFINE found == checkPodForOOM(pod)
             times == {0} \cup {found[c].last : c \in DOMAIN found}
             f == [c \in DOMAIN found |-> found[c].last]
  <1>1. \A c \in DOMAIN found : /\ c \in DOMAIN pod.containers
                               /\ found[c] = checkContainerForOOM(pod.containers[c])
    BY DEF checkPodForOOM
  <1>2. \A c \in DOMAIN found : found[c].last \in Nat
    BY <1>1 DEF IsPod, IsStatus, checkContainerForOOM, Latest
  <1>3. IsFiniteSet(DOMAIN found)
    BY <1>1, FS_Subset DEF IsPod
  <1>4. \A c \in DOMAIN found : f[c] = found[c].last
    OBVIOUS
  <1> HIDE DEF found, f
  <1>5. PICK c \in DOMAIN found : \A d \in DOMAIN found : f[d] <= f[c]
    BY <1>2, <1>3, <1>4, GreatestOfFinite DEF found
  <1>6. \A d \in DOMAIN found : found[d].last <= found[c].last
    BY <1>4, <1>5
  <1>7. times \subseteq Int /\ found[c].last \in times /\ \A t \in times : t <= found[c].last
    BY <1>2, <1>6
  <1>8. Max(times) = found[c].last
    <2> HIDE DEF times
    <2> QED
      BY <1>7, MaxIs
  <1>9. getLatestOOMTime(found) = found[c].last
    BY <1>8 DEF getLatestOOMTime
  <1> QED
    BY <1>2, <1>6, <1>9 DEF found

(* One pod's kills are added to the history (updateOOMHistory).             *)
LEMMA UpdateRemembers ==
  ASSUME NEW history, NEW pods, Remembers(history, pods),
         NEW pod, IsPod(pod), DOMAIN checkPodForOOM(pod) # {}
  PROVE  Remembers(updateOOMHistory(history, checkPodForOOM(pod)), pods \cup {pod})
  <1> DEFINE found == checkPodForOOM(pod)
             new == updateOOMHistory(history, found)
             all == pods \cup {pod}
             old == history.containers
             t == getLatestOOMTime(found)
  <1>1. /\ \A n : n \in DOMAIN old <=> Dead(pods, n) # {}
        /\ \A n \in DOMAIN old : Remembered(old[n], Dead(pods, n)) /\ old[n].last <= history.last
        /\ history.last \in Nat
    BY DEF Remembers
  <1>2. /\ t \in Nat
        /\ \A c \in DOMAIN found : found[c].last \in Nat /\ found[c].last <= t
        /\ \E c \in DOMAIN found : t = found[c].last
    BY LatestTime
  <1>3. /\ DOMAIN new.containers = DOMAIN old \cup DOMAIN found
        /\ new.last = Latest(history.last, t)
        /\ \A n \in DOMAIN old \cup DOMAIN found :
              new.containers[n] = CASE n \notin DOMAIN found -> old[n]
                                    [] n \notin DOMAIN old -> found[n]
                                    [] OTHER -> UpdatedContainer(old[n], found[n])
    BY DEF updateOOMHistory
  <1>4. ASSUME NEW n \in DOMAIN found
        PROVE  LET c == pod.containers[n] IN
               /\ IsStatus(c) /\ Kill(c) \in Nat
               /\ found[n].last = Kill(c) /\ found[n].count = c.restarts
               /\ found[n].boost \in Nat /\ found[n].boost > 100
    <2> DEFINE c == pod.containers[n]
    <2>1. n \in DOMAIN pod.containers /\ found[n] = checkContainerForOOM(c)
      BY DEF checkPodForOOM
    <2>2. IsStatus(c)
      BY <2>1 DEF IsPod
    <2>3. Kill(c) = Latest(c.last, c.current) /\ Kill(c) \in Nat
      BY <2>2, KillIsLatest
    <2>4. c.restarts \in Nat
      BY <2>2 DEF IsStatus
    <2>5. calculateMemoryBoost(c.restarts) \in Nat /\ calculateMemoryBoost(c.restarts) > 100
      BY <2>4, BoostIsMore
    <2> HIDE DEF c, found
    <2> QED
      BY <2>1, <2>2, <2>3, <2>5 DEF checkContainerForOOM, c
  <1>5. ASSUME NEW n
        PROVE  /\ n \in DOMAIN found => Dead(all, n) = Dead(pods, n) \cup {pod.containers[n]}
               /\ n \notin DOMAIN found => Dead(all, n) = Dead(pods, n)
    BY DeadOfMore
  <1> HIDE DEF found, new, all, old, t
  <1>6. ASSUME NEW n \in DOMAIN old \cup DOMAIN found
        PROVE  Remembered(new.containers[n], Dead(all, n))
    <2>1. CASE n \notin DOMAIN found
      <3>1. new.containers[n] = old[n] /\ Dead(all, n) = Dead(pods, n) /\ n \in DOMAIN old
        BY <1>3, <1>5, <2>1
      <3> QED
        BY <1>1, <3>1
    <2>2. CASE n \in DOMAIN found /\ n \notin DOMAIN old
      <3>1. new.containers[n] = found[n] /\ Dead(all, n) = {pod.containers[n]}
        BY <1>1, <1>3, <1>5, <2>2
      <3> QED
        BY <1>4, <2>2, <3>1 DEF Remembered, IsStatus
    <2>3. CASE n \in DOMAIN found /\ n \in DOMAIN old
      <3> DEFINE c == pod.containers[n]
                 r == old[n]
                 f == found[n]
                 dead == Dead(pods, n)
      <3>1. new.containers[n] = UpdatedContainer(r, f) /\ Dead(all, n) = dead \cup {c}
        BY <1>3, <1>5, <2>3
      <3>2. Remembered(r, dead)
        BY <1>1, <2>3
      <3>3. /\ IsStatus(c) /\ Kill(c) \in Nat /\ f.last = Kill(c) /\ f.count = c.restarts
            /\ f.boost \in Nat /\ f.boost > 100
        BY <1>4, <2>3
      <3> DEFINE u == UpdatedContainer(r, f)
      <3> HIDE DEF r, f, c, dead
      <3>4. u.last = Latest(r.last, f.last) /\ u.count = Latest(r.count, f.count) /\ u.boost = f.boost
        BY DEF UpdatedContainer
      <3> HIDE DEF u
      <3>5. c.restarts \in Nat
        BY <3>3 DEF IsStatus
      <3>6. /\ r.last \in Nat /\ r.count \in Nat
            /\ \A d \in dead : IsStatus(d) /\ Kill(d) <= r.last /\ d.restarts <= r.count
            /\ \E d \in dead : r.last = Kill(d)
            /\ \E d \in dead : r.count = d.restarts
        BY <3>2 DEF Remembered
      <3>7. \A d \in dead : Kill(d) \in Nat /\ d.restarts \in Nat
        BY <3>6, KillIsLatest DEF IsStatus
      <3>8. /\ u.last \in Nat /\ r.last <= u.last /\ Kill(c) <= u.last
            /\ u.last = r.last \/ u.last = Kill(c)
        BY <3>3, <3>4, <3>6 DEF Latest
      <3>9. /\ u.count \in Nat /\ r.count <= u.count /\ c.restarts <= u.count
            /\ u.count = r.count \/ u.count = c.restarts
        BY <3>3, <3>4, <3>5, <3>6 DEF Latest
      <3>10. \A d \in dead \cup {c} :
                IsStatus(d) /\ Kill(d) <= u.last /\ d.restarts <= u.count
        BY <3>3, <3>5, <3>6, <3>7, <3>8, <3>9
      <3>11. \E d \in dead \cup {c} : u.last = Kill(d)
        BY <3>6, <3>8
      <3>12. \E d \in dead \cup {c} : u.count = d.restarts
        BY <3>6, <3>9
      <3>13. Remembered(u, dead \cup {c})
        BY <3>3, <3>4, <3>8, <3>9, <3>10, <3>11, <3>12 DEF Remembered
      <3> QED
        BY <3>1, <3>13 DEF u, dead, c
    <2> QED
      BY <2>1, <2>2, <2>3
  <1>7. ASSUME NEW n
        PROVE  n \in DOMAIN new.containers <=> Dead(all, n) # {}
    BY <1>1, <1>3, <1>5
  <1>8. ASSUME NEW n \in DOMAIN old \cup DOMAIN found
        PROVE  /\ new.containers[n].last <= Latest(history.last, t)
               /\ n \in DOMAIN old => old[n].last <= new.containers[n].last
               /\ n \in DOMAIN found => found[n].last <= new.containers[n].last
    <2>1. n \in DOMAIN old => old[n].last \in Nat /\ old[n].last <= history.last
      BY <1>1 DEF Remembered
    <2>2. n \in DOMAIN found => found[n].last \in Nat /\ found[n].last <= t
      BY <1>2
    <2>3. CASE n \notin DOMAIN found
      <3>1. new.containers[n] = old[n] /\ n \in DOMAIN old
        BY <1>3, <2>3
      <3> QED
        BY <1>1, <1>2, <2>1, <2>3, <3>1 DEF Latest
    <2>4. CASE n \in DOMAIN found /\ n \notin DOMAIN old
      <3>1. new.containers[n] = found[n]
        BY <1>3, <2>4
      <3> QED
        BY <1>1, <1>2, <2>2, <2>4, <3>1 DEF Latest
    <2>5. CASE n \in DOMAIN found /\ n \in DOMAIN old
      <3>1. new.containers[n] = UpdatedContainer(old[n], found[n])
        BY <1>3, <2>5
      <3>2. new.containers[n].last = Latest(old[n].last, found[n].last)
        BY <3>1 DEF UpdatedContainer
      <3> QED
        BY <1>1, <1>2, <2>1, <2>2, <2>5, <3>2 DEF Latest
    <2> QED
      BY <2>3, <2>4, <2>5
  <1>9. new.last \in Nat
    BY <1>1, <1>2, <1>3 DEF Latest
  <1>10. new.last = 0 \/ \E n \in DOMAIN old \cup DOMAIN found : new.last = new.containers[n].last
    <2>1. ASSUME NEW n \in DOMAIN old \cup DOMAIN found
          PROVE  new.containers[n].last \in Nat
      BY <1>6 DEF Remembered
    <2>2. CASE new.last = t
      <3>1. PICK n \in DOMAIN found : t = found[n].last
        BY <1>2
      <3>2. new.containers[n].last \in Nat /\ t <= new.containers[n].last
            /\ new.containers[n].last <= Latest(history.last, t)
        BY <1>8, <2>1, <3>1
      <3>3. new.containers[n].last = t
        BY <1>2, <1>3, <2>2, <3>2
      <3> QED
        BY <2>2, <3>1, <3>3
    <2>3. CASE new.last = history.last /\ history.last # 0
      <3>1. PICK n \in DOMAIN old : history.last = old[n].last
        BY <2>3 DEF Remembers, old
      <3>2. new.containers[n].last \in Nat /\ history.last <= new.containers[n].last
            /\ new.containers[n].last <= Latest(history.last, t)
        BY <1>8, <2>1, <3>1
      <3>3. new.containers[n].last = history.last
        BY <1>1, <1>3, <2>3, <3>2
      <3> QED
        BY <2>3, <3>1, <3>3
    <2>4. new.last = t \/ new.last = history.last
      BY <1>3 DEF Latest
    <2> QED
      BY <2>2, <2>3, <2>4
  <1>11. Remembers(new, all)
    BY <1>3, <1>6, <1>7, <1>8, <1>9, <1>10 DEF Remembers
  <1> QED
    BY <1>11 DEF new, all, found

(* A pod of another workload or without a kill changes nothing.             *)
LEMMA NothingNew ==
  ASSUME NEW history, NEW pods, Remembers(history, pods),
         NEW pod, IsPod(pod), DOMAIN checkPodForOOM(pod) = {}
  PROVE  Remembers(history, pods \cup {pod})
  <1>1. \A n : Dead(pods \cup {pod}, n) = Dead(pods, n)
    <2> SUFFICES ASSUME NEW n
                 PROVE  Dead(pods \cup {pod}, n) = Dead(pods, n)
      OBVIOUS
    <2>1. n \notin DOMAIN checkPodForOOM(pod)
      BY Zenon
    <2> QED
      BY <2>1, DeadOfMore
  <1> QED
    BY <1>1 DEF Remembers

\* The loop over the pods of a listing: the histories after m of them, from g.
AfterPods(g, m, history, workload, pods) ==
    [n \in 0..m |->
        IF n = 0 THEN history
        ELSE LET found == checkPodForOOM(pods[n]) IN
             IF DOMAIN found = {} \/ extractWorkloadNameFromPod(pods[n]) # workload
             THEN g[n - 1]
             ELSE updateOOMHistory(g[n - 1], found)]

LEMMA AfterPodsExist ==
  ASSUME NEW history, NEW workload, NEW pods
  PROVE  \A m \in Nat : \E g : g = AfterPods(g, m, history, workload, pods)
  <1> DEFINE S == {m \in Nat : \E g : g = AfterPods(g, m, history, workload, pods)}
  <1>1. 0 \in S
    <2> DEFINE g == [n \in 0..0 |-> history]
    <2>1. g = AfterPods(g, 0, history, workload, pods)
      BY DEF AfterPods
    <2> QED
      BY <2>1
  <1>2. ASSUME NEW m \in Nat, m \in S
        PROVE  m + 1 \in S
    <2>1. PICK g : g = AfterPods(g, m, history, workload, pods)
      BY <1>2
    <2> DEFINE found == checkPodForOOM(pods[m + 1])
               last == IF DOMAIN found = {} \/ extractWorkloadNameFromPod(pods[m + 1]) # workload
                       THEN g[m] ELSE updateOOMHistory(g[m], found)
               f == [n \in 0..(m + 1) |-> IF n = m + 1 THEN last ELSE g[n]]
    <2>2. ASSUME NEW n \in 0..(m + 1)
          PROVE  f[n] = AfterPods(f, m + 1, history, workload, pods)[n]
      <3>1. CASE n = m + 1
        <4>1. f[n] = last /\ f[n - 1] = g[m] /\ n # 0
          BY <3>1
        <4> HIDE DEF f
        <4> QED
          BY <3>1, <4>1 DEF AfterPods
      <3>2. CASE n # m + 1
        <4>1. n \in 0..m /\ f[n] = g[n]
          BY <3>2
        <4>2. n # 0 => n - 1 \in 0..m /\ f[n - 1] = g[n - 1]
          BY <4>1
        <4>3. g[n] = AfterPods(g, m, history, workload, pods)[n]
          BY <2>1
        <4> HIDE DEF f
        <4> QED
          BY <4>1, <4>2, <4>3 DEF AfterPods
      <3> QED
        BY <3>1, <3>2
    <2>3. f = [n \in 0..(m + 1) |-> f[n]]
      OBVIOUS
    <2> HIDE DEF f
    <2>4. f = AfterPods(f, m + 1, history, workload, pods)
      BY <2>2, <2>3 DEF AfterPods
    <2> QED
      BY <2>4
  <1> HIDE DEF S
  <1>3. Nat \subseteq S
    BY <1>1, <1>2, Induction
  <1> QED
    BY <1>3 DEF S

IsListing(listing) == listing \in Seq(Range(listing)) /\ \A pod \in Range(listing) : IsPod(pod)

\* The pods of the workload that is watched.
LEMMA ListingIsRemembered ==
  ASSUME NEW listing, IsListing(listing), NEW history, NEW pods, Remembers(history, pods)
  PROVE  Remembers(CheckNamespaceForOOMs(history, Watched, listing),
                   pods \cup OfWatched(Range(listing)))
  <1> DEFINE after[n \in 0..Len(listing)] ==
                 IF n = 0 THEN history
                 ELSE LET found == checkPodForOOM(listing[n]) IN
                      IF DOMAIN found = {} \/ extractWorkloadNameFromPod(listing[n]) # Watched
                      THEN after[n - 1]
                      ELSE updateOOMHistory(after[n - 1], found)
             Upto(n) == OfWatched({listing[i] : i \in 1..n})
             S == {n \in Nat : n <= Len(listing) => Remembers(after[n], pods \cup Upto(n))}
  <1>1. /\ Len(listing) \in Nat /\ DOMAIN listing = 1..Len(listing)
        /\ \A i \in 1..Len(listing) : IsPod(listing[i])
    BY DEF IsListing, Range
  <1>2. after = CHOOSE g : g = AfterPods(g, Len(listing), history, Watched, listing)
    BY DEF after, AfterPods
  <1>3. after = AfterPods(after, Len(listing), history, Watched, listing)
    BY <1>1, <1>2, AfterPodsExist
  <1>4. CheckNamespaceForOOMs(history, Watched, listing) = after[Len(listing)]
    BY DEF CheckNamespaceForOOMs, after
  <1> HIDE DEF after
  <1>5. 0 \in S
    <2>1. after[0] = history
      BY <1>1, <1>3 DEF AfterPods
    <2>2. Upto(0) = {}
      BY DEF OfWatched
    <2> QED
      BY <2>1, <2>2
  <1>6. ASSUME NEW n \in Nat, n \in S
        PROVE  n + 1 \in S
    <2> SUFFICES ASSUME n + 1 <= Len(listing)
                 PROVE  Remembers(after[n + 1], pods \cup Upto(n + 1))
      OBVIOUS
    <2> DEFINE pod == listing[n + 1]
               found == checkPodForOOM(pod)
    <2>1. Remembers(after[n], pods \cup Upto(n))
      BY <1>1, <1>6
    <2>2. after[n + 1] = IF DOMAIN found = {} \/ extractWorkloadNameFromPod(pod) # Watched
                         THEN after[n] ELSE updateOOMHistory(after[n], found)
      <3>1. n + 1 \in 0..Len(listing) /\ n + 1 # 0 /\ (n + 1) - 1 = n
        BY <1>1
      <3> QED
        BY <1>3, <3>1 DEF AfterPods
    <2>3. IsPod(pod)
      BY <1>1
    <2>4. {listing[i] : i \in 1..(n + 1)} = {listing[i] : i \in 1..n} \cup {pod}
      <3>1. 1..(n + 1) = 1..n \cup {n + 1}
        OBVIOUS
      <3> QED
        BY <3>1
    <2>5. pods \cup Upto(n + 1) = IF extractWorkloadNameFromPod(pod) = Watched
                                  THEN (pods \cup Upto(n)) \cup {pod} ELSE pods \cup Upto(n)
      BY <2>4 DEF OfWatched
    <2> HIDE DEF Upto, found, pod
    <2>6. CASE extractWorkloadNameFromPod(pod) # Watched
      BY <2>1, <2>2, <2>5, <2>6
    <2>7. CASE extractWorkloadNameFromPod(pod) = Watched /\ DOMAIN found = {}
      BY <2>1, <2>2, <2>3, <2>5, <2>7, NothingNew DEF found
    <2>8. CASE extractWorkloadNameFromPod(pod) = Watched /\ DOMAIN found # {}
      BY <2>1, <2>2, <2>3, <2>5, <2>8, UpdateRemembers DEF found
    <2> QED
      BY <2>6, <2>7, <2>8
  <1>7. Len(listing) \in S
    <2> HIDE DEF S
    <2> QED
      BY <1>1, <1>5, <1>6, Induction
  <1>8. Remembers(after[Len(listing)], pods \cup Upto(Len(listing)))
    BY <1>7
  <1>9. {listing[i] : i \in 1..Len(listing)} = Range(listing)
    BY <1>1 DEF Range
  <1> QED
    BY <1>4, <1>8, <1>9

\* The loop over scans: the histories after m of them, from g.
AfterScans(g, m, scans) ==
    [n \in 0..m |-> IF n = 0 THEN NoHistory
                    ELSE CheckNamespaceForOOMs(g[n - 1], Watched, scans[n])]

LEMMA AfterScansExist ==
  ASSUME NEW scans
  PROVE  \A m \in Nat : \E g : g = AfterScans(g, m, scans)
  <1> DEFINE S == {m \in Nat : \E g : g = AfterScans(g, m, scans)}
  <1>1. 0 \in S
    <2> DEFINE g == [n \in 0..0 |-> NoHistory]
    <2>1. g = AfterScans(g, 0, scans)
      BY DEF AfterScans
    <2> QED
      BY <2>1
  <1>2. ASSUME NEW m \in Nat, m \in S
        PROVE  m + 1 \in S
    <2>1. PICK g : g = AfterScans(g, m, scans)
      BY <1>2
    <2> DEFINE last == CheckNamespaceForOOMs(g[m], Watched, scans[m + 1])
               f == [n \in 0..(m + 1) |-> IF n = m + 1 THEN last ELSE g[n]]
    <2>2. ASSUME NEW n \in 0..(m + 1)
          PROVE  f[n] = AfterScans(f, m + 1, scans)[n]
      <3>1. CASE n = m + 1
        <4>1. f[n] = last /\ f[n - 1] = g[m] /\ n # 0
          BY <3>1
        <4> HIDE DEF f
        <4> QED
          BY <3>1, <4>1 DEF AfterScans
      <3>2. CASE n # m + 1
        <4>1. n \in 0..m /\ f[n] = g[n]
          BY <3>2
        <4>2. n # 0 => n - 1 \in 0..m /\ f[n - 1] = g[n - 1]
          BY <4>1
        <4>3. g[n] = AfterScans(g, m, scans)[n]
          BY <2>1
        <4> HIDE DEF f
        <4> QED
          BY <4>1, <4>2, <4>3 DEF AfterScans
      <3> QED
        BY <3>1, <3>2
    <2>3. f = [n \in 0..(m + 1) |-> f[n]]
      OBVIOUS
    <2> HIDE DEF f
    <2>4. f = AfterScans(f, m + 1, scans)
      BY <2>2, <2>3 DEF AfterScans
    <2> QED
      BY <2>4
  <1> HIDE DEF S
  <1>3. Nat \subseteq S
    BY <1>1, <1>2, Induction
  <1> QED
    BY <1>3 DEF S

(* After all scans the history is that of all pods that were listed.        *)
LEMMA ScansAreRemembered ==
  ASSUME NEW scans, scans \in Seq(Range(scans)), \A l \in Range(scans) : IsListing(l)
  PROVE  Remembers(Scanned(scans),
                   OfWatched(UNION {Range(scans[i]) : i \in DOMAIN scans}))
  <1> DEFINE after[n \in 0..Len(scans)] ==
                 IF n = 0 THEN NoHistory
                 ELSE CheckNamespaceForOOMs(after[n - 1], Watched, scans[n])
             Upto(n) == OfWatched(UNION {Range(scans[i]) : i \in 1..n})
             S == {n \in Nat : n <= Len(scans) => Remembers(after[n], Upto(n))}
  <1>1. /\ Len(scans) \in Nat /\ DOMAIN scans = 1..Len(scans)
        /\ \A i \in 1..Len(scans) : IsListing(scans[i])
    BY DEF Range
  <1>2. after = CHOOSE g : g = AfterScans(g, Len(scans), scans)
    BY DEF after, AfterScans
  <1>3. after = AfterScans(after, Len(scans), scans)
    BY <1>1, <1>2, AfterScansExist
  <1>4. Scanned(scans) = after[Len(scans)]
    BY DEF Scanned, after
  <1> HIDE DEF after
  <1>5. 0 \in S
    <2>1. after[0] = NoHistory
      BY <1>1, <1>3 DEF AfterScans
    <2>2. Upto(0) = {}
      BY DEF OfWatched
    <2>3. Remembers(NoHistory, {})
      BY DEF Remembers, NoHistory, Dead
    <2> QED
      BY <2>1, <2>2, <2>3
  <1>6. ASSUME NEW n \in Nat, n \in S
        PROVE  n + 1 \in S
    <2> SUFFICES ASSUME n + 1 <= Len(scans)
                 PROVE  Remembers(after[n + 1], Upto(n + 1))
      OBVIOUS
    <2>1. Remembers(after[n], Upto(n))
      BY <1>1, <1>6
    <2>2. after[n + 1] = CheckNamespaceForOOMs(after[n], Watched, scans[n + 1])
      <3>1. n + 1 \in 0..Len(scans) /\ n + 1 # 0 /\ (n + 1) - 1 = n
        BY <1>1
      <3> QED
        BY <1>3, <3>1 DEF AfterScans
    <2>3. IsListing(scans[n + 1])
      BY <1>1
    <2>4. Upto(n + 1) = Upto(n) \cup OfWatched(Range(scans[n + 1]))
      <3>1. 1..(n + 1) = 1..n \cup {n + 1}
        OBVIOUS
      <3> QED
        BY <3>1 DEF OfWatched
    <2> HIDE DEF Upto
    <2> QED
      BY <2>1, <2>2, <2>3, <2>4, ListingIsRemembered
  <1>7. Len(scans) \in S
    <2> HIDE DEF S
    <2> QED
      BY <1>1, <1>5, <1>6, Induction
  <1> QED
    BY <1>1, <1>4, <1>7

(* The clearing removes no kill as young as the cutoff (oom_detector.go).   *)
LEMMA ClearedRemembers ==
  ASSUME NEW h \in KillHistories
  PROVE  KillsIn(h, ClearOOMHistory(Scanned(h.scans), h.cutoff))
  <1> DEFINE pods == OfWatched(UNION {Range(h.scans[i]) : i \in DOMAIN h.scans})
             history == Scanned(h.scans)
             records == history.containers
             names == {n \in UNION {DOMAIN k : k \in {pod.containers : pod \in pods}} :
                          Dead(pods, n) # {}}
             times == {0} \cup {Max({Kill(c) : c \in Dead(pods, n)}) : n \in names}
  <1>1. Remembers(history, pods) /\ h.cutoff \in Int
    BY AssessmentAssumption, ScansAreRemembered DEF IsListing
  <1> HIDE DEF history, pods
  <1>2. /\ \A n : n \in DOMAIN records <=> Dead(pods, n) # {}
        /\ \A n \in DOMAIN records :
               Remembered(records[n], Dead(pods, n)) /\ records[n].last <= history.last
        /\ history.last \in Nat
        /\ history.last = 0 \/ \E n \in DOMAIN records : history.last = records[n].last
    BY <1>1 DEF Remembers
  <1>3. names = DOMAIN records
    <2>1. \A n : Dead(pods, n) # {} => n \in UNION {DOMAIN k : k \in {pod.containers : pod \in pods}}
      BY DEF Dead
    <2> QED
      BY <1>2, <2>1
  <1>4. ASSUME NEW n \in DOMAIN records
        PROVE  /\ records[n].last = Max({Kill(d) : d \in Dead(pods, n)})
               /\ records[n].count = Max({d.restarts : d \in Dead(pods, n)})
               /\ records[n].last \in Nat /\ records[n].boost > 100
    <2> DEFINE kills == {Kill(d) : d \in Dead(pods, n)}
               counts == {d.restarts : d \in Dead(pods, n)}
               r == records[n]
    <2>1. Remembered(r, Dead(pods, n))
      BY <1>2
    <2> HIDE DEF r
    <2>2. \A d \in Dead(pods, n) : Kill(d) \in Nat /\ d.restarts \in Nat
      BY <2>1, KillIsLatest DEF Remembered, IsStatus
    <2>3. kills \subseteq Int /\ r.last \in kills /\ \A i \in kills : i <= r.last
      BY <2>1, <2>2 DEF Remembered
    <2>4. counts \subseteq Int /\ r.count \in counts /\ \A i \in counts : i <= r.count
      BY <2>1, <2>2 DEF Remembered
    <2> HIDE DEF kills, counts
    <2>5. Max(kills) = r.last /\ Max(counts) = r.count
      BY <2>3, <2>4, MaxIs
    <2> QED
      BY <2>1, <2>5 DEF kills, counts, r, Remembered
  <1>5. times = {0} \cup {records[n].last : n \in DOMAIN records}
    BY <1>3, <1>4
  <1>6. Max(times) = history.last
    <2> DEFINE last == history.last
    <2>1. \A n \in DOMAIN records : records[n].last \in Nat /\ records[n].last <= last
      BY <1>2, <1>4
    <2>2. last \in Nat /\ (last = 0 \/ \E n \in DOMAIN records : last = records[n].last)
      BY <1>2
    <2> HIDE DEF last, records
    <2>3. last \in {0} \cup {records[n].last : n \in DOMAIN records}
      BY <2>2
    <2>4. \A i \in {0} \cup {records[n].last : n \in DOMAIN records} : i \in Int /\ i <= last
      BY <2>1, <2>2
    <2>5. times \subseteq Int /\ last \in times /\ \A i \in times : i <= last
      BY <1>5, <2>3, <2>4
    <2> HIDE DEF times
    <2>6. Max(times) = last
      BY <2>5, MaxIs
    <2> QED
      BY <2>6 DEF last
  <1>7. CASE history.last >= h.cutoff
    <2>1. ClearOOMHistory(history, h.cutoff) = history
      BY <1>1, <1>2, <1>7 DEF ClearOOMHistory
    <2>2. \A n \in DOMAIN records : GetMemoryBoostFactor(history, n) > 100
      BY <1>4 DEF GetMemoryBoostFactor
    <2> QED
      BY <1>3, <1>4, <2>1, <2>2 DEF KillsIn, history, pods
  <1>8. CASE ~(history.last >= h.cutoff)
    BY <1>6, <1>8 DEF KillsIn, pods
  <1> QED
    BY <1>7, <1>8

-----------------------------------------------------------------------------

(* What is asserted of the answers to four of the questions.  Each names    *)
(* one question, and holds of whatever is answered to another.              *)

-----------------------------------------------------------------------------
\* Sums.

\* The sums up to each place, from the sums g up to the places before.
Partial(g, n, values) ==
    [k \in 0..n |-> IF k = 0 THEN 0 ELSE g[k - 1] + values[k]]

LEMMA PartialSumsExist ==
  ASSUME NEW values
  PROVE  \A n \in Nat : \E g : g = Partial(g, n, values)
  <1> DEFINE S == {n \in Nat : \E g : g = Partial(g, n, values)}
  <1>1. 0 \in S
    <2> DEFINE g == [k \in 0..0 |-> 0]
    <2>1. g = Partial(g, 0, values)
      BY DEF Partial
    <2> QED
      BY <2>1
  <1>2. ASSUME NEW n \in Nat, n \in S
        PROVE  n + 1 \in S
    <2>1. PICK g : g = Partial(g, n, values)
      BY <1>2
    <2> DEFINE f == [k \in 0..(n + 1) |-> IF k = n + 1 THEN g[n] + values[n + 1] ELSE g[k]]
    <2>2. ASSUME NEW k \in 0..(n + 1)
          PROVE  f[k] = Partial(f, n + 1, values)[k]
      <3>1. CASE k = n + 1
        <4>1. f[k] = g[n] + values[n + 1] /\ f[k - 1] = g[n] /\ k # 0
          BY <3>1
        <4> HIDE DEF f
        <4> QED
          BY <3>1, <4>1 DEF Partial
      <3>2. CASE k # n + 1
        <4>1. k \in 0..n /\ f[k] = g[k]
          BY <3>2
        <4>2. k # 0 => k - 1 \in 0..n /\ f[k - 1] = g[k - 1]
          BY <4>1
        <4>3. g[k] = Partial(g, n, values)[k]
          BY <2>1
        <4> HIDE DEF f
        <4> QED
          BY <4>1, <4>2, <4>3 DEF Partial
      <3> QED
        BY <3>1, <3>2
    <2>3. f = [k \in 0..(n + 1) |-> f[k]]
      OBVIOUS
    <2> HIDE DEF f
    <2>4. f = Partial(f, n + 1, values)
      BY <2>2, <2>3 DEF Partial
    <2> QED
      BY <2>4
  <1> HIDE DEF S
  <1>3. Nat \subseteq S
    BY <1>1, <1>2, Induction
  <1> QED
    BY <1>3 DEF S

LEMMA SumIsLast ==
  ASSUME NEW n \in Nat, NEW values, values \in [1..n -> Int]
  PROVE  \E g \in [0..n -> Int] :
            g[0] = 0 /\ (\A k \in 1..n : g[k] = g[k - 1] + values[k]) /\ Sum(values) = g[n]
  <1> DEFINE upto[k \in 0..Len(values)] == IF k = 0 THEN 0 ELSE upto[k - 1] + values[k]
  <1>0. Len(values) = n
    OBVIOUS
  <1>1. upto = CHOOSE g : g = Partial(g, Len(values), values)
    BY DEF upto, Partial
  <1>2. upto = Partial(upto, n, values)
    BY <1>0, <1>1, PartialSumsExist
  <1>3. Sum(values) = upto[n]
    BY <1>0 DEF Sum
  <1> HIDE DEF upto
  <1>4. upto = [k \in 0..n |-> upto[k]]
    BY <1>2 DEF Partial
  <1>5. upto[0] = 0 /\ \A k \in 1..n : upto[k] = upto[k - 1] + values[k]
    BY <1>2 DEF Partial
  <1> DEFINE S == {k \in Nat : k <= n => upto[k] \in Int}
  <1>6. 0 \in S
    BY <1>5
  <1>7. ASSUME NEW k \in Nat, k \in S
        PROVE  k + 1 \in S
    <2>1. CASE k + 1 <= n
      <3>1. k + 1 \in 1..n /\ (k + 1) - 1 = k /\ upto[k] \in Int /\ values[k + 1] \in Int
        BY <1>7, <2>1
      <3> QED
        BY <1>5, <3>1
    <2> QED
      BY <2>1
  <1>8. Nat \subseteq S
    <2> HIDE DEF S
    <2> QED
      BY <1>6, <1>7, Induction
  <1>9. upto \in [0..n -> Int]
    BY <1>4, <1>8
  <1> QED
    BY <1>3, <1>5, <1>9

LEMMA SumType ==
  ASSUME NEW n \in Nat, NEW values, values \in [1..n -> Int]
  PROVE  Sum(values) \in Int
  BY SumIsLast

\* z is x and y combined, place by place.
Combines(n, z, a, x, b, y, c) ==
    /\ n \in Nat /\ a \in Int /\ b \in Int /\ c \in Int
    /\ x \in [1..n -> Int] /\ y \in [1..n -> Int] /\ z \in [1..n -> Int]
    /\ \A i \in 1..n : z[i] = a * x[i] + b * y[i] + c

LEMMA LinearStep ==
  ASSUME NEW a \in Int, NEW b \in Int, NEW c \in Int, NEW k \in Nat,
         NEW f \in Int, NEW g \in Int, NEW x \in Int, NEW y \in Int
  PROVE  a * (f + x) + b * (g + y) + (k + 1) * c
           = (a * f + b * g + k * c) + (a * x + b * y + c)
  OBVIOUS

LEMMA SumLinear ==
  ASSUME NEW n, NEW x, NEW y, NEW z, NEW a, NEW b, NEW c, Combines(n, z, a, x, b, y, c)
  PROVE  Sum(z) = a * Sum(x) + b * Sum(y) + n * c
  <1> SUFFICES ASSUME n \in Nat, a \in Int, b \in Int, c \in Int,
                      x \in [1..n -> Int], y \in [1..n -> Int], z \in [1..n -> Int],
                      \A i \in 1..n : z[i] = a * x[i] + b * y[i] + c
               PROVE  Sum(z) = a * Sum(x) + b * Sum(y) + n * c
    BY DEF Combines
  <1>1. PICK f \in [0..n -> Int] :
           f[0] = 0 /\ (\A k \in 1..n : f[k] = f[k - 1] + x[k]) /\ Sum(x) = f[n]
    BY SumIsLast
  <1>2. PICK g \in [0..n -> Int] :
           g[0] = 0 /\ (\A k \in 1..n : g[k] = g[k - 1] + y[k]) /\ Sum(y) = g[n]
    BY SumIsLast
  <1>3. PICK h \in [0..n -> Int] :
           h[0] = 0 /\ (\A k \in 1..n : h[k] = h[k - 1] + z[k]) /\ Sum(z) = h[n]
    BY SumIsLast
  <1> DEFINE S == {k \in Nat : k <= n => h[k] = a * f[k] + b * g[k] + k * c}
  <1>4. 0 \in S
    BY <1>1, <1>2, <1>3
  <1>5. ASSUME NEW k \in Nat, k \in S
        PROVE  k + 1 \in S
    <2>1. CASE k + 1 <= n
      <3> DEFINE l == k + 1
      <3>1. l \in 1..n /\ l - 1 = k /\ k \in 0..n
        BY <2>1
      <3>2. h[k] = a * f[k] + b * g[k] + k * c
        BY <1>5, <3>1
      <3>3. h[l] = h[k] + z[l] /\ f[l] = f[k] + x[l] /\ g[l] = g[k] + y[l]
        BY <1>1, <1>2, <1>3, <3>1
      <3>4. z[l] = a * x[l] + b * y[l] + c
        BY <3>1
      <3>5. f[k] \in Int /\ g[k] \in Int /\ h[k] \in Int /\ x[l] \in Int /\ y[l] \in Int
        BY <3>1
      <3>8. h[l] = a * f[l] + b * g[l] + l * c
        <4> DEFINE p == f[k]
                   q == g[k]
                   r == x[l]
                   s == y[l]
        <4>0. p \in Int /\ q \in Int /\ r \in Int /\ s \in Int
          BY <3>5
        <4> HIDE DEF p, q, r, s
        <4>1. a * (p + r) + b * (q + s) + (k + 1) * c
                = (a * p + b * q + k * c) + (a * r + b * s + c)
          BY <4>0, LinearStep
        <4> USE DEF p, q, r, s
        <4> QED
          BY <3>2, <3>3, <3>4, <4>1
      <3> QED
        BY <3>8
    <2> QED
      BY <2>1
  <1>6. Nat \subseteq S
    <2> HIDE DEF S
    <2> QED
      BY <1>4, <1>5, Induction
  <1> QED
    BY <1>1, <1>2, <1>3, <1>6

LEMMA SumMonotone ==
  ASSUME NEW n \in Nat, NEW x, NEW y, x \in [1..n -> Int], y \in [1..n -> Int],
         \A i \in 1..n : x[i] <= y[i]
  PROVE  Sum(x) <= Sum(y)
  <1>1. PICK f \in [0..n -> Int] :
           f[0] = 0 /\ (\A k \in 1..n : f[k] = f[k - 1] + x[k]) /\ Sum(x) = f[n]
    BY SumIsLast
  <1>2. PICK g \in [0..n -> Int] :
           g[0] = 0 /\ (\A k \in 1..n : g[k] = g[k - 1] + y[k]) /\ Sum(y) = g[n]
    BY SumIsLast
  <1> DEFINE S == {k \in Nat : k <= n => f[k] <= g[k]}
  <1>4. 0 \in S
    BY <1>1, <1>2
  <1>5. ASSUME NEW k \in Nat, k \in S
        PROVE  k + 1 \in S
    <2>1. CASE k + 1 <= n
      <3>1. k + 1 \in 1..n /\ (k + 1) - 1 = k /\ k \in 0..n
        BY <2>1
      <3>3. f[k + 1] = f[k] + x[k + 1] /\ g[k + 1] = g[k] + y[k + 1]
        BY <1>1, <1>2, <3>1
      <3>5. f[k] \in Int /\ g[k] \in Int /\ x[k + 1] \in Int /\ y[k + 1] \in Int
        BY <3>1
      <3> QED
        BY <1>5, <3>1, <3>3, <3>5
    <2> QED
      BY <2>1
  <1>6. Nat \subseteq S
    <2> HIDE DEF S
    <2> QED
      BY <1>4, <1>5, Induction
  <1> QED
    BY <1>1, <1>2, <1>6

LEMMA MembersUpto ==
  ASSUME NEW n \in Nat, NEW K, \A i \in K : i \in Nat /\ 1 <= i /\ i <= n
  PROVE  /\ {i \in K : i <= 0} = {}
         /\ {i \in K : i <= n} = K
  OBVIOUS

LEMMA NextMember ==
  ASSUME NEW K, \A i \in K : i \in Nat, NEW k \in Nat
  PROVE  /\ k + 1 \in K => {i \in K : i <= k + 1} = {i \in K : i <= k} \cup {k + 1}
         /\ k + 1 \notin K => {i \in K : i <= k + 1} = {i \in K : i <= k}
  OBVIOUS

\* The same number d for every member of K.
LEMMA SumOfMembers ==
  ASSUME NEW n \in Nat, NEW K, K \subseteq 1..n, NEW d \in Int
  PROVE  Sum([i \in 1..n |-> IF i \in K THEN d ELSE 0]) = d * Cardinality(K)
  <1> DEFINE x == [i \in 1..n |-> IF i \in K THEN d ELSE 0]
             Upto(k) == {i \in K : i <= k}
  <1>0. \A i \in K : i \in Nat /\ 1 <= i /\ i <= n
    OBVIOUS
  <1>a. Upto(0) = {} /\ Upto(n) = K
    BY <1>0, MembersUpto, Zenon
  <1>b. ASSUME NEW k \in Nat
        PROVE  /\ k + 1 \in K => Upto(k + 1) = Upto(k) \cup {k + 1}
               /\ k + 1 \notin K => Upto(k + 1) = Upto(k)
    BY <1>0, NextMember, Zenon
  <1>1. PICK f \in [0..n -> Int] :
           f[0] = 0 /\ (\A k \in 1..n : f[k] = f[k - 1] + x[k]) /\ Sum(x) = f[n]
    <2>1. x \in [1..n -> Int]
      OBVIOUS
    <2> HIDE DEF x
    <2> QED
      BY <2>1, SumIsLast
  <1>2. \A k \in Nat : IsFiniteSet(Upto(k)) /\ Cardinality(Upto(k)) \in Nat
    <2>1. IsFiniteSet(1..n)
      BY FS_Interval
    <2>2. \A k \in Nat : Upto(k) \subseteq 1..n
      BY <1>0
    <2> QED
      BY <2>1, <2>2, FS_Subset, FS_CardinalityType
  <1> DEFINE S == {k \in Nat : k <= n => f[k] = d * Cardinality(Upto(k))}
  <1>4. 0 \in S
    <2>2. Cardinality(Upto(0)) = 0
      BY <1>a, FS_EmptySet
    <2> QED
      BY <1>1, <2>2
  <1>5. ASSUME NEW k \in Nat, k \in S
        PROVE  k + 1 \in S
    <2>1. CASE k + 1 <= n
      <3>1. k + 1 \in 1..n /\ (k + 1) - 1 = k /\ k \in 0..n
        BY <2>1
      <3>2. f[k + 1] = f[k] + x[k + 1]
        BY <1>1, <3>1
      <3>3. f[k] = d * Cardinality(Upto(k))
        BY <1>5, <3>1
      <3>4. CASE k + 1 \in K
        <4>1. Upto(k + 1) = Upto(k) \cup {k + 1} /\ k + 1 \notin Upto(k)
          BY <1>b, <3>4
        <4>2. Cardinality(Upto(k + 1)) = Cardinality(Upto(k)) + 1
          BY <1>2, <4>1, FS_AddElement
        <4>3. x[k + 1] = d
          BY <3>1, <3>4
        <4>4. f[k + 1] = d * Cardinality(Upto(k)) + d
          BY <3>2, <3>3, <4>3
        <4>5. d * (Cardinality(Upto(k)) + 1) = d * Cardinality(Upto(k)) + d
          <5>1. Cardinality(Upto(k)) \in Nat
            BY <1>2
          <5> HIDE DEF Upto
          <5> QED
            BY <5>1
        <4> QED
          BY <4>2, <4>4, <4>5
      <3>5. CASE k + 1 \notin K
        <4>1. Upto(k + 1) = Upto(k)
          BY <1>b, <3>5
        <4>3. x[k + 1] = 0
          BY <3>1, <3>5
        <4>4. f[k] \in Int
          BY <3>1
        <4>5. f[k + 1] = d * Cardinality(Upto(k + 1))
          <5>1. f[k + 1] = f[k]
            BY <3>2, <4>3, <4>4
          <5> QED
            BY <3>3, <4>1, <5>1, Zenon
        <4> QED
          BY <4>5
      <3> QED
        BY <3>4, <3>5
    <2> QED
      BY <2>1
  <1>6. Nat \subseteq S
    <2> HIDE DEF S
    <2> QED
      BY <1>4, <1>5, Induction
  <1> QED
    BY <1>1, <1>6, <1>a

\* The same number for all.
LEMMA SumOfEqual ==
  ASSUME NEW n \in Nat, NEW d \in Int
  PROVE  Sum([i \in 1..n |-> d]) = d * n
  <1>1. [i \in 1..n |-> IF i \in 1..n THEN d ELSE 0] = [i \in 1..n |-> d]
    OBVIOUS
  <1>2. Cardinality(1..n) = n
    BY FS_Interval
  <1> QED
    BY <1>1, <1>2, SumOfMembers

LEMMA SumAtLeast ==
  ASSUME NEW n \in Nat, NEW x, x \in [1..n -> Int], NEW d \in Int, \A i \in 1..n : d <= x[i]
  PROVE  d * n <= Sum(x)
  <1> DEFINE y == [i \in 1..n |-> d]
  <1>1. y \in [1..n -> Int] /\ \A i \in 1..n : y[i] <= x[i]
    OBVIOUS
  <1>2. Sum(y) = d * n
    BY SumOfEqual
  <1> HIDE DEF y
  <1> QED
    BY <1>1, <1>2, SumMonotone

LEMMA SumAtMost ==
  ASSUME NEW n \in Nat, NEW x, x \in [1..n -> Int], NEW d \in Int, \A i \in 1..n : x[i] <= d
  PROVE  Sum(x) <= d * n
  <1> DEFINE y == [i \in 1..n |-> d]
  <1>1. y \in [1..n -> Int] /\ \A i \in 1..n : x[i] <= y[i]
    OBVIOUS
  <1>2. Sum(y) = d * n
    BY SumOfEqual
  <1> HIDE DEF y
  <1> QED
    BY <1>1, <1>2, SumMonotone

-----------------------------------------------------------------------------
\* Order.

Under(values, v) == {i \in DOMAIN values : values[i] < v}

UpTo(values, v) == {i \in DOMAIN values : values[i] <= v}

\* v is the k-th of the sorted values.
AtPlace(values, v, k) ==
    /\ Cardinality(Under(values, v)) < k
    /\ k <= Cardinality(UpTo(values, v))

LEMMA CountsAreNumbers ==
  ASSUME NEW n \in Nat, NEW values, values \in [1..n -> Int], NEW v
  PROVE  /\ IsFiniteSet(Under(values, v)) /\ Cardinality(Under(values, v)) \in Nat
         /\ IsFiniteSet(UpTo(values, v)) /\ Cardinality(UpTo(values, v)) \in Nat
         /\ Cardinality(Under(values, v)) <= n /\ Cardinality(UpTo(values, v)) <= n
  <1>1. IsFiniteSet(1..n) /\ Cardinality(1..n) = n
    BY FS_Interval
  <1>2. Under(values, v) \subseteq 1..n /\ UpTo(values, v) \subseteq 1..n
    BY DEF Under, UpTo
  <1> QED
    BY <1>1, <1>2, FS_Subset, FS_CardinalityType

LEMMA PlaceIsTaken ==
  ASSUME NEW n \in Nat, NEW values, values \in [1..n -> Int], NEW k \in 1..n
  PROVE  \E i \in 1..n : AtPlace(values, values[i], k)
  <1> DEFINE T == {i \in 1..n : k <= Cardinality(UpTo(values, values[i]))}
  <1>1. T # {}
    <2>1. 1..n # {} /\ (\A i \in 1..n : i \in Nat /\ 1 <= i /\ i <= n)
            /\ \A i \in 1..n : values[i] \in Int
      OBVIOUS
    <2>2. PICK i \in 1..n : \A j \in 1..n : values[j] <= values[i]
      BY <2>1, GreatestOf
    <2>3. UpTo(values, values[i]) = 1..n
      BY <2>2 DEF UpTo
    <2>4. Cardinality(1..n) = n
      BY FS_Interval
    <2> QED
      BY <2>3, <2>4
  <1>2. PICK i \in T : \A j \in T : values[i] <= values[j]
    <2> DEFINE f == [j \in 1..n |-> -values[j]]
    <2>1. \A j \in T : j \in Nat /\ 1 <= j /\ j <= n /\ f[j] \in Int
      OBVIOUS
    <2>2. PICK i \in T : \A j \in T : f[j] <= f[i]
      <3> HIDE DEF T, f
      <3> QED
        BY <1>1, <2>1, GreatestOf
    <2>3. \A j \in T : values[i] <= values[j]
      <3>1. \A j \in T : values[j] \in Int /\ f[j] = -values[j] /\ f[j] <= f[i]
        BY <2>2
      <3> HIDE DEF T, f
      <3> QED
        BY <2>2, <3>1
    <2> QED
      BY <2>3
  <1>3. i \in 1..n /\ k <= Cardinality(UpTo(values, values[i]))
    OBVIOUS
  <1>4. Cardinality(Under(values, values[i])) < k
    <2>1. CASE Under(values, values[i]) = {}
      BY <2>1, FS_EmptySet
    <2>2. CASE Under(values, values[i]) # {}
      <3> DEFINE U == Under(values, values[i])
      <3>1. \A j \in U : j \in Nat /\ 1 <= j /\ j <= n /\ values[j] \in Int /\ values[j] < values[i]
        BY DEF Under
      <3>2. PICK j \in U : \A l \in U : values[l] <= values[j]
        <4> HIDE DEF U
        <4> QED
          BY <2>2, <3>1, GreatestOf DEF U
      <3>3. j \in 1..n /\ values[j] < values[i] /\ values[j] \in Int /\ values[i] \in Int
        BY <3>1, <1>3
      <3>4. UpTo(values, values[j]) = U
        BY <3>2, <3>3 DEF UpTo, Under
      <3>5. j \notin T
        BY <1>2, <3>3
      <3>6. ~(k <= Cardinality(U))
        BY <3>3, <3>4, <3>5
      <3>7. Cardinality(U) \in Nat
        BY CountsAreNumbers
      <3> QED
        BY <3>6, <3>7
    <2> QED
      BY <2>1, <2>2
  <1> QED
    BY <1>3, <1>4 DEF AtPlace

\* A place is taken by one value only, and a later one not by a smaller value.
LEMMA PlacesAscend ==
  ASSUME NEW n \in Nat, NEW values, values \in [1..n -> Int],
         NEW k \in Int, NEW l \in Int, k <= l, NEW v \in Int, NEW w \in Int,
         AtPlace(values, v, k), AtPlace(values, w, l)
  PROVE  v <= w
  <1>1. CASE w < v
    <2>1. UpTo(values, w) \subseteq Under(values, v)
      BY <1>1 DEF UpTo, Under
    <2>2. Cardinality(UpTo(values, w)) <= Cardinality(Under(values, v))
      BY <2>1, CountsAreNumbers, FS_Subset
    <2> QED
      BY <2>2, CountsAreNumbers DEF AtPlace
  <1> QED
    BY <1>1

LEMMA AscendingFacts ==
  ASSUME NEW n \in Nat, NEW values, values \in [1..n -> Int]
  PROVE  /\ Ascending(values) \in [1..n -> Int]
         /\ \A k \in 1..n : /\ \E i \in 1..n : Ascending(values)[k] = values[i]
                            /\ AtPlace(values, Ascending(values)[k], k)
  <1>1. ASSUME NEW k \in 1..n
        PROVE  /\ \E i \in 1..n : Ascending(values)[k] = values[i]
               /\ AtPlace(values, Ascending(values)[k], k)
    <2> DEFINE P(v) == /\ Cardinality({i \in DOMAIN values : values[i] < v}) < k
                       /\ k <= Cardinality({i \in DOMAIN values : values[i] <= v})
    <2>1. \A v : P(v) <=> AtPlace(values, v, k)
      BY DEF AtPlace, Under, UpTo
    <2>2. Ascending(values)[k] = CHOOSE v \in Range(values) : P(v)
      BY DEF Ascending
    <2>3. Range(values) = {values[i] : i \in 1..n}
      BY DEF Range
    <2>4. \E v \in Range(values) : P(v)
      <3> HIDE DEF P
      <3> QED
        BY <2>1, <2>3, PlaceIsTaken
    <2> HIDE DEF P
    <2>5. Ascending(values)[k] \in Range(values) /\ P(Ascending(values)[k])
      BY <2>2, <2>4
    <2> QED
      BY <2>1, <2>3, <2>5
  <1>2. Ascending(values) \in [1..n -> Int]
    <2> DEFINE Of(k) == CHOOSE v \in Range(values) :
                            /\ Cardinality({i \in DOMAIN values : values[i] < v}) < k
                            /\ k <= Cardinality({i \in DOMAIN values : values[i] <= v})
    <2>1. Ascending(values) = [k \in 1..n |-> Of(k)]
      BY DEF Ascending
    <2> HIDE DEF Of
    <2>2. \A k \in 1..n : Ascending(values)[k] \in Int
      BY <1>1
    <2> QED
      BY <2>1, <2>2
  <1> QED
    BY <1>1, <1>2

LEMMA AscendingIs ==
  ASSUME NEW n \in Nat, NEW values, values \in [1..n -> Int], NEW k \in 1..n,
         NEW v \in Int, AtPlace(values, v, k)
  PROVE  Ascending(values)[k] = v
  <1>1. Ascending(values)[k] \in Int /\ AtPlace(values, Ascending(values)[k], k)
    BY AscendingFacts
  <1>2. k \in Int /\ k <= k
    OBVIOUS
  <1> QED
    BY <1>1, <1>2, PlacesAscend

-----------------------------------------------------------------------------
\* Selections.

\* at counts the members of kept.
Enumerates(at, values, kept) ==
    /\ at \in Bijection(1..Cardinality(kept), kept)
    /\ \A k \in 1..Cardinality(kept) : Only(values, kept)[k] = values[at[k]]

LEMMA OnlyFacts ==
  ASSUME NEW kept, IsFiniteSet(kept), kept \subseteq Int, NEW values
  PROVE  /\ Cardinality(kept) \in Nat
         /\ \A V : (\A i \in kept : values[i] \in V) =>
                       Only(values, kept) \in [1..Cardinality(kept) -> V]
         /\ \E at : Enumerates(at, values, kept)
  <1> DEFINE m == Cardinality(kept)
             Below(i) == {j \in kept : j < i}
             At(k) == CHOOSE i \in kept : Cardinality(Below(i)) = k - 1
             at == [k \in 1..m |-> At(k)]
             place == [i \in kept |-> Cardinality(Below(i)) + 1]
  <1>0. \A i \in kept : i \in Int
    OBVIOUS
  <1>1. IsFiniteSet(kept) /\ m \in Nat
    BY FS_CardinalityType
  <1>2. \A i \in kept : IsFiniteSet(Below(i)) /\ Cardinality(Below(i)) \in Nat
    <2>1. \A i \in kept : Below(i) \subseteq kept
      OBVIOUS
    <2> QED
      BY <1>1, <2>1, FS_Subset, FS_CardinalityType
  <1>3. ASSUME NEW i \in kept, NEW S, S \subseteq kept, i \in S, Below(i) \subseteq S
        PROVE  Cardinality(Below(i)) < Cardinality(S)
    <2>1. IsFiniteSet(S) /\ Cardinality(S) \in Nat
      BY <1>1, <1>3, FS_Subset, FS_CardinalityType
    <2>2. i \notin Below(i)
      BY <1>0
    <2>3. Cardinality(Below(i) \cup {i}) = Cardinality(Below(i)) + 1
      BY <1>2, <2>2, FS_AddElement
    <2>4. Below(i) \cup {i} \subseteq S
      BY <1>3
    <2>5. Cardinality(Below(i) \cup {i}) <= Cardinality(S)
      BY <2>1, <2>4, FS_Subset
    <2> QED
      BY <1>2, <2>1, <2>3, <2>5
  <1>4. place \in [kept -> 1..m]
    <2>1. ASSUME NEW i \in kept
          PROVE  Cardinality(Below(i)) + 1 \in 1..m
      <3>1. Cardinality(Below(i)) < m
        BY <1>3
      <3> QED
        BY <1>1, <1>2, <3>1
    <2> QED
      BY <2>1
  <1>5. \A i, j \in kept : i # j => place[i] # place[j]
    <2>1. ASSUME NEW i \in kept, NEW j \in kept, i < j
          PROVE  place[i] # place[j]
      <3>1. i \in Below(j) /\ Below(j) \subseteq kept
        BY <2>1
      <3>3. Below(i) \subseteq Below(j)
        <4>1. ASSUME NEW l \in kept, l < i
              PROVE  l < j
          BY <1>0, <2>1, <4>1
        <4> QED
          BY <4>1
      <3>2. Cardinality(Below(i)) < Cardinality(Below(j))
        BY <1>3, <3>1, <3>3
      <3> QED
        BY <1>2, <3>2
    <2> HIDE DEF place
    <2> QED
      BY <1>0, <2>1
  <1>6. place \in Injection(kept, 1..m)
    BY <1>4, <1>5 DEF Injection, IsInjective
  <1>7. place \in Surjection(kept, 1..m)
    <2>1. IsFiniteSet(1..m) /\ Cardinality(1..m) = m
      BY <1>1, FS_Interval
    <2> HIDE DEF place, m
    <2> QED
      BY <1>1, <1>6, <2>1, FS_Injection DEF m
  <1>8. ASSUME NEW k \in 1..m
        PROVE  at[k] \in kept /\ place[at[k]] = k
    <2>1. PICK i \in kept : place[i] = k
      BY <1>7 DEF Surjection
    <2>2. Cardinality(Below(i)) = k - 1
      BY <1>1, <1>2, <2>1
    <2>3. At(k) \in kept /\ Cardinality(Below(At(k))) = k - 1
      <3> HIDE DEF Below
      <3> QED
        BY <2>2
    <2>4. at[k] = At(k)
      OBVIOUS
    <2>5. place[At(k)] = (k - 1) + 1
      <3> HIDE DEF Below, At
      <3> QED
        BY <2>3
    <2> HIDE DEF at, At, place
    <2> QED
      BY <1>1, <2>3, <2>4, <2>5
  <1>9. at \in Bijection(1..m, kept)
    <2>1. at \in [1..m -> kept]
      BY <1>8
    <2>2. \A k, l \in 1..m : at[k] = at[l] => k = l
      <3> HIDE DEF at, place
      <3> QED
        BY <1>8
    <2>3. \A i \in kept : \E k \in 1..m : at[k] = i
      <3>1. \A i \in kept : place[i] \in 1..m
        BY <1>4
      <3> HIDE DEF at, place
      <3>2. ASSUME NEW i \in kept
            PROVE  at[place[i]] = i
        <4>1. at[place[i]] \in kept /\ place[at[place[i]]] = place[i]
          BY <1>8, <3>1
        <4> QED
          BY <1>5, <4>1
      <3> QED
        BY <3>1, <3>2
    <2> HIDE DEF at
    <2> QED
      BY <2>1, <2>2, <2>3 DEF Bijection, Injection, IsInjective, Surjection
  <1>10. Only(values, kept) = [k \in 1..m |-> values[at[k]]]
    BY DEF Only
  <1> HIDE DEF at, m
  <1>11. \A k \in 1..m : at[k] \in kept /\ Only(values, kept)[k] = values[at[k]]
    BY <1>8, <1>10
  <1>12. ASSUME NEW V, \A i \in kept : values[i] \in V
         PROVE  Only(values, kept) \in [1..m -> V]
    BY <1>10, <1>11, <1>12
  <1> QED
    BY <1>1, <1>9, <1>11, <1>12 DEF m, Enumerates

LEMMA OnlyType ==
  ASSUME NEW kept, IsFiniteSet(kept), kept \subseteq Int, NEW values, NEW V,
         \A i \in kept : values[i] \in V
  PROVE  Only(values, kept) \in [1..Cardinality(kept) -> V]
  BY OnlyFacts

\* What is selected are the values at kept.
SelectsAt(selected, values, kept) ==
    /\ \A k \in 1..Cardinality(kept) : \E i \in kept : selected[k] = values[i]
    /\ \A i \in kept : \E k \in 1..Cardinality(kept) : selected[k] = values[i]

LEMMA OnlyIsAmong ==
  ASSUME NEW kept, IsFiniteSet(kept), kept \subseteq Int, NEW values
  PROVE  SelectsAt(Only(values, kept), values, kept)
  <1>2. PICK at : Enumerates(at, values, kept)
    BY OnlyFacts
  <1>3. /\ \A k \in 1..Cardinality(kept) : at[k] \in kept
        /\ \A i \in kept : \E k \in 1..Cardinality(kept) : at[k] = i
    BY <1>2 DEF Enumerates, Bijection, Injection, Surjection
  <1>4. \A k \in 1..Cardinality(kept) : \E i \in kept : Only(values, kept)[k] = values[i]
    BY <1>2, <1>3 DEF Enumerates
  <1>5. \A i \in kept : \E k \in 1..Cardinality(kept) : Only(values, kept)[k] = values[i]
    BY <1>2, <1>3 DEF Enumerates
  <1> QED
    BY <1>4, <1>5 DEF SelectsAt

-----------------------------------------------------------------------------
\* Violations.

\* What is found is backed by the values, if there are any.
Backed(sla, values, violations) ==
    /\ violations # <<>> => \E i \in DOMAIN values : Misses(sla, values[i])
    /\ (\A i \in DOMAIN values : Misses(sla, values[i])) => violations # <<>>

IsSLA(sla) ==
    /\ sla.target \in Int /\ sla.threshold \in Int /\ sla.window \in Int
    /\ ValidateSLADefinition(sla)

LEMMA WeightedBetween ==
  ASSUME NEW weight \in 0..99, NEW v \in Int, NEW w \in Int, NEW limit \in Int
  PROVE  /\ v <= limit /\ w <= limit => (100 - weight) * v + weight * w <= 100 * limit
         /\ v > limit /\ w > limit => (100 - weight) * v + weight * w > 100 * limit
  <1>1. ASSUME v <= limit, w <= limit
        PROVE  (100 - weight) * v + weight * w <= 100 * limit
    <2>1. (100 - weight) * (limit - v) >= 0 /\ weight * (limit - w) >= 0
      BY <1>1
    <2>2. (100 - weight) * (limit - v) + weight * (limit - w)
             = 100 * limit - ((100 - weight) * v + weight * w)
      OBVIOUS
    <2> QED
      BY <2>1, <2>2
  <1>2. ASSUME v > limit, w > limit
        PROVE  (100 - weight) * v + weight * w > 100 * limit
    <2>1. (100 - weight) * (v - limit) > 0 /\ weight * (w - limit) >= 0
      BY <1>2
    <2>2. (100 - weight) * (v - limit) + weight * (w - limit)
             = ((100 - weight) * v + weight * w) - 100 * limit
      OBVIOUS
    <2> QED
      BY <2>1, <2>2
  <1> QED
    BY <1>1, <1>2

NoneAbove(values, limit) == \A i \in DOMAIN values : values[i] <= limit

AllAbove(values, limit) == \A i \in DOMAIN values : values[i] > limit

(* A percentile is beyond a limit only if some value is, and if all are     *)
(* (monitor.go:397-427).                                                    *)
LEMMA PercentileBetween ==
  ASSUME NEW n \in Nat \ {0}, NEW values, values \in [1..n -> Int],
         NEW percentile \in 0..100, NEW limit \in Int
  PROVE  /\ calculatePercentile(values, percentile).den = 100
         /\ calculatePercentile(values, percentile).num \in Int
         /\ NoneAbove(values, limit) =>
                calculatePercentile(values, percentile).num <= 100 * limit
         /\ AllAbove(values, limit) =>
                calculatePercentile(values, percentile).num > 100 * limit
  <1> DEFINE sorted == Ascending(values)
             place == percentile * (n - 1)
             lower == place \div 100
             weight == place % 100
             actual == calculatePercentile(values, percentile)
  <1>0. DOMAIN values = 1..n
    OBVIOUS
  <1>1. sorted \in [1..n -> Int] /\ \A k \in 1..n : \E i \in 1..n : sorted[k] = values[i]
    <2>1. n \in Nat
      OBVIOUS
    <2> HIDE DEF place, lower, weight, actual
    <2>2. /\ Ascending(values) \in [1..n -> Int]
          /\ \A k \in 1..n : /\ \E i \in 1..n : Ascending(values)[k] = values[i]
                             /\ AtPlace(values, Ascending(values)[k], k)
      BY <2>1, AscendingFacts, Zenon
    <2> QED
      BY <2>2
  <1>2. Len(sorted) = n /\ Last(sorted) = sorted[n]
    <2> HIDE DEF sorted, place, lower, weight, actual
    <2>1. Len(sorted) = n
      BY <1>1
    <2> QED
      BY <2>1 DEF Last
  <1>3. place \in Nat
    OBVIOUS
  <1>4. lower \in Nat /\ weight \in 0..99
    <2> HIDE DEF place
    <2> QED
      BY <1>3
  <1>5. actual = [num |-> IF lower + 1 >= n THEN 100 * sorted[n]
                          ELSE (100 - weight) * sorted[lower + 1] + weight * sorted[lower + 2],
                  den |-> 100]
    BY <1>2 DEF calculatePercentile
  <1> HIDE DEF sorted, place, lower, weight, actual
  <1>6. CASE lower + 1 >= n
    <2>1. actual.den = 100 /\ actual.num = 100 * sorted[n] /\ sorted[n] \in Int
      BY <1>1, <1>5, <1>6
    <2>2. PICK i \in 1..n : sorted[n] = values[i]
      BY <1>1
    <2> QED
      BY <1>0, <2>1, <2>2 DEF actual, NoneAbove, AllAbove
  <1>7. CASE ~(lower + 1 >= n)
    <2>1. lower + 1 \in 1..n /\ lower + 2 \in 1..n
      BY <1>4, <1>7
    <2> DEFINE v == sorted[lower + 1]
               w == sorted[lower + 2]
    <2>2. actual.den = 100 /\ actual.num = (100 - weight) * v + weight * w
      BY <1>5, <1>7
    <2>3. v \in Int /\ w \in Int
      BY <1>1, <2>1
    <2>4. PICK i \in 1..n : v = values[i]
      BY <1>1, <2>1
    <2>5. PICK j \in 1..n : w = values[j]
      BY <1>1, <2>1
    <2> HIDE DEF v, w
    <2>6. /\ v <= limit /\ w <= limit => actual.num <= 100 * limit
          /\ v > limit /\ w > limit => actual.num > 100 * limit
      BY <1>4, <2>2, <2>3, WeightedBetween
    <2>7. actual.num \in Int
      BY <1>4, <2>2, <2>3
    <2> QED
      BY <1>0, <2>2, <2>4, <2>5, <2>6, <2>7 DEF actual, NoneAbove, AllAbove
  <1> QED
    BY <1>6, <1>7

(* The same of the average.                                                 *)
LEMMA MeanBetween ==
  ASSUME NEW n \in Nat \ {0}, NEW values, values \in [1..n -> Int], NEW limit \in Int
  PROVE  /\ Mean(values).den = n /\ Mean(values).num \in Int
         /\ (\A i \in 1..n : values[i] <= limit) => Mean(values).num <= limit * n
         /\ (\A i \in 1..n : values[i] > limit) => Mean(values).num > limit * n
         /\ (\A i \in 1..n : values[i] >= limit) => Mean(values).num >= limit * n
         /\ (\A i \in 1..n : values[i] < limit) => Mean(values).num < limit * n
  <1>1. Mean(values).num = Sum(values) /\ Mean(values).den = n
    BY DEF Mean
  <1>2. Sum(values) \in Int
    BY SumType
  <1>3. (\A i \in 1..n : values[i] <= limit) => Sum(values) <= limit * n
    BY SumAtMost
  <1>4. (\A i \in 1..n : values[i] >= limit) => Sum(values) >= limit * n
    <2>1. limit * n \in Int
      OBVIOUS
    <2>2. (\A i \in 1..n : limit <= values[i]) => limit * n <= Sum(values)
      BY SumAtLeast
    <2>3. ASSUME \A i \in 1..n : values[i] >= limit
          PROVE  \A i \in 1..n : limit <= values[i]
      BY <2>3
    <2> QED
      BY <1>2, <2>1, <2>2, <2>3
  <1>5. (\A i \in 1..n : values[i] > limit) => Sum(values) > limit * n
    <2>1. ASSUME \A i \in 1..n : values[i] > limit
          PROVE  Sum(values) > limit * n
      <3>1. \A i \in 1..n : limit + 1 <= values[i]
        BY <2>1
      <3>2. (limit + 1) * n <= Sum(values)
        BY <3>1, SumAtLeast
      <3>3. (limit + 1) * n = limit * n + n /\ limit * n \in Int
        OBVIOUS
      <3> QED
        BY <1>2, <3>2, <3>3
    <2> QED
      BY <2>1
  <1>6. (\A i \in 1..n : values[i] < limit) => Sum(values) < limit * n
    <2>1. ASSUME \A i \in 1..n : values[i] < limit
          PROVE  Sum(values) < limit * n
      <3>1. \A i \in 1..n : values[i] <= limit - 1
        BY <2>1
      <3>2. Sum(values) <= (limit - 1) * n
        BY <3>1, SumAtMost
      <3>3. (limit - 1) * n = limit * n - n /\ limit * n \in Int
        OBVIOUS
      <3> QED
        BY <1>2, <3>2, <3>3
    <2> QED
      BY <2>1
  <1> QED
    BY <1>1, <1>2, <1>3, <1>4, <1>5, <1>6

LEMMA FoundAbove ==
  ASSUME NEW sla, NEW actual
  PROVE  AtMost(sla, actual) # <<>> <=> actual.num > (sla.target + sla.threshold) * actual.den
  BY DEF AtMost

LEMMA FoundBelow ==
  ASSUME NEW sla, NEW actual
  PROVE  AtLeast(sla, actual) # <<>> <=> actual.num < (sla.target - sla.threshold) * actual.den
  BY DEF AtLeast

\* One by one: something is found if some value is too large.
LEMMA FoundEach ==
  ASSUME NEW sla, NEW n \in Nat, NEW values, values \in [1..n -> Int]
  PROVE  EachAtMost(sla, values) # <<>> <=>
            \E i \in 1..n : values[i] > sla.target + sla.threshold
  <1> DEFINE limit == sla.target + sla.threshold
             above == {i \in DOMAIN values : values[i] > limit}
             large == Only(values, above)
  <1>1. DOMAIN values = 1..n
    OBVIOUS
  <1>2. IsFiniteSet(above) /\ above \subseteq Int /\ Cardinality(above) \in Nat
    <2>1. IsFiniteSet(1..n) /\ above \subseteq 1..n
      BY <1>1, FS_Interval
    <2> QED
      BY <2>1, FS_Subset, FS_CardinalityType
  <1>3. DOMAIN large = 1..Cardinality(above)
    BY DEF Only
  <1>4. EachAtMost(sla, values) = [k \in DOMAIN large |-> Violation(sla, Exactly(large[k]), limit)]
    BY DEF EachAtMost
  <1>5. (above = {}) <=> (Cardinality(above) = 0)
    BY <1>2, FS_EmptySet
  <1>6. DOMAIN EachAtMost(sla, values) = 1..Cardinality(above)
    BY <1>3, <1>4
  <1>7. EachAtMost(sla, values) # <<>> <=> Cardinality(above) # 0
    <2> DEFINE c == Cardinality(above)
    <2> HIDE DEF c
    <2>1. c \in Nat
      BY <1>2 DEF c
    <2>2. EachAtMost(sla, values) = [k \in 1..c |-> Violation(sla, Exactly(large[k]), limit)]
      BY <1>3, <1>4 DEF c
    <2>3. CASE c = 0
      <3>1. 1..c = {}
        BY <2>3
      <3>2. EachAtMost(sla, values) = <<>>
        BY <2>2, <3>1
      <3> QED
        BY <2>3, <3>2 DEF c
    <2>4. CASE c # 0
      <3>1. 1 \in DOMAIN EachAtMost(sla, values)
        BY <2>1, <2>2, <2>4
      <3>2. EachAtMost(sla, values) # <<>>
        BY <3>1
      <3> QED
        BY <2>4, <3>2 DEF c
    <2> QED
      BY <2>3, <2>4
  <1> QED
    BY <1>1, <1>5, <1>7

(* Whichever way the type aggregates the values: a violation needs a value  *)
(* that misses the SLA, and values that all miss it are one                 *)
(* (monitor.go:109-388).                                                    *)
LEMMA ViolationsAreBacked ==
  ASSUME NEW sla, IsSLA(sla), NEW n \in Nat \ {0}, NEW values, values \in [1..n -> Nat],
         NEW readings, NEW now, values = Values(InWindow(sla, readings, now))
  PROVE  Backed(sla, values, checkSLAViolations(sla, readings, now))
  <1> DEFINE found == checkSLAViolations(sla, readings, now)
             upper == sla.target + sla.threshold
             below == sla.target - sla.threshold
  <1>1. upper \in Int /\ below \in Int /\ sla.percentile \in 0..100
    <2>1. sla.target \in Int /\ sla.threshold \in Int /\ sla.percentile \in 0..100
      BY Zenon DEF IsSLA, ValidateSLADefinition
    <2> QED
      BY <2>1
  <1>2. values \in [1..n -> Int] /\ values # <<>> /\ DOMAIN values = 1..n
    OBVIOUS
  <1>3. \A v \in Nat : sla.type \notin {"availability", "throughput"} =>
                            (Misses(sla, v) <=> v > upper)
    BY DEF Misses
  <1>4. \A v \in Nat : sla.type = "throughput" => (Misses(sla, v) <=> v < below)
    BY DEF Misses
  <1>5. /\ (\A i \in 1..n : ~(values[i] > upper)) => \A i \in 1..n : values[i] <= upper
        /\ (\A i \in 1..n : ~(values[i] < below)) => \A i \in 1..n : values[i] >= below
    <2>1. \A i \in 1..n : values[i] \in Int
      BY <1>2
    <2> HIDE DEF upper, below
    <2> QED
      BY <1>1, <2>1
  <1>6. LET actual == calculatePercentile(values, sla.percentile) IN
        /\ AtMost(sla, actual) # <<>> => \E i \in 1..n : values[i] > upper
        /\ (\A i \in 1..n : values[i] > upper) => AtMost(sla, actual) # <<>>
    <2> DEFINE actual == calculatePercentile(values, sla.percentile)
    <2>1. /\ actual.den = 100 /\ actual.num \in Int
          /\ NoneAbove(values, upper) => actual.num <= 100 * upper
          /\ AllAbove(values, upper) => actual.num > 100 * upper
      <3> HIDE DEF upper
      <3> QED
        <4>1. sla.percentile \in 0..100 /\ upper \in Int /\ values \in [1..n -> Int]
          BY <1>1, <1>2
        <4>2. calculatePercentile(values, sla.percentile).den = 100
          BY DEF calculatePercentile
        <4>3. calculatePercentile(values, sla.percentile).num \in Int
          BY <4>1, PercentileBetween
        <4>4. NoneAbove(values, upper) => calculatePercentile(values, sla.percentile).num <= 100 * upper
          BY <4>1, PercentileBetween
        <4>5. AllAbove(values, upper) => calculatePercentile(values, sla.percentile).num > 100 * upper
          BY <4>1, PercentileBetween
        <4> QED
          BY <4>2, <4>3, <4>4, <4>5
    <2>2. AtMost(sla, actual) # <<>> <=> actual.num > upper * 100
      BY <2>1, FoundAbove
    <2> HIDE DEF actual, upper
    <2>3. upper * 100 = 100 * upper /\ 100 * upper \in Int
      BY <1>1
    <2> QED
      BY <1>2, <1>5, <2>1, <2>2, <2>3 DEF actual, NoneAbove, AllAbove
  <1>7. /\ AtMost(sla, Mean(values)) # <<>> => \E i \in 1..n : values[i] > upper
        /\ (\A i \in 1..n : values[i] > upper) => AtMost(sla, Mean(values)) # <<>>
    <2>1. /\ Mean(values).den = n /\ Mean(values).num \in Int
          /\ (\A i \in 1..n : values[i] <= upper) => Mean(values).num <= upper * n
          /\ (\A i \in 1..n : values[i] > upper) => Mean(values).num > upper * n
      <3> HIDE DEF upper
      <3> QED
        BY <1>1, <1>2, MeanBetween
    <2>2. AtMost(sla, Mean(values)) # <<>> <=> Mean(values).num > upper * n
      BY <2>1, FoundAbove
    <2> HIDE DEF upper
    <2>3. upper * n \in Int
      BY <1>1
    <2> QED
      BY <1>5, <2>1, <2>2, <2>3
  <1>8. /\ AtLeast(sla, Mean(values)) # <<>> => \E i \in 1..n : values[i] < below
        /\ (\A i \in 1..n : values[i] < below) => AtLeast(sla, Mean(values)) # <<>>
    <2>1. /\ Mean(values).den = n /\ Mean(values).num \in Int
          /\ (\A i \in 1..n : values[i] >= below) => Mean(values).num >= below * n
          /\ (\A i \in 1..n : values[i] < below) => Mean(values).num < below * n
      <3> HIDE DEF below
      <3> QED
        BY <1>1, <1>2, MeanBetween
    <2>2. AtLeast(sla, Mean(values)) # <<>> <=> Mean(values).num < below * n
      BY <2>1, FoundBelow
    <2> HIDE DEF below
    <2>3. below * n \in Int
      BY <1>1
    <2> QED
      BY <1>5, <2>1, <2>2, <2>3
  <1>9. EachAtMost(sla, values) # <<>> <=> \E i \in 1..n : values[i] > upper
    BY <1>2, FoundEach
  <1>10. 1 \in 1..n
    OBVIOUS
  <1> HIDE DEF upper, below
  <1>11. CASE sla.type = "error_rate"
    <2>1. found = checkErrorRateSLA(sla, values)
      BY <1>2, <1>11 DEF checkSLAViolations
    <2>2. found # <<>> <=> AtMost(sla, Mean(values)) # <<>> \/ EachAtMost(sla, values) # <<>>
      BY <2>1 DEF checkErrorRateSLA
    <2>3. \A i \in 1..n : Misses(sla, values[i]) <=> values[i] > upper
      BY <1>3, <1>11
    <2> HIDE DEF found
    <2> QED
      BY <1>2, <1>7, <1>9, <1>10, <2>2, <2>3 DEF Backed, found
  <1>12. CASE sla.type = "throughput"
    <2>1. found = AtLeast(sla, Mean(values))
      BY <1>2, <1>12 DEF checkSLAViolations, checkThroughputSLA
    <2>2. \A i \in 1..n : Misses(sla, values[i]) <=> values[i] < below
      BY <1>4, <1>12
    <2> HIDE DEF found
    <2> QED
      BY <1>2, <1>8, <2>1, <2>2 DEF Backed, found
  <1>13. CASE sla.type = "startup_time"
    <2>1. found = AtMost(sla, calculatePercentile(values, sla.percentile))
            \/ found = AtMost(sla, Mean(values))
      BY <1>2, <1>13 DEF checkSLAViolations, checkStartupTimeSLA
    <2>2. \A i \in 1..n : Misses(sla, values[i]) <=> values[i] > upper
      BY <1>3, <1>13
    <2> HIDE DEF found
    <2> QED
      BY <1>2, <1>6, <1>7, <2>1, <2>2 DEF Backed, found
  <1>14. CASE sla.type = "availability"
    <2> DEFINE up == {i \in DOMAIN values : values[i] > 0}
               count == Cardinality(up)
               share == [num |-> 100 * count, den |-> Len(values)]
    <2>1. found = AtLeast(sla, share)
      BY <1>2, <1>14 DEF checkSLAViolations, checkAvailabilitySLA
    <2>2. count \in Nat /\ count <= n /\ (up = {} => count = 0) /\ (up = 1..n => count = n)
      <3>1. up \subseteq 1..n /\ IsFiniteSet(1..n) /\ Cardinality(1..n) = n
        BY <1>2, FS_Interval
      <3>2. count \in Nat /\ count <= n
        BY <3>1, FS_Subset, FS_CardinalityType
      <3>3. up = {} => count = 0
        BY FS_EmptySet
      <3> QED
        BY <3>1, <3>2, <3>3
    <2>3. Len(values) = n
      BY <1>2
    <2>4. found # <<>> <=> 100 * count < below * n
      <3>1. share.num = 100 * count /\ share.den = n
        BY <2>3
      <3> HIDE DEF share
      <3> QED
        BY <2>1, <3>1, FoundBelow DEF below
    <2>5. \A i \in 1..n : Misses(sla, values[i]) <=>
             (IF values[i] > 0 THEN 100 ELSE 0) < below
      BY <1>14 DEF Misses, below
    <2>6. /\ up = {} => \A i \in 1..n : ~(values[i] > 0)
          /\ up = 1..n => \A i \in 1..n : values[i] > 0
          /\ up # 1..n => \E i \in 1..n : ~(values[i] > 0)
          /\ up # {} => \E i \in 1..n : values[i] > 0
      BY <1>2
    <2> HIDE DEF up, count, found
    <2>7. /\ count = n => (100 * count < below * n <=> 100 < below)
          /\ count = 0 => (100 * count < below * n <=> 0 < below)
          /\ 100 * count < below * n => 0 < below
          /\ 100 < below => 100 * count < below * n
      <3>1. ASSUME count = n
            PROVE  100 * count < below * n <=> 100 < below
        <4>1. (below - 100) * n = below * n - 100 * n /\ below * n \in Int
          BY <1>1
        <4>2. 100 < below => (below - 100) * n > 0
          BY <1>1
        <4>3. ~(100 < below) => (below - 100) * n <= 0
          BY <1>1
        <4> QED
          BY <1>1, <3>1, <4>1, <4>2, <4>3
      <3>2. below * n > 0 <=> 0 < below
        BY <1>1
      <3>3. below * n \in Int
        BY <1>1
      <3>4. ASSUME 100 < below
            PROVE  100 * count < below * n
        <4>1. (below - 100) * n = below * n - 100 * n /\ (below - 100) * n > 0
          BY <1>1, <3>4
        <4> QED
          BY <2>2, <3>3, <4>1
      <3>5. count = 0 => (100 * count < below * n <=> 0 < below)
        BY <3>2, <3>3
      <3>6. 100 * count < below * n => 0 < below
        BY <2>2, <3>2, <3>3
      <3> QED
        BY <3>1, <3>4, <3>5, <3>6
    <2>8. CASE up = {}
      <3>1. \A i \in 1..n : Misses(sla, values[i]) <=> 0 < below
        BY <2>5, <2>6, <2>8
      <3> QED
        BY <1>2, <1>10, <2>2, <2>4, <2>7, <2>8, <3>1 DEF Backed, found
    <2>9. CASE up = 1..n
      <3>1. \A i \in 1..n : Misses(sla, values[i]) <=> 100 < below
        BY <2>5, <2>6, <2>9
      <3> QED
        BY <1>2, <1>10, <2>2, <2>4, <2>7, <2>9, <3>1 DEF Backed, found
    <2>10. CASE up # {} /\ up # 1..n
      <3>1. PICK i \in 1..n : ~(values[i] > 0)
        BY <2>6, <2>10
      <3>2. PICK j \in 1..n : values[j] > 0
        BY <2>6, <2>10
      <3>3. (Misses(sla, values[i]) <=> 0 < below) /\ (Misses(sla, values[j]) <=> 100 < below)
        BY <2>5, <3>1, <3>2
      <3> QED
        BY <1>2, <2>4, <2>7, <3>3 DEF Backed, found
    <2> QED
      BY <2>8, <2>9, <2>10
  <1>15. CASE sla.type \notin {"error_rate", "throughput", "startup_time", "availability"}
    <2>1. found = AtMost(sla, calculatePercentile(values, sla.percentile))
            \/ found = EachAtMost(sla, values)
      BY <1>2, <1>15 DEF checkSLAViolations, checkLatencySLA
    <2>2. \A i \in 1..n : Misses(sla, values[i]) <=> values[i] > upper
      BY <1>3, <1>15
    <2> HIDE DEF found
    <2> QED
      BY <1>2, <1>6, <1>9, <1>10, <2>1, <2>2 DEF Backed, found
  <1> QED
    BY <1>11, <1>12, <1>13, <1>14, <1>15

\* A monitor that knows one definition checks it.
LEMMA OneIsChecked ==
  ASSUME NEW sla, ValidateSLADefinition(sla), NEW readings, NEW now
  PROVE  CheckHealth(<<>>, <<sla>>, readings, now).violations[sla.name]
            = checkSLAViolations(sla, readings, now)
  <1> DEFINE known[n \in 0..Len(<<sla>>)] ==
                 IF n = 0 THEN <<>> ELSE AddSLA(known[n - 1], <<sla>>[n])
             step(g) == [n \in 0..1 |-> IF n = 0 THEN <<>> ELSE AddSLA(g[n - 1], <<sla>>[n])]
  <1>1. Len(<<sla>>) = 1 /\ <<sla>>[1] = sla
    OBVIOUS
  <1>2. known = CHOOSE g : g = step(g)
    BY <1>1 DEF known
  <1>3. \E g : g = step(g)
    <2> DEFINE f == [n \in 0..1 |-> IF n = 0 THEN <<>> ELSE AddSLA(<<>>, sla)]
    <2>1. ASSUME NEW n \in 0..1
          PROVE  f[n] = IF n = 0 THEN <<>> ELSE AddSLA(f[n - 1], <<sla>>[n])
      <3>1. CASE n = 0
        BY <3>1
      <3>2. CASE n = 1
        <4>1. f[n] = AddSLA(<<>>, sla) /\ f[n - 1] = <<>> /\ <<sla>>[n] = sla
          BY <3>2
        <4> HIDE DEF f
        <4> QED
          BY <3>2, <4>1
      <3> QED
        BY <3>1, <3>2
    <2>2. f = [n \in 0..1 |-> f[n]]
      OBVIOUS
    <2> HIDE DEF f
    <2>3. f = step(f)
      BY <2>1, <2>2
    <2> QED
      BY <2>3
  <1>4. known = step(known)
    <2> HIDE DEF step, known
    <2> QED
      BY <1>2, <1>3
  <1> HIDE DEF known
  <1>5. known[0] = <<>> /\ known[1] = AddSLA(known[0], sla)
    BY <1>4
  <1>6. known[1] = [n \in DOMAIN <<>> \cup {sla.name} |-> IF n = sla.name THEN sla ELSE <<>>[n]]
    BY <1>5 DEF AddSLA
  <1>7. sla.name \in DOMAIN known[1] /\ known[1][sla.name] = sla
    BY <1>6
  <1>8. CheckHealth(<<>>, <<sla>>, readings, now).violations = CheckAllSLAs(known[1], readings, now)
    BY <1>1 DEF CheckHealth, known
  <1> QED
    BY <1>7, <1>8 DEF CheckAllSLAs

LEMMA HealthAnswered ==
  ASSUME CheckSystemHealth
  PROVE  \E c \in HealthCases :
            /\ question' = [about |-> "health", subject |-> c]
            /\ answer'.verdict.check = CheckHealth(<<>>, <<c.sla>>, c.readings, Today)
  <1>1. PICK c \in HealthCases :
           \E blocked, rollback, recommendation, chart :
              Answered("health", c,
                       [check |-> CheckHealth(<<>>, <<c.sla>>, c.readings, Today),
                        blocked |-> blocked, rollback |-> rollback,
                        recommendation |-> recommendation, chart |-> chart])
    BY Zenon DEF CheckSystemHealth
  <1>2. PICK blocked, rollback, recommendation, chart :
              Answered("health", c,
                       [check |-> CheckHealth(<<>>, <<c.sla>>, c.readings, Today),
                        blocked |-> blocked, rollback |-> rollback,
                        recommendation |-> recommendation, chart |-> chart])
    BY <1>1
  <1> QED
    BY <1>2 DEF Answered

LEMMA BreachAnswered ==
  ASSUME CheckSystemHealth
  PROVE  BreachesAreBacked'
  <1>1. PICK c \in HealthCases :
          /\ question' = [about |-> "health", subject |-> c]
          /\ answer'.verdict.check = CheckHealth(<<>>, <<c.sla>>, c.readings, Today)
    BY HealthAnswered
  <1> DEFINE n == Len(c.readings)
             kept == {i \in DOMAIN c.readings : c.readings[i].at > Today - c.sla.window}
             window == InWindow(c.sla, c.readings, Today)
             m == Cardinality(kept)
             values == Values(window)
             recent == {r \in Range(c.readings) : Today - r.at < c.sla.window}
             found == checkSLAViolations(c.sla, c.readings, Today)
  <1>2. /\ IsSLA(c.sla) /\ Today \in Int
        /\ c.readings \in Seq([at : Int, value : Nat])
    BY AssessmentAssumption DEF IsSLA
  <1>3. /\ n \in Nat /\ DOMAIN c.readings = 1..n
        /\ \A i \in 1..n : c.readings[i] \in [at : Int, value : Nat]
    <2> DEFINE s == c.readings
               R == [at : Int, value : Nat]
    <2>1. s \in Seq(R)
      BY <1>2
    <2> HIDE DEF s, R
    <2>2. Len(s) \in Nat /\ DOMAIN s = 1..Len(s) /\ \A i \in 1..Len(s) : s[i] \in R
      BY <2>1
    <2> QED
      BY <2>2 DEF s, R
  <1>4. kept \subseteq 1..n /\ IsFiniteSet(kept) /\ kept \subseteq Int /\ m \in Nat
    <2>1. IsFiniteSet(1..n) /\ kept \subseteq 1..n
      BY <1>3, FS_Interval
    <2> QED
      BY <2>1, FS_Subset, FS_CardinalityType
  <1>5. recent = {c.readings[i] : i \in kept}
    <2>1. Range(c.readings) = {c.readings[i] : i \in 1..n}
      BY <1>3 DEF Range
    <2>2. \A i \in 1..n : Today - c.readings[i].at < c.sla.window
                            <=> c.readings[i].at > Today - c.sla.window
      BY <1>2, <1>3 DEF IsSLA
    <2> QED
      BY <1>3, <2>1, <2>2
  <1>6. /\ window \in [1..m -> [at : Int, value : Nat]]
        /\ \A k \in 1..m : \E i \in kept : window[k] = c.readings[i]
        /\ \A i \in kept : \E k \in 1..m : window[k] = c.readings[i]
    <2>1. window = Only(c.readings, kept)
      BY DEF InWindow
    <2>2. \A i \in kept : c.readings[i] \in [at : Int, value : Nat]
      BY <1>3
    <2> DEFINE R == [at : Int, value : Nat]
    <2> HIDE DEF kept, window, R
    <2>3. \A i \in kept : c.readings[i] \in R
      BY <2>2 DEF R
    <2>4. /\ window \in [1..m -> R]
          /\ \A k \in 1..m : \E i \in kept : window[k] = c.readings[i]
          /\ \A i \in kept : \E k \in 1..m : window[k] = c.readings[i]
      <3>1. window \in [1..m -> R]
        BY <1>4, <2>1, <2>3, OnlyType
      <3>2. SelectsAt(window, c.readings, kept)
        BY <1>4, <2>1, OnlyIsAmong
      <3> QED
        BY <2>1, <3>1, <3>2 DEF SelectsAt
    <2> QED
      BY <2>4 DEF R
  <1>7. /\ values = [k \in 1..m |-> window[k].value]
        /\ values \in [1..m -> Nat] /\ \A k \in 1..m : values[k] = window[k].value
    BY <1>6 DEF Values
  <1>8. answer'.verdict.check.violations[c.sla.name] = found
    BY <1>1, <1>2, OneIsChecked DEF IsSLA
  <1>9. question'.subject = c
    BY <1>1
  <1>10. CASE m = 0
    <2>1. values = <<>> /\ kept = {}
      <3>1. 1..m = {}
        BY <1>10
      <3>2. values = <<>>
        <4> HIDE DEF values, window, m
        <4> QED
          BY <1>7, <3>1
      <3> QED
        BY <1>4, <1>10, <3>2, FS_EmptySet
    <2>2. found = <<>>
      BY <2>1 DEF checkSLAViolations
    <2>3. recent = {}
      BY <1>5, <2>1
    <2> HIDE DEF found, recent, kept
    <2> QED
      BY <1>8, <1>9, <2>2, <2>3 DEF BreachesAreBacked, recent
  <1>11. CASE m # 0
    <2> HIDE DEF window, kept, m, n
    <2>1. Backed(c.sla, values, found)
      <3>1. m \in Nat \ {0}
        BY <1>4, <1>11
      <3> QED
        BY <1>2, <1>7, <3>1, ViolationsAreBacked DEF window
    <2>2. DOMAIN values = 1..m
      BY <1>7
    <2> HIDE DEF values, found
    <2>3. found # <<>> => \E r \in recent : Misses(c.sla, r.value)
      <3>1. ASSUME found # <<>>
            PROVE  \E r \in recent : Misses(c.sla, r.value)
        <4>1. PICK k \in 1..m : Misses(c.sla, values[k])
          BY <2>1, <2>2, <3>1 DEF Backed
        <4>2. PICK i \in kept : window[k] = c.readings[i]
          BY <1>6
        <4>3. c.readings[i] \in recent /\ values[k] = c.readings[i].value
          BY <1>5, <1>7, <4>2
        <4> HIDE DEF recent
        <4> QED
          BY <4>1, <4>3
      <3> QED
        BY <3>1
    <2>4. (\A r \in recent : Misses(c.sla, r.value)) => found # <<>>
      <3>1. ASSUME \A r \in recent : Misses(c.sla, r.value)
            PROVE  \A k \in DOMAIN values : Misses(c.sla, values[k])
        <4>1. ASSUME NEW k \in 1..m
              PROVE  Misses(c.sla, values[k])
          <5>1. PICK i \in kept : window[k] = c.readings[i]
            BY <1>6
          <5>2. c.readings[i] \in recent /\ values[k] = c.readings[i].value
            BY <1>5, <1>7, <5>1
          <5> HIDE DEF recent
          <5> QED
            BY <3>1, <5>2
        <4> QED
          BY <2>2, <4>1
      <3> HIDE DEF recent
      <3> QED
        BY <2>1, <3>1 DEF Backed
    <2> HIDE DEF recent
    <2> QED
      BY <1>8, <1>9, <2>3, <2>4 DEF BreachesAreBacked, recent
  <1> QED
    BY <1>10, <1>11

-----------------------------------------------------------------------------
\* Outliers.

LEMMA SetsOfPlaces ==
  ASSUME NEW n \in Nat, NEW S, S \subseteq 1..n
  PROVE  /\ IsFiniteSet(S) /\ Cardinality(S) \in Nat /\ Cardinality(S) <= n
         /\ \A i \in S : i \in Nat
  <1>1. IsFiniteSet(1..n) /\ Cardinality(1..n) = n
    BY FS_Interval
  <1>2. \A i \in S : i \in Nat
    OBVIOUS
  <1>3. IsFiniteSet(S) /\ Cardinality(S) \in Nat /\ Cardinality(S) <= n
    BY <1>1, FS_Subset, FS_CardinalityType
  <1> QED
    BY <1>2, <1>3

LEMMA DisjointPlaces ==
  ASSUME NEW n \in Nat, NEW S, S \subseteq 1..n, NEW T, T \subseteq 1..n, S \cap T = {}
  PROVE  Cardinality(S) + Cardinality(T) <= n
  <1>1. S \cup T \subseteq 1..n
    OBVIOUS
  <1>2. Cardinality(S \cup T) <= n
    BY <1>1, SetsOfPlaces
  <1>3. IsFiniteSet(S) /\ IsFiniteSet(T) /\ Cardinality(S) \in Nat /\ Cardinality(T) \in Nat
    BY SetsOfPlaces
  <1>4. Cardinality(S \cup T) = Cardinality(S) + Cardinality(T) - Cardinality(S \cap T)
    BY <1>3, FS_Union
  <1>5. Cardinality(S \cap T) = 0
    BY FS_EmptySet
  <1> QED
    BY <1>2, <1>3, <1>4, <1>5

(* The median is not less than the value after the middle, of values that   *)
(* are not negative.                                                        *)
LEMMA MedianFacts ==
  ASSUME NEW n \in Nat \ {0}, NEW values, values \in [1..n -> Nat]
  PROVE  /\ Median2(values) \in Nat
         /\ \E v \in Nat : /\ v <= Median2(values)
                           /\ n < 2 * Cardinality(UpTo(values, v))
  <1> DEFINE sorted == Ascending(values)
             half == n \div 2
  <1>0. /\ n \in Nat /\ values \in [1..n -> Int] /\ Len(values) = n
        /\ \A i \in 1..n : values[i] \in Nat
    OBVIOUS
  <1>1. \A k \in 1..n : /\ \E i \in 1..n : sorted[k] = values[i]
                        /\ AtPlace(values, sorted[k], k)
    BY <1>0, AscendingFacts, Zenon
  <1>2. \A k \in 1..n : sorted[k] \in Nat
    BY <1>0, <1>1
  <1>3. half \in Int /\ half + 1 \in 1..n /\ (n % 2 = 0 => half \in 1..n) /\ n < 2 * (half + 1)
    OBVIOUS
  <1>4. Median2(values) =
          IF n % 2 = 0 THEN sorted[half] + sorted[half + 1] ELSE 2 * sorted[half + 1]
    BY <1>0 DEF Median2
  <1> HIDE DEF sorted, half
  <1>5. sorted[half + 1] \in Nat /\ (n % 2 = 0 => sorted[half] \in Nat)
    BY <1>2, <1>3
  <1>6. Median2(values) \in Nat /\ sorted[half + 1] <= Median2(values)
    BY <1>4, <1>5
  <1>7. half + 1 <= Cardinality(UpTo(values, sorted[half + 1]))
    BY <1>1, <1>3 DEF AtPlace
  <1>8. Cardinality(UpTo(values, sorted[half + 1])) \in Nat
    BY <1>0, CountsAreNumbers
  <1>10. n < 2 * Cardinality(UpTo(values, sorted[half + 1]))
    BY <1>3, <1>7, <1>8
  <1> QED
    BY <1>5, <1>6, <1>10

(* By the median, fewer than half are outliers (control_chart.go:139-204).  *)
LEMMA RobustAreFew ==
  ASSUME NEW n \in Nat \ {0}, NEW values, values \in [1..n -> Nat]
  PROVE  /\ detectOutliersRobust(values) \subseteq 1..n
         /\ 2 * Cardinality(detectOutliersRobust(values)) < n
  <1> DEFINE median == Median2(values)
             deviation == [i \in DOMAIN values |-> Distance(2 * values[i], median)]
             mad4 == Median2(deviation)
             far == {i \in DOMAIN values :
                        IF mad4 = 0 THEN deviation[i] > 7
                        ELSE 6745 * 2 * deviation[i] > 35000 * mad4}
             robust == detectOutliersRobust(values)
  <1>1. DOMAIN values = 1..n /\ \A i \in 1..n : values[i] \in Nat
    OBVIOUS
  <1>2. median \in Nat
    BY MedianFacts
  <1>3. deviation \in [1..n -> Nat]
    <2> HIDE DEF median
    <2>1. \A i \in 1..n : Distance(2 * values[i], median) \in Nat
      BY <1>1, <1>2 DEF Distance
    <2> QED
      BY <1>1, <2>1
  <1>4. robust = {} \/ robust = far
    BY DEF detectOutliersRobust
  <1> HIDE DEF deviation, median
  <1>5. mad4 \in Nat
    BY <1>3, MedianFacts
  <1>6. PICK v \in Nat : v <= mad4 /\ n < 2 * Cardinality(UpTo(deviation, v))
    BY <1>3, MedianFacts
  <1> HIDE DEF mad4
  <1>7. far \subseteq 1..n
    BY <1>1
  <1>8. far \cap UpTo(deviation, v) = {}
    <2>1. ASSUME NEW i \in far
          PROVE  i \notin UpTo(deviation, v)
      <3>1. i \in 1..n /\ deviation[i] \in Nat
        BY <1>3, <1>7, <2>1
      <3>2. IF mad4 = 0 THEN deviation[i] > 7 ELSE 6745 * 2 * deviation[i] > 35000 * mad4
        BY <2>1
      <3>3. deviation[i] > v
        BY <1>5, <1>6, <3>1, <3>2
      <3> QED
        BY <3>1, <3>3 DEF UpTo
    <2> QED
      BY <2>1
  <1>9. UpTo(deviation, v) \subseteq 1..n
    BY <1>3 DEF UpTo
  <1> HIDE DEF far
  <1>10. Cardinality(far) + Cardinality(UpTo(deviation, v)) <= n
    BY <1>7, <1>8, <1>9, DisjointPlaces
  <1>11. Cardinality(far) \in Nat /\ Cardinality(UpTo(deviation, v)) \in Nat
    BY <1>7, <1>9, SetsOfPlaces
  <1>12. 2 * Cardinality(far) < n
    BY <1>6, <1>10, <1>11
  <1>13. Cardinality({}) = 0
    BY FS_EmptySet
  <1> HIDE DEF robust
  <1>14. robust \subseteq 1..n /\ 2 * Cardinality(robust) < n
    <2>1. CASE robust = {}
      BY <1>13, <2>1
    <2>2. CASE robust = far
      BY <1>7, <1>12, <2>2
    <2> QED
      BY <1>4, <2>1, <2>2
  <1> QED
    BY <1>14 DEF robust

LEMMA SquareOfDistance ==
  ASSUME NEW f \in Int, NEW v \in Int, NEW s \in Int
  PROVE  /\ (f * v - s) * (f * v - s) = (f * f) * (v * v) + (-2 * (f * s)) * v + s * s
         /\ (f * v - s) * (f * v - s) >= 0
  <1>1. (f * v - s) * (f * v - s) = (f * f) * (v * v) + (-2 * (f * s)) * v + s * s
    OBVIOUS
  <1>2. \A d \in Int : d * d >= 0
    OBVIOUS
  <1> QED
    BY <1>1, <1>2

LEMMA SumOfSquares ==
  ASSUME NEW f \in Int, NEW q \in Int, NEW s \in Int
  PROVE  (f * f) * q + (-2 * (f * s)) * s + f * (s * s) = f * (f * q - s * s)
  OBVIOUS

LEMMA NinthOf ==
  ASSUME NEW f \in Nat \ {0}, NEW c \in Nat, NEW d \in Int,
         (9 * d + 1) * c <= f * d, 0 <= f * d
  PROVE  9 * c <= f
  <1>1. d >= 0
    <2>1. CASE d < 0
      <3>1. f * d < 0
        BY <2>1
      <3> QED
        BY <3>1
    <2> QED
      BY <2>1
  <1>2. CASE 9 * c > f
    <2>1. (9 * c - f) * d >= 0
      BY <1>1, <1>2
    <2>2. (9 * d + 1) * c - f * d = (9 * c - f) * d + c
      OBVIOUS
    <2>3. c > 0
      BY <1>2
    <2>4. (9 * c - f) * d \in Int /\ (9 * d + 1) * c \in Int /\ f * d \in Int
      OBVIOUS
    <2> QED
      BY <2>1, <2>2, <2>3, <2>4
  <1> QED
    BY <1>2

(* Chebyshev: of the values that the limits come from, no more than a ninth *)
(* are beyond three deviations (control_chart.go:62-136, 207-238).          *)
LEMMA BeyondAreFew ==
  ASSUME NEW f \in Nat \ {0}, NEW x, x \in [1..f -> Int]
  PROVE  9 * Cardinality({k \in 1..f : Beyond(x[k], x, 3)}) <= f
  <1> DEFINE square == [k \in DOMAIN x |-> x[k] * x[k]]
             s == Sum(x)
             q == Sum(square)
             y == [k \in 1..f |-> (f * x[k] - s) * (f * x[k] - s)]
             K == {k \in 1..f : Beyond(x[k], x, 3)}
             d == f * q - s * s
             least == [k \in 1..f |-> IF k \in K THEN 9 * d + 1 ELSE 0]
  <1>1. DOMAIN x = 1..f /\ Len(x) = f /\ \A k \in 1..f : x[k] \in Int
    OBVIOUS
  <1>2. square \in [1..f -> Int] /\ \A k \in 1..f : square[k] = x[k] * x[k]
    BY <1>1
  <1>3. s \in Int
    BY SumType
  <1> HIDE DEF square
  <1>4. q \in Int
    BY <1>2, SumType
  <1> HIDE DEF s, q
  <1>5. \A k \in 1..f : /\ y[k] = (f * f) * square[k] + (-2 * (f * s)) * x[k] + s * s
                        /\ y[k] \in Int /\ y[k] >= 0
    <2>1. ASSUME NEW k \in 1..f
          PROVE  /\ y[k] = (f * f) * square[k] + (-2 * (f * s)) * x[k] + s * s
                 /\ y[k] \in Int /\ y[k] >= 0
      <3> DEFINE v == x[k]
      <3>1. v \in Int /\ square[k] = v * v /\ f \in Int
        BY <1>1, <1>2
      <3>2. y[k] = (f * v - s) * (f * v - s)
        OBVIOUS
      <3> HIDE DEF v, y
      <3>3. /\ (f * v - s) * (f * v - s) = (f * f) * (v * v) + (-2 * (f * s)) * v + s * s
            /\ (f * v - s) * (f * v - s) >= 0
        BY <1>3, <3>1, SquareOfDistance, Zenon
      <3>4. (f * v - s) * (f * v - s) \in Int
        BY <1>3, <3>1
      <3> QED
        BY <3>1, <3>2, <3>3, <3>4, Zenon DEF v
    <2> QED
      BY <2>1
  <1>6. y \in [1..f -> Int]
    <2>1. y = [k \in 1..f |-> y[k]]
      OBVIOUS
    <2> HIDE DEF y
    <2> QED
      BY <1>5, <2>1
  <1> HIDE DEF y
  <1>7. Sum(y) = f * d
    <2>1. /\ f \in Nat /\ f * f \in Int /\ -2 * (f * s) \in Int /\ s * s \in Int
      BY <1>3
    <2>2. Combines(f, y, f * f, square, -2 * (f * s), x, s * s)
      BY <1>2, <1>5, <1>6, <2>1 DEF Combines
    <2>3. Sum(y) = (f * f) * q + (-2 * (f * s)) * s + f * (s * s)
      <3>1. Sum(y) = (f * f) * Sum(square) + (-2 * (f * s)) * Sum(x) + f * (s * s)
        BY <2>2, SumLinear
      <3> QED
        BY <3>1 DEF q, s
    <2> QED
      BY <1>3, <1>4, <2>3, SumOfSquares
  <1>8. d \in Int
    BY <1>3, <1>4
  <1>9. \A k \in 1..f : k \in K => y[k] >= 9 * d + 1
    <2>1. ASSUME NEW k \in 1..f, k \in K
          PROVE  y[k] >= 9 * d + 1
      <3>1. Beyond(x[k], x, 3)
        BY <2>1
      <3>2. (f * x[k] - s) * (f * x[k] - s) > 3 * 3 * (f * q - s * s)
        BY <1>1, <3>1 DEF Beyond, s, q, square
      <3>3. y[k] > 9 * d
        BY <3>2 DEF y
      <3> HIDE DEF d
      <3> QED
        BY <1>5, <1>8, <3>3
    <2> QED
      BY <2>1
  <1>10. K \subseteq 1..f
    OBVIOUS
  <1> HIDE DEF K, d
  <1>11. 9 * d + 1 \in Int
    BY <1>8
  <1>12. Sum(least) = (9 * d + 1) * Cardinality(K)
    BY <1>10, <1>11, SumOfMembers
  <1>13. least \in [1..f -> Int] /\ \A k \in 1..f : least[k] <= y[k]
    BY <1>5, <1>9, <1>11
  <1> HIDE DEF least
  <1>14. Sum(least) <= Sum(y)
    BY <1>6, <1>13, SumMonotone
  <1>15. 0 <= Sum(y)
    <2>1. 0 * f <= Sum(y)
      BY <1>5, <1>6, SumAtLeast
    <2> QED
      BY <2>1
  <1>16. Cardinality(K) \in Nat
    BY <1>10, SetsOfPlaces
  <1>17. 9 * Cardinality(K) <= f
    <2> DEFINE c == Cardinality(K)
    <2>1. c \in Nat /\ (9 * d + 1) * c <= f * d /\ 0 <= f * d
      BY <1>7, <1>12, <1>14, <1>15, <1>16
    <2> HIDE DEF c
    <2>2. 9 * c <= f
      BY <1>8, <2>1, NinthOf
    <2> QED
      BY <2>2 DEF c
  <1> QED
    BY <1>17 DEF K

LEMMA ImageIsSmaller ==
  ASSUME NEW n \in Nat, NEW S, S \subseteq 1..n, NEW g
  PROVE  /\ IsFiniteSet({g[i] : i \in S})
         /\ Cardinality({g[i] : i \in S}) <= Cardinality(S)
  <1> DEFINE T == {g[i] : i \in S}
             h == [i \in S |-> g[i]]
  <1>1. h \in Surjection(S, T)
    BY DEF Surjection
  <1>2. IsFiniteSet(S)
    BY SetsOfPlaces
  <1> HIDE DEF h, T
  <1>3. IsFiniteSet(T) /\ Cardinality(T) <= Cardinality(S)
    BY <1>1, <1>2, FS_Surjection
  <1> QED
    BY <1>3 DEF T

LEMMA Complement ==
  ASSUME NEW n \in Nat, NEW S, S \subseteq 1..n
  PROVE  /\ Cardinality((1..n) \ S) = n - Cardinality(S)
         /\ Cardinality(S) \in Nat
  <1>1. IsFiniteSet(1..n) /\ Cardinality(1..n) = n
    BY FS_Interval
  <1>2. (1..n) \cap S = S
    OBVIOUS
  <1>3. Cardinality((1..n) \ S) = Cardinality(1..n) - Cardinality((1..n) \cap S)
    BY <1>1, FS_Difference
  <1> QED
    BY <1>1, <1>2, <1>3, SetsOfPlaces

(* The correction with limits from what the median left (control_chart.go:  *)
(* 207-238).                                                                *)
LEMMA FarAreFew ==
  ASSUME NEW n \in Nat \ {0}, NEW values, values \in [1..n -> Nat],
         NEW robust, robust \subseteq 1..n, 2 * Cardinality(robust) < n
  PROVE  9 * Cardinality({i \in 1..n : Beyond(values[i], Without(values, robust), 3)}) < 5 * n
  <1> DEFINE kept == (1..n) \ robust
             f == Cardinality(kept)
             filtered == Without(values, robust)
             far == {i \in 1..n : Beyond(values[i], filtered, 3)}
             K == {k \in 1..f : Beyond(filtered[k], filtered, 3)}
             r == Cardinality(robust)
  <1>1. DOMAIN values = 1..n /\ \A i \in 1..n : values[i] \in Int
    OBVIOUS
  <1>2. f = n - r /\ r \in Nat /\ f \in Nat \ {0}
    <2>1. f = n - r /\ r \in Nat
      BY Complement
    <2> HIDE DEF f, r
    <2>2. 2 * r < n
      BY DEF r
    <2> QED
      BY <2>1, <2>2
  <1>3. kept \subseteq 1..n /\ IsFiniteSet(kept) /\ kept \subseteq Int
    <2>1. kept \subseteq 1..n
      OBVIOUS
    <2>2. IsFiniteSet(1..n) /\ 1..n \subseteq Int
      BY FS_Interval
    <2> HIDE DEF kept
    <2> QED
      BY <2>1, <2>2, FS_Subset
  <1>4. filtered = Only(values, kept)
    BY <1>1 DEF Without
  <1>5. \A i \in kept : values[i] \in Int
    BY <1>1
  <1> HIDE DEF kept, filtered
  <1>6. filtered \in [1..f -> Int]
    BY <1>3, <1>4, <1>5, OnlyType
  <1>7. PICK at : Enumerates(at, values, kept)
    BY <1>3, OnlyFacts
  <1>8. /\ \A k \in 1..f : filtered[k] = values[at[k]]
        /\ \A i \in kept : \E k \in 1..f : at[k] = i
    BY <1>4, <1>7 DEF Enumerates, Bijection, Surjection
  <1>9. K \subseteq 1..f
    OBVIOUS
  <1>10. 9 * Cardinality(K) <= f
    <2> HIDE DEF f
    <2>1. 9 * Cardinality({k \in 1..f : Beyond(filtered[k], filtered, 3)}) <= f
      BY <1>2, <1>6, BeyondAreFew
    <2> QED
      BY <2>1
  <1>11. far \subseteq robust \cup {at[k] : k \in K}
    <2>1. ASSUME NEW i \in far, i \notin robust
          PROVE  \E k \in K : at[k] = i
      <3>1. i \in kept /\ Beyond(values[i], filtered, 3)
        BY <2>1 DEF kept
      <3>2. PICK k \in 1..f : at[k] = i
        BY <1>8, <3>1
      <3>3. filtered[k] = values[i]
        BY <1>8, <3>2
      <3> QED
        BY <3>1, <3>2, <3>3
    <2> QED
      BY <2>1
  <1> DEFINE A == {at[k] : k \in K}
  <1> HIDE DEF K, f, r
  <1>12. IsFiniteSet(A) /\ Cardinality(A) <= Cardinality(K) /\ Cardinality(K) \in Nat
    <2>1. /\ IsFiniteSet({at[k] : k \in K})
          /\ Cardinality({at[k] : k \in K}) <= Cardinality(K)
      BY <1>2, <1>9, ImageIsSmaller, Zenon
    <2>2. Cardinality(K) \in Nat
      BY <1>2, <1>9, SetsOfPlaces
    <2> QED
      BY <2>1, <2>2
  <1> HIDE DEF A
  <1>13. IsFiniteSet(robust)
    BY SetsOfPlaces
  <1>14. /\ IsFiniteSet(robust \cup A)
         /\ Cardinality(robust \cup A)
              = Cardinality(robust) + Cardinality(A) - Cardinality(robust \cap A)
    BY <1>12, <1>13, FS_Union
  <1>15. Cardinality(robust \cap A) \in Nat /\ Cardinality(A) \in Nat
    BY <1>12, <1>13, FS_Intersection, FS_CardinalityType
  <1>16. far \subseteq robust \cup A
    BY <1>11 DEF A
  <1> HIDE DEF far
  <1>17. Cardinality(far) <= Cardinality(robust \cup A) /\ Cardinality(far) \in Nat
    BY <1>14, <1>16, FS_Subset, FS_CardinalityType
  <1>18. r = Cardinality(robust) /\ 2 * r < n
    BY DEF r
  <1>19. 9 * Cardinality(far) < 5 * n
    <2> DEFINE p == Cardinality(far)
               q == Cardinality(A)
               k == Cardinality(K)
               t == Cardinality(robust \cup A)
               c == Cardinality(robust \cap A)
    <2>1. p \in Nat /\ q \in Nat /\ k \in Nat /\ c \in Nat
      BY <1>12, <1>15, <1>17
    <2>2. p <= t /\ t = r + q - c
      BY <1>14, <1>17, <1>18
    <2>3. q <= k /\ 9 * k <= f
      BY <1>10, <1>12
    <2> HIDE DEF p, q, k, t, c
    <2>4. 9 * p < 5 * n
      BY <1>2, <1>18, <2>1, <2>2, <2>3
    <2> QED
      BY <2>4 DEF p
  <1> QED
    BY <1>19 DEF far, filtered

LEMMA DetectedAreFew ==
  ASSUME NEW n \in Nat \ {0}, NEW values, values \in [1..n -> Nat]
  PROVE  9 * Cardinality(DetectOutliers(values, 3)) < 5 * n
  <1> DEFINE robust == detectOutliersRobust(values)
             far == {i \in 1..n : Beyond(values[i], Without(values, robust), 3)}
             indices == OutlierIndices(values, 3)
             rest == Without(values, indices)
             reference == IF rest = <<>> THEN values ELSE rest
             outlier == [i \in indices |->
                [index |-> i,
                 type |-> IF IsBelow(values[i], reference, 3) THEN "below_lcl" ELSE "above_ucl"]]
  <1>1. DOMAIN values = 1..n
    OBVIOUS
  <1>2. robust \subseteq 1..n /\ 2 * Cardinality(robust) < n
    BY RobustAreFew
  <1>3. 9 * Cardinality(far) < 5 * n
    <2> HIDE DEF robust
    <2> QED
      BY <1>2, FarAreFew
  <1>4. indices = robust \/ indices = far
    BY <1>1 DEF OutlierIndices
  <1>5. DetectOutliers(values, 3) = {outlier[i] : i \in indices}
    BY DEF DetectOutliers
  <1>6. far \subseteq 1..n
    OBVIOUS
  <1> HIDE DEF robust, far, indices, outlier
  <1>7. indices \subseteq 1..n /\ 9 * Cardinality(indices) < 5 * n
    <2>1. CASE indices = robust
      <3>1. Cardinality(robust) \in Nat
        BY <1>2, SetsOfPlaces
      <3> QED
        BY <1>2, <2>1, <3>1
    <2>2. CASE indices = far
      BY <1>3, <1>6, <2>2
    <2> QED
      BY <1>4, <2>1, <2>2
  <1>8. /\ IsFiniteSet({outlier[i] : i \in indices})
        /\ Cardinality({outlier[i] : i \in indices}) <= Cardinality(indices)
    BY <1>7, ImageIsSmaller
  <1> DEFINE found == DetectOutliers(values, 3)
  <1>9. Cardinality(found) \in Nat /\ Cardinality(found) <= Cardinality(indices)
    BY <1>5, <1>8, FS_CardinalityType
  <1>10. Cardinality(indices) \in Nat
    BY <1>7, SetsOfPlaces
  <1> HIDE DEF found
  <1>11. 9 * Cardinality(found) < 5 * n
    BY <1>7, <1>9, <1>10
  <1> QED
    BY <1>11 DEF found

LEMMA OutliersAnswered ==
  ASSUME CheckSystemHealth
  PROVE  OutliersAreFew'
  <1>1. PICK c \in HealthCases :
          /\ question' = [about |-> "health", subject |-> c]
          /\ answer'.verdict.check = CheckHealth(<<>>, <<c.sla>>, c.readings, Today)
    BY HealthAnswered
  <1> DEFINE n == Len(c.readings)
             values == Values(c.readings)
             outliers == DetectOutliers(values, 3)
  <1>2. /\ n \in Nat /\ DOMAIN c.readings = 1..n
        /\ \A i \in 1..n : c.readings[i].value \in Nat
    <2> DEFINE s == c.readings
               R == [at : Int, value : Nat]
    <2>1. s \in Seq(R)
      BY AssessmentAssumption
    <2> HIDE DEF s, R
    <2>2. Len(s) \in Nat /\ DOMAIN s = 1..Len(s) /\ \A i \in 1..Len(s) : s[i] \in R
      BY <2>1
    <2> QED
      BY <2>2 DEF s, R
  <1>3. values \in [1..n -> Nat]
    BY <1>2 DEF Values
  <1>4. answer'.verdict.check.outliers = outliers
    BY <1>1 DEF CheckHealth
  <1>5. CASE n = 0
    <2>1. c.readings = <<>>
      <3> DEFINE s == c.readings
      <3>1. s \in Seq([at : Int, value : Nat]) /\ Len(s) = 0
        BY <1>5, AssessmentAssumption
      <3> HIDE DEF s
      <3>2. s = <<>>
        BY <3>1
      <3> QED
        BY <3>2 DEF s
    <2> QED
      BY <1>1, <2>1 DEF OutliersAreFew
  <1>6. CASE n # 0
    <2> HIDE DEF values, n
    <2>1. n \in Nat \ {0}
      BY <1>2, <1>6
    <2>2. 9 * Cardinality(outliers) < 5 * n
      BY <1>3, <2>1, DetectedAreFew
    <2> HIDE DEF outliers
    <2> QED
      BY <1>1, <1>4, <2>2 DEF OutliersAreFew, n
  <1> QED
    BY <1>5, <1>6

-----------------------------------------------------------------------------
\* Units.

\* u are the values v in another unit.
Affine(n, u, v, a, b) ==
    /\ n \in Nat /\ a \in Int /\ b \in Int
    /\ u \in [1..n -> Int] /\ v \in [1..n -> Int]
    /\ \A i \in 1..n : u[i] = a * v[i] + b

LEMMA SumAffine ==
  ASSUME NEW n, NEW u, NEW v, NEW a, NEW b, Affine(n, u, v, a, b)
  PROVE  Sum(u) = a * Sum(v) + n * b
  <1>0. /\ n \in Nat /\ a \in Int /\ b \in Int
        /\ u \in [1..n -> Int] /\ v \in [1..n -> Int]
    BY DEF Affine
  <1> USE <1>0
  <1>1. Combines(n, u, a, v, 0, v, b)
    <2>1. ASSUME NEW i \in 1..n
          PROVE  u[i] = a * v[i] + 0 * v[i] + b
      <3>1. v[i] \in Int /\ u[i] = a * v[i] + b
        BY DEF Affine
      <3>2. a * v[i] \in Int
        BY <3>1
      <3> QED
        BY <3>1, <3>2
    <2> QED
      BY <2>1 DEF Combines
  <1>3. Sum(u) = a * Sum(v) + 0 * Sum(v) + n * b
    BY <1>1, SumLinear
  <1>4. Sum(v) \in Int
    BY SumType
  <1>5. a * Sum(v) \in Int
    BY <1>4
  <1> QED
    BY <1>3, <1>4, <1>5

Squares(x) == [i \in DOMAIN x |-> x[i] * x[i]]

LEMMA SquaresType ==
  ASSUME NEW n \in Nat, NEW x, x \in [1..n -> Int]
  PROVE  /\ Squares(x) \in [1..n -> Int]
         /\ \A i \in 1..n : Squares(x)[i] = x[i] * x[i]
  <1>1. DOMAIN x = 1..n /\ \A i \in 1..n : x[i] \in Int
    OBVIOUS
  <1>2. \A i \in 1..n : x[i] * x[i] \in Int
    BY <1>1
  <1> QED
    BY <1>1, <1>2 DEF Squares

LEMMA SquareOfAffine ==
  ASSUME NEW a \in Int, NEW b \in Int, NEW x \in Int
  PROVE  (a * x + b) * (a * x + b) = (a * a) * (x * x) + (2 * (a * b)) * x + b * b
  OBVIOUS

LEMMA SpreadOfAffine ==
  ASSUME NEW n \in Int, NEW a \in Int, NEW b \in Int, NEW q \in Int, NEW s \in Int
  PROVE  n * ((a * a) * q + (2 * (a * b)) * s + n * (b * b)) - (a * s + n * b) * (a * s + n * b)
           = (a * a) * (n * q - s * s)
  OBVIOUS

\* The spread is in the square of the unit, wherever its zero is.
LEMMA SpreadAffine ==
  ASSUME NEW n, NEW u, NEW v, NEW a, NEW b, Affine(n, u, v, a, b)
  PROVE  Spread(v) \in Int /\ Spread(u) = (a * a) * Spread(v)
  <1>0. /\ n \in Nat /\ a \in Int /\ b \in Int
        /\ u \in [1..n -> Int] /\ v \in [1..n -> Int]
    BY DEF Affine
  <1> USE <1>0
  <1> DEFINE s == Sum(v)
             q == Sum(Squares(v))
             qu == Sum(Squares(u))
             aa == a * a
             ab == 2 * (a * b)
             bb == b * b
  <1>1. /\ Spread(v) = n * q - s * s
        /\ Spread(u) = n * qu - Sum(u) * Sum(u)
    BY DEF Spread, Squares
  <1>2. s \in Int /\ q \in Int
    BY SumType, SquaresType
  <1>3. aa \in Int /\ ab \in Int /\ bb \in Int
    OBVIOUS
  <1>4. /\ Squares(u) \in [1..n -> Int] /\ Squares(v) \in [1..n -> Int]
        /\ \A i \in 1..n : Squares(u)[i] = u[i] * u[i] /\ Squares(v)[i] = v[i] * v[i]
    BY SquaresType
  <1>5. Combines(n, Squares(u), aa, Squares(v), ab, v, bb)
    <2>1. ASSUME NEW i \in 1..n
          PROVE  Squares(u)[i] = aa * Squares(v)[i] + ab * v[i] + bb
      <3>1. /\ v[i] \in Int /\ u[i] = a * v[i] + b
            /\ Squares(u)[i] = u[i] * u[i] /\ Squares(v)[i] = v[i] * v[i]
        BY <1>4 DEF Affine
      <3> DEFINE x == v[i]
      <3>2. x \in Int
        BY <3>1
      <3> HIDE DEF x
      <3>3. (a * x + b) * (a * x + b) = (a * a) * (x * x) + (2 * (a * b)) * x + b * b
        BY <3>2, SquareOfAffine
      <3> QED
        BY <3>1, <3>3 DEF x
    <2> HIDE DEF aa, ab, bb
    <2> QED
      BY <1>3, <1>4, <2>1 DEF Combines
  <1> HIDE DEF aa, ab, bb
  <1>6. qu = aa * q + ab * s + n * bb
    BY <1>5, SumLinear
  <1>7. Sum(u) = a * s + n * b
    BY SumAffine
  <1> HIDE DEF s, q, qu
  <1>8. n * (aa * q + ab * s + n * bb) - (a * s + n * b) * (a * s + n * b) = (a * a) * (n * q - s * s)
    BY <1>2, SpreadOfAffine DEF aa, ab, bb
  <1>9. n * q - s * s \in Int
    BY <1>2
  <1> QED
    BY <1>1, <1>6, <1>7, <1>8, <1>9

LEMMA SquareIsPositive ==
  ASSUME NEW a \in Int, a # 0
  PROVE  a * a \in Nat /\ a * a > 0
  OBVIOUS

\* A comparison does not change with a factor on both sides.
LEMMA Scaled ==
  ASSUME NEW x \in Int, NEW y \in Int, NEW c \in Int, c > 0
  PROVE  /\ c * x >= c * y <=> x >= y
         /\ c * x > c * y <=> x > y
         /\ c * x = 0 <=> x = 0
  <1>1. CASE x > y
    <2>1. c * (x - y) > 0
      BY <1>1
    <2>2. c * (x - y) = c * x - c * y /\ c * x \in Int /\ c * y \in Int
      OBVIOUS
    <2> QED
      BY <1>1, <2>1, <2>2
  <1>2. CASE x < y
    <2>1. c * (y - x) > 0
      BY <1>2
    <2>2. c * (y - x) = c * y - c * x /\ c * x \in Int /\ c * y \in Int
      OBVIOUS
    <2> QED
      BY <1>2, <2>1, <2>2
  <1>3. CASE x = y
    BY <1>3
  <1>4. c * x = 0 <=> x = 0
    OBVIOUS
  <1> QED
    BY <1>1, <1>2, <1>3, <1>4

\* The same indices, as severe.
SameFindings(A, B) ==
    /\ \A f \in A : \E g \in B : g.index = f.index /\ g.severity = f.severity
    /\ \A g \in B : \E f \in A : f.index = g.index /\ f.severity = g.severity

FindingsAt(S, severity, drop) == {Finding(i, severity[i], drop[i]) : i \in S}

LEMMA FindingsAreSame ==
  ASSUME NEW S, NEW severity, NEW c, NEW d
  PROVE  SameFindings(FindingsAt(S, severity, c), FindingsAt(S, severity, d))
  <1> DEFINE A == {Finding(i, severity[i], c[i]) : i \in S}
             B == {Finding(i, severity[i], d[i]) : i \in S}
  <1>1. ASSUME NEW f \in A
        PROVE  \E g \in B : g.index = f.index /\ g.severity = f.severity
    <2>1. PICK i \in S : f = Finding(i, severity[i], c[i])
      BY <1>1
    <2>2. Finding(i, severity[i], d[i]) \in B
      OBVIOUS
    <2> QED
      BY <2>1, <2>2 DEF Finding
  <1>2. ASSUME NEW g \in B
        PROVE  \E f \in A : f.index = g.index /\ f.severity = g.severity
    <2>1. PICK i \in S : g = Finding(i, severity[i], d[i])
      BY <1>2
    <2>2. Finding(i, severity[i], c[i]) \in A
      OBVIOUS
    <2> QED
      BY <2>1, <2>2 DEF Finding
  <1> HIDE DEF A, B
  <1>3. SameFindings(A, B)
    BY <1>1, <1>2 DEF SameFindings
  <1> QED
    BY <1>3 DEF A, B, FindingsAt

\* u measures what v does: its spread is in the square of the factor a.
InUnits(n, u, v, a) ==
    /\ n \in Nat /\ Len(u) = n /\ Len(v) = n
    /\ Spread(v) \in Int /\ Spread(u) = (a * a) * Spread(v)

LEMMA ScaledProducts ==
  ASSUME NEW a \in Int, NEW d \in Int, NEW m \in Int, NEW k \in Int, NEW n \in Int, NEW s \in Int
  PROVE  /\ (a * d) * (a * d) * m = (a * a) * (d * d * m)
         /\ k * k * n * ((a * a) * s) = (a * a) * (k * k * n * s)
         /\ d * d * m \in Int /\ k * k * n * s \in Int
  OBVIOUS

LEMMA ReachesTheSame ==
  ASSUME NEW n, NEW u, NEW v, NEW a \in Int, NEW d \in Int, NEW k \in Int,
         a # 0, InUnits(n, u, v, a)
  PROVE  /\ Reaches(a * d, k, u) <=> Reaches(d, k, v)
         /\ Exceeds(a * d, k, u) <=> Exceeds(d, k, v)
  <1> DEFINE s == Spread(v)
             x == d * d * (n - 1)
             y == k * k * n * s
             c == a * a
  <1>1. /\ n \in Nat /\ Len(u) = n /\ Len(v) = n
        /\ s \in Int /\ Spread(u) = c * s
    BY DEF InUnits
  <1>2. c \in Int /\ c > 0
    BY SquareIsPositive
  <1> HIDE DEF s
  <1>3. /\ (a * d) * (a * d) * (n - 1) = c * x
        /\ k * k * n * (c * s) = c * y
        /\ x \in Int /\ y \in Int
    BY <1>1, ScaledProducts
  <1>4. /\ Reaches(a * d, k, u) <=> c * x >= c * y
        /\ Exceeds(a * d, k, u) <=> c * x > c * y
    <2> HIDE DEF c, x, y
    <2> QED
      BY <1>1, <1>3 DEF Reaches, Exceeds
  <1>5. /\ Reaches(d, k, v) <=> x >= y
        /\ Exceeds(d, k, v) <=> x > y
    BY <1>1 DEF Reaches, Exceeds, s
  <1> HIDE DEF c, x, y
  <1> QED
    BY <1>2, <1>3, <1>4, <1>5, Scaled

LEMMA AsSevere ==
  ASSUME NEW n, NEW u, NEW v, NEW a \in Int, NEW d \in Int, a # 0, InUnits(n, u, v, a)
  PROVE  determineSeverity(a * d, u) = determineSeverity(d, v)
  <1>1. \A k \in 3..5 : Reaches(a * d, k, u) <=> Reaches(d, k, v)
    BY ReachesTheSame
  <1>2. {k \in 3..5 : Reaches(a * d, k, u)} = {k \in 3..5 : Reaches(d, k, v)}
    BY <1>1
  <1> QED
    BY <1>2 DEF determineSeverity

LEMMA OffOfAffine ==
  ASSUME NEW n \in Int, NEW a \in Int, NEW b \in Int, NEW x \in Int, NEW s \in Int
  PROVE  n * (a * x + b) - (a * s + n * b) = a * (n * x - s)
  OBVIOUS

LEMMA UnitsOfAffine ==
  ASSUME NEW n, NEW u, NEW v, NEW a, NEW b, a # 0, Affine(n, u, v, a, b)
  PROVE  InUnits(n, u, v, a) /\ (Spread(u) = 0 <=> Spread(v) = 0)
  <1>0. /\ n \in Nat /\ a \in Int /\ b \in Int
        /\ u \in [1..n -> Int] /\ v \in [1..n -> Int]
    BY DEF Affine
  <1> USE <1>0
  <1> DEFINE c == a * a
             s == Spread(v)
  <1>1. s \in Int /\ Spread(u) = c * s
    BY SpreadAffine
  <1>2. c \in Int /\ c > 0
    BY SquareIsPositive
  <1>3. Len(u) = n /\ Len(v) = n
    OBVIOUS
  <1>4. InUnits(n, u, v, a)
    BY <1>1, <1>3 DEF InUnits
  <1> HIDE DEF c, s
  <1>5. c * s = 0 <=> s = 0
    BY <1>1, <1>2, Scaled
  <1> QED
    BY <1>1, <1>4, <1>5 DEF c, s

\* What is more than k deviations of x off.
FindingsBy(n, off, drop, k, x) ==
    {Finding(i, determineSeverity(off[i], x), drop[i]) :
        i \in {j \in 1..n : Exceeds(off[j], k, x)}}

LEMMA SameByDistance ==
  ASSUME NEW n, NEW u, NEW v, NEW a \in Int, NEW k \in Int, NEW offU, NEW offV,
         NEW c, NEW d,
         a # 0, InUnits(n, u, v, a),
         \A i \in 1..n : offV[i] \in Int /\ offU[i] = a * offV[i]
  PROVE  SameFindings(FindingsBy(n, offU, c, k, u), FindingsBy(n, offV, d, k, v))
  <1> DEFINE S == {i \in 1..n : Exceeds(offV[i], k, v)}
             severity == [i \in 1..n |-> determineSeverity(offV[i], v)]
  <1>1. \A i \in 1..n : /\ Exceeds(offU[i], k, u) <=> Exceeds(offV[i], k, v)
                        /\ determineSeverity(offU[i], u) = determineSeverity(offV[i], v)
    <2>1. \A y \in Int : \A m \in Int : Exceeds(a * y, m, u) <=> Exceeds(y, m, v)
      BY ReachesTheSame
    <2>2. \A y \in Int : determineSeverity(a * y, u) = determineSeverity(y, v)
      BY AsSevere
    <2>3. ASSUME NEW i \in 1..n
          PROVE  /\ Exceeds(offU[i], k, u) <=> Exceeds(offV[i], k, v)
                 /\ determineSeverity(offU[i], u) = determineSeverity(offV[i], v)
      <3> DEFINE x == offV[i]
      <3>1. x \in Int /\ offU[i] = a * x
        OBVIOUS
      <3> HIDE DEF x
      <3>2. Exceeds(a * x, k, u) <=> Exceeds(x, k, v)
        BY <2>1, <3>1
      <3>3. determineSeverity(a * x, u) = determineSeverity(x, v)
        BY <2>2, <3>1
      <3> QED
        BY <3>1, <3>2, <3>3 DEF x
    <2> QED
      BY <2>3
  <1>2. FindingsBy(n, offU, c, k, u) = FindingsAt(S, severity, c)
    <2>1. {j \in 1..n : Exceeds(offU[j], k, u)} = S
      BY <1>1
    <2>2. \A i \in S : determineSeverity(offU[i], u) = severity[i]
      BY <1>1
    <2> HIDE DEF S, severity
    <2>3. {Finding(i, determineSeverity(offU[i], u), c[i]) : i \in S}
            = FindingsAt(S, severity, c)
      BY <2>2 DEF FindingsAt
    <2> QED
      BY <2>1, <2>3 DEF FindingsBy
  <1>3. FindingsBy(n, offV, d, k, v) = FindingsAt(S, severity, d)
    <2>1. FindingsBy(n, offV, d, k, v)
            = {Finding(i, determineSeverity(offV[i], v), d[i]) : i \in S}
      BY DEF FindingsBy
    <2>2. \A i \in S : determineSeverity(offV[i], v) = severity[i]
      OBVIOUS
    <2> HIDE DEF S, severity
    <2>3. {Finding(i, determineSeverity(offV[i], v), d[i]) : i \in S}
            = FindingsAt(S, severity, d)
      BY <2>2 DEF FindingsAt
    <2> QED
      BY <2>1, <2>3
  <1> HIDE DEF S, severity
  <1>4. SameFindings(FindingsAt(S, severity, c), FindingsAt(S, severity, d))
    BY FindingsAreSame
  <1> QED
    BY <1>2, <1>3, <1>4

LEMMA NoneAreSame == SameFindings({}, {})
  BY DEF SameFindings

LEMMA SameByZScore ==
  ASSUME NEW n, NEW u, NEW v, NEW a, NEW b, a # 0, Affine(n, u, v, a, b)
  PROVE  SameFindings(ZScoreDetector(u), ZScoreDetector(v))
  <1>0. /\ n \in Nat /\ a \in Int /\ b \in Int
        /\ u \in [1..n -> Int] /\ v \in [1..n -> Int]
    BY DEF Affine
  <1> USE <1>0
  <1> DEFINE offU == [i \in 1..n |-> n * u[i] - Sum(u)]
             offV == [i \in 1..n |-> n * v[i] - Sum(v)]
             c == [i \in 1..n |-> offU[i] < 0]
             d == [i \in 1..n |-> offV[i] < 0]
  <1>1. Len(u) = n /\ Len(v) = n /\ DOMAIN u = 1..n /\ DOMAIN v = 1..n
    OBVIOUS
  <1>2. InUnits(n, u, v, a) /\ (Spread(u) = 0 <=> Spread(v) = 0)
    BY UnitsOfAffine
  <1>3. Sum(u) = a * Sum(v) + n * b /\ Sum(v) \in Int
    BY SumAffine, SumType
  <1>4. \A i \in 1..n : offV[i] \in Int /\ offU[i] = a * offV[i]
    <2>1. ASSUME NEW i \in 1..n
          PROVE  offV[i] \in Int /\ offU[i] = a * offV[i]
      <3> DEFINE x == v[i]
                 s == Sum(v)
      <3>1. x \in Int /\ s \in Int /\ u[i] = a * x + b /\ Sum(u) = a * s + n * b
        BY <1>3 DEF Affine
      <3>2. offU[i] = n * u[i] - Sum(u) /\ offV[i] = n * x - s
        OBVIOUS
      <3> HIDE DEF x, s, offU, offV
      <3>3. n * (a * x + b) - (a * s + n * b) = a * (n * x - s) /\ n * x - s \in Int
        BY <3>1, OffOfAffine
      <3> QED
        BY <3>1, <3>2, <3>3
    <2> HIDE DEF offU, offV
    <2> QED
      BY <2>1
  <1>5. ZScoreDetector(u) =
          IF n < MinSamples \/ Spread(u) = 0 THEN {} ELSE FindingsBy(n, offU, c, 3, u)
    <2>1. ZScoreDetector(u) =
            IF n < MinSamples \/ Spread(u) = 0 THEN {}
            ELSE {Finding(i, determineSeverity(n * u[i] - Sum(u), u), n * u[i] - Sum(u) < 0) :
                     i \in {j \in 1..n : Exceeds(n * u[j] - Sum(u), 3, u)}}
      BY <1>1 DEF ZScoreDetector
    <2> QED
      BY <2>1 DEF FindingsBy
  <1>6. ZScoreDetector(v) =
          IF n < MinSamples \/ Spread(v) = 0 THEN {} ELSE FindingsBy(n, offV, d, 3, v)
    <2>1. ZScoreDetector(v) =
            IF n < MinSamples \/ Spread(v) = 0 THEN {}
            ELSE {Finding(i, determineSeverity(n * v[i] - Sum(v), v), n * v[i] - Sum(v) < 0) :
                     i \in {j \in 1..n : Exceeds(n * v[j] - Sum(v), 3, v)}}
      BY <1>1 DEF ZScoreDetector
    <2> QED
      BY <2>1 DEF FindingsBy
  <1> HIDE DEF offU, offV, c, d
  <1>7. \A k \in Int : SameFindings(FindingsBy(n, offU, c, k, u), FindingsBy(n, offV, d, k, v))
    BY <1>2, <1>4, SameByDistance
  <1> QED
    BY <1>2, <1>5, <1>6, <1>7, NoneAreSame

Start(i) == Max({1, i - MovingAverageWindow + 1})

LEMMA StartFacts ==
  ASSUME NEW i \in Nat \ {0}
  PROVE  /\ Start(i) \in 1..i /\ i - Start(i) + 1 \in 1..MovingAverageWindow
         /\ Multiple \div (i - Start(i) + 1) \in Int
         /\ (Multiple \div (i - Start(i) + 1)) * (i - Start(i) + 1) = Multiple
  <1> DEFINE w == MovingAverageWindow
             c == i - Start(i) + 1
  <1>1. w \in Nat \ {0} /\ Multiple \in Nat \ {0} /\ \A k \in 1..w : Multiple % k = 0
    BY AnomalyAssumption
  <1>2. Start(i) = IF i - w + 1 > 1 THEN i - w + 1 ELSE 1
    <2> DEFINE m == IF i - w + 1 > 1 THEN i - w + 1 ELSE 1
               T == {1, i - w + 1}
    <2>1. T \subseteq Int /\ m \in T /\ \A k \in T : k <= m
      BY <1>1
    <2> HIDE DEF m, T
    <2>2. Max(T) = m
      BY <2>1, MaxIs
    <2> QED
      BY <2>2 DEF Start, m, T
  <1>3. Start(i) \in 1..i /\ c \in 1..w
    BY <1>1, <1>2
  <1> HIDE DEF c, w
  <1>4. c \in Nat \ {0} /\ Multiple % c = 0
    BY <1>1, <1>3
  <1>5. Multiple \div c \in Int /\ (Multiple \div c) * c = Multiple
    BY <1>1, <1>4
  <1> QED
    BY <1>3, <1>5 DEF c, w

\* The sum p of c values in another unit than those that make q.
Shifted(p, q, a, b, c) == q \in Int /\ p = a * q + c * b

LEMMA PartOfAffine ==
  ASSUME NEW n, NEW u, NEW v, NEW a, NEW b, NEW i, NEW s,
         Affine(n, u, v, a, b), i \in 1..n, s \in 1..i
  PROVE  Shifted(Sum(SubSeq(u, s, i)), Sum(SubSeq(v, s, i)), a, b, i - s + 1)
  <1>0. /\ n \in Nat /\ a \in Int /\ b \in Int
        /\ u \in [1..n -> Int] /\ v \in [1..n -> Int]
    BY DEF Affine
  <1> USE <1>0
  <1> DEFINE c == i - s + 1
             x == SubSeq(u, s, i)
             y == SubSeq(v, s, i)
  <1>1. c \in Nat
    OBVIOUS
  <1>2. u \in Seq(Int) /\ v \in Seq(Int) /\ Len(u) = n /\ Len(v) = n
    OBVIOUS
  <1>3. /\ x = [k \in 1..c |-> u[s + k - 1]]
        /\ y = [k \in 1..c |-> v[s + k - 1]]
    BY <1>2
  <1>4. \A k \in 1..c : s + k - 1 \in 1..n
    OBVIOUS
  <1>5. \A k \in 1..c : u[s + k - 1] \in Int /\ v[s + k - 1] \in Int
    BY <1>4
  <1> HIDE DEF c, x, y
  <1>6. x \in [1..c -> Int] /\ y \in [1..c -> Int]
    BY <1>3, <1>5
  <1>7. \A k \in 1..c : x[k] = a * y[k] + b
    BY <1>3, <1>4 DEF Affine
  <1>8. Affine(c, x, y, a, b)
    BY <1>1, <1>6, <1>7 DEF Affine
  <1>9. Sum(y) \in Int
    BY <1>1, <1>6, SumType
  <1>10. Sum(x) = a * Sum(y) + c * b
    BY <1>1, <1>6, <1>8, SumAffine
  <1> QED
    BY <1>9, <1>10 DEF Shifted, c, x, y

LEMMA DifferenceOfAffine ==
  ASSUME NEW m \in Int, NEW c \in Int, NEW a \in Int, NEW b \in Int,
         NEW x \in Int, NEW s \in Int
  PROVE  (m * c) * (a * x + b) - m * (a * s + c * b) = a * ((m * c) * x - m * s)
  OBVIOUS

Difference(data) == [i \in DOMAIN data |-> Multiple * data[i] - calculateSMA(data)[i]]

LEMMA DifferenceIsAffine ==
  ASSUME NEW n, NEW u, NEW v, NEW a, NEW b, Affine(n, u, v, a, b)
  PROVE  /\ Difference(u) \in [1..n -> Int] /\ Difference(v) \in [1..n -> Int]
         /\ Affine(n, Difference(u), Difference(v), a, 0)
  <1>0. /\ n \in Nat /\ a \in Int /\ b \in Int
        /\ u \in [1..n -> Int] /\ v \in [1..n -> Int]
    BY DEF Affine
  <1> USE <1>0
  <1>1. DOMAIN u = 1..n /\ DOMAIN v = 1..n
    OBVIOUS
  <1>2. ASSUME NEW i \in 1..n
        PROVE  /\ Difference(v)[i] \in Int /\ Difference(u)[i] = a * Difference(v)[i]
    <2> DEFINE c == i - Start(i) + 1
               m == Multiple \div c
               x == v[i]
               s == Sum(SubSeq(v, Start(i), i))
    <2>1. /\ Difference(u)[i] = Multiple * u[i] - m * Sum(SubSeq(u, Start(i), i))
          /\ Difference(v)[i] = Multiple * x - m * s
      BY <1>1 DEF Difference, calculateSMA, Start
    <2>2. i \in Nat \ {0} /\ x \in Int /\ u[i] = a * x + b
      BY DEF Affine
    <2>3. Start(i) \in 1..i /\ m \in Int /\ m * c = Multiple /\ c \in Int
      BY <2>2, StartFacts
    <2>4. s \in Int /\ Sum(SubSeq(u, Start(i), i)) = a * s + c * b
      <3>1. \A t \in 1..i :
               Shifted(Sum(SubSeq(u, t, i)), Sum(SubSeq(v, t, i)), a, b, i - t + 1)
        BY PartOfAffine
      <3>2. Start(i) \in 1..i
        BY <2>3
      <3>3. Shifted(Sum(SubSeq(u, Start(i), i)), s, a, b, c)
        BY <3>1, <3>2
      <3> QED
        BY <3>3 DEF Shifted
    <2> HIDE DEF c, m, x, s
    <2>5. (m * c) * (a * x + b) - m * (a * s + c * b) = a * ((m * c) * x - m * s)
      BY <2>2, <2>3, <2>4, DifferenceOfAffine
    <2>6. (m * c) * x - m * s \in Int
      BY <2>2, <2>3, <2>4
    <2> QED
      BY <2>1, <2>2, <2>3, <2>4, <2>5, <2>6
  <1>3. \A i \in 1..n : Difference(v)[i] \in Int /\ Difference(u)[i] \in Int
    <2>1. ASSUME NEW i \in 1..n
          PROVE  Difference(v)[i] \in Int /\ Difference(u)[i] \in Int
      <3> DEFINE x == Difference(v)[i]
      <3>1. x \in Int /\ Difference(u)[i] = a * x
        BY <1>2
      <3> HIDE DEF x
      <3> QED
        BY <3>1 DEF x
    <2> QED
      BY <2>1
  <1>4. /\ Difference(u) = [i \in 1..n |-> Difference(u)[i]]
        /\ Difference(v) = [i \in 1..n |-> Difference(v)[i]]
    BY <1>1 DEF Difference
  <1>5. Difference(u) \in [1..n -> Int] /\ Difference(v) \in [1..n -> Int]
    BY <1>3, <1>4
  <1>6. Affine(n, Difference(u), Difference(v), a, 0)
    <2>1. ASSUME NEW i \in 1..n
          PROVE  Difference(u)[i] = a * Difference(v)[i] + 0
      <3> DEFINE x == Difference(v)[i]
                 y == Difference(u)[i]
      <3>1. y \in Int /\ y = a * x
        BY <1>2, <1>3
      <3> HIDE DEF x, y
      <3>2. y = a * x + 0
        BY <3>1
      <3> QED
        BY <3>2 DEF x, y
    <2> QED
      BY <1>5, <2>1 DEF Affine
  <1> QED
    BY <1>5, <1>6

LEMMA FactorsCommute ==
  ASSUME NEW n \in Int, NEW a \in Int, NEW x \in Int
  PROVE  n * (a * x) = a * (n * x) /\ n * x \in Int
  OBVIOUS

LEMMA SameByMovingAverage ==
  ASSUME NEW n, NEW u, NEW v, NEW a, NEW b, a # 0, Affine(n, u, v, a, b)
  PROVE  SameFindings(MovingAverageDetector(u), MovingAverageDetector(v))
  <1>0. /\ n \in Nat /\ a \in Int /\ b \in Int
        /\ u \in [1..n -> Int] /\ v \in [1..n -> Int]
    BY DEF Affine
  <1> USE <1>0
  <1> DEFINE du == Difference(u)
             dv == Difference(v)
             offU == [i \in 1..n |-> n * du[i]]
             offV == [i \in 1..n |-> n * dv[i]]
             c == [i \in 1..n |-> du[i] < 0]
             d == [i \in 1..n |-> dv[i] < 0]
  <1>1. Len(u) = n /\ Len(v) = n /\ DOMAIN u = 1..n /\ DOMAIN v = 1..n
    OBVIOUS
  <1>2. du \in [1..n -> Int] /\ dv \in [1..n -> Int] /\ Affine(n, du, dv, a, 0)
    BY DifferenceIsAffine
  <1>3. MovingAverageDetector(u) =
          IF n < MinSamples \/ Spread(du) = 0 THEN {}
          ELSE {Finding(i, determineSeverity(n * du[i], du), du[i] < 0) :
                   i \in {j \in 1..n : Exceeds(n * du[j], 2, du)}}
    BY <1>1 DEF MovingAverageDetector, Difference
  <1>4. MovingAverageDetector(v) =
          IF n < MinSamples \/ Spread(dv) = 0 THEN {}
          ELSE {Finding(i, determineSeverity(n * dv[i], dv), dv[i] < 0) :
                   i \in {j \in 1..n : Exceeds(n * dv[j], 2, dv)}}
    BY <1>1 DEF MovingAverageDetector, Difference
  <1> HIDE DEF du, dv
  <1>5. 0 \in Int
    OBVIOUS
  <1>6. InUnits(n, du, dv, a) /\ (Spread(du) = 0 <=> Spread(dv) = 0)
    BY <1>2, <1>5, UnitsOfAffine
  <1>7. \A i \in 1..n : offV[i] \in Int /\ offU[i] = a * offV[i]
    <2>1. ASSUME NEW i \in 1..n
          PROVE  offV[i] \in Int /\ offU[i] = a * offV[i]
      <3> DEFINE x == dv[i]
                 y == du[i]
      <3>1. x \in Int /\ y \in Int /\ y = a * x + 0
        BY <1>2 DEF Affine
      <3>2. offU[i] = n * y /\ offV[i] = n * x
        OBVIOUS
      <3> HIDE DEF x, y, offU, offV
      <3>3. a * x \in Int /\ y = a * x
        BY <3>1
      <3>4. n * (a * x) = a * (n * x) /\ n * x \in Int
        BY <3>1, FactorsCommute
      <3> QED
        BY <3>2, <3>3, <3>4
    <2> HIDE DEF offU, offV
    <2> QED
      BY <2>1
  <1>8. MovingAverageDetector(u) =
          IF n < MinSamples \/ Spread(du) = 0 THEN {} ELSE FindingsBy(n, offU, c, 2, du)
    BY <1>3 DEF FindingsBy
  <1>9. MovingAverageDetector(v) =
          IF n < MinSamples \/ Spread(dv) = 0 THEN {} ELSE FindingsBy(n, offV, d, 2, dv)
    BY <1>4 DEF FindingsBy
  <1> HIDE DEF offU, offV, c, d
  <1>10. \A k \in Int : SameFindings(FindingsBy(n, offU, c, k, du), FindingsBy(n, offV, d, k, dv))
    BY <1>6, <1>7, SameByDistance
  <1> QED
    BY <1>6, <1>8, <1>9, <1>10, NoneAreSame

LEMMA OrderKept ==
  ASSUME NEW a \in Int, NEW b \in Int, NEW x \in Int, NEW y \in Int
  PROVE  /\ a * x + b \in Int
         /\ a > 0 => /\ a * x + b < a * y + b <=> x < y
                     /\ a * x + b <= a * y + b <=> x <= y
         /\ a < 0 => /\ a * x + b < a * y + b <=> y < x
                     /\ a * x + b <= a * y + b <=> y <= x
  <1> DEFINE p == a * x
             q == a * y
  <1>1. p \in Int /\ q \in Int
    OBVIOUS
  <1>2. a > 0 => (p > q <=> x > y) /\ (p >= q <=> x >= y)
    BY Scaled
  <1>3. a < 0 => (p < q <=> x > y) /\ (p <= q <=> x >= y)
    <2>1. -a \in Int /\ (-a) * x = -p /\ (-a) * y = -q
      OBVIOUS
    <2>2. a < 0 => ((-a) * x > (-a) * y <=> x > y) /\ ((-a) * x >= (-a) * y <=> x >= y)
      <3> DEFINE c == -a
      <3>1. c \in Int /\ (a < 0 => c > 0)
        OBVIOUS
      <3> HIDE DEF c
      <3>2. a < 0 => (c * x > c * y <=> x > y) /\ (c * x >= c * y <=> x >= y)
        BY <3>1, Scaled
      <3> QED
        BY <3>2 DEF c
    <2> HIDE DEF p, q
    <2> QED
      BY <1>1, <2>1, <2>2
  <1> HIDE DEF p, q
  <1>4. /\ p + b \in Int
        /\ a > 0 => /\ p + b < q + b <=> x < y
                    /\ p + b <= q + b <=> x <= y
        /\ a < 0 => /\ p + b < q + b <=> y < x
                    /\ p + b <= q + b <=> y <= x
    BY <1>1, <1>2, <1>3
  <1> QED
    BY <1>4 DEF p, q

\* The values in order, in another unit: in the same order or, with a negative factor, reversed.
LEMMA AscendingAffine ==
  ASSUME NEW n, NEW u, NEW v, NEW a, NEW b, Affine(n, u, v, a, b)
  PROVE  /\ a > 0 => \A k \in 1..n : Ascending(u)[k] = a * Ascending(v)[k] + b
         /\ a < 0 => \A k \in 1..n : Ascending(u)[k] = a * Ascending(v)[n + 1 - k] + b
  <1>0. /\ n \in Nat /\ a \in Int /\ b \in Int
        /\ u \in [1..n -> Int] /\ v \in [1..n -> Int]
    BY DEF Affine
  <1> USE <1>0
  <1>1. DOMAIN u = 1..n /\ DOMAIN v = 1..n
    OBVIOUS
  <1>2. \A i \in 1..n : v[i] \in Int /\ u[i] = a * v[i] + b
    BY DEF Affine
  <1>3. /\ Ascending(v) \in [1..n -> Int]
        /\ \A k \in 1..n : AtPlace(v, Ascending(v)[k], k)
    BY AscendingFacts
  <1>4. \A k \in 1..n : Ascending(v)[k] \in Int
    BY <1>3
  <1>5. \A k \in 1..n : \A w \in Int : AtPlace(u, w, k) => Ascending(u)[k] = w
    BY AscendingIs
  <1>6. ASSUME NEW s \in Int, a > 0
        PROVE  Under(u, a * s + b) = Under(v, s) /\ UpTo(u, a * s + b) = UpTo(v, s)
    <2>1. \A i \in 1..n : /\ u[i] < a * s + b <=> v[i] < s
                          /\ u[i] <= a * s + b <=> v[i] <= s
      BY <1>2, <1>6, OrderKept
    <2> QED
      BY <1>1, <2>1 DEF Under, UpTo
  <1>7. ASSUME NEW s \in Int, a < 0
        PROVE  /\ Under(u, a * s + b) = (1..n) \ UpTo(v, s)
               /\ UpTo(u, a * s + b) = (1..n) \ Under(v, s)
    <2>1. \A i \in 1..n : /\ u[i] < a * s + b <=> s < v[i]
                          /\ u[i] <= a * s + b <=> s <= v[i]
      BY <1>2, <1>7, OrderKept
    <2> QED
      BY <1>1, <1>2, <2>1 DEF Under, UpTo
  <1>8. ASSUME NEW k \in 1..n, a > 0
        PROVE  Ascending(u)[k] = a * Ascending(v)[k] + b
    <2> DEFINE s == Ascending(v)[k]
               w == a * s + b
    <2>1. s \in Int /\ AtPlace(v, s, k)
      BY <1>3, <1>4
    <2>2. w \in Int
      BY <2>1
    <2>3. Under(u, w) = Under(v, s) /\ UpTo(u, w) = UpTo(v, s)
      BY <1>6, <1>8, <2>1
    <2> HIDE DEF s, w
    <2>4. AtPlace(u, w, k)
      BY <2>1, <2>3 DEF AtPlace
    <2>5. Ascending(u)[k] = w
      BY <1>5, <2>2, <2>4
    <2> QED
      BY <2>5 DEF w, s
  <1>9. ASSUME NEW k \in 1..n, a < 0
        PROVE  Ascending(u)[k] = a * Ascending(v)[n + 1 - k] + b
    <2> DEFINE l == n + 1 - k
               s == Ascending(v)[l]
               w == a * s + b
    <2>1. l \in 1..n /\ s \in Int /\ AtPlace(v, s, l)
      BY <1>3, <1>4
    <2>2. w \in Int
      BY <2>1
    <2>3. /\ Under(u, w) = (1..n) \ UpTo(v, s)
          /\ UpTo(u, w) = (1..n) \ Under(v, s)
      BY <1>7, <1>9, <2>1
    <2> HIDE DEF s, w
    <2>4. UpTo(v, s) \subseteq 1..n /\ Under(v, s) \subseteq 1..n
      BY <1>1 DEF UpTo, Under
    <2>5. /\ Cardinality(Under(u, w)) = n - Cardinality(UpTo(v, s))
          /\ Cardinality(UpTo(u, w)) = n - Cardinality(Under(v, s))
          /\ Cardinality(UpTo(v, s)) \in Nat /\ Cardinality(Under(v, s)) \in Nat
      BY <2>3, <2>4, Complement
    <2>6. Cardinality(Under(v, s)) < l /\ l <= Cardinality(UpTo(v, s))
      BY <2>1 DEF AtPlace
    <2>7. Cardinality(Under(u, w)) < k /\ k <= Cardinality(UpTo(u, w))
      BY <2>1, <2>5, <2>6
    <2>8. AtPlace(u, w, k)
      BY <2>7 DEF AtPlace
    <2>9. Ascending(u)[k] = w
      BY <1>5, <2>2, <2>8
    <2> QED
      BY <2>9 DEF w, s
  <1> QED
    BY <1>8, <1>9

\* The place of a quartile among n values in order, and how far it is to the next, in quarters.
Place(n, k) == ((n - 1) * k) \div 4 + 1
Fraction(n, k) == ((n - 1) * k) % 4

Between(x, y, fraction) == 4 * x + fraction * (y - x)

LEMMA PlaceOfQuartile ==
  ASSUME NEW n \in Nat, n >= 4, NEW k \in 1..3
  PROVE  /\ Place(n, k) \in 1..(n - 1) /\ Fraction(n, k) \in 0..3
         /\ Fraction(n, k) = 0 => /\ Place(n, 4 - k) = n + 1 - Place(n, k)
                                  /\ Fraction(n, 4 - k) = 0
         /\ Fraction(n, k) # 0 => /\ Place(n, 4 - k) = n - Place(n, k)
                                  /\ Fraction(n, 4 - k) = 4 - Fraction(n, k)
  <1>1. CASE k = 1
    BY <1>1 DEF Place, Fraction
  <1>2. CASE k = 2
    BY <1>2 DEF Place, Fraction
  <1>3. CASE k = 3
    BY <1>3 DEF Place, Fraction
  <1> QED
    BY <1>1, <1>2, <1>3

LEMMA QuartilesOfFew ==
  ASSUME NEW n \in Nat, NEW v, v \in [1..n -> Int], 0 < n, n < 4
  PROVE  /\ calculateQuartiles4(v)[1] = 4 * Ascending(v)[1]
         /\ calculateQuartiles4(v)[2] = 2 * (Ascending(v)[1] + Ascending(v)[n])
         /\ calculateQuartiles4(v)[3] = 4 * Ascending(v)[n]
  <1>1. Ascending(v) \in [1..n -> Int]
    BY AscendingFacts
  <1>2. Len(Ascending(v)) = n
    BY <1>1
  <1> QED
    BY <1>2 DEF calculateQuartiles4

LEMMA QuartilesOfMany ==
  ASSUME NEW n \in Nat, NEW v, v \in [1..n -> Int], n >= 4, NEW k \in 1..3
  PROVE  calculateQuartiles4(v)[k] =
            Between(Ascending(v)[Place(n, k)], Ascending(v)[Place(n, k) + 1], Fraction(n, k))
  <1> DEFINE s == Ascending(v)
             quartile(j) ==
               IF ((n - 1) * j) \div 4 + 1 >= n THEN 4 * s[n]
               ELSE 4 * s[((n - 1) * j) \div 4 + 1]
                      + (((n - 1) * j) % 4)
                          * (s[((n - 1) * j) \div 4 + 2] - s[((n - 1) * j) \div 4 + 1])
  <1>1. s \in [1..n -> Int]
    BY AscendingFacts
  <1>2. Len(s) = n
    BY <1>1
  <1> HIDE DEF s
  <1>3. calculateQuartiles4(v) = <<quartile(1), quartile(2), quartile(3)>>
    BY <1>2 DEF calculateQuartiles4, s
  <1> HIDE DEF quartile
  <1>4. calculateQuartiles4(v)[k] = quartile(k)
    BY <1>3
  <1>5. Place(n, k) \in Int /\ Place(n, k) < n /\ Place(n, k) + 1 = ((n - 1) * k) \div 4 + 2
    <2>1. Place(n, k) \in 1..(n - 1)
      BY PlaceOfQuartile
    <2>2. ((n - 1) * k) \div 4 \in Int
      BY <2>1
    <2> QED
      BY <2>1, <2>2 DEF Place
  <1>6. quartile(k) = Between(s[Place(n, k)], s[Place(n, k) + 1], Fraction(n, k))
    BY <1>5 DEF quartile, Between, Place, Fraction
  <1> QED
    BY <1>4, <1>6 DEF s

\* The quartiles in another unit: with a negative factor, the first is the last.
LEMMA QuartilesAffine ==
  ASSUME NEW n, NEW u, NEW v, NEW a, NEW b, Affine(n, u, v, a, b), 0 < n
  PROVE  \A k \in 1..3 :
            /\ calculateQuartiles4(v)[k] \in Int
            /\ a > 0 => calculateQuartiles4(u)[k] = a * calculateQuartiles4(v)[k] + 4 * b
            /\ a < 0 => calculateQuartiles4(u)[k] = a * calculateQuartiles4(v)[4 - k] + 4 * b
  <1>0. /\ n \in Nat /\ a \in Int /\ b \in Int
        /\ u \in [1..n -> Int] /\ v \in [1..n -> Int]
    BY DEF Affine
  <1> USE <1>0
  <1> SUFFICES ASSUME NEW k \in 1..3
               PROVE  /\ calculateQuartiles4(v)[k] \in Int
                      /\ a > 0 => calculateQuartiles4(u)[k]
                                    = a * calculateQuartiles4(v)[k] + 4 * b
                      /\ a < 0 => calculateQuartiles4(u)[k]
                                    = a * calculateQuartiles4(v)[4 - k] + 4 * b
    OBVIOUS
  <1> DEFINE s == Ascending(v)
             t == Ascending(u)
  <1>1. \A i \in 1..n : s[i] \in Int
    <2>1. s \in [1..n -> Int]
      BY AscendingFacts
    <2> QED
      BY <2>1
  <1>2. /\ a > 0 => \A i \in 1..n : t[i] = a * s[i] + b
        /\ a < 0 => \A i \in 1..n : t[i] = a * s[n + 1 - i] + b
    BY AscendingAffine
  <1>3. \A x \in Int : \A y \in Int : \A f \in 0..4 :
            /\ Between(x, y, f) \in Int
            /\ Between(a * x + b, a * y + b, f) = a * Between(x, y, f) + 4 * b
            /\ Between(y, x, 4 - f) = Between(x, y, f)
    <2> SUFFICES ASSUME NEW x \in Int, NEW y \in Int, NEW f \in 0..4
                 PROVE  /\ Between(x, y, f) \in Int
                        /\ Between(a * x + b, a * y + b, f) = a * Between(x, y, f) + 4 * b
                        /\ Between(y, x, 4 - f) = Between(x, y, f)
      OBVIOUS
    <2> QED
      BY DEF Between
  <1>4. CASE n < 4
    <2> DEFINE x == s[1]
               y == s[n]
    <2>1. x \in Int /\ y \in Int /\ 1 \in 1..n /\ n \in 1..n
      BY <1>1
    <2>2. /\ a > 0 => t[1] = a * x + b /\ t[n] = a * y + b
          /\ a < 0 => t[1] = a * y + b /\ t[n] = a * x + b
      BY <1>2, <2>1
    <2>3. /\ calculateQuartiles4(v)[1] = 4 * x
          /\ calculateQuartiles4(v)[2] = 2 * (x + y)
          /\ calculateQuartiles4(v)[3] = 4 * y
          /\ calculateQuartiles4(u)[1] = 4 * t[1]
          /\ calculateQuartiles4(u)[2] = 2 * (t[1] + t[n])
          /\ calculateQuartiles4(u)[3] = 4 * t[n]
      BY <1>4, QuartilesOfFew
    <2> HIDE DEF x, y, s, t
    <2> DEFINE Q == calculateQuartiles4(v)
               R == calculateQuartiles4(u)
               c == 4 * b
    <2>4. /\ Q[1] = 4 * x /\ Q[2] = 2 * (x + y) /\ Q[3] = 4 * y
          /\ R[1] = 4 * t[1] /\ R[2] = 2 * (t[1] + t[n]) /\ R[3] = 4 * t[n]
      BY <2>3
    <2>5. /\ 4 * (a * x + b) = a * (4 * x) + c
          /\ 4 * (a * y + b) = a * (4 * y) + c
          /\ 2 * ((a * x + b) + (a * y + b)) = a * (2 * (x + y)) + c
          /\ 2 * ((a * y + b) + (a * x + b)) = a * (2 * (x + y)) + c
      BY <2>1
    <2>6. Q[1] \in Int /\ Q[2] \in Int /\ Q[3] \in Int
      BY <2>1, <2>4
    <2> HIDE DEF Q, R, c
    <2>7. ASSUME a > 0
          PROVE  R[1] = a * Q[1] + c /\ R[2] = a * Q[2] + c /\ R[3] = a * Q[3] + c
      <3>1. t[1] = a * x + b /\ t[n] = a * y + b
        BY <2>2, <2>7
      <3> QED
        BY <2>4, <2>5, <3>1, Zenon
    <2>8. ASSUME a < 0
          PROVE  R[1] = a * Q[3] + c /\ R[2] = a * Q[2] + c /\ R[3] = a * Q[1] + c
      <3>1. t[1] = a * y + b /\ t[n] = a * x + b
        BY <2>2, <2>8
      <3> QED
        BY <2>4, <2>5, <3>1, Zenon
    <2>9. (k = 1 /\ 4 - k = 3) \/ (k = 2 /\ 4 - k = 2) \/ (k = 3 /\ 4 - k = 1)
      OBVIOUS
    <2>10. /\ Q[k] \in Int
           /\ a > 0 => R[k] = a * Q[k] + c
           /\ a < 0 => R[k] = a * Q[4 - k] + c
      BY <2>6, <2>7, <2>8, <2>9, Zenon
    <2> QED
      BY <2>10 DEF Q, R, c
  <1>5. CASE n >= 4
    <2> DEFINE p == Place(n, k)
               f == Fraction(n, k)
               r == Place(n, 4 - k)
               g == Fraction(n, 4 - k)
    <2>1. /\ p \in 1..(n - 1) /\ f \in 0..3
          /\ f = 0 => r = n + 1 - p /\ g = 0
          /\ f # 0 => r = n - p /\ g = 4 - f
      BY <1>5, PlaceOfQuartile
    <2>2. 4 - k \in 1..3
      OBVIOUS
    <2>3. /\ calculateQuartiles4(v)[k] = Between(s[p], s[p + 1], f)
          /\ calculateQuartiles4(v)[4 - k] = Between(s[r], s[r + 1], g)
          /\ calculateQuartiles4(u)[k] = Between(t[p], t[p + 1], f)
      BY <1>5, <2>2, QuartilesOfMany
    <2>4. r \in 1..(n - 1)
      BY <1>5, <2>2, PlaceOfQuartile
    <2> HIDE DEF p, f, r, g, s, t
    <2>5. p \in 1..n /\ p + 1 \in 1..n /\ r \in 1..n /\ r + 1 \in 1..n
      BY <1>5, <2>1, <2>4
    <2>6. s[p] \in Int /\ s[p + 1] \in Int /\ s[r] \in Int /\ s[r + 1] \in Int
      BY <1>1, <2>5
    <2>7. Between(s[p], s[p + 1], f) \in Int
      <3>1. f \in 0..4
        BY <2>1
      <3> QED
        BY <1>3, <2>6, <3>1
    <2>8. ASSUME a > 0
          PROVE  Between(t[p], t[p + 1], f) = a * Between(s[p], s[p + 1], f) + 4 * b
      <3>1. t[p] = a * s[p] + b /\ t[p + 1] = a * s[p + 1] + b
        BY <1>2, <2>5, <2>8
      <3>2. f \in 0..4
        BY <2>1
      <3>3. Between(a * s[p] + b, a * s[p + 1] + b, f) = a * Between(s[p], s[p + 1], f) + 4 * b
        BY <1>3, <2>6, <3>2
      <3> QED
        BY <3>1, <3>3
    <2>9. ASSUME a < 0
          PROVE  Between(t[p], t[p + 1], f) = a * Between(s[r], s[r + 1], g) + 4 * b
      <3>1. t[p] = a * s[n + 1 - p] + b /\ t[p + 1] = a * s[n + 1 - (p + 1)] + b
        BY <1>2, <2>5, <2>9
      <3>2. CASE f = 0
        <4>1. t[p] = a * s[r] + b
          BY <2>1, <3>1, <3>2
        <4>2. Between(t[p], t[p + 1], f) = 4 * t[p]
          <5>1. t[p + 1] \in Int /\ t[p] \in Int
            <6>1. n + 1 - p \in 1..n /\ n + 1 - (p + 1) \in 1..n
              BY <2>1, <2>5
            <6>2. s[n + 1 - p] \in Int /\ s[n + 1 - (p + 1)] \in Int
              BY <1>1, <6>1
            <6> QED
              BY <3>1, <6>2
          <5> QED
            BY <3>2, <5>1 DEF Between
        <4>3. Between(s[r], s[r + 1], g) = 4 * s[r]
          BY <2>1, <2>6, <3>2 DEF Between
        <4> QED
          BY <2>6, <4>1, <4>2, <4>3
      <3>3. CASE f # 0
        <4>1. n + 1 - p = r + 1 /\ n + 1 - (p + 1) = r /\ g \in 0..4 /\ f = 4 - g
          BY <2>1, <2>4, <3>3
        <4>2. t[p] = a * s[r + 1] + b /\ t[p + 1] = a * s[r] + b
          BY <3>1, <4>1
        <4> DEFINE x == s[r]
                   y == s[r + 1]
        <4>3. x \in Int /\ y \in Int
          BY <2>6
        <4> HIDE DEF x, y
        <4>4. f \in 0..4
          BY <2>1
        <4>5. /\ Between(a * y + b, a * x + b, f) = a * Between(y, x, f) + 4 * b
              /\ Between(y, x, 4 - g) = Between(x, y, g)
          BY <1>3, <4>1, <4>3, <4>4
        <4> QED
          BY <4>1, <4>2, <4>5 DEF x, y
      <3> QED
        BY <3>2, <3>3
    <2> QED
      BY <2>3, <2>7, <2>8, <2>9
  <1> QED
    BY <1>4, <1>5

\* The larger of two numbers, or nothing.
Excess(p, q) == Max({p, q, 0})

LEMMA ExcessIs ==
  ASSUME NEW p \in Int, NEW q \in Int
  PROVE  /\ Excess(p, q) \in {p, q, 0}
         /\ Excess(p, q) >= p /\ Excess(p, q) >= q /\ Excess(p, q) >= 0
         /\ Excess(p, q) \in Int
  <1>1. PICK m \in {p, q, 0} : m >= p /\ m >= q /\ m >= 0
    OBVIOUS
  <1>2. {p, q, 0} \subseteq Int /\ \A i \in {p, q, 0} : i <= m
    BY <1>1
  <1>3. Max({p, q, 0}) = m
    BY <1>2, MaxIs
  <1> QED
    BY <1>1, <1>3 DEF Excess

\* In either order, in another unit.
ExcessScales(c, p, q) ==
    /\ Excess(p, q) \in Int
    /\ Excess(c * p, c * q) = c * Excess(p, q)
    /\ Excess(c * q, c * p) = c * Excess(p, q)

LEMMA ExcessScaled ==
  ASSUME NEW c, c \in Int, c > 0, NEW p, p \in Int, NEW q, q \in Int
  PROVE  ExcessScales(c, p, q)
  <1> DEFINE m == Excess(p, q)
             x == c * p
             y == c * q
             z == c * m
  <1>1. m \in {p, q, 0} /\ m >= p /\ m >= q /\ m >= 0 /\ m \in Int
    BY ExcessIs
  <1> HIDE DEF m
  <1>2. x \in Int /\ y \in Int /\ z \in Int
    BY <1>1
  <1>3. z \in {x, y, 0}
    <2>1. CASE m = p
      BY <2>1
    <2>2. CASE m = q
      BY <2>2
    <2>3. CASE m = 0
      <3>1. z = 0
        BY <2>3
      <3> QED
        BY <3>1
    <2> QED
      BY <1>1, <2>1, <2>2, <2>3
  <1>4. z >= x /\ z >= y
    BY <1>1, Scaled
  <1>5. z >= 0
    <2>1. 0 \in Int /\ c * 0 = 0
      OBVIOUS
    <2>2. c * m >= c * 0
      BY <1>1, <2>1, Scaled
    <2> QED
      BY <2>1, <2>2
  <1> HIDE DEF x, y, z
  <1>6. {x, y, 0} \subseteq Int /\ \A i \in {x, y, 0} : i <= z
    BY <1>2, <1>4, <1>5
  <1>7. Excess(x, y) = z
    BY <1>3, <1>6, MaxIs DEF Excess
  <1>8. {y, x, 0} = {x, y, 0}
    OBVIOUS
  <1>9. Excess(y, x) = z
    BY <1>7, <1>8 DEF Excess
  <1> QED
    BY <1>1, <1>7, <1>9 DEF x, y, z, m, ExcessScales

LEMMA OutsideTheSame ==
  ASSUME NEW c \in Int, c > 0, NEW d \in Int, NEW r \in Int, NEW k \in Int
  PROVE  /\ 2 * (c * d) >= k * (c * r) <=> 2 * d >= k * r
         /\ 2 * (c * d) > k * (c * r) <=> 2 * d > k * r
  <1> DEFINE x == 2 * d
             y == k * r
  <1>1. x \in Int /\ y \in Int
    OBVIOUS
  <1>2. 2 * (c * d) = c * x /\ k * (c * r) = c * y
    OBVIOUS
  <1> HIDE DEF x, y
  <1>3. (c * x >= c * y <=> x >= y) /\ (c * x > c * y <=> x > y)
    BY <1>1, Scaled
  <1> QED
    BY <1>2, <1>3 DEF x, y

\* What is more than one and a half ranges r outside.
FindingsOutside(n, out, drop, r) ==
    {Finding(i, determineSeverityFromIQR(out[i], r), drop[i]) :
        i \in {j \in 1..n : 2 * out[j] > 3 * r}}

LEMMA SameByRange ==
  ASSUME NEW n, NEW a \in Int, a > 0, NEW r \in Int, NEW outU, NEW outV, NEW c, NEW d,
         \A i \in 1..n : outV[i] \in Int /\ outU[i] = a * outV[i]
  PROVE  SameFindings(FindingsOutside(n, outU, c, a * r), FindingsOutside(n, outV, d, r))
  <1> DEFINE S == {i \in 1..n : 2 * outV[i] > 3 * r}
             severity == [i \in 1..n |-> determineSeverityFromIQR(outV[i], r)]
  <1>1. ASSUME NEW i \in 1..n
        PROVE  /\ 2 * outU[i] > 3 * (a * r) <=> 2 * outV[i] > 3 * r
               /\ determineSeverityFromIQR(outU[i], a * r)
                    = determineSeverityFromIQR(outV[i], r)
    <2> DEFINE x == outV[i]
    <2>1. x \in Int /\ outU[i] = a * x
      OBVIOUS
    <2> HIDE DEF x
    <2>2. ASSUME NEW k \in Int
          PROVE  /\ 2 * (a * x) >= k * (a * r) <=> 2 * x >= k * r
                 /\ 2 * (a * x) > k * (a * r) <=> 2 * x > k * r
      BY <2>1, OutsideTheSame
    <2>3. {k \in {3, 4, 6} : 2 * (a * x) >= k * (a * r)} = {k \in {3, 4, 6} : 2 * x >= k * r}
      BY <2>2
    <2>4. determineSeverityFromIQR(a * x, a * r) = determineSeverityFromIQR(x, r)
      BY <2>3 DEF determineSeverityFromIQR
    <2>5. 2 * (a * x) > 3 * (a * r) <=> 2 * x > 3 * r
      BY <2>2
    <2> QED
      BY <2>1, <2>4, <2>5 DEF x
  <1>2. FindingsOutside(n, outU, c, a * r) = FindingsAt(S, severity, c)
    <2>1. {j \in 1..n : 2 * outU[j] > 3 * (a * r)} = S
      BY <1>1
    <2>2. \A i \in S : determineSeverityFromIQR(outU[i], a * r) = severity[i]
      BY <1>1
    <2> HIDE DEF S, severity
    <2>3. {Finding(i, determineSeverityFromIQR(outU[i], a * r), c[i]) : i \in S}
            = FindingsAt(S, severity, c)
      BY <2>2 DEF FindingsAt
    <2> QED
      BY <2>1, <2>3 DEF FindingsOutside
  <1>3. FindingsOutside(n, outV, d, r) = FindingsAt(S, severity, d)
    <2>1. FindingsOutside(n, outV, d, r)
            = {Finding(i, determineSeverityFromIQR(outV[i], r), d[i]) : i \in S}
      BY DEF FindingsOutside
    <2>2. \A i \in S : determineSeverityFromIQR(outV[i], r) = severity[i]
      OBVIOUS
    <2> HIDE DEF S, severity
    <2>3. {Finding(i, determineSeverityFromIQR(outV[i], r), d[i]) : i \in S}
            = FindingsAt(S, severity, d)
      BY <2>2 DEF FindingsAt
    <2> QED
      BY <2>1, <2>3
  <1> HIDE DEF S, severity
  <1>4. SameFindings(FindingsAt(S, severity, c), FindingsAt(S, severity, d))
    BY FindingsAreSame
  <1> QED
    BY <1>2, <1>3, <1>4

LEMMA OutsideAffine ==
  ASSUME NEW a \in Int, NEW b \in Int, NEW x \in Int, NEW y \in Int
  PROVE  /\ (a * x + b) - (a * y + b) = a * (x - y)
         /\ (a * x + b) - (a * y + b) = (-a) * (y - x)
         /\ x - y \in Int /\ y - x \in Int
  OBVIOUS

LEMMA SameByQuartiles ==
  ASSUME NEW n, NEW u, NEW v, NEW a, NEW b, a # 0, Affine(n, u, v, a, b)
  PROVE  SameFindings(IQRDetector(u), IQRDetector(v))
  <1>0. /\ n \in Nat /\ a \in Int /\ b \in Int
        /\ u \in [1..n -> Int] /\ v \in [1..n -> Int]
    BY DEF Affine
  <1>1. 0 < n => \A k \in 1..3 :
            /\ calculateQuartiles4(v)[k] \in Int
            /\ a > 0 => calculateQuartiles4(u)[k] = a * calculateQuartiles4(v)[k] + 4 * b
            /\ a < 0 => calculateQuartiles4(u)[k] = a * calculateQuartiles4(v)[4 - k] + 4 * b
    BY QuartilesAffine
  <1> USE <1>0
  <1> DEFINE Q == calculateQuartiles4(v)
             R == calculateQuartiles4(u)
             c == IF a > 0 THEN a ELSE -a
             r == Q[3] - Q[1]
             outU == [i \in 1..n |-> BeyondQuartiles(4 * u[i], R[1], R[3])]
             outV == [i \in 1..n |-> BeyondQuartiles(4 * v[i], Q[1], Q[3])]
             dropU == [i \in 1..n |-> 4 * u[i] < R[2]]
             dropV == [i \in 1..n |-> 4 * v[i] < Q[2]]
  <1>2. Len(u) = n /\ Len(v) = n /\ DOMAIN u = 1..n /\ DOMAIN v = 1..n
    OBVIOUS
  <1>3. IQRDetector(u) =
          IF n < MinSamples \/ R[3] - R[1] = 0 THEN {}
          ELSE FindingsOutside(n, outU, dropU, R[3] - R[1])
    <2>1. IQRDetector(u) =
            IF n < MinSamples \/ R[3] - R[1] = 0 THEN {}
            ELSE {Finding(i, determineSeverityFromIQR(BeyondQuartiles(4 * u[i], R[1], R[3]),
                                                      R[3] - R[1]), 4 * u[i] < R[2]) :
                     i \in {j \in 1..n : 2 * BeyondQuartiles(4 * u[j], R[1], R[3])
                                            > 3 * (R[3] - R[1])}}
      BY <1>2 DEF IQRDetector
    <2> HIDE DEF R
    <2> QED
      BY <2>1 DEF FindingsOutside
  <1>4. IQRDetector(v) =
          IF n < MinSamples \/ r = 0 THEN {} ELSE FindingsOutside(n, outV, dropV, r)
    <2>1. IQRDetector(v) =
            IF n < MinSamples \/ r = 0 THEN {}
            ELSE {Finding(i, determineSeverityFromIQR(BeyondQuartiles(4 * v[i], Q[1], Q[3]), r),
                          4 * v[i] < Q[2]) :
                     i \in {j \in 1..n : 2 * BeyondQuartiles(4 * v[j], Q[1], Q[3]) > 3 * r}}
      BY <1>2 DEF IQRDetector
    <2> HIDE DEF Q, r
    <2> QED
      BY <2>1 DEF FindingsOutside
  <1>5. CASE n = 0
    BY <1>3, <1>4, <1>5, NoneAreSame, AnomalyAssumption
  <1>6. CASE n > 0
    <2>1. c \in Int /\ c > 0
      OBVIOUS
    <2>2. /\ Q[1] \in Int /\ Q[3] \in Int
          /\ a > 0 => R[1] = a * Q[1] + 4 * b /\ R[3] = a * Q[3] + 4 * b
          /\ a < 0 => R[1] = a * Q[3] + 4 * b /\ R[3] = a * Q[1] + 4 * b
      <3>1. \A k \in 1..3 :
              /\ Q[k] \in Int
              /\ a > 0 => R[k] = a * Q[k] + 4 * b
              /\ a < 0 => R[k] = a * Q[4 - k] + 4 * b
        BY <1>6, <1>1
      <3>2. 1 \in 1..3 /\ 3 \in 1..3 /\ 4 - 1 = 3 /\ 4 - 3 = 1
        OBVIOUS
      <3> HIDE DEF Q, R
      <3>3. /\ Q[1] \in Int /\ a > 0 => R[1] = a * Q[1] + 4 * b
            /\ a < 0 => R[1] = a * Q[4 - 1] + 4 * b
        BY <3>1, <3>2
      <3>4. /\ Q[3] \in Int /\ a > 0 => R[3] = a * Q[3] + 4 * b
            /\ a < 0 => R[3] = a * Q[4 - 3] + 4 * b
        BY <3>1, <3>2
      <3> QED
        BY <3>1, <3>2, <3>3, <3>4
    <2> DEFINE e == 4 * b
    <2>3. e \in Int
      OBVIOUS
    <2> HIDE DEF Q, R
    <2>4. R[3] - R[1] = c * r /\ r \in Int
      <3>1. CASE a > 0
        BY <2>2, <3>1, OutsideAffine
      <3>2. CASE a < 0
        <4> DEFINE x == Q[3]
                   y == Q[1]
        <4>1. /\ c = -a /\ x \in Int /\ y \in Int
              /\ R[1] = a * x + e /\ R[3] = a * y + e /\ r = x - y
          BY <2>2, <3>2
        <4> HIDE DEF x, y, c, r, e
        <4>2. (a * y + e) - (a * x + e) = (-a) * (x - y) /\ x - y \in Int
          BY <2>3, <4>1, OutsideAffine
        <4> QED
          BY <4>1, <4>2
      <3> QED
        BY <3>1, <3>2
    <2>5. ASSUME NEW i \in 1..n
          PROVE  outV[i] \in Int /\ outU[i] = c * outV[i]
      <3> DEFINE x == 4 * v[i]
                 y == 4 * u[i]
                 p == Q[1] - x
                 q == x - Q[3]
      <3>1. x \in Int /\ y = a * x + e
        BY DEF Affine
      <3>2. outV[i] = Excess(p, q) /\ outU[i] = Excess(R[1] - y, y - R[3])
        BY DEF BeyondQuartiles, Excess
      <3> HIDE DEF x, y
      <3>3. p \in Int /\ q \in Int
        BY <2>2, <3>1
      <3>4. CASE a > 0
        <4>1. R[1] - y = c * p /\ y - R[3] = c * q
          BY <2>2, <2>3, <3>1, <3>4, OutsideAffine
        <4> HIDE DEF p, q, c, outU, outV
        <4>2. ExcessScales(c, p, q)
          BY <2>1, <3>3, ExcessScaled
        <4> QED
          BY <3>2, <4>1, <4>2 DEF ExcessScales
      <3>5. CASE a < 0
        <4> DEFINE s == Q[3]
                   t == Q[1]
        <4>1. /\ c = -a /\ s \in Int /\ t \in Int /\ p = t - x /\ q = x - s
              /\ R[1] = a * s + e /\ R[3] = a * t + e
          BY <2>2, <3>5
        <4> HIDE DEF p, q, c, outU, outV, s, t, e
        <4>2. /\ (a * s + e) - (a * x + e) = (-a) * (x - s)
              /\ (a * x + e) - (a * t + e) = (-a) * (t - x)
          BY <2>3, <3>1, <4>1, OutsideAffine
        <4>3. R[1] - y = c * q /\ y - R[3] = c * p
          BY <3>1, <4>1, <4>2
        <4>4. ExcessScales(c, p, q)
          BY <2>1, <3>3, ExcessScaled
        <4> QED
          BY <3>2, <4>3, <4>4 DEF ExcessScales
      <3> QED
        BY <3>4, <3>5
    <2> HIDE DEF c, r, outU, outV, dropU, dropV
    <2>6. SameFindings(FindingsOutside(n, outU, dropU, c * r), FindingsOutside(n, outV, dropV, r))
      BY <2>1, <2>4, <2>5, SameByRange
    <2>7. c * r = 0 <=> r = 0
      BY <2>1, <2>4, Scaled
    <2> QED
      BY <1>3, <1>4, <2>4, <2>6, <2>7, NoneAreSame
  <1> QED
    BY <1>5, <1>6

LEMMA SameVotes ==
  ASSUME NEW R, NEW S, DOMAIN R = 1..3, DOMAIN S = 1..3,
         \A d \in 1..3 : SameFindings(R[d], S[d]),
         NEW index
  PROVE  /\ Voters(R, index) = Voters(S, index)
         /\ HighestSeverity({f \in UNION Range(R) : f.index = index})
              = HighestSeverity({f \in UNION Range(S) : f.index = index})
  <1>1. Voters(R, index) = Voters(S, index)
    <2>1. \A d \in 1..3 : (\E f \in R[d] : f.index = index) <=> (\E f \in S[d] : f.index = index)
      BY DEF SameFindings
    <2> QED
      BY <2>1 DEF Voters
  <1> DEFINE votesR == {f \in UNION Range(R) : f.index = index}
             votesS == {f \in UNION Range(S) : f.index = index}
             ranksR == {severityRank(f.severity) : f \in votesR}
             ranksS == {severityRank(f.severity) : f \in votesS}
  <1>2. ASSUME NEW f \in votesR
        PROVE  \E g \in votesS : g.severity = f.severity
    <2>1. PICK d \in 1..3 : f \in R[d]
      BY DEF Range
    <2>2. PICK g \in S[d] : g.index = f.index /\ g.severity = f.severity
      BY <2>1 DEF SameFindings
    <2>3. g \in votesS
      BY <2>2 DEF Range
    <2> QED
      BY <2>2, <2>3
  <1>3. ASSUME NEW g \in votesS
        PROVE  \E f \in votesR : f.severity = g.severity
    <2>1. PICK d \in 1..3 : g \in S[d]
      BY DEF Range
    <2>2. PICK f \in R[d] : f.index = g.index /\ f.severity = g.severity
      BY <2>1 DEF SameFindings
    <2>3. f \in votesR
      BY <2>2 DEF Range
    <2> QED
      BY <2>2, <2>3
  <1> HIDE DEF votesR, votesS
  <1>4. ranksR = ranksS
    BY <1>2, <1>3
  <1>5. HighestSeverity(votesR) = HighestSeverity(votesS)
    BY <1>4 DEF HighestSeverity
  <1> QED
    BY <1>1, <1>5 DEF votesR, votesS

LEMMA SameByConsensus ==
  ASSUME NEW n, NEW u, NEW v, NEW a, NEW b, a # 0, Affine(n, u, v, a, b)
  PROVE  SameFindings(ConsensusDetector(u), ConsensusDetector(v))
  <1>0. /\ n \in Nat /\ a \in Int /\ b \in Int
        /\ u \in [1..n -> Int] /\ v \in [1..n -> Int]
    BY DEF Affine
  <1>1. DOMAIN u = 1..n /\ DOMAIN v = 1..n
    BY <1>0
  <1>2. /\ SameFindings(ZScoreDetector(u), ZScoreDetector(v))
        /\ SameFindings(IQRDetector(u), IQRDetector(v))
        /\ SameFindings(MovingAverageDetector(u), MovingAverageDetector(v))
    BY SameByZScore, SameByQuartiles, SameByMovingAverage
  <1> DEFINE R == Detectors(u)
             S == Detectors(v)
             votesU(i) == {f \in UNION Range(R) : f.index = i}
             votesV(i) == {f \in UNION Range(S) : f.index = i}
             dropU(i) == (CHOOSE f \in R[Min(Voters(R, i))] : f.index = i).drop
             dropV(i) == (CHOOSE f \in S[Min(Voters(S, i))] : f.index = i).drop
             agreed == {j \in 1..n : Cardinality(Voters(S, j)) >= ConsensusThreshold}
             severity == [i \in agreed |-> HighestSeverity(votesV(i))]
             c == [i \in agreed |-> dropU(i)]
             d == [i \in agreed |-> dropV(i)]
  <1>3. /\ DOMAIN R = 1..3 /\ DOMAIN S = 1..3
        /\ \A k \in 1..3 : SameFindings(R[k], S[k])
    BY <1>2 DEF Detectors
  <1>4. ConsensusDetector(u)
          = {Finding(i, HighestSeverity(votesU(i)), dropU(i)) :
                i \in {j \in 1..n : Cardinality(Voters(R, j)) >= ConsensusThreshold}}
    BY <1>1 DEF ConsensusDetector
  <1>5. ConsensusDetector(v)
          = {Finding(i, HighestSeverity(votesV(i)), dropV(i)) : i \in agreed}
    BY <1>1 DEF ConsensusDetector
  <1> HIDE DEF R, S
  <1>6. \A i : Voters(R, i) = Voters(S, i) /\ HighestSeverity(votesU(i)) = HighestSeverity(votesV(i))
    BY <1>3, SameVotes
  <1> HIDE DEF votesU, votesV, dropU, dropV
  <1>7. {j \in 1..n : Cardinality(Voters(R, j)) >= ConsensusThreshold} = agreed
    BY <1>6
  <1> HIDE DEF agreed
  <1>8. ConsensusDetector(u) = FindingsAt(agreed, severity, c)
    <2>1. ConsensusDetector(u)
            = {Finding(i, HighestSeverity(votesU(i)), dropU(i)) : i \in agreed}
      BY <1>4, <1>7
    <2>2. \A i \in agreed : HighestSeverity(votesU(i)) = severity[i] /\ dropU(i) = c[i]
      BY <1>6
    <2> HIDE DEF severity, c
    <2> QED
      BY <2>1, <2>2 DEF FindingsAt
  <1>9. ConsensusDetector(v) = FindingsAt(agreed, severity, d)
    <2>1. \A i \in agreed : HighestSeverity(votesV(i)) = severity[i] /\ dropV(i) = d[i]
      OBVIOUS
    <2> HIDE DEF severity, d
    <2> QED
      BY <1>5, <2>1 DEF FindingsAt
  <1> HIDE DEF severity, c, d
  <1>10. SameFindings(FindingsAt(agreed, severity, c), FindingsAt(agreed, severity, d))
    BY FindingsAreSame
  <1> QED
    BY <1>8, <1>9, <1>10

\* Scaled for the same findings.
SameVerdict(first, second) ==
    /\ first.block = second.block
    /\ {f.index : f \in first.cpu} = {f.index : f \in second.cpu}

LEMMA MetricsOfOne ==
  ASSUME NEW n \in Nat, NEW u, u \in [1..n -> Int]
  PROVE  /\ Len(Metrics1(u)) = n
         /\ extractMetricValues(Metrics1(u), "cpu") = u
         /\ extractMetricValues(Metrics1(u), "memory") = [i \in 1..n |-> 1]
  <1> DEFINE pod(i) == <<[cpu |-> u[i], memory |-> 1]>>
  <1>1. Metrics1(u) = [i \in 1..n |-> pod(i)]
    BY DEF Metrics1
  <1>2. Len(Metrics1(u)) = n /\ DOMAIN Metrics1(u) = 1..n
    <2> HIDE DEF pod
    <2> QED
      BY <1>1
  <1>3. ASSUME NEW x \in Int
        PROVE  Sum([c \in 1..1 |-> x]) = x
    <2>1. Sum([c \in 1..1 |-> x]) = x * 1
      BY SumOfEqual
    <2> QED
      BY <2>1
  <1>4. ASSUME NEW i \in 1..n
        PROVE  /\ Sum([c \in DOMAIN Metrics1(u)[i] |-> Metrics1(u)[i][c]["cpu"]]) = u[i]
               /\ Sum([c \in DOMAIN Metrics1(u)[i] |-> Metrics1(u)[i][c]["memory"]]) = 1
    <2>1. Metrics1(u)[i] = pod(i)
      BY <1>1
    <2>2. DOMAIN pod(i) = 1..1
      OBVIOUS
    <2>3. \A c \in 1..1 : pod(i)[c]["cpu"] = u[i] /\ pod(i)[c]["memory"] = 1
      OBVIOUS
    <2> HIDE DEF pod
    <2>4. /\ [c \in DOMAIN pod(i) |-> pod(i)[c]["cpu"]] = [c \in 1..1 |-> u[i]]
          /\ [c \in DOMAIN pod(i) |-> pod(i)[c]["memory"]] = [c \in 1..1 |-> 1]
      BY <2>2, <2>3
    <2>5. u[i] \in Int /\ 1 \in Int
      OBVIOUS
    <2>6. Sum([c \in 1..1 |-> u[i]]) = u[i] /\ Sum([c \in 1..1 |-> 1]) = 1
      BY <1>3, <2>5
    <2> QED
      BY <2>1, <2>4, <2>6
  <1>5. extractMetricValues(Metrics1(u), "cpu") = [i \in 1..n |-> u[i]]
    BY <1>2, <1>4 DEF extractMetricValues
  <1>6. extractMetricValues(Metrics1(u), "memory") = [i \in 1..n |-> 1]
    BY <1>2, <1>4 DEF extractMetricValues
  <1> QED
    BY <1>2, <1>5, <1>6

LEMMA VerdictIsSame ==
  ASSUME NEW n, NEW u, NEW v, NEW a, NEW b, a # 0, Affine(n, u, v, a, b)
  PROVE  SameVerdict(CheckWorkload(Metrics1(u)), CheckWorkload(Metrics1(v)))
  <1>1. n \in Nat /\ u \in [1..n -> Int] /\ v \in [1..n -> Int]
    BY DEF Affine
  <1> DEFINE memory == ConsensusDetector([i \in 1..n |-> 1])
             cpuU == ConsensusDetector(u)
             cpuV == ConsensusDetector(v)
  <1>2. /\ CheckWorkload(Metrics1(u))
             = IF n < MinSamples THEN Verdict({}, {}) ELSE Verdict(cpuU, memory)
        /\ CheckWorkload(Metrics1(v))
             = IF n < MinSamples THEN Verdict({}, {}) ELSE Verdict(cpuV, memory)
    BY <1>1, MetricsOfOne DEF CheckWorkload
  <1>3. SameFindings(cpuU, cpuV)
    BY SameByConsensus
  <1> HIDE DEF memory, cpuU, cpuV
  <1>4. {f.index : f \in cpuU} = {f.index : f \in cpuV}
    BY <1>3 DEF SameFindings
  <1>5. (\E f \in cpuU \cup memory : IsHigh(f)) <=> (\E f \in cpuV \cup memory : IsHigh(f))
    BY <1>3 DEF SameFindings, IsHigh
  <1>6. SameVerdict(Verdict(cpuU, memory), Verdict(cpuV, memory))
    BY <1>4, <1>5 DEF SameVerdict, Verdict
  <1>7. SameVerdict(Verdict({}, {}), Verdict({}, {}))
    BY DEF SameVerdict
  <1> QED
    BY <1>2, <1>6, <1>7

LEMMA UnitsAnswered ==
  ASSUME LookForAnomalies
  PROVE  UnitsDoNotMatter'
  <1>1. PICK values \in Series :
           /\ question' = [about |-> "anomaly", subject |-> values]
           /\ answer' = [about |-> "anomaly", verdict |-> CheckWorkload(Metrics1(values))]
    BY DEF LookForAnomalies, Answered
  <1> DEFINE n == Len(values)
             highest == Max(Range(values))
             doubled == [i \in DOMAIN values |-> 2 * values[i] + 3]
             turned == [i \in DOMAIN values |-> highest - values[i]]
             units == {values, doubled, turned}
  <1>2. n \in Nat /\ values \in [1..n -> Int] /\ DOMAIN values = 1..n
    <2>1. values \in Seq(Int)
      BY AssessmentAssumption
    <2> QED
      BY <2>1
  <1> HIDE DEF n
  <1>3. Affine(n, values, values, 1, 0)
    BY <1>2 DEF Affine
  <1>4. Affine(n, doubled, values, 2, 3)
    BY <1>2 DEF Affine
  <1>5. \E a : \E b : a # 0 /\ Affine(n, turned, values, a, b)
    <2>1. CASE n = 0
      <3>1. Affine(n, turned, values, 1, 0)
        BY <1>2, <2>1 DEF Affine
      <3>2. 1 # 0
        OBVIOUS
      <3> QED
        BY <3>1, <3>2, Zenon
    <2>2. CASE n > 0
      <3>1. highest \in Int
        <4>1. PICK k \in 1..n : \A j \in 1..n : values[j] <= values[k]
          <5>1. 1..n # {} /\ (\A i \in 1..n : i \in Nat /\ 1 <= i /\ i <= n)
                /\ \A i \in 1..n : values[i] \in Int
            BY <1>2, <2>2
          <5> QED
            BY <1>2, <5>1, GreatestOf
        <4>2. /\ Range(values) \subseteq Int /\ values[k] \in Range(values)
              /\ \A x \in Range(values) : x <= values[k]
          BY <1>2, <4>1 DEF Range
        <4>3. highest = values[k]
          BY <4>2, MaxIs
        <4> QED
          BY <1>2, <4>3
      <3> HIDE DEF highest
      <3>2. Affine(n, turned, values, -1, highest)
        BY <1>2, <3>1 DEF Affine
      <3>3. -1 # 0
        OBVIOUS
      <3> QED
        BY <3>2, <3>3, Zenon
    <2>3. n = 0 \/ n > 0
      BY <1>2
    <2> QED
      BY <2>1, <2>2, <2>3, Zenon
  <1> HIDE DEF highest, doubled, turned
  <1>6. ASSUME NEW u \in units
        PROVE  SameVerdict(CheckWorkload(Metrics1(u)), CheckWorkload(Metrics1(values)))
    <2>1. \E a : \E b : a # 0 /\ Affine(n, u, values, a, b)
      BY <1>3, <1>4, <1>5
    <2> QED
      BY <2>1, VerdictIsSame
  <1>7. answer'.verdict = CheckWorkload(Metrics1(values)) /\ question'.subject = values
    BY <1>1
  <1>8. \A v \in {CheckWorkload(metrics) : metrics \in {Metrics1(u) : u \in units}} :
           /\ v.block = answer'.verdict.block
           /\ {f.index : f \in v.cpu} = {f.index : f \in answer'.verdict.cpu}
    <2> HIDE DEF units
    <2> QED
      BY <1>6, <1>7 DEF SameVerdict
  <1> QED
    BY <1>7, <1>8 DEF UnitsDoNotMatter, units, highest, doubled, turned

-----------------------------------------------------------------------------
Assessed ==
    /\ BudgetIsAllowed /\ PolicyDecides /\ ChoicesAreBest /\ KillsRemembered
    /\ BreachesAreBacked /\ OutliersAreFew /\ UnitsDoNotMatter

LEMMA NothingIsAssessed ==
  ASSUME question = Nothing
  PROVE  Assessed
  BY DEF Nothing, Assessed, Asked, BudgetIsAllowed, PolicyDecides, ChoicesAreBest,
         KillsRemembered, BreachesAreBacked, OutliersAreFew, UnitsDoNotMatter

LEMMA BudgetAnswered ==
  ASSUME CheckDisruption
  PROVE  BudgetIsAllowed'
  <1>1. PICK d \in Disruptions :
          /\ question' = [about |-> "disruption", subject |-> d]
          /\ answer'.verdict.budget = CalculateSafeDisruptionBudget(d.pdbs, d.workload)
    BY DEF CheckDisruption, Answered
  <1>2. WithinBudget(d.pdbs, d.workload)
    BY AssessmentAssumption, BudgetsAgree
  <1>3. question'.subject = d
    BY <1>1
  <1>4. d.workload.replicas \in Nat /\ d.workload.available \in Nat
    BY AssessmentAssumption
  <1>5. \A planned \in 0..(d.workload.replicas + d.workload.available) : planned \in Int
    BY <1>4
  <1> QED
    BY <1>1, <1>2, <1>3, <1>5, Zenon DEF BudgetIsAllowed, WithinBudget

LEMMA PolicyAnswered ==
  ASSUME DecideByPolicy
  PROVE  PolicyDecides'
  <1>1. PICK c \in PolicyCases :
          \E engine \in LoadPolicies([policies |-> <<>>, default |-> "allow"],
                                     c.policies, c.default) :
              Answered("policy", c, Evaluate(engine, c.context))
    BY DEF DecideByPolicy
  <1>2. PICK engine \in LoadPolicies([policies |-> <<>>, default |-> "allow"],
                                     c.policies, c.default) :
              Answered("policy", c, Evaluate(engine, c.context))
    BY <1>1
  <1>3. question'.subject = c /\ answer'.verdict = Evaluate(engine, c.context)
    BY <1>2 DEF Answered
  <1>4. DecidedBy(c, answer'.verdict)
    BY <1>2, <1>3, AssessmentAssumption, TopPolicyDecides
  <1> QED
    BY <1>3, <1>4 DEF PolicyDecides

LEMMA ChoiceAnswered ==
  ASSUME ChooseSolution
  PROVE  ChoicesAreBest'
  <1>1. PICK w \in Workloads : Answered("solution", w, GenerateRecommendation(w))
    BY DEF ChooseSolution
  <1>2. answer'.verdict.result = Optimize(GenerateSolutionSet(w))
    BY <1>1 DEF Answered, GenerateRecommendation
  <1>3. BestOf(Optimize(GenerateSolutionSet(w)))
    BY AssessmentAssumption, CandidatesAreMeasured, OptimumIsBest
  <1> QED
    BY <1>2, <1>3 DEF ChoicesAreBest

LEMMA KillsAnswered ==
  ASSUME ScanForOOMs
  PROVE  KillsRemembered'
  <1>1. PICK h \in KillHistories :
          /\ question' = [about |-> "kills", subject |-> h]
          /\ answer'.verdict.history = ClearOOMHistory(Scanned(h.scans), h.cutoff)
    BY DEF ScanForOOMs, Answered
  <1>2. question'.subject = h
    BY <1>1
  <1>3. KillsIn(h, answer'.verdict.history)
    BY <1>1, ClearedRemembers
  <1> QED
    BY <1>2, <1>3 DEF KillsRemembered

LEMMA NextIsAssessed == Assessed /\ [Next]_vars => Assessed'
  <1> SUFFICES ASSUME Assessed, [Next]_vars
               PROVE  Assessed'
    OBVIOUS
  <1>1. ASSUME NEW about, NEW subject, NEW verdict, Answered(about, subject, verdict)
        PROVE  /\ about # "disruption" => BudgetIsAllowed'
               /\ about # "policy" => PolicyDecides'
               /\ about # "solution" => ChoicesAreBest'
               /\ about # "kills" => KillsRemembered'
               /\ about # "health" => BreachesAreBacked' /\ OutliersAreFew'
               /\ about # "anomaly" => UnitsDoNotMatter'
    <2>1. question'.about = about
      BY <1>1 DEF Answered
    <2> QED
      BY <2>1 DEF Asked, BudgetIsAllowed, PolicyDecides, ChoicesAreBest, KillsRemembered,
                  BreachesAreBacked, OutliersAreFew, UnitsDoNotMatter
  <1>2. CASE ScanForOOMs
    BY <1>1, <1>2, KillsAnswered DEF ScanForOOMs, Assessed
  <1>3. CASE DecideByPolicy
    BY <1>1, <1>3, PolicyAnswered DEF DecideByPolicy, Assessed
  <1>4. CASE ChooseSolution
    BY <1>1, <1>4, ChoiceAnswered DEF ChooseSolution, Assessed
  <1>5. CASE CheckSystemHealth
    <2>1. BreachesAreBacked' /\ OutliersAreFew'
      BY <1>5, BreachAnswered, OutliersAnswered
    <2>2. Assessed' <=> BreachesAreBacked' /\ OutliersAreFew'
      BY <1>1, <1>5 DEF CheckSystemHealth, Assessed
    <2> QED
      BY <2>1, <2>2
  <1>6. CASE LookForAnomalies
    BY <1>1, <1>6, UnitsAnswered DEF LookForAnomalies, Assessed
  <1>7. CASE CheckDisruption
    BY <1>1, <1>7, BudgetAnswered DEF CheckDisruption, Assessed
  <1>8. CASE Dismiss
    <2>1. question' = Nothing
      BY <1>8 DEF Dismiss
    <2> QED
      BY <2>1 DEF Nothing, Assessed, Asked, BudgetIsAllowed, PolicyDecides,
                  ChoicesAreBest, KillsRemembered, BreachesAreBacked, OutliersAreFew, UnitsDoNotMatter
  <1>9. CASE UNCHANGED vars
    BY <1>9 DEF vars, Assessed, Asked, BudgetIsAllowed, PolicyDecides, ChoicesAreBest,
                KillsRemembered, BreachesAreBacked, OutliersAreFew, UnitsDoNotMatter
  <1> QED
    BY <1>2, <1>3, <1>4, <1>5, <1>6, <1>7, <1>8, <1>9 DEF Next

(* For any budgets, percentages and numbers of pods: no disruption within   *)
(* the calculated budget fails the check that guards an update; and where   *)
(* the minimum or maximum that applies comes to more than zero, the check   *)
(* passes exactly the disruptions within the budget (pdb_checker.go:38-     *)
(* 200).                                                                    *)
THEOREM BudgetIsSafe == Spec => []BudgetIsAllowed
  <1>1. Init => Assessed
    BY NothingIsAssessed DEF Init
  <1>2. Assessed => BudgetIsAllowed
    BY DEF Assessed
  <1> QED
    BY <1>1, <1>2, NextIsAssessed, PTL DEF Spec

(* For any finite set of policies, integer priorities and context, and any  *)
(* order the sort may leave: a matching policy of the highest priority      *)
(* decides, the default only without one, and a file with an invalid policy *)
(* changes nothing (engine.go:49-165).                                      *)
THEOREM PolicyIsDecisive == Spec => []PolicyDecides
  <1>1. Init => Assessed
    BY NothingIsAssessed DEF Init
  <1>2. Assessed => PolicyDecides
    BY DEF Assessed
  <1> QED
    BY <1>1, <1>2, NextIsAssessed, PTL DEF Spec

(* For any usage of a workload: the choices made on the Pareto frontier are *)
(* the best of all candidates, in the one objective of a profile and in the *)
(* weighted score (optimizer.go:66-103, 407-461).                           *)
THEOREM ChoiceIsBest == Spec => []ChoicesAreBest
  <1>1. Init => Assessed
    BY NothingIsAssessed DEF Init
  <1>2. Assessed => ChoicesAreBest
    BY DEF Assessed
  <1> QED
    BY <1>1, <1>2, NextIsAssessed, PTL DEF Spec

(* For any number of scans of any pods, in any order of listing: the latest *)
(* kill and the highest count of every container remain until the latest    *)
(* kill of all is older than the cutoff (oom_detector.go).                  *)
THEOREM KillsAreRemembered == Spec => []KillsRemembered
  <1>1. Init => Assessed
    BY NothingIsAssessed DEF Init
  <1>2. Assessed => KillsRemembered
    BY DEF Assessed
  <1> QED
    BY <1>1, <1>2, NextIsAssessed, PTL DEF Spec

(* For any objective and readings, of any values and times: a violation is  *)
(* found only if some reading inside the window misses the objective, and   *)
(* always if all of them do, by percentile, average, share or one by one    *)
(* (monitor.go:97-287, 397-427).                                            *)
THEOREM BreachesAreReal == Spec => []BreachesAreBacked
  <1>1. Init => Assessed
    BY NothingIsAssessed DEF Init
  <1>2. Assessed => BreachesAreBacked
    BY DEF Assessed
  <1> QED
    BY <1>1, <1>2, NextIsAssessed, PTL DEF Spec

(* For any readings: fewer than five ninths of them are outliers, fewer     *)
(* than half by the median and, by Chebyshev's inequality, fewer than a     *)
(* ninth of the rest by the corrected limits (control_chart.go:139-238).    *)
THEOREM OutliersAreRare == Spec => []OutliersAreFew
  <1>1. Init => Assessed
    BY NothingIsAssessed DEF Init
  <1>2. Assessed => OutliersAreFew
    BY DEF Assessed
  <1> QED
    BY <1>1, <1>2, NextIsAssessed, PTL DEF Spec

(* For any readings: in another unit, more by a constant or turned upside   *)
(* down, the same ones are anomalies and scaling is blocked alike, by the   *)
(* three detectors, their consensus and the check of the workload           *)
(* (consensus.go:60-167, workload_checker.go:79-132, 168-230).              *)
THEOREM UnitsAreIndifferent == Spec => []UnitsDoNotMatter
  <1>1. Init => Assessed
    BY NothingIsAssessed DEF Init
  <1>2. Assessed => UnitsDoNotMatter
    BY DEF Assessed
  <1> QED
    BY <1>1, <1>2, NextIsAssessed, PTL DEF Spec

=============================================================================
