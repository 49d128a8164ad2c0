------------------------- MODULE Optimization_proofs -------------------------
(***************************************************************************)
(* What the resolver makes of every spec that is admitted; that what a     *)
(* pass writes are amounts within the thresholds as they are read, and no  *)
(* further from what was in force than the settings allow; and that no     *)
(* change is made without the approval the production profile asks for.    *)
(* Nothing is assumed of the radices but that those of the binary units    *)
(* are the greater.                                                        *)
(***************************************************************************)
EXTENDS Optimization, FiniteSetTheorems, WellFoundedInduction, TLAPS

Fields ==
    {"strategy", "cpuPercentile", "memoryPercentile", "safetyMargin", "minSamples",
     "historyDuration", "minConfidence", "applyDelay", "maxChangePercent", "requireApproval",
     "rollbackOnError", "circuitBreakerEnabled", "circuitBreakerThreshold", "dryRun",
     "minCPU", "maxCPU", "minMemory", "maxMemory"}

ValidSettings(s) == DOMAIN s = Fields /\ Validate(s) /\ s.maxChangePercent \in Int

\* What every layer above the overrides leaves alone.
Untouched == {"strategy", "minConfidence", "maxChangePercent", "requireApproval"}

-----------------------------------------------------------------------------

(* The built-in profiles, and the settings for a spec without one, pass    *)
(* the validation of profile settings (profile.go:145-271, 344-375,        *)
(* resolver.go:134-167).                                                   *)
LEMMA DefaultsAreValid ==
  ASSUME NEW p \in {"production", "staging", "development", "test"}
  PROVE  ValidSettings(DefaultProfiles[p])
  <1>1. ValidSettings(ProductionProfile)
    BY SMTT(30) DEF ProductionProfile, Settings, Validate, ValidSettings, Fields
  <1>2. ValidSettings(StagingProfile)
    BY SMTT(30) DEF StagingProfile, Settings, Validate, ValidSettings, Fields
  <1>3. ValidSettings(DevelopmentProfile)
    BY SMTT(30) DEF DevelopmentProfile, Settings, Validate, ValidSettings, Fields
  <1>4. ValidSettings(TestProfile)
    BY SMTT(30) DEF TestProfile, Settings, Validate, ValidSettings, Fields
  <1> QED
    BY <1>1, <1>2, <1>3, <1>4 DEF DefaultProfiles

LEMMA OwnSettings ==
  ASSUME NEW s
  PROVE  LET own == SettingsWithoutProfile(s) IN
         /\ DOMAIN own = Fields
         /\ own.cpuPercentile = 95 /\ own.memoryPercentile = 95 /\ own.safetyMargin = 120
         /\ own.minSamples = 100 /\ own.minConfidence = 50 /\ own.maxChangePercent = 0
  BY SMT DEF SettingsWithoutProfile, Settings, Fields

LEMMA OwnStrategy ==
  ASSUME NEW s
  PROVE  SettingsWithoutProfile(s).strategy
           = IF s.strategy = "" THEN "balanced" ELSE s.strategy
  BY SMT DEF SettingsWithoutProfile, Settings

LEMMA OwnSettingsAreValid ==
  ASSUME NEW s, InSchema(s)
  PROVE  ValidSettings(SettingsWithoutProfile(s))
  <1> DEFINE own == SettingsWithoutProfile(s)
  <1>1. own.strategy \in {"aggressive", "balanced", "conservative"}
    BY OwnStrategy DEF InSchema
  <1>2. Validate(own)
    BY <1>1, OwnSettings DEF Validate
  <1>3. DOMAIN own = Fields
    BY OwnSettings
  <1>4. own.maxChangePercent \in Int
    BY OwnSettings
  <1> QED
    BY <1>2, <1>3, <1>4 DEF ValidSettings

(* Overrides that are admitted keep settings valid: a threshold or a limit *)
(* they do not give stays as it was (resolver.go:170-188).                 *)
LEMMA OverridesKeepValid ==
  ASSUME NEW base, ValidSettings(base), NEW s, InSchema(s), ValidateCreate(s)
  PROVE  ValidSettings(applyOverrides(base, s.overrides))
  <1> DEFINE top == s.overrides
             r == applyOverrides(base, top)
  <1>1. CASE top = None
    BY <1>1 DEF applyOverrides, Layered
  <1>2. CASE top # None
    <2>1. r = [f \in Fields |-> IF f \in DOMAIN top THEN IF top[f] = None THEN base[f] ELSE top[f]
                               ELSE base[f]]
      BY <1>2 DEF applyOverrides, Layered, ValidSettings
    <2>2. DOMAIN top = {"minConfidence", "maxChangePercent", "requireApproval", "applyDelay",
                        "dryRun"}
      BY <1>2 DEF InSchema, Maybe
    <2>3. /\ top.minConfidence # None => top.minConfidence \in 0..100
          /\ top.maxChangePercent # None => top.maxChangePercent \in 0..100
      BY <1>2 DEF ValidateCreate, validateProfile, IsGiven
    <2>4. /\ r.minConfidence = IF top.minConfidence = None THEN base.minConfidence
                               ELSE top.minConfidence
          /\ r.maxChangePercent = IF top.maxChangePercent = None THEN base.maxChangePercent
                                  ELSE top.maxChangePercent
          /\ r.cpuPercentile = base.cpuPercentile
          /\ r.memoryPercentile = base.memoryPercentile
          /\ r.safetyMargin = base.safetyMargin
          /\ r.minSamples = base.minSamples
          /\ r.strategy = base.strategy
          /\ DOMAIN r = Fields
      BY <2>1, <2>2 DEF Fields
    <2> HIDE DEF r
    <2>5. Validate(base) /\ base.maxChangePercent \in Int
      BY DEF ValidSettings
    <2>6. Validate(r) /\ r.maxChangePercent \in Int
      BY <2>3, <2>4, <2>5 DEF Validate
    <2> QED
      BY <2>4, <2>6 DEF ValidSettings, r
  <1> QED
    BY <1>1, <1>2

(* So do the percentiles, the margin and the sample count of the spec      *)
(* itself (resolver.go:192-211).                                           *)
LEMMA RecommendationsKeepValid ==
  ASSUME NEW base, ValidSettings(base), NEW s, InSchema(s), ValidateCreate(s)
  PROVE  /\ ValidSettings(LayeredPositive(base, s.recommendations))
         /\ \A f \in Untouched : LayeredPositive(base, s.recommendations)[f] = base[f]
  <1> DEFINE top == s.recommendations
             r == LayeredPositive(base, top)
  <1>1. CASE top = None
    BY <1>1 DEF LayeredPositive
  <1>2. CASE top # None
    <2>1. r = [f \in Fields |-> IF f \in DOMAIN top
                               THEN IF top[f] # None /\ top[f] > 0 THEN top[f] ELSE base[f]
                               ELSE base[f]]
      BY <1>2 DEF LayeredPositive, ValidSettings, PositiveOr, IsPositive
    <2>2. /\ DOMAIN top = {"cpuPercentile", "memoryPercentile", "safetyMargin", "minSamples",
                           "historyDuration"}
          /\ top.cpuPercentile \in Int /\ top.memoryPercentile \in Int
          /\ top.safetyMargin \in Int /\ top.minSamples \in Int
      BY <1>2 DEF InSchema, Maybe
    <2>3. /\ top.cpuPercentile = 0 \/ top.cpuPercentile \in 50..99
          /\ top.memoryPercentile = 0 \/ top.memoryPercentile \in 50..99
          /\ top.minSamples = 0 \/ top.minSamples >= 10
          /\ top.safetyMargin = 0 \/ top.safetyMargin \in 100..300
      BY <1>2 DEF ValidateCreate, validateRecommendationConfig, IsGiven
    <2>4. /\ r.cpuPercentile = IF top.cpuPercentile # None /\ top.cpuPercentile > 0
                               THEN top.cpuPercentile ELSE base.cpuPercentile
          /\ r.memoryPercentile = IF top.memoryPercentile # None /\ top.memoryPercentile > 0
                                  THEN top.memoryPercentile ELSE base.memoryPercentile
          /\ r.safetyMargin = IF top.safetyMargin # None /\ top.safetyMargin > 0
                              THEN top.safetyMargin ELSE base.safetyMargin
          /\ r.minSamples = IF top.minSamples # None /\ top.minSamples > 0
                            THEN top.minSamples ELSE base.minSamples
          /\ DOMAIN r = Fields
      BY <2>1, <2>2 DEF Fields
    <2>5. \A f \in Untouched : r[f] = base[f]
      BY <2>1, <2>2 DEF Fields, Untouched
    <2> HIDE DEF r
    <2>6. r.strategy = base.strategy /\ r.minConfidence = base.minConfidence
          /\ r.maxChangePercent = base.maxChangePercent
      BY <2>5 DEF Untouched
    <2>7. Validate(base) /\ base.maxChangePercent \in Int
      BY DEF ValidSettings
    <2>8. Validate(r) /\ r.maxChangePercent \in Int
      BY <2>2, <2>3, <2>4, <2>6, <2>7 DEF Validate
    <2> QED
      BY <2>4, <2>5, <2>8 DEF ValidSettings, r
  <1> QED
    BY <1>1, <1>2

(* The breaker, the thresholds and dryRun are not what Validate looks at,  *)
(* nor is the approval theirs to give (resolver.go:213-243).               *)
LEMMA SpecKeepsValid ==
  ASSUME NEW base, ValidSettings(base), NEW s, InSchema(s), ValidateCreate(s)
  PROVE  /\ ValidSettings(applySpecOverrides(base, s))
         /\ \A f \in Untouched : applySpecOverrides(base, s)[f] = base[f]
  <1> DEFINE a == LayeredPositive(base, s.recommendations)
             b == OverriddenByBreaker(a, s.circuitBreaker)
             c == OverriddenByLimits(b, s.thresholds)
             Kept == {"strategy", "cpuPercentile", "memoryPercentile", "safetyMargin",
                      "minSamples", "minConfidence", "maxChangePercent", "requireApproval"}
  <1>1. ValidSettings(a) /\ \A f \in Untouched : a[f] = base[f]
    BY RecommendationsKeepValid
  <1> HIDE DEF a
  <1>2. DOMAIN b = Fields /\ \A f \in Kept : b[f] = a[f]
    BY <1>1 DEF OverriddenByBreaker, ValidSettings, Fields
  <1> HIDE DEF b
  <1>3. DOMAIN c = Fields /\ \A f \in Kept : c[f] = b[f]
    BY <1>2 DEF OverriddenByLimits, Fields
  <1> HIDE DEF c
  <1> DEFINE d == [c EXCEPT !.dryRun = s.dryRun]
  <1>4. DOMAIN d = Fields /\ \A f \in Kept : d[f] = a[f]
    BY <1>2, <1>3 DEF Fields
  <1>5. d = applySpecOverrides(base, s)
    BY DEF applySpecOverrides, a, b, c
  <1> HIDE DEF d
  <1>6. Validate(d) /\ d.maxChangePercent \in Int
    BY <1>1, <1>4 DEF Validate, ValidSettings
  <1>7. \A f \in Untouched : d[f] = base[f]
    BY <1>1, <1>4 DEF Untouched
  <1> QED
    BY <1>4, <1>5, <1>6, <1>7 DEF ValidSettings

-----------------------------------------------------------------------------

LEMMA ResolvedIsValid ==
  ASSUME NEW s, InSchema(s), ValidateCreate(s),
         s.profile \in {"", "custom", "production", "staging", "development", "test"}
  PROVE  ValidSettings(Resolve(DefaultProfiles, s))
  <1>1. CASE s.profile \in {"", "custom"}
    <2>1. ValidSettings(SettingsWithoutProfile(s))
      BY OwnSettingsAreValid
    <2>2. Resolve(DefaultProfiles, s) = applySpecOverrides(SettingsWithoutProfile(s), s)
      BY <1>1 DEF Resolve, resolveFromSpec
    <2> QED
      BY <2>1, <2>2, SpecKeepsValid
  <1>2. CASE s.profile \in {"production", "staging", "development", "test"}
    <2> DEFINE profiled == DefaultProfiles[s.profile]
               overridden == applyOverrides(profiled, s.overrides)
    <2>1. ValidSettings(profiled)
      BY <1>2, DefaultsAreValid
    <2>2. Resolve(DefaultProfiles, s) = applySpecOverrides(overridden, s)
      BY <1>2 DEF Resolve, resolveFromProfile
    <2> HIDE DEF profiled
    <2>3. ValidSettings(overridden)
      BY <2>1, OverridesKeepValid
    <2> HIDE DEF overridden
    <2> QED
      BY <2>2, <2>3, SpecKeepsValid
  <1> QED
    BY <1>1, <1>2

(* Whatever a spec that is admitted layers on a profile, or on no profile,  *)
(* the settings it resolves to are ones that pass for the settings of a     *)
(* profile: the webhook asks for no less than ProfileSettings.Validate      *)
(* does, and no layer undoes what it has checked (validator.go,             *)
(* resolver.go:77-243, profile.go:344-375).                                 *)
THEOREM AdmittedSettingsAreValid ==
  ASSUME NEW s, InSchema(s), ValidateCreate(s),
         s.profile \in {"", "custom", "production", "staging", "development", "test"}
  PROVE  Validate(Resolve(DefaultProfiles, s))
  BY ResolvedIsValid DEF ValidSettings

(* The production profile asks for approval unless the overrides say        *)
(* expressly that it does not (profile.go:160, resolver.go:177-179).        *)
LEMMA ProductionAsksForApproval ==
  ASSUME NEW s, InSchema(s), ValidateCreate(s), s.profile = "production",
         ~(s.overrides # None /\ s.overrides.requireApproval = FALSE)
  PROVE  Resolve(DefaultProfiles, s).requireApproval = TRUE
  <1> DEFINE top == s.overrides
             profiled == DefaultProfiles.production
             overridden == applyOverrides(profiled, top)
  <1>1. ValidSettings(profiled) /\ profiled.requireApproval = TRUE
    BY DefaultsAreValid DEF DefaultProfiles, ProductionProfile, Settings
  <1>2. Resolve(DefaultProfiles, s) = applySpecOverrides(overridden, s)
    BY DEF Resolve, resolveFromProfile
  <1> HIDE DEF profiled
  <1>3. overridden.requireApproval = TRUE
    <2>1. CASE top = None
      BY <1>1, <2>1 DEF applyOverrides, Layered
    <2>2. CASE top # None
      <3>1. top.requireApproval \in {None} \cup BOOLEAN
        BY <2>2 DEF InSchema, Maybe
      <3>2. top.requireApproval \in {None, TRUE}
        BY <2>2, <3>1
      <3>3. overridden.requireApproval \in {profiled.requireApproval, TRUE}
        BY <1>1, <2>2, <3>2 DEF applyOverrides, Layered, ValidSettings, Fields
      <3> QED
        BY <1>1, <3>3
    <2> QED
      BY <2>1, <2>2
  <1>4. ValidSettings(overridden)
    BY <1>1, OverridesKeepValid
  <1> HIDE DEF overridden
  <1> QED
    BY <1>2, <1>3, <1>4, SpecKeepsValid DEF Untouched

-----------------------------------------------------------------------------
\* Loops over lists.

\* One look at the loop over a pod's samples.
Kept(f, samples, cutoff) ==
    [n \in 0..Len(samples) |->
        IF n = 0 THEN <<>>
        ELSE IF samples[n].at > cutoff THEN Append(f[n - 1], samples[n]) ELSE f[n - 1]]

LEMMA LeastIndex ==
  ASSUME NEW T, T \subseteq Nat, T # {}
  PROVE  \E i \in T : \A j \in T : i <= j
  <1>1. PICK i \in T : \A j \in T : <<j, i>> \notin OpToRel(<, Nat)
    BY NatLessThanWellFounded, WFMin, Zenon
  <1>2. \A j \in T : ~(j < i)
    BY <1>1 DEF OpToRel
  <1> QED
    BY <1>2

LEMMA Induction ==
  ASSUME NEW S, 0 \in S, \A n \in Nat : n \in S => n + 1 \in S
  PROVE  Nat \subseteq S
  <1> DEFINE missing == Nat \ S
  <1>1. CASE missing # {}
    <2>1. PICK m \in missing : \A k \in missing : m <= k
      BY <1>1, LeastIndex
    <2>2. m # 0 /\ m - 1 \in Nat /\ (m - 1) + 1 = m /\ m - 1 \notin missing
      BY <2>1
    <2> QED
      BY <2>1, <2>2
  <1> QED
    BY <1>1

(* A loop whose every round takes a value of V to one of V has results.     *)
Rounds(step, n, V) == n \in Nat /\ \A k \in 1..n : \A v \in V : step[k][v] \in V

Results(g, step, n, first, V) ==
    g \in [0..n -> V] /\ g[0] = first /\ \A k \in 1..n : g[k] = step[k][g[k - 1]]

LEMMA LoopExists ==
  ASSUME NEW V, NEW first \in V, NEW n, NEW step, Rounds(step, n, V)
  PROVE  \E g : Results(g, step, n, first, V)
  <1> DEFINE S == {m \in Nat : m <= n => \E g : Results(g, step, m, first, V)}
  <1>n. n \in Nat /\ \A k \in 1..n : \A v \in V : step[k][v] \in V
    BY DEF Rounds
  <1>1. 0 \in S
    <2> DEFINE g == [k \in 0..0 |-> first]
    <2>1. Results(g, step, 0, first, V)
      BY DEF Results
    <2> HIDE DEF g
    <2> QED
      BY <2>1
  <1>2. ASSUME NEW m \in Nat, m \in S
        PROVE  m + 1 \in S
    <2> SUFFICES ASSUME m + 1 <= n
                 PROVE  \E f : Results(f, step, m + 1, first, V)
      OBVIOUS
    <2>0. PICK g : Results(g, step, m, first, V)
      BY <1>2, <1>n
    <2>1. /\ g \in [0..m -> V] /\ g[0] = first
          /\ \A k \in 1..m : g[k] = step[k][g[k - 1]]
      BY <2>0 DEF Results
    <2> DEFINE f == [k \in 0..(m + 1) |-> IF k = m + 1 THEN step[m + 1][g[m]] ELSE g[k]]
    <2>2. m \in 0..m /\ m + 1 \in 1..n /\ g[m] \in V /\ step[m + 1][g[m]] \in V
      BY <2>1, <1>n
    <2>3. \A k \in 0..m : f[k] = g[k] /\ g[k] \in V
      BY <2>1
    <2>4. f[m + 1] = step[m + 1][g[m]]
      OBVIOUS
    <2>5. f \in [0..(m + 1) -> V]
      BY <2>1, <2>2
    <2> HIDE DEF f
    <2>6. ASSUME NEW k \in 1..(m + 1)
          PROVE  f[k] = step[k][f[k - 1]]
      <3>1. CASE k = m + 1
        BY <2>3, <2>4, <2>2, <3>1
      <3>2. CASE k # m + 1
        <4>1. k \in 1..m /\ k \in 0..m /\ k - 1 \in 0..m
          BY <3>2
        <4> QED
          BY <2>1, <2>3, <4>1
      <3> QED
        BY <3>1, <3>2
    <2>7. f[0] = first
      BY <2>1, <2>3
    <2> QED
      BY <2>5, <2>6, <2>7 DEF Results
  <1> HIDE DEF S
  <1>3. n \in S
    BY <1>1, <1>2, <1>n, Induction
  <1> QED
    BY <1>3, <1>n DEF S

(* What every round keeps, the loop keeps.                                  *)
LEMMA LoopStays ==
  ASSUME NEW V, NEW n \in Nat, NEW g, g[0] \in V,
         \A k \in 1..n : g[k - 1] \in V => g[k] \in V
  PROVE  g[n] \in V
  <1> DEFINE S == {m \in Nat : m <= n => g[m] \in V}
  <1>1. 0 \in S
    OBVIOUS
  <1>2. ASSUME NEW m \in Nat, m \in S
        PROVE  m + 1 \in S
    <2>1. m + 1 <= n => m + 1 \in 1..n /\ (m + 1) - 1 = m /\ g[m] \in V
      BY <1>2
    <2> QED
      BY <2>1
  <1> HIDE DEF S
  <1>3. n \in S
    BY <1>1, <1>2, Induction
  <1> QED
    BY <1>3 DEF S

(* What the storage hands out are samples it has (memory.go:117-133).       *)
LEMMA AfterIsIn ==
  ASSUME NEW T, NEW samples \in Seq(T), NEW cutoff
  PROVE  After(samples, cutoff) \in Seq(T)
  <1> DEFINE n == Len(samples)
             V == Seq(T)
             step == [k \in 1..n |-> [s \in V |-> IF samples[k].at > cutoff
                                                  THEN Append(s, samples[k]) ELSE s]]
             valid == CHOOSE f : f = Kept(f, samples, cutoff)
  <1>1. n \in Nat /\ <<>> \in V /\ \A k \in 1..n : samples[k] \in T
    OBVIOUS
  <1>2. \A k \in 1..n : \A s \in V : Append(s, samples[k]) \in V
    BY <1>1
  <1>3. After(samples, cutoff) = valid[n]
    BY DEF After, Kept
  <1>4. valid = CHOOSE f : f = Kept(f, samples, cutoff)
    OBVIOUS
  <1> HIDE DEF valid, n, V
  <1>5. \A k \in 1..n : \A s \in V :
            step[k][s] = IF samples[k].at > cutoff THEN Append(s, samples[k]) ELSE s
    OBVIOUS
  <1> HIDE DEF step
  <1>6. PICK g : Results(g, step, n, <<>>, V)
    <2>1. Rounds(step, n, V)
      BY <1>1, <1>2, <1>5 DEF Rounds
    <2> QED
      BY <1>1, <2>1, LoopExists
  <1>7. ASSUME NEW k \in 0..n
        PROVE  g[k] = Kept(g, samples, cutoff)[k]
    <2>1. CASE k = 0
      BY <1>6, <2>1 DEF Kept, Results, n
    <2>2. CASE k # 0
      <3>1. k \in 1..n /\ k - 1 \in 0..n
        BY <1>1, <2>2
      <3>2. g[k - 1] \in V /\ g[k] = step[k][g[k - 1]]
        BY <1>6, <3>1 DEF Results
      <3> QED
        BY <1>5, <2>2, <3>1, <3>2 DEF Kept, n
    <2> QED
      BY <2>1, <2>2
  <1>8. g = Kept(g, samples, cutoff)
    BY <1>6, <1>7 DEF Kept, Results, n
  <1>9. valid = Kept(valid, samples, cutoff)
    BY <1>4, <1>8
  <1>10. valid[0] \in V
    BY <1>1, <1>9 DEF Kept, n
  <1>11. ASSUME NEW k \in 1..n, valid[k - 1] \in V
         PROVE  valid[k] \in V
    <2>1. k \in 0..n /\ k # 0
      BY <1>1
    <2>2. valid[k] = IF samples[k].at > cutoff THEN Append(valid[k - 1], samples[k])
                     ELSE valid[k - 1]
      BY <1>9, <2>1 DEF Kept, n
    <2> QED
      BY <1>2, <1>11, <2>2
  <1>12. valid[n] \in V
    BY <1>1, <1>10, <1>11, LoopStays
  <1> QED
    BY <1>3, <1>12 DEF V

\* One look at the loop over the pods.
Walked(f, order, recent) ==
    [n \in 0..Len(order) |-> IF n = 0 THEN <<>> ELSE f[n - 1] \o recent[order[n]]]

(* The metrics of a namespace are samples of its pods, in whatever order    *)
(* the map of the pods is walked (memory.go:117-133).                       *)
LEMMA MetricsAreIn ==
  ASSUME NEW S, DOMAIN history = PodNames, \A p \in PodNames : history[p] \in Seq(S),
         NEW order \in SetToSeqs(PodNames)
  PROVE  Metrics(order) \in Seq(S)
  <1> DEFINE cutoff == clock - EngineSettings(spec).historyDuration
             recent == NewerThan(history, cutoff)
             n == Len(order)
             V == Seq(S)
             step == [k \in 1..n |-> [s \in V |-> s \o recent[order[k]]]]
             walked == CHOOSE f : f = Walked(f, order, recent)
  <1>1. n \in Nat /\ <<>> \in V /\ \A k \in 1..n : order[k] \in PodNames
    <2>1. Cardinality(PodNames) \in Nat
      BY FS_CardinalityType, OptimizationAssumption
    <2>2. order \in [1..Cardinality(PodNames) -> PodNames]
      BY DEF SetToSeqs
    <2> QED
      BY <2>1, <2>2
  <1>r. \A p \in PodNames : recent[p] \in V
    <2>1. ASSUME NEW p \in PodNames
          PROVE  After(history[p], cutoff) \in Seq(S)
      BY AfterIsIn
    <2> QED
      BY <2>1 DEF NewerThan
  <1>3. Metrics(order) = walked[n]
    BY DEF Metrics, Walked
  <1>4. walked = CHOOSE f : f = Walked(f, order, recent)
    OBVIOUS
  <1> HIDE DEF walked, n, recent
  <1>2. \A k \in 1..n : \A s \in V : s \o recent[order[k]] \in V
    BY <1>1, <1>r
  <1> HIDE DEF V
  <1>5. \A k \in 1..n : \A s \in V : step[k][s] = s \o recent[order[k]]
    OBVIOUS
  <1> HIDE DEF step
  <1>6. PICK g : Results(g, step, n, <<>>, V)
    <2>1. Rounds(step, n, V)
      BY <1>1, <1>2, <1>5 DEF Rounds
    <2> QED
      BY <1>1, <2>1, LoopExists
  <1>7. ASSUME NEW k \in 0..n
        PROVE  g[k] = Walked(g, order, recent)[k]
    <2>1. CASE k = 0
      BY <1>6, <2>1 DEF Walked, Results, n
    <2>2. CASE k # 0
      <3>1. k \in 1..n /\ k - 1 \in 0..n
        BY <1>1, <2>2
      <3>2. g[k - 1] \in V /\ g[k] = step[k][g[k - 1]]
        BY <1>6, <3>1 DEF Results
      <3> QED
        BY <1>5, <2>2, <3>1, <3>2 DEF Walked, n
    <2> QED
      BY <2>1, <2>2
  <1>8. g = Walked(g, order, recent)
    BY <1>6, <1>7 DEF Walked, Results, n
  <1>9. walked = Walked(walked, order, recent)
    BY <1>4, <1>8
  <1>10. walked[0] \in V
    BY <1>1, <1>9 DEF Walked, n
  <1>11. ASSUME NEW k \in 1..n, walked[k - 1] \in V
         PROVE  walked[k] \in V
    <2>1. k \in 0..n /\ k # 0
      BY <1>1
    <2>2. walked[k] = walked[k - 1] \o recent[order[k]]
      BY <1>9, <2>1 DEF Walked, n
    <2> QED
      BY <1>2, <1>11, <2>2
  <1>12. walked[n] \in V
    BY <1>1, <1>10, <1>11, LoopStays
  <1> QED
    BY <1>3, <1>12 DEF V

\* One look at the loop over the metrics.
Grouped(f, metrics, workload, container) ==
    [n \in 0..Len(metrics) |->
        IF n = 0 THEN <<>>
        ELSE IF /\ extractWorkloadName(metrics[n].pod) = workload
                /\ container \in DOMAIN metrics[n].containers
        THEN Append(f[n - 1], containerSample(metrics[n], container))
        ELSE f[n - 1]]

(* The samples of a container are what the metrics say of it                *)
(* (engine.go:384-413).                                                     *)
LEMMA SamplesAreIn ==
  ASSUME NEW S, NEW metrics \in Seq(S), NEW workload, NEW container, NEW T,
         \A m \in S : container \in DOMAIN m.containers => containerSample(m, container) \in T
  PROVE  groupByWorkload(metrics, workload, container) \in Seq(T)
  <1> DEFINE n == Len(metrics)
             V == Seq(T)
             Of(k) == /\ extractWorkloadName(metrics[k].pod) = workload
                      /\ container \in DOMAIN metrics[k].containers
             step == [k \in 1..n |-> [s \in V |->
                         IF Of(k) THEN Append(s, containerSample(metrics[k], container)) ELSE s]]
             grouped == CHOOSE f : f = Grouped(f, metrics, workload, container)
  <1>1. n \in Nat /\ <<>> \in V /\ \A k \in 1..n : metrics[k] \in S
    OBVIOUS
  <1>3. groupByWorkload(metrics, workload, container) = grouped[n]
    BY DEF groupByWorkload, Grouped
  <1>4. grouped = CHOOSE f : f = Grouped(f, metrics, workload, container)
    OBVIOUS
  <1> HIDE DEF grouped, n
  <1>2. \A k \in 1..n : \A s \in V :
            Of(k) => Append(s, containerSample(metrics[k], container)) \in V
    BY <1>1
  <1> HIDE DEF V
  <1>5. \A k \in 1..n : \A s \in V :
            step[k][s] = IF Of(k) THEN Append(s, containerSample(metrics[k], container)) ELSE s
    OBVIOUS
  <1> HIDE DEF step
  <1>6. PICK g : Results(g, step, n, <<>>, V)
    <2>1. Rounds(step, n, V)
      BY <1>1, <1>2, <1>5 DEF Rounds
    <2> QED
      BY <1>1, <2>1, LoopExists
  <1>7. ASSUME NEW k \in 0..n
        PROVE  g[k] = Grouped(g, metrics, workload, container)[k]
    <2>1. CASE k = 0
      BY <1>6, <2>1 DEF Grouped, Results, n
    <2>2. CASE k # 0
      <3>1. k \in 1..n /\ k - 1 \in 0..n
        BY <1>1, <2>2
      <3>2. g[k - 1] \in V /\ g[k] = step[k][g[k - 1]]
        BY <1>6, <3>1 DEF Results
      <3> QED
        BY <1>5, <2>2, <3>1, <3>2 DEF Grouped, n
    <2> QED
      BY <2>1, <2>2
  <1>8. g = Grouped(g, metrics, workload, container)
    BY <1>6, <1>7 DEF Grouped, Results, n
  <1>9. grouped = Grouped(grouped, metrics, workload, container)
    BY <1>4, <1>8
  <1>10. grouped[0] \in V
    BY <1>1, <1>9 DEF Grouped, n
  <1>11. ASSUME NEW k \in 1..n, grouped[k - 1] \in V
         PROVE  grouped[k] \in V
    <2>1. k \in 0..n /\ k # 0
      BY <1>1
    <2>2. grouped[k] = IF Of(k) THEN Append(grouped[k - 1], containerSample(metrics[k], container))
                       ELSE grouped[k - 1]
      BY <1>9, <2>1 DEF Grouped, n
    <2> QED
      BY <1>2, <1>11, <2>2
  <1>12. grouped[n] \in V
    BY <1>1, <1>10, <1>11, LoopStays
  <1> QED
    BY <1>3, <1>12 DEF V

-----------------------------------------------------------------------------

\* Arithmetic.

LEMMA DivFacts ==
  ASSUME NEW a \in Nat, NEW b \in Nat, b > 0
  PROVE  /\ a \div b \in Nat
         /\ (a \div b) * b <= a
         /\ a < (a \div b) * b + b
         /\ a % b = 0 => (a \div b) * b = a
  BY SMT

LEMMA ProductIsNat ==
  ASSUME NEW a \in Nat, NEW b \in Nat
  PROVE  a * b \in Nat
  BY SMT

LEMMA ProductGrows ==
  ASSUME NEW a \in Nat, NEW b \in Nat, NEW c \in Nat, a <= b
  PROVE  a * c <= b * c /\ c * a <= c * b
  BY SMT

\* The factors of the units.
Ki == Bin
Mi == Bin * Bin
Gi == Bin * Bin * Bin

LEMMA FactorValues ==
  /\ Factor("") = 1
  /\ Factor("Ki") = Ki /\ Factor("Mi") = Mi /\ Factor("Gi") = Gi
  /\ Factor("K") = Dec /\ Factor("M") = Dec * Dec /\ Factor("G") = Dec * Dec * Dec
  <1>1. /\ (CHOOSE i \in 1..3 : BinaryUnits[i] = "Ki") = 1
        /\ (CHOOSE i \in 1..3 : BinaryUnits[i] = "Mi") = 2
        /\ (CHOOSE i \in 1..3 : BinaryUnits[i] = "Gi") = 3
    BY DEF BinaryUnits
  <1>2. /\ (CHOOSE i \in 1..3 : DecimalUnits[i] = "K") = 1
        /\ (CHOOSE i \in 1..3 : DecimalUnits[i] = "M") = 2
        /\ (CHOOSE i \in 1..3 : DecimalUnits[i] = "G") = 3
    BY DEF DecimalUnits
  <1>3. /\ \A u \in {"Ki", "Mi", "Gi"} : \E i \in 1..3 : BinaryUnits[i] = u
        /\ \A u \in {"", "K", "M", "G"} : ~ \E i \in 1..3 : BinaryUnits[i] = u
    BY DEF BinaryUnits
  <1>4. \A b : Power(b, 1) = b /\ Power(b, 2) = b * b /\ Power(b, 3) = b * b * b
    BY DEF Power
  <1>5. Factor("") = 1
    BY <1>3 DEF Factor
  <1>6. Factor("Ki") = Ki /\ Factor("Mi") = Mi /\ Factor("Gi") = Gi
    BY <1>1, <1>3, <1>4 DEF Factor, Ki, Mi, Gi
  <1>7. Factor("K") = Dec /\ Factor("M") = Dec * Dec /\ Factor("G") = Dec * Dec * Dec
    BY <1>2, <1>3, <1>4 DEF Factor
  <1> QED
    BY <1>5, <1>6, <1>7

LEMMA FactorsGrow ==
  /\ Ki \in Nat /\ Mi \in Nat /\ Gi \in Nat
  /\ 1 < Ki /\ Ki <= Mi /\ Mi <= Gi
  <1>1. Ki \in Nat /\ 1 < Ki
    BY QuantitiesAssumption DEF Ki
  <1>2. Mi \in Nat /\ Ki <= Mi
    BY <1>1 DEF Ki, Mi
  <1>3. Gi = Mi * Ki
    BY DEF Ki, Mi, Gi
  <1>4. 1 * Mi <= Ki * Mi
    BY <1>1, <1>2, ProductGrows
  <1>5. Gi \in Nat /\ Mi <= Gi
    BY <1>1, <1>2, <1>3, <1>4
  <1> QED
    BY <1>1, <1>2, <1>5

(* What the API server makes of the CPU that formatCPU writes is the CPU    *)
(* (reconciler.go:569-575).                                                 *)
LEMMA CPUIsKept ==
  ASSUME NEW cpu \in Nat
  PROVE  MillicoresOf(formatCPU(cpu)) = cpu
  <1>1. Core \in Nat /\ Core > 0
    BY QuantitiesAssumption
  <1>2. CASE cpu >= Core /\ cpu % Core = 0
    <2>1. formatCPU(cpu) = Whole(cpu \div Core, "")
      BY <1>2 DEF formatCPU
    <2>2. MillicoresOf(Whole(cpu \div Core, "")) = (cpu \div Core) * Core + 0
      BY DEF MillicoresOf, Whole, Quantity
    <2>3. (cpu \div Core) * Core = cpu
      BY <1>1, <1>2, DivFacts
    <2>4. (cpu \div Core) * Core + 0 = cpu
      BY <2>3
    <2> QED
      BY <2>1, <2>2, <2>4, Zenon
  <1>3. CASE ~(cpu >= Core /\ cpu % Core = 0)
    BY <1>3 DEF formatCPU, MillicoresOf, Whole, Quantity
  <1> QED
    BY <1>2, <1>3

LEMMA UnitValues ==
  ASSUME NEW memory
  PROVE  UnitOf(memory) = IF memory >= Mi THEN Mi ELSE IF memory >= Ki THEN Ki ELSE 1
  BY FactorValues DEF UnitOf

(* formatMemory adds nothing and drops less than a unit of what it is       *)
(* given, nor more than a unit of anything below it (reconciler.go:577-586).*)
LEMMA MemoryIsRounded ==
  ASSUME NEW memory \in Nat
  PROVE  LET written == BytesOf(formatMemory(memory)) IN
         /\ written \in Nat /\ written <= memory
         /\ \A m \in Nat : m <= memory => m < written + UnitOf(m)
  <1> DEFINE written == BytesOf(formatMemory(memory))
             In(unit) == Whole(memory \div Factor(unit), unit)
  <1>1. Ki \in Nat /\ Mi \in Nat /\ Gi \in Nat /\ 1 < Ki /\ Ki <= Mi /\ Mi <= Gi
    BY FactorsGrow
  <1>2. ASSUME NEW unit
        PROVE  BytesOf(In(unit)) = (memory \div Factor(unit)) * Factor(unit) + 0
    BY DEF BytesOf, Whole, Quantity
  <1> HIDE DEF In
  <1>3. CASE memory >= Gi /\ memory % Gi = 0
    <2>1. formatMemory(memory) = In("Gi")
      BY <1>3, FactorValues DEF formatMemory, In
    <2>2. (memory \div Gi) * Gi = memory
      BY <1>1, <1>3, DivFacts
    <2>3. written = (memory \div Gi) * Gi + 0
      BY <1>2, <2>1, FactorValues
    <2>4. written = memory
      BY <2>2, <2>3
    <2> HIDE DEF written
    <2> QED
      BY <1>1, <2>4, UnitValues DEF written
  <1>4. CASE ~(memory >= Gi /\ memory % Gi = 0) /\ memory >= Mi
    <2>1. formatMemory(memory) = In("Mi")
      BY <1>4, FactorValues DEF formatMemory, In
    <2>2. written = (memory \div Mi) * Mi + 0
      BY <1>2, <2>1, FactorValues
    <2>3. written \in Nat /\ written <= memory /\ memory < written + Mi
      BY <1>1, <2>2, DivFacts, ProductIsNat
    <2>4. Mi <= written
      <3>1. memory \div Mi \in Nat /\ memory < (memory \div Mi) * Mi + Mi
        BY <1>1, DivFacts
      <3>2. memory \div Mi # 0
        BY <1>1, <1>4, <3>1
      <3>3. 1 * Mi <= (memory \div Mi) * Mi
        BY <1>1, <3>1, <3>2, ProductGrows
      <3> QED
        BY <1>1, <2>2, <2>3, <3>3
    <2> HIDE DEF written
    <2> QED
      BY <1>1, <2>3, <2>4, UnitValues DEF written
  <1>5. CASE ~(memory >= Mi) /\ memory >= Ki
    <2>0. ~(memory >= Gi)
      BY <1>1, <1>5
    <2>1. formatMemory(memory) = In("Ki")
      BY <1>5, <2>0, FactorValues DEF formatMemory, In
    <2>2. written = (memory \div Ki) * Ki + 0
      BY <1>2, <2>1, FactorValues
    <2>3. written \in Nat /\ written <= memory /\ memory < written + Ki
      BY <1>1, <2>2, DivFacts, ProductIsNat
    <2>4. Ki <= written
      <3>1. memory \div Ki \in Nat /\ memory < (memory \div Ki) * Ki + Ki
        BY <1>1, DivFacts
      <3>2. memory \div Ki # 0
        BY <1>1, <1>5, <3>1
      <3>3. 1 * Ki <= (memory \div Ki) * Ki
        BY <1>1, <3>1, <3>2, ProductGrows
      <3> QED
        BY <1>1, <2>2, <2>3, <3>3
    <2> HIDE DEF written
    <2> QED
      BY <1>1, <1>5, <2>3, <2>4, UnitValues DEF written
  <1>6. CASE ~(memory >= Mi) /\ ~(memory >= Ki)
    <2>0. ~(memory >= Gi)
      BY <1>1, <1>6
    <2>1. formatMemory(memory) = In("")
      BY <1>6, <2>0, FactorValues DEF formatMemory, In
    <2>2. written = (memory \div 1) * 1 + 0
      BY <1>2, <2>1, FactorValues
    <2>3. written = memory
      BY <2>2
    <2> QED
      BY <1>1, <1>6, <2>3, UnitValues
  <1> QED
    BY <1>3, <1>4, <1>5, <1>6

-----------------------------------------------------------------------------

\* Thresholds.

CPUUnits == {"", "m"}
MemoryUnits == {"", "Ki", "Mi", "Gi", "K", "M", "G"}

(* Both bounds of a resource that has thresholds are given                  *)
(* (validator.go, validateResourceLimit).                                   *)
LEMMA LimitsAreGiven ==
  ASSUME NEW s, InSchema(s), ValidateCreate(s), s.thresholds # None, NEW side \in {"min", "max"}
  PROVE  /\ s.thresholds.cpu # None => IsLimit(s.thresholds.cpu[side], CPUUnits)
         /\ s.thresholds.memory # None => IsLimit(s.thresholds.memory[side], MemoryUnits)
  <1>1. ASSUME s.thresholds.cpu # None
        PROVE  IsLimit(s.thresholds.cpu[side], CPUUnits)
    <2>1. s.thresholds.cpu[side] # None
      BY <1>1 DEF ValidateCreate, validateResourceThresholds, IsGiven, validateResourceLimit, Parses
    <2> QED
      BY <1>1, <2>1 DEF InSchema, CPUUnits
  <1>2. ASSUME s.thresholds.memory # None
        PROVE  IsLimit(s.thresholds.memory[side], MemoryUnits)
    <2>1. s.thresholds.memory[side] # None
      BY <1>2 DEF ValidateCreate, validateResourceThresholds, IsGiven, validateResourceLimit, Parses
    <2> QED
      BY <1>2, <2>1 DEF InSchema, MemoryUnits
  <1> QED
    BY <1>1, <1>2

LEMMA HalvesAreNat ==
  ASSUME NEW n \in Nat
  PROVE  n \div 2 \in Nat
  OBVIOUS

(* The engine reads no more in a CPU threshold than it says: the fraction   *)
(* is lost (engine.go:750-767).                                             *)
LEMMA CPUIsNotOverread ==
  ASSUME NEW q, IsLimit(q, CPUUnits)
  PROVE  parseCPUToMillicores(q) \in Nat /\ parseCPUToMillicores(q) <= MillicoresOf(q)
  <1>1. q.n \in Nat /\ Core \in Nat /\ Core \div 2 \in Nat /\ q.n * Core \in Nat
    BY QuantitiesAssumption, HalvesAreNat, ProductIsNat DEF IsLimit
  <1> QED
    BY <1>1 DEF parseCPUToMillicores, MillicoresOf

LEMMA PowersGrow ==
  ASSUME NEW i \in 1..3
  PROVE  Power(Dec, i) \in Nat /\ Power(Bin, i) \in Nat /\ Power(Dec, i) <= Power(Bin, i)
  <1>1. Dec \in Nat /\ Bin \in Nat /\ Dec <= Bin
    BY QuantitiesAssumption
  <1>2. Dec * Dec \in Nat /\ Bin * Bin \in Nat /\ Dec * Dec <= Bin * Bin
    <2>1. Dec * Dec \in Nat /\ Bin * Bin \in Nat /\ Bin * Dec \in Nat
      BY <1>1, ProductIsNat
    <2>2. Dec * Dec <= Bin * Dec /\ Bin * Dec <= Bin * Bin
      BY <1>1, ProductGrows
    <2> QED
      BY <2>1, <2>2
  <1>3. /\ Dec * Dec * Dec \in Nat /\ Bin * Bin * Bin \in Nat
        /\ Dec * Dec * Dec <= Bin * Bin * Bin
    <2> DEFINE d == Dec * Dec
               b == Bin * Bin
    <2>1. d \in Nat /\ b \in Nat /\ d <= b
      BY <1>2
    <2> HIDE DEF d, b
    <2>2. d * Dec \in Nat /\ b * Bin \in Nat /\ b * Dec \in Nat
      BY <1>1, <2>1, ProductIsNat
    <2>3. d * Dec <= b * Dec /\ b * Dec <= b * Bin
      BY <1>1, <2>1, ProductGrows
    <2> QED
      BY <2>2, <2>3 DEF d, b
  <1>4. \A b : Power(b, 1) = b /\ Power(b, 2) = b * b /\ Power(b, 3) = b * b * b
    BY DEF Power
  <1>5. i = 1 \/ i = 2 \/ i = 3
    OBVIOUS
  <1> QED
    BY <1>1, <1>2, <1>3, <1>4, <1>5

LEMMA FactorsArePositive ==
  ASSUME NEW unit \in MemoryUnits
  PROVE  Factor(unit) \in Nat /\ 1 <= Factor(unit)
  <1> DEFINE K == Dec
             M == Dec * Dec
             G == Dec * Dec * Dec
  <1>1. K \in Nat /\ 1 < K
    BY QuantitiesAssumption
  <1>2. M \in Nat /\ 1 < M
    <2>1. M \in Nat /\ 1 * Dec <= M
      BY <1>1, ProductIsNat, ProductGrows
    <2> QED
      BY <1>1, <2>1
  <1>3. G \in Nat /\ 1 < G
    <2> HIDE DEF M
    <2>1. M * Dec \in Nat /\ 1 * Dec <= M * Dec
      BY <1>1, <1>2, ProductIsNat, ProductGrows
    <2> QED
      BY <1>1, <2>1 DEF M
  <1>4. Factor("K") = K /\ Factor("M") = M /\ Factor("G") = G
    BY FactorValues
  <1> HIDE DEF K, M, G
  <1>5. \A u \in {"K", "M", "G"} : Factor(u) \in Nat /\ 1 <= Factor(u)
    BY <1>1, <1>2, <1>3, <1>4
  <1>6. Factor("") \in Nat /\ 1 <= Factor("")
    <2>1. 1 \in Nat /\ 1 <= 1
      OBVIOUS
    <2> QED
      BY <2>1, FactorValues, Zenon
  <1>7. \A u \in {"Ki", "Mi", "Gi"} : Factor(u) \in Nat /\ 1 <= Factor(u)
    <2>1. /\ Ki \in Nat /\ 1 <= Ki
          /\ Mi \in Nat /\ 1 <= Mi
          /\ Gi \in Nat /\ 1 <= Gi
      BY FactorsGrow
    <2> QED
      BY <2>1, FactorValues, Zenon
  <1> QED
    BY <1>5, <1>6, <1>7 DEF MemoryUnits

(* Nor in a memory threshold, whichever suffix it tries first               *)
(* (engine.go:769-803).                                                     *)
LEMMA MemoryIsNotOverread ==
  ASSUME NEW q, IsLimit(q, MemoryUnits), NEW r \in parseMemoryToBytes(q)
  PROVE  r \in Nat /\ r <= BytesOf(q)
  <1>1. q.n \in Nat /\ q.unit \in MemoryUnits
    BY DEF IsLimit
  <1>2. Factor(q.unit) \in Nat /\ 1 <= Factor(q.unit) /\ Factor(q.unit) \div 2 \in Nat
    BY <1>1, FactorsArePositive, HalvesAreNat
  <1>3. q.n * Factor(q.unit) \in Nat /\ q.n * Factor(q.unit) <= BytesOf(q)
    <2>1. q.n * Factor(q.unit) \in Nat
      BY <1>1, <1>2, ProductIsNat
    <2> QED
      BY <1>2, <2>1 DEF BytesOf
  <1>4. CASE q.half \/ q.unit = ""
    <2>1. r = q.n
      BY <1>4 DEF parseMemoryToBytes
    <2>2. q.n * 1 <= q.n * Factor(q.unit) /\ q.n * 1 = q.n
      BY <1>1, <1>2, ProductGrows
    <2>3. q.n <= BytesOf(q)
      <3> DEFINE product == q.n * Factor(q.unit)
      <3>1. product \in Nat /\ product <= BytesOf(q) /\ q.n <= product
        BY <1>3, <2>2
      <3>2. BytesOf(q) \in Int
        <4>1. product + 0 \in Int /\ product + Factor(q.unit) \div 2 \in Int
          BY <1>2, <3>1
        <4> QED
          BY <4>1 DEF BytesOf
      <3> HIDE DEF product
      <3> QED
        BY <1>1, <3>1, <3>2
    <2> QED
      BY <1>1, <2>1, <2>3
  <1>5. CASE ~(q.half \/ q.unit = "") /\ r = q.n * Factor(q.unit)
    BY <1>3, <1>5
  <1>6. CASE /\ ~(q.half \/ q.unit = "")
             /\ \E i \in 1..3 : BinaryUnits[i] = q.unit /\ r = q.n * Power(Dec, i)
    <2>1. PICK i \in 1..3 : BinaryUnits[i] = q.unit /\ r = q.n * Power(Dec, i)
      BY <1>6
    <2>2. Factor(q.unit) = Power(Bin, i)
      <3>1. /\ BinaryUnits[1] = "Ki" /\ BinaryUnits[2] = "Mi" /\ BinaryUnits[3] = "Gi"
            /\ \A b : Power(b, 1) = b /\ Power(b, 2) = b * b /\ Power(b, 3) = b * b * b
        BY DEF BinaryUnits, Power
      <3>2. CASE i = 1
        BY <2>1, <3>1, <3>2, FactorValues, Zenon DEF Ki
      <3>3. CASE i = 2
        BY <2>1, <3>1, <3>3, FactorValues, Zenon DEF Mi
      <3>4. CASE i = 3
        BY <2>1, <3>1, <3>4, FactorValues, Zenon DEF Gi
      <3>5. i = 1 \/ i = 2 \/ i = 3
        OBVIOUS
      <3> QED
        BY <3>2, <3>3, <3>4, <3>5
    <2>3. Power(Dec, i) \in Nat /\ Power(Dec, i) <= Factor(q.unit)
      BY <2>2, PowersGrow
    <2>4. q.n * Power(Dec, i) \in Nat /\ q.n * Power(Dec, i) <= q.n * Factor(q.unit)
      BY <1>1, <1>2, <2>3, ProductGrows, ProductIsNat
    <2>5. BytesOf(q) = q.n * Factor(q.unit) + 0
      BY <1>6 DEF BytesOf
    <2> QED
      BY <1>3, <2>1, <2>4, <2>5
  <1>7. CASE ~(q.half \/ q.unit = "")
    <2>1. r = q.n * Factor(q.unit)
             \/ \E i \in 1..3 : BinaryUnits[i] = q.unit /\ r = q.n * Power(Dec, i)
      BY <1>7 DEF parseMemoryToBytes
    <2> QED
      BY <1>5, <1>6, <1>7, <2>1
  <1> QED
    BY <1>4, <1>7

(* What the thresholds of an admitted spec are read as.                     *)
LEMMA ReadingsOfThresholds ==
  ASSUME NEW s, InSchema(s), ValidateCreate(s), NEW side \in {"min", "max"}
  PROVE  /\ \A r \in CPUReadings(s.thresholds, side) :
                /\ r \in Nat
                /\ (s.thresholds # None /\ s.thresholds.cpu # None)
                       => r <= MillicoresOf(s.thresholds.cpu[side])
         /\ \A r \in MemoryReadings(s.thresholds, side) :
                /\ r \in Nat
                /\ (s.thresholds # None /\ s.thresholds.memory # None)
                       => r <= BytesOf(s.thresholds.memory[side])
         /\ \E r : CPUReadings(s.thresholds, side) = {r}
  <1>1. \E r : CPUReadings(s.thresholds, side) = {r}
    BY DEF CPUReadings
  <1>2. ASSUME NEW r \in CPUReadings(s.thresholds, side)
        PROVE  /\ r \in Nat
               /\ (s.thresholds # None /\ s.thresholds.cpu # None)
                      => r <= MillicoresOf(s.thresholds.cpu[side])
    <2>1. CASE s.thresholds = None \/ s.thresholds.cpu = None
      BY <2>1 DEF CPUReadings
    <2>2. CASE s.thresholds # None /\ s.thresholds.cpu # None
      <3>1. r = parseCPUToMillicores(s.thresholds.cpu[side])
        BY <2>2 DEF CPUReadings
      <3> QED
        BY <2>2, <3>1, LimitsAreGiven, CPUIsNotOverread
    <2> QED
      BY <2>1, <2>2
  <1>3. ASSUME NEW r \in MemoryReadings(s.thresholds, side)
        PROVE  /\ r \in Nat
               /\ (s.thresholds # None /\ s.thresholds.memory # None)
                      => r <= BytesOf(s.thresholds.memory[side])
    <2>1. CASE s.thresholds = None \/ s.thresholds.memory = None
      BY <2>1 DEF MemoryReadings
    <2>2. CASE s.thresholds # None /\ s.thresholds.memory # None
      <3>1. r \in parseMemoryToBytes(s.thresholds.memory[side])
        BY <2>2 DEF MemoryReadings
      <3> QED
        BY <2>2, <3>1, LimitsAreGiven, MemoryIsNotOverread
    <2> QED
      BY <2>1, <2>2
  <1> QED
    BY <1>1, <1>2, <1>3

LEMMA BoundedIsWithin ==
  ASSUME NEW value \in Nat, NEW min \in Nat, NEW max \in Nat
  PROVE  /\ Bounded(value, min, max) \in Nat
         /\ (max = 0 \/ min <= max) => /\ min <= Bounded(value, min, max)
                                       /\ max # 0 => Bounded(value, min, max) <= max
  BY DEF Bounded

-----------------------------------------------------------------------------

\* Percentiles and settings.

LEMMA MinOf ==
  ASSUME NEW T, T \subseteq Nat, T # {}
  PROVE  Min(T) \in T
  BY LeastIndex, Zenon DEF Min

LEMMA GreatestValue ==
  ASSUME NEW n \in Nat, n > 0, NEW values \in [1..n -> Nat]
  PROVE  \E j \in 1..n : \A i \in 1..n : values[i] <= values[j]
  <1> DEFINE IsGreatest(j, m) == j \in 1..m /\ \A i \in 1..m : values[i] <= values[j]
             S == {m \in Nat : 1 <= m /\ m <= n => \E j : IsGreatest(j, m)}
  <1>1. 0 \in S
    OBVIOUS
  <1>2. ASSUME NEW m \in Nat, m \in S
        PROVE  m + 1 \in S
    <2> SUFFICES ASSUME m + 1 <= n
                 PROVE  \E j : IsGreatest(j, m + 1)
      OBVIOUS
    <2>v. \A i \in 1..(m + 1) : values[i] \in Nat
      OBVIOUS
    <2>1. CASE m = 0
      <3>1. IsGreatest(1, m + 1)
        BY <2>v, <2>1
      <3> QED
        BY <3>1
    <2>2. CASE m # 0
      <3>1. PICK j : IsGreatest(j, m)
        BY <1>2, <2>2
      <3>2. CASE values[m + 1] <= values[j]
        <4>1. IsGreatest(j, m + 1)
          BY <2>v, <3>1, <3>2
        <4> QED
          BY <4>1
      <3>3. CASE ~(values[m + 1] <= values[j])
        <4>1. IsGreatest(m + 1, m + 1)
          BY <2>v, <3>1, <3>3
        <4> QED
          BY <4>1
      <3> QED
        BY <3>2, <3>3
    <2> QED
      BY <2>1, <2>2
  <1> HIDE DEF S
  <1>3. n \in S
    BY <1>1, <1>2, Induction
  <1> QED
    BY <1>3 DEF S

(* A percentile of amounts is one of them (engine.go:688-706).              *)
LEMMA PercentileIsAmount ==
  ASSUME NEW n \in Nat, n > 0, NEW values \in [1..n -> Nat], NEW percentile \in Nat
  PROVE  calculatePercentile(values, percentile) \in Nat
  <1> DEFINE rank == clamp((Len(values) * percentile + 50) \div 100, 1, Len(values))
             UpTo(v) == Cardinality({i \in DOMAIN values : values[i] <= v})
             T == {v \in {values[i] : i \in DOMAIN values} : UpTo(v) >= rank}
  <1>1. Len(values) = n /\ DOMAIN values = 1..n /\ values # <<>>
    OBVIOUS
  <1>2. rank \in 1..n
    <2>1. n * percentile \in Nat
      BY ProductIsNat
    <2>2. (n * percentile + 50) \div 100 \in Nat
      BY <2>1, DivFacts
    <2> QED
      BY <1>1, <2>2 DEF clamp
  <1>3. PICK j \in 1..n : \A i \in 1..n : values[i] <= values[j]
    BY GreatestValue
  <1>4. UpTo(values[j]) = n
    <2>1. {i \in DOMAIN values : values[i] <= values[j]} = 1..n
      BY <1>1, <1>3
    <2>2. Cardinality(1..n) = n
      BY FS_Interval
    <2> QED
      BY <2>1, <2>2
  <1>5. values[j] \in T
    <2>1. values[j] \in {values[i] : i \in DOMAIN values}
      BY <1>1
    <2> HIDE DEF rank
    <2>2. UpTo(values[j]) >= rank
      BY <1>2, <1>4
    <2> HIDE DEF UpTo
    <2> QED
      BY <2>1, <2>2
  <1>6. T \subseteq Nat
    BY <1>1
  <1>7. calculatePercentile(values, percentile) = Min(T)
    BY <1>1 DEF calculatePercentile
  <1> HIDE DEF T
  <1> QED
    BY <1>5, <1>6, <1>7, MinOf

(* The settings of the engine are numbers, and ask for one sample at least  *)
(* (engine.go, applyStrategy and the recommendations of the spec).          *)
LEMMA EngineSettingsAreSound ==
  ASSUME NEW s, InSchema(s)
  PROVE  LET settings == EngineSettings(s) IN
         /\ settings.cpuPercentile \in Nat /\ settings.memoryPercentile \in Nat
         /\ settings.safetyMargin \in Nat
         /\ settings.minSamples \in Nat /\ settings.minSamples > 0
  <1> DEFINE Sound(e) ==
                 /\ DOMAIN e = {"cpuPercentile", "memoryPercentile", "safetyMargin",
                                "minSamples", "historyDuration"}
                 /\ e.cpuPercentile \in Nat /\ e.memoryPercentile \in Nat
                 /\ e.safetyMargin \in Nat /\ e.minSamples \in Nat /\ e.minSamples > 0
             top == s.recommendations
             base == IF top = None THEN DefaultSettings ELSE Overridden(DefaultSettings, top)
  <1>1. Sound(DefaultSettings)
    BY EngineAssumption
  <1>2. Sound(base)
    <2>1. CASE top = None
      BY <1>1, <2>1
    <2>2. CASE top # None
      <3>1. /\ top.cpuPercentile \in Int /\ top.memoryPercentile \in Int
            /\ top.safetyMargin \in Int /\ top.minSamples \in Int
        BY <2>2 DEF InSchema, Maybe
      <3>2. base = [f \in DOMAIN DefaultSettings |->
                       IF top[f] # None /\ top[f] > 0 THEN top[f] ELSE DefaultSettings[f]]
        BY <2>2 DEF Overridden, IsPositive
      <3> HIDE DEF base, top
      <3>3. /\ DOMAIN base = DOMAIN DefaultSettings
            /\ base.cpuPercentile = IF top.cpuPercentile # None /\ top.cpuPercentile > 0
                                    THEN top.cpuPercentile ELSE DefaultSettings.cpuPercentile
            /\ base.memoryPercentile = IF top.memoryPercentile # None /\ top.memoryPercentile > 0
                                       THEN top.memoryPercentile
                                       ELSE DefaultSettings.memoryPercentile
            /\ base.safetyMargin = IF top.safetyMargin # None /\ top.safetyMargin > 0
                                   THEN top.safetyMargin ELSE DefaultSettings.safetyMargin
            /\ base.minSamples = IF top.minSamples # None /\ top.minSamples > 0
                                 THEN top.minSamples ELSE DefaultSettings.minSamples
        BY <1>1, <3>2
      <3> QED
        BY <1>1, <3>1, <3>3
    <2> QED
      BY <2>1, <2>2
  <1>3. \A a \in Int, b \in Nat : Max({a, b}) \in Nat
    <2> TAKE a \in Int, b \in Nat
    <2>1. \E x \in {a, b} : x \in Nat /\ \A y \in {a, b} : x >= y
      OBVIOUS
    <2>2. \A x \in {a, b} : (\A y \in {a, b} : x >= y) => x \in Nat
      OBVIOUS
    <2> QED
      BY <2>1, <2>2 DEF Max
  <1>4. \A a \in Nat, b \in Nat : Min({a, b}) \in Nat
    BY MinOf
  <1>5. EngineSettings(s) = applyStrategy(s.strategy, base)
    BY DEF EngineSettings
  <1> HIDE DEF base
  <1> DEFINE e == applyStrategy(s.strategy, base)
  <1>6. CASE s.strategy = "aggressive"
    <2>1. e = [base EXCEPT !.cpuPercentile = Max({@ - 10, 50}),
                           !.memoryPercentile = Max({@ - 5, 50}),
                           !.safetyMargin = Max({@ - 10, 100})]
      BY <1>6 DEF applyStrategy
    <2>2. /\ e.cpuPercentile = Max({base.cpuPercentile - 10, 50})
          /\ e.memoryPercentile = Max({base.memoryPercentile - 5, 50})
          /\ e.safetyMargin = Max({base.safetyMargin - 10, 100})
          /\ e.minSamples = base.minSamples
      BY <1>2, <2>1
    <2> HIDE DEF e
    <2> QED
      BY <1>2, <1>3, <1>5, <2>2 DEF e
  <1>7. CASE s.strategy = "conservative"
    <2>1. e = [base EXCEPT !.cpuPercentile = Min({@ + 4, 99}),
                           !.memoryPercentile = Min({@ + 4, 99}),
                           !.safetyMargin = Min({@ + 20, 200})]
      BY <1>7 DEF applyStrategy
    <2>2. /\ e.cpuPercentile = Min({base.cpuPercentile + 4, 99})
          /\ e.memoryPercentile = Min({base.memoryPercentile + 4, 99})
          /\ e.safetyMargin = Min({base.safetyMargin + 20, 200})
          /\ e.minSamples = base.minSamples
      BY <1>2, <2>1
    <2> HIDE DEF e
    <2> QED
      BY <1>2, <1>4, <1>5, <2>2 DEF e
  <1>8. CASE ~(s.strategy = "aggressive") /\ ~(s.strategy = "conservative")
    <2>1. e = base
      BY <1>8 DEF applyStrategy
    <2> HIDE DEF e
    <2> QED
      BY <1>2, <1>5, <2>1 DEF e
  <1> QED
    BY <1>6, <1>7, <1>8

-----------------------------------------------------------------------------

\* The pass.

Stored ==
    [pod : PodNames, at : 1..Horizon, containers : [{Container} -> Measured]]

Recommends(rec, cpu, memory) ==
    /\ rec.recommendedCPU \in
           applyThresholds(cpu, CPUReadings(spec.thresholds, "min"),
                           CPUReadings(spec.thresholds, "max"))
    /\ rec.recommendedMemory \in
           applyThresholds(memory, MemoryReadings(spec.thresholds, "min"),
                           MemoryReadings(spec.thresholds, "max"))

(* A pass compares what it has computed from the load with the requests in  *)
(* a sample, bounds it, and writes it if the settings agree (engine.go:     *)
(* 575-686, reconciler.go:437-471).                                         *)
LEMMA PassRecommends ==
  ASSUME TypeOK, Pass, NEW S, S \subseteq Stored, \A p \in PodNames : history[p] \in Seq(S)
  PROVE  \E m \in S, cpu \in Nat, memory \in Nat : \E rec :
             /\ rec.currentCPU = m.containers[Container].requestCPU
             /\ rec.currentMemory = m.containers[Container].requestMemory
             /\ Recommends(rec, cpu, memory)
             /\ MayBeApplied(rec)
             /\ template' = Requests(Formatted(rec))
  <1> DEFINE settings == EngineSettings(spec)
             T == {containerSample(m, Container) : m \in S}
  <1>1. InSchema(spec) /\ DOMAIN history = PodNames
    BY OptimizationAssumption DEF TypeOK
  <1>2. /\ settings.cpuPercentile \in Nat /\ settings.memoryPercentile \in Nat
        /\ settings.safetyMargin \in Nat
        /\ settings.minSamples \in Nat /\ settings.minSamples > 0
    BY <1>1, EngineSettingsAreSound
  <1> HIDE DEF settings
  <1>3. PICK order \in SetToSeqs(PodNames) :
            /\ Container \in Recommendable(Metrics(order), Workload, {Container}, settings)
            /\ \E rec \in Recommendations(groupByWorkload(Metrics(order), Workload, Container)) :
                   MayBeApplied(rec) /\ template' = Requests(Formatted(rec))
    BY DEF Pass, settings
  <1> DEFINE samples == groupByWorkload(Metrics(order), Workload, Container)
             n == Len(samples)
             Values(f) == [i \in DOMAIN samples |-> samples[i][f]]
             cpuAt == calculatePercentile(Values("usageCPU"), settings.cpuPercentile)
             memoryAt == calculatePercentile(Values("usageMemory"), settings.memoryPercentile)
             cpu == (cpuAt * settings.safetyMargin) \div 100
             memory == (memoryAt * settings.safetyMargin) \div 100
  <1>4. samples \in Seq(T)
    <2>1. Metrics(order) \in Seq(S)
      BY <1>1, MetricsAreIn
    <2>2. \A m \in S : containerSample(m, Container) \in T
      OBVIOUS
    <2> HIDE DEF T
    <2> QED
      BY <2>1, <2>2, SamplesAreIn
  <1>5. n \in Nat /\ n > 0
    <2>1. n >= settings.minSamples
      BY <1>3 DEF Recommendable
    <2>2. n \in Nat
      BY <1>4
    <2> HIDE DEF n
    <2> QED
      BY <1>2, <2>1, <2>2
  <1>6. PICK rec \in Recommendations(samples) :
            MayBeApplied(rec) /\ template' = Requests(Formatted(rec))
    BY <1>3
  <1> HIDE DEF samples
  <1>7. \A i \in 1..n : /\ samples[i] \in T
                        /\ samples[i].usageCPU \in Nat /\ samples[i].usageMemory \in Nat
    <2>1. ASSUME NEW m \in S
          PROVE  /\ containerSample(m, Container).usageCPU \in Nat
                 /\ containerSample(m, Container).usageMemory \in Nat
      <3>1. m.containers[Container] \in Measured
        BY DEF Stored
      <3> QED
        BY <3>1 DEF containerSample, Measured
    <2> QED
      BY <1>4, <2>1
  <1>8. cpu \in Nat /\ memory \in Nat
    <2>1. Values("usageCPU") \in [1..n -> Nat] /\ Values("usageMemory") \in [1..n -> Nat]
      BY <1>4, <1>7
    <2> HIDE DEF Values, n
    <2>2. cpuAt \in Nat /\ memoryAt \in Nat
      BY <1>2, <1>5, <2>1, PercentileIsAmount
    <2> HIDE DEF cpuAt, memoryAt
    <2>3. cpuAt * settings.safetyMargin \in Nat /\ memoryAt * settings.safetyMargin \in Nat
      BY <1>2, <2>2, ProductIsNat
    <2> QED
      BY <2>3, DivFacts
  <1>9. /\ rec.currentCPU = Last(samples).requestCPU
        /\ rec.currentMemory = Last(samples).requestMemory
        /\ Recommends(rec, cpu, memory)
    BY <1>6 DEF Recommendations, generateContainerRecommendationWithOOM, Boosted, Recommends,
                settings
  <1> HIDE DEF cpu, memory
  <1>10. PICK m \in S : Last(samples) = containerSample(m, Container)
    BY <1>4, <1>5, <1>7 DEF Last
  <1>11. /\ rec.currentCPU = m.containers[Container].requestCPU
         /\ rec.currentMemory = m.containers[Container].requestMemory
    BY <1>9, <1>10 DEF containerSample
  <1> QED
    BY <1>6, <1>8, <1>9, <1>11

(* What a pass writes are amounts: of the CPU what it recommends, of the    *)
(* memory what formatMemory leaves.                                         *)
LEMMA PassWrites ==
  ASSUME InSchema(spec), ValidateCreate(spec), NEW cpu \in Nat, NEW memory \in Nat, NEW rec,
         Recommends(rec, cpu, memory)
  PROVE  LET written == Requests(Formatted(rec)) IN
         /\ rec.recommendedCPU \in Nat /\ rec.recommendedMemory \in Nat
         /\ written \in Request
         /\ written.requestCPU = rec.recommendedCPU
         /\ written.requestMemory = BytesOf(formatMemory(rec.recommendedMemory))
  <1>1. rec.recommendedCPU \in Nat /\ rec.recommendedMemory \in Nat
    <2>1. /\ \A side \in {"min", "max"} : \A r \in CPUReadings(spec.thresholds, side) : r \in Nat
          /\ \A side \in {"min", "max"} : \A r \in MemoryReadings(spec.thresholds, side) : r \in Nat
      BY ReadingsOfThresholds
    <2>2. \E min \in CPUReadings(spec.thresholds, "min"), max \in CPUReadings(spec.thresholds, "max") :
              rec.recommendedCPU = Bounded(cpu, min, max)
      BY DEF Recommends, applyThresholds
    <2>3. \E min \in MemoryReadings(spec.thresholds, "min"),
              max \in MemoryReadings(spec.thresholds, "max") :
              rec.recommendedMemory = Bounded(memory, min, max)
      BY DEF Recommends, applyThresholds
    <2> QED
      BY <2>1, <2>2, <2>3, BoundedIsWithin
  <1>2. /\ MillicoresOf(formatCPU(rec.recommendedCPU)) = rec.recommendedCPU
        /\ BytesOf(formatMemory(rec.recommendedMemory)) \in Nat
    BY <1>1, CPUIsKept, MemoryIsRounded
  <1> QED
    BY <1>1, <1>2 DEF Requests, Formatted, Request

-----------------------------------------------------------------------------

LEMMA InitIsTyped ==
  ASSUME Init
  PROVE  TypeOK
  <1>1. PICK p \in PodNames : pods = [q \in {p} |-> template]
    BY DEF Init
  <1>2. DOMAIN pods = {p} /\ pods[p] = template /\ template \in Request
    BY <1>1, OptimizationAssumption DEF Init
  <1>3. clock = 1 /\ clock \in 1..Horizon /\ spec \in Specs /\ updates \in 0..MaxUpdates
    BY OptimizationAssumption DEF Init
  <1>4. history = [q \in PodNames |-> <<>>]
    BY DEF Init, NewStorage
  <1> QED
    BY <1>2, <1>3, <1>4 DEF TypeOK

LEMMA ScrapeIsTyped ==
  ASSUME TypeOK, Scrape
  PROVE  TypeOK'
  <1>1. clock \in 1..Horizon /\ clock' = clock + 1 /\ clock' \in 1..Horizon
    BY OptimizationAssumption DEF TypeOK, Scrape
  <1>2. PICK usage \in [DOMAIN pods -> Usages] :
            history' = [p \in PodNames |->
                IF p \notin DOMAIN pods THEN <<>>
                ELSE Append(history[p], PodMetric(p, usage[p], clock'))]
    BY DEF Scrape
  <1>3. ASSUME NEW p \in DOMAIN pods
        PROVE  PodMetric(p, usage[p], clock') \in Stored
    <2>1. usage[p].usageCPU \in Nat /\ usage[p].usageMemory \in Nat
      BY <1>2, OptimizationAssumption
    <2>2. p \in PodNames /\ pods[p].requestCPU \in Nat /\ pods[p].requestMemory \in Nat
      BY DEF TypeOK, Request
    <2>3. Containers(p, usage[p]) \in [{Container} -> Measured]
      BY <2>1, <2>2 DEF Containers, Measured
    <2> QED
      BY <1>1, <2>2, <2>3 DEF PodMetric, Stored
  <1>4. ASSUME NEW p \in PodNames
        PROVE  history'[p] \in Seq(Stored) /\ Len(history'[p]) <= clock'
    <2>1. history[p] \in Seq(Stored) /\ Len(history[p]) <= clock
      BY DEF TypeOK, Stored
    <2>2. CASE p \notin DOMAIN pods
      BY <1>1, <1>2, <2>2
    <2>3. CASE p \in DOMAIN pods
      <3> DEFINE metric == PodMetric(p, usage[p], clock')
      <3>1. history'[p] = Append(history[p], metric) /\ metric \in Stored
        BY <1>2, <1>3, <2>3
      <3> HIDE DEF metric
      <3> QED
        BY <1>1, <2>1, <3>1
    <2> QED
      BY <2>2, <2>3
  <1>5. history' \in [PodNames -> Seq(Stored)]
    BY <1>2, <1>4
  <1> QED
    BY <1>1, <1>4, <1>5 DEF TypeOK, Scrape, Stored

LEMMA PodsAreTyped ==
  ASSUME TypeOK, NEW p \in PodNames, PodComes(p) \/ PodGoes(p)
  PROVE  TypeOK'
  <1>1. CASE PodComes(p)
    <2>1. pods' = [q \in DOMAIN pods \cup {p} |-> IF q = p THEN template ELSE pods[q]]
      BY <1>1 DEF PodComes
    <2>2. /\ DOMAIN pods' # {} /\ DOMAIN pods' \subseteq PodNames
          /\ \A q \in DOMAIN pods' : pods'[q] \in Request
      BY <2>1 DEF TypeOK
    <2> QED
      BY <1>1, <2>2 DEF TypeOK, PodComes
  <1>2. CASE PodGoes(p)
    <2>1. pods' = [q \in DOMAIN pods \ {p} |-> pods[q]] /\ p \in DOMAIN pods /\ DOMAIN pods # {p}
      BY <1>2 DEF PodGoes
    <2>2. /\ DOMAIN pods' # {} /\ DOMAIN pods' \subseteq PodNames
          /\ \A q \in DOMAIN pods' : pods'[q] \in Request
      BY <2>1 DEF TypeOK
    <2> QED
      BY <1>2, <2>2 DEF TypeOK, PodGoes
  <1> QED
    BY <1>1, <1>2

LEMMA PassIsTyped ==
  ASSUME TypeOK, Pass
  PROVE  TypeOK'
  <1>1. InSchema(spec) /\ ValidateCreate(spec)
    BY OptimizationAssumption DEF TypeOK
  <1>2. \A p \in PodNames : history[p] \in Seq(Stored)
    BY DEF TypeOK, Stored
  <1>p. PICK cpu \in Nat, memory \in Nat :
            \E rec : Recommends(rec, cpu, memory) /\ template' = Requests(Formatted(rec))
    BY <1>2, PassRecommends
  <1>3. PICK rec : Recommends(rec, cpu, memory) /\ template' = Requests(Formatted(rec))
    BY <1>p
  <1>4. template' \in Request
    BY <1>1, <1>3, PassWrites
  <1>5. /\ UNCHANGED <<clock, spec, pods, history>>
        /\ updates < MaxUpdates /\ updates' = updates + 1
    BY DEF Pass
  <1>6. updates' \in 0..MaxUpdates
    BY <1>5, OptimizationAssumption DEF TypeOK
  <1> QED
    BY <1>4, <1>5, <1>6 DEF TypeOK

LEMMA TypesArePreserved ==
  ASSUME TypeOK, [Next]_vars
  PROVE  TypeOK'
  <1>1. CASE Pass
    BY <1>1, PassIsTyped
  <1>2. CASE Scrape
    BY <1>2, ScrapeIsTyped
  <1>3. CASE Tick
    <2>1. clock' \in 1..Horizon /\ clock' = clock + 1 /\ clock \in Nat
      BY <1>3, OptimizationAssumption DEF TypeOK, Tick
    <2>2. \A p \in PodNames : Len(history[p]) \in Nat /\ Len(history[p]) <= clock
      BY DEF TypeOK
    <2>3. \A p \in PodNames : Len(history[p]) <= clock'
      BY <2>1, <2>2
    <2>4. UNCHANGED <<spec, template, pods, history, updates>>
      BY <1>3 DEF Tick
    <2> QED
      BY <2>1, <2>3, <2>4 DEF TypeOK
  <1>4. CASE \E p \in PodNames : PodComes(p) \/ PodGoes(p)
    BY <1>4, PodsAreTyped
  <1>5. CASE UNCHANGED vars
    BY <1>5 DEF TypeOK, vars
  <1> QED
    BY <1>1, <1>2, <1>3, <1>4, <1>5 DEF Next, Environment

(* What is stored, what is read in thresholds and what a pass writes are    *)
(* amounts: no margin, threshold or unit makes a request of anything else   *)
(* (engine.go:575-812, reconciler.go:569-586).                              *)
THEOREM TypeCorrect == Spec => []TypeOK
  <1>1. Init => TypeOK
    BY InitIsTyped
  <1>2. TypeOK /\ [Next]_vars => TypeOK'
    BY TypesArePreserved
  <1> QED
    BY <1>1, <1>2, PTL DEF Spec

-----------------------------------------------------------------------------

LEMMA CPUIsWithin ==
  ASSUME InSchema(spec), ValidateCreate(spec), spec.thresholds # None, spec.thresholds.cpu # None,
         NEW cpu \in Nat, NEW memory \in Nat, NEW rec, Recommends(rec, cpu, memory),
         ReadInOrder(CPUReadings(spec.thresholds, "min"), CPUReadings(spec.thresholds, "max"))
  PROVE  /\ \A min \in CPUReadings(spec.thresholds, "min") : min <= rec.recommendedCPU
         /\ 0 \notin CPUReadings(spec.thresholds, "max") =>
                rec.recommendedCPU <= MillicoresOf(spec.thresholds.cpu.max)
  <1> DEFINE minReadings == CPUReadings(spec.thresholds, "min")
             maxReadings == CPUReadings(spec.thresholds, "max")
             top == MillicoresOf(spec.thresholds.cpu.max)
  <1>1. PICK min \in minReadings, max \in maxReadings : rec.recommendedCPU = Bounded(cpu, min, max)
    BY DEF Recommends, applyThresholds
  <1>2. minReadings = {min} /\ min \in Nat
    BY ReadingsOfThresholds
  <1>3. max \in Nat /\ max <= top
    BY ReadingsOfThresholds
  <1>4. max = 0 \/ min <= max
    BY DEF ReadInOrder
  <1>5. top \in Nat
    <2>1. IsLimit(spec.thresholds.cpu.max, CPUUnits)
      BY LimitsAreGiven
    <2> DEFINE q == spec.thresholds.cpu.max
    <2>2. q.n \in Nat /\ Core \in Nat /\ Core \div 2 \in Nat /\ q.n * Core \in Nat
      BY <2>1, QuantitiesAssumption, HalvesAreNat, ProductIsNat DEF IsLimit
    <2> QED
      BY <2>2 DEF MillicoresOf
  <1> HIDE DEF top
  <1>6. /\ rec.recommendedCPU \in Nat /\ min <= rec.recommendedCPU
        /\ max # 0 => rec.recommendedCPU <= top
    <2>1. /\ Bounded(cpu, min, max) \in Nat /\ min <= Bounded(cpu, min, max)
          /\ max # 0 => Bounded(cpu, min, max) <= max
      BY <1>2, <1>3, <1>4, BoundedIsWithin
    <2> QED
      BY <1>1, <1>3, <1>5, <2>1
  <1> HIDE DEF minReadings, maxReadings
  <1>7. (\A m \in minReadings : m <= rec.recommendedCPU) /\ (0 \notin maxReadings => max # 0)
    BY <1>1, <1>2, <1>6
  <1> QED
    BY <1>6, <1>7 DEF minReadings, maxReadings, top

LEMMA MemoryIsWithin ==
  ASSUME InSchema(spec), ValidateCreate(spec), spec.thresholds # None, spec.thresholds.memory # None,
         NEW cpu \in Nat, NEW memory \in Nat, NEW rec, Recommends(rec, cpu, memory),
         ReadInOrder(MemoryReadings(spec.thresholds, "min"), MemoryReadings(spec.thresholds, "max"))
  PROVE  LET written == BytesOf(formatMemory(rec.recommendedMemory)) IN
         /\ \E min \in MemoryReadings(spec.thresholds, "min") : min < written + UnitOf(min)
         /\ 0 \notin MemoryReadings(spec.thresholds, "max") =>
                written <= BytesOf(spec.thresholds.memory.max)
  <1> DEFINE minReadings == MemoryReadings(spec.thresholds, "min")
             maxReadings == MemoryReadings(spec.thresholds, "max")
             top == BytesOf(spec.thresholds.memory.max)
             written == BytesOf(formatMemory(rec.recommendedMemory))
  <1>1. PICK min \in minReadings, max \in maxReadings :
            rec.recommendedMemory = Bounded(memory, min, max)
    BY DEF Recommends, applyThresholds
  <1>2. min \in Nat
    BY ReadingsOfThresholds
  <1>3. max \in Nat /\ max <= top
    BY ReadingsOfThresholds
  <1>4. max = 0 \/ min <= max
    BY DEF ReadInOrder
  <1>5. top \in Nat
    <2> DEFINE q == spec.thresholds.memory.max
    <2>1. IsLimit(q, MemoryUnits)
      BY LimitsAreGiven
    <2>2. q.n \in Nat /\ Factor(q.unit) \in Nat /\ Factor(q.unit) \div 2 \in Nat
      BY <2>1, FactorsArePositive, HalvesAreNat DEF IsLimit
    <2>3. q.n * Factor(q.unit) \in Nat
      BY <2>2, ProductIsNat
    <2> QED
      BY <2>2, <2>3 DEF BytesOf
  <1> HIDE DEF top
  <1>6. /\ rec.recommendedMemory \in Nat /\ min <= rec.recommendedMemory
        /\ max # 0 => rec.recommendedMemory <= top
    <2>1. /\ Bounded(memory, min, max) \in Nat /\ min <= Bounded(memory, min, max)
          /\ max # 0 => Bounded(memory, min, max) <= max
      BY <1>2, <1>3, <1>4, BoundedIsWithin
    <2> QED
      BY <1>1, <1>3, <1>5, <2>1
  <1>7. /\ written \in Nat /\ written <= rec.recommendedMemory
        /\ min < written + UnitOf(min)
    BY <1>2, <1>6, MemoryIsRounded
  <1>8. max # 0 => written <= top
    <2> HIDE DEF written
    <2> QED
      BY <1>5, <1>6, <1>7
  <1> HIDE DEF minReadings, maxReadings, written
  <1> QED
    BY <1>7, <1>8 DEF minReadings, maxReadings, written, top

LEMMA PassStaysWithin ==
  ASSUME TypeOK, Pass
  PROVE  WithinReadings'
  <1>1. InSchema(spec) /\ ValidateCreate(spec)
    BY OptimizationAssumption DEF TypeOK
  <1>2. \A p \in PodNames : history[p] \in Seq(Stored)
    BY DEF TypeOK, Stored
  <1>p. PICK cpu \in Nat, memory \in Nat :
            \E rec : Recommends(rec, cpu, memory) /\ template' = Requests(Formatted(rec))
    BY <1>2, PassRecommends
  <1>3. PICK rec : Recommends(rec, cpu, memory) /\ template' = Requests(Formatted(rec))
    BY <1>p
  <1>4. /\ template'.requestCPU = rec.recommendedCPU
        /\ template'.requestMemory = BytesOf(formatMemory(rec.recommendedMemory))
    BY <1>1, <1>3, PassWrites
  <1>5. spec' = spec
    BY DEF Pass
  <1> QED
    BY <1>1, <1>3, <1>4, <1>5, CPUIsWithin, MemoryIsWithin DEF WithinReadings

(* What the passes write stays within the thresholds as far as these are    *)
(* read in order, for every load, strategy, radix, threshold and order of   *)
(* the samples (engine.go:604-639, 717-812, reconciler.go:437-446,          *)
(* 569-586).                                                                *)
THEOREM StaysWithinReadings == Spec => []WithinReadings
  <1>1. Init => WithinReadings
    BY DEF Init, WithinReadings
  <1>2. TypeOK /\ WithinReadings /\ [Next]_vars => WithinReadings'
    <2> SUFFICES ASSUME TypeOK, WithinReadings, [Next]_vars
                 PROVE  WithinReadings'
      OBVIOUS
    <2>1. CASE Pass
      BY <2>1, PassStaysWithin
    <2>2. CASE UNCHANGED <<spec, template, updates>>
      BY <2>2 DEF WithinReadings
    <2> QED
      BY <2>1, <2>2 DEF Next, Environment, Tick, Scrape, PodComes, PodGoes, vars
  <1> QED
    BY <1>1, <1>2, TypeCorrect, PTL DEF Spec

-----------------------------------------------------------------------------

\* Limits of a change.

LEMMA MaxOfTwo ==
  ASSUME NEW a \in Int, NEW b \in Int
  PROVE  Max({a, b}) = IF a >= b THEN a ELSE b
  <1>1. \E x \in {a, b} : \A y \in {a, b} : x >= y
    OBVIOUS
  <1>2. \A x \in {a, b} : (\A y \in {a, b} : x >= y) => x = IF a >= b THEN a ELSE b
    OBVIOUS
  <1> QED
    BY <1>1, <1>2 DEF Max

Distance(a, b) == Max({a - b, b - a})

LEMMA DistanceIs ==
  ASSUME NEW a \in Nat, NEW b \in Nat
  PROVE  Distance(a, b) = (IF a >= b THEN a - b ELSE b - a) /\ Distance(a, b) \in Nat
  <1>1. Distance(a, b) = IF a - b >= b - a THEN a - b ELSE b - a
    BY MaxOfTwo DEF Distance
  <1> QED
    BY <1>1

(* A change that is let through is one within the limit, and where nothing  *)
(* was, one of 100 percent (engine.go, calculateChangePercent).             *)
LEMMA PercentIsLimit ==
  ASSUME NEW t \in Nat, NEW r \in Nat, NEW m \in Nat, calculateChangePercent(t, r) <= m
  PROVE  /\ t > 0 => Distance(r, t) * 100 <= m * t
         /\ t = 0 /\ r > 0 => m >= 100
  <1>1. CASE t = 0
    BY <1>1 DEF calculateChangePercent
  <1>2. CASE t > 0
    <2> DEFINE d == Distance(r, t)
               c == (d * 100 + t - 1) \div t
    <2>1. d \in Nat
      BY DistanceIs
    <2>2. c <= m
      BY <1>2 DEF calculateChangePercent, Distance
    <2> HIDE DEF d
    <2>3. d * 100 + t - 1 \in Nat
      BY <1>2, <2>1
    <2>4. c \in Nat /\ d * 100 + t - 1 < c * t + t
      BY <1>2, <2>3, DivFacts
    <2> HIDE DEF c
    <2>5. c * t <= m * t /\ c * t \in Nat /\ m * t \in Nat
      BY <2>2, <2>4, ProductGrows, ProductIsNat
    <2> DEFINE ct == c * t
               mt == m * t
    <2>6. ct <= mt /\ ct \in Nat /\ mt \in Nat /\ d * 100 + t - 1 < ct + t
      BY <2>4, <2>5
    <2> HIDE DEF ct, mt
    <2>7. d * 100 <= mt
      BY <2>1, <2>6
    <2> QED
      BY <1>2, <2>7 DEF d, mt
  <1> QED
    BY <1>1, <1>2

LEMMA PercentIsInt ==
  ASSUME NEW t \in Nat, NEW r \in Nat
  PROVE  calculateChangePercent(t, r) \in Int
  <1>1. CASE t = 0
    BY <1>1 DEF calculateChangePercent
  <1>2. CASE t > 0
    <2> DEFINE d == Distance(r, t)
    <2>1. d \in Nat
      BY DistanceIs
    <2>2. calculateChangePercent(t, r) = (d * 100 + t - 1) \div t
      BY <1>2 DEF calculateChangePercent, Distance
    <2> HIDE DEF d
    <2>3. d * 100 + t - 1 \in Nat
      BY <1>2, <2>1
    <2> QED
      BY <1>2, <2>2, <2>3, DivFacts
  <1> QED
    BY <1>1, <1>2

(* The digits that are dropped move the memory by less than a unit of what  *)
(* was in force.                                                            *)
LEMMA RoundingIsLimited ==
  ASSUME NEW t \in Nat, NEW r \in Nat
  PROVE  LET written == BytesOf(formatMemory(r)) IN
         /\ UnitOf(t) \in Nat
         /\ Distance(written, t) - UnitOf(t) <= Distance(r, t)
  <1> DEFINE written == BytesOf(formatMemory(r))
  <1>1. /\ written \in Nat /\ written <= r
        /\ r < written + UnitOf(r)
        /\ t <= r => t < written + UnitOf(t)
    BY MemoryIsRounded
  <1>2. UnitOf(t) \in Nat /\ UnitOf(r) \in Nat /\ (r < t => UnitOf(r) <= UnitOf(t))
    BY UnitValues, FactorsGrow
  <1> HIDE DEF written
  <1>3. /\ Distance(written, t) = IF written >= t THEN written - t ELSE t - written
        /\ Distance(r, t) = IF r >= t THEN r - t ELSE t - r
    BY <1>1, DistanceIs
  <1>4. Distance(written, t) - UnitOf(t) <= Distance(r, t)
    BY <1>1, <1>2, <1>3
  <1> QED
    BY <1>2, <1>4 DEF written

(* The requests that a pass writes, from those that are in force when the   *)
(* samples say so.                                                          *)
LEMMA ChangeIsWithin ==
  ASSUME NEW t \in Request, NEW w \in Request, NEW cpu \in Nat, NEW memory \in Nat,
         w.requestCPU = cpu, w.requestMemory = BytesOf(formatMemory(memory)),
         NEW m \in Nat,
         calculateChangePercent(t.requestCPU, cpu) <= m,
         calculateChangePercent(t.requestMemory, memory) <= m
  PROVE  /\ \/ (Distance(w.requestCPU, t.requestCPU) - 0) * 100 <= m * t.requestCPU
            \/ t.requestCPU = 0 /\ w.requestCPU > 0 /\ m >= 100
         /\ \/ (Distance(w.requestMemory, t.requestMemory) - UnitOf(t.requestMemory)) * 100
                   <= m * t.requestMemory
            \/ t.requestMemory = 0 /\ w.requestMemory > 0 /\ m >= 100
  <1> DEFINE tc == t.requestCPU
             tm == t.requestMemory
             wm == w.requestMemory
  <1>1. tc \in Nat /\ tm \in Nat /\ wm \in Nat
    BY DEF Request
  <1>2. wm <= memory
    BY MemoryIsRounded
  <1>3. \/ (Distance(cpu, tc) - 0) * 100 <= m * tc
        \/ tc = 0 /\ cpu > 0 /\ m >= 100
    <2>1. CASE tc > 0
      <3>1. Distance(cpu, tc) * 100 <= m * tc /\ Distance(cpu, tc) \in Nat
        BY <1>1, <2>1, PercentIsLimit, DistanceIs
      <3>2. Distance(cpu, tc) - 0 = Distance(cpu, tc)
        BY <3>1
      <3> QED
        BY <3>1, <3>2
    <2>2. CASE tc = 0 /\ cpu > 0
      BY <1>1, <2>2, PercentIsLimit
    <2>3. CASE tc = 0 /\ cpu = 0
      <3>1. Distance(cpu, tc) = 0
        BY <2>3, DistanceIs
      <3> QED
        BY <2>3, <3>1
    <2> QED
      BY <1>1, <2>1, <2>2, <2>3
  <1>4. \/ (Distance(wm, tm) - UnitOf(tm)) * 100 <= m * tm
        \/ tm = 0 /\ wm > 0 /\ m >= 100
    <2>1. CASE tm > 0
      <3> DEFINE d == Distance(memory, tm)
                 e == Distance(wm, tm)
                 u == UnitOf(tm)
                 mt == m * tm
      <3>1. d * 100 <= mt
        BY <1>1, <2>1, PercentIsLimit
      <3>2. e - u <= d /\ u \in Nat
        BY <1>1, RoundingIsLimited
      <3>3. d \in Nat /\ e \in Nat /\ mt \in Nat
        BY <1>1, DistanceIs, ProductIsNat
      <3> HIDE DEF d, e, u, mt
      <3>4. (e - u) * 100 <= mt
        BY <3>1, <3>2, <3>3
      <3> QED
        BY <3>4 DEF e, u, mt
    <2>2. CASE tm = 0 /\ wm > 0
      BY <1>1, <1>2, <2>2, PercentIsLimit
    <2>3. CASE tm = 0 /\ wm = 0
      <3>1. Distance(wm, tm) = 0
        BY <2>3, DistanceIs
      <3>2. UnitOf(tm) = 1
        BY <2>3, UnitValues, FactorsGrow
      <3>3. (0 - 1) * 100 <= m * 0
        OBVIOUS
      <3> QED
        BY <2>3, <3>1, <3>2, <3>3
    <2> QED
      BY <1>1, <2>1, <2>2, <2>3
  <1> QED
    BY <1>3, <1>4

-----------------------------------------------------------------------------

LEMMA ChangesArePasses ==
  ASSUME Next, template' # template
  PROVE  Pass
  BY DEF Next, Environment, Tick, Scrape, PodComes, PodGoes

LEMMA OnlyInForce ==
  ASSUME TypeOK, Settled
  PROVE  LET InForce == {m \in Stored : \A f \in DOMAIN template :
                                            m.containers[Container][f] = template[f]} IN
         \A p \in PodNames : history[p] \in Seq(InForce)
  <1> DEFINE InForce == {m \in Stored : \A f \in DOMAIN template :
                                            m.containers[Container][f] = template[f]}
  <1> SUFFICES ASSUME NEW p \in PodNames
               PROVE  history[p] \in Seq(InForce)
    OBVIOUS
  <1>1. history[p] \in Seq(Stored)
    BY DEF TypeOK, Stored
  <1>2. \A i \in 1..Len(history[p]) : history[p][i] \in InForce
    BY <1>1 DEF Settled
  <1> HIDE DEF InForce
  <1> QED
    BY <1>1, <1>2

LEMMA ResolvedLimit ==
  ASSUME spec \in Specs, CanResolve(DefaultProfiles, spec)
  PROVE  Resolve(DefaultProfiles, spec).maxChangePercent \in Int
  <1>1. DOMAIN DefaultProfiles = {"production", "staging", "development", "test"}
    BY DEF DefaultProfiles
  <1>2. InSchema(spec) /\ ValidateCreate(spec)
    BY OptimizationAssumption
  <1>3. spec.profile \in {"", "custom", "production", "staging", "development", "test"}
    BY <1>1 DEF CanResolve
  <1> QED
    BY <1>2, <1>3, ResolvedIsValid DEF ValidSettings

LEMMA PassIsLimited ==
  ASSUME TypeOK, Pass, Settled, CanResolve(DefaultProfiles, spec)
  PROVE  ChangeWithin(Resolve(DefaultProfiles, spec))
  <1> DEFINE resolved == Resolve(DefaultProfiles, spec)
             limit == resolved.maxChangePercent
             InForce == {m \in Stored : \A f \in DOMAIN template :
                                            m.containers[Container][f] = template[f]}
  <1>1. InSchema(spec) /\ ValidateCreate(spec) /\ template \in Request /\ limit \in Int
    BY OptimizationAssumption, ResolvedLimit DEF TypeOK
  <1>2. InForce \subseteq Stored /\ \A p \in PodNames : history[p] \in Seq(InForce)
    BY OnlyInForce
  <1>3. DOMAIN template = {"requestCPU", "requestMemory"}
    BY <1>1 DEF Request
  <1> HIDE DEF resolved
  <1>p. PICK m \in InForce, cpu \in Nat, memory \in Nat : \E rec :
            /\ rec.currentCPU = m.containers[Container].requestCPU
            /\ rec.currentMemory = m.containers[Container].requestMemory
            /\ Recommends(rec, cpu, memory)
            /\ MayBeApplied(rec)
            /\ template' = Requests(Formatted(rec))
    <2> HIDE DEF InForce
    <2> QED
      BY <1>2, PassRecommends
  <1>4. PICK rec :
            /\ rec.currentCPU = m.containers[Container].requestCPU
            /\ rec.currentMemory = m.containers[Container].requestMemory
            /\ Recommends(rec, cpu, memory)
            /\ MayBeApplied(rec)
            /\ template' = Requests(Formatted(rec))
    BY <1>p
  <1>5. rec.currentCPU = template.requestCPU /\ rec.currentMemory = template.requestMemory
    BY <1>3, <1>4
  <1>6. /\ rec.recommendedCPU \in Nat /\ rec.recommendedMemory \in Nat
        /\ template' \in Request
        /\ template'.requestCPU = rec.recommendedCPU
        /\ template'.requestMemory = BytesOf(formatMemory(rec.recommendedMemory))
    BY <1>1, <1>4, PassWrites
  <1> HIDE DEF InForce
  <1> SUFFICES ASSUME limit > 0
               PROVE  /\ \/ (Distance(template'.requestCPU, template.requestCPU) - 0) * 100
                                <= limit * template.requestCPU
                         \/ /\ template.requestCPU = 0 /\ template'.requestCPU > 0
                            /\ limit >= 100
                      /\ \/ (Distance(template'.requestMemory, template.requestMemory)
                                 - UnitOf(template.requestMemory)) * 100
                                <= limit * template.requestMemory
                         \/ /\ template.requestMemory = 0 /\ template'.requestMemory > 0
                            /\ limit >= 100
    BY DEF ChangeWithin, Distance, resolved
  <1>7. MaxChangePercent(rec) <= limit
    BY <1>4 DEF MayBeApplied, ShouldApplyRecommendation, resolved
  <1>8. /\ calculateChangePercent(template.requestCPU, rec.recommendedCPU) <= limit
        /\ calculateChangePercent(template.requestMemory, rec.recommendedMemory) <= limit
    <2> DEFINE a == calculateChangePercent(template.requestCPU, rec.recommendedCPU)
               b == calculateChangePercent(template.requestMemory, rec.recommendedMemory)
    <2>1. a \in Int /\ b \in Int
      BY <1>1, <1>6, PercentIsInt DEF Request
    <2>2. MaxChangePercent(rec) = Max({a, b})
      BY <1>5 DEF MaxChangePercent
    <2> HIDE DEF a, b
    <2> QED
      BY <1>1, <1>7, <2>1, <2>2, MaxOfTwo DEF a, b
  <1>9. limit \in Nat
    BY <1>1
  <1> HIDE DEF limit
  <1> QED
    BY <1>1, <1>6, <1>8, <1>9, ChangeIsWithin

(* While no rollout is under way, no pass changes a request by more than    *)
(* the resolved settings allow and formatMemory drops: the percent of the   *)
(* recommendation is one of what is in force, for both resources            *)
(* (resolver.go:308, engine.go:604-662, reconciler.go:456-468).             *)
THEOREM ChangeIsLimited == Spec => LimitedWhenSettled
  <1> DEFINE Limited == (Settled /\ CanResolve(DefaultProfiles, spec))
                            => ChangeWithin(Resolve(DefaultProfiles, spec))
  <1>1. TypeOK /\ [Next]_vars => [Limited]_template
    <2> SUFFICES ASSUME TypeOK, Next, template' # template
                 PROVE  Limited
      BY DEF vars
    <2>1. Pass
      BY ChangesArePasses
    <2> QED
      BY <2>1, PassIsLimited
  <1> QED
    BY <1>1, TypeCorrect, PTL DEF Spec, LimitedWhenSettled

-----------------------------------------------------------------------------

(* Every step that changes the template is a pass that the resolved         *)
(* settings let through (reconciler.go:456-471).                            *)
LEMMA ChangesAreResolved ==
  ASSUME Next, template' # template, CanResolve(DefaultProfiles, spec)
  PROVE  ~Resolve(DefaultProfiles, spec).requireApproval
  <1>1. Pass
    BY ChangesArePasses
  <1>2. PICK rec : MayBeApplied(rec)
    BY <1>1 DEF Pass
  <1> QED
    BY <1>2 DEF MayBeApplied, ShouldApplyRecommendation

(* Whatever the metrics, the thresholds and the percentiles: nothing is     *)
(* changed under the production profile without the express word that no    *)
(* approval is needed (resolver.go:312-314).                                *)
THEOREM ApprovalHolds == Spec => NoUnapprovedChange
  <1> DEFINE Approved == spec.profile = "production" =>
                             spec.overrides # None /\ spec.overrides.requireApproval = FALSE
  <1>1. TypeOK /\ [Next]_vars => [Approved]_template
    <2> SUFFICES ASSUME TypeOK, Next, template' # template,
                        spec.profile = "production",
                        ~(spec.overrides # None /\ spec.overrides.requireApproval = FALSE)
                 PROVE  FALSE
      BY DEF vars
    <2>1. InSchema(spec) /\ ValidateCreate(spec)
      BY OptimizationAssumption DEF TypeOK
    <2>2. Resolve(DefaultProfiles, spec).requireApproval = TRUE
      BY <2>1, ProductionAsksForApproval
    <2>3. CanResolve(DefaultProfiles, spec)
      BY DEF CanResolve, DefaultProfiles
    <2> QED
      BY <2>2, <2>3, ChangesAreResolved
  <1> QED
    BY <1>1, TypeCorrect, PTL DEF Spec, NoUnapprovedChange

=============================================================================
