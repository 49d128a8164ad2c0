-------------------------- MODULE Reconciler_proofs --------------------------
(***************************************************************************)
(* The safety invariants of Reconciler for any number of workloads,        *)
(* containers and passes, any specs, thresholds and timeout.               *)
(***************************************************************************)
EXTENDS Reconciler, TLAPS

(* A clock tick keeps an age within its bound.                             *)
LEMMA OlderTyped ==
  ASSUME NEW a \in Age
  PROVE  Older(a) \in Age
  <1>1. CASE a \in 0..(Timeout - 1)
    BY <1>1, BreakerAssumption DEF Older, Age
  <1>2. CASE a \notin 0..(Timeout - 1)
    BY <1>2 DEF Older
  <1> QED
    BY <1>1, <1>2

(* Each method of the breaker maps a circuit status to a circuit status    *)
(* (circuit_breaker.go:22-119).                                            *)
LEMMA MethodsTyped ==
  ASSUME NEW b, NEW s \in CircuitStatus
  PROVE  /\ AfterShouldAllow(s) \in CircuitStatus
         /\ AfterSuccess(b, s) \in CircuitStatus
         /\ AfterFailure(b, s) \in CircuitStatus
         /\ Aged(s) \in CircuitStatus
  <1>0. 0 \in Age /\ s.sinceUpdate \in Age
    BY BreakerAssumption DEF CircuitStatus, Age
  <1> USE DEF CircuitStatus, CircuitState
  <1>1. AfterShouldAllow(s) \in CircuitStatus
    BY <1>0 DEF AfterShouldAllow, Circuit
  <1>2. AfterSuccess(b, s) \in CircuitStatus
    BY <1>0 DEF AfterSuccess, Closes, Circuit
  <1>3. AfterFailure(b, s) \in CircuitStatus
    BY <1>0 DEF AfterFailure, Trips, Circuit
  <1>4. Aged(s) \in CircuitStatus
    <2>1. Older(s.sinceUpdate) \in Age
      BY <1>0, OlderTyped
    <2> QED
      BY <2>1 DEF Aged
  <1> QED
    BY <1>1, <1>2, <1>3, <1>4

-----------------------------------------------------------------------------

Names == SUBSET Workloads

\* The ghost's type.
SeenOK ==
    seen \in [updated : Names, tight : Names, hpas : Names, blind : Names,
              tried : BOOLEAN, completed : BOOLEAN, failing : Nat]

\* A pass was let in by every gate, and its copy of the spec and the status
\* still says so; between passes nothing has been updated.
Gated ==
    IF pc = "idle"
    THEN seen.updated = {}
    ELSE /\ config.spec.enabled
         /\ config.status.activeWindow \/ config.spec.dryRun
         /\ config.spec.breaker => config.status.circuit.circuitState # "Open"

Updating == pc \in {"update", "rollout"}

\* A dry run never gets as far as an update.
LiveUpdates ==
    (Updating \/ seen.updated # {}) => pc # "idle" /\ ~config.spec.dryRun

\* What the observer has seen all along is so now, and the workload about to
\* be updated has been seen to be free.
TightKnown == seen.tight \subseteq tight /\ (pc = "update" => workload \notin seen.tight)

HPAKnown ==
    /\ seen.hpas \subseteq hpas
    /\ (pc \in {"pdb", "containers", "update", "rollout"} /\ config.spec.hpa = "Skip")
           => workload \notin seen.hpas \ seen.blind

(* Of the four invariants only PhaseTellsCircuit is inductive: the others   *)
(* speak of the updates made, and the conjuncts above carry what the gates  *)
(* and the checks found to the step that makes one.                         *)
IInv ==
    /\ TypeOK /\ SeenOK
    /\ Gated /\ LiveUpdates
    /\ TightKnown /\ TightBudgetSpared
    /\ HPAKnown /\ HPASkipHonoured
    /\ PhaseTellsCircuit

-----------------------------------------------------------------------------

(* Every config a user may store has the fields the gates look at.         *)
LEMMA SpecFields ==
  ASSUME NEW s \in Specs
  PROVE  /\ s.enabled \in BOOLEAN /\ s.dryRun \in BOOLEAN
         /\ s.breaker \in BOOLEAN /\ s.windows \in BOOLEAN
  BY ReconcilerAssumption

(* Setting a condition changes nothing else of a status                    *)
(* (reconciler.go:447-475).                                                *)
LEMMA SetTrueTyped ==
  ASSUME NEW s \in Status, NEW c \in {"Ready", "HPAConflict", "PDBViolation"}
  PROVE  /\ SetTrue(s, c) \in Status
         /\ SetTrue(s, c).phase = s.phase
         /\ SetTrue(s, c).circuit = s.circuit
         /\ SetTrue(s, c).activeWindow = s.activeWindow
  BY DEF SetTrue, Status

(* A pass the breaker admits leaves the gates with a circuit that is not   *)
(* open, and keeps PhaseTellsCircuit (reconciler.go:103-146).              *)
LEMMA GatesKept ==
  ASSUME spec \in Specs, status \in Status, inWindow \in BOOLEAN, Admitted
  PROVE  /\ AfterGates \in Status
         /\ AfterGates.activeWindow = WindowOpen
         /\ AfterGates.phase = status.phase
         /\ spec.breaker => AfterGates.circuit.circuitState # "Open"
         /\ status.circuit.circuitState # "Closed"
               => AfterGates.circuit.circuitState # "Closed"
  <1> DEFINE c == IF spec.breaker THEN AfterShouldAllow(status.circuit) ELSE status.circuit
  <1>1. status.circuit \in CircuitStatus
    BY DEF Status
  <1>2. c \in CircuitStatus
    BY <1>1, MethodsTyped
  <1>3. WindowOpen \in BOOLEAN
    BY SpecFields DEF WindowOpen
  <1>4. /\ spec.breaker => c.circuitState # "Open"
        /\ status.circuit.circuitState # "Closed" => c.circuitState # "Closed"
    BY <1>1, SpecFields
       DEF Admitted, Allows, AfterShouldAllow, TimedOut, Circuit, CircuitStatus, CircuitState
  <1>5. AfterGates = [status EXCEPT !.circuit = c, !.activeWindow = WindowOpen]
    BY DEF AfterGates
  <1> HIDE DEF c
  <1>6. /\ AfterGates \in Status
        /\ AfterGates.circuit = c
        /\ AfterGates.activeWindow = WindowOpen
        /\ AfterGates.phase = status.phase
    BY <1>2, <1>3, <1>5 DEF Status
  <1> QED
    BY <1>4, <1>6

(* The tail of Reconcile leaves a status in the phase Active               *)
(* (reconciler.go:170-189).                                                *)
LEMMA ReconciledTyped ==
  ASSUME NEW s \in Status, NEW failed \in BOOLEAN, config.spec \in Specs
  PROVE  Reconciled(s, failed) \in Status /\ Reconciled(s, failed).phase = "Active"
  <1> DEFINE recorded == IF config.spec.breaker /\ failed THEN AfterFailure(Breaker, s.circuit)
                         ELSE s.circuit
             circuit == IF config.spec.breaker THEN AfterSuccess(Breaker, recorded) ELSE recorded
             t == [s EXCEPT !.phase = "Active", !.circuit = circuit]
  <1>1. recorded \in CircuitStatus
    BY MethodsTyped DEF Status
  <1>2. circuit \in CircuitStatus
    BY <1>1, MethodsTyped
  <1>3. t \in Status /\ t.phase = "Active"
    <2> HIDE DEF circuit
    <2> QED
      BY <1>2 DEF Status, Phase
  <1>4. Reconciled(s, failed) = SetTrue(t, "Ready")
    BY DEF Reconciled
  <1> QED
    <2> HIDE DEF t
    <2> QED
      BY <1>3, <1>4, SetTrueTyped

-----------------------------------------------------------------------------

LEMMA InitIInv == Init => IInv
  <1> SUFFICES ASSUME Init
               PROVE  IInv
    OBVIOUS
  <1> USE DEF Init
  <1>1. NewCircuit \in CircuitStatus
    <2>1. Never \in Age
      BY DEF Age
    <2> QED
      BY <2>1 DEF NewCircuit, Circuit, CircuitStatus, CircuitState
  <1>2. TypeOK
    <2>1. status \in Status
      BY <1>1 DEF Status, Phase
    <2>2. MaxPasses \in Nat
      BY ReconcilerAssumption
    <2>3. 0 \in 0..MaxPasses
      BY ONLY <2>2
    <2> QED
      BY <2>1, <2>3 DEF TypeOK
  <1>3. SeenOK
    BY DEF SeenOK, Observer, Names
  <1>4. Gated /\ LiveUpdates /\ TightKnown /\ TightBudgetSpared
    BY DEF Gated, LiveUpdates, Updating, TightKnown, TightBudgetSpared, Observer
  <1>5. HPAKnown /\ HPASkipHonoured /\ PhaseTellsCircuit
    BY DEF HPAKnown, HPASkipHonoured, PhaseTellsCircuit, Observer
  <1> QED
    BY <1>2, <1>3, <1>4, <1>5 DEF IInv

(* A pass the gates end, and the clock, change the status alone.           *)
LEMMA StatusAlone ==
  ASSUME IInv, UNCHANGED <<env, pass, seen>>, status' \in Status, PhaseTellsCircuit'
  PROVE  IInv'
  <1> USE DEF IInv, env, pass
  <1>1. TypeOK' /\ SeenOK'
    BY DEF TypeOK, SeenOK
  <1>2. Gated' /\ LiveUpdates' /\ TightKnown' /\ TightBudgetSpared'
    BY DEF Gated, LiveUpdates, Updating, TightKnown, TightBudgetSpared
  <1>3. HPAKnown' /\ HPASkipHonoured'
    BY DEF HPAKnown, HPASkipHonoured
  <1> QED
    BY <1>1, <1>2, <1>3

LEMMA GatesKeepIInv ==
  ASSUME IInv, PassDisabled \/ PassInitializes \/ PassRefused \/ PassOutsideWindow \/ Tick
  PROVE  IInv'
  <1>s. /\ status \in Status /\ spec \in Specs /\ inWindow \in BOOLEAN
        /\ status.circuit \in CircuitStatus
        /\ PhaseTellsCircuit
    BY DEF IInv, TypeOK, Status
  <1>u. UNCHANGED <<env, pass, seen>>
    BY DEF PassDisabled, PassInitializes, PassRefused, PassOutsideWindow, Tick
  <1>1. CASE PassDisabled \/ PassInitializes
    <2>1. status' \in Status /\ status'.phase \in {"Paused", "Pending"}
      BY <1>s, <1>1 DEF PassDisabled, PassInitializes, Status, Phase
    <2> QED
      BY <1>u, <2>1, StatusAlone DEF PhaseTellsCircuit
  <1>2. CASE PassRefused
    <2>1. status' \in Status /\ status'.circuit = status.circuit
      BY <1>s, <1>2 DEF PassRefused, Status, Phase
    <2>2. status.circuit.circuitState = "Open"
      BY <1>s, <1>2, SpecFields DEF PassRefused, Admitted, Allows, CircuitStatus, CircuitState
    <2> QED
      BY <1>u, <2>1, <2>2, StatusAlone DEF PhaseTellsCircuit
  <1>3. CASE PassOutsideWindow
    <2>1. status' = AfterGates /\ Admitted
      BY <1>3 DEF PassOutsideWindow
    <2>2. /\ AfterGates \in Status
          /\ AfterGates.phase = status.phase
          /\ status.circuit.circuitState # "Closed"
                 => AfterGates.circuit.circuitState # "Closed"
      BY <1>s, <2>1, GatesKept
    <2> QED
      BY <1>s, <1>u, <2>1, <2>2, StatusAlone DEF PhaseTellsCircuit
  <1>4. CASE Tick
    <2>1. Aged(status.circuit) \in CircuitStatus
      BY <1>s, MethodsTyped
    <2>2. Aged(status.circuit).circuitState = status.circuit.circuitState
      BY <1>s DEF Aged, CircuitStatus
    <2>3. /\ status' \in Status
          /\ status'.phase = status.phase
          /\ status'.circuit = Aged(status.circuit)
      BY <1>s, <1>4, <2>1 DEF Tick, Status
    <2> QED
      BY <1>s, <1>u, <2>2, <2>3, StatusAlone DEF PhaseTellsCircuit
  <1> QED
    BY <1>1, <1>2, <1>3, <1>4

LEMMA PassStartKeepsIInv ==
  ASSUME IInv, PassStart
  PROVE  IInv'
  <1>s. status \in Status /\ spec \in Specs /\ inWindow \in BOOLEAN /\ passes \in 0..MaxPasses
    BY DEF IInv, TypeOK
  <1>n. seen.failing \in Nat /\ tight \in Names /\ hpas \in Names
    BY DEF IInv, TypeOK, SeenOK, Names
  <1>u. UNCHANGED <<env, status, workload, left>> /\ pc = "idle" /\ Admitted /\ MayUpdate
    BY DEF PassStart, AtBreaker
  <1>p. pc' \in {"failed", "done", "workloads"} /\ todo' \in Names
    BY DEF PassStart, Names
  <1>c. config' = [spec |-> spec, status |-> AfterGates, current |-> TRUE]
    BY DEF PassStart
  <1>o. seen' = Observer(tight, hpas, seen.failing)
    BY DEF PassStart
  <1>g. /\ AfterGates \in Status
        /\ AfterGates.activeWindow = WindowOpen
        /\ spec.breaker => AfterGates.circuit.circuitState # "Open"
    BY <1>s, <1>u, GatesKept
  <1>1. TypeOK'
    <2>1. passes' \in 0..MaxPasses
      BY <1>s, ReconcilerAssumption DEF PassStart
    <2>2. config' \in [spec : Specs, status : Status, current : BOOLEAN]
      BY <1>s, <1>c, <1>g
    <2>3. workload' = None
      BY <1>u DEF IInv, TypeOK
    <2> QED
      BY <1>u, <1>p, <2>1, <2>2, <2>3 DEF IInv, TypeOK, env, Names
  <1>2. SeenOK'
    BY <1>n, <1>o DEF SeenOK, Observer, Names
  <1>3. Gated'
    <2>1. spec.enabled
      BY DEF PassStart, AtBreaker
    <2>2. WindowOpen \/ spec.dryRun
      BY <1>u DEF MayUpdate
    <2> QED
      BY <1>p, <1>c, <1>g, <2>1, <2>2 DEF Gated
  <1>4. LiveUpdates' /\ TightBudgetSpared' /\ HPASkipHonoured'
    BY <1>p, <1>o DEF LiveUpdates, Updating, TightBudgetSpared, HPASkipHonoured, Observer
  <1>5. TightKnown' /\ HPAKnown'
    BY <1>u, <1>p, <1>o DEF TightKnown, HPAKnown, Observer, env
  <1>6. PhaseTellsCircuit'
    BY <1>u DEF IInv, PhaseTellsCircuit
  <1> QED
    BY <1>1, <1>2, <1>3, <1>4, <1>5, <1>6 DEF IInv

LEMMA CheckHPAKeepsIInv ==
  ASSUME IInv, CheckHPA
  PROVE  IInv'
  <1> PICK w \in todo, answered \in BOOLEAN :
        /\ seen' = IF answered THEN seen ELSE [seen EXCEPT !.blind = @ \cup {w}]
        /\ IF HPASkips(w, answered)
           THEN /\ config' = [config EXCEPT !.status = SetTrue(@, "HPAConflict")]
                /\ Continue(todo \ {w})
           ELSE /\ todo' = todo \ {w}
                /\ workload' = w
                /\ pc' = "pdb"
                /\ UNCHANGED config
    BY DEF CheckHPA
  <1>u. pc = "workloads" /\ UNCHANGED <<env, status, left, passes>>
    BY DEF CheckHPA
  <1>c. config \in [spec : Specs, status : Status, current : BOOLEAN] /\ w \in Workloads
    BY <1>u DEF IInv, TypeOK
  <1>n. seen \in [updated : Names, tight : Names, hpas : Names, blind : Names,
                  tried : BOOLEAN, completed : BOOLEAN, failing : Nat]
    BY DEF IInv, SeenOK
  <1>o. /\ SeenOK'
        /\ seen'.updated = seen.updated /\ seen'.tight = seen.tight /\ seen'.hpas = seen.hpas
        /\ seen'.blind = IF answered THEN seen.blind ELSE seen.blind \cup {w}
    BY <1>c, <1>n DEF SeenOK, Names
  <1>d. /\ config' \in [spec : Specs, status : Status, current : BOOLEAN]
        /\ config'.spec = config.spec
        /\ config'.status.activeWindow = config.status.activeWindow
        /\ config'.status.circuit = config.status.circuit
    <2>1. CASE HPASkips(w, answered)
      <3>1. /\ SetTrue(config.status, "HPAConflict") \in Status
            /\ SetTrue(config.status, "HPAConflict").activeWindow = config.status.activeWindow
            /\ SetTrue(config.status, "HPAConflict").circuit = config.status.circuit
        BY <1>c, SetTrueTyped
      <3> QED
        BY <1>c, <2>1, <3>1
    <2>2. CASE ~HPASkips(w, answered)
      BY <1>c, <2>2
    <2> QED
      BY <2>1, <2>2
  <1>p. /\ pc' \in {"done", "workloads"} /\ workload' = None /\ HPASkips(w, answered)
        \/ /\ pc' = "pdb" /\ workload' = w /\ ~HPASkips(w, answered)
    BY DEF Continue
  <1>t. todo' = todo \ {w}
    BY DEF Continue
  <1>1. TypeOK'
    BY <1>u, <1>c, <1>d, <1>p, <1>t DEF IInv, TypeOK, env
  <1>2. Gated' /\ LiveUpdates'
    BY <1>u, <1>o, <1>d, <1>p DEF IInv, Gated, LiveUpdates, Updating
  <1>3. TightKnown' /\ TightBudgetSpared'
    BY <1>u, <1>o, <1>p DEF IInv, TightKnown, TightBudgetSpared, env
  <1>4. HPAKnown'
    <2>1. seen'.hpas \subseteq hpas'
      BY <1>u, <1>o DEF IInv, HPAKnown, env
    <2>2. (pc' = "pdb" /\ config'.spec.hpa = "Skip") => w \notin seen'.hpas \ seen'.blind
      BY <1>u, <1>o, <1>d, <1>p, <2>1 DEF HPASkips, env
    <2> QED
      BY <1>p, <2>1, <2>2 DEF HPAKnown
  <1>5. HPASkipHonoured'
    BY <1>u, <1>o, <1>d DEF IInv, HPASkipHonoured
  <1>6. PhaseTellsCircuit'
    BY <1>u DEF IInv, PhaseTellsCircuit
  <1> QED
    BY <1>1, <1>o, <1>2, <1>3, <1>4, <1>5, <1>6 DEF IInv

(* Going on to the next container or workload, with the observer's record   *)
(* of updates as it is, and at most a condition set.                        *)
LEMMA GoingOnKeepsIInv ==
  ASSUME IInv, pc \in {"pdb", "containers", "update", "rollout"},
         pc' \in {"done", "workloads", "containers"},
         IF pc' = "containers" THEN UNCHANGED workload ELSE workload' = None,
         todo' \subseteq todo, left' \subseteq Containers,
         config' \in [spec : Specs, status : Status, current : BOOLEAN],
         config'.spec = config.spec,
         config'.status.activeWindow = config.status.activeWindow,
         config'.status.circuit = config.status.circuit,
         seen' \in {seen, [seen EXCEPT !.completed = TRUE]},
         UNCHANGED <<env, status, passes>>
  PROVE  IInv'
  <1>n. seen \in [updated : Names, tight : Names, hpas : Names, blind : Names,
                  tried : BOOLEAN, completed : BOOLEAN, failing : Nat]
    BY DEF IInv, SeenOK
  <1>o. /\ SeenOK'
        /\ seen'.updated = seen.updated /\ seen'.tight = seen.tight
        /\ seen'.hpas = seen.hpas /\ seen'.blind = seen.blind
    BY <1>n DEF SeenOK
  <1>1. TypeOK'
    BY DEF IInv, TypeOK, env
  <1>2. Gated' /\ LiveUpdates'
    BY <1>o DEF IInv, Gated, LiveUpdates, Updating
  <1>3. TightKnown' /\ TightBudgetSpared'
    BY <1>o DEF IInv, TightKnown, TightBudgetSpared, env
  <1>4. HPAKnown' /\ HPASkipHonoured'
    BY <1>o DEF IInv, HPAKnown, HPASkipHonoured, env
  <1>5. PhaseTellsCircuit'
    BY DEF IInv, PhaseTellsCircuit
  <1> QED
    BY <1>1, <1>o, <1>2, <1>3, <1>4, <1>5 DEF IInv

LEMMA CheckPDBKeepsIInv ==
  ASSUME IInv, CheckPDB
  PROVE  IInv'
  <1>c. /\ config \in [spec : Specs, status : Status, current : BOOLEAN]
        /\ left \subseteq Containers /\ pc = "pdb"
    BY DEF CheckPDB, IInv, TypeOK
  <1>u. UNCHANGED <<env, status, passes, seen>>
    BY DEF CheckPDB
  <1>k. /\ pc' \in {"done", "workloads", "containers"} /\ todo' \subseteq todo
        /\ IF pc' = "containers" THEN UNCHANGED workload ELSE workload' = None
        /\ left' \subseteq Containers
    BY <1>c DEF CheckPDB, Continue
  <1>d. /\ config' \in [spec : Specs, status : Status, current : BOOLEAN]
        /\ config'.spec = config.spec
        /\ config'.status.activeWindow = config.status.activeWindow
        /\ config'.status.circuit = config.status.circuit
    <2>1. CASE config' = [config EXCEPT !.status = SetTrue(@, "PDBViolation")]
      <3>1. /\ SetTrue(config.status, "PDBViolation") \in Status
            /\ SetTrue(config.status, "PDBViolation").activeWindow = config.status.activeWindow
            /\ SetTrue(config.status, "PDBViolation").circuit = config.status.circuit
        BY <1>c, SetTrueTyped
      <3> QED
        BY <1>c, <2>1, <3>1
    <2>2. CASE UNCHANGED config
      BY <1>c, <2>2
    <2> QED
      BY <2>1, <2>2 DEF CheckPDB
  <1> QED
    BY <1>c, <1>u, <1>k, <1>d, GoingOnKeepsIInv

LEMMA ContainersKeepIInv ==
  ASSUME IInv,
         PassOver \/ ApplyRefused \/ UpdateFails \/ RolloutCompletes \/ RolloutTimesOut
  PROVE  IInv'
  <1>1. PICK c \in left : Finish(c)
    BY DEF PassOver, ApplyRefused, UpdateFails, RolloutCompletes, RolloutTimesOut
  <1>2. /\ pc \in {"containers", "update", "rollout"}
        /\ UNCHANGED <<env, status, config, passes>>
        /\ seen' \in {seen, [seen EXCEPT !.completed = TRUE]}
    BY DEF PassOver, ApplyRefused, UpdateFails, RolloutCompletes, RolloutTimesOut
  <1>3. /\ config \in [spec : Specs, status : Status, current : BOOLEAN]
        /\ left \subseteq Containers
    BY <1>2 DEF IInv, TypeOK
  <1>4. /\ pc' \in {"done", "workloads", "containers"} /\ todo' \subseteq todo
        /\ IF pc' = "containers" THEN UNCHANGED workload ELSE workload' = None
        /\ left' \subseteq Containers
    BY <1>1, <1>3 DEF Finish, Continue
  <1> QED
    BY <1>2, <1>3, <1>4, GoingOnKeepsIInv

(* Getting to the update: the scaler has just seen the budget, and the HPA  *)
(* check let the workload through.                                          *)
LEMMA ApplyBeginsKeepsIInv ==
  ASSUME IInv, ApplyBegins
  PROVE  IInv'
  <1>1. /\ pc = "containers" /\ pc' = "update" /\ ~config.spec.dryRun /\ workload \notin tight
        /\ seen' = [seen EXCEPT !.tried = TRUE]
        /\ UNCHANGED <<env, status, config, todo, workload, left, passes>>
    BY DEF ApplyBegins, ScalerRefuses
  <1>o. /\ SeenOK'
        /\ seen'.updated = seen.updated /\ seen'.tight = seen.tight
        /\ seen'.hpas = seen.hpas /\ seen'.blind = seen.blind
    BY <1>1 DEF IInv, SeenOK
  <1>2. TypeOK'
    BY <1>1 DEF IInv, TypeOK, env
  <1>3. Gated' /\ LiveUpdates'
    BY <1>1, <1>o DEF IInv, Gated, LiveUpdates, Updating
  <1>4. TightKnown' /\ TightBudgetSpared'
    BY <1>1, <1>o DEF IInv, TightKnown, TightBudgetSpared, env
  <1>5. HPAKnown' /\ HPASkipHonoured' /\ PhaseTellsCircuit'
    BY <1>1, <1>o DEF IInv, HPAKnown, HPASkipHonoured, PhaseTellsCircuit, env
  <1> QED
    BY <1>o, <1>2, <1>3, <1>4, <1>5 DEF IInv

LEMMA UpdateWorkloadKeepsIInv ==
  ASSUME IInv, UpdateWorkload
  PROVE  IInv'
  <1>1. /\ pc = "update" /\ pc' = "rollout"
        /\ seen' = [seen EXCEPT !.updated = @ \cup {workload}]
        /\ UNCHANGED <<env, status, config, todo, workload, left, passes>>
    BY DEF UpdateWorkload
  <1>w. workload \in Workloads
    BY <1>1 DEF IInv, TypeOK
  <1>n. seen \in [updated : Names, tight : Names, hpas : Names, blind : Names,
                  tried : BOOLEAN, completed : BOOLEAN, failing : Nat]
    BY DEF IInv, SeenOK
  <1>o. /\ SeenOK'
        /\ seen'.updated = seen.updated \cup {workload} /\ seen'.tight = seen.tight
        /\ seen'.hpas = seen.hpas /\ seen'.blind = seen.blind
    BY <1>1, <1>w, <1>n DEF SeenOK, Names
  <1>2. TypeOK'
    BY <1>1 DEF IInv, TypeOK, env
  <1>3. Gated' /\ LiveUpdates'
    BY <1>1 DEF IInv, Gated, LiveUpdates, Updating
  <1>4. TightKnown' /\ TightBudgetSpared'
    BY <1>1, <1>o DEF IInv, TightKnown, TightBudgetSpared, env
  <1>5. HPAKnown' /\ HPASkipHonoured' /\ PhaseTellsCircuit'
    BY <1>1, <1>o DEF IInv, HPAKnown, HPASkipHonoured, PhaseTellsCircuit, env
  <1> QED
    BY <1>o, <1>2, <1>3, <1>4, <1>5 DEF IInv

LEMMA PassEndsKeepsIInv ==
  ASSUME IInv, PassEnds
  PROVE  IInv'
  <1>1. /\ pc \in {"done", "failed"} /\ pc' = "idle" /\ config' = None
        /\ UNCHANGED <<env, todo, workload, left, passes>>
        /\ \/ status' = Reconciled(config.status, pc = "failed")
           \/ UNCHANGED status
    BY DEF PassEnds
  <1>2. PICK n \in Nat : seen' = Observer({}, {}, n)
    <2>1. seen.failing \in Nat /\ seen.failing + 1 \in Nat
      BY DEF IInv, SeenOK
    <2> QED
      BY <2>1 DEF PassEnds
  <1>3. status' \in Status /\ PhaseTellsCircuit'
    <2>1. config \in [spec : Specs, status : Status, current : BOOLEAN]
      BY <1>1 DEF IInv, TypeOK
    <2>2. CASE UNCHANGED status
      BY <2>2 DEF IInv, TypeOK, PhaseTellsCircuit
    <2>3. CASE status' = Reconciled(config.status, pc = "failed")
      <3>1. config.status \in Status /\ config.spec \in Specs /\ (pc = "failed") \in BOOLEAN
        BY <2>1
      <3>2. status' \in Status /\ status'.phase = "Active"
        BY <2>3, <3>1, ReconciledTyped
      <3> QED
        BY <3>2 DEF PhaseTellsCircuit
    <2> QED
      BY <1>1, <2>2, <2>3
  <1>4. TypeOK' /\ SeenOK'
    BY <1>1, <1>2, <1>3 DEF IInv, TypeOK, SeenOK, Observer, Names, env
  <1>5. Gated' /\ LiveUpdates' /\ TightKnown' /\ TightBudgetSpared'
    BY <1>1, <1>2 DEF Gated, LiveUpdates, Updating, TightKnown, TightBudgetSpared, Observer
  <1>6. HPAKnown' /\ HPASkipHonoured'
    BY <1>1, <1>2 DEF HPAKnown, HPASkipHonoured, Observer
  <1> QED
    BY <1>3, <1>4, <1>5, <1>6 DEF IInv

(* The user, the clock, the HPAs and the budgets change between the steps   *)
(* of a pass, which goes on with the copies it has.                         *)
LEMMA EnvironmentKeepsIInv ==
  ASSUME IInv, UserEdits \/ WindowTurns \/ HPAChanges \/ BudgetChanges
  PROVE  IInv'
  <1>u. UNCHANGED <<status, pc, todo, workload, left, passes>>
    BY DEF UserEdits, WindowTurns, HPAChanges, BudgetChanges, pass
  <1>c. /\ pc = "idle" => config' = None
        /\ pc # "idle" => /\ config' \in [spec : Specs, status : Status, current : BOOLEAN]
                         /\ config'.spec = config.spec /\ config'.status = config.status
    BY DEF IInv, TypeOK, UserEdits, WindowTurns, HPAChanges, BudgetChanges, pass
  <1>e. /\ spec' \in Specs /\ inWindow' \in BOOLEAN
        /\ hpas' \subseteq Workloads /\ tight' \subseteq Workloads
    BY DEF IInv, TypeOK, UserEdits, WindowTurns, HPAChanges, BudgetChanges
  <1>o. /\ SeenOK'
        /\ seen'.updated = seen.updated /\ seen'.blind = seen.blind
        /\ seen'.tight \subseteq seen.tight /\ seen'.tight \subseteq tight'
        /\ seen'.hpas \subseteq seen.hpas /\ seen'.hpas \subseteq hpas'
    BY DEF IInv, SeenOK, TightKnown, HPAKnown, Names,
           UserEdits, WindowTurns, HPAChanges, BudgetChanges
  <1>1. TypeOK'
    BY <1>u, <1>c, <1>e DEF IInv, TypeOK
  <1>2. Gated' /\ LiveUpdates'
    BY <1>u, <1>c, <1>o DEF IInv, Gated, LiveUpdates, Updating
  <1>3. TightKnown' /\ TightBudgetSpared'
    BY <1>u, <1>o DEF IInv, TightKnown, TightBudgetSpared
  <1>4. HPAKnown' /\ HPASkipHonoured'
    BY <1>u, <1>c, <1>o DEF IInv, HPAKnown, HPASkipHonoured
  <1>5. PhaseTellsCircuit'
    BY <1>u DEF IInv, PhaseTellsCircuit
  <1> QED
    BY <1>o, <1>1, <1>2, <1>3, <1>4, <1>5 DEF IInv

-----------------------------------------------------------------------------

LEMMA NextIInv == IInv /\ [Next]_vars => IInv'
  <1> SUFFICES ASSUME IInv, [Next]_vars
               PROVE  IInv'
    OBVIOUS
  <1>1. CASE UNCHANGED vars
    BY <1>1 DEF vars, IInv, TypeOK, SeenOK, Gated, LiveUpdates, Updating, TightKnown,
                TightBudgetSpared, HPAKnown, HPASkipHonoured, PhaseTellsCircuit
  <1>2. CASE PassStep
    BY <1>2, GatesKeepIInv, PassStartKeepsIInv, CheckHPAKeepsIInv, CheckPDBKeepsIInv,
       ContainersKeepIInv, ApplyBeginsKeepsIInv, UpdateWorkloadKeepsIInv, PassEndsKeepsIInv
       DEF PassStep
  <1>3. CASE Environment
    BY <1>3, GatesKeepIInv, ContainersKeepIInv, EnvironmentKeepsIInv DEF Environment
  <1> QED
    BY <1>1, <1>2, <1>3 DEF Next

THEOREM Invariance == Spec => []IInv
  <1> QED
    BY InitIInv, NextIInv, PTL DEF Spec

(* Every reachable state of a config and its pass is well-formed            *)
(* (reconciler.go:84-190).                                                  *)
THEOREM TypeCorrect == Spec => []TypeOK
  <1>1. IInv => TypeOK
    BY DEF IInv
  <1> QED
    BY Invariance, <1>1, PTL

(* No pass updates a workload unless, when it began, the config was enabled *)
(* and live, the breaker let it pass and the window was open, whatever has  *)
(* changed since (reconciler.go:86-146).                                    *)
THEOREM GatesDecide == Spec => []UpdatesAreGated
  <1>1. IInv => UpdatesAreGated
    BY SpecFields DEF IInv, TypeOK, Gated, LiveUpdates, UpdatesAreGated
  <1> QED
    BY Invariance, <1>1, PTL

(* A workload whose budget is exhausted throughout a pass is never updated  *)
(* in it (vertical_scaler.go:98-105).                                       *)
THEOREM BudgetsHold == Spec => []TightBudgetSpared
  <1>1. IInv => TightBudgetSpared
    BY DEF IInv
  <1> QED
    BY Invariance, <1>1, PTL

(* The Skip policy holds back every workload an HPA scales throughout the   *)
(* pass, but for a failed check (reconciler.go:305-320).                    *)
THEOREM SkipHolds == Spec => []HPASkipHonoured
  <1>1. IInv => HPASkipHonoured
    BY DEF IInv
  <1> QED
    BY Invariance, <1>1, PTL

(* A config shown as CircuitOpen has a circuit that is not closed, also     *)
(* when edits and lost status updates come between (reconciler.go:103-146,  *)
(* 170-189).                                                                *)
THEOREM PhaseIsHonest == Spec => []PhaseTellsCircuit
  <1>1. IInv => PhaseTellsCircuit
    BY DEF IInv
  <1> QED
    BY Invariance, <1>1, PTL

=============================================================================
