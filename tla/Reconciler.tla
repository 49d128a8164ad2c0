----------------------------- MODULE Reconciler -----------------------------
(***************************************************************************)
(* One OptimizerConfig and the passes Reconciler.Reconcile makes over it   *)
(* (pkg/controller/reconciler.go), down to the calls the applier and the   *)
(* scaler make on the cluster (pkg/applier/applier.go, pkg/scaler/         *)
(* vertical_scaler.go).  A pass is not atomic: each cluster API call is a  *)
(* step of its own, a rollout takes minutes, and the user, the HPAs, the   *)
(* disruption budgets and the maintenance window change between the steps. *)
(* A pass works on the copy of the config it was given (config); its       *)
(* status is written back when it ends, unless the stored config has been  *)
(* edited since or the API server fails: then all it computed is lost.     *)
(*                                                                         *)
(* The workloads are Deployments: the engine's recommendations name no     *)
(* other kind.  Which workloads and containers get a recommendation, and   *)
(* which recommendation is passed over, is chosen freely.                  *)
(***************************************************************************)
EXTENDS CircuitBreaker, FiniteSets

CONSTANTS
    Workloads,       \* the Deployments of the target namespaces
    Containers,      \* the containers of each
    Specs,           \* the specs the user may give the OptimizerConfig
    HealthVerdicts,  \* what sla.ShouldBlockOptimization may answer; {FALSE} with
                     \* checkSystemHealth as shipped, which always reports health
    None,            \* no workload, no copy of the config
    ErrorThreshold,    \* spec.circuitBreaker.errorThreshold
    SuccessThreshold,  \* spec.circuitBreaker.successThreshold
    MaxPasses        \* bound: passes that reach the recommendations

ASSUME ReconcilerAssumption ==
    /\ Specs \subseteq [enabled : BOOLEAN, dryRun : BOOLEAN, breaker : BOOLEAN,
                        windows : BOOLEAN, hpa : {"Off", "Skip", "Warn", "Override"},
                        pdb : {"Off", "Respect", "Ignore"}]
    /\ Specs # {}
    /\ HealthVerdicts \in (SUBSET BOOLEAN) \ {{}}
    /\ MaxPasses \in Nat
    /\ ErrorThreshold \in Nat
    /\ SuccessThreshold \in Nat

VARIABLES
    spec,        \* the stored config.Spec
    status,      \* the stored config.Status
    inWindow,    \* the clock is inside one of the scheduled windows
    hpas,        \* workloads an HPA scales on CPU or memory now
    tight,       \* workloads whose PDB allows no disruption now
    pc,          \* the step the pass is at; "idle" between passes
    config,      \* the pass's copy of spec and status, and whether it is still current
    todo,        \* workloads of the pass not looked at yet
    workload,    \* the workload being processed
    left,        \* its containers not processed yet
    passes,      \* passes that reached the recommendations
    seen         \* ghost: what an observer of the pass has seen, see Observer

pass == <<pc, config, todo, workload, left, passes>>
env  == <<spec, inWindow, hpas, tight>>
vars == <<spec, status, inWindow, hpas, tight, pc, config, todo, workload, left, passes, seen>>

Breaker == [errorThreshold |-> ErrorThreshold, successThreshold |-> SuccessThreshold]

Phase == {"", "Pending", "Active", "Paused", "CircuitOpen"}

Status ==
    [phase : Phase, circuit : CircuitStatus, activeWindow : BOOLEAN,
     conditions : SUBSET {"Ready", "HPAConflict", "PDBViolation"}]

\* A condition of updateCondition's list that is present and True.
SetTrue(s, condition) == [s EXCEPT !.conditions = @ \cup {condition}]

\* What the observer has seen since the pass began: the workloads it has
\* updated, those whose budget has been tight and those an HPA has scaled
\* ever since, and those whose HPA check failed; whether an update was tried
\* and whether one came to completion; and the number of passes in a row whose
\* status was saved, in which something failed and nothing completed.
Observer(tightNow, hpasNow, failing) ==
    [updated |-> {}, tight |-> tightNow, hpas |-> hpasNow, blind |-> {},
     tried |-> FALSE, completed |-> FALSE, failing |-> failing]

Init ==
    /\ spec \in Specs
    /\ status = [phase |-> "", circuit |-> NewCircuit, activeWindow |-> FALSE,
                 conditions |-> {}]
    /\ inWindow \in BOOLEAN
    /\ hpas \in SUBSET Workloads
    /\ tight \in SUBSET Workloads
    /\ pc = "idle"
    /\ config = None
    /\ todo = {}
    /\ workload = None
    /\ left = {}
    /\ passes = 0
    /\ seen = Observer({}, {}, 0)

-----------------------------------------------------------------------------
(* The gates at the head of Reconcile. *)

\* Mutated: the phase and the message of updatePhase swapped.
PassDisabledSwapped ==
    /\ pc = "idle"
    /\ ~spec.enabled
    /\ status' = [status EXCEPT !.phase = "Disabled"]
    /\ UNCHANGED <<env, pass, seen>>

PassDisabled ==
    /\ pc = "idle"
    /\ ~spec.enabled
    /\ status' = [status EXCEPT !.phase = "Paused"]
    /\ UNCHANGED <<env, pass, seen>>

PassInitializes ==
    /\ pc = "idle"
    /\ spec.enabled
    /\ status.phase = ""
    /\ status' = [status EXCEPT !.phase = "Pending"]
    /\ UNCHANGED <<env, pass, seen>>

\* Enabled and initialized: the pass asks the breaker.
AtBreaker == pc = "idle" /\ spec.enabled /\ status.phase # ""

Admitted == spec.breaker => Allows(status.circuit)

PassRefused ==
    /\ AtBreaker
    /\ ~Admitted
    /\ status' = [status EXCEPT !.phase = "CircuitOpen"]
    /\ UNCHANGED <<env, pass, seen>>

\* IsInMaintenanceWindow: without windows every moment is inside one.
WindowOpen == spec.windows => inWindow

\* Mutated: the breaker closes as soon as its timeout has passed.
AfterGatesCloses ==
    [status EXCEPT
        !.circuit = IF spec.breaker /\ TimedOut(@) THEN NewCircuit ELSE @,
        !.activeWindow = WindowOpen]

\* The status once breaker and window have been looked at.
AfterGates ==
    [status EXCEPT
        !.circuit = IF spec.breaker THEN AfterShouldAllow(@) ELSE @,
        !.activeWindow = WindowOpen]

\* Mutated: a live pass starts whatever the window.
MayUpdateAnyTime == TRUE

MayUpdate == WindowOpen \/ spec.dryRun

PassOutsideWindow ==
    /\ AtBreaker
    /\ Admitted
    /\ ~MayUpdate
    /\ status' = AfterGates
    /\ UNCHANGED <<env, pass, seen>>

\* processRecommendations begins: a health verdict, then the workloads the
\* engine has a recommendation for.  Both are computed in memory.
PassStart ==
    /\ AtBreaker
    /\ Admitted
    /\ MayUpdate
    /\ passes < MaxPasses
    /\ passes' = passes + 1
    /\ config' = [spec |-> spec, status |-> AfterGates, current |-> TRUE]
    /\ seen' = Observer(tight, hpas, seen.failing)
    /\ \/ /\ TRUE \in HealthVerdicts
          /\ pc' = "failed"
          /\ todo' = {}
       \/ /\ FALSE \in HealthVerdicts
          /\ \E recs \in SUBSET Workloads :
                /\ todo' = recs
                /\ pc' = IF recs = {} THEN "done" ELSE "workloads"
    /\ UNCHANGED <<env, status, workload, left>>

-----------------------------------------------------------------------------
(* One workload: the HPA check, the PDB check, the anomaly check. *)

\* The loop over the recommendations goes on with the workloads in rest.
Continue(rest) ==
    /\ todo' = rest
    /\ workload' = None
    /\ pc' = IF rest = {} THEN "done" ELSE "workloads"

\* Mutated: the Skip policy only warns.
HPASkipsNever(w, answered) == FALSE

\* Only a check that was answered can hold a workload back.
HPASkips(w, answered) ==
    config.spec.hpa = "Skip" /\ answered /\ w \in hpas

CheckHPA ==
    /\ pc = "workloads"
    /\ \E w \in todo, answered \in BOOLEAN :
        /\ seen' = IF answered THEN seen ELSE [seen EXCEPT !.blind = @ \cup {w}]
        /\ IF HPASkips(w, answered)
           THEN /\ config' = [config EXCEPT !.status = SetTrue(@, "HPAConflict")]
                /\ Continue(todo \ {w})
           ELSE /\ todo' = todo \ {w}
                /\ workload' = w
                /\ pc' = "pdb"
                /\ UNCHANGED config
    /\ UNCHANGED <<env, status, left, passes>>

\* The reconciler's own check is skipped for dry runs, and lets the workload
\* pass when it fails or when minAvailable is not to be respected.
PDBSkips(answered) ==
    config.spec.pdb = "Respect" /\ ~config.spec.dryRun /\ answered /\ workload \in tight

CheckPDB ==
    /\ pc = "pdb"
    /\ \E answered, anomalous \in BOOLEAN :
        \/ /\ PDBSkips(answered)
           /\ config' = [config EXCEPT !.status = SetTrue(@, "PDBViolation")]
           /\ Continue(todo)
           /\ UNCHANGED left
        \/ /\ ~PDBSkips(answered)
           /\ anomalous
           /\ Continue(todo)
           /\ UNCHANGED <<config, left>>
        \/ /\ ~PDBSkips(answered)
           /\ ~anomalous
           /\ pc' = "containers"
           /\ left' = Containers
           /\ UNCHANGED <<config, todo, workload>>
    /\ UNCHANGED <<env, status, passes, seen>>

-----------------------------------------------------------------------------
(* One container: applier.Apply and scaler.ApplyRollingUpdate. *)

\* Container c is finished with, whatever came of it: Reconcile only logs an
\* error of Apply.
Finish(c) ==
    /\ left' = left \ {c}
    /\ IF left = {c}
       THEN Continue(todo)
       ELSE pc' = "containers" /\ UNCHANGED <<todo, workload>>

\* The recommendation changes nothing, the profile settings refuse it, or the
\* config is a dry run, for which the settings refuse it and DryRunApply only
\* logs.
PassOver ==
    /\ pc = "containers"
    /\ \E c \in left : Finish(c)
    /\ UNCHANGED <<env, status, config, passes, seen>>

\* Mutated: the scaler leaves the budget to the reconciler's check.
ScalerRefusesNever == FALSE

\* ApplyRollingUpdate checks the budget again, whatever spec.pdbAwareness says.
ScalerRefuses == workload \in tight

\* The scaler's check fails or forbids the update.
ApplyRefused ==
    /\ pc = "containers"
    /\ ~config.spec.dryRun
    /\ \E c \in left : Finish(c)
    /\ UNCHANGED <<env, status, config, passes, seen>>

\* The scaler's check passes: it goes on to Get and Update.
ApplyBegins ==
    /\ pc = "containers"
    /\ left # {}
    /\ ~config.spec.dryRun
    /\ ~ScalerRefuses
    /\ pc' = "update"
    /\ seen' = [seen EXCEPT !.tried = TRUE]
    /\ UNCHANGED <<env, status, config, todo, workload, left, passes>>

\* Get or Update fails: no such Deployment, a conflict, an API error.
UpdateFails ==
    /\ pc = "update"
    /\ \E c \in left : Finish(c)
    /\ UNCHANGED <<env, status, config, passes, seen>>

UpdateWorkload ==
    /\ pc = "update"
    /\ pc' = "rollout"
    /\ seen' = [seen EXCEPT !.updated = @ \cup {workload}]
    /\ UNCHANGED <<env, status, config, todo, workload, left, passes>>

\* The cluster finishes the rollout and a poll sees it.
RolloutCompletes ==
    /\ pc = "rollout"
    /\ \E c \in left : Finish(c)
    /\ seen' = [seen EXCEPT !.completed = TRUE]
    /\ UNCHANGED <<env, status, config, passes>>

\* Mutated: waitForRolloutComplete polls without a timeout.
RolloutTimesOutNever == FALSE

\* waitForRolloutComplete gives up after five minutes; the update stays.
RolloutTimesOut ==
    /\ pc = "rollout"
    /\ \E c \in left : Finish(c)
    /\ UNCHANGED <<env, status, config, passes, seen>>

-----------------------------------------------------------------------------
(* The tail of Reconcile. *)

\* The tail runs after a failure too: it records the failure, and then, like
\* every other pass, Active, Ready and a success.
Reconciled(s, failed) ==
    LET circuit == IF config.spec.breaker /\ failed THEN AfterFailure(Breaker, s.circuit)
                   ELSE s.circuit
    IN  SetTrue([s EXCEPT !.phase = "Active",
                          !.circuit = IF config.spec.breaker THEN AfterSuccess(Breaker, circuit)
                                      ELSE circuit], "Ready")

\* Nothing the pass tried came to completion.
Failing == ~seen.completed /\ (seen.tried \/ pc = "failed")

PassEnds ==
    /\ pc \in {"done", "failed"}
    /\ \/ /\ config.current
          /\ status' = Reconciled(config.status, pc = "failed")
          /\ seen' = Observer({}, {}, IF seen.completed THEN 0
                                     ELSE IF Failing THEN seen.failing + 1 ELSE seen.failing)
       \/ /\ UNCHANGED status      \* UpdateStatus fails or is a conflict
          /\ seen' = Observer({}, {}, seen.failing)
    /\ pc' = "idle"
    /\ config' = None
    /\ UNCHANGED <<env, todo, workload, left, passes>>

-----------------------------------------------------------------------------
(* Everything that is not the pass. *)

UserEdits ==
    /\ spec' \in Specs
    /\ config' = IF pc = "idle" THEN None ELSE [config EXCEPT !.current = FALSE]
    /\ UNCHANGED <<status, inWindow, hpas, tight, pc, todo, workload, left, passes, seen>>

WindowTurns ==
    /\ inWindow' = ~inWindow
    /\ UNCHANGED <<spec, status, hpas, tight, pass, seen>>

HPAChanges ==
    /\ hpas' \in SUBSET Workloads
    /\ seen' = [seen EXCEPT !.hpas = @ \cap hpas']
    /\ UNCHANGED <<spec, status, inWindow, tight, pass>>

BudgetChanges ==
    /\ tight' \in SUBSET Workloads
    /\ seen' = [seen EXCEPT !.tight = @ \cap tight']
    /\ UNCHANGED <<spec, status, inWindow, hpas, pass>>

\* Time passes between passes; nothing in a pass looks at LastUpdateTime
\* between its two ends.
Tick ==
    /\ pc = "idle"
    /\ status' = [status EXCEPT !.circuit = Aged(@)]
    /\ UNCHANGED <<env, pass, seen>>

PassStep ==
    \/ PassDisabled \/ PassInitializes \/ PassRefused \/ PassOutsideWindow \/ PassStart
    \/ CheckHPA \/ CheckPDB
    \/ PassOver \/ ApplyRefused \/ ApplyBegins \/ UpdateFails \/ UpdateWorkload
    \/ RolloutTimesOut
    \/ PassEnds

Environment == RolloutCompletes \/ UserEdits \/ WindowTurns \/ HPAChanges \/ BudgetChanges \/ Tick

Next == PassStep \/ Environment

Spec == Init /\ [][Next]_vars

\* The worker that runs the pass is scheduled and every API call returns: a
\* pass that can step does.  That a rollout completes is up to the cluster.
FairSpec == Spec /\ WF_vars(pc # "idle" /\ PassStep)

-----------------------------------------------------------------------------

TypeOK ==
    /\ spec \in Specs
    /\ status \in Status
    /\ inWindow \in BOOLEAN
    /\ hpas \subseteq Workloads /\ tight \subseteq Workloads
    /\ pc \in {"idle", "workloads", "pdb", "containers", "update", "rollout", "done", "failed"}
    /\ IF pc = "idle" THEN config = None
                      ELSE config \in [spec : Specs, status : Status, current : BOOLEAN]
    /\ todo \subseteq Workloads /\ left \subseteq Containers
    /\ IF pc \in {"pdb", "containers", "update", "rollout"}
       THEN workload \in Workloads ELSE workload = None
    /\ passes \in 0..MaxPasses

(* Whatever changes while a pass is under way, it updates a workload only   *)
(* if, when it began, the config was enabled and live, the breaker let it   *)
(* pass and the maintenance window was open (reconciler.go:86-146).         *)
UpdatesAreGated ==
    seen.updated # {} =>
        /\ config.spec.enabled /\ ~config.spec.dryRun
        /\ config.status.activeWindow
        /\ config.spec.breaker => config.status.circuit.circuitState # "Open"

(* A workload whose disruption budget allows nothing from the beginning of  *)
(* the pass on is not updated, whatever spec.pdbAwareness says and whether  *)
(* the reconciler's own check was answered: the scaler checks again before  *)
(* every container (vertical_scaler.go:98-105).                             *)
TightBudgetSpared == seen.updated \cap seen.tight = {}

(* Under the Skip policy a workload that an HPA scales throughout the pass  *)
(* is not updated in it, unless the HPA check failed, which Reconcile takes *)
(* for no conflict (reconciler.go:305-320).                                 *)
HPASkipHonoured ==
    (pc # "idle" /\ config.spec.hpa = "Skip")
        => seen.updated \cap (seen.hpas \ seen.blind) = {}

(* The phase CircuitOpen outlives the state that gave it when a probe is    *)
(* due outside the window, but never the circuit's way back to Closed: the  *)
(* pass that closes the circuit has replaced the phase (reconciler.go:      *)
(* 103-146, 170-189).                                                       *)
PhaseTellsCircuit ==
    status.phase = "CircuitOpen" => status.circuit.circuitState # "Closed"

(* A pass comes to its end although rollouts may hang: one worker would     *)
(* otherwise be lost for all configs (vertical_scaler.go:355-379).          *)
PassTerminates == pc # "idle" ~> pc = "idle"

(* README.md:61 says of the circuit breaker "Stops scaling after repeated   *)
(* failures": after as many failing passes in a row as the threshold names  *)
(* the circuit is open.                                                     *)
RepeatedFailuresOpen ==
    seen.failing >= ErrorLimit(Breaker) => status.circuit.circuitState = "Open"

=============================================================================
