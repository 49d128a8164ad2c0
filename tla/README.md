# TLA+ models of the intelligent cluster optimizer

The optimizer is a Kubernetes controller.  Users declare `OptimizerConfig`
objects; for each, the controller repeatedly looks for workloads whose CPU and
memory requests are wrong and, behind a row of safety gates, rewrites them.  The
specifications here model what is concurrent, stateful or hard to test in it: the
controller loop, a reconcile pass, the circuit breaker, the maintenance windows,
the rollback history, the metrics and the program that collects them, the way from
metrics to requests, and the algorithms that judge workloads.  TLC checks them on
small instances, TLAPS proves the most important facts for every value of the
constants.

Source paths below are relative to the repository root, which `PROJECT.json` calls
`src/`.

## The system

| Component | State it keeps | Operations | What makes it hard |
| --- | --- | --- | --- |
| Controller loop, `pkg/controller/optimizer_controller.go` | informer cache, work queue, one job per worker | event handlers, `processNextItem`, `syncHandler`, `handleErr` | workers, users, watch events, timers and restarts interleave; the cache is stale; status writes conflict or lose their answer; retries run out |
| Reconciler, `pkg/controller/reconciler.go` | the status of the config it is given | `Reconcile`: breaker, window, then per workload HPA, PDB and anomaly checks, then updates | a pass takes minutes and everything it has checked may change meanwhile; checks fail; updates fail half-way |
| Circuit breaker, `pkg/safety/circuit_breaker.go` | state, counters and a timestamp in the status | `ShouldAllow`, `RecordSuccess`, `RecordFailure` | three states, two counters, thresholds that default when 0, early returns that skip the timestamp |
| Maintenance windows, `pkg/scheduler/maintenance_window.go` | none | `IsInMaintenanceWindow`, `GetNextMaintenanceWindow` | overlapping windows, unreadable ones, schedules without a start, requeue delays that must meet short windows |
| Applier and scaler, `pkg/applier`, `pkg/scaler` | none of their own | `LiveApply`, `Scale`, wait for the rollout | snapshot, second budget check, update and wait are separate steps, each can fail |
| Rollback history, `pkg/rollback` | the last snapshots per container; a file | save, rollback, load, save to file | bounded history, snapshots of updates that failed |
| Metrics storage and collector, `pkg/storage`, `pkg/metrics`, `cmd/collector` | samples per pod; a file | poll two APIs, add, clean up, sync, save, load | a garbage collector beside the writer, answers that disagree or fail, saves on graceful exit only |
| Recommendation engine, `pkg/recommendation` | none | percentile, margin, thresholds, OOM boost, confidence | samples in random order, quantities parsed by hand, integer arithmetic |
| Profiles, `pkg/profile`; webhook, `pkg/webhook` | registered profiles | resolve a spec in layers; refuse a recommendation; admit a spec | four layers, each with its own idea of "not given" |
| OOM detector, `pkg/safety/oom_detector.go` | kills per container | scan a namespace, clear, boost | reports are overwritten by the next listing |
| Policies, `pkg/policy` | policies, default | load, evaluate | priorities with ties, conditions that fail |
| Pareto optimizer, `pkg/pareto` | none | candidates, objectives, dominance, ranks, choice | five objectives, some minimized; choices made on the frontier alone |
| SLA monitor and health, `pkg/sla` | none | violations, control chart, score, comparison | five types that aggregate differently; limits computed from the readings they judge |
| Anomalies, `pkg/anomaly` | none | three detectors, their consensus, the verdict | statistics of short series |
| HPA and PDB checkers, `pkg/safety` | none | conflict, safety of a disruption, budget | percentages, pods that are down already, which budget applies |
| Prediction, leak and pattern analysis, cost, `optctl`, GitOps export, events, logging | samples or none | computation and output | - |

The informer tells the queue of changed configs.  A worker takes a key, copies the
config out of the informer's cache, and `Reconcile` works on the copy: the breaker
and the windows decide whether the pass goes on; the engine computes recommendations
from the metrics storage; the settings resolved from the config's profile may refuse
one; for every container of every workload left, the applier saves a snapshot and
calls the scaler, which updates the Deployment and waits for its rollout.  The pass
ends with the counters of the breaker, the worker sets the requeue timer and writes
the status.  The write comes back as a watch event.  The collector is a program of
its own; it fills its own storage and saves it to a file.

What makes each component correct:

* *breaker*: closed, it opens exactly on a streak of failures; it admits nothing while
  open, is probed in the end, closes only after a run of successful probes;
* *reconcile pass*: updates nothing that a gate or check forbids, although the world
  moves on beneath it; always ends;
* *controller loop*: one pass per config at a time, no enabled config forgotten, no
  status that vouches for a spec it has not seen, no deleted config kept alive;
* *windows*: the verdict is right for every set of windows, and a pass takes place in
  every window;
* *rollback*: only snapshots that do not fit are given up, the oldest first; rollbacks go
  back in time, from one command to the next too;
* *metrics*: samples stay as long as they should and no longer, in order;
* *from metrics to requests*: thresholds hold as they are read, changes are limited,
  production waits for its approval, and what the webhook admits resolves to settings
  that make sense;
* *judgements*: each of them agrees with what it is a judgement on, whatever the order
  and the units of its input.

## Modules

| Module | Models | Built on |
| --- | --- | --- |
| `CircuitBreaker` | the three methods as functions from status to status | |
| `BreakerContract` | abstract specification: what a breaker promises an observer | |
| `BreakerProtocol` | a serial caller of the methods, and time; refines `BreakerContract` | `CircuitBreaker` |
| `Reconciler` | one config and its passes, step by step, in a changing cluster | `CircuitBreaker` |
| `WorkQueue` | client-go's rate limiting queue as operators on a record (external) | |
| `Controller` | API server, informer, queue, workers, restarts | `WorkQueue` |
| `MaintenanceWindow` | the window check and its requeue delays in time | |
| `RollbackManager` | the history, the applier's and `optctl`'s use of it | |
| `MetricsStorage` | the samples and what is done to them | |
| `Collector` | the collector program, its two APIs, its file and its ends | `MetricsStorage` |
| `Quantities` | amounts, written by the reconciler, read in four other ways | |
| `Confidence` | the four scores of a recommendation | |
| `RecommendationEngine` | from samples to a recommendation | `Quantities`, `Confidence` |
| `Profiles` | profiles, resolution in layers, the verdict on a recommendation | `Quantities` |
| `SpecValidator` | the specs that the webhook admits | `Quantities` |
| `Optimization` | storage, engine, profile and formatting around one Deployment | the four above, `MetricsStorage` |
| `Statistics` | sums, ascending order and selections of values, as `SLA` and `Anomaly` use them | |
| `OOMDetector`, `PolicyEngine`, `Pareto`, `SLA`, `Anomaly`, `DisruptionBudget` | the algorithms of these packages as operators | `Statistics` (`SLA`, `Anomaly`) |
| `Assessment` | one question after another put to these six | all six |
| `*_proofs` | theorems about `BreakerProtocol`, `Reconciler`, `Controller` with its queue, `MaintenanceWindow`, `RollbackManager`, `Collector` with its storage, `Optimization`, `Assessment` | |
| `MC*` | the same modules with values for TLC | |

Definitions whose comment begins with "Mutated" are no part of the models: each is a
definition with a plausible mistake, and putting it in place of the right one violates
the property that `PROJECT.json` names beside it.

How the models relate to the code:

* **CircuitBreaker / BreakerProtocol.**  A status is the record of the circuit fields.
  `LastUpdateTime` is kept as its age, which stops growing at `Timeout` because the
  code only compares it.  `CircuitState` `""` and `Closed` are one value: the code
  never tells them apart.  Each method holds `cb.mu` and touches one config, so it is
  one step.  `circuitBreaker` is what the spec says of the breaker; its thresholds
  stay what they are, in `Reconciler` too.  `failureStreak` is a ghost: what an
  observer would have counted.
  `BreakerContract` says what code and documents agree on.  Whether one failed probe
  reopens the circuit they do not agree on: the contract leaves it open, and
  `HalfOpenFailureReopens` states what the document says.
* **Reconciler.**  The early returns of `Reconcile` (disabled, first phase, breaker
  open, outside the window) take no time and are single steps.  A pass that goes on
  copies the spec and the status into `config` and then takes one step per call that
  reaches the cluster: HPA check, PDB check, the scaler's own PDB check, update,
  rollout.  Between any two of them the user edits the config, windows open and end,
  HPAs and budgets change.  `PassEnds` is the tail of `Reconcile` with the status
  write; if the config has been edited, or the API server fails, the write is lost.
  Which workloads have recommendations, which containers need no change, and what
  the anomaly checker says is chosen freely; that over-approximates the engine.
  `checkSystemHealth` always reports health as shipped: `HealthVerdicts = {FALSE}` is
  the shipped program, `{TRUE, FALSE}` also covers the branch behind it.
  A pass starts from the stored status; that it may start from an older cached copy is
  part of `Controller`, where the content of a pass is abstracted.
* **Controller.**  `stored` is the API server, `watch[k]` what the informer has still
  to be told of key `k`, `cache` its indexer.  A copy has the flag `current`, which
  stands for its `resourceVersion`: it is taken away by the next write to the object.
  `Deliver` is indexer update plus event handler; `Get`, `FindsConfig`, the `Pass*`
  actions, `UpdateStatus` and `Finish` are the successive steps of `processNextItem`.
  A pass is reduced to the config it leaves, whether it requeues, and whether the
  status differs.  `Restart` is any end of the process: only `stored` survives.
* **MaintenanceWindow.**  Time is discrete.  A schedule is the set of ticks at which it
  fires (periodic in the runs, any in the proofs), so calendars, time zones and cron
  syntax are abstracted, and a schedule that never fires is the empty set.  The loop of `isInWindow` is modelled
  iteration by iteration, because whether it ends is a property.  `wake` is the
  earliest of the key's timers, as in client-go's delaying queue.
* **RollbackManager.**  `SavePreviousConfig` and `Scale` are separate steps of a worker.
  The manager's other methods are called in any order.  `optctl rollback` is the
  sequence `Restart`, `LoadFromFile`, `RollbackWorkload`, `SaveToFile`.  The controller
  program itself never saves its history to the file, so with the programs as shipped
  `optctl` finds an empty one; the model covers every caller of the package.
  The ghost `trail` goes with each container's history: the snapshots saved and not rolled
  back, the greatest number of them there has been, and the one last restored.
  `filed` is the trail of what is in the file.  It is written and loaded with it, so what
  is said of rollbacks that follow each other is said of successive commands, too.
* **MetricsStorage / Collector.**  A sample is `[pod, at]` and, in `Optimization`, what
  its containers use and request.  One lock is held per method, so each is one step;
  between them other goroutines run, and `Cleanup` may come between the `Add`s of a
  poll, but not into `SaveToFile`, which keeps the lock.  `ListMetrics` and
  `GetPodMetrics` are the two listings: pods come and go between them.  A `select` that
  has both a tick and a signal may take either.  Samples are in memory within the tick
  in which they are fetched.  `kept` is a ghost: the samples that there is no reason
  to lose.
* **Quantities.**  A quantity is its digits, one half that may follow the point, and a
  unit.  The radices 1024 and 1000 are constants.  `parseMemoryToBytes` tries suffixes in
  the order of a Go map, so it gives a set of answers.
* **RecommendationEngine / Profiles / Optimization.**  Margins are percents; products
  are truncated where the code converts to integers.  A `Pass` is `processRecommendations`
  for one container of one Deployment: it walks the pods of the storage in any order,
  recommends, formats, asks the resolved settings, and writes the template.  The
  sample of a pod carries the requests it was started with, and pods of old and new
  templates stand side by side during a rollout.  Limits are whole percents, so a
  change is rounded up to one before it is compared.  No OOM provider is given to the
  engine in the reconciler: its boost is modelled, and not reached.
  An unknown profile passes the webhook (`validator.go:118`), while the enumeration of
  `types.go:41` would not; the pass must do something about it, so it is among the specs.
* **Assessment.**  The six algorithms are pure; a state is a question and its answer.
  Where the code's result depends on an unstable sort, the answer is one of the
  possible ones.  Means and variances are compared after multiplication, so nothing is
  rounded that the code does not round; floating point is taken for exact.

## Runs

| Run | Question | Bounds | Distinct states | Outcome |
| --- | --- | --- | --- | --- |
| `breaker_protocol` | does the breaker keep its contract, and is an open one probed? | both thresholds 1 or the default (given as 0), timeout 4 ticks, at most 5 successes in a row counted | 466 | holds |
| `reconciler` | what can a pass update while everything changes, and does it end? | 1 workload, 2 containers, 2 passes, 4 specs the user may switch between, all verdicts | 504,680 | holds |
| `controller` | exclusion, attendance, observed generation; is every spec observed, every deleted config let go? | 1 config, 2 workers, 1 retry, 2 generations, 2 undelivered events, 1 restart | 219,794 | holds |
| `maintenance` | is the verdict right, is every window met? | all sets of 1 or 2 of 6 kinds of window, 3 periods | 26,558 | holds |
| `rollback` | does the history keep what it should? | 2 containers, 2 workers, history of 3, 4 snapshots | 133,760 | holds |
| `collector` | is anything lost, late or out of order? | 2 pods, samples stay for 2 ticks, 6 ticks, 2 starts | 1,075,770 | holds |
| `recommendation` | what may a pass write? | 2 pods, 3 ticks, 2 updates, 4 specs, 2 templates (one without a CPU request), 2 loads per pod | 262,480 | holds |
| `assessment` | does each judgement agree with its definition? | see below | 15,091 | holds |
| `reconciler_failures` | do repeated failures stop scaling? | 1 container, 3 passes, threshold 2 | 9,821 | **no** |
| `maintenance_never` | does the window check return for every schedule? | all sets of 1 or 2 of 6 kinds, one of which never fires | 747 | **no** |
| `rollback_previous` | does a rollback restore the previous config? | 1 container, 3 snapshots | 217 | **no** |
| `breaker_half_open` | does any failure reopen a half-open circuit? | thresholds 2 and 2, timeout 2 ticks | 35 | **no** |

The last four state what the documentation says and the code does not do; the
counterexamples are short, and `PROJECT.json` quotes the lines under `findings`:

* *reconciler_failures*: an update that fails is logged, and the pass records a success.
* *maintenance_never*: `0 0 30 2 *` parses and never fires.  cron's `Next` answers the
  zero time, which is before now, and then again from there: `isInWindow` loops.  In
  the model the iteration leaves the state as it was, which TLC prints as stuttering.
* *rollback_previous*: snapshots are taken before updates, and `RollbackWorkload`
  restores the one before the last.
* *breaker_half_open*: `ARCHITECTURE.md` (line 270) says that any failure reopens a
  half-open circuit; `RecordFailure` waits for the streak, as it does in Closed.
  The controller records a success after every failure, so with an `errorThreshold` above 1
  its circuits never open: this is about any caller that reports one outcome per operation.

**What the runs on data show.**  `NothingLost` and its ghost say when a sample may
disappear, and `AgeBounded` when it has to.  `WithinReadings` says how far a template
may be from the thresholds: nowhere above a maximum that is read as one, and below the
memory minimum only by what the digits after the unit lose.  It promises nothing where
the minimum may be read as more than the maximum: a maximum of "1.5Gi" is taken for one
byte, and one of "4Mi" may be taken for 4M, beside a minimum of "4100K".  `LimitedWhenSettled` holds when all samples
have the template's requests; TLC gives a counterexample without that condition, since
during a rollout the limit may be measured from an old pod's requests.  A request of
zero has no percent: any change of it counts as one of 100.
`NoUnapprovedChange` needs the right merging of flags that are not given.
`BudgetIsAllowed` asks for agreement with the check in both directions where the amount
that applies is above zero.  Where it is zero the calculation answers 0, which the check need not.
`Assessment` asks every history of two scans of one or two of five pods; all sets of up to
three of six policies with conditions that hold, fail or break; 64 workloads; seven SLAs
with up to five readings, and one with 21 of which 11 are outliers; series of 4, 10 and 12 values with spikes; one or two of 28
budgets with none to four of three pods available.

**Why the bounds are enough.**  The breaker's ages stop at the timeout, and its counters at
the thresholds; these are the defaults and the least values the API admits, in every
combination, and all but liveness is proved for the others.  An `errorThreshold` of 1 is
where a circuit can open with no `LastUpdateTime` stored, which `OpenIsProbed` has to leave
out.  In `Controller` keys meet only in the queue and at the
workers: everything else is a function of one key, so the run spends its states on
one key with two workers.  Two keys with one worker and no retry hold as well (207,101
states); the theorems below need neither bound.  Two generations and two undelivered events
allow a copy older than the stored config, and a deletion and a recreation behind it.
One retry makes "retry" and "drop" differ.  In
`Reconciler` workloads are treated one after the other by the same code; two containers
are needed so that one of them comes after a rollout.  Two passes let the second find
the breaker as the first has left it.  In `MaintenanceWindow` the six kinds are a
short window, one that adjoins it, several starts a period, one that lasts longer than its
period, one with an unreadable duration and one with an unreadable schedule; three
periods show a cycle.
The delays keep their order (`Active < Poll < Soon`), not their ratio.  In `Collector`
the horizon is three times `MaxAge`, so that samples expire, in the file too, and pods
interact in the listings only.  In `Optimization` two pods make an order and a rollout,
two updates a change of what was changed.  The radices are small so that values of all
units occur; their order is kept.  `MinSamples` of the anomaly detectors is 4 instead of
10, the percentiles and scores keep their constants.

**Fairness.**  `BreakerProtocol`: the clock runs, and the caller keeps asking, since a
refused pass is requeued.  `Reconciler`: a pass that can step does, as its worker is
scheduled and its API calls return; `RolloutCompletes` has no fairness, a rollout may
hang for ever.  `Controller`: watch events are delivered, timers fire, the informer
resyncs, workers run; users and restarts are under no obligation, and no conflict or
failure has to stop.  `EverySpecObserved` therefore assumes `Calm`: from some time on
the gates are open and only conflicts refuse a write.  It does not assume that users
stop editing.  `MaintenanceWindow`: a check that has begun goes on.  The other
specifications have no liveness property and no fairness.  Deadlock is not checked where
the bound on time ends the behaviour (`collector`, `recommendation`).

## Proofs

TLAPS checks these for all values of the constants that satisfy the named assumptions,
which say that bounds are numbers, that the values for "nothing" are not among the
others, and of specs and budgets that they are what the API server lets through.

**Breaker** (`BreakerProtocol_proofs`).  `IInv` is the conjunction of `TypeOK`,
`OpenMeansIdle`, `ProbesCounted` and `StreakCounted`: the stored errors are the observed
streak, and the circuit is open exactly when that is long enough.  `StreakCounted` is
inductive only together with `OpenMeansIdle`, since a success or failure recorded while open
would break it.  `TypeCorrect`, `Isolation`, `OpensWhenDue` and `CountsProbes` follow;
what `StreakCounted` says of half-open circuits is the code's rule, not the document's,
and no property states it.  `Refinement` maps the stored counters to the observed streaks: a
timed-out `ShouldAllow` is the contract's `Probe`, another is `Admit` or a stutter, `Tick`
is a stutter.

**Reconciler** (`Reconciler_proofs`).  The properties speak of updates that have been
made; `IInv` adds what carries a check to the update it is for:
* `SeenOK`: the observer is well typed;
* `Gated`: the copy the pass works on still says what let it in, whatever happens to
  the stored config;
* `LiveUpdates`: there is no update in a dry run or between passes;
* `TightKnown`, `HPAKnown`: what the observer has seen all along a pass holds now, and
  the workload about to be updated has been found free of it.

`GatesDecide`, `BudgetsHold`, `SkipHolds` and `PhaseIsHonest` follow, for any number of
workloads, containers and passes.

**Queue** (in `Controller_proofs`).  Its shape - no key queued twice, a queued key is
dirty and not being processed, a dirty key is queued or being processed - is kept by
every operation of `WorkQueue`; the lemmas on the controller's actions cite this.

**Controller** (`Controller_proofs`).  The properties are not inductive.  `IInv` adds
* `Shape`, the queue's shape above;
* `Holders`: the keys in processing are exactly those of busy workers, each held by one
  (`OneWorkerPerKey`);
* `CacheFollows`: the last event of `watch[k]`, or the cached version when there is
  none, is the stored one;
* `CopiesCurrent`: a copy flagged current is of the stored version, so a write that is
  accepted observes the stored generation; `ObservedIsCurrent` follows;
* `Covered`: every key is being processed, or asks for nothing, or comes back by itself
  (an event, a timer, the dirty set); and a worker that is past `AddAfter` has left one
  of these behind, since `handleErr` may drop the key.  `NeverForgotten` follows.

There is one lemma per action.  `Attendance` is the theorem that a key is not lost when
its retries are used up; it rests on `AddAfter` being called before `UpdateStatus`.

**Maintenance windows** (`MaintenanceWindow_proofs`), for any schedules, overlapping,
adjoining or unreadable, and any delays with `Poll <= Soon`, `Poll` being what the code
waits where no start is near.  `IInv` adds
* `Punctual`: the timer is not more than `MaxLate` behind, and has not run out in a pass;
* `Scanned`: windows the pass has finished with are not open, and of the one it looks
  at every start before `lastStart` is over - the loop's invariant.  That the first
  start tried is early enough is `lasts + Minute` in `LookAt`;
* `Met`: between passes, every start that is to come or still open has had a pass, or a
  timer runs out at most `Active` after it.

`RightVerdict` is an action property: it follows from `Scanned` at `PassInside` and
`PassOutside`.  `NoneMissed` follows from `Met` and `Punctual`.  The first attempt failed at
a pass that comes at the instant of a start.  Such a pass is outside, and its timer is set
for the next start; if that is the one at which another window adjoins, the first can
go by.  The property now says so (`refused`), and the run has adjoining windows.

**Rollback history** (`RollbackManager_proofs`), for any containers, workers, capacity
and snapshots.  `IInv` adds that each container's history `Follows` its trail, in memory
(`MemoryFollows`) and in the file (`FileFollows`):
* `EndOf`: index by index, the history is the end of the log;
* `Given`: it lacks as many snapshots as did not fit when there were most, and is empty
  only with the log;
* `Ascending`: timestamps rise in the log;
* `Stands`: after a rollback the restored snapshot is the last of the history.

One lemma for saving and one for rolling back show that `Follows` is kept; a load or a save
to the file moves a history and its trail together.  `LatestKept` is `EndOf` with the
community module's `IsSuffix`, and `Given`.  `DescendsInTime` needs `Ascending` and `Stands`:
the target is the second last of an ascending list whose last was restored.

**Storage and collector** (`Collector_proofs`), for any pods, ages, intervals and starts.
`IInv` adds
* `KeptFor`: what storage or, while the process is down, the file holds of a pod is what
  there is reason to keep, but for samples past `MaxAge` and, in the middle of a poll, for
  pods that the coming `SyncPods` drops;
* `InOrder`: samples run forwards in time, in storage and file, and none is from the
  future or later than the batch being added;
* `Collected`: the garbage collector's timer is on time, and what it has left will not be
  too old when it runs next.

`LosesNothing`, `InOrderOfTime` and `AgeIsBounded` follow.  `After`, the loop of `Cleanup`, is
a function on the prefixes of a list.  That it keeps exactly the younger samples, in
order, is an induction over the prefix; it is done without the library's induction
theorems, from the least counterexample that well-foundedness of `<` gives.

**Settings and recommendations** (`Optimization_proofs`), for any radices with
`Dec < Bin`, any pods, loads, templates and admitted specs.
* `AdmittedSettingsAreValid`: every layer of the resolver keeps settings valid if the
  webhook has admitted the spec.  It needs both: the resolver checks nothing, and the
  webhook knows nothing of profiles.
* `ApprovalHolds`: no layer above the overrides touches `requireApproval`, and every
  change of the template has passed `ShouldApplyRecommendation`.
* `TypeCorrect`: the lists that the storage, the walk over the pods and the grouping
  make hold only samples that were stored (`AfterIsIn`, `MetricsAreIn`, `SamplesAreIn`; one
  induction, `LoopExists` and `LoopStays`, serves the three loops); a percentile of
  amounts is one of them; and the rest of the pipeline makes amounts of amounts.
* `StaysWithinReadings`: no threshold is read as more than it says
  (`CPUIsNotOverread`, `MemoryIsNotOverread`), `Bounded` is within the readings, and
  `MemoryIsRounded` says what writing drops: no more than a unit of any amount up to
  the one that is written.
* `ChangeIsLimited`: if all samples have the requests in force, so has the last one of
  the group in every order.  The percent is rounded up, so a percent within the limit is
  a change within it (`PercentIsLimit`); what writing drops is less than a unit
  (`RoundingIsLimited`).  `ResolvedIsValid` says that the limit is a number.

**Assessments** (`Assessment_proofs`).  A state is one question and its answer, so each
invariant is a fact about an algorithm, for every input, and a step that puts another
question leaves it alone (`Assessed`).
* `BudgetIsSafe`: the two functions that read a budget agree on the number of pods, by
  cases over which amount is given; where the one that applies is zero, the calculation
  answers zero and permits nothing.
* `PolicyIsDecisive`: in a list sorted by priority the first position that matches has
  the highest priority of all that match.  Which of several equals comes first is left open.
* `ChoiceIsBest`: for every candidate there is one on the frontier that is no worse in
  any objective (`FrontierCovers`: of those that dominate it take one that the fewest
  dominate).  The normalized value and the weighted score are monotone in every objective, so
  the best of the frontier is the best of all.  `CandidatesAreMeasured` says that six
  candidates are made and that every objective of each is a number.
* `KillsAreRemembered`: `Remembers` relates a history to the set of pods that the scans
  have shown so far: a container is in it exactly if some pod reported a kill of it, with the
  latest of these kills and the highest count.  Every pod of a listing keeps this, by
  induction over the listing and over the scans; the clearing forgets all or nothing.
* `BreachesAreReal`: what is compared with an SLA, a percentile, an average, a share or each
  value, lies between the extremes of the values (`PercentileBetween`, `MeanBetween`), so it
  is beyond the limit only if some value is, and if all are.  It rests on what `Ascending`
  and `Only` are: each place in order is taken by a value (`PlaceIsTaken`), and a
  selection has exactly the values selected (`OnlyIsAmong`).
* `OutliersAreRare`: fewer than half of the readings are further from the median than
  the screening allows (`BeyondAreFew`); by Chebyshev's inequality no more than a ninth of
  the readings that are left are three deviations from their mean (`FarAreFew`).
* `UnitsAreIndifferent`: `Affine` says that one series measures what another does, times
  `a`, plus `b`, where `a` may be negative.  Sums, and with them means and moving
  averages, follow (`SumAffine`, `DifferenceIsAffine`); the spread goes with the square
  of `a` (`SpreadAffine`); the ascending order is kept or reversed (`AscendingAffine`), so
  that the quartiles, interpolated or of few values, keep or change places
  (`QuartilesAffine`).  Each detector therefore finds the same readings, as severe
  (`SameByZScore`, `SameByQuartiles`, `SameByMovingAverage`), and so does the consensus.

`Sum` is a recursive function on the prefixes of a list, and what is said of it
(`SumLinear`, `SumMonotone`) is again an induction by least counterexample.

**Model-checked only**: liveness under fairness (`OpenIsProbed`, `PassTerminates`,
`EverySpecObserved`, `DeletedIsLetGo`, `CheckReturns`), which is out of the prover's
reach.  Every other property of the passing runs is a theorem.  `OutliersAreFew` was first
stated as "at most half", which five readings cannot refute and 21 do; it now has the
bound that follows from the two screenings, and the run has such a series.  No model needs
a recursive operator: recursive functions, folds and `CHOOSE` do.

## Observed in the code

Things met while modelling that no run refutes, because no document promises
otherwise or because they concern what is not modelled:

* The window is only looked at when a pass begins; a pass that goes on applies updates
  after it has ended (compare `types.go:61`).
* A circuit that the first outcome of all opens, with an `errorThreshold` of 1, has no
  `LastUpdateTime` and is never probed, where `ARCHITECTURE.md` (line 268) says "timeout
  expired"; and since the failure that opens a circuit does not set that time, one opened by an
  operation that comes long after the one before is probed at once, where `types.go:333` says
  "how long to wait".  `Reconcile` records a success after every failure, which sets it.
* A threshold with a fraction, "1.5Gi", is admitted by the webhook and read by the engine as
  one byte, and "128Mi" may be read as 128M (`engine.go:770-802`), so a recommendation is cut
  down to less than was allowed, although `engine.go:716` says that it is "within configured
  bounds".  `WithinReadings` is about thresholds as they are read.
* `CalculateSafeDisruptionBudget` takes a minimum or a maximum of zero for one that is not
  given and answers 0 (`pdb_checker.go:190-199`); `CheckPDBSafety` of a minimum of zero lets every
  available pod go.
* When the history file cannot be written after a rollback, `optctl` only warns
  (`main.go:561`), and the next command restores the same snapshot again.  The comment of
  `RollbackDescends` says so.
* A window that never fires hides the next start of the others: cron's `Next` answers the
  zero time, and `GetNextMaintenanceWindow` takes the earliest.  Passes then come every five
  minutes.  This matters where `isInWindow` returns at all, that is, where the duration of
  that window does not parse.
* `SetMetricsStorage` has no caller: the storage that the shipped controller reads
  is never filled, so it never recommends anything.  Nor does anything start the webhook,
  the policy engine or the OOM detector, which `README.md` (lines 55, 163) lists as done.
* `deploy/deployment.yaml` (line 42) passes flags for leader election that
  `cmd/controller/main.go` does not define.
* The shipped CRD (`config/crd/optimizerconfig-crd.yaml`) has no `profile` and no
  `profileOverrides`; the API server drops them.
* A profile's percentiles, margins and limits never reach the engine, which looks at
  the spec and at `spec.strategy`, although `types.go:50` says that a profile determines
  the strategy.  Only the verdict on a recommendation uses the resolved settings.
* An unknown profile is logged and then nothing is checked (`reconciler.go:258`).
* The cap of the conservative strategy on the margin lowers a larger one that was given
  (`engine.go:377`).
* `extractWorkloadName` is made for the pods of Deployments: `my-db-0` of a StatefulSet
  counts for `my` (`engine.go:806`).  `GetMetricsByWorkload` goes by a prefix of the name
  (`memory.go:143`), in the order of a map.
* Of exactly `MinSamples` = 10 samples none has a z-score above 2.85, and where nine are
  equal the quartiles coincide: the one spike of such a series gets one vote of the two it
  needs and blocks nothing.
* The two default SLAs judge the same readings; an error rate's peaks are looked at
  only when its average is good; comparisons after an update go by the SLA's name.
* More than half of the readings can be outliers, from 21 on: the screening by the median
  finds fewer than half, and then limits from the readings that are left are put to these
  (`control_chart.go`).  The health score goes down with each.
* Of several budgets that select a workload only the first is looked at.
* The collector program writes the memory of a sample in Mi (`pkg/metrics/collector.go:99`),
  the engine takes it for bytes (`engine.go:74`).  They do not meet, since each program has
  a storage of its own.
* Every scan adds what a container reports to the total of its workload again
  (`oom_detector.go:249`); the history of a container does not grow that way.

## Not modelled

`PROJECT.json` lists every component with its status and every hazard with the
properties that cover it, or the reason why none does.

* *Prediction, leak detection, time patterns, cost*: floating point over long series,
  without state; the results are logged or have no caller.
* *GitOps export, events, logs, Prometheus exporter, tables of `optctl`*: output.
* *Leadership*: the exchange of a lease between two replicas is client-go's; what the
  code does when it starts or stops to lead is `Restart` in `Controller`.
* *`optctl` beside itself*: two commands that share the history file at once; nothing
  in the code serializes them, and nothing promises that it does.
* *A pass from a stale copy*: `Controller` has the stale copies, `Reconciler` the
  content of a pass; their product is beyond TLC.
* *In-place, StatefulSet and DaemonSet updates*: no caller asks for them.
* *`profile.Merge` and loading of profile files*: used by tests only.
