----------------------------- MODULE Controller -----------------------------
(***************************************************************************)
(* OptimizerController (pkg/controller/optimizer_controller.go): the       *)
(* informer that trails the API server, the work queue, and the workers    *)
(* that take a key, copy the config out of the informer's cache, reconcile *)
(* the copy and write its status back.  The API server and the informer    *)
(* are the environment, modelled from how the controller uses them: a      *)
(* status write carries the resourceVersion of the copy and is refused     *)
(* once the stored config is another; a write is seen by the watch, in     *)
(* order, some time later.                                                 *)
(*                                                                         *)
(* Of a pass of Reconcile only what the controller looks at is kept: the   *)
(* config it leaves, whether it asks for a requeue, and whether the status *)
(* differs.  Module Reconciler has the pass itself.                        *)
(***************************************************************************)
EXTENDS WorkQueue, FiniteSets

CONSTANTS
    Keys,         \* namespace/name of the OptimizerConfigs
    Workers,      \* the goroutines of Run
    MaxRetries,   \* rate limited retries before a key is dropped, 5 in handleErr
    Absent,       \* no config of that key
    NoKey,        \* an idle worker's key
    MaxGen,       \* bound: generations of one config
    MaxPending,   \* bound: watch events of one key not delivered yet
    MaxCrashes    \* bound: restarts of the controller process

ASSUME ControllerAssumption ==
    /\ MaxRetries \in Nat
    /\ MaxGen \in Nat /\ MaxPending \in Nat /\ MaxCrashes \in Nat
    /\ NoKey \notin Keys

VARIABLES
    stored,   \* the configs in the API server
    watch,    \* per key, the versions the informer has still to be told of
    cache,    \* the informer's indexer
    wq,       \* the work queue
    work,     \* what each worker is doing
    crashes   \* restarts so far

vars == <<stored, watch, cache, wq, work, crashes>>

Config ==
    [gen : Nat, enabled : BOOLEAN, observed : Nat,
     phase : {"", "Pending", "Active", "Paused", "CircuitOpen"}]

Version == Config \cup {Absent}

\* A worker's job: the key it took, the copy it reconciles, whether that copy
\* is the stored version still, and whether syncHandler has failed.
Job(pc, key, config, current, failed) ==
    [pc |-> pc, key |-> key, config |-> config, current |-> current, failed |-> failed]

Idle == Job("idle", NoKey, Absent, FALSE, FALSE)

Init ==
    /\ stored = [k \in Keys |-> Absent]
    /\ watch = [k \in Keys |-> <<>>]
    /\ cache = [k \in Keys |-> Absent]
    /\ wq = NewQueue(Keys)
    /\ work = [w \in Workers |-> Idle]
    /\ crashes = 0

-----------------------------------------------------------------------------
(* The API server and the users. *)

\* Version c of key k is stored: the watch will tell of it, and every copy of
\* an earlier version is out of date.
Store(k, c) ==
    /\ Len(watch[k]) < MaxPending
    /\ stored' = [stored EXCEPT ![k] = c]
    /\ watch' = [watch EXCEPT ![k] = Append(@, c)]

Outdated(k) ==
    [v \in Workers |-> IF work[v].key = k THEN [work[v] EXCEPT !.current = FALSE] ELSE work[v]]

UserCreates(k) ==
    /\ stored[k] = Absent
    /\ \E enabled \in BOOLEAN :
        Store(k, [gen |-> 1, enabled |-> enabled, observed |-> 0, phase |-> ""])
    /\ work' = Outdated(k)
    /\ UNCHANGED <<cache, wq, crashes>>

\* Any edit of the spec raises metadata.generation.
UserEdits(k) ==
    /\ stored[k] # Absent
    /\ stored[k].gen < MaxGen
    /\ \E enabled \in BOOLEAN :
        Store(k, [stored[k] EXCEPT !.gen = @ + 1, !.enabled = enabled])
    /\ work' = Outdated(k)
    /\ UNCHANGED <<cache, wq, crashes>>

UserDeletes(k) ==
    /\ stored[k] # Absent
    /\ Store(k, Absent)
    /\ work' = Outdated(k)
    /\ UNCHANGED <<cache, wq, crashes>>

-----------------------------------------------------------------------------
(* The informer. *)

\* The indexer is brought up to date, then AddFunc, UpdateFunc or DeleteFunc
\* adds the key.
Deliver(k) ==
    /\ watch[k] # <<>>
    /\ cache' = [cache EXCEPT ![k] = Head(watch[k])]
    /\ watch' = [watch EXCEPT ![k] = Tail(@)]
    /\ wq' = Add(wq, k)
    /\ UNCHANGED <<stored, work, crashes>>

\* The watch breaks and the informer lists again: only the latest version of
\* what it has missed arrives.
Relist(k) ==
    /\ Len(watch[k]) > 1
    /\ watch' = [watch EXCEPT ![k] =
                    IF cache[k] = Absent /\ stored[k] = Absent THEN <<>> ELSE <<stored[k]>>]
    /\ UNCHANGED <<stored, cache, wq, work, crashes>>

\* Every ten minutes each cached config is handed to UpdateFunc again.
Resync(k) ==
    /\ cache[k] # Absent
    /\ wq' = Add(wq, k)
    /\ UNCHANGED <<stored, watch, cache, work, crashes>>

TimerFires(k) ==
    /\ k \in wq.waiting
    /\ wq' = Fire(wq, k)
    /\ UNCHANGED <<stored, watch, cache, work, crashes>>

-----------------------------------------------------------------------------
(* A worker: processNextItem, syncHandler, handleErr. *)

Becomes(w, job) == work' = [work EXCEPT ![w] = job]

At(w, pc) == work[w].pc = pc

\* Mutated: the key is given back as soon as it is taken.
GetReleases(w) ==
    /\ At(w, "idle")
    /\ wq.queue # <<>>
    /\ wq' = Done(Take(wq), Head(wq.queue))
    /\ Becomes(w, Job("sync", Head(wq.queue), Absent, FALSE, FALSE))
    /\ UNCHANGED <<stored, watch, cache, crashes>>

Get(w) ==
    /\ At(w, "idle")
    /\ wq.queue # <<>>
    /\ wq' = Take(wq)
    /\ Becomes(w, Job("sync", Head(wq.queue), Absent, FALSE, FALSE))
    /\ UNCHANGED <<stored, watch, cache, crashes>>

\* The worker leaves syncHandler without an error, or with one.
Leave(w, failed) == Becomes(w, [work[w] EXCEPT !.pc = "leave", !.failed = failed])

\* Mutated: a config that is not found is looked for again later.
FindsNoneRetries(w) ==
    /\ At(w, "sync")
    /\ cache[work[w].key] = Absent
    /\ Leave(w, FALSE)
    /\ wq' = AddAfter(wq, work[w].key)
    /\ UNCHANGED <<stored, watch, cache, crashes>>

FindsNone(w) ==
    /\ At(w, "sync")
    /\ cache[work[w].key] = Absent
    /\ Leave(w, FALSE)
    /\ UNCHANGED <<stored, watch, cache, wq, crashes>>

\* The copy is current when the informer has nothing left to tell of the key.
FindsConfig(w) ==
    LET k == work[w].key IN
    /\ At(w, "sync")
    /\ cache[k] # Absent
    /\ Becomes(w, Job("reconcile", k, cache[k], watch[k] = <<>>, FALSE))
    /\ UNCHANGED <<stored, watch, cache, wq, crashes>>

\* Mutated: the requeue is left to the watch event of the status write.
EndPassTrustsWatch(w, c, requeue, changed) ==
    /\ Becomes(w, [work[w] EXCEPT !.config = c, !.pc = IF changed THEN "write" ELSE "leave"])
    /\ wq' = IF requeue /\ ~changed THEN AddAfter(wq, work[w].key) ELSE wq
    /\ UNCHANGED <<stored, watch, cache, crashes>>

\* Reconcile leaves the copy as c: the requeue is arranged first, then the
\* status is written if it has changed.
EndPass(w, c, requeue, changed) ==
    /\ Becomes(w, [work[w] EXCEPT !.config = c, !.pc = IF changed THEN "write" ELSE "leave"])
    /\ wq' = IF requeue THEN AddAfter(wq, work[w].key) ELSE wq
    /\ UNCHANGED <<stored, watch, cache, crashes>>

PassDisabled(w) ==
    LET c == [work[w].config EXCEPT !.phase = "Paused"] IN
    /\ At(w, "reconcile")
    /\ ~work[w].config.enabled
    /\ EndPass(w, c, FALSE, c # work[w].config)

\* Mutated: result.Updated is not set, and the first phase is not written.
PassInitializesUnsaved(w) ==
    /\ At(w, "reconcile")
    /\ work[w].config.enabled
    /\ work[w].config.phase = ""
    /\ EndPass(w, [work[w].config EXCEPT !.phase = "Pending"], FALSE, FALSE)

PassInitializes(w) ==
    /\ At(w, "reconcile")
    /\ work[w].config.enabled
    /\ work[w].config.phase = ""
    /\ EndPass(w, [work[w].config EXCEPT !.phase = "Pending"], FALSE, TRUE)

\* Enabled and initialized: breaker and maintenance window decide.
AtGates(w) ==
    /\ At(w, "reconcile")
    /\ work[w].config.enabled
    /\ work[w].config.phase # ""

PassRefused(w) ==
    LET c == [work[w].config EXCEPT !.phase = "CircuitOpen"] IN
    /\ AtGates(w)
    /\ EndPass(w, c, TRUE, c # work[w].config)

\* Whether the pass changes the status depends on fields not kept here: the
\* window's, and the circuit's.
PassOutsideWindow(w) ==
    /\ AtGates(w)
    /\ \E changed \in BOOLEAN : EndPass(w, work[w].config, TRUE, changed)

\* A pass that reaches the recommendations always changes
\* LastRecommendationTime.
PassCompletes(w) ==
    /\ AtGates(w)
    /\ EndPass(w, [work[w].config EXCEPT !.phase = "Active", !.observed = work[w].config.gen],
               TRUE, TRUE)

\* The API server accepts a status for the version it was computed from only.
Current(w) == work[w].current

\* Mutated: the status is patched, without the resourceVersion of the copy.
UpdateStatusPatches(w) ==
    LET k == work[w].key IN
    /\ At(w, "write")
    /\ stored[k] # Absent
    /\ Store(k, [stored[k] EXCEPT !.phase = work[w].config.phase,
                                  !.observed = work[w].config.observed])
    /\ work' = [Outdated(k) EXCEPT ![w] = [@ EXCEPT !.pc = "leave", !.failed = FALSE]]
    /\ UNCHANGED <<cache, wq, crashes>>

\* UpdateStatus replaces the status and leaves the spec as it is stored.  The
\* answer may be lost after the write has been accepted.
UpdateStatus(w) ==
    LET k == work[w].key IN
    /\ At(w, "write")
    /\ Current(w)
    /\ Store(k, [stored[k] EXCEPT !.phase = work[w].config.phase,
                                  !.observed = work[w].config.observed])
    /\ \E lost \in BOOLEAN :
        work' = [Outdated(k) EXCEPT ![w] = [@ EXCEPT !.pc = "leave", !.failed = lost]]
    /\ UNCHANGED <<cache, wq, crashes>>

\* A conflict, a config deleted meanwhile, or an API server that does not answer.
UpdateStatusFails(w) ==
    /\ At(w, "write")
    /\ Leave(w, TRUE)
    /\ UNCHANGED <<stored, watch, cache, wq, crashes>>

\* Mutated: one retry too many.
HandleErrOnceMore(q, k, failed) ==
    IF failed /\ q.requeues[k] <= MaxRetries THEN AddRateLimited(q, k) ELSE Forget(q, k)

\* handleErr on the queue: retry with back-off, or forget the key's failures.
HandleErr(q, k, failed) ==
    IF failed /\ q.requeues[k] < MaxRetries THEN AddRateLimited(q, k) ELSE Forget(q, k)

Finish(w) ==
    /\ At(w, "leave")
    /\ wq' = Done(HandleErr(wq, work[w].key, work[w].failed), work[w].key)
    /\ Becomes(w, Idle)
    /\ UNCHANGED <<stored, watch, cache, crashes>>

\* The process dies, or loses its lease and exits, and starts again: only the
\* API server's state survives, and the informer lists all of it.
Restart ==
    /\ crashes < MaxCrashes
    /\ crashes' = crashes + 1
    /\ watch' = [k \in Keys |-> IF stored[k] = Absent THEN <<>> ELSE <<stored[k]>>]
    /\ cache' = [k \in Keys |-> Absent]
    /\ wq' = NewQueue(Keys)
    /\ work' = [w \in Workers |-> Idle]
    /\ UNCHANGED stored

-----------------------------------------------------------------------------

User(k) == UserCreates(k) \/ UserEdits(k) \/ UserDeletes(k)

Informer(k) == Deliver(k) \/ Relist(k) \/ Resync(k) \/ TimerFires(k)

Pass(w) ==
    \/ PassDisabled(w) \/ PassInitializes(w)
    \/ PassRefused(w) \/ PassOutsideWindow(w) \/ PassCompletes(w)

Worker(w) ==
    \/ Get(w) \/ FindsNone(w) \/ FindsConfig(w)
    \/ Pass(w)
    \/ UpdateStatus(w) \/ UpdateStatusFails(w)
    \/ Finish(w)

Next ==
    \/ \E k \in Keys : User(k) \/ Informer(k)
    \/ \E w \in Workers : Worker(w)
    \/ Restart

Spec == Init /\ [][Next]_vars

\* The watch delivers, timers fire, the informer resyncs, and workers run.
Fairness ==
    /\ \A k \in Keys : WF_vars(Deliver(k)) /\ WF_vars(TimerFires(k)) /\ WF_vars(Resync(k))
    /\ \A w \in Workers : WF_vars(Worker(w))

FairSpec == Spec /\ Fairness

-----------------------------------------------------------------------------

QueueType ==
    [queue : Seq(Keys), dirty : SUBSET Keys, processing : SUBSET Keys,
     waiting : SUBSET Keys, requeues : [Keys -> 0..MaxRetries]]

\* A worker that has no copy to reconcile or to write, and one that has.
PlainJob ==
    [pc : {"sync", "leave"}, key : Keys, config : Version, current : BOOLEAN, failed : BOOLEAN]

CopyJob ==
    [pc : {"reconcile", "write"}, key : Keys, config : Config, current : BOOLEAN, failed : {FALSE}]

JobType == {Idle} \cup PlainJob \cup CopyJob

TypeOK ==
    /\ stored \in [Keys -> Version]
    /\ watch \in [Keys -> Seq(Version)]
    /\ cache \in [Keys -> Version]
    /\ wq \in QueueType
    /\ work \in [Workers -> JobType]
    /\ crashes \in Nat

Busy(w) == ~At(w, "idle")

(* No two workers ever work on one key: Done comes after handleErr, and a   *)
(* key added meanwhile waits for it (optimizer_controller.go:127-137).      *)
(* Nothing else keeps two passes over one config apart.                     *)
OneWorkerPerKey ==
    \A v, w \in Workers : Busy(v) /\ work[v].key = work[w].key => v = w

(* The observed generation in a status is never that of an older spec, nor  *)
(* of a deleted namesake: a write that changes it sets it to the generation *)
(* stored at that moment, although the copy was taken from a cache that     *)
(* lags and the users go on editing (optimizer_controller.go:145-178,       *)
(* reconciler.go:178).                                                      *)
ObservedIsCurrent ==
    [][\A k \in Keys :
        (stored[k] # Absent /\ stored'[k] # Absent /\ stored'[k].observed # stored[k].observed)
            => stored'[k].observed = stored'[k].gen]_vars

\* A config that every pass asks to see again.
Needs(c) == c # Absent /\ c.enabled /\ c.phase # ""

\* Something in the process will bring the key to a worker, or has already.
Attended(k) ==
    \/ watch[k] # <<>>
    \/ k \in wq.waiting
    \/ Queued(wq, k)
    \/ \E w \in Workers : work[w].key = k

(* An enabled config is never forgotten once it has a phase: even when its  *)
(* status cannot be written and handleErr drops the key after its retries,  *)
(* a timer, a watch event or a worker is there for it.  AddAfter before     *)
(* UpdateStatus is what makes it so (optimizer_controller.go:171-180).      *)
NeverForgotten == \A k \in Keys : Needs(stored[k]) => Attended(k)

\* From some time on passes find the gates open, and the API server refuses
\* no status but for a conflict.
Calm ==
    <>[][\A w \in Workers :
            /\ ~PassRefused(w) /\ ~PassOutsideWindow(w)
            /\ UpdateStatusFails(w) => ~Current(w)]_vars

(* Every spec is observed in the end: when breaker, window and API server   *)
(* no longer stand in the way, a config that stays enabled reaches a status *)
(* whose observed generation is its own, however stale the copies were and  *)
(* whatever was dropped before (optimizer_controller.go:139-200).  The      *)
(* first phase, which no timer repeats, depends on the informer's resync.   *)
EverySpecObserved ==
    Calm => \A k \in Keys :
        []<>(stored[k] = Absent \/ ~stored[k].enabled \/ stored[k].observed = stored[k].gen)

(* A deleted config leaves nothing behind: once it stays away, its key goes *)
(* out of the queue, the timers and the workers for good (optimizer_        *)
(* controller.go:150-152, 185-189).                                         *)
DeletedIsLetGo ==
    \A k \in Keys : <>[](stored[k] = Absent) => <>[]~Attended(k)

=============================================================================
