------------------------------ MODULE Collector ------------------------------
(***************************************************************************)
(* The collector program (cmd/collector/main.go) around MetricsStorage: it *)
(* loads its file, polls the metrics and core APIs, adds what both know    *)
(* of, drops the pods that were not in the answer, and saves the file on a *)
(* graceful exit.  A garbage collector runs beside it.  The cluster, the   *)
(* two APIs, the clock and whoever kills the process are the environment.  *)
(***************************************************************************)
EXTENDS MetricsStorage

CONSTANTS
    Pods,        \* pods of the target namespace
    MaxAge,      \* what the garbage collector leaves, 24 h
    GCInterval,  \* between two of its runs, 1 h
    Horizon,     \* bound: the last tick
    MaxStarts,   \* bound: starts of the process
    Torn         \* content of a file that was not written to the end

ASSUME CollectorAssumption ==
    /\ MaxAge \in Nat \ {0} /\ GCInterval \in Nat \ {0}
    /\ Horizon \in Nat /\ Horizon >= MaxAge /\ MaxStarts \in Nat
    /\ Torn \notin [Pods -> Seq([pod : Pods, at : Nat])]

VARIABLES
    clock,    \* the time
    cluster,  \* the pods that exist
    pc,       \* down, idle, list, store or save
    ticked,   \* the ticker has a tick for the select
    listed,   \* pods in the answer of the metrics API
    batch,    \* pods of the answer of GetPodMetrics that are not added yet
    active,   \* activePodNames
    stamp,    \* the timestamp of the batch
    gcAt,     \* the garbage collector's next tick
    history,  \* the storage
    file,     \* metrics_data_<namespace>.json
    starts,   \* starts of the process
    since,    \* ghost: when it was started
    kept      \* ghost: the samples there is no reason to lose

poll == <<ticked, listed, batch, active, stamp>>
life == <<gcAt, starts, since>>
vars == <<clock, cluster, pc, poll, history, file, life, kept>>

Up == pc # "down"

Nothing == [p \in Pods |-> {}]

Init ==
    /\ clock = MaxAge
    /\ cluster \in SUBSET Pods
    /\ pc = "down"
    /\ ticked = FALSE
    /\ listed = {} /\ batch = {} /\ active = {} /\ stamp = 0
    /\ gcAt = 0 /\ starts = 0 /\ since = 0
    /\ history = NewStorage(Pods)
    /\ file = NewStorage(Pods)
    /\ kept = Nothing

-----------------------------------------------------------------------------

\* The garbage collector is never later than a tick, and the batch, which is in
\* memory, is stored within one.
Tick ==
    /\ clock < Horizon
    /\ Up => clock < gcAt
    /\ pc = "store" => clock = stamp
    /\ clock' = clock + 1
    /\ ticked' = Up
    /\ UNCHANGED <<cluster, pc, listed, batch, active, stamp, history, file, life, kept>>

PodComesOrGoes(p) ==
    /\ cluster' = IF p \in cluster THEN cluster \ {p} ELSE cluster \cup {p}
    /\ UNCHANGED <<clock, pc, poll, history, file, life, kept>>

\* LoadFromFile: no file and an unreadable one leave the storage empty.
Start ==
    /\ pc = "down"
    /\ starts < MaxStarts
    /\ history' = IF file = Torn THEN NewStorage(Pods) ELSE file
    /\ pc' = "idle"
    /\ starts' = starts + 1 /\ since' = clock /\ gcAt' = clock + GCInterval
    /\ UNCHANGED <<clock, cluster, poll, file, kept>>

\* The metrics API answers from what it has last scraped: pods that are gone by
\* now, and not all of the new ones.
ListMetrics ==
    /\ pc = "idle"
    /\ ticked
    /\ ticked' = FALSE
    /\ listed' \in SUBSET Pods
    /\ pc' = "list"
    /\ UNCHANGED <<clock, cluster, batch, active, stamp, history, file, life, kept>>

\* One of the two lists fails: nothing is stored and nothing is synced.
Fetching == (pc = "idle" /\ ticked) \/ pc = "list"

FetchOver ==
    /\ ticked' = (ticked /\ pc = "list")
    /\ pc' = "idle"
    /\ listed' = {}
    /\ UNCHANGED <<clock, cluster, batch, active, stamp, file, life, kept>>

\* Mutated: the loop goes on after an error, with no pods.
FetchFailsSyncs ==
    /\ Fetching
    /\ history' = Synced(history, {})
    /\ FetchOver

FetchFails ==
    /\ Fetching
    /\ FetchOver
    /\ UNCHANGED history

\* Mutated: pods that the core API does not know are added all the same.
GetPodMetricsUnmatched ==
    /\ pc = "list"
    /\ batch' = listed
    /\ active' = listed \cap cluster
    /\ stamp' = clock
    /\ listed' = {}
    /\ pc' = "store"
    /\ UNCHANGED <<clock, cluster, ticked, history, file, life, kept>>

\* Only pods that both answers name are kept.  From here on no other pod has a
\* claim on its samples.
GetPodMetrics ==
    /\ pc = "list"
    /\ batch' = listed \cap cluster
    /\ active' = listed \cap cluster
    /\ stamp' = clock
    /\ listed' = {}
    /\ pc' = "store"
    /\ kept' = [p \in Pods |-> IF p \in listed \cap cluster THEN kept[p] ELSE {}]
    /\ UNCHANGED <<clock, cluster, ticked, history, file, life>>

Add(p) ==
    /\ pc = "store"
    /\ p \in batch
    /\ history' = Added(history, [pod |-> p, at |-> stamp])
    /\ kept' = [kept EXCEPT ![p] = @ \cup {stamp}]
    /\ batch' = batch \ {p}
    /\ UNCHANGED <<clock, cluster, pc, ticked, listed, active, stamp, file, life>>

SyncPods ==
    /\ pc = "store"
    /\ batch = {}
    /\ history' = Synced(history, active)
    /\ active' = {} /\ stamp' = 0
    /\ pc' = "idle"
    /\ UNCHANGED <<clock, cluster, ticked, listed, batch, file, life, kept>>

\* The garbage collector's goroutine, at any moment of a poll; SaveToFile holds
\* the lock that Cleanup needs.
Cleanup ==
    /\ Up
    /\ pc # "save"
    /\ clock >= gcAt
    /\ history' = CleanedUp(history, clock - MaxAge)
    /\ gcAt' = clock + GCInterval
    /\ UNCHANGED <<clock, cluster, pc, poll, file, starts, since, kept>>

\* A signal is looked at between two polls.  The file is truncated before it is
\* written.
SaveBegins ==
    /\ pc = "idle"
    /\ pc' = "save"
    /\ file' = Torn
    /\ UNCHANGED <<clock, cluster, poll, history, life, kept>>

Off ==
    /\ pc' = "down"
    /\ ticked' = FALSE /\ listed' = {} /\ batch' = {} /\ active' = {} /\ stamp' = 0
    /\ gcAt' = 0 /\ since' = 0
    /\ history' = NewStorage(Pods)
    /\ UNCHANGED <<clock, cluster, starts>>

SaveEnds ==
    /\ pc = "save"
    /\ file' = history
    /\ Off
    /\ UNCHANGED kept

\* Killed: only the file is left.
Kill ==
    /\ Up
    /\ Off
    /\ kept' = IF file = Torn THEN Nothing ELSE [p \in Pods |-> Times(file[p])]
    /\ UNCHANGED file

-----------------------------------------------------------------------------

Poll == ListMetrics \/ FetchFails \/ GetPodMetrics \/ (\E p \in Pods : Add(p)) \/ SyncPods

Process == Start \/ Poll \/ Cleanup \/ SaveBegins \/ SaveEnds

Environment == Tick \/ (\E p \in Pods : PodComesOrGoes(p)) \/ Kill

Next == Process \/ Environment

Spec == Init /\ [][Next]_vars

-----------------------------------------------------------------------------

Sample == [pod : Pods, at : Nat]

Storage == [Pods -> Seq(Sample)]

TypeOK ==
    /\ clock \in MaxAge..Horizon
    /\ cluster \subseteq Pods
    /\ pc \in {"down", "idle", "list", "store", "save"}
    /\ ticked \in BOOLEAN
    /\ listed \subseteq Pods
    /\ batch \subseteq active /\ active \subseteq Pods
    /\ stamp \in 0..clock
    /\ gcAt \in Nat /\ starts \in 0..MaxStarts /\ since \in 0..clock
    /\ history \in Storage
    /\ file \in Storage \cup {Torn}
    /\ kept \in [Pods -> SUBSET Nat]

(* Nothing is lost without a reason.  A sample stays until it is MaxAge old *)
(* or its pod is missing from an answer, or the process is killed before it *)
(* has saved: through polls that fail, a garbage collector that runs in the *)
(* middle of one, exits and starts.  And nothing stays that should go       *)
(* (memory.go:25-80, collector/main.go:69-150).                             *)
NothingLost ==
    \A p \in Pods :
        LET young == {t \in kept[p] : t > clock - MaxAge} IN
        /\ Up => young \subseteq Times(history[p])
        /\ (Up /\ pc # "store") => Times(history[p]) \subseteq kept[p]
        /\ (~Up /\ file # Torn) => young \subseteq Times(file[p])

(* No pod's samples ever run backwards in time, whatever was loaded before  *)
(* them: the engine takes the last one for the most recent (engine.go:544). *)
Chronological ==
    \A p \in Pods : \A i, j \in DOMAIN history[p] :
        i < j => history[p][i].at <= history[p][j].at

(* Once the process is up for longer than the garbage collector's interval, *)
(* no sample is older than MaxAge and that interval, although it starts     *)
(* from a file of any age and adds samples while pods are cleaned up        *)
(* (memory.go:33-58, 196-210).                                              *)
AgeBounded ==
    (Up /\ clock > since + GCInterval) =>
        \A p \in Pods : \A t \in Times(history[p]) : clock - t <= MaxAge + GCInterval

=============================================================================
