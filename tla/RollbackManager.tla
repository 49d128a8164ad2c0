--------------------------- MODULE RollbackManager ---------------------------
(***************************************************************************)
(* The rollback history (pkg/rollback/rollback_manager.go) and the two     *)
(* programs' use of it: Applier.LiveApply saves a container's requests     *)
(* before it scales it (pkg/applier/applier.go:78-129), optctl rollback    *)
(* loads the history from its file, restores a snapshot and saves the file *)
(* (cmd/optctl/main.go:531-567).  The manager's methods run one at a time, *)
(* under its mutex, in any order that the callers choose; between a save   *)
(* and the update that follows it anything else may happen.                *)
(*                                                                         *)
(* A ghost, the trail, goes with every history: what was saved and rolled  *)
(* back to make it what it is.  It goes to the file and comes back with    *)
(* it, so it spans the processes that hand a history on.                   *)
(***************************************************************************)
EXTENDS Naturals, Sequences, SequencesExt

CONSTANTS
    Keys,                    \* namespace/kind/name/container
    Requests,                \* CPU and memory requests a container may have
    Workers,                 \* the controller's workers, each in one LiveApply at a time
    NoKey,                   \* a worker that applies nothing
    MaxHistoryPerWorkload,   \* the constant of that name, 5
    MaxSaves                 \* bound: snapshots taken

ASSUME RollbackAssumption ==
    /\ MaxHistoryPerWorkload \in Nat \ {0}
    /\ MaxSaves \in Nat
    /\ NoKey \notin Keys

VARIABLES
    live,       \* the requests of each container in the cluster
    history,    \* the manager's history, in memory
    file,       \* the history file
    applying,   \* the key a worker has saved and not scaled yet
    saves,      \* snapshots taken so far: the clock of their timestamps
    trail,      \* ghost: the trail of each container's history in memory
    filed,      \* ghost: the trail of its history in the file
    previous    \* ghost: the requests that the latest update of each container replaced

vars == <<live, history, file, applying, saves, trail, filed, previous>>

Snapshot == [requests : Requests, timestamp : 1..MaxSaves]

Latest == MaxSaves + 1

\* The timestamps saved and not rolled back, the greatest number of them
\* there has been, and the one last restored, Latest if one was saved since.
Trail == [log : Seq(1..MaxSaves), most : Nat, restored : 1..Latest]

NewTrail == [log |-> <<>>, most |-> 0, restored |-> Latest]

TrailSaved(t, timestamp) ==
    [log |-> Append(t.log, timestamp), restored |-> Latest,
     most |-> IF Len(t.log) + 1 > t.most THEN Len(t.log) + 1 ELSE t.most]

TrailRolledBack(t, timestamp) ==
    [log |-> Front(t.log), restored |-> timestamp, most |-> t.most]

Init ==
    /\ live \in [Keys -> Requests]
    /\ history = [k \in Keys |-> <<>>]
    /\ file = [k \in Keys |-> <<>>]
    /\ applying = [w \in Workers |-> NoKey]
    /\ saves = 0
    /\ trail = [k \in Keys |-> NewTrail]
    /\ filed = [k \in Keys |-> NewTrail]
    /\ previous = live

-----------------------------------------------------------------------------

\* Mutated: one snapshot more than MaxHistoryPerWorkload.
TrimmedOneMore(configs) ==
    IF Len(configs) > MaxHistoryPerWorkload + 1 THEN Tail(configs) ELSE configs

\* Mutated: a full history loses one snapshot more than it has to.
TrimmedOneLess(configs) ==
    IF Len(configs) > MaxHistoryPerWorkload
    THEN SubSeq(configs, Len(configs) - MaxHistoryPerWorkload + 2, Len(configs))
    ELSE configs

Trimmed(configs) ==
    IF Len(configs) > MaxHistoryPerWorkload
    THEN SubSeq(configs, Len(configs) - MaxHistoryPerWorkload + 1, Len(configs))
    ELSE configs

\* LiveApply begins: fetchCurrentConfig and append.
SavePreviousConfig(w, k) ==
    /\ applying[w] = NoKey
    /\ saves < MaxSaves
    /\ saves' = saves + 1
    /\ history' = [history EXCEPT ![k] =
                      Trimmed(Append(@, [requests |-> live[k], timestamp |-> saves + 1]))]
    /\ applying' = [applying EXCEPT ![w] = k]
    /\ trail' = [trail EXCEPT ![k] = TrailSaved(@, saves + 1)]
    /\ UNCHANGED <<live, file, filed, previous>>

\* The fetch fails: LiveApply logs it and goes on.
SaveFails(w, k) ==
    /\ applying[w] = NoKey
    /\ applying' = [applying EXCEPT ![w] = k]
    /\ UNCHANGED <<live, history, file, saves, trail, filed, previous>>

\* The scaler refuses or fails: the snapshot stays in the history.
ScaleFails(w) ==
    /\ applying[w] # NoKey
    /\ applying' = [applying EXCEPT ![w] = NoKey]
    /\ UNCHANGED <<live, history, file, saves, trail, filed, previous>>

Scale(w) ==
    LET k == applying[w] IN
    /\ k # NoKey
    /\ \E r \in Requests \ {live[k]} : live' = [live EXCEPT ![k] = r]
    /\ previous' = [previous EXCEPT ![k] = live[k]]
    /\ applying' = [applying EXCEPT ![w] = NoKey]
    /\ UNCHANGED <<history, file, saves, trail, filed>>

\* The snapshot a rollback restores.
Target(k) == history[k][Len(history[k]) - 1]

\* Mutated: the history is left as it is.
RollbackKeepsHistory(k) ==
    /\ Len(history[k]) >= 2
    /\ live' = [live EXCEPT ![k] = Target(k).requests]
    /\ trail' = [trail EXCEPT ![k].restored = Target(k).timestamp]
    /\ UNCHANGED <<history, file, applying, saves, filed, previous>>

\* With fewer than two snapshots, or when the update fails, nothing changes.
RollbackWorkload(k) ==
    /\ Len(history[k]) >= 2
    /\ live' = [live EXCEPT ![k] = Target(k).requests]
    /\ history' = [history EXCEPT ![k] = Front(@)]
    /\ trail' = [trail EXCEPT ![k] = TrailRolledBack(@, Target(k).timestamp)]
    /\ UNCHANGED <<file, applying, saves, filed, previous>>

SaveToFile ==
    /\ file' = history
    /\ filed' = trail
    /\ UNCHANGED <<live, history, applying, saves, trail, previous>>

\* The decoded keys replace those in memory, the others stay.
Loaded == [k \in Keys |-> IF file[k] = <<>> THEN history[k] ELSE file[k]]

LoadFromFile ==
    /\ history' = Loaded
    /\ trail' = [k \in Keys |-> IF file[k] = <<>> THEN trail[k] ELSE filed[k]]
    /\ UNCHANGED <<live, file, applying, saves, filed, previous>>

\* The process ends, or another one begins: NewRollbackManager is empty.
Restart ==
    /\ history' = [k \in Keys |-> <<>>]
    /\ applying' = [w \in Workers |-> NoKey]
    /\ trail' = [k \in Keys |-> NewTrail]
    /\ UNCHANGED <<live, file, saves, filed, previous>>

Next ==
    \/ \E w \in Workers, k \in Keys : SavePreviousConfig(w, k) \/ SaveFails(w, k)
    \/ \E w \in Workers : ScaleFails(w) \/ Scale(w)
    \/ \E k \in Keys : RollbackWorkload(k)
    \/ SaveToFile \/ LoadFromFile \/ Restart

Spec == Init /\ [][Next]_vars

-----------------------------------------------------------------------------

TypeOK ==
    /\ live \in [Keys -> Requests]
    /\ {history, file} \subseteq [Keys -> Seq(Snapshot)]
    /\ \A k \in Keys : \A h \in {history, file} : Len(h[k]) <= MaxHistoryPerWorkload
    /\ applying \in [Workers -> Keys \cup {NoKey}]
    /\ saves \in 0..MaxSaves
    /\ {trail, filed} \subseteq [Keys -> Trail]
    /\ previous \in [Keys -> Requests]

Timestamps(configs) == [i \in DOMAIN configs |-> configs[i].timestamp]

\* How many snapshots had to be given up: as many as did not fit.
GivenUp(t) == IF t.most > MaxHistoryPerWorkload THEN t.most - MaxHistoryPerWorkload ELSE 0

(* The history is what was saved and not rolled back, less the oldest       *)
(* snapshots, and of these exactly as many as did not fit when there were   *)
(* most: however saves, failed updates, rollbacks, files and loads          *)
(* alternate, no newer one is lost, none without need, and none twice       *)
(* (rollback_manager.go:44-51, 75, 226-254).                                *)
KeepsTheLatest ==
    \A k \in Keys :
        /\ IsSuffix(Timestamps(history[k]), trail[k].log)
        /\ Len(history[k]) = Len(trail[k].log) - GivenUp(trail[k])

(* Rollbacks that follow each other go strictly back in time until the      *)
(* history is used up: they never restore one snapshot twice or swing       *)
(* between two.  This spans processes: each command of optctl loads the     *)
(* file, rolls back once and saves the file (rollback_manager.go:61-75,     *)
(* cmd/optctl/main.go:546-563).  It holds as long as the rollback before    *)
(* has reached the file: a history that is lost before it is written, as    *)
(* when the write fails and main.go:562 only warns, is not remembered by    *)
(* the next command, which then restores the same snapshot again.           *)
RollbackDescends ==
    [][\A k \in Keys :
         RollbackWorkload(k) => Target(k).timestamp < trail[k].restored]_vars

(* README.md:252 says "Rollback a workload to previous configuration": a    *)
(* rollback undoes the latest update of the container.                      *)
RollbackRestoresPrevious ==
    [][\A k \in Keys : RollbackWorkload(k) => live'[k] = previous[k]]_vars

=============================================================================
