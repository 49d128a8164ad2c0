-------------------------- MODULE MaintenanceWindow --------------------------
(***************************************************************************)
(* The maintenance windows of one enabled, live OptimizerConfig, in time:  *)
(* how a pass decides whether it is inside a window (pkg/scheduler/        *)
(* maintenance_window.go), and how the requeue delays of Reconcile         *)
(* (pkg/controller/reconciler.go:117-146, 192) bring the next pass about.  *)
(*                                                                         *)
(* Time is counted in ticks.  A cron schedule is the set of ticks at which *)
(* it fires, which abstracts calendars and time zones; an expression such  *)
(* as "0 0 30 2 *" parses and has none.  A pass is instantaneous; a timer  *)
(* fires after its moment, up to MaxLate later.                            *)
(***************************************************************************)
EXTENDS Integers, FiniteSets, FiniteSetsExt

CONSTANTS
    Windows,     \* windows the user may choose from, see Window
    MaxWindows,  \* bound: windows of one config
    Unparsable,  \* a schedule or a duration that does not parse
    Minute,      \* what isInWindow looks back further than the duration
    Active,      \* RequeueAfter of a pass that was let through, 30 s
    Poll,        \* RequeueAfter outside a window that does not open soon, 5 min
    Soon,        \* a window that opens in less is waited for, 30 min
    MaxLate,     \* bound: ticks by which a timer is late
    Boot,        \* when the config is first reconciled
    Horizon,     \* bound: last tick
    None         \* no window

ASSUME MaintenanceAssumption ==
    /\ Windows \subseteq [starts : (SUBSET Nat) \cup {Unparsable},
                          lasts  : (Nat \ {0}) \cup {Unparsable}]
    /\ None \notin Windows
    /\ {Minute, Active, Poll, Soon, MaxLate} \subseteq Nat \ {0}
    /\ Poll <= Soon
    /\ Boot \in Nat /\ Horizon \in Nat /\ Boot <= Horizon
    /\ \A w \in Windows : w.lasts # Unparsable => Boot > w.lasts + Minute
    \* A schedule that fires at all does so again and again.
    /\ \A w \in Windows : w.starts \notin {Unparsable, {}} =>
          \A t \in 0..Horizon : \E s \in w.starts : s > t

VARIABLES
    windows,    \* spec.maintenanceWindows
    clock,      \* the time
    wake,       \* when the key's timer fires, Never when none is running
    pc,         \* "asleep", or "scan" while IsInMaintenanceWindow runs
    left,       \* the windows it has not looked at yet
    window,     \* the window isInWindow is looking at
    lastStart,  \* isInWindow's variable of that name
    active,     \* status.activeMaintenanceWindow
    passed,     \* ghost: when the last pass inside a window took place
    refused     \* ghost: when the last pass outside took place

ghosts == <<passed, refused>>
vars == <<windows, clock, wake, pc, left, window, lastStart, active, ghosts>>

\* The zero time.Time, before every other.
Zero == 0

\* Later than every moment a timer could be set for.
Never == Horizon + Active + Poll + Soon

\* cron's Next: the first start after t; the zero time when there is none.
Next(w, t) ==
    IF w.starts = {} THEN Zero ELSE Min({s \in w.starts : s > t})

Init ==
    /\ windows \in {W \in SUBSET Windows : Cardinality(W) \in 1..MaxWindows}
    /\ clock = Boot
    /\ wake = Boot
    /\ pc = "asleep"
    /\ left = {}
    /\ window = None
    /\ lastStart = Zero
    /\ active = FALSE
    /\ passed = Zero /\ refused = Zero

-----------------------------------------------------------------------------

\* No timer is later than MaxLate.
Tick ==
    /\ pc = "asleep"
    /\ clock < Horizon
    /\ clock < wake + MaxLate
    /\ clock' = clock + 1
    /\ UNCHANGED <<windows, wake, pc, left, window, lastStart, active, ghosts>>

\* The key's timer has fired, or a watch event or a resync has come first: that
\* leaves the timer running.
PassBegins ==
    /\ pc = "asleep"
    /\ pc' = "scan"
    /\ wake' = IF clock > wake THEN Never ELSE wake
    /\ left' = windows
    /\ UNCHANGED <<windows, clock, window, lastStart, active, ghosts>>

\* isInWindow begins: a window that does not parse is none.
LookAt(w) ==
    /\ pc = "scan"
    /\ window = None
    /\ w \in left
    /\ IF Unparsable \in {w.starts, w.lasts}
       THEN left' = left \ {w} /\ UNCHANGED <<window, lastStart>>
       ELSE /\ window' = w
            /\ lastStart' = Next(w, clock - w.lasts - Minute)
            /\ UNCHANGED left
    /\ UNCHANGED <<windows, clock, wake, pc, active, ghosts>>

\* Mutated: the moment the window ends still counts.
InsideToTheEnd == lastStart < clock /\ clock <= lastStart + window.lasts

Inside == lastStart < clock /\ clock < lastStart + window.lasts

\* Mutated: the start after one that is over is looked for from the tick before
\* it, which finds it again.
TryNextStartAgain ==
    /\ window # None
    /\ lastStart < clock
    /\ ~Inside
    /\ lastStart' = Next(window, lastStart - 1)
    /\ UNCHANGED <<windows, clock, wake, pc, left, window, active, ghosts>>

\* The loop of isInWindow: this start is over, try the one after it.
TryNextStart ==
    /\ window # None
    /\ lastStart < clock
    /\ ~Inside
    /\ lastStart' = Next(window, lastStart)
    /\ UNCHANGED <<windows, clock, wake, pc, left, window, active, ghosts>>

\* No start of this window is left before now.
NotInWindow ==
    /\ window # None
    /\ lastStart >= clock
    /\ left' = left \ {window}
    /\ window' = None
    /\ lastStart' = Zero
    /\ UNCHANGED <<windows, clock, wake, pc, active, ghosts>>

\* A window whose duration does not parse has a next start all the same; the
\* zero time when no schedule parses.
GetNextMaintenanceWindow ==
    LET starts == {Next(w, clock) : w \in {v \in windows : v.starts # Unparsable}}
    IN  IF starts = {} THEN Zero ELSE Min(starts)

\* Mutated: the sign of the time until the next start is not looked at.
RequeueOutsideUnchecked ==
    LET timeUntilNext == GetNextMaintenanceWindow - clock
    IN  IF timeUntilNext < Soon THEN timeUntilNext ELSE Poll

\* Mutated: polls only, without regard to the next start.
RequeueOutsidePolls == Poll

RequeueOutside ==
    LET timeUntilNext == GetNextMaintenanceWindow - clock
    IN  IF 0 < timeUntilNext /\ timeUntilNext < Soon THEN timeUntilNext ELSE Poll

\* AddAfter: of two timers of one key the earlier counts.
PassEnds(inWindow, requeueAfter) ==
    /\ pc' = "asleep"
    /\ active' = inWindow
    /\ wake' = Min({wake, clock + requeueAfter})
    /\ left' = {} /\ window' = None /\ lastStart' = Zero
    /\ UNCHANGED <<windows, clock>>

PassInside ==
    /\ window # None
    /\ Inside
    /\ PassEnds(TRUE, Active)
    /\ passed' = clock
    /\ UNCHANGED refused

PassOutside ==
    /\ pc = "scan"
    /\ window = None /\ left = {}
    /\ PassEnds(FALSE, RequeueOutside)
    /\ refused' = clock
    /\ UNCHANGED passed

Scan == (\E w \in left : LookAt(w)) \/ TryNextStart \/ NotInWindow \/ PassInside \/ PassOutside

NextStep == Tick \/ PassBegins \/ Scan

Spec == Init /\ [][NextStep]_vars

\* A worker that is checking windows runs; nothing else is needed.
FairSpec == Spec /\ WF_vars(Scan)

-----------------------------------------------------------------------------

TypeOK ==
    /\ windows \subseteq Windows
    /\ clock \in Boot..Horizon
    /\ wake \in Boot..Never
    /\ pc \in {"asleep", "scan"}
    /\ left \subseteq windows
    /\ window \in left \cup {None}
    /\ lastStart \in Nat
    /\ active \in BOOLEAN
    /\ {passed, refused} \subseteq {Zero} \cup Boot..Horizon

\* The starts of w that a pass at this moment lies strictly inside.
OpenStarts(w) ==
    IF Unparsable \in {w.starts, w.lasts} THEN {}
    ELSE {s \in w.starts : s < clock /\ clock < s + w.lasts}

(* The pass finds itself in a window exactly when it is in one: some window *)
(* has started and not ended, though windows may overlap each other and     *)
(* themselves, span a whole period, or not parse (maintenance_window.go:    *)
(* 23-36, 77-85).                                                           *)
VerdictIsRight ==
    [][(pc = "scan" /\ pc' = "asleep") => (active' <=> \E w \in windows : OpenStarts(w) # {})]_vars

(* No window goes by unused, however short: as soon as one has been open    *)
(* for longer than a requeue and the lateness of a timer, a pass has run    *)
(* inside it or inside another that was open then.  Polling every five      *)
(* minutes would miss the short ones; it is the timer for the exact start   *)
(* that catches them (reconciler.go:135-141).  One case is left: a pass at  *)
(* the very moment of a start is outside, and the timer it sets is not for  *)
(* that start any more.  A schedule that never fires hides the others'.     *)
NoWindowMissed ==
    (pc = "asleep" /\ \A v \in windows : v.starts # {}) =>
        \A w \in windows : \A s \in OpenStarts(w) :
            (s >= Boot /\ clock > s + Active + MaxLate) => passed > s \/ refused = s

(* types.go:480 says "ActiveMaintenanceWindow indicates if currently in a   *)
(* maintenance window": the check that tells returns, for every schedule    *)
(* that parses (maintenance_window.go:77-85).                               *)
CheckReturns == pc = "scan" ~> pc = "asleep"

=============================================================================
