---------------------- MODULE MaintenanceWindow_proofs ----------------------
(***************************************************************************)
(* Maintenance windows for any schedules, delays, lateness and horizon.    *)
(* The inductive invariant:                                                *)
(*   Punctual   the timer is not later than MaxLate, and during a pass it  *)
(*              has not run out;                                           *)
(*   Scanned    a window that the pass has looked at is not open, and of   *)
(*              the one it is looking at every start before lastStart is   *)
(*              over;                                                      *)
(*   Met        between passes, every start that is to come or is still    *)
(*              open has had a pass, or a timer is set that runs out no    *)
(*              later than Active after it.                                *)
(***************************************************************************)
EXTENDS MaintenanceWindow, WellFoundedInduction, TLAPS

Readable(w) == w.starts # Unparsable /\ w.lasts # Unparsable

Punctual ==
    /\ pc = "asleep" => clock <= wake + MaxLate
    /\ pc = "scan" => clock <= wake

Scanned ==
    /\ pc = "asleep" => left = {} /\ window = None
    /\ pc = "scan" => \A w \in windows \ left : OpenStarts(w) = {}
    /\ window # None =>
          /\ pc = "scan" /\ Readable(window)
          /\ window.starts # {} => lastStart \in window.starts
          /\ window.starts = {} => lastStart = Zero
          /\ \A s \in window.starts : s < lastStart => s + window.lasts <= clock

AllFire == \A v \in windows : v.starts # {}

MetFor(s) == passed > s \/ refused = s \/ wake <= s + Active

Met ==
    (pc = "asleep" /\ AllFire) =>
        \A w \in windows : Readable(w) =>
            \A s \in w.starts : (s >= Boot /\ clock < s + w.lasts) => MetFor(s)

IInv == TypeOK /\ Punctual /\ Scanned /\ Met

-----------------------------------------------------------------------------
\* Schedules.

LEMMA LeastOf ==
  ASSUME NEW T, T \subseteq Nat, T # {}
  PROVE  Min(T) \in T /\ \A n \in T : Min(T) <= n
  <1>1. PICK m \in T : \A k \in T : <<k, m>> \notin OpToRel(<, Nat)
    BY NatLessThanWellFounded, WFMin, Zenon
  <1>2. \A k \in T : ~(k < m)
    BY <1>1 DEF OpToRel
  <1>3. \A k \in T : m <= k
    BY <1>2
  <1> QED
    BY <1>3 DEF Min

LEMMA WindowFacts ==
  ASSUME NEW w \in Windows
  PROVE  /\ w.starts # Unparsable => w.starts \subseteq Nat
         /\ w.lasts # Unparsable => w.lasts \in Nat /\ w.lasts > 0 /\ Boot > w.lasts + Minute
  BY MaintenanceAssumption

(* cron's Next: the least start after t.                                    *)
LEMMA NextFacts ==
  ASSUME NEW w \in Windows, w.starts # Unparsable, w.starts # {}, NEW t \in 0..Horizon
  PROVE  /\ Next(w, t) \in w.starts /\ Next(w, t) \in Nat /\ Next(w, t) > t
         /\ \A s \in w.starts : s > t => Next(w, t) <= s
         /\ \A s \in w.starts : s < Next(w, t) => s <= t
  <1> DEFINE later == {s \in w.starts : s > t}
  <1>1. w.starts \subseteq Nat
    BY WindowFacts
  <1>2. later \subseteq Nat /\ later # {}
    BY <1>1, MaintenanceAssumption
  <1>3. Next(w, t) = Min(later)
    BY DEF Next
  <1>4. Next(w, t) \in later /\ \A s \in later : Next(w, t) <= s
    <2> HIDE DEF later
    <2> QED
      BY <1>2, <1>3, LeastOf
  <1>5. ASSUME NEW s \in w.starts, s < Next(w, t)
        PROVE  s <= t
    <2>1. s \in Nat /\ t \in Nat /\ Next(w, t) \in Nat
      BY <1>1, <1>4, MaintenanceAssumption
    <2>2. CASE s > t
      BY <1>4, <1>5, <2>1, <2>2
    <2> QED
      BY <2>1, <2>2
  <1> QED
    BY <1>1, <1>4, <1>5

LEMMA NextNumber ==
  ASSUME NEW w \in Windows, w.starts # Unparsable, NEW t \in 0..Horizon
  PROVE  Next(w, t) \in Nat
  BY NextFacts DEF Next, Zero

(* The delay of a pass outside is a delay, and it ends no later than any    *)
(* start to come (reconciler.go:135-146).                                   *)
LEMMA RequeueFacts ==
  ASSUME TypeOK
  PROVE  /\ RequeueOutside \in Nat /\ 0 < RequeueOutside /\ RequeueOutside <= Soon + Poll
         /\ AllFire => \A w \in windows : Readable(w) =>
               \A s \in w.starts : s > clock => clock + RequeueOutside <= s
  <1> DEFINE starts == {Next(w, clock) : w \in {v \in windows : v.starts # Unparsable}}
             next == GetNextMaintenanceWindow
  <1>1. /\ windows \subseteq Windows /\ clock \in 0..Horizon /\ clock \in Nat
        /\ Poll \in Nat /\ Poll > 0 /\ Soon \in Nat /\ Soon > 0 /\ Poll <= Soon
    BY MaintenanceAssumption DEF TypeOK
  <1>2. starts \subseteq Nat
    BY <1>1, NextNumber
  <1>3. /\ starts = {} => next = Zero
        /\ starts # {} => next \in starts /\ \A n \in starts : next <= n
    <2>1. next = IF starts = {} THEN Zero ELSE Min(starts)
      BY DEF GetNextMaintenanceWindow
    <2> HIDE DEF starts, next
    <2> QED
      BY <1>2, <2>1, LeastOf
  <1>4. next \in Nat
    BY <1>2, <1>3 DEF Zero
  <1>5. RequeueOutside = IF 0 < next - clock /\ next - clock < Soon THEN next - clock ELSE Poll
    BY DEF RequeueOutside
  <1>6. ASSUME AllFire, NEW w \in windows, Readable(w), NEW s \in w.starts, s > clock
        PROVE  clock + RequeueOutside <= s
    <2>1. Next(w, clock) \in starts /\ Next(w, clock) <= s /\ w.starts \subseteq Nat
      BY <1>1, <1>6, NextFacts, WindowFacts DEF Readable, AllFire
    <2>2. next <= Next(w, clock) /\ next \in starts
      BY <1>3, <2>1
    <2>3. next > clock
      <3>1. PICK v \in windows : v.starts # Unparsable /\ next = Next(v, clock)
        BY <2>2
      <3> QED
        BY <1>1, <1>6, <3>1, NextFacts DEF AllFire
    <2>4. s \in Nat /\ Next(w, clock) \in Nat
      BY <1>2, <2>1
    <2> HIDE DEF next, starts
    <2> QED
      BY <1>1, <1>4, <1>5, <2>1, <2>2, <2>3, <2>4
  <1> HIDE DEF next
  <1> QED
    BY <1>1, <1>4, <1>5, <1>6

-----------------------------------------------------------------------------
\* The inductive invariant.

LEMMA InitIInv == Init => IInv
  <1> SUFFICES ASSUME Init PROVE IInv
    OBVIOUS
  <1> USE MaintenanceAssumption
  <1>1. windows \subseteq Windows
    BY DEF Init
  <1>2. TypeOK
    <2>1. /\ Boot \in Nat /\ Horizon \in Nat /\ Boot <= Horizon
          /\ Active \in Nat /\ Poll \in Nat /\ Soon \in Nat
      OBVIOUS
    <2>2. Boot \in Boot..Horizon /\ Boot \in Boot..Never
      BY <2>1 DEF Never
    <2> QED
      BY <1>1, <2>2 DEF Init, TypeOK, Zero
  <1>3. Punctual /\ Scanned
    BY DEF Init, Punctual, Scanned
  <1>4. Met
    <2> SUFFICES ASSUME NEW w \in windows, Readable(w), NEW s \in w.starts, s >= Boot
                 PROVE  wake <= s + Active
      BY DEF Met, MetFor
    <2>1. s \in Nat
      BY <1>1, WindowFacts DEF Readable
    <2> QED
      BY <2>1 DEF Init
  <1> QED
    BY <1>2, <1>3, <1>4 DEF IInv

LEMMA TickPreserves == IInv /\ Tick => IInv'
  <1> SUFFICES ASSUME IInv, Tick PROVE IInv'
    OBVIOUS
  <1> USE MaintenanceAssumption
  <1>1. /\ pc = "asleep" /\ clock < Horizon /\ clock < wake + MaxLate /\ clock' = clock + 1
        /\ UNCHANGED <<windows, wake, pc, left, window, lastStart, active, passed, refused>>
    BY DEF Tick, ghosts
  <1>2. clock \in Nat /\ wake \in Nat /\ clock \in Boot..Horizon /\ windows \subseteq Windows
    BY DEF IInv, TypeOK
  <1>3. TypeOK'
    BY <1>1, <1>2 DEF IInv, TypeOK, Never
  <1>4. Punctual'
    BY <1>1, <1>2 DEF Punctual
  <1>5. Scanned'
    BY <1>1 DEF IInv, Scanned
  <1>6. Met'
    <2> SUFFICES ASSUME AllFire, NEW w \in windows, Readable(w),
                        NEW s \in w.starts, s >= Boot, clock + 1 < s + w.lasts
                 PROVE  MetFor(s)
      BY <1>1 DEF Met, MetFor, AllFire
    <2>1. s \in Nat /\ w.lasts \in Nat
      BY <1>2, WindowFacts DEF Readable
    <2>2. clock < s + w.lasts
      BY <1>2, <2>1
    <2> QED
      BY <1>1, <2>2 DEF IInv, Met
  <1> QED
    BY <1>3, <1>4, <1>5, <1>6 DEF IInv

LEMMA PassBeginsPreserves == IInv /\ PassBegins => IInv'
  <1> SUFFICES ASSUME IInv, PassBegins PROVE IInv'
    OBVIOUS
  <1> USE MaintenanceAssumption
  <1>1. /\ pc = "asleep" /\ pc' = "scan" /\ left' = windows
        /\ wake' = IF clock > wake THEN Never ELSE wake
        /\ UNCHANGED <<windows, clock, window, lastStart, active, passed, refused>>
    BY DEF PassBegins, ghosts
  <1>2. /\ clock \in Nat /\ wake \in Boot..Never /\ clock \in Boot..Horizon /\ Never \in Nat
        /\ Horizon <= Never /\ window = None
    BY <1>1 DEF IInv, TypeOK, Scanned, Never
  <1>3. wake' \in Boot..Never
    BY <1>1, <1>2
  <1>4. TypeOK'
    BY <1>1, <1>2, <1>3 DEF IInv, TypeOK, Never
  <1>5. Punctual'
    BY <1>1, <1>2 DEF Punctual
  <1>6. Scanned'
    BY <1>1, <1>2 DEF Scanned
  <1>7. Met'
    BY <1>1 DEF Met
  <1> QED
    BY <1>4, <1>5, <1>6, <1>7 DEF IInv

LEMMA LookAtPreserves ==
  ASSUME IInv, NEW w \in left, LookAt(w)
  PROVE  IInv'
  <1> USE MaintenanceAssumption
  <1>1. /\ pc = "scan" /\ window = None
        /\ UNCHANGED <<windows, clock, wake, pc, active, passed, refused>>
    BY DEF LookAt, ghosts
  <1>2. w \in Windows /\ w \in windows /\ clock \in Nat /\ clock \in Boot..Horizon /\ w # None
    BY DEF IInv, TypeOK
  <1>3. Punctual' /\ Met'
    BY <1>1 DEF IInv, Punctual, Met
  <1>4. CASE ~Readable(w)
    <2>1. left' = left \ {w} /\ UNCHANGED <<window, lastStart>>
      BY <1>4 DEF LookAt, Readable
    <2>2. OpenStarts(w) = {}
      BY <1>4 DEF OpenStarts, Readable
    <2>3. TypeOK'
      BY <1>1, <2>1 DEF IInv, TypeOK, Never
    <2>4. Scanned'
      BY <1>1, <2>1, <2>2 DEF IInv, Scanned, OpenStarts
    <2> QED
      BY <1>3, <2>3, <2>4 DEF IInv
  <1>5. CASE Readable(w)
    <2> DEFINE t == clock - w.lasts - Minute
    <2>1. window' = w /\ lastStart' = Next(w, t) /\ left' = left
      BY <1>5 DEF LookAt, Readable
    <2>2. w.lasts \in Nat /\ t \in 0..Horizon /\ t + w.lasts <= clock /\ w.starts \subseteq Nat
      BY <1>2, <1>5, WindowFacts DEF Readable
    <2>3. /\ lastStart' \in Nat
          /\ w.starts # {} => lastStart' \in w.starts
          /\ w.starts = {} => lastStart' = Zero
          /\ \A s \in w.starts : s < lastStart' => s <= t
      <3> HIDE DEF t
      <3>1. CASE w.starts = {}
        BY <2>1, <3>1 DEF Next, Zero
      <3>2. CASE w.starts # {}
        BY <1>2, <1>5, <2>1, <2>2, <3>2, NextFacts DEF Readable
      <3> QED
        BY <3>1, <3>2
    <2>4. \A s \in w.starts : s < lastStart' => s + w.lasts <= clock
      <3> HIDE DEF t
      <3> QED
        BY <1>2, <2>2, <2>3
    <2>5. TypeOK'
      BY <1>1, <2>1, <2>3 DEF IInv, TypeOK, Never
    <2>6. Scanned'
      BY <1>1, <1>2, <1>5, <2>1, <2>3, <2>4 DEF IInv, Scanned, OpenStarts, Readable
    <2> QED
      BY <1>3, <2>5, <2>6 DEF IInv
  <1> QED
    BY <1>4, <1>5

\* What is known of the window that the pass is looking at.
LEMMA LookingAt ==
  ASSUME IInv, window # None
  PROVE  /\ pc = "scan" /\ window \in windows /\ window \in Windows /\ Readable(window)
         /\ window.lasts \in Nat /\ window.lasts > 0 /\ Boot > window.lasts
         /\ window.starts \subseteq Nat
         /\ clock \in Nat /\ lastStart \in Nat /\ clock \in Boot..Horizon
  <1>1. pc = "scan" /\ window \in windows /\ window \in Windows /\ Readable(window)
    BY DEF IInv, TypeOK, Scanned
  <1>2. window.lasts \in Nat /\ window.lasts > 0 /\ Boot > window.lasts + Minute
    BY <1>1, WindowFacts DEF Readable
  <1>3. window.starts \subseteq Nat
    BY <1>1, WindowFacts DEF Readable
  <1> QED
    BY <1>1, <1>2, <1>3, MaintenanceAssumption DEF IInv, TypeOK

LEMMA TryNextStartPreserves == IInv /\ TryNextStart => IInv'
  <1> SUFFICES ASSUME IInv, TryNextStart PROVE IInv'
    OBVIOUS
  <1> USE MaintenanceAssumption
  <1>1. /\ window # None /\ lastStart < clock /\ ~Inside
        /\ lastStart' = Next(window, lastStart)
        /\ UNCHANGED <<windows, clock, wake, pc, left, window, active, passed, refused>>
    BY DEF TryNextStart, ghosts
  <1>2. /\ pc = "scan" /\ window \in Windows /\ Readable(window) /\ window.lasts \in Nat
        /\ window.starts \subseteq Nat /\ clock \in Nat /\ lastStart \in 0..Horizon
        /\ lastStart \in Nat
    BY <1>1, LookingAt
  <1>3. lastStart + window.lasts <= clock
    BY <1>1, <1>2 DEF Inside
  <1>4. /\ lastStart' \in Nat
        /\ window.starts # {} => lastStart' \in window.starts
        /\ window.starts = {} => lastStart' = Zero
        /\ \A s \in window.starts : s < lastStart' => s <= lastStart
    <2>1. CASE window.starts = {}
      BY <1>1, <2>1 DEF Next, Zero
    <2>2. CASE window.starts # {}
      BY <1>1, <1>2, <2>2, NextFacts DEF Readable
    <2> QED
      BY <2>1, <2>2
  <1>5. \A s \in window.starts : s < lastStart' => s + window.lasts <= clock
    BY <1>2, <1>3, <1>4
  <1>6. TypeOK'
    BY <1>1, <1>4 DEF IInv, TypeOK, Never
  <1>7. Scanned'
    BY <1>1, <1>4, <1>5 DEF IInv, Scanned, OpenStarts, Readable
  <1>8. Punctual' /\ Met'
    BY <1>1, <1>2 DEF IInv, Punctual, Met
  <1> QED
    BY <1>6, <1>7, <1>8 DEF IInv

LEMMA NotInWindowPreserves == IInv /\ NotInWindow => IInv'
  <1> SUFFICES ASSUME IInv, NotInWindow PROVE IInv'
    OBVIOUS
  <1> USE MaintenanceAssumption
  <1>1. /\ window # None /\ lastStart >= clock /\ left' = left \ {window} /\ window' = None
        /\ lastStart' = Zero
        /\ UNCHANGED <<windows, clock, wake, pc, active, passed, refused>>
    BY DEF NotInWindow, ghosts
  <1>2. /\ pc = "scan" /\ window \in Windows /\ Readable(window) /\ window.lasts \in Nat
        /\ window.starts \subseteq Nat /\ clock \in Nat /\ lastStart \in Nat
    BY <1>1, LookingAt
  <1>3. OpenStarts(window) = {}
    <2> SUFFICES ASSUME NEW s \in window.starts, s < clock, clock < s + window.lasts
                 PROVE  FALSE
      BY <1>2 DEF OpenStarts, Readable
    <2>1. s \in Nat /\ s < lastStart
      BY <1>1, <1>2
    <2>2. s + window.lasts <= clock
      BY <1>1, <2>1 DEF IInv, Scanned
    <2> QED
      BY <1>2, <2>1, <2>2
  <1>4. TypeOK'
    BY <1>1 DEF IInv, TypeOK, Never, Zero
  <1>5. Scanned'
    BY <1>1, <1>2, <1>3 DEF IInv, Scanned, OpenStarts
  <1>6. Punctual' /\ Met'
    BY <1>1, <1>2 DEF IInv, Punctual, Met
  <1> QED
    BY <1>4, <1>5, <1>6 DEF IInv

(* A pass ends, inside or not: the timer it sets runs out within a number   *)
(* of ticks, and what it answers for the starts is left to its caller.      *)
LEMMA PassEndsPreserves ==
  ASSUME IInv, pc = "scan", NEW verdict \in BOOLEAN, NEW delay \in Nat,
         0 < delay, delay <= Active + Soon + Poll,
         PassEnds(verdict, delay),
         {passed', refused'} \subseteq {passed, refused, clock},
         ASSUME AllFire, NEW w \in windows, Readable(w),
                NEW s \in w.starts, s >= Boot, clock < s + w.lasts
         PROVE  passed' > s \/ refused' = s \/ clock + delay <= s + Active
  PROVE  IInv'
  <1> USE MaintenanceAssumption
  <1>1. /\ pc' = "asleep" /\ active' = verdict /\ wake' = Min({wake, clock + delay})
        /\ left' = {} /\ window' = None /\ lastStart' = Zero
        /\ UNCHANGED <<windows, clock>>
    BY DEF PassEnds
  <1>2. /\ clock \in Nat /\ clock \in Boot..Horizon /\ wake \in Nat /\ wake \in Boot..Never
        /\ clock <= wake /\ windows \subseteq Windows
        /\ Active \in Nat /\ Soon \in Nat /\ Poll \in Nat /\ Horizon \in Nat /\ Boot \in Nat
    BY DEF IInv, TypeOK, Punctual, Never
  <1>3. /\ wake' \in {wake, clock + delay} /\ wake' <= clock + delay /\ clock <= wake'
    <2>1. {wake, clock + delay} \subseteq Nat
      BY <1>2
    <2>2. wake' \in {wake, clock + delay} /\ \A n \in {wake, clock + delay} : wake' <= n
      BY <1>1, <2>1, LeastOf
    <2> QED
      BY <1>2, <2>2
  <1>4. wake' \in Boot..Never
    BY <1>2, <1>3 DEF Never
  <1>5. TypeOK'
    BY <1>1, <1>2, <1>4 DEF IInv, TypeOK, Never, Zero
  <1>6. Punctual'
    BY <1>1, <1>2, <1>3, <1>4 DEF Punctual
  <1>7. Scanned'
    BY <1>1 DEF Scanned
  <1>8. Met'
    <2> SUFFICES ASSUME AllFire, NEW w \in windows, Readable(w),
                        NEW s \in w.starts, s >= Boot, clock < s + w.lasts
                 PROVE  passed' > s \/ refused' = s \/ wake' <= s + Active
      BY <1>1 DEF Met, MetFor, AllFire
    <2>1. s \in Nat
      BY <1>2, WindowFacts DEF Readable
    <2>2. CASE clock + delay <= s + Active
      BY <1>2, <1>3, <1>4, <2>1, <2>2
    <2> QED
      BY <2>2
  <1> QED
    BY <1>5, <1>6, <1>7, <1>8 DEF IInv

LEMMA PassInsidePreserves == IInv /\ PassInside => IInv'
  <1> SUFFICES ASSUME IInv, PassInside PROVE IInv'
    OBVIOUS
  <1>1. window # None /\ PassEnds(TRUE, Active) /\ passed' = clock /\ refused' = refused
    BY DEF PassInside
  <1>2. /\ Active \in Nat /\ 0 < Active /\ Soon \in Nat /\ Poll \in Nat
        /\ Active <= Active + Soon + Poll
    BY MaintenanceAssumption
  <1>3. pc = "scan" /\ clock \in Nat /\ windows \subseteq Windows
    BY <1>1, LookingAt DEF IInv, TypeOK
  <1>4. ASSUME AllFire, NEW w \in windows, Readable(w),
               NEW s \in w.starts, s >= Boot, clock < s + w.lasts
        PROVE  passed' > s \/ refused' = s \/ clock + Active <= s + Active
    <2>1. s \in Nat
      BY <1>3, <1>4, WindowFacts DEF Readable
    <2> QED
      BY <1>1, <1>2, <1>3, <2>1
  <1> QED
    BY <1>1, <1>2, <1>3, <1>4, PassEndsPreserves

(* A pass that finds itself outside is outside: it has looked at every      *)
(* window.                                                                  *)
LEMMA OutsideIsClosed ==
  ASSUME IInv, PassOutside
  PROVE  \A w \in windows : OpenStarts(w) = {}
  BY DEF PassOutside, IInv, Scanned

LEMMA PassOutsidePreserves == IInv /\ PassOutside => IInv'
  <1> SUFFICES ASSUME IInv, PassOutside PROVE IInv'
    OBVIOUS
  <1>1. /\ pc = "scan" /\ PassEnds(FALSE, RequeueOutside)
        /\ refused' = clock /\ passed' = passed
    BY DEF PassOutside
  <1>2. /\ Active \in Nat /\ Soon \in Nat /\ Poll \in Nat
        /\ clock \in Nat /\ windows \subseteq Windows
    BY MaintenanceAssumption DEF IInv, TypeOK
  <1>3. /\ RequeueOutside \in Nat /\ 0 < RequeueOutside /\ RequeueOutside <= Soon + Poll
        /\ AllFire => \A w \in windows : Readable(w) =>
              \A s \in w.starts : s > clock => clock + RequeueOutside <= s
    BY RequeueFacts DEF IInv
  <1>4. RequeueOutside <= Active + Soon + Poll
    BY <1>2, <1>3
  <1>5. ASSUME AllFire, NEW w \in windows, Readable(w),
               NEW s \in w.starts, s >= Boot, clock < s + w.lasts
        PROVE  passed' > s \/ refused' = s \/ clock + RequeueOutside <= s + Active
    <2>1. s \in Nat
      BY <1>2, <1>5, WindowFacts DEF Readable
    <2>2. ~(s < clock)
      BY <1>5, OutsideIsClosed DEF OpenStarts, Readable
    <2>3. CASE s = clock
      BY <1>1, <2>3
    <2>4. CASE s > clock
      <3>1. clock + RequeueOutside <= s
        BY <1>3, <1>5, <2>4
      <3> QED
        BY <1>2, <1>3, <2>1, <3>1
    <2> QED
      BY <1>2, <2>1, <2>2, <2>3, <2>4
  <1> QED
    BY <1>1, <1>3, <1>4, <1>5, PassEndsPreserves

LEMMA NextIInv == IInv /\ [NextStep]_vars => IInv'
  <1> SUFFICES ASSUME IInv, [NextStep]_vars PROVE IInv'
    OBVIOUS
  <1>1. CASE UNCHANGED vars
    BY <1>1 DEF vars, ghosts, IInv, TypeOK, Punctual, Scanned, Met, MetFor, AllFire, OpenStarts
  <1>2. CASE Scan
    BY <1>2, LookAtPreserves, TryNextStartPreserves, NotInWindowPreserves,
       PassInsidePreserves, PassOutsidePreserves DEF Scan
  <1> QED
    BY <1>1, <1>2, TickPreserves, PassBeginsPreserves DEF NextStep

LEMMA Invariance == Spec => []IInv
  BY InitIInv, NextIInv, PTL DEF Spec

-----------------------------------------------------------------------------
\* What it gives.

(* A timer is never set in the past, nor further ahead than the longest     *)
(* delay (reconciler.go:135-146, 192).                                      *)
THEOREM TypeCorrect == Spec => []TypeOK
  <1>1. IInv => TypeOK
    BY DEF IInv
  <1> QED
    BY <1>1, Invariance, PTL

(* Whatever the windows, the pass ends with the right verdict               *)
(* (maintenance_window.go:23-36, 77-85).                                    *)
THEOREM RightVerdict == Spec => VerdictIsRight
  <1>1. IInv /\ [NextStep]_vars =>
           [(pc = "scan" /\ pc' = "asleep") =>
               (active' <=> \E w \in windows : OpenStarts(w) # {})]_vars
    <2> SUFFICES ASSUME IInv, NextStep, pc = "scan", pc' = "asleep"
                 PROVE  active' <=> \E w \in windows : OpenStarts(w) # {}
      BY DEF vars
    <2>1. PassInside \/ PassOutside
      BY DEF NextStep, Tick, PassBegins, Scan, LookAt, TryNextStart, NotInWindow
    <2>2. CASE PassInside
      <3>1. window # None /\ Inside /\ active'
        BY <2>2 DEF PassInside, PassEnds
      <3>2. /\ window \in windows /\ Readable(window) /\ window.lasts \in Nat /\ Boot > window.lasts
            /\ clock \in Nat /\ lastStart \in Nat /\ Boot \in Nat /\ Boot <= clock
        BY <3>1, LookingAt, MaintenanceAssumption
      <3>3. lastStart # Zero
        BY <3>1, <3>2 DEF Inside, Zero
      <3>4. lastStart \in window.starts
        BY <3>1, <3>3 DEF IInv, Scanned
      <3>5. lastStart \in OpenStarts(window)
        BY <3>1, <3>2, <3>4 DEF Inside, OpenStarts, Readable
      <3> QED
        BY <3>1, <3>2, <3>5
    <2>3. CASE PassOutside
      BY <2>3, OutsideIsClosed DEF PassOutside, PassEnds
    <2> QED
      BY <2>1, <2>2, <2>3
  <1> QED
    BY <1>1, Invariance, PTL DEF Spec, VerdictIsRight

(* No window goes by unused, however short it is and whatever other windows *)
(* there are (reconciler.go:135-141).                                       *)
THEOREM NoneMissed == Spec => []NoWindowMissed
  <1>1. IInv => NoWindowMissed
    <2> SUFFICES ASSUME IInv, pc = "asleep", AllFire, NEW w \in windows,
                        NEW s \in OpenStarts(w), s >= Boot, clock > s + Active + MaxLate
                 PROVE  passed > s \/ refused = s
      BY DEF NoWindowMissed, AllFire
    <2>1. Readable(w) /\ s \in w.starts /\ clock < s + w.lasts
      BY DEF OpenStarts, Readable
    <2>2. MetFor(s)
      BY <2>1 DEF IInv, Met
    <2>3. /\ clock \in Nat /\ wake \in Nat /\ Active \in Nat /\ MaxLate \in Nat
          /\ clock <= wake + MaxLate /\ windows \subseteq Windows
      BY MaintenanceAssumption DEF IInv, TypeOK, Punctual
    <2>4. s \in Nat
      BY <2>1, <2>3, WindowFacts DEF Readable
    <2>5. ~(wake <= s + Active)
      BY <2>3, <2>4
    <2> QED
      BY <2>2, <2>5 DEF MetFor
  <1> QED
    BY <1>1, Invariance, PTL

=============================================================================
