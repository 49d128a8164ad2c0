-------------------------- MODULE Collector_proofs --------------------------
(***************************************************************************)
(* The collector and its storage for any pods, ages, intervals and number  *)
(* of starts.  The inductive invariant:                                    *)
(*   Typed         TypeOK, and what the poll's variables are when unused;  *)
(*   KeptFor       what the storage or, while the process is down, the     *)
(*                 file holds of a pod is exactly what is kept for it, but *)
(*                 for samples past MaxAge and, in the middle of a poll,   *)
(*                 for pods that the coming SyncPods drops;                *)
(*   InOrder       samples run forwards in time, none is from the future,  *)
(*                 nor later than the batch that is being added;           *)
(*   Collected     the garbage collector is on time, and once it has run   *)
(*                 it has left nothing that is too old for its next run.   *)
(***************************************************************************)
EXTENDS Collector, WellFoundedInduction, SequenceTheorems, TLAPS

Young(p) == {t \in kept[p] : t > clock - MaxAge}

KeptFor ==
    \A p \in Pods :
        /\ Up => Young(p) \subseteq Times(history[p])
        /\ (Up /\ (pc # "store" \/ p \in active)) => Times(history[p]) \subseteq kept[p]
        /\ (pc = "store" /\ p \notin active) => kept[p] = {}
        /\ (~Up /\ file # Torn) => /\ Young(p) \subseteq Times(file[p])
                                   /\ Times(file[p]) \subseteq kept[p]
        /\ (~Up /\ file = Torn) => kept[p] = {}

Ordered(samples) ==
    \A i, j \in DOMAIN samples : i < j => samples[i].at <= samples[j].at

UpTo(samples, now) == \A t \in Times(samples) : t <= now

InOrder ==
    \A p \in Pods :
        /\ Ordered(history[p]) /\ UpTo(history[p], clock)
        /\ pc = "store" => UpTo(history[p], stamp)
        /\ file # Torn => Ordered(file[p]) /\ UpTo(file[p], clock)

Collected ==
    Up =>
        /\ clock <= gcAt /\ gcAt <= clock + GCInterval
        /\ since + GCInterval <= gcAt
        /\ pc = "store" => clock <= stamp + 1
        /\ gcAt > since + GCInterval =>
              \A p \in Pods : \A t \in Times(history[p]) : gcAt <= t + MaxAge + GCInterval

IInv == TypeOK /\ KeptFor /\ InOrder /\ Collected

-----------------------------------------------------------------------------
\* Induction: the least number that is not in S contradicts the step.

LEMMA Induction ==
  ASSUME NEW S, 0 \in S, \A n \in Nat : n \in S => n + 1 \in S
  PROVE  Nat \subseteq S
  <1> DEFINE missing == Nat \ S
  <1>1. CASE missing # {}
    <2>1. PICK m \in missing : \A k \in missing : <<k, m>> \notin OpToRel(<, Nat)
      BY <1>1, NatLessThanWellFounded, WFMin, Zenon
    <2>2. m \in Nat /\ m \notin S /\ m # 0
      OBVIOUS
    <2>3. m - 1 \in Nat /\ m - 1 < m /\ (m - 1) + 1 = m
      BY <2>2
    <2>4. m - 1 \in missing
      BY <2>2, <2>3
    <2>5. <<m - 1, m>> \in OpToRel(<, Nat)
      BY <2>2, <2>3 DEF OpToRel
    <2> QED
      BY <2>1, <2>4, <2>5
  <1> QED
    BY <1>1

-----------------------------------------------------------------------------
\* The storage's loop over the samples of one pod.

\* One pass of the loop for each of the first m samples, from the results g.
Passes(g, m, samples, cutoff) ==
    [n \in 0..m |-> IF n = 0 THEN <<>>
                    ELSE IF samples[n].at > cutoff THEN Append(g[n - 1], samples[n])
                    ELSE g[n - 1]]

LEMMA PassesExist ==
  ASSUME NEW samples, NEW cutoff
  PROVE  \A m \in Nat : \E g : g = Passes(g, m, samples, cutoff)
  <1> DEFINE S == {m \in Nat : \E g : g = Passes(g, m, samples, cutoff)}
  <1>1. 0 \in S
    <2> DEFINE g == [n \in 0..0 |-> <<>>]
    <2>1. g = Passes(g, 0, samples, cutoff)
      BY DEF Passes
    <2> QED
      BY <2>1
  <1>2. ASSUME NEW m \in Nat, m \in S
        PROVE  m + 1 \in S
    <2>1. PICK g : g = Passes(g, m, samples, cutoff)
      BY <1>2
    <2> DEFINE last == IF samples[m + 1].at > cutoff THEN Append(g[m], samples[m + 1]) ELSE g[m]
               f == [n \in 0..(m + 1) |-> IF n = m + 1 THEN last ELSE g[n]]
    <2>2. ASSUME NEW n \in 0..(m + 1)
          PROVE  f[n] = Passes(f, m + 1, samples, cutoff)[n]
      <3>1. CASE n = m + 1
        <4>1. f[n] = last /\ f[n - 1] = g[m] /\ n # 0
          BY <3>1
        <4> HIDE DEF f
        <4> QED
          BY <3>1, <4>1 DEF Passes
      <3>2. CASE n # m + 1
        <4>1. n \in 0..m /\ f[n] = g[n]
          BY <3>2
        <4>2. n # 0 => n - 1 \in 0..m /\ f[n - 1] = g[n - 1]
          BY <4>1
        <4>3. g[n] = Passes(g, m, samples, cutoff)[n]
          BY <2>1
        <4> HIDE DEF f
        <4> QED
          BY <4>1, <4>2, <4>3 DEF Passes
      <3> QED
        BY <3>1, <3>2
    <2>3. f = [n \in 0..(m + 1) |-> f[n]]
      OBVIOUS
    <2> HIDE DEF f
    <2>4. f = Passes(f, m + 1, samples, cutoff)
      BY <2>2, <2>3 DEF Passes
    <2> QED
      BY <2>4
  <1> HIDE DEF S
  <1>3. Nat \subseteq S
    BY <1>1, <1>2, Induction
  <1> QED
    BY <1>3 DEF S

(* After is what the passes over all samples give.                          *)
LEMMA AfterIsLast ==
  ASSUME NEW samples, Len(samples) \in Nat, NEW cutoff
  PROVE  \E g : /\ g = Passes(g, Len(samples), samples, cutoff)
                /\ After(samples, cutoff) = g[Len(samples)]
  <1> DEFINE valid[n \in 0..Len(samples)] ==
                 IF n = 0 THEN <<>>
                 ELSE IF samples[n].at > cutoff THEN Append(valid[n - 1], samples[n])
                 ELSE valid[n - 1]
  <1>1. valid = CHOOSE g : g = Passes(g, Len(samples), samples, cutoff)
    BY DEF valid, Passes
  <1>2. After(samples, cutoff) = valid[Len(samples)]
    BY DEF After
  <1> HIDE DEF valid
  <1>3. valid = Passes(valid, Len(samples), samples, cutoff)
    BY <1>1, PassesExist
  <1> QED
    BY <1>2, <1>3

LEMMA TimesOfAppend ==
  ASSUME NEW samples \in Seq(Sample), NEW x \in Sample
  PROVE  /\ Append(samples, x) \in Seq(Sample)
         /\ Times(Append(samples, x)) = Times(samples) \cup {x.at}
         /\ Ordered(samples) /\ UpTo(samples, x.at) => Ordered(Append(samples, x))
  <1> DEFINE m == Append(samples, x)
             n == Len(samples)
  <1>1. /\ m \in Seq(Sample) /\ Len(m) = n + 1 /\ n \in Nat
        /\ DOMAIN m = 1..(n + 1) /\ DOMAIN samples = 1..n
        /\ \A i \in 1..n : m[i] = samples[i]
        /\ m[n + 1] = x
    OBVIOUS
  <1> HIDE DEF m, n
  <1>2. 1..(n + 1) = (1..n) \cup {n + 1} /\ n + 1 \notin 1..n
    BY <1>1
  <1>3. Times(m) = Times(samples) \cup {x.at}
    BY <1>1, <1>2 DEF Times
  <1>4. ASSUME Ordered(samples), UpTo(samples, x.at)
        PROVE  Ordered(m)
    <2> SUFFICES ASSUME NEW i \in 1..(n + 1), NEW j \in 1..(n + 1), i < j
                 PROVE  m[i].at <= m[j].at
      BY <1>1 DEF Ordered
    <2>1. i \in 1..n /\ m[i] = samples[i]
      BY <1>1
    <2>2. CASE j = n + 1
      BY <1>1, <1>4, <2>1, <2>2 DEF UpTo, Times
    <2>3. CASE j # n + 1
      BY <1>1, <1>2, <1>4, <2>1, <2>3 DEF Ordered
    <2> QED
      BY <2>2, <2>3
  <1> QED
    BY <1>1, <1>3, <1>4 DEF m

(* The loop keeps the samples after the cutoff, all of them and no other,   *)
(* in their order (memory.go:33-58, 117-133).                               *)
LEMMA AfterFacts ==
  ASSUME NEW samples \in Seq(Sample), NEW cutoff \in Int
  PROVE  /\ After(samples, cutoff) \in Seq(Sample)
         /\ Times(After(samples, cutoff)) = {t \in Times(samples) : t > cutoff}
         /\ Ordered(samples) => Ordered(After(samples, cutoff))
  <1> DEFINE n == Len(samples)
             Recent(k) == {samples[i].at : i \in {j \in 1..k : samples[j].at > cutoff}}
  <1>1. n \in Nat /\ DOMAIN samples = 1..n /\ \A i \in 1..n : samples[i] \in Sample
    OBVIOUS
  <1>2. \A i \in 1..n : samples[i].at \in Nat
    BY <1>1 DEF Sample
  <1>3. PICK g : g = Passes(g, n, samples, cutoff) /\ After(samples, cutoff) = g[n]
    BY <1>1, AfterIsLast
  <1> DEFINE S == {k \in Nat : k <= n => /\ g[k] \in Seq(Sample)
                                         /\ Times(g[k]) = Recent(k)
                                         /\ Ordered(samples) => Ordered(g[k])}
  <1>4. g[0] = <<>>
    BY <1>1, <1>3 DEF Passes
  <1>5. ASSUME NEW k \in Nat, k + 1 <= n
        PROVE  g[k + 1] = IF samples[k + 1].at > cutoff THEN Append(g[k], samples[k + 1]) ELSE g[k]
    <2>1. k + 1 \in 0..n /\ k + 1 # 0 /\ (k + 1) - 1 = k
      BY <1>1, <1>5
    <2>2. g[k + 1] = Passes(g, n, samples, cutoff)[k + 1]
      BY <1>3
    <2> QED
      BY <2>1, <2>2 DEF Passes
  <1>6. 0 \in S
    <2>1. <<>> \in Seq(Sample) /\ DOMAIN <<>> = {} /\ 1..0 = {}
      OBVIOUS
    <2>2. Times(<<>>) = {} /\ Ordered(<<>>)
      BY <2>1 DEF Times, Ordered
    <2>3. Recent(0) = {}
      BY <2>1
    <2> HIDE DEF Recent
    <2> QED
      BY <1>4, <2>1, <2>2, <2>3
  <1>7. ASSUME NEW k \in Nat, k \in S
        PROVE  k + 1 \in S
    <2> SUFFICES ASSUME k + 1 <= n
                 PROVE  /\ g[k + 1] \in Seq(Sample)
                        /\ Times(g[k + 1]) = Recent(k + 1)
                        /\ Ordered(samples) => Ordered(g[k + 1])
      OBVIOUS
    <2> DEFINE x == samples[k + 1]
    <2>1. k <= n /\ k + 1 \in 1..n /\ x \in Sample /\ x.at \in Nat
      BY <1>1, <1>2
    <2>2. g[k] \in Seq(Sample) /\ Times(g[k]) = Recent(k) /\ (Ordered(samples) => Ordered(g[k]))
      BY <1>7, <2>1
    <2>3. 1..(k + 1) = (1..k) \cup {k + 1}
      OBVIOUS
    <2>4. CASE x.at > cutoff
      <3>1. g[k + 1] = Append(g[k], x)
        BY <1>5, <2>4
      <3>2. Times(g[k + 1]) = Recent(k) \cup {x.at}
        BY <2>1, <2>2, <3>1, TimesOfAppend
      <3>3. Recent(k + 1) = Recent(k) \cup {x.at}
        BY <2>3, <2>4
      <3>4. Ordered(samples) => UpTo(g[k], x.at)
        <4> SUFFICES ASSUME Ordered(samples), NEW t \in Recent(k)
                     PROVE  t <= x.at
          BY <2>2 DEF UpTo
        <4>1. PICK i \in 1..k : t = samples[i].at
          OBVIOUS
        <4>2. i \in 1..n /\ i < k + 1
          BY <2>1
        <4> QED
          BY <1>1, <2>1, <4>1, <4>2 DEF Ordered
      <3> HIDE DEF x
      <3> QED
        BY <2>1, <2>2, <3>1, <3>2, <3>3, <3>4, TimesOfAppend
    <2>5. CASE ~(x.at > cutoff)
      <3>1. g[k + 1] = g[k]
        BY <1>5, <2>5
      <3>2. Recent(k + 1) = Recent(k)
        BY <2>3, <2>5
      <3> QED
        BY <2>2, <3>1, <3>2
    <2> QED
      BY <2>4, <2>5
  <1>8. n \in S
    <2> HIDE DEF S
    <2> QED
      BY <1>1, <1>6, <1>7, Induction
  <1>9. Recent(n) = {t \in Times(samples) : t > cutoff}
    BY <1>1 DEF Times
  <1> QED
    BY <1>1, <1>3, <1>8, <1>9

(* What the storage's methods do to one pod's samples.                      *)
LEMMA AddedFacts ==
  ASSUME NEW h \in Storage, NEW x \in Sample
  PROVE  /\ Added(h, x) \in Storage
         /\ \A p \in Pods : Added(h, x)[p] = IF p = x.pod THEN Append(h[p], x) ELSE h[p]
  <1>1. DOMAIN h = Pods /\ x.pod \in Pods /\ h[x.pod] \in Seq(Sample)
    BY DEF Storage, Sample
  <1>2. Append(h[x.pod], x) \in Seq(Sample)
    BY <1>1
  <1>3. Added(h, x) \in Storage
    BY <1>1, <1>2 DEF Added, Storage
  <1>4. \A p \in Pods : Added(h, x)[p] = IF p = x.pod THEN Append(h[p], x) ELSE h[p]
    BY <1>1 DEF Added
  <1> QED
    BY <1>3, <1>4

LEMMA SyncedFacts ==
  ASSUME NEW h \in Storage, NEW pods
  PROVE  /\ Synced(h, pods) \in Storage
         /\ \A p \in Pods : Synced(h, pods)[p] = IF p \in pods THEN h[p] ELSE <<>>
  BY DEF Synced, Storage

LEMMA CleanedFacts ==
  ASSUME NEW h \in Storage, NEW cutoff \in Int
  PROVE  /\ CleanedUp(h, cutoff) \in Storage
         /\ \A p \in Pods :
               /\ Times(CleanedUp(h, cutoff)[p]) = {t \in Times(h[p]) : t > cutoff}
               /\ Ordered(h[p]) => Ordered(CleanedUp(h, cutoff)[p])
  <1>1. \A p \in Pods : h[p] \in Seq(Sample) /\ DOMAIN h = Pods
    BY DEF Storage
  <1>2. \A p \in Pods : CleanedUp(h, cutoff)[p] = After(h[p], cutoff)
    BY <1>1 DEF CleanedUp
  <1>3. CleanedUp(h, cutoff) \in Storage
    BY <1>1, AfterFacts DEF CleanedUp, Storage
  <1> QED
    BY <1>1, <1>2, <1>3, AfterFacts

LEMMA EmptyFacts ==
  /\ NewStorage(Pods) \in Storage
  /\ \A p \in Pods : NewStorage(Pods)[p] = <<>>
  /\ <<>> \in Seq(Sample)
  /\ Times(<<>>) = {} /\ Ordered(<<>>) /\ \A now : UpTo(<<>>, now)
  <1>1. <<>> \in Seq(Sample) /\ DOMAIN <<>> = {}
    OBVIOUS
  <1> QED
    BY <1>1 DEF NewStorage, Storage, Times, Ordered, UpTo

LEMMA TimesAreNumbers ==
  ASSUME NEW h \in Seq(Sample)
  PROVE  Times(h) \subseteq Nat
  <1>1. DOMAIN h = 1..Len(h) /\ \A i \in 1..Len(h) : h[i] \in Sample
    OBVIOUS
  <1> QED
    BY <1>1 DEF Times, Sample

LEMMA TornIsNoStorage == Torn \notin Storage
  BY CollectorAssumption DEF Storage, Sample

-----------------------------------------------------------------------------
\* The inductive invariant.

LEMMA InitIInv == Init => IInv
  <1> SUFFICES ASSUME Init PROVE IInv
    OBVIOUS
  <1> USE CollectorAssumption, EmptyFacts
  <1>1. TypeOK
    <2>1. /\ clock = MaxAge /\ MaxAge \in MaxAge..Horizon /\ cluster \subseteq Pods
          /\ stamp = 0 /\ 0 \in 0..clock /\ since = 0 /\ starts = 0 /\ 0 \in 0..MaxStarts
      BY DEF Init
    <2>2. history \in Storage /\ file \in Storage /\ kept \in [Pods -> SUBSET Nat]
      BY DEF Init, Nothing
    <2> QED
      BY <2>1, <2>2 DEF Init, TypeOK
  <1>2. KeptFor
    BY DEF Init, KeptFor, Up, Young, Nothing
  <1>3. InOrder
    BY DEF Init, InOrder
  <1>4. Collected
    BY DEF Init, Collected, Up
  <1> QED
    BY <1>1, <1>2, <1>3, <1>4 DEF IInv

LEMMA TickPreserves == IInv /\ Tick => IInv'
  <1> SUFFICES ASSUME IInv, Tick PROVE IInv'
    OBVIOUS
  <1> USE CollectorAssumption
  <1>1. /\ clock \in MaxAge..Horizon /\ clock < Horizon /\ clock' = clock + 1
        /\ ticked' = Up /\ (Up => clock < gcAt) /\ (pc = "store" => clock = stamp)
        /\ UNCHANGED <<cluster, pc, listed, batch, active, stamp, history, file, gcAt, starts, since, kept>>
    BY DEF Tick, IInv, TypeOK, life
  <1>2. TypeOK'
    BY <1>1 DEF IInv, TypeOK, Up
  <1>3. \A p \in Pods : Young(p)' \subseteq Young(p)
    BY <1>1 DEF IInv, TypeOK, Young
  <1>4. KeptFor'
    BY <1>1, <1>3 DEF IInv, KeptFor, Up
  <1>5. InOrder'
    <2>1. ASSUME NEW h \in Seq(Sample), UpTo(h, clock)
          PROVE  UpTo(h, clock + 1)
      <3>1. Times(h) \subseteq Nat
        BY TimesAreNumbers
      <3> QED
        BY <1>1, <2>1, <3>1 DEF UpTo
    <2>2. \A p \in Pods : history[p] \in Seq(Sample) /\ (file # Torn => file[p] \in Seq(Sample))
      BY DEF IInv, TypeOK, Storage
    <2> QED
      BY <1>1, <2>1, <2>2 DEF IInv, InOrder
  <1>6. Collected'
    BY <1>1 DEF IInv, TypeOK, Collected, Up
  <1> QED
    BY <1>2, <1>4, <1>5, <1>6 DEF IInv

LEMMA StartPreserves == IInv /\ Start => IInv'
  <1> SUFFICES ASSUME IInv, Start PROVE IInv'
    OBVIOUS
  <1> USE CollectorAssumption
  <1>1. /\ pc = "down" /\ pc' = "idle" /\ starts < MaxStarts /\ starts' = starts + 1
        /\ since' = clock /\ gcAt' = clock + GCInterval
        /\ history' = IF file = Torn THEN NewStorage(Pods) ELSE file
        /\ UNCHANGED <<clock, cluster, ticked, listed, batch, active, stamp, file, kept>>
    BY DEF Start, poll
  <1>2. clock \in Nat /\ clock \in MaxAge..Horizon /\ clock + GCInterval \in Nat
    BY DEF IInv, TypeOK
  <1>3. TypeOK'
    BY <1>1, <1>2, EmptyFacts DEF IInv, TypeOK
  <1>4. KeptFor'
    BY <1>1, EmptyFacts DEF IInv, KeptFor, Up, Young
  <1>5. InOrder'
    BY <1>1, EmptyFacts DEF IInv, InOrder
  <1>6. Collected'
    BY <1>1, <1>2 DEF Collected, Up
  <1> QED
    BY <1>3, <1>4, <1>5, <1>6 DEF IInv

\* The steps of a poll that leave the storage and what is kept alone.
LEMMA FetchPreserves ==
  ASSUME IInv,
         \/ \E p \in Pods : PodComesOrGoes(p)
         \/ ListMetrics \/ FetchFails \/ SaveBegins
  PROVE  IInv'
  <1> USE CollectorAssumption
  <1>1. CASE \E p \in Pods : PodComesOrGoes(p)
    BY <1>1 DEF PodComesOrGoes, poll, life, IInv, TypeOK, KeptFor, InOrder, Collected, Up, Young
  <1>2. CASE ListMetrics
    BY <1>2 DEF ListMetrics, life, IInv, TypeOK, KeptFor, InOrder, Collected, Up, Young
  <1>3. CASE FetchFails
    BY <1>3 DEF FetchFails, Fetching, FetchOver, life, IInv, TypeOK, KeptFor, InOrder, Collected, Up, Young
  <1>4. CASE SaveBegins
    BY <1>4 DEF SaveBegins, poll, life, IInv, TypeOK, KeptFor, InOrder, Collected, Up, Young
  <1> QED
    BY <1>1, <1>2, <1>3, <1>4

LEMMA GetPodMetricsPreserves == IInv /\ GetPodMetrics => IInv'
  <1> SUFFICES ASSUME IInv, GetPodMetrics PROVE IInv'
    OBVIOUS
  <1> USE CollectorAssumption
  <1>1. /\ pc = "list" /\ pc' = "store" /\ batch' = listed \cap cluster /\ active' = listed \cap cluster
        /\ stamp' = clock /\ listed' = {}
        /\ kept' = [p \in Pods |-> IF p \in listed \cap cluster THEN kept[p] ELSE {}]
        /\ UNCHANGED <<clock, cluster, ticked, history, file, gcAt, starts, since>>
    BY DEF GetPodMetrics, life
  <1>2. clock \in Nat /\ clock \in MaxAge..Horizon
    BY DEF IInv, TypeOK
  <1>3. TypeOK'
    BY <1>1, <1>2 DEF IInv, TypeOK
  <1>4. KeptFor'
    BY <1>1 DEF IInv, KeptFor, Up, Young
  <1>5. InOrder'
    BY <1>1 DEF IInv, InOrder
  <1>6. Collected'
    BY <1>1, <1>2 DEF IInv, Collected, Up
  <1> QED
    BY <1>3, <1>4, <1>5, <1>6 DEF IInv

LEMMA AddPreserves ==
  ASSUME IInv, NEW p \in Pods, Add(p)
  PROVE  IInv'
  <1> USE CollectorAssumption
  <1> DEFINE x == [pod |-> p, at |-> stamp]
  <1>1. /\ pc = "store" /\ p \in batch /\ batch' = batch \ {p}
        /\ history' = Added(history, x)
        /\ kept' = [kept EXCEPT ![p] = @ \cup {stamp}]
        /\ UNCHANGED <<clock, cluster, pc, ticked, listed, active, stamp, file, gcAt, starts, since>>
    BY DEF Add, life
  <1>2. /\ x \in Sample /\ x.at = stamp /\ x.pod = p /\ stamp \in Nat /\ stamp <= clock /\ p \in active
        /\ clock \in Nat /\ history \in Storage /\ kept \in [Pods -> SUBSET Nat]
    BY <1>1 DEF IInv, TypeOK, Sample
  <1> HIDE DEF x
  <1>3. /\ history' \in Storage
        /\ \A q \in Pods : q # p => history'[q] = history[q] /\ kept'[q] = kept[q]
        /\ history'[p] = Append(history[p], x) /\ kept'[p] = kept[p] \cup {stamp}
    BY <1>1, <1>2, AddedFacts
  <1>4. /\ Times(history'[p]) = Times(history[p]) \cup {stamp}
        /\ Ordered(history[p]) /\ UpTo(history[p], stamp) => Ordered(history'[p])
    <2>1. history[p] \in Seq(Sample)
      BY <1>2 DEF Storage
    <2> QED
      BY <1>2, <1>3, <2>1, TimesOfAppend
  <1>5. TypeOK'
    BY <1>1, <1>2, <1>3 DEF IInv, TypeOK
  <1>6. KeptFor'
    <2> SUFFICES ASSUME NEW q \in Pods
                 PROVE  /\ {t \in kept'[q] : t > clock - MaxAge} \subseteq Times(history'[q])
                        /\ q \in active => Times(history'[q]) \subseteq kept'[q]
                        /\ q \notin active => kept'[q] = {}
      BY <1>1 DEF KeptFor, Up, Young
    <2>1. /\ {t \in kept[q] : t > clock - MaxAge} \subseteq Times(history[q])
          /\ q \in active => Times(history[q]) \subseteq kept[q]
          /\ q \notin active => kept[q] = {}
      BY <1>1 DEF IInv, KeptFor, Up, Young
    <2>2. CASE q = p
      BY <1>2, <1>3, <1>4, <2>1, <2>2
    <2>3. CASE q # p
      BY <1>3, <2>1, <2>3
    <2> QED
      BY <2>2, <2>3
  <1>7. InOrder'
    <2>1. \A q \in Pods : q # p => history'[q] = history[q]
      BY <1>3
    <2>2. Ordered(history'[p]) /\ UpTo(history'[p], clock) /\ UpTo(history'[p], stamp)
      BY <1>1, <1>2, <1>4 DEF IInv, InOrder, UpTo
    <2> QED
      BY <1>1, <2>1, <2>2 DEF IInv, InOrder
  <1>8. Collected'
    <2>1. /\ clock <= gcAt /\ gcAt <= clock + GCInterval /\ since + GCInterval <= gcAt
          /\ clock <= stamp + 1 /\ gcAt \in Nat
          /\ gcAt > since + GCInterval =>
                \A q \in Pods : \A t \in Times(history[q]) : gcAt <= t + MaxAge + GCInterval
      BY <1>1 DEF IInv, TypeOK, Collected, Up
    <2>2. gcAt <= stamp + MaxAge + GCInterval
      BY <1>2, <2>1
    <2>3. ASSUME gcAt > since + GCInterval, NEW q \in Pods, NEW t \in Times(history'[q])
          PROVE  gcAt <= t + MaxAge + GCInterval
      <3>1. CASE q = p /\ t = stamp
        BY <2>2, <3>1
      <3>2. CASE ~(q = p /\ t = stamp)
        <4>1. t \in Times(history[q])
          BY <1>3, <1>4, <3>2
        <4> QED
          BY <2>1, <2>3, <4>1
      <3> QED
        BY <3>1, <3>2
    <2> QED
      BY <1>1, <2>1, <2>3 DEF Collected, Up
  <1> QED
    BY <1>5, <1>6, <1>7, <1>8 DEF IInv

LEMMA SyncPodsPreserves == IInv /\ SyncPods => IInv'
  <1> SUFFICES ASSUME IInv, SyncPods PROVE IInv'
    OBVIOUS
  <1> USE CollectorAssumption
  <1>1. /\ pc = "store" /\ pc' = "idle" /\ active' = {} /\ stamp' = 0 /\ batch = {}
        /\ history' = Synced(history, active)
        /\ UNCHANGED <<clock, cluster, ticked, listed, batch, file, gcAt, starts, since, kept>>
    BY DEF SyncPods, life
  <1>2. clock \in Nat /\ history \in Storage
    BY DEF IInv, TypeOK
  <1>3. /\ history' \in Storage
        /\ \A p \in Pods : history'[p] = IF p \in active THEN history[p] ELSE <<>>
    BY <1>1, <1>2, SyncedFacts
  <1>4. TypeOK'
    BY <1>1, <1>2, <1>3 DEF IInv, TypeOK
  <1>5. KeptFor'
    <2> SUFFICES ASSUME NEW p \in Pods
                 PROVE  /\ {t \in kept[p] : t > clock - MaxAge} \subseteq Times(history'[p])
                        /\ Times(history'[p]) \subseteq kept[p]
      BY <1>1 DEF KeptFor, Up, Young
    <2>1. CASE p \in active
      BY <1>1, <1>3, <2>1 DEF IInv, KeptFor, Up, Young
    <2>2. CASE p \notin active
      BY <1>1, <1>3, <2>2, EmptyFacts DEF IInv, KeptFor, Up, Young
    <2> QED
      BY <2>1, <2>2
  <1>6. InOrder'
    BY <1>1, <1>3, EmptyFacts DEF IInv, InOrder
  <1>7. Collected'
    BY <1>1, <1>3, EmptyFacts DEF IInv, Collected, Up
  <1> QED
    BY <1>4, <1>5, <1>6, <1>7 DEF IInv

LEMMA CleanupPreserves == IInv /\ Cleanup => IInv'
  <1> SUFFICES ASSUME IInv, Cleanup PROVE IInv'
    OBVIOUS
  <1> USE CollectorAssumption
  <1>1. /\ Up /\ clock >= gcAt /\ gcAt' = clock + GCInterval
        /\ history' = CleanedUp(history, clock - MaxAge)
        /\ UNCHANGED <<clock, cluster, pc, ticked, listed, batch, active, stamp, file, starts, since, kept>>
    BY DEF Cleanup, poll
  <1>2. clock \in Nat /\ clock - MaxAge \in Int /\ history \in Storage
        /\ since \in Nat /\ since <= clock /\ gcAt \in Nat /\ kept \in [Pods -> SUBSET Nat]
    BY DEF IInv, TypeOK
  <1>3. /\ history' \in Storage
        /\ \A p \in Pods :
              /\ Times(history'[p]) = {t \in Times(history[p]) : t > clock - MaxAge}
              /\ Ordered(history[p]) => Ordered(history'[p])
    BY <1>1, <1>2, CleanedFacts
  <1>4. TypeOK'
    BY <1>1, <1>2, <1>3 DEF IInv, TypeOK
  <1>5. KeptFor'
    <2> SUFFICES ASSUME NEW p \in Pods
                 PROVE  /\ {t \in kept[p] : t > clock - MaxAge} \subseteq Times(history'[p])
                        /\ (pc # "store" \/ p \in active) => Times(history'[p]) \subseteq kept[p]
                        /\ (pc = "store" /\ p \notin active) => kept[p] = {}
      BY <1>1 DEF KeptFor, Up, Young
    <2> QED
      BY <1>1, <1>3 DEF IInv, KeptFor, Up, Young
  <1>6. InOrder'
    BY <1>1, <1>3 DEF IInv, InOrder, UpTo
  <1>7. Collected'
    <2>1. ASSUME NEW p \in Pods, NEW t \in Times(history'[p])
          PROVE  clock + GCInterval <= t + MaxAge + GCInterval
      <3>1. t \in Nat
        BY <1>3, TimesAreNumbers DEF Storage
      <3>2. t > clock - MaxAge
        BY <1>3
      <3> QED
        BY <1>2, <3>1, <3>2
    <2> QED
      BY <1>1, <1>2, <2>1 DEF IInv, Collected, Up
  <1> QED
    BY <1>4, <1>5, <1>6, <1>7 DEF IInv

\* The process ends: what the file holds has to answer for what is kept.
LEMMA OffPreserves ==
  ASSUME IInv, Up, Off,
         /\ file' \in Storage \cup {Torn} /\ kept' \in [Pods -> SUBSET Nat]
         /\ \A p \in Pods :
               /\ file' # Torn => /\ Young(p)' \subseteq Times(file'[p])
                                  /\ Times(file'[p]) \subseteq kept'[p]
                                  /\ Ordered(file'[p]) /\ UpTo(file'[p], clock)
               /\ file' = Torn => kept'[p] = {}
  PROVE  IInv'
  <1> USE CollectorAssumption
  <1>1. /\ pc' = "down" /\ ticked' = FALSE /\ listed' = {} /\ batch' = {} /\ active' = {}
        /\ stamp' = 0 /\ gcAt' = 0 /\ since' = 0 /\ history' = NewStorage(Pods)
        /\ UNCHANGED <<clock, cluster, starts>>
    BY DEF Off
  <1>2. clock \in Nat /\ 0 \in 0..clock /\ history' \in Storage
    BY <1>1, EmptyFacts DEF IInv, TypeOK
  <1>3. TypeOK'
    BY <1>1, <1>2 DEF IInv, TypeOK
  <1>4. KeptFor'
    BY <1>1 DEF KeptFor, Up
  <1>5. InOrder'
    BY <1>1, EmptyFacts DEF InOrder
  <1>6. Collected'
    BY <1>1 DEF Collected, Up
  <1> QED
    BY <1>3, <1>4, <1>5, <1>6 DEF IInv

LEMMA SaveEndsPreserves == IInv /\ SaveEnds => IInv'
  <1> SUFFICES ASSUME IInv, SaveEnds PROVE IInv'
    OBVIOUS
  <1>1. Off /\ Up /\ pc = "save" /\ file' = history /\ kept' = kept /\ clock' = clock
    BY DEF SaveEnds, Off, Up
  <1>2. /\ history \in Storage /\ kept \in [Pods -> SUBSET Nat] /\ history # Torn
    BY TornIsNoStorage DEF IInv, TypeOK
  <1>3. ASSUME NEW p \in Pods
        PROVE  /\ Young(p)' \subseteq Times(file'[p]) /\ Times(file'[p]) \subseteq kept'[p]
               /\ Ordered(file'[p]) /\ UpTo(file'[p], clock)
    BY <1>1 DEF IInv, KeptFor, InOrder, Young
  <1> QED
    BY <1>1, <1>2, <1>3, OffPreserves

LEMMA KillPreserves == IInv /\ Kill => IInv'
  <1> SUFFICES ASSUME IInv, Kill PROVE IInv'
    OBVIOUS
  <1>1. /\ Off /\ Up /\ file' = file /\ clock' = clock
        /\ kept' = IF file = Torn THEN Nothing ELSE [p \in Pods |-> Times(file[p])]
    BY DEF Kill, Off
  <1>2. file \in Storage \cup {Torn}
    BY DEF IInv, TypeOK
  <1>3. file # Torn => \A p \in Pods : Times(file[p]) \subseteq Nat
    BY <1>2, TimesAreNumbers DEF Storage
  <1>4. kept' \in [Pods -> SUBSET Nat]
    BY <1>1, <1>3 DEF Nothing
  <1>5. ASSUME NEW p \in Pods, file # Torn
        PROVE  /\ Young(p)' \subseteq Times(file'[p]) /\ Times(file'[p]) \subseteq kept'[p]
               /\ Ordered(file'[p]) /\ UpTo(file'[p], clock)
    BY <1>1, <1>5 DEF IInv, InOrder, Young
  <1>6. ASSUME NEW p \in Pods, file = Torn
        PROVE  kept'[p] = {}
    BY <1>1, <1>6 DEF Nothing
  <1> QED
    BY <1>1, <1>2, <1>4, <1>5, <1>6, OffPreserves

LEMMA NextIInv == IInv /\ [Next]_vars => IInv'
  <1> SUFFICES ASSUME IInv, [Next]_vars PROVE IInv'
    OBVIOUS
  <1>1. CASE Process
    BY <1>1, StartPreserves, FetchPreserves, GetPodMetricsPreserves, AddPreserves,
       SyncPodsPreserves, CleanupPreserves, SaveEndsPreserves DEF Process, Poll
  <1>2. CASE Environment
    BY <1>2, TickPreserves, FetchPreserves, KillPreserves DEF Environment
  <1>3. CASE UNCHANGED vars
    BY <1>3 DEF vars, poll, life, IInv, TypeOK, KeptFor, InOrder, Collected, Up, Young
  <1> QED
    BY <1>1, <1>2, <1>3 DEF Next

LEMMA Invariance == Spec => []IInv
  BY InitIInv, NextIInv, PTL DEF Spec

-----------------------------------------------------------------------------
\* What it gives.

(* The storage and its file hold samples of the namespace's pods, and what  *)
(* is being added belongs to pods that the coming SyncPods keeps.           *)
THEOREM TypeCorrect == Spec => []TypeOK
  <1>1. IInv => TypeOK
    BY DEF IInv
  <1> QED
    BY <1>1, Invariance, PTL

(* Polls that fail, a garbage collector in their midst, exits, torn files   *)
(* and starts lose no sample without a reason and keep none that should go. *)
THEOREM LosesNothing == Spec => []NothingLost
  <1>1. IInv => NothingLost
    BY DEF IInv, KeptFor, NothingLost, Young
  <1> QED
    BY <1>1, Invariance, PTL

(* A pod's samples are in the order of time, whatever file they came from.  *)
THEOREM InOrderOfTime == Spec => []Chronological
  <1>1. IInv => Chronological
    BY DEF IInv, InOrder, Ordered, Chronological
  <1> QED
    BY <1>1, Invariance, PTL

(* A process that has been up for longer than the collector's interval      *)
(* holds nothing older than MaxAge and that interval.                       *)
THEOREM AgeIsBounded == Spec => []AgeBounded
  <1>1. IInv => AgeBounded
    <2> SUFFICES ASSUME IInv, Up, clock > since + GCInterval, NEW p \in Pods,
                        NEW t \in Times(history[p])
                 PROVE  clock - t <= MaxAge + GCInterval
      BY DEF AgeBounded
    <2>1. clock \in Nat /\ since \in Nat /\ gcAt \in Nat /\ MaxAge \in Nat /\ GCInterval \in Nat
      BY CollectorAssumption DEF IInv, TypeOK
    <2>2. t \in Nat
      BY TimesAreNumbers DEF IInv, TypeOK, Storage
    <2>3. gcAt <= t + MaxAge + GCInterval /\ clock <= gcAt
      BY <2>1 DEF IInv, Collected
    <2> QED
      BY <2>1, <2>2, <2>3
  <1> QED
    BY <1>1, Invariance, PTL

=============================================================================
