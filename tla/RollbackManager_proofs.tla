----------------------- MODULE RollbackManager_proofs -----------------------
(***************************************************************************)
(* The rollback history for any containers, workers, capacity and number   *)
(* of snapshots.  The inductive invariant is one relation, Follows, between *)
(* a history and its trail.  It holds of the history in memory and of the  *)
(* one in the file, so that it outlives every process:                     *)
(*   EndOf       the history is the end of the log, index by index;        *)
(*   Given       as many are missing as did not fit, and never all;        *)
(*   Ascending   the log's timestamps rise, and the clock is past them;    *)
(*   Stands      after a rollback the restored snapshot is the last one of *)
(*               the history.                                              *)
(***************************************************************************)
EXTENDS RollbackManager, SequenceTheorems, TLAPS

\* The history h is the end of the log l.
EndOf(h, l) ==
    /\ Len(h) <= Len(l)
    /\ \A i \in 1..Len(h) : h[i].timestamp = l[Len(l) - Len(h) + i]

\* Of a log that has q snapshots, and at most had m, a history of p holds what fits.
Given(p, q, m) ==
    /\ q <= m
    /\ p = q - (IF m > MaxHistoryPerWorkload THEN m - MaxHistoryPerWorkload ELSE 0)
    /\ p <= MaxHistoryPerWorkload
    /\ q > 0 => p > 0

Ascending(l) == \A i, j \in 1..Len(l) : i < j => l[i] < l[j]

Stands(h, at) ==
    \/ at = Latest
    \/ Len(h) > 0 /\ at = h[Len(h)].timestamp

\* The history h has the trail t, when n snapshots have been taken.
Follows(h, t, n) ==
    /\ h \in Seq(Snapshot) /\ t \in Trail /\ t.log \in Seq(1..n)
    /\ EndOf(h, t.log)
    /\ Given(Len(h), Len(t.log), t.most)
    /\ Ascending(t.log)
    /\ Stands(h, t.restored)

MemoryFollows == \A k \in Keys : Follows(history[k], trail[k], saves)

FileFollows == \A k \in Keys : Follows(file[k], filed[k], saves)

IInv == TypeOK /\ MemoryFollows /\ FileFollows

-----------------------------------------------------------------------------
\* Sequences.

LEMMA AppendFacts ==
  ASSUME NEW S, NEW s \in Seq(S), NEW e \in S
  PROVE  /\ Append(s, e) \in Seq(S)
         /\ Len(Append(s, e)) = Len(s) + 1
         /\ \A i \in 1..Len(s) : Append(s, e)[i] = s[i]
         /\ Append(s, e)[Len(s) + 1] = e
         /\ Len(s) \in Nat
  OBVIOUS

LEMMA FrontFacts ==
  ASSUME NEW S, NEW s \in Seq(S), Len(s) > 0
  PROVE  /\ Front(s) \in Seq(S)
         /\ Len(Front(s)) = Len(s) - 1
         /\ \A i \in 1..(Len(s) - 1) : Front(s)[i] = s[i]
         /\ Len(s) \in Nat
  <1>1. Len(s) \in Nat /\ \A i \in 1..(Len(s) - 1) : s[i] \in S
    OBVIOUS
  <1>2. /\ SubSeq(s, 1, Len(s) - 1) \in Seq(S)
        /\ Len(SubSeq(s, 1, Len(s) - 1)) = IF 1 <= Len(s) - 1 THEN Len(s) - 1 - 1 + 1 ELSE 0
        /\ \A i \in 1..(Len(s) - 1 - 1 + 1) : SubSeq(s, 1, Len(s) - 1)[i] = s[1 + i - 1]
    BY <1>1, SubSeqProperties
  <1>3. /\ (IF 1 <= Len(s) - 1 THEN Len(s) - 1 - 1 + 1 ELSE 0) = Len(s) - 1
        /\ \A i \in 1..(Len(s) - 1) : i \in 1..(Len(s) - 1 - 1 + 1) /\ 1 + i - 1 = i
    <2>1. \A n \in Nat : n > 0 =>
             /\ (IF 1 <= n - 1 THEN n - 1 - 1 + 1 ELSE 0) = n - 1
             /\ \A i \in 1..(n - 1) : i \in 1..(n - 1 - 1 + 1) /\ 1 + i - 1 = i
      OBVIOUS
    <2> QED
      BY <1>1, <2>1
  <1> DEFINE f == SubSeq(s, 1, Len(s) - 1)
  <1>4. f \in Seq(S) /\ Len(f) = Len(s) - 1
    BY <1>2, <1>3
  <1>5. ASSUME NEW i \in 1..(Len(s) - 1)
        PROVE  f[i] = s[i]
    <2>1. i \in 1..(Len(s) - 1 - 1 + 1) /\ 1 + i - 1 = i
      BY <1>3
    <2>2. f[i] = s[1 + i - 1]
      BY <1>2, <2>1
    <2> QED
      BY <2>1, <2>2
  <1>6. Front(s) = f
    BY DEF Front
  <1> HIDE DEF f
  <1> QED
    BY <1>1, <1>4, <1>5, <1>6

LEMMA FunctionIsSeq ==
  ASSUME NEW S, NEW n \in Nat, NEW f \in [1..n -> S]
  PROVE  f \in Seq(S) /\ Len(f) = n
  OBVIOUS

LEMMA ReverseFacts ==
  ASSUME NEW S, NEW s \in Seq(S)
  PROVE  /\ Reverse(s) \in Seq(S)
         /\ Len(Reverse(s)) = Len(s) /\ Len(s) \in Nat
         /\ \A i \in 1..Len(s) : Reverse(s)[i] = s[Len(s) - i + 1]
  <1>1. Len(s) \in Nat
    OBVIOUS
  <1>2. \A i \in 1..Len(s) : s[(Len(s) - i) + 1] \in S
    BY <1>1
  <1>3. Reverse(s) \in [1..Len(s) -> S]
    BY <1>2 DEF Reverse
  <1>4. Reverse(s) \in Seq(S) /\ Len(Reverse(s)) = Len(s)
    BY <1>1, <1>3, FunctionIsSeq
  <1> QED
    BY <1>1, <1>4 DEF Reverse

(* Trimming keeps the end of a history, all of it if it fits, and never     *)
(* all but nothing (rollback_manager.go:44-51).                             *)
LEMMA TrimmedFacts ==
  ASSUME NEW S, NEW s \in Seq(S)
  PROVE  LET t == Trimmed(s) IN
         /\ t \in Seq(S)
         /\ Len(t) \in Nat /\ Len(s) \in Nat /\ Len(t) <= Len(s)
         /\ Len(t) = IF Len(s) > MaxHistoryPerWorkload THEN MaxHistoryPerWorkload ELSE Len(s)
         /\ Len(s) > 0 => Len(t) > 0
         /\ \A i \in 1..Len(t) : t[i] = s[Len(s) - Len(t) + i]
  <1>1. MaxHistoryPerWorkload \in Nat /\ MaxHistoryPerWorkload > 0
    BY RollbackAssumption
  <1>2. CASE Len(s) > MaxHistoryPerWorkload
    <2> DEFINE first == Len(s) - MaxHistoryPerWorkload + 1
               t == SubSeq(s, first, Len(s))
    <2>1. first \in 1..Len(s) /\ Len(s) \in Nat
      BY <1>1, <1>2
    <2>2. t \in Seq(S) /\ Len(t) = Len(s) - first + 1
      BY <2>1
    <2>3. \A i \in 1..Len(t) : t[i] = s[first + i - 1]
      BY <2>1, <2>2
    <2> HIDE DEF t
    <2>4. Len(t) = MaxHistoryPerWorkload
      BY <1>1, <2>1, <2>2
    <2>5. \A i \in 1..Len(t) : t[i] = s[Len(s) - Len(t) + i]
      BY <1>1, <2>1, <2>3, <2>4
    <2>6. Trimmed(s) = t
      BY <1>2 DEF Trimmed, t
    <2> QED
      BY <1>1, <1>2, <2>1, <2>2, <2>4, <2>5, <2>6
  <1>3. CASE ~(Len(s) > MaxHistoryPerWorkload)
    BY <1>1, <1>3 DEF Trimmed
  <1> QED
    BY <1>2, <1>3

LEMMA TimestampsFacts ==
  ASSUME NEW h \in Seq(Snapshot)
  PROVE  /\ Timestamps(h) \in Seq(1..MaxSaves)
         /\ Len(Timestamps(h)) = Len(h) /\ Len(h) \in Nat
         /\ \A i \in 1..Len(h) : Timestamps(h)[i] = h[i].timestamp
  <1>1. Len(h) \in Nat /\ DOMAIN h = 1..Len(h) /\ \A i \in 1..Len(h) : h[i] \in Snapshot
    OBVIOUS
  <1>2. \A i \in 1..Len(h) : h[i].timestamp \in 1..MaxSaves
    BY <1>1 DEF Snapshot
  <1> QED
    BY <1>1, <1>2 DEF Timestamps

-----------------------------------------------------------------------------
\* What the manager's methods do to one history and its log.

LEMMA SaveKeepsEnd ==
  ASSUME NEW h \in Seq(Snapshot), NEW l \in Seq(Nat), EndOf(h, l), NEW x \in Snapshot
  PROVE  EndOf(Trimmed(Append(h, x)), Append(l, x.timestamp))
  <1> DEFINE a == Append(h, x)
             m == Append(l, x.timestamp)
             t == Trimmed(a)
  <1>1. x.timestamp \in Nat
    BY DEF Snapshot
  <1>2. /\ a \in Seq(Snapshot) /\ Len(a) = Len(h) + 1 /\ Len(h) \in Nat
        /\ \A i \in 1..Len(h) : a[i] = h[i]
        /\ a[Len(h) + 1] = x
    BY AppendFacts
  <1>3. /\ Len(m) = Len(l) + 1 /\ Len(l) \in Nat
        /\ \A i \in 1..Len(l) : m[i] = l[i]
        /\ m[Len(l) + 1] = x.timestamp
    BY <1>1, AppendFacts
  <1> HIDE DEF a, m
  <1>4. Len(a) <= Len(m)
    BY <1>2, <1>3 DEF EndOf
  <1>5. ASSUME NEW i \in 1..Len(a)
        PROVE  a[i].timestamp = m[Len(m) - Len(a) + i]
    <2>1. CASE i = Len(h) + 1
      BY <1>2, <1>3, <2>1
    <2>2. CASE i # Len(h) + 1
      <3>1. i \in 1..Len(h) /\ Len(m) - Len(a) + i \in 1..Len(l)
        BY <1>2, <1>3, <2>2 DEF EndOf
      <3>2. Len(m) - Len(a) + i = Len(l) - Len(h) + i
        BY <1>2, <1>3
      <3> QED
        BY <1>2, <1>3, <3>1, <3>2 DEF EndOf
    <2> QED
      BY <2>1, <2>2
  <1>6. /\ Len(t) \in Nat /\ Len(t) <= Len(a)
        /\ \A i \in 1..Len(t) : t[i] = a[Len(a) - Len(t) + i]
    BY <1>2, TrimmedFacts
  <1> HIDE DEF t
  <1>7. ASSUME NEW i \in 1..Len(t)
        PROVE  t[i].timestamp = m[Len(m) - Len(t) + i]
    <2>1. Len(a) - Len(t) + i \in 1..Len(a)
      BY <1>2, <1>6
    <2>2. Len(m) - Len(a) + (Len(a) - Len(t) + i) = Len(m) - Len(t) + i
      BY <1>2, <1>3, <1>6
    <2> QED
      BY <1>5, <1>6, <2>1, <2>2
  <1>8. EndOf(t, m)
    BY <1>2, <1>3, <1>4, <1>6, <1>7 DEF EndOf
  <1> QED
    BY <1>8 DEF a, m, t

LEMMA RollbackKeepsEnd ==
  ASSUME NEW h \in Seq(Snapshot), NEW l \in Seq(Nat), EndOf(h, l), Len(h) >= 2
  PROVE  EndOf(Front(h), Front(l))
  <1>1. Len(h) \in Nat /\ Len(l) \in Nat /\ Len(h) <= Len(l)
    BY DEF EndOf
  <1>2. /\ Len(Front(h)) = Len(h) - 1 /\ Len(Front(l)) = Len(l) - 1
        /\ \A i \in 1..(Len(h) - 1) : Front(h)[i] = h[i]
        /\ \A i \in 1..(Len(l) - 1) : Front(l)[i] = l[i]
    BY <1>1, FrontFacts
  <1>3. ASSUME NEW i \in 1..Len(Front(h))
        PROVE  Front(h)[i].timestamp = Front(l)[Len(Front(l)) - Len(Front(h)) + i]
    <2>1. /\ i \in 1..Len(h) /\ Len(l) - Len(h) + i \in 1..(Len(l) - 1)
          /\ Len(Front(l)) - Len(Front(h)) + i = Len(l) - Len(h) + i
      BY <1>1, <1>2
    <2> QED
      BY <1>2, <2>1 DEF EndOf
  <1> DEFINE f == Front(h)
             k == Front(l)
  <1>4. Len(f) <= Len(k) /\ Len(f) > 0
    BY <1>1, <1>2
  <1> HIDE DEF f, k
  <1>5. \A i \in 1..Len(f) : f[i].timestamp = k[Len(k) - Len(f) + i]
    BY <1>3 DEF f, k
  <1>6. EndOf(f, k)
    BY <1>4, <1>5 DEF EndOf
  <1> QED
    BY <1>6 DEF f, k

(* The index by index form is the one that KeepsTheLatest states.           *)
LEMMA EndIsSuffix ==
  ASSUME NEW h \in Seq(Snapshot), NEW l \in Seq(1..MaxSaves), EndOf(h, l)
  PROVE  IsSuffix(Timestamps(h), l)
  <1> DEFINE s == Timestamps(h)
             n == Len(h)
  <1>1. /\ s \in Seq(1..MaxSaves) /\ Len(s) = n /\ n \in Nat /\ Len(l) \in Nat
        /\ \A i \in 1..n : s[i] = h[i].timestamp
    BY TimestampsFacts
  <1> HIDE DEF s
  <1>2. n <= Len(l) /\ \A i \in 1..n : s[i] = l[Len(l) - n + i]
    BY <1>1 DEF EndOf
  <1>3. /\ Reverse(s) \in Seq(1..MaxSaves) /\ Len(Reverse(s)) = n
        /\ \A i \in 1..n : Reverse(s)[i] = s[n - i + 1]
    BY <1>1, ReverseFacts
  <1>4. /\ Reverse(l) \in Seq(1..MaxSaves) /\ Len(Reverse(l)) = Len(l)
        /\ \A i \in 1..Len(l) : Reverse(l)[i] = l[Len(l) - i + 1]
    BY <1>1, ReverseFacts
  <1>5. \A i \in 1..n : Reverse(s)[i] = Reverse(l)[i]
    <2> SUFFICES ASSUME NEW i \in 1..n
                 PROVE  Reverse(s)[i] = Reverse(l)[i]
      OBVIOUS
    <2>1. n - i + 1 \in 1..n /\ i \in 1..Len(l) /\ Len(l) - n + (n - i + 1) = Len(l) - i + 1
      BY <1>1, <1>2
    <2> QED
      BY <1>2, <1>3, <1>4, <2>1
  <1> DEFINE u == SubSeq(Reverse(s), 1, n)
             v == SubSeq(Reverse(l), 1, n)
  <1>6. /\ u \in Seq(1..MaxSaves) /\ Len(u) = n /\ \A i \in 1..n : u[i] = Reverse(s)[i]
        /\ v \in Seq(1..MaxSaves) /\ Len(v) = n /\ \A i \in 1..n : v[i] = Reverse(l)[i]
    <2>1. /\ \A i \in 1..n : Reverse(s)[i] \in 1..MaxSaves
          /\ \A i \in 1..n : Reverse(l)[i] \in 1..MaxSaves
          /\ 1 \in Int /\ n \in Int
      <3> SUFFICES ASSUME NEW i \in 1..n
                   PROVE  Reverse(s)[i] \in 1..MaxSaves /\ Reverse(l)[i] \in 1..MaxSaves
        BY <1>1
      <3>1. i \in 1..Len(Reverse(s)) /\ i \in 1..Len(Reverse(l))
        BY <1>1, <1>2, <1>3, <1>4
      <3> QED
        BY <1>3, <1>4, <3>1, ElementOfSeq
    <2>2. (IF 1 <= n THEN n - 1 + 1 ELSE 0) = n /\ \A i \in 1..n : i \in 1..(n - 1 + 1) /\ 1 + i - 1 = i
      BY <1>1
    <2> HIDE DEF n
    <2>3. /\ u \in Seq(1..MaxSaves) /\ Len(u) = IF 1 <= n THEN n - 1 + 1 ELSE 0
          /\ \A i \in 1..(n - 1 + 1) : u[i] = Reverse(s)[1 + i - 1]
      BY <2>1, SubSeqProperties
    <2>4. /\ v \in Seq(1..MaxSaves) /\ Len(v) = IF 1 <= n THEN n - 1 + 1 ELSE 0
          /\ \A i \in 1..(n - 1 + 1) : v[i] = Reverse(l)[1 + i - 1]
      BY <2>1, SubSeqProperties
    <2> HIDE DEF u, v
    <2> QED
      BY <2>2, <2>3, <2>4
  <1>7. u = v
    BY <1>5, <1>6
  <1>8. IsSuffix(s, l)
    BY <1>1, <1>2, <1>3, <1>4, <1>7 DEF IsSuffix, IsPrefix
  <1> QED
    BY <1>8 DEF s

LEMMA SaveAscends ==
  ASSUME NEW n \in Nat, NEW l \in Seq(1..n), Ascending(l)
  PROVE  Append(l, n + 1) \in Seq(1..(n + 1)) /\ Ascending(Append(l, n + 1))
  <1>1. l \in Seq(1..(n + 1)) /\ Len(l) \in Nat /\ \A i \in 1..Len(l) : l[i] \in 1..n
    OBVIOUS
  <1>2. n + 1 \in 1..(n + 1)
    OBVIOUS
  <1>3. /\ Append(l, n + 1) \in Seq(1..(n + 1)) /\ Len(Append(l, n + 1)) = Len(l) + 1
        /\ \A i \in 1..Len(l) : Append(l, n + 1)[i] = l[i]
        /\ Append(l, n + 1)[Len(l) + 1] = n + 1
    BY <1>1, <1>2, AppendFacts
  <1> DEFINE m == Append(l, n + 1)
  <1> HIDE DEF m
  <1>4. ASSUME NEW i \in 1..Len(m), NEW j \in 1..Len(m), i < j
        PROVE  m[i] < m[j]
    <2> HIDE DEF m
    <2>1. i \in 1..Len(l) /\ m[i] = l[i] /\ m[i] \in 1..n
      <3>1. i \in 1..Len(l)
        BY <1>1, <1>3, <1>4 DEF m
      <3>2. m[i] = l[i]
        BY <1>3, <3>1 DEF m
      <3> QED
        BY <1>1, <3>1, <3>2
    <2>2. CASE j = Len(l) + 1
      BY <1>3, <2>1, <2>2 DEF m
    <2>3. CASE j # Len(l) + 1
      <3>1. j \in 1..Len(l)
        BY <1>1, <1>3, <2>3 DEF m
      <3>2. m[j] = l[j]
        BY <1>3, <3>1 DEF m
      <3>3. l[i] < l[j]
        BY <1>4, <2>1, <3>1 DEF Ascending
      <3> QED
        BY <2>1, <3>2, <3>3
    <2> QED
      BY <2>2, <2>3
  <1> QED
    BY <1>3, <1>4 DEF Ascending, m

LEMMA FrontAscends ==
  ASSUME NEW n \in Nat, NEW l \in Seq(1..n), Ascending(l), Len(l) > 0
  PROVE  Front(l) \in Seq(1..n) /\ Ascending(Front(l))
  <1>1. /\ Front(l) \in Seq(1..n) /\ Len(Front(l)) = Len(l) - 1 /\ Len(l) \in Nat
        /\ \A i \in 1..(Len(l) - 1) : Front(l)[i] = l[i]
    BY FrontFacts
  <1> DEFINE f == Front(l)
  <1> HIDE DEF f
  <1>2. ASSUME NEW i \in 1..Len(f), NEW j \in 1..Len(f), i < j
        PROVE  f[i] < f[j]
    <2>1. i \in 1..(Len(l) - 1) /\ j \in 1..(Len(l) - 1) /\ i \in 1..Len(l) /\ j \in 1..Len(l)
      BY <1>1 DEF f
    <2>2. f[i] = l[i] /\ f[j] = l[j]
      BY <1>1, <2>1 DEF f
    <2>3. l[i] < l[j]
      BY <1>2, <2>1 DEF Ascending
    <2> QED
      BY <2>2, <2>3
  <1> QED
    BY <1>1, <1>2 DEF Ascending, f

(* The timestamps of a history rise if those of its log do.                 *)
LEMMA EndAscends ==
  ASSUME NEW n \in Nat, NEW h \in Seq(Snapshot), NEW l \in Seq(1..n),
         EndOf(h, l), Ascending(l)
  PROVE  Timestamps(h) \in Seq(1..n) /\ Ascending(Timestamps(h))
  <1> DEFINE s == Timestamps(h)
  <1>1. /\ s \in Seq(1..MaxSaves) /\ Len(s) = Len(h) /\ Len(h) \in Nat /\ Len(l) \in Nat
        /\ Len(h) <= Len(l)
        /\ \A i \in 1..Len(h) : s[i] = h[i].timestamp
    BY TimestampsFacts DEF EndOf
  <1> HIDE DEF s
  <1>2. ASSUME NEW i \in 1..Len(s)
        PROVE  /\ Len(l) - Len(h) + i \in 1..Len(l)
               /\ s[i] = l[Len(l) - Len(h) + i]
               /\ s[i] \in 1..n
    <2>1. Len(l) - Len(h) + i \in 1..Len(l)
      BY <1>1
    <2>2. s[i] = l[Len(l) - Len(h) + i]
      BY <1>1 DEF EndOf
    <2> QED
      BY <2>1, <2>2, ElementOfSeq
  <1>3. s \in Seq(1..n)
    <2>1. s \in [1..Len(h) -> 1..n]
      BY <1>1, <1>2
    <2> QED
      BY <1>1, <2>1, FunctionIsSeq
  <1>4. ASSUME NEW i \in 1..Len(s), NEW j \in 1..Len(s), i < j
        PROVE  s[i] < s[j]
    <2>1. Len(l) - Len(h) + i < Len(l) - Len(h) + j
      BY <1>1, <1>4
    <2> QED
      BY <1>2, <2>1 DEF Ascending
  <1> QED
    BY <1>3, <1>4 DEF Ascending, s

-----------------------------------------------------------------------------
\* What the manager's methods do to a history and its trail.

LEMMA NewFollows ==
  ASSUME NEW n \in Nat
  PROVE  Follows(<<>>, NewTrail, n)
  <1>1. <<>> \in Seq(Snapshot) /\ <<>> \in Seq(1..n) /\ <<>> \in Seq(1..MaxSaves) /\ Len(<<>>) = 0
    OBVIOUS
  <1>2. /\ NewTrail \in Trail
        /\ NewTrail.log = <<>> /\ NewTrail.most = 0 /\ NewTrail.restored = Latest
    BY <1>1, RollbackAssumption DEF NewTrail, Trail, Latest
  <1>3. Given(0, 0, 0)
    <2>1. MaxHistoryPerWorkload \in Nat /\ MaxHistoryPerWorkload > 0
      BY RollbackAssumption
    <2>2. ~(0 > MaxHistoryPerWorkload) /\ 0 <= MaxHistoryPerWorkload
      BY <2>1
    <2> QED
      BY <2>2 DEF Given
  <1>4. EndOf(<<>>, <<>>) /\ Ascending(<<>>)
    BY <1>1 DEF EndOf, Ascending
  <1>5. Stands(<<>>, Latest)
    BY DEF Stands
  <1> QED
    BY <1>1, <1>2, <1>3, <1>4, <1>5, Zenon DEF Follows

LEMMA LaterFollows ==
  ASSUME NEW h, NEW t, NEW n \in Nat, Follows(h, t, n)
  PROVE  Follows(h, t, n + 1)
  <1>1. t.log \in Seq(1..n)
    BY DEF Follows
  <1>2. t.log \in Seq(1..(n + 1))
    BY <1>1
  <1> QED
    BY <1>2 DEF Follows

LEMMA SaveGives ==
  ASSUME NEW p \in Nat, NEW q \in Nat, NEW m \in Nat, Given(p, q, m)
  PROVE  Given(IF p + 1 > MaxHistoryPerWorkload THEN MaxHistoryPerWorkload ELSE p + 1,
               q + 1, IF q + 1 > m THEN q + 1 ELSE m)
  BY RollbackAssumption DEF Given

LEMMA RollbackGives ==
  ASSUME NEW p \in Nat, NEW q \in Nat, NEW m \in Nat, Given(p, q, m), p >= 2
  PROVE  Given(p - 1, q - 1, m)
  BY RollbackAssumption DEF Given

LEMMA SaveFollows ==
  ASSUME NEW n \in Nat, n < MaxSaves, NEW h, NEW t, Follows(h, t, n),
         NEW x \in Snapshot, x.timestamp = n + 1
  PROVE  Follows(Trimmed(Append(h, x)), TrailSaved(t, n + 1), n + 1)
  <1> DEFINE l == t.log
             a == Append(h, x)
             u == Trimmed(a)
             m == Append(l, n + 1)
             most == IF Len(l) + 1 > t.most THEN Len(l) + 1 ELSE t.most
  <1>1. /\ h \in Seq(Snapshot) /\ l \in Seq(1..n) /\ l \in Seq(Nat)
        /\ EndOf(h, l) /\ Given(Len(h), Len(l), t.most) /\ Ascending(l)
        /\ t.most \in Nat /\ MaxSaves \in Nat
        /\ MaxHistoryPerWorkload \in Nat /\ MaxHistoryPerWorkload > 0
    BY RollbackAssumption DEF Follows, Trail
  <1>2. EndOf(u, m)
    BY <1>1, SaveKeepsEnd
  <1>3. m \in Seq(1..(n + 1)) /\ Ascending(m)
    BY <1>1, SaveAscends
  <1>4. a \in Seq(Snapshot) /\ Len(a) = Len(h) + 1 /\ Len(h) \in Nat
    BY <1>1, AppendFacts
  <1>5. Len(m) = Len(l) + 1 /\ Len(l) \in Nat
    BY <1>1
  <1>6. /\ u \in Seq(Snapshot)
        /\ Len(u) = IF Len(a) > MaxHistoryPerWorkload THEN MaxHistoryPerWorkload ELSE Len(a)
    BY <1>4, TrimmedFacts
  <1>7. Given(IF Len(h) + 1 > MaxHistoryPerWorkload THEN MaxHistoryPerWorkload ELSE Len(h) + 1,
              Len(l) + 1, most)
    BY <1>1, <1>4, <1>5, SaveGives
  <1> HIDE DEF u, m, a, l
  <1>9. most \in Nat
    BY <1>1, <1>5
  <1> HIDE DEF most
  <1>10. Given(Len(u), Len(m), most)
    <2>1. Len(u) = IF Len(h) + 1 > MaxHistoryPerWorkload THEN MaxHistoryPerWorkload ELSE Len(h) + 1
      BY <1>4, <1>6
    <2> QED
      BY <1>5, <1>7, <2>1, Zenon
  <1>11. m \in Seq(1..MaxSaves)
    BY <1>1, <1>3
  <1>12. TrailSaved(t, n + 1) = [log |-> m, restored |-> Latest, most |-> most]
    BY DEF TrailSaved, m, most, l
  <1>13. Latest \in 1..Latest
    BY <1>1 DEF Latest
  <1> DEFINE v == TrailSaved(t, n + 1)
  <1>14. /\ v \in Trail
         /\ v.log = m /\ v.restored = Latest /\ v.most = most
    BY <1>9, <1>11, <1>12, <1>13 DEF Trail
  <1>15. Stands(u, Latest)
    BY DEF Stands
  <1> HIDE DEF v
  <1>16. Follows(u, v, n + 1)
    BY <1>2, <1>3, <1>6, <1>10, <1>14, <1>15, Zenon DEF Follows
  <1> QED
    BY <1>16 DEF u, a, v

LEMMA RollbackFollows ==
  ASSUME NEW n \in Nat, n <= MaxSaves, NEW h, NEW t, Follows(h, t, n), Len(h) >= 2
  PROVE  Follows(Front(h), TrailRolledBack(t, h[Len(h) - 1].timestamp), n)
  <1> DEFINE l == t.log
             f == Front(h)
             g == Front(l)
             at == h[Len(h) - 1].timestamp
  <1>1. /\ h \in Seq(Snapshot) /\ l \in Seq(1..n) /\ l \in Seq(Nat)
        /\ EndOf(h, l) /\ Given(Len(h), Len(l), t.most) /\ Ascending(l)
        /\ t.most \in Nat /\ MaxSaves \in Nat
        /\ MaxHistoryPerWorkload \in Nat /\ MaxHistoryPerWorkload > 0
        /\ Len(h) \in Nat /\ Len(l) \in Nat
    BY RollbackAssumption DEF Follows, Trail
  <1>2. Len(h) <= Len(l) /\ Len(l) > 0
    BY <1>1 DEF EndOf
  <1>3. EndOf(f, g)
    BY <1>1, RollbackKeepsEnd
  <1>4. g \in Seq(1..n) /\ Ascending(g)
    BY <1>1, <1>2, FrontAscends
  <1>5. /\ f \in Seq(Snapshot) /\ Len(f) = Len(h) - 1
        /\ \A i \in 1..(Len(h) - 1) : f[i] = h[i]
    BY <1>1, FrontFacts
  <1>a. Len(g) = Len(l) - 1
    BY <1>1, <1>2, FrontFacts
  <1>b. Len(h) - 1 \in 1..(Len(h) - 1) /\ Len(h) - 1 \in 1..Len(h)
    BY <1>1
  <1>6. at \in 1..MaxSaves
    <2>1. h[Len(h) - 1] \in Snapshot
      BY <1>1, <1>b, ElementOfSeq
    <2> QED
      BY <2>1 DEF Snapshot
  <1> HIDE DEF f, g, at, l
  <1>7. Given(Len(f), Len(g), t.most)
    BY <1>1, <1>5, <1>a, RollbackGives
  <1>8. g \in Seq(1..MaxSaves)
    BY <1>1, <1>4
  <1>9. Stands(f, at)
    <2>1. f[Len(h) - 1] = h[Len(h) - 1]
      BY <1>5, <1>b
    <2>2. Len(f) > 0 /\ f[Len(f)] = h[Len(h) - 1]
      BY <1>1, <1>5, <2>1
    <2> QED
      BY <2>2 DEF Stands, at
  <1>10. TrailRolledBack(t, at) = [log |-> g, restored |-> at, most |-> t.most]
    BY DEF TrailRolledBack, g, l
  <1>11. at \in 1..Latest
    BY <1>1, <1>6 DEF Latest
  <1>12. TrailRolledBack(t, at) \in Trail
    BY <1>1, <1>8, <1>10, <1>11 DEF Trail
  <1>13. Follows(f, TrailRolledBack(t, at), n)
    BY <1>3, <1>4, <1>5, <1>7, <1>9, <1>10, <1>12 DEF Follows
  <1> QED
    BY <1>13 DEF f, at

(* A snapshot that a rollback restores is older than the one restored       *)
(* before it: it is the last but one, and the last is what was restored.    *)
LEMMA TargetIsOlder ==
  ASSUME NEW n \in Nat, n <= MaxSaves, NEW h, NEW t, Follows(h, t, n), Len(h) >= 2
  PROVE  h[Len(h) - 1].timestamp < t.restored
  <1> DEFINE s == Timestamps(h)
  <1>1. /\ h \in Seq(Snapshot) /\ t.log \in Seq(1..n) /\ EndOf(h, t.log) /\ Ascending(t.log)
        /\ Stands(h, t.restored) /\ Len(h) \in Nat /\ MaxSaves \in Nat
    BY RollbackAssumption DEF Follows
  <1>2. Ascending(s) /\ s \in Seq(1..MaxSaves) /\ Len(s) = Len(h)
        /\ \A i \in 1..Len(h) : s[i] = h[i].timestamp
    BY <1>1, EndAscends, TimestampsFacts
  <1>3. Len(h) - 1 \in 1..Len(h) /\ Len(h) \in 1..Len(h) /\ Len(h) - 1 < Len(h)
    BY <1>1
  <1> HIDE DEF s
  <1>4. s[Len(h) - 1] < s[Len(h)] /\ s[Len(h) - 1] \in 1..MaxSaves
    BY <1>2, <1>3, ElementOfSeq DEF Ascending
  <1>5. CASE t.restored = Latest
    BY <1>1, <1>2, <1>3, <1>4, <1>5 DEF Latest
  <1>6. CASE t.restored = h[Len(h)].timestamp
    BY <1>2, <1>3, <1>4, <1>6
  <1> QED
    BY <1>1, <1>5, <1>6 DEF Stands

-----------------------------------------------------------------------------
\* The inductive invariant.

LEMMA InitIInv == Init => IInv
  <1> SUFFICES ASSUME Init PROVE IInv
    OBVIOUS
  <1>1. MaxSaves \in Nat /\ 0 \in 0..MaxSaves /\ MaxHistoryPerWorkload \in Nat
    BY RollbackAssumption
  <1>2. Follows(<<>>, NewTrail, 0)
    BY NewFollows
  <1>3. MemoryFollows /\ FileFollows
    BY <1>2 DEF Init, MemoryFollows, FileFollows
  <1>4. /\ NewTrail \in Trail /\ <<>> \in Seq(Snapshot) /\ Len(<<>>) <= MaxHistoryPerWorkload
    BY <1>1, <1>2 DEF Follows
  <1>5. TypeOK
    BY <1>1, <1>4 DEF Init, TypeOK
  <1> QED
    BY <1>3, <1>5 DEF IInv

LEMMA SavePreserves ==
  ASSUME IInv, NEW w \in Workers, NEW k \in Keys, SavePreviousConfig(w, k)
  PROVE  IInv'
  <1> DEFINE x == [requests |-> live[k], timestamp |-> saves + 1]
             h == Trimmed(Append(history[k], x))
             t == TrailSaved(trail[k], saves + 1)
  <1>1. /\ saves \in Nat /\ MaxSaves \in Nat /\ saves < MaxSaves /\ saves' = saves + 1
        /\ saves' \in 0..MaxSaves
    BY RollbackAssumption DEF IInv, TypeOK, SavePreviousConfig
  <1>2. x \in Snapshot /\ x.timestamp = saves + 1
    BY <1>1 DEF IInv, TypeOK, Snapshot
  <1>3. /\ history' = [history EXCEPT ![k] = h]
        /\ trail' = [trail EXCEPT ![k] = t]
        /\ applying' = [applying EXCEPT ![w] = k]
        /\ UNCHANGED <<live, file, filed, previous>>
    BY DEF SavePreviousConfig
  <1> HIDE DEF x
  <1>4. Follows(h, t, saves + 1)
    BY <1>1, <1>2, SaveFollows DEF IInv, MemoryFollows
  <1>5. h \in Seq(Snapshot) /\ t \in Trail /\ Len(h) <= MaxHistoryPerWorkload
    BY <1>4 DEF Follows, Given
  <1> HIDE DEF h, t
  <1>6. TypeOK'
    BY <1>1, <1>3, <1>5 DEF IInv, TypeOK
  <1>7. MemoryFollows'
    <2> SUFFICES ASSUME NEW j \in Keys
                 PROVE  Follows(history'[j], trail'[j], saves + 1)
      BY <1>1 DEF MemoryFollows
    <2>1. CASE j = k
      BY <1>3, <1>4, <2>1 DEF IInv, TypeOK
    <2>2. CASE j # k
      <3>1. history'[j] = history[j] /\ trail'[j] = trail[j]
        BY <1>3, <2>2 DEF IInv, TypeOK
      <3>2. Follows(history[j], trail[j], saves)
        BY DEF IInv, MemoryFollows
      <3> QED
        BY <1>1, <3>1, <3>2, LaterFollows
    <2> QED
      BY <2>1, <2>2
  <1>8. FileFollows'
    <2> SUFFICES ASSUME NEW j \in Keys
                 PROVE  Follows(file[j], filed[j], saves + 1)
      BY <1>1, <1>3 DEF FileFollows
    <2>1. Follows(file[j], filed[j], saves)
      BY DEF IInv, FileFollows
    <2> QED
      BY <1>1, <2>1, LaterFollows
  <1> QED
    BY <1>6, <1>7, <1>8 DEF IInv

LEMMA RollbackPreserves ==
  ASSUME IInv, NEW k \in Keys, RollbackWorkload(k)
  PROVE  IInv'
  <1> DEFINE f == Front(history[k])
             t == TrailRolledBack(trail[k], Target(k).timestamp)
  <1>1. /\ saves \in Nat /\ saves <= MaxSaves /\ Len(history[k]) >= 2
        /\ Follows(history[k], trail[k], saves) /\ history[k] \in Seq(Snapshot)
    BY RollbackAssumption DEF IInv, TypeOK, MemoryFollows, RollbackWorkload
  <1>2. Follows(f, t, saves)
    BY <1>1, RollbackFollows DEF Target
  <1>3. f \in Seq(Snapshot) /\ t \in Trail /\ Len(f) <= MaxHistoryPerWorkload
    BY <1>2 DEF Follows, Given
  <1>4. /\ history' = [history EXCEPT ![k] = f]
        /\ trail' = [trail EXCEPT ![k] = t]
        /\ live' = [live EXCEPT ![k] = Target(k).requests]
        /\ UNCHANGED <<file, applying, saves, filed, previous>>
    BY DEF RollbackWorkload
  <1>5. Target(k).requests \in Requests
    <2>1. Len(history[k]) - 1 \in 1..Len(history[k])
      BY <1>1
    <2>2. Target(k) \in Snapshot
      BY <1>1, <2>1, ElementOfSeq DEF Target
    <2> QED
      BY <2>2 DEF Snapshot
  <1> HIDE DEF f, t
  <1>6. TypeOK'
    BY <1>3, <1>4, <1>5 DEF IInv, TypeOK
  <1>7. MemoryFollows'
    BY <1>2, <1>4 DEF IInv, TypeOK, MemoryFollows
  <1>8. FileFollows'
    BY <1>4 DEF IInv, FileFollows
  <1> QED
    BY <1>6, <1>7, <1>8 DEF IInv

LEMMA LoadPreserves ==
  ASSUME IInv, LoadFromFile
  PROVE  IInv'
  <1>1. /\ history' = [k \in Keys |-> IF file[k] = <<>> THEN history[k] ELSE file[k]]
        /\ trail' = [k \in Keys |-> IF file[k] = <<>> THEN trail[k] ELSE filed[k]]
        /\ UNCHANGED <<live, file, applying, saves, filed, previous>>
    BY DEF LoadFromFile, Loaded
  <1>2. /\ history' \in [Keys -> Seq(Snapshot)]
        /\ trail' \in [Keys -> Trail]
        /\ \A k \in Keys : Len(history'[k]) <= MaxHistoryPerWorkload
    BY <1>1 DEF IInv, TypeOK
  <1>3. TypeOK'
    BY <1>1, <1>2 DEF IInv, TypeOK
  <1>4. MemoryFollows' /\ FileFollows'
    BY <1>1 DEF IInv, MemoryFollows, FileFollows
  <1> QED
    BY <1>3, <1>4 DEF IInv

LEMMA NextIInv == IInv /\ [Next]_vars => IInv'
  <1> SUFFICES ASSUME IInv, [Next]_vars PROVE IInv'
    OBVIOUS
  <1> USE RollbackAssumption
  <1>1. ASSUME NEW w \in Workers, NEW k \in Keys, SavePreviousConfig(w, k)
        PROVE  IInv'
    BY <1>1, SavePreserves
  <1>2. ASSUME NEW w \in Workers, NEW k \in Keys, SaveFails(w, k)
        PROVE  IInv'
    BY <1>2 DEF SaveFails, IInv, TypeOK, MemoryFollows, FileFollows
  <1>3. ASSUME NEW w \in Workers, ScaleFails(w)
        PROVE  IInv'
    BY <1>3 DEF ScaleFails, IInv, TypeOK, MemoryFollows, FileFollows
  <1>4. ASSUME NEW w \in Workers, Scale(w)
        PROVE  IInv'
    <2>1. applying[w] \in Keys
      BY <1>4 DEF Scale, IInv, TypeOK
    <2>2. PICK r \in Requests : live' = [live EXCEPT ![applying[w]] = r]
      BY <1>4 DEF Scale
    <2>3. /\ previous' = [previous EXCEPT ![applying[w]] = live[applying[w]]]
          /\ applying' = [applying EXCEPT ![w] = NoKey]
          /\ UNCHANGED <<history, file, saves, trail, filed>>
      BY <1>4 DEF Scale
    <2>4. TypeOK'
      BY <2>1, <2>2, <2>3 DEF IInv, TypeOK
    <2> QED
      BY <2>3, <2>4 DEF IInv, MemoryFollows, FileFollows
  <1>5. ASSUME NEW k \in Keys, RollbackWorkload(k)
        PROVE  IInv'
    BY <1>5, RollbackPreserves
  <1>6. CASE SaveToFile
    BY <1>6 DEF SaveToFile, IInv, TypeOK, MemoryFollows, FileFollows
  <1>7. CASE LoadFromFile
    BY <1>7, LoadPreserves
  <1>8. CASE Restart
    <2>1. /\ history' = [k \in Keys |-> <<>>] /\ trail' = [k \in Keys |-> NewTrail]
          /\ applying' = [w \in Workers |-> NoKey]
          /\ UNCHANGED <<live, file, saves, filed, previous>>
      BY <1>8 DEF Restart
    <2>2. Follows(<<>>, NewTrail, saves) /\ Len(<<>>) <= MaxHistoryPerWorkload
      BY NewFollows DEF IInv, TypeOK
    <2>3. NewTrail \in Trail /\ <<>> \in Seq(Snapshot)
      BY <2>2 DEF Follows
    <2>4. TypeOK'
      BY <2>1, <2>2, <2>3 DEF IInv, TypeOK
    <2>5. MemoryFollows' /\ FileFollows'
      BY <2>1, <2>2 DEF IInv, MemoryFollows, FileFollows
    <2> QED
      BY <2>4, <2>5 DEF IInv
  <1>9. CASE UNCHANGED vars
    BY <1>9 DEF vars, IInv, TypeOK, MemoryFollows, FileFollows
  <1> QED
    BY <1>1, <1>2, <1>3, <1>4, <1>5, <1>6, <1>7, <1>8, <1>9 DEF Next

LEMMA Invariance == Spec => []IInv
  BY InitIInv, NextIInv, PTL DEF Spec

-----------------------------------------------------------------------------
\* What it gives.

(* The history never outgrows its capacity, and a snapshot is one that was  *)
(* taken (rollback_manager.go:44-51).                                       *)
THEOREM TypeCorrect == Spec => []TypeOK
  <1>1. IInv => TypeOK
    BY DEF IInv
  <1> QED
    BY <1>1, Invariance, PTL

(* However saves, failed updates, rollbacks, loads and restarts alternate,  *)
(* the history is the end of what was saved and not rolled back, less only  *)
(* what did not fit.                                                        *)
THEOREM LatestKept == Spec => []KeepsTheLatest
  <1>1. IInv => KeepsTheLatest
    <2> SUFFICES ASSUME IInv, NEW k \in Keys
                 PROVE  /\ IsSuffix(Timestamps(history[k]), trail[k].log)
                        /\ Len(history[k]) = Len(trail[k].log) - GivenUp(trail[k])
      BY DEF KeepsTheLatest
    <2>1. Follows(history[k], trail[k], saves)
      BY DEF IInv, MemoryFollows
    <2>2. /\ history[k] \in Seq(Snapshot) /\ trail[k].log \in Seq(1..MaxSaves)
          /\ EndOf(history[k], trail[k].log)
      BY <2>1 DEF Follows, Trail
    <2> QED
      BY <2>1, <2>2, EndIsSuffix DEF Follows, Given, GivenUp
  <1> QED
    BY <1>1, Invariance, PTL

(* Rollbacks that follow each other go strictly back in time, in one        *)
(* process or in several that hand the history on through the file          *)
(* (rollback_manager.go:61-75, cmd/optctl/main.go:546-563).                 *)
THEOREM DescendsInTime == Spec => RollbackDescends
  <1>1. IInv /\ [Next]_vars =>
           [\A k \in Keys :
              RollbackWorkload(k) => Target(k).timestamp < trail[k].restored]_vars
    <2> SUFFICES ASSUME IInv, NEW k \in Keys, RollbackWorkload(k)
                 PROVE  Target(k).timestamp < trail[k].restored
      OBVIOUS
    <2>1. /\ saves \in Nat /\ saves <= MaxSaves /\ Len(history[k]) >= 2
          /\ Follows(history[k], trail[k], saves)
      BY RollbackAssumption DEF IInv, TypeOK, MemoryFollows, RollbackWorkload
    <2> QED
      BY <2>1, TargetIsOlder DEF Target
  <1> QED
    BY <1>1, Invariance, PTL DEF Spec, RollbackDescends

=============================================================================
