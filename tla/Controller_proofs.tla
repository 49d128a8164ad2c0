-------------------------- MODULE Controller_proofs --------------------------
(***************************************************************************)
(* The controller's safety, for any set of configs and workers and any     *)
(* number of retries.  The inductive invariant IInv says, beyond the types *)
(* and the shape of the work queue,                                        *)
(*   Holders        the keys in processing are those the workers hold, each *)
(*                  held by one;                                           *)
(*   CacheFollows   the informer's cache is the stored version as soon as  *)
(*                  the watch has nothing left to tell;                    *)
(*   CopiesCurrent  a copy that is marked current is of the stored version; *)
(*   Covered        a key that nothing waits for and no worker holds is of *)
(*                  a config that asks for nothing, and a worker that has  *)
(*                  done its pass has left something behind that waits.    *)
(***************************************************************************)
EXTENDS Controller, TLAPS

(***************************************************************************)
(* What the operations of the work queue preserve: the queue holds exactly *)
(* the keys that are dirty and not being processed, each of them once.     *)
(***************************************************************************)

Queues ==
    [queue : Seq(Keys), dirty : SUBSET Keys, processing : SUBSET Keys,
     waiting : SUBSET Keys, requeues : [Keys -> Nat]]

Shape(q) ==
    /\ \A i \in 1..Len(q.queue) : q.queue[i] \in q.dirty \ q.processing
    /\ \A i, j \in 1..Len(q.queue) : q.queue[i] = q.queue[j] => i = j
    /\ \A k \in q.dirty \ q.processing : Queued(q, k)

\* Appending a key that is not in a sequence.
LEMMA AppendNew ==
    ASSUME NEW S, NEW s \in Seq(S), NEW e \in S
    PROVE  /\ Append(s, e) \in Seq(S)
           /\ Len(Append(s, e)) = Len(s) + 1
           /\ \A i \in 1..Len(s) : Append(s, e)[i] = s[i]
           /\ Append(s, e)[Len(s) + 1] = e
  OBVIOUS

\* Taking the first element off a sequence.
LEMMA TailShifts ==
    ASSUME NEW S, NEW s \in Seq(S), s # <<>>
    PROVE  /\ Head(s) \in S /\ Head(s) = s[1]
           /\ Tail(s) \in Seq(S)
           /\ Len(s) >= 1
           /\ Len(Tail(s)) = Len(s) - 1
           /\ \A i \in 1..Len(Tail(s)) : Tail(s)[i] = s[i + 1]
  OBVIOUS

\* The last element stays the last, unless it is the one taken off.
LEMMA TailKeepsLast ==
    ASSUME NEW S, NEW s \in Seq(S), s # <<>>
    PROVE  IF Tail(s) = <<>> THEN s[Len(s)] = Head(s)
                             ELSE Tail(s)[Len(Tail(s))] = s[Len(s)]
<1>1. /\ Head(s) = s[1] /\ Tail(s) \in Seq(S)
      /\ Len(Tail(s)) = Len(s) - 1
      /\ \A i \in 1..Len(Tail(s)) : Tail(s)[i] = s[i + 1]
  BY TailShifts
<1>2. Len(s) \in Nat
  OBVIOUS
<1>3. CASE Tail(s) = <<>>
  <2>a. Len(<<>>) = 0
    OBVIOUS
  <2>1. Len(Tail(s)) = 0
    BY <1>3, <2>a, Zenon
  <2>2. Len(s) = 1
    BY <2>1, <1>1, <1>2
  <2> QED
    BY <1>1, <1>3, <2>2
<1>4. CASE Tail(s) # <<>>
  <2>1. Len(Tail(s)) \in Nat \ {0}
    BY <1>1, <1>4
  <2>2. Len(Tail(s)) \in 1..Len(Tail(s)) /\ Len(Tail(s)) + 1 = Len(s)
    BY <2>1, <1>1, <1>2
  <2> QED
    BY <1>1, <1>4, <2>2
<1> QED
  BY <1>3, <1>4

\* Add makes a key dirty, and queues it unless it is queued or processed.
LEMMA AddKeepsShape ==
    ASSUME NEW q \in Queues, NEW k \in Keys, Shape(q)
    PROVE  /\ Add(q, k) \in Queues
           /\ Shape(Add(q, k))
           /\ Add(q, k).dirty = q.dirty \cup {k}
           /\ Add(q, k).processing = q.processing
           /\ Add(q, k).waiting = q.waiting
           /\ Add(q, k).requeues = q.requeues
<1> DEFINE r == Add(q, k)
<1>1. /\ q.queue \in Seq(Keys) /\ q.dirty \in SUBSET Keys /\ q.processing \in SUBSET Keys
      /\ q.waiting \in SUBSET Keys /\ q.requeues \in [Keys -> Nat]
  BY DEF Queues
<1>2. /\ r.dirty = q.dirty \cup {k} /\ r.processing = q.processing
      /\ r.waiting = q.waiting /\ r.requeues = q.requeues
      /\ r.queue = IF k \in q.dirty \cup q.processing THEN q.queue ELSE Append(q.queue, k)
  BY DEF Add, Queues
<1>a. r.queue \in Seq(Keys) /\ r.dirty \in SUBSET Keys
  BY <1>1, <1>2, AppendNew
<1>3. r \in Queues
  BY <1>1, <1>2, <1>a DEF Add, Queues
<1>4. Shape(r)
  <2>1. CASE k \in q.dirty \cup q.processing
    BY <2>1, <1>1, <1>2 DEF Shape, Queued
  <2>2. CASE k \notin q.dirty \cup q.processing
    <3>1. /\ Len(r.queue) = Len(q.queue) + 1
          /\ \A i \in 1..Len(q.queue) : r.queue[i] = q.queue[i]
          /\ r.queue[Len(q.queue) + 1] = k
      BY <2>2, <1>1, <1>2, AppendNew
    <3>2. Len(q.queue) \in Nat
      BY <1>1
    <3>3. \A i \in 1..Len(q.queue) : q.queue[i] # k
      BY <2>2 DEF Shape
    <3> QED
      BY <3>1, <3>2, <3>3, <1>2, <2>2 DEF Shape, Queued
  <2> QED
    BY <2>1, <2>2
<1> QED
  BY <1>2, <1>3, <1>4

\* Take hands out a key that nobody processes.
LEMMA TakeKeepsShape ==
    ASSUME NEW q \in Queues, Shape(q), q.queue # <<>>
    PROVE  /\ Head(q.queue) \in Keys \ q.processing
           /\ Take(q) \in Queues
           /\ Shape(Take(q))
           /\ Take(q).dirty = q.dirty \ {Head(q.queue)}
           /\ Take(q).processing = q.processing \cup {Head(q.queue)}
           /\ Take(q).waiting = q.waiting
           /\ Take(q).requeues = q.requeues
<1> DEFINE r == Take(q)
<1>1. /\ q.queue \in Seq(Keys) /\ q.dirty \in SUBSET Keys /\ q.processing \in SUBSET Keys
      /\ q.waiting \in SUBSET Keys /\ q.requeues \in [Keys -> Nat]
  BY DEF Queues
<1>2. /\ Head(q.queue) \in Keys /\ Head(q.queue) = q.queue[1]
      /\ Tail(q.queue) \in Seq(Keys)
      /\ Len(q.queue) >= 1
      /\ Len(Tail(q.queue)) = Len(q.queue) - 1
      /\ \A i \in 1..Len(Tail(q.queue)) : Tail(q.queue)[i] = q.queue[i + 1]
  BY <1>1, TailShifts
<1>3. Len(q.queue) \in Nat
  BY <1>1
<1>4. /\ r.dirty = q.dirty \ {Head(q.queue)}
      /\ r.processing = q.processing \cup {Head(q.queue)}
      /\ r.waiting = q.waiting /\ r.requeues = q.requeues
      /\ r.queue = Tail(q.queue)
  BY DEF Take, Queues
<1>5. r \in Queues
  BY <1>1, <1>2 DEF Take, Queues
<1>6. Head(q.queue) \notin q.processing
  BY <1>2, <1>3 DEF Shape
<1>7. Shape(r)
  <2>1. \A i \in 1..Len(r.queue) :
            i + 1 \in 1..Len(q.queue) /\ i + 1 # 1 /\ r.queue[i] = q.queue[i + 1]
    BY <1>2, <1>3, <1>4
  <2>2. \A i \in 1..Len(r.queue) : r.queue[i] # Head(q.queue)
    BY <2>1, <1>2, <1>3 DEF Shape
  <2>3. \A i \in 1..Len(r.queue) : r.queue[i] \in r.dirty \ r.processing
    BY <2>1, <2>2, <1>4 DEF Shape
  <2>4. \A i, j \in 1..Len(r.queue) : r.queue[i] = r.queue[j] => i = j
    <3> SUFFICES ASSUME NEW i \in 1..Len(r.queue), NEW j \in 1..Len(r.queue),
                        r.queue[i] = r.queue[j]
                 PROVE  i = j
      OBVIOUS
    <3>1. i + 1 = j + 1
      BY <2>1 DEF Shape
    <3> QED
      BY <3>1
  <2>5. \A k \in r.dirty \ r.processing : Queued(r, k)
    <3> SUFFICES ASSUME NEW k \in r.dirty \ r.processing
                 PROVE  \E i \in 1..Len(r.queue) : r.queue[i] = k
      BY DEF Queued
    <3>1. k \in q.dirty \ q.processing /\ k # Head(q.queue)
      BY <1>4
    <3>2. PICK i \in 1..Len(q.queue) : q.queue[i] = k
      BY <3>1 DEF Shape, Queued
    <3>3. i # 1
      BY <3>1, <3>2, <1>2
    <3>4. i - 1 \in 1..Len(r.queue) /\ (i - 1) + 1 = i
      BY <3>3, <1>2, <1>3, <1>4
    <3> QED
      BY <3>2, <3>4, <2>1
  <2> QED
    BY <2>3, <2>4, <2>5 DEF Shape
<1> QED
  BY <1>2, <1>4, <1>5, <1>6, <1>7

\* Done gives a key back, to the queue if it has become dirty meanwhile.
LEMMA DoneKeepsShape ==
    ASSUME NEW q \in Queues, NEW k \in q.processing, Shape(q)
    PROVE  /\ Done(q, k) \in Queues
           /\ Shape(Done(q, k))
           /\ Done(q, k).dirty = q.dirty
           /\ Done(q, k).processing = q.processing \ {k}
           /\ Done(q, k).waiting = q.waiting
           /\ Done(q, k).requeues = q.requeues
<1> DEFINE r == Done(q, k)
<1>1. /\ q.queue \in Seq(Keys) /\ q.dirty \in SUBSET Keys /\ q.processing \in SUBSET Keys
      /\ q.waiting \in SUBSET Keys /\ q.requeues \in [Keys -> Nat] /\ k \in Keys
  BY DEF Queues
<1>2. /\ r.dirty = q.dirty /\ r.processing = q.processing \ {k}
      /\ r.waiting = q.waiting /\ r.requeues = q.requeues
      /\ r.queue = IF k \in q.dirty THEN Append(q.queue, k) ELSE q.queue
  BY DEF Done, Queues
<1>a. r.queue \in Seq(Keys)
  BY <1>1, <1>2, AppendNew
<1>3. r \in Queues
  BY <1>1, <1>2, <1>a DEF Done, Queues
<1>4. \A i \in 1..Len(q.queue) : q.queue[i] # k
  BY DEF Shape
<1>5. Shape(r)
  <2>1. CASE k \notin q.dirty
    BY <2>1, <1>1, <1>2 DEF Shape, Queued
  <2>2. CASE k \in q.dirty
    <3>1. /\ Len(r.queue) = Len(q.queue) + 1
          /\ \A i \in 1..Len(q.queue) : r.queue[i] = q.queue[i]
          /\ r.queue[Len(q.queue) + 1] = k
      BY <2>2, <1>1, <1>2, AppendNew
    <3>2. Len(q.queue) \in Nat
      BY <1>1
    <3> QED
      BY <3>1, <3>2, <1>4, <1>2, <2>2 DEF Shape, Queued
  <2> QED
    BY <2>1, <2>2
<1> QED
  BY <1>2, <1>3, <1>5

\* The timers and the failure counts are nothing to the queue's shape.
LEMMA TimersKeepShape ==
    ASSUME NEW q \in Queues, NEW k \in Keys, Shape(q),
           NEW r \in {AddAfter(q, k), AddRateLimited(q, k), Forget(q, k)}
    PROVE  /\ r \in Queues
           /\ Shape(r)
           /\ r.dirty = q.dirty
           /\ r.processing = q.processing
           /\ q.waiting \subseteq r.waiting
<1>1. /\ q.queue \in Seq(Keys) /\ q.dirty \in SUBSET Keys /\ q.processing \in SUBSET Keys
      /\ q.waiting \in SUBSET Keys /\ q.requeues \in [Keys -> Nat]
  BY DEF Queues
<1>2. CASE r = AddAfter(q, k)
  BY <1>1, <1>2 DEF AddAfter, Queues, Shape, Queued
<1>3. CASE r = Forget(q, k)
  BY <1>1, <1>3 DEF Forget, Queues, Shape, Queued
<1>4. CASE r = AddRateLimited(q, k)
  <2> DEFINE counts == [q.requeues EXCEPT ![k] = @ + 1]
             p == [q EXCEPT !.requeues = counts]
  <2>1. counts \in [Keys -> Nat]
    BY <1>1
  <2>2. r = AddAfter(p, k)
    BY <1>4 DEF AddRateLimited
  <2> HIDE DEF counts
  <2>3. p \in Queues
    BY <1>1, <2>1 DEF Queues
  <2>4. /\ p.queue = q.queue /\ p.dirty = q.dirty /\ p.processing = q.processing
        /\ p.waiting = q.waiting
    BY DEF Queues
  <2> HIDE DEF p
  <2>5. /\ r.queue = p.queue /\ r.dirty = p.dirty /\ r.processing = p.processing
        /\ r.waiting = p.waiting \cup {k} /\ r \in Queues
    BY <2>2, <2>3 DEF AddAfter, Queues
  <2> QED
    BY <2>4, <2>5 DEF Shape, Queued
<1> QED
  BY <1>2, <1>3, <1>4

\* A timer that fires leaves its key dirty.
LEMMA FireKeepsShape ==
    ASSUME NEW q \in Queues, NEW k \in Keys, Shape(q)
    PROVE  /\ Fire(q, k) \in Queues
           /\ Shape(Fire(q, k))
           /\ Fire(q, k).dirty = q.dirty \cup {k}
           /\ Fire(q, k).processing = q.processing
           /\ Fire(q, k).waiting = q.waiting \ {k}
           /\ Fire(q, k).requeues = q.requeues
<1> DEFINE p == [q EXCEPT !.waiting = @ \ {k}]
<1>1. /\ p.queue = q.queue /\ p.dirty = q.dirty /\ p.processing = q.processing
      /\ p.waiting = q.waiting \ {k} /\ p.requeues = q.requeues /\ p \in Queues
  BY DEF Queues
<1>2. Shape(p)
  BY <1>1 DEF Shape, Queued
<1>3. Fire(q, k) = Add(p, k)
  BY DEF Fire
<1> HIDE DEF p
<1> QED
  BY <1>1, <1>2, <1>3, AddKeepsShape

-----------------------------------------------------------------------------
\* The conjuncts of the inductive invariant.

Holders ==
    /\ \A w \in Workers : Busy(w) => work[w].key \in wq.processing
    /\ \A k \in wq.processing : \E w \in Workers : Busy(w) /\ work[w].key = k
    /\ OneWorkerPerKey

CacheFollows ==
    \A k \in Keys : IF watch[k] = <<>> THEN cache[k] = stored[k]
                    ELSE watch[k][Len(watch[k])] = stored[k]

CopiesCurrent ==
    \A w \in Workers :
        (work[w].pc \in {"reconcile", "write"} /\ work[w].current) =>
            LET c == stored[work[w].key] IN
            /\ c # Absent
            /\ work[w].config.gen = c.gen
            /\ work[w].config.observed \in {c.observed, c.gen}

\* Without a worker, the key would still come back.
ComesBack(k) ==
    \/ ~Needs(stored[k])
    \/ watch[k] # <<>>
    \/ k \in wq.dirty
    \/ k \in wq.waiting

Covered ==
    /\ \A k \in Keys : ComesBack(k) \/ k \in wq.processing
    /\ \A w \in Workers :
          (work[w].pc \in {"write", "leave"}
              \/ (work[w].pc = "reconcile" /\ ~Needs(work[w].config)))
          => ComesBack(work[w].key)

IInv ==
    /\ TypeOK
    /\ Shape(wq)
    /\ Holders
    /\ CacheFollows
    /\ CopiesCurrent
    /\ Covered

-----------------------------------------------------------------------------
(* Types. *)

\* The queue of the type invariant is one the lemmas on the queue speak of.
LEMMA QueueTyped ==
    ASSUME TypeOK
    PROVE  /\ wq \in Queues
           /\ wq.requeues \in [Keys -> 0..MaxRetries]
           /\ wq.queue \in Seq(Keys)
           /\ wq.dirty \in SUBSET Keys
           /\ wq.processing \in SUBSET Keys
           /\ wq.waiting \in SUBSET Keys
  BY ControllerAssumption DEF TypeOK, QueueType, Queues

\* A queue with bounded counts is one of the type invariant.
LEMMA TypedQueue ==
    ASSUME NEW q \in Queues, q.requeues \in [Keys -> 0..MaxRetries]
    PROVE  q \in QueueType
  BY DEF QueueType, Queues

\* What the job of a worker is, by its pc.
LEMMA Jobs ==
    ASSUME TypeOK, NEW w \in Workers
    PROVE  /\ work[w] \in JobType
           /\ work[w].pc \in {"idle", "sync", "reconcile", "write", "leave"}
           /\ work[w].current \in BOOLEAN
           /\ work[w].pc = "idle" => work[w] = Idle /\ work[w].key = NoKey
           /\ work[w].pc # "idle" => work[w].key \in Keys /\ work[w].config \in Version
           /\ work[w].pc \in {"reconcile", "write"} => work[w].config \in Config
           /\ work[w].pc \in {"reconcile", "write"} => work[w] \in CopyJob
           /\ work[w].pc \in {"sync", "leave"} => work[w] \in PlainJob
<1>1. work[w] \in JobType
  BY DEF TypeOK
<1>2. CASE work[w] = Idle
  BY <1>1, <1>2 DEF Idle, Job
<1>3. CASE work[w] \in PlainJob
  BY <1>1, <1>3 DEF PlainJob
<1>4. CASE work[w] \in CopyJob
  BY <1>1, <1>4 DEF CopyJob, Version
<1> QED
  BY <1>1, <1>2, <1>3, <1>4 DEF JobType

\* Marking copies as out of date changes nothing else of the jobs.
LEMMA OutdatedKeeps ==
    ASSUME TypeOK, NEW k \in Keys
    PROVE  /\ Outdated(k) \in [Workers -> JobType]
           /\ \A v \in Workers :
                /\ Outdated(k)[v].pc = work[v].pc
                /\ Outdated(k)[v].key = work[v].key
                /\ Outdated(k)[v].config = work[v].config
                /\ Outdated(k)[v].failed = work[v].failed
                /\ Outdated(k)[v].current => work[v].current /\ work[v].key # k
<1> SUFFICES ASSUME NEW v \in Workers
             PROVE  /\ Outdated(k)[v] \in JobType
                    /\ Outdated(k)[v].pc = work[v].pc
                    /\ Outdated(k)[v].key = work[v].key
                    /\ Outdated(k)[v].config = work[v].config
                    /\ Outdated(k)[v].failed = work[v].failed
                    /\ Outdated(k)[v].current => work[v].current /\ work[v].key # k
  BY DEF Outdated
<1>1. CASE work[v].key # k
  BY <1>1, Jobs DEF Outdated
<1>2. CASE work[v].key = k
  <2>1. Outdated(k)[v] = [work[v] EXCEPT !.current = FALSE]
    BY <1>2 DEF Outdated
  <2>2. work[v].pc # "idle"
    BY <1>2, Jobs, ControllerAssumption
  <2>a. work[v] # Idle
    BY <2>2 DEF Idle, Job
  <2>3. work[v] \in JobType \ {Idle}
    BY <2>a, Jobs
  <2>4. Outdated(k)[v] \in JobType
    BY <2>1, <2>3 DEF JobType, PlainJob, CopyJob
  <2>5. /\ Outdated(k)[v].pc = work[v].pc
        /\ Outdated(k)[v].key = work[v].key
        /\ Outdated(k)[v].config = work[v].config
        /\ Outdated(k)[v].failed = work[v].failed
        /\ Outdated(k)[v].current = FALSE
    BY <2>1, <2>3 DEF JobType, PlainJob, CopyJob
  <2> QED
    BY <2>4, <2>5
<1> QED
  BY <1>1, <1>2

-----------------------------------------------------------------------------
(* The initial states, and one lemma per action or group of actions. *)

LEMMA InitIInv == Init => IInv
<1> SUFFICES ASSUME Init PROVE IInv
  OBVIOUS
<1> USE DEF Init, NewQueue, Idle, Job
<1>1. TypeOK
  BY ControllerAssumption DEF TypeOK, QueueType, JobType, Version
<1>2. Shape(wq)
  BY DEF Shape, Queued
<1>3. Holders
  BY DEF Holders, OneWorkerPerKey, Busy, At
<1>4. CacheFollows /\ CopiesCurrent /\ Covered
  BY DEF CacheFollows, CopiesCurrent, Covered, ComesBack, Needs
<1> QED
  BY <1>1, <1>2, <1>3, <1>4 DEF IInv

\* A version of a config is stored, by a user or with a new status: the copies
\* of that config are out of date, and a worker that was writing may leave.
LEMMA StoreKeepsIInv ==
    ASSUME IInv, NEW k \in Keys, NEW c \in Version,
           Store(k, c), UNCHANGED <<cache, wq, crashes>>,
           work' \in [Workers -> JobType],
           \A v \in Workers :
                /\ work'[v].key = work[v].key
                /\ work'[v].config = work[v].config
                /\ work'[v].current => work[v].current /\ work[v].key # k
                /\ \/ work'[v].pc = work[v].pc
                   \/ work'[v].pc = "leave" /\ work[v].pc = "write" /\ work[v].key = k
    PROVE  IInv'
<1> USE DEF IInv
<1>1. /\ watch[k] \in Seq(Version)
      /\ watch' = [watch EXCEPT ![k] = Append(watch[k], c)]
      /\ stored' = [stored EXCEPT ![k] = c]
  BY DEF TypeOK, Store
<1>2. /\ watch'[k] # <<>> /\ watch'[k] \in Seq(Version)
      /\ watch'[k][Len(watch'[k])] = c
  BY <1>1 DEF TypeOK
<1>3. \A j \in Keys : j # k => watch'[j] = watch[j] /\ stored'[j] = stored[j]
  BY <1>1 DEF TypeOK
<1>4. stored'[k] = c
  BY <1>1 DEF TypeOK
<1>5. \A v \in Workers : work[v].pc # "idle" => work[v].key \in Keys
  BY Jobs
<1>6. \A v \in Workers : work'[v].pc = "idle" <=> work[v].pc = "idle"
  OBVIOUS
<1>7. TypeOK'
  BY <1>1, <1>2 DEF TypeOK
<1>8. Holders'
  BY <1>6 DEF Holders, OneWorkerPerKey, Busy, At
<1>9. CacheFollows'
  BY <1>2, <1>3, <1>4 DEF CacheFollows
<1>10. CopiesCurrent'
  BY <1>3, <1>5 DEF CopiesCurrent
<1>11. Covered'
  <2>1. \A j \in Keys : ComesBack(j) => ComesBack(j)'
    BY <1>2, <1>3 DEF ComesBack, Needs
  <2>2. ComesBack(k)'
    BY <1>2 DEF ComesBack
  <2> QED
    BY <2>1, <2>2, <1>5 DEF Covered, Needs
<1> QED
  BY <1>7, <1>8, <1>9, <1>10, <1>11

LEMMA UserKeepsIInv ==
    ASSUME IInv, NEW k \in Keys, User(k)
    PROVE  IInv'
<1>1. /\ work' = Outdated(k)
      /\ UNCHANGED <<cache, wq, crashes>>
  BY DEF User, UserCreates, UserEdits, UserDeletes
<1>2. PICK c \in Version : Store(k, c)
  <2>1. CASE UserCreates(k)
    BY <2>1 DEF UserCreates, Version, Config
  <2>2. CASE UserEdits(k)
    <3>1. stored[k] \in Config
      BY <2>2 DEF UserEdits, IInv, TypeOK, Version
    <3>2. PICK enabled \in BOOLEAN :
              Store(k, [stored[k] EXCEPT !.gen = stored[k].gen + 1, !.enabled = enabled])
      BY <2>2 DEF UserEdits
    <3> DEFINE gen == stored[k].gen + 1
    <3>3. stored[k].gen \in Nat
      BY <3>1 DEF Config
    <3>4. gen \in Nat
      BY <3>3
    <3> HIDE DEF gen
    <3>5. [stored[k] EXCEPT !.gen = gen, !.enabled = enabled] \in Config
      BY <3>1, <3>4 DEF Config
    <3> QED
      BY <3>2, <3>5 DEF Version, gen
  <2>3. CASE UserDeletes(k)
    BY <2>3 DEF UserDeletes, Version
  <2> QED
    BY <2>1, <2>2, <2>3 DEF User
<1> QED
  BY <1>1, <1>2, OutdatedKeeps, StoreKeepsIInv DEF IInv

LEMMA UpdateStatusKeepsIInv ==
    ASSUME IInv, NEW w \in Workers, UpdateStatus(w)
    PROVE  IInv'
<1> DEFINE k == work[w].key
           c == [stored[k] EXCEPT !.phase = work[w].config.phase,
                                  !.observed = work[w].config.observed]
<1>1. /\ work[w].pc = "write" /\ k \in Keys /\ work[w] \in CopyJob /\ work[w].current
      /\ Store(k, c) /\ UNCHANGED <<cache, wq, crashes>>
  BY Jobs DEF UpdateStatus, At, Current, IInv
<1>2. stored[k] \in Config
  BY <1>1 DEF IInv, CopiesCurrent, TypeOK, Version
<1>3. c \in Version
  BY <1>1, <1>2 DEF CopyJob, Config, Version
<1> HIDE DEF c
<1>4. PICK lost \in BOOLEAN :
          work' = [Outdated(k) EXCEPT ![w] = [Outdated(k)[w] EXCEPT !.pc = "leave", !.failed = lost]]
  BY DEF UpdateStatus
<1> DEFINE job == [Outdated(k)[w] EXCEPT !.pc = "leave", !.failed = lost]
<1>5. /\ Outdated(k) \in [Workers -> JobType]
      /\ \A v \in Workers :
           /\ Outdated(k)[v].pc = work[v].pc
           /\ Outdated(k)[v].key = work[v].key
           /\ Outdated(k)[v].config = work[v].config
           /\ Outdated(k)[v].current => work[v].current /\ work[v].key # k
  BY <1>1, OutdatedKeeps DEF IInv
<1>6. Outdated(k)[w] = [work[w] EXCEPT !.current = FALSE]
  BY DEF Outdated
<1>7. /\ job \in PlainJob
      /\ job.pc = "leave" /\ job.key = k /\ job.config = work[w].config /\ job.current = FALSE
  BY <1>1, <1>6 DEF CopyJob, PlainJob, Version
<1> HIDE DEF job
<1>8. /\ work' = [Outdated(k) EXCEPT ![w] = job]
      /\ work' \in [Workers -> JobType]
      /\ work'[w] = job
      /\ \A v \in Workers : v # w => work'[v] = Outdated(k)[v]
  BY <1>4, <1>5, <1>7 DEF job, JobType
<1> QED
  BY <1>1, <1>3, <1>5, <1>7, <1>8, StoreKeepsIInv

LEMMA DeliverKeepsIInv ==
    ASSUME IInv, NEW k \in Keys, Deliver(k)
    PROVE  IInv'
<1> USE DEF IInv
<1>1. /\ watch[k] \in Seq(Version) /\ watch[k] # <<>>
      /\ watch' = [watch EXCEPT ![k] = Tail(watch[k])]
      /\ cache' = [cache EXCEPT ![k] = Head(watch[k])]
      /\ wq' = Add(wq, k)
      /\ stored' = stored /\ work' = work /\ crashes' = crashes
  BY DEF TypeOK, Deliver
<1>2. Head(watch[k]) \in Version /\ Tail(watch[k]) \in Seq(Version)
  BY <1>1, TailShifts
<1>3. /\ wq' \in Queues /\ Shape(wq')
      /\ wq'.dirty = wq.dirty \cup {k} /\ wq'.processing = wq.processing
      /\ wq'.waiting = wq.waiting /\ wq'.requeues = wq.requeues
  BY <1>1, QueueTyped, AddKeepsShape
<1>4. TypeOK'
  <2>1. wq' \in QueueType
    BY <1>3, QueueTyped, TypedQueue
  <2> QED
    BY <2>1, <1>1, <1>2 DEF TypeOK
<1>5. Holders'
  BY <1>1, <1>3 DEF Holders, OneWorkerPerKey, Busy, At
<1>6. CacheFollows'
  <2> SUFFICES ASSUME NEW j \in Keys
               PROVE  IF watch'[j] = <<>> THEN cache'[j] = stored'[j]
                      ELSE watch'[j][Len(watch'[j])] = stored'[j]
    BY DEF CacheFollows
  <2>1. CASE j # k
    BY <2>1, <1>1 DEF CacheFollows, TypeOK
  <2>2. CASE j = k
    <3>1. watch'[k] = Tail(watch[k]) /\ cache'[k] = Head(watch[k])
      BY <1>1 DEF TypeOK
    <3>2. watch[k][Len(watch[k])] = stored[k]
      BY <1>1 DEF CacheFollows
    <3>3. IF Tail(watch[k]) = <<>> THEN watch[k][Len(watch[k])] = Head(watch[k])
          ELSE Tail(watch[k])[Len(Tail(watch[k]))] = watch[k][Len(watch[k])]
      BY <1>1, TailKeepsLast
    <3> QED
      BY <2>2, <3>1, <3>2, <3>3, <1>1
  <2> QED
    BY <2>1, <2>2
<1>7. CopiesCurrent'
  BY <1>1 DEF CopiesCurrent
<1>8. Covered'
  BY <1>1, <1>3 DEF Covered, ComesBack, TypeOK
<1> QED
  BY <1>3, <1>4, <1>5, <1>6, <1>7, <1>8

LEMMA RelistKeepsIInv ==
    ASSUME IInv, NEW k \in Keys, Relist(k)
    PROVE  IInv'
<1> USE DEF IInv
<1> DEFINE missed == IF cache[k] = Absent /\ stored[k] = Absent THEN <<>> ELSE <<stored[k]>>
<1>1. /\ watch' = [watch EXCEPT ![k] = missed]
      /\ stored' = stored /\ cache' = cache /\ wq' = wq /\ work' = work /\ crashes' = crashes
  BY DEF Relist
<1>2. /\ missed \in Seq(Version)
      /\ missed = <<>> => cache[k] = stored[k] /\ stored[k] = Absent
      /\ missed # <<>> => missed[Len(missed)] = stored[k]
  BY DEF TypeOK
<1> HIDE DEF missed
<1>3. /\ watch'[k] = missed
      /\ \A j \in Keys : j # k => watch'[j] = watch[j]
  BY <1>1 DEF TypeOK
<1>4. TypeOK'
  BY <1>1, <1>2 DEF TypeOK
<1>5. Shape(wq') /\ Holders' /\ CopiesCurrent'
  BY <1>1 DEF Holders, OneWorkerPerKey, Busy, At, CopiesCurrent
<1>6. CacheFollows'
  BY <1>1, <1>2, <1>3 DEF CacheFollows
<1>7. Covered'
  <2>1. \A j \in Keys : ComesBack(j) => ComesBack(j)'
    BY <1>1, <1>2, <1>3 DEF ComesBack, Needs
  <2> QED
    BY <2>1, <1>1, Jobs DEF Covered
<1> QED
  BY <1>4, <1>5, <1>6, <1>7

\* Resync and the timers only change the queue, and leave the key dirty.
LEMMA ReaddKeepsIInv ==
    ASSUME IInv, NEW k \in Keys, wq' \in {Add(wq, k), Fire(wq, k)},
           UNCHANGED <<stored, watch, cache, work, crashes>>
    PROVE  IInv'
<1> USE DEF IInv
<1>1. /\ wq' \in Queues /\ Shape(wq')
      /\ wq'.dirty = wq.dirty \cup {k} /\ wq'.processing = wq.processing
      /\ wq'.requeues = wq.requeues
      /\ wq.waiting \ {k} \subseteq wq'.waiting
  <2>1. wq \in Queues /\ Shape(wq)
    BY QueueTyped
  <2>2. CASE wq' = Add(wq, k)
    BY <2>1, <2>2, AddKeepsShape
  <2>3. CASE wq' = Fire(wq, k)
    BY <2>1, <2>3, FireKeepsShape
  <2> QED
    BY <2>2, <2>3
<1>2. wq' \in QueueType
  <2>1. wq'.requeues \in [Keys -> 0..MaxRetries]
    BY <1>1, QueueTyped
  <2> QED
    BY <2>1, <1>1, TypedQueue
<1>3. TypeOK'
  BY <1>2 DEF TypeOK
<1>4. Holders'
  BY <1>1 DEF Holders, OneWorkerPerKey, Busy, At
<1>5. CacheFollows' /\ CopiesCurrent'
  BY DEF CacheFollows, CopiesCurrent
<1>6. Covered'
  <2>1. \A j \in Keys : ComesBack(j) => ComesBack(j)'
    BY <1>1 DEF ComesBack, Needs
  <2> QED
    BY <2>1, <1>1, Jobs DEF Covered
<1> QED
  BY <1>1, <1>3, <1>4, <1>5, <1>6

LEMMA GetKeepsIInv ==
    ASSUME IInv, NEW w \in Workers, Get(w)
    PROVE  IInv'
<1> USE DEF IInv
<1> DEFINE k == Head(wq.queue)
           job == Job("sync", k, Absent, FALSE, FALSE)
<1>1. /\ work[w].pc = "idle" /\ wq.queue # <<>> /\ wq' = Take(wq)
      /\ work' = [work EXCEPT ![w] = job]
      /\ stored' = stored /\ watch' = watch /\ cache' = cache /\ crashes' = crashes
  BY DEF Get, At, Becomes
<1>2. /\ k \in Keys \ wq.processing
      /\ wq' \in Queues /\ Shape(wq')
      /\ wq'.dirty = wq.dirty \ {k} /\ wq'.processing = wq.processing \cup {k}
      /\ wq'.waiting = wq.waiting /\ wq'.requeues = wq.requeues
  BY <1>1, QueueTyped, TakeKeepsShape
<1>3. /\ job \in JobType
      /\ job.pc = "sync" /\ job.key = k
  BY <1>2 DEF JobType, PlainJob, Job, Version
<1> HIDE DEF job, k
<1>4. /\ work'[w] = job
      /\ \A v \in Workers : v # w => work'[v] = work[v]
  BY <1>1 DEF TypeOK
<1>5. TypeOK'
  <2>1. wq' \in QueueType
    BY <1>2, QueueTyped, TypedQueue
  <2> QED
    BY <2>1, <1>1, <1>3 DEF TypeOK
<1>6. Holders'
  <2>1. \A v \in Workers : v # w => (work[v].pc # "idle" => work[v].key # k)
    BY <1>2 DEF Holders, Busy, At
  <2>2. \A v \in Workers : work'[v].pc # "idle" => work'[v].key \in wq'.processing
    BY <1>2, <1>3, <1>4 DEF Holders, Busy, At
  <2>3. \A j \in wq'.processing : \E v \in Workers : work'[v].pc # "idle" /\ work'[v].key = j
    <3>1. \A j \in wq.processing : \E v \in Workers :
              v # w /\ work'[v].pc # "idle" /\ work'[v].key = j
      BY <1>1, <1>4 DEF Holders, Busy, At
    <3>2. work'[w].pc # "idle" /\ work'[w].key = k
      BY <1>3, <1>4
    <3> QED
      BY <1>2, <3>1, <3>2
  <2>4. OneWorkerPerKey'
    <3>1. \A v \in Workers : v # w => work[v].key # k
      BY <2>1, <1>2, Jobs, ControllerAssumption
    <3>2. \A v \in Workers : v # w => work'[v] = work[v] /\ work'[w].key = k
      BY <1>3, <1>4
    <3> QED
      BY <3>1, <3>2 DEF Holders, OneWorkerPerKey, Busy, At
  <2> QED
    BY <2>2, <2>3, <2>4 DEF Holders, Busy, At
<1>7. CacheFollows' /\ CopiesCurrent'
  BY <1>1, <1>3, <1>4 DEF CacheFollows, CopiesCurrent
<1>8. Covered'
  <2>1. \A j \in Keys : j # k => (ComesBack(j) => ComesBack(j)')
    BY <1>1, <1>2 DEF ComesBack, Needs
  <2>2. \A v \in Workers : v # w => (work[v].pc # "idle" => work[v].key # k)
    BY <1>2 DEF Holders, Busy, At
  <2> QED
    BY <2>1, <2>2, <1>2, <1>3, <1>4, Jobs DEF Covered
<1> QED
  BY <1>2, <1>5, <1>6, <1>7, <1>8

\* A worker goes on with the same key, and the queue keeps its shape: the
\* parts of the invariant that are not about types then only depend on what
\* the new job is.
LEMMA GoesOnKeepsIInv ==
    ASSUME IInv, NEW w \in Workers, NEW job \in JobType,
           work[w].pc # "idle", job.pc # "idle", job.key = work[w].key,
           work' = [work EXCEPT ![w] = job],
           wq' \in {wq, AddAfter(wq, job.key)},
           UNCHANGED <<stored, watch, cache, crashes>>,
           (job.pc \in {"reconcile", "write"} /\ job.current) =>
                /\ stored[job.key] # Absent
                /\ job.config.gen = stored[job.key].gen
                /\ job.config.observed \in {stored[job.key].observed, stored[job.key].gen},
           (job.pc \in {"write", "leave"}
                \/ (job.pc = "reconcile" /\ ~Needs(job.config)))
              => ComesBack(job.key) \/ wq' = AddAfter(wq, job.key)
    PROVE  IInv'
<1> USE DEF IInv
<1> DEFINE k == job.key
<1>1. k \in Keys
  BY Jobs
<1>2. /\ wq' \in Queues /\ Shape(wq')
      /\ wq'.dirty = wq.dirty /\ wq'.processing = wq.processing
      /\ wq.waiting \subseteq wq'.waiting /\ wq'.requeues = wq.requeues
      /\ wq' = AddAfter(wq, k) => k \in wq'.waiting
  <2>1. AddAfter(wq, k).requeues = wq.requeues /\ k \in AddAfter(wq, k).waiting
    BY QueueTyped DEF AddAfter, Queues
  <2> QED
    BY <1>1, <2>1, QueueTyped, TimersKeepShape
<1>3. /\ work'[w] = job
      /\ \A v \in Workers : v # w => work'[v] = work[v]
  BY DEF TypeOK
<1>4. TypeOK'
  <2>1. wq' \in QueueType
    BY <1>2, QueueTyped, TypedQueue
  <2> QED
    BY <2>1 DEF TypeOK
<1>5. Holders'
  BY <1>2, <1>3 DEF Holders, OneWorkerPerKey, Busy, At
<1>6. CacheFollows'
  BY DEF CacheFollows
<1>7. CopiesCurrent'
  BY <1>3 DEF CopiesCurrent
<1>8. Covered'
  <2>1. \A j \in Keys : ComesBack(j) => ComesBack(j)'
    BY <1>2 DEF ComesBack, Needs
  <2>2. wq' = AddAfter(wq, k) => ComesBack(k)'
    BY <1>2 DEF ComesBack
  <2> QED
    BY <2>1, <2>2, <1>1, <1>2, <1>3, Jobs DEF Covered
<1> QED
  BY <1>2, <1>4, <1>5, <1>6, <1>7, <1>8

LEMMA FindsKeepsIInv ==
    ASSUME IInv, NEW w \in Workers, FindsNone(w) \/ FindsConfig(w)
    PROVE  IInv'
<1> USE DEF IInv
<1> DEFINE k == work[w].key
<1>1. work[w].pc = "sync" /\ k \in Keys /\ k # NoKey
  BY Jobs, ControllerAssumption DEF FindsNone, FindsConfig, At
<1>2. watch[k] = <<>> => cache[k] = stored[k]
  BY <1>1 DEF CacheFollows
<1>3. CASE FindsNone(w)
  <2> DEFINE job == [work[w] EXCEPT !.pc = "leave", !.failed = FALSE]
  <2>2. work[w] \in PlainJob
    BY <1>1, Jobs
  <2>3. /\ job \in PlainJob
        /\ job.pc = "leave" /\ job.key = k
    BY <2>2 DEF PlainJob
  <2>4. job \in JobType
    BY <2>3 DEF JobType
  <2>5. ComesBack(k)
    BY <1>2, <1>3 DEF FindsNone, ComesBack, Needs
  <2>6. /\ work' = [work EXCEPT ![w] = job]
        /\ wq' = wq /\ UNCHANGED <<stored, watch, cache, crashes>>
    BY <1>3 DEF FindsNone, Leave, Becomes
  <2> HIDE DEF job
  <2> QED
    BY <1>1, <2>3, <2>4, <2>5, <2>6, GoesOnKeepsIInv
<1>4. CASE FindsConfig(w)
  <2> DEFINE job == Job("reconcile", k, cache[k], watch[k] = <<>>, FALSE)
  <2>1. cache[k] \in Config
    BY <1>1, <1>4 DEF FindsConfig, TypeOK, Version
  <2>2. /\ job \in JobType
        /\ job.pc = "reconcile" /\ job.key = k /\ job.config = cache[k]
        /\ job.current <=> watch[k] = <<>>
    BY <1>1, <2>1 DEF JobType, CopyJob, Job
  <2>3. /\ work' = [work EXCEPT ![w] = job]
        /\ wq' = wq /\ UNCHANGED <<stored, watch, cache, crashes>>
        /\ cache[k] # Absent
    BY <1>4 DEF FindsConfig, Becomes
  <2> HIDE DEF job
  <2>4. job.current => stored[k] = cache[k]
    BY <1>2, <2>2
  <2>5. ~Needs(job.config) => ComesBack(k)
    BY <1>2, <2>2 DEF ComesBack
  <2> QED
    BY <1>1, <2>2, <2>3, <2>4, <2>5, GoesOnKeepsIInv
<1> QED
  BY <1>3, <1>4

\* A pass leaves the copy as c: with a requeue, or of a config that asks for
\* nothing.
LEMMA EndPassKeepsIInv ==
    ASSUME IInv, NEW w \in Workers, At(w, "reconcile"),
           NEW c \in Config, c.gen = work[w].config.gen,
           c.observed \in {work[w].config.observed, work[w].config.gen},
           NEW requeue \in BOOLEAN, NEW changed \in BOOLEAN,
           ~requeue => ~Needs(work[w].config),
           EndPass(w, c, requeue, changed)
    PROVE  IInv'
<1> USE DEF IInv
<1> DEFINE k == work[w].key
           pc == IF changed THEN "write" ELSE "leave"
           job == [work[w] EXCEPT !.config = c, !.pc = pc]
<1>1. work[w].pc = "reconcile" /\ k \in Keys
  BY Jobs DEF At
<1>2. work[w] \in CopyJob
  BY <1>1, Jobs
<1>3. pc \in {"write", "leave"}
  OBVIOUS
<1>4. /\ work' = [work EXCEPT ![w] = job]
      /\ wq' = IF requeue THEN AddAfter(wq, k) ELSE wq
      /\ UNCHANGED <<stored, watch, cache, crashes>>
  BY DEF EndPass, Becomes
<1> HIDE DEF pc
<1>5. /\ job \in PlainJob \cup CopyJob
      /\ job.pc = pc /\ job.key = k /\ job.config = c /\ job.current = work[w].current
  <2>1. CASE pc = "write"
    BY <2>1, <1>2 DEF CopyJob
  <2>2. CASE pc = "leave"
    BY <2>2, <1>2 DEF CopyJob, PlainJob, Version
  <2> QED
    BY <2>1, <2>2, <1>3
<1>6. job \in JobType
  BY <1>5 DEF JobType
<1> HIDE DEF job
<1>7. work[w].current => /\ stored[k] # Absent
                         /\ c.gen = stored[k].gen
                         /\ c.observed \in {stored[k].observed, stored[k].gen}
  BY <1>1 DEF CopiesCurrent
<1>8. ComesBack(k) \/ wq' = AddAfter(wq, k)
  BY <1>1, <1>4 DEF Covered
<1> QED
  BY <1>1, <1>3, <1>4, <1>5, <1>6, <1>7, <1>8, GoesOnKeepsIInv

LEMMA PassKeepsIInv ==
    ASSUME IInv, NEW w \in Workers, Pass(w)
    PROVE  IInv'
<1> DEFINE d == work[w].config
<1>1. At(w, "reconcile") /\ d \in Config
  BY Jobs DEF IInv, Pass, PassDisabled, PassInitializes, PassRefused, PassOutsideWindow,
              PassCompletes, AtGates, At
<1>2. CASE PassDisabled(w)
  <2> DEFINE c == [d EXCEPT !.phase = "Paused"]
  <2>1. /\ c \in Config /\ c.gen = d.gen /\ c.observed = d.observed
        /\ (c # d) \in BOOLEAN
    BY <1>1 DEF Config
  <2>2. ~Needs(d) /\ EndPass(w, c, FALSE, c # d)
    BY <1>2 DEF PassDisabled, Needs
  <2> HIDE DEF c
  <2> QED
    BY <1>1, <2>1, <2>2, EndPassKeepsIInv
<1>3. CASE PassInitializes(w)
  <2> DEFINE c == [d EXCEPT !.phase = "Pending"]
  <2>1. c \in Config /\ c.gen = d.gen /\ c.observed = d.observed
    BY <1>1 DEF Config
  <2>2. ~Needs(d) /\ EndPass(w, c, FALSE, TRUE)
    BY <1>3 DEF PassInitializes, Needs
  <2> HIDE DEF c
  <2> QED
    BY <1>1, <2>1, <2>2, EndPassKeepsIInv
<1>4. CASE PassRefused(w)
  <2> DEFINE c == [d EXCEPT !.phase = "CircuitOpen"]
  <2>1. /\ c \in Config /\ c.gen = d.gen /\ c.observed = d.observed
        /\ (c # d) \in BOOLEAN
    BY <1>1 DEF Config
  <2>2. EndPass(w, c, TRUE, c # d)
    BY <1>4 DEF PassRefused
  <2> HIDE DEF c
  <2> QED
    BY <1>1, <2>1, <2>2, EndPassKeepsIInv
<1>5. CASE PassOutsideWindow(w)
  <2>1. PICK changed \in BOOLEAN : EndPass(w, d, TRUE, changed)
    BY <1>5 DEF PassOutsideWindow
  <2> QED
    BY <1>1, <2>1, EndPassKeepsIInv
<1>6. CASE PassCompletes(w)
  <2> DEFINE c == [d EXCEPT !.phase = "Active", !.observed = d.gen]
  <2>1. c \in Config /\ c.gen = d.gen /\ c.observed = d.gen
    BY <1>1 DEF Config
  <2>2. EndPass(w, c, TRUE, TRUE)
    BY <1>6 DEF PassCompletes
  <2> HIDE DEF c
  <2> QED
    BY <1>1, <2>1, <2>2, EndPassKeepsIInv
<1> QED
  BY <1>2, <1>3, <1>4, <1>5, <1>6 DEF Pass

LEMMA UpdateStatusFailsKeepsIInv ==
    ASSUME IInv, NEW w \in Workers, UpdateStatusFails(w)
    PROVE  IInv'
<1> DEFINE k == work[w].key
           job == [work[w] EXCEPT !.pc = "leave", !.failed = TRUE]
<1>1. work[w].pc = "write" /\ k \in Keys /\ work[w] \in CopyJob
  BY Jobs DEF UpdateStatusFails, At, IInv
<1>2. /\ job \in PlainJob /\ job.pc = "leave" /\ job.key = k
  BY <1>1 DEF CopyJob, PlainJob, Version
<1>3. /\ work' = [work EXCEPT ![w] = job]
      /\ wq' = wq /\ UNCHANGED <<stored, watch, cache, crashes>>
  BY DEF UpdateStatusFails, Leave, Becomes
<1> HIDE DEF job
<1>4. job \in JobType
  BY <1>2 DEF JobType
<1>5. ComesBack(k)
  BY <1>1 DEF IInv, Covered
<1> QED
  BY <1>1, <1>2, <1>3, <1>4, <1>5, GoesOnKeepsIInv

\* The worker lets go of its key, which Covered says comes back by itself.
LEMMA FinishKeepsIInv ==
    ASSUME IInv, NEW w \in Workers, Finish(w)
    PROVE  IInv'
<1> USE DEF IInv
<1> DEFINE k == work[w].key
           q == HandleErr(wq, k, work[w].failed)
<1>1. /\ work[w].pc = "leave" /\ k \in Keys /\ k \in wq.processing
      /\ wq' = Done(q, k)
      /\ work' = [work EXCEPT ![w] = Idle]
      /\ stored' = stored /\ watch' = watch /\ cache' = cache /\ crashes' = crashes
  BY Jobs DEF Finish, At, Becomes, Holders, Busy
<1>2. wq \in Queues /\ wq.requeues \in [Keys -> 0..MaxRetries]
  BY QueueTyped
<1>3. q \in {AddRateLimited(wq, k), Forget(wq, k)}
  BY DEF HandleErr
<1>4. q.requeues \in [Keys -> 0..MaxRetries]
  <2>1. CASE work[w].failed /\ wq.requeues[k] < MaxRetries
    <3>1. q = AddRateLimited(wq, k)
      BY <2>1 DEF HandleErr
    <3>2. q.requeues = [wq.requeues EXCEPT ![k] = wq.requeues[k] + 1]
      BY <3>1, <1>2 DEF AddRateLimited, AddAfter, Queues
    <3>3. wq.requeues[k] + 1 \in 0..MaxRetries
      BY <2>1, <1>1, <1>2, ControllerAssumption
    <3> QED
      BY <3>2, <3>3, <1>2
  <2>2. CASE ~(work[w].failed /\ wq.requeues[k] < MaxRetries)
    <3>1. q = Forget(wq, k)
      BY <2>2 DEF HandleErr
    <3>2. q.requeues = [wq.requeues EXCEPT ![k] = 0]
      BY <3>1, <1>2 DEF Forget, Queues
    <3>3. 0 \in 0..MaxRetries
      BY ControllerAssumption
    <3> QED
      BY <3>2, <3>3, <1>2
  <2> QED
    BY <2>1, <2>2
<1> HIDE DEF q
<1>5. /\ q \in Queues /\ Shape(q)
      /\ q.dirty = wq.dirty /\ q.processing = wq.processing
      /\ wq.waiting \subseteq q.waiting
  BY <1>1, <1>2, <1>3, TimersKeepShape
<1>6. /\ wq' \in Queues /\ Shape(wq')
      /\ wq'.dirty = wq.dirty /\ wq'.processing = wq.processing \ {k}
      /\ wq.waiting \subseteq wq'.waiting
      /\ wq'.requeues = q.requeues
  BY <1>1, <1>5, DoneKeepsShape
<1>7. /\ work'[w] = Idle /\ work'[w].pc = "idle" /\ work'[w].key = NoKey
      /\ \A v \in Workers : v # w => work'[v] = work[v]
  BY <1>1 DEF TypeOK, Idle, Job
<1>8. TypeOK'
  <2>1. wq' \in QueueType
    BY <1>4, <1>6, TypedQueue
  <2> QED
    BY <2>1, <1>1 DEF TypeOK, JobType
<1>9. \A v \in Workers : v # w => work[v].key # k
  BY <1>1 DEF Holders, OneWorkerPerKey, Busy, At
<1>10. Holders'
  <2>1. \A v \in Workers : work'[v].pc # "idle" => work'[v].key \in wq'.processing
    BY <1>6, <1>7, <1>9 DEF Holders, Busy, At
  <2>2. \A j \in wq'.processing : \E v \in Workers : work'[v].pc # "idle" /\ work'[v].key = j
    <3> SUFFICES ASSUME NEW j \in wq.processing, j # k
                 PROVE  \E v \in Workers : work'[v].pc # "idle" /\ work'[v].key = j
      BY <1>6
    <3>1. PICK v \in Workers : work[v].pc # "idle" /\ work[v].key = j
      BY DEF Holders, Busy, At
    <3> QED
      BY <3>1, <1>7
  <2>3. OneWorkerPerKey'
    <3> SUFFICES ASSUME NEW u \in Workers, NEW v \in Workers,
                        work'[u].pc # "idle", work'[u].key = work'[v].key
                 PROVE  u = v
      BY DEF OneWorkerPerKey, Busy, At
    <3>1. u # w /\ work[u].pc # "idle" /\ work'[u] = work[u] /\ work[u].key \in Keys
      BY <1>7, Jobs
    <3>2. v # w
      BY <3>1, <1>7, ControllerAssumption
    <3> QED
      BY <3>1, <3>2, <1>7 DEF Holders, OneWorkerPerKey, Busy, At
  <2> QED
    BY <2>1, <2>2, <2>3 DEF Holders, Busy, At
<1>11. CacheFollows' /\ CopiesCurrent'
  BY <1>1, <1>7 DEF CacheFollows, CopiesCurrent
<1>12. Covered'
  <2>1. \A j \in Keys : ComesBack(j) => ComesBack(j)'
    BY <1>1, <1>6 DEF ComesBack, Needs
  <2>2. ComesBack(k)
    BY <1>1 DEF Covered
  <2>3. \A j \in Keys : ComesBack(j)' \/ j \in wq'.processing
    BY <2>1, <2>2, <1>6 DEF Covered
  <2> QED
    BY <2>1, <2>3, <1>7, Jobs DEF Covered
<1> QED
  BY <1>6, <1>8, <1>10, <1>11, <1>12

LEMMA RestartKeepsIInv ==
    ASSUME IInv, Restart
    PROVE  IInv'
<1> USE DEF IInv, Restart
<1>1. \A k \in Keys :
          /\ stored[k] = Absent => watch'[k] = <<>>
          /\ stored[k] # Absent => watch'[k] = <<stored[k]>> /\ watch'[k] # <<>>
  OBVIOUS
<1>2. \A w \in Workers : work'[w] = Idle /\ work'[w].pc = "idle"
  BY DEF Idle, Job
<1>3. TypeOK'
  <2>1. wq' \in QueueType
    BY ControllerAssumption DEF QueueType, NewQueue
  <2>2. watch' \in [Keys -> Seq(Version)]
    BY DEF TypeOK
  <2> QED
    BY <2>1, <2>2 DEF TypeOK, Version, JobType
<1>4. Shape(wq') /\ wq'.processing = {}
  BY DEF Shape, Queued, NewQueue
<1>5. Holders'
  BY <1>2, <1>4 DEF Holders, OneWorkerPerKey, Busy, At
<1>6. CacheFollows'
  BY <1>1 DEF CacheFollows
<1>7. CopiesCurrent'
  BY <1>2 DEF CopiesCurrent
<1>8. Covered'
  BY <1>1, <1>2 DEF Covered, ComesBack, Needs
<1> QED
  BY <1>3, <1>4, <1>5, <1>6, <1>7, <1>8

LEMMA NextIInv == IInv /\ [Next]_vars => IInv'
<1> SUFFICES ASSUME IInv, [Next]_vars PROVE IInv'
  OBVIOUS
<1>1. ASSUME NEW k \in Keys, User(k) PROVE IInv'
  BY <1>1, UserKeepsIInv
<1>2. ASSUME NEW k \in Keys, Informer(k) PROVE IInv'
  <2>1. CASE Deliver(k)
    BY <2>1, DeliverKeepsIInv
  <2>2. CASE Relist(k)
    BY <2>2, RelistKeepsIInv
  <2>3. CASE Resync(k)
    BY <2>3, ReaddKeepsIInv DEF Resync
  <2>4. CASE TimerFires(k)
    BY <2>4, ReaddKeepsIInv DEF TimerFires
  <2> QED
    BY <1>2, <2>1, <2>2, <2>3, <2>4 DEF Informer
<1>3. ASSUME NEW w \in Workers, Worker(w) PROVE IInv'
  <2>1. CASE Get(w)
    BY <2>1, GetKeepsIInv
  <2>2. CASE FindsNone(w) \/ FindsConfig(w)
    BY <2>2, FindsKeepsIInv
  <2>3. CASE Pass(w)
    BY <2>3, PassKeepsIInv
  <2>4. CASE UpdateStatus(w)
    BY <2>4, UpdateStatusKeepsIInv
  <2>5. CASE UpdateStatusFails(w)
    BY <2>5, UpdateStatusFailsKeepsIInv
  <2>6. CASE Finish(w)
    BY <2>6, FinishKeepsIInv
  <2> QED
    BY <1>3, <2>1, <2>2, <2>3, <2>4, <2>5, <2>6 DEF Worker
<1>4. CASE Restart
  BY <1>4, RestartKeepsIInv
<1>5. CASE UNCHANGED vars
  <2> USE <1>5 DEF vars
  <2>1. TypeOK' /\ Shape(wq') /\ CacheFollows' /\ CopiesCurrent'
    BY DEF IInv, TypeOK, CacheFollows, CopiesCurrent
  <2>2. Holders'
    BY DEF IInv, Holders, OneWorkerPerKey, Busy, At
  <2>3. Covered'
    BY DEF IInv, Covered, ComesBack, Needs
  <2> QED
    BY <2>1, <2>2, <2>3 DEF IInv
<1> QED
  BY <1>1, <1>2, <1>3, <1>4, <1>5 DEF Next

-----------------------------------------------------------------------------
(* The theorems. *)

\* The inductive invariant holds in every behaviour (optimizer_controller.go:
\* 66-200, the informer's handlers, the workers and handleErr).
THEOREM Invariance == Spec => []IInv
<1>1. Init => IInv
  BY InitIInv
<1>2. IInv /\ [Next]_vars => IInv'
  BY NextIInv
<1> QED
  BY <1>1, <1>2, PTL DEF Spec

\* Every variable keeps its type: the failure counts, too, stay within the
\* retries of handleErr (optimizer_controller.go:191).
THEOREM TypeCorrect == Spec => []TypeOK
<1>1. IInv => TypeOK
  BY DEF IInv
<1> QED
  BY <1>1, Invariance, PTL

\* No two workers ever work on one config (optimizer_controller.go:127-137).
THEOREM Exclusion == Spec => []OneWorkerPerKey
<1>1. IInv => OneWorkerPerKey
  BY DEF IInv, Holders
<1> QED
  BY <1>1, Invariance, PTL

\* An enabled config that has a phase always has a timer, a watch event, a
\* place in the queue or a worker (optimizer_controller.go:171-200).
THEOREM Attendance == Spec => []NeverForgotten
<1>1. IInv => NeverForgotten
  <2> SUFFICES ASSUME IInv, NEW k \in Keys, Needs(stored[k])
               PROVE  Attended(k)
    BY DEF NeverForgotten
  <2> USE DEF IInv
  <2>1. CASE k \in wq.processing
    BY <2>1 DEF Holders, Attended
  <2>2. CASE k \notin wq.processing
    <3>1. ComesBack(k)
      BY <2>2 DEF Covered
    <3>2. k \in wq.dirty => Queued(wq, k)
      BY <2>2 DEF Shape
    <3> QED
      BY <3>1, <3>2 DEF ComesBack, Attended
  <2> QED
    BY <2>1, <2>2
<1> QED
  BY <1>1, Invariance, PTL

\* The step of the next theorem: only UpdateStatus changes the observed
\* generation of a config that stays.
LEMMA ObservesCurrent ==
    ASSUME IInv, Next, NEW k \in Keys, stored[k] # Absent, stored'[k] # Absent,
           stored'[k].observed # stored[k].observed
    PROVE  stored'[k].observed = stored'[k].gen
<1> USE DEF IInv
<1>1. stored[k] \in Config
  BY DEF TypeOK, Version
<1>2. ASSUME NEW j \in Keys, User(j) PROVE FALSE
  <2>1. CASE UserCreates(j)
    BY <2>1 DEF UserCreates, Store, TypeOK
  <2>2. CASE UserEdits(j)
    <3>1. PICK enabled \in BOOLEAN :
              stored' = [stored EXCEPT ![j] = [stored[j] EXCEPT !.gen = stored[j].gen + 1,
                                                                !.enabled = enabled]]
      BY <2>2 DEF UserEdits, Store
    <3>2. stored'[k].observed = stored[k].observed
      BY <3>1, <1>1 DEF Config, TypeOK
    <3> QED
      BY <3>2
  <2>3. CASE UserDeletes(j)
    BY <2>3 DEF UserDeletes, Store, TypeOK
  <2> QED
    BY <1>2, <2>1, <2>2, <2>3 DEF User
<1>3. ASSUME stored' = stored PROVE FALSE
  BY <1>3
<1>4. ASSUME NEW w \in Workers, UpdateStatus(w)
      PROVE  stored'[k].observed = stored'[k].gen
  <2> DEFINE c == stored[work[w].key]
             d == work[w].config
  <2>1. /\ work[w].key \in Keys /\ c \in Config
        /\ d.observed \in {c.observed, c.gen}
    BY <1>4, Jobs DEF UpdateStatus, At, Current, CopiesCurrent, TypeOK, Version
  <2>2. stored' = [stored EXCEPT ![work[w].key] =
                      [c EXCEPT !.phase = d.phase, !.observed = d.observed]]
    BY <1>4 DEF UpdateStatus, Store
  <2>3. k = work[w].key
    BY <2>2 DEF TypeOK
  <2>4. stored'[k] = [c EXCEPT !.phase = d.phase, !.observed = d.observed]
    BY <2>2, <2>3 DEF TypeOK
  <2>5. stored'[k].observed = d.observed /\ stored'[k].gen = c.gen
    BY <2>1, <2>4 DEF Config
  <2> QED
    BY <2>1, <2>3, <2>5
<1>5. CASE \E w \in Workers : Worker(w)
  BY <1>3, <1>4, <1>5 DEF Worker, Get, FindsNone, FindsConfig, Pass, PassDisabled,
      PassInitializes, PassRefused, PassOutsideWindow, PassCompletes, EndPass,
      UpdateStatusFails, Finish
<1>6. CASE \E j \in Keys : Informer(j)
  BY <1>3, <1>6 DEF Informer, Deliver, Relist, Resync, TimerFires
<1>7. CASE Restart
  BY <1>3, <1>7 DEF Restart
<1> QED
  BY <1>2, <1>5, <1>6, <1>7 DEF Next

\* Whatever the lag of the cache, and across deletion and restart, a status
\* write that changes the observed generation sets it to the generation stored
\* at that moment (optimizer_controller.go:145-178, reconciler.go:178).
THEOREM Observation == Spec => ObservedIsCurrent
<1>1. IInv /\ [Next]_vars =>
        [\A k \in Keys :
            (stored[k] # Absent /\ stored'[k] # Absent /\ stored'[k].observed # stored[k].observed)
                => stored'[k].observed = stored'[k].gen]_vars
  BY ObservesCurrent
<1> QED
  BY <1>1, Invariance, PTL DEF Spec, ObservedIsCurrent
=============================================================================
