---------------------------- MODULE BackgroundProofs ----------------------------
(***************************************************************************)
(* Proofs about the background work, for any number of workers, jobs,      *)
(* items and files: no job is lost or doubled, no wake-up is lost, and     *)
(* nothing is scheduled once the pool is told to stop; the trash and the   *)
(* daemon's timers stay consistent.                                        *)
(***************************************************************************)
EXTENDS Background, FiniteSetTheorems, WellFoundedInduction, TLAPS

Busy == {"handle", "push", "send"}
Awake == {"top", "pop", "woken"}

(* A worker holds a job exactly between Pop and the end of processJob, and   *)
(* the workers run exactly when the manager has been started.                *)
WorkersOK ==
  \A w \in Workers : /\ job[w] # NoJob <=> pc[w] \in Busy
                     /\ pc[w] = "new" <=> stop = "off"

(* A job is in one place at a time: in the queue once, with one worker, or   *)
(* reported.                                                                 *)
OnePlace ==
  /\ IsInjective(queue) /\ ToSet(queue) \cap reported = {}
  /\ \A w \in Workers : job[w] \in Jobs => job[w] \notin ToSet(queue) \cup reported
  /\ \A w, v \in Workers : job[w] = job[v] /\ job[w] \in Jobs => w = v

Held == {job[w] : w \in {v \in Workers : job[v] \in Jobs}}

(* Nothing that was submitted is lost, and the scheduler is gone before the  *)
(* pool is stopped.                                                          *)
NoneLost == submitted = ToSet(queue) \cup reported \cup Held
SchedulerFirst == PoolCancelled => sched = "gone"

AwakeIn(at) == {w \in Workers : at[w] \in Awake}

PoolIInv ==
  TypeOK /\ WorkersOK /\ OnePlace /\ NoneLost /\ QueueOrdered /\ SchedulerFirst /\ NoLostWakeup

(***************************************************************************)
(* The daemon.                                                             *)
(***************************************************************************)

TimerRec == [path : Local, pc : {"set", "upload", "forget", "done"}, read : Nat]
EventRec == [op : {"create", "write", "remove", "directory"}, path : Local \cup {"nested"}]
Uploads == {"create", "write"}

(* Events that are yet to set a timer.                                       *)
Pending(s) == {i \in 1..Len(s) : s[i].op \in Uploads}

DaemonTypes ==
  /\ disk \in [Local -> 0..MaxChanges] /\ changes \in 0..MaxChanges
  /\ timer \in Seq(TimerRec) /\ debounce \in [Local -> 0..Len(timer)]
  /\ events \in Seq(EventRec)
  /\ \A i \in 1..Len(events) : events[i].op \in Uploads => events[i].path \in Local

(* There are no more timers than changes that have been seen.                *)
TimersCounted == Len(timer) + Cardinality(Pending(events)) <= changes

(* The timer of the map is the latest one of its file.                       *)
LatestInMap ==
  \A p \in Local : debounce[p] # 0 =>
    /\ timer[debounce[p]].path = p
    /\ \A t \in 1..Len(timer) : timer[t].path = p => t <= debounce[p]

DaemonIInv == DaemonTypes /\ TimersCounted /\ LatestInMap /\ TimersKnown

BackgroundIInv ==
  /\ part \in {"jobs", "trash", "daemon"}
  /\ PoolIInv /\ TrashTypeOK /\ DaemonIInv

-----------------------------------------------------------------------------
(* Sequences.                                                               *)

LEMMA AppendFacts ==
  ASSUME NEW S, NEW s \in Seq(S), NEW e \in S
  PROVE  /\ Append(s, e) \in Seq(S) /\ Len(Append(s, e)) = Len(s) + 1
         /\ ToSet(Append(s, e)) = ToSet(s) \cup {e}
<1> DEFINE t == Append(s, e)
<1>1. /\ t \in Seq(S) /\ Len(t) = Len(s) + 1 /\ Len(s) \in Nat
      /\ t[Len(s) + 1] = e /\ \A i \in 1..Len(s) : t[i] = s[i]
  OBVIOUS
<1>2. DOMAIN s = 1..Len(s) /\ DOMAIN t = 1..(Len(s) + 1) BY <1>1
<1> HIDE DEF t
<1>3. ToSet(t) \subseteq ToSet(s) \cup {e}
  <2> SUFFICES ASSUME NEW i \in DOMAIN t PROVE t[i] \in ToSet(s) \cup {e} BY DEF ToSet
  <2>1. i \in 1..Len(s) \/ i = Len(s) + 1 BY <1>1, <1>2
  <2> QED BY <2>1, <1>1, <1>2 DEF ToSet
<1>4. ToSet(s) \cup {e} \subseteq ToSet(t)
  <2>1. \A i \in 1..Len(s) : i \in DOMAIN t /\ t[i] = s[i] BY <1>1, <1>2
  <2>2. Len(s) + 1 \in DOMAIN t BY <1>1, <1>2
  <2> QED BY <2>1, <2>2, <1>1, <1>2 DEF ToSet
<1> QED BY <1>1, <1>3, <1>4 DEF t

LEMMA TailFacts ==
  ASSUME NEW S, NEW s \in Seq(S), s # <<>>
  PROVE  /\ Head(s) \in ToSet(s) /\ Head(s) \in S
         /\ Tail(s) \in Seq(S) /\ Len(Tail(s)) = Len(s) - 1 /\ Len(s) \in Nat
         /\ ToSet(Tail(s)) \subseteq ToSet(s)
BY DEF ToSet

LEMMA ConcatFacts ==
  ASSUME NEW S, NEW s \in Seq(S), NEW t \in Seq(S)
  PROVE  s \o t \in Seq(S) /\ Len(s \o t) = Len(s) + Len(t)
OBVIOUS

LEMMA RemoveFacts ==
  ASSUME NEW S, NEW s \in Seq(S), IsInjective(s), NEW i \in 1..Len(s)
  PROVE  /\ RemoveAt(s, i) \in Seq(S) /\ IsInjective(RemoveAt(s, i))
         /\ ToSet(RemoveAt(s, i)) = ToSet(s) \ {s[i]}
<1> DEFINE t == RemoveAt(s, i)
           n == Len(s)
<1>1. /\ t \in Seq(S) /\ Len(t) = n - 1 /\ n \in Nat \ {0}
      /\ \A j \in 1..(n - 1) : t[j] = IF j < i THEN s[j] ELSE s[j + 1]
  <2> DEFINE a == SubSeq(s, 1, i - 1)
             b == SubSeq(s, i + 1, n)
  <2>1. n \in Nat \ {0} /\ i \in Nat OBVIOUS
  <2>2. a \in Seq(S) /\ Len(a) = i - 1 /\ \A j \in 1..(i - 1) : a[j] = s[j] BY <2>1
  <2>3. b \in Seq(S) /\ Len(b) = n - i /\ \A j \in 1..(n - i) : b[j] = s[i + j] BY <2>1
  <2>4. t = a \o b BY DEF RemoveAt
  <2> HIDE DEF a, b
  <2>5. t \in Seq(S) /\ Len(t) = n - 1 BY <2>1, <2>2, <2>3, <2>4
  <2>6. ASSUME NEW j \in 1..(n - 1) PROVE t[j] = IF j < i THEN s[j] ELSE s[j + 1]
    <3>1. CASE j < i BY <2>1, <2>2, <2>3, <2>4, <3>1
    <3>2. CASE ~(j < i)
      <4>1. j - (i - 1) \in 1..(n - i) /\ i + (j - (i - 1)) = j + 1 BY <2>1, <3>2
      <4>2. j \in 1..(Len(a) + Len(b)) /\ ~(j <= Len(a)) BY <2>1, <2>2, <2>3, <3>2
      <4>3. (a \o b)[j] = b[j - Len(a)] BY <2>2, <2>3, <4>2
      <4> QED BY <2>2, <2>3, <2>4, <3>2, <4>1, <4>3
    <3> QED BY <3>1, <3>2
  <2> QED BY <2>1, <2>5, <2>6
<1>2. DOMAIN t = 1..(n - 1) /\ DOMAIN s = 1..n BY <1>1
<1> HIDE DEF t
<1>3. \A j \in 1..(n - 1) : \E k \in 1..n : t[j] = s[k] /\ k # i /\ k = IF j < i THEN j ELSE j + 1
  BY <1>1
<1>4. IsInjective(t)
  <2> SUFFICES ASSUME NEW j \in 1..(n - 1), NEW k \in 1..(n - 1), t[j] = t[k] PROVE j = k
    BY <1>2 DEF IsInjective
  <2>1. PICK p \in 1..n : t[j] = s[p] /\ p = IF j < i THEN j ELSE j + 1 BY <1>3
  <2>2. PICK q \in 1..n : t[k] = s[q] /\ q = IF k < i THEN k ELSE k + 1 BY <1>3
  <2>3. p = q BY <1>2, <2>1, <2>2 DEF IsInjective
  <2> QED BY <1>1, <2>1, <2>2, <2>3
<1>5. ToSet(t) \subseteq ToSet(s) \ {s[i]} BY <1>2, <1>3 DEF ToSet, IsInjective
<1>6. ToSet(s) \ {s[i]} \subseteq ToSet(t)
  <2> SUFFICES ASSUME NEW k \in 1..n, k # i PROVE \E j \in 1..(n - 1) : t[j] = s[k]
    BY <1>2 DEF ToSet
  <2>1. CASE k < i BY <1>1, <2>1
  <2>2. CASE k > i
    <3>1. k - 1 \in 1..(n - 1) /\ ~(k - 1 < i) /\ (k - 1) + 1 = k BY <1>1, <2>2
    <3> QED BY <1>1, <3>1
  <2> QED BY <2>1, <2>2
<1> QED BY <1>1, <1>4, <1>5, <1>6 DEF t

LEMMA RemoveFirstFacts ==
  ASSUME NEW S, NEW s \in Seq(S), IsInjective(s), NEW c
  PROVE  /\ RemoveFirst(s, c) \in Seq(S) /\ IsInjective(RemoveFirst(s, c))
         /\ ToSet(RemoveFirst(s, c)) = ToSet(s) \ {c}
<1>0. DOMAIN s = 1..Len(s) /\ Len(s) \in Nat OBVIOUS
<1>1. ASSUME NEW i \in 1..Len(s), s[i] = c
      PROVE  RemoveFirst(s, c) = RemoveAt(s, i)
  <2>1. {k \in 1..Len(s) : s[k] = c} = {i} BY <1>0, <1>1 DEF IsInjective
  <2>2. Min({i}) = i BY DEF Min
  <2>3. SelectInSeq(s, LAMBDA v : v = c) = i BY <2>1, <2>2 DEF SelectInSeq
  <2> QED BY <1>1, <2>3 DEF RemoveFirst
<1>2. CASE c \in ToSet(s)
  <2>1. PICK i \in 1..Len(s) : s[i] = c BY <1>0, <1>2 DEF ToSet
  <2> QED BY <1>1, <2>1, RemoveFacts
<1>3. CASE c \notin ToSet(s)
  <2>1. RemoveFirst(s, c) = s BY <1>0, <1>3 DEF RemoveFirst, ToSet
  <2> QED BY <1>3, <2>1
<1> QED BY <1>2, <1>3

(* Every set of naturals has a least element.                                *)
LEMMA LeastExists ==
  ASSUME NEW T \in SUBSET Nat, T # {}
  PROVE  Min(T) \in T /\ \A y \in T : Min(T) <= y
<1> DEFINE R == OpToRel(<, Nat)
<1>1. IsWellFoundedOn(R, Nat) BY NatLessThanWellFounded
<1> HIDE DEF R
<1>2. PICK x \in T : \A y \in T : ~(<<y, x>> \in R) BY <1>1, WFMin
<1>3. \A y \in T : ~(y < x) BY <1>2 DEF R, OpToRel
<1>4. \A y \in T : x <= y BY <1>3
<1> QED BY <1>4 DEF Min

(* t is s with e put in at place i.                                          *)
PutIn(s, t, i, e) ==
  /\ i \in 1..(Len(s) + 1) /\ Len(t) = Len(s) + 1
  /\ \A k \in 1..(Len(s) + 1) : t[k] = IF k < i THEN s[k] ELSE IF k = i THEN e ELSE s[k - 1]

LEMMA InsertFacts ==
  ASSUME NEW S, NEW s \in Seq(S), NEW e \in S, NEW i \in 1..Len(s)
  PROVE  InsertAt(s, i, e) \in Seq(S) /\ PutIn(s, InsertAt(s, i, e), i, e)
<1> DEFINE a == SubSeq(s, 1, i - 1)
           b == SubSeq(s, i, Len(s))
           m == a \o <<e>>
           t == m \o b
<1>1. Len(s) \in Nat \ {0} /\ i \in Nat OBVIOUS
<1>2. a \in Seq(S) /\ Len(a) = i - 1 /\ \A k \in 1..(i - 1) : a[k] = s[k] BY <1>1
<1>3. b \in Seq(S) /\ Len(b) = Len(s) - i + 1 /\ \A k \in 1..(Len(s) - i + 1) : b[k] = s[i + k - 1] BY <1>1
<1>4. <<e>> \in Seq(S) /\ Len(<<e>>) = 1 /\ <<e>>[1] = e OBVIOUS
<1> HIDE DEF a, b
<1>5. m \in Seq(S) /\ Len(m) = i BY <1>1, <1>2, <1>4
<1>6. \A k \in 1..(i - 1) : m[k] = s[k] BY <1>1, <1>2, <1>4
<1>7. m[i] = e
  <2>1. i \in 1..(Len(a) + Len(<<e>>)) /\ ~(i <= Len(a)) /\ i - Len(a) = 1 BY <1>1, <1>2, <1>4
  <2> QED BY <1>2, <1>4, <2>1
<1> HIDE DEF m
<1>8. t \in Seq(S) /\ Len(t) = Len(s) + 1
  <2>1. t \in Seq(S) /\ Len(t) = Len(m) + Len(b) BY ONLY <1>3, <1>5, ConcatFacts
  <2> HIDE DEF t
  <2> QED BY <1>1, <1>3, <1>5, <2>1
<1>9. ASSUME NEW k \in 1..(Len(s) + 1)
      PROVE  t[k] = IF k < i THEN s[k] ELSE IF k = i THEN e ELSE s[k - 1]
  <2>1. CASE k <= i
    <3>1. t[k] = m[k] BY <1>1, <1>3, <1>5, <2>1
    <3> QED BY <1>1, <1>6, <1>7, <2>1, <3>1
  <2>2. CASE k > i
    <3>1. k \in 1..(Len(m) + Len(b)) /\ ~(k <= Len(m)) BY <1>1, <1>3, <1>5, <2>2
    <3>2. t[k] = b[k - Len(m)] BY <1>3, <1>5, <3>1
    <3>3. k - i \in 1..(Len(s) - i + 1) /\ i + (k - i) - 1 = k - 1 BY <1>1, <2>2
    <3> QED BY <1>1, <1>3, <1>5, <2>2, <3>2, <3>3
  <2>3. k <= i \/ k > i BY <1>1
  <2> HIDE DEF t
  <2> QED BY <2>1, <2>2, <2>3
<1>10. InsertAt(s, i, e) = t BY DEF InsertAt, m, a, b
<1> QED BY <1>1, <1>8, <1>9, <1>10 DEF PutIn

LEMMA PutInFacts ==
  ASSUME NEW S, NEW s \in Seq(S), NEW t \in Seq(S), NEW i, NEW e \in S, PutIn(s, t, i, e)
  PROVE  /\ ToSet(t) = ToSet(s) \cup {e}
         /\ IsInjective(s) /\ e \notin ToSet(s) => IsInjective(t)
<1> DEFINE n == Len(s)
<1>1. n \in Nat /\ DOMAIN s = 1..n /\ DOMAIN t = 1..(n + 1) /\ i \in 1..(n + 1) BY DEF PutIn
<1>2. \A k \in 1..(n + 1) : \/ k < i /\ k \in 1..n /\ t[k] = s[k]
                            \/ k = i /\ t[k] = e
                            \/ k > i /\ k - 1 \in 1..n /\ t[k] = s[k - 1]
  BY <1>1 DEF PutIn
<1>3. \A k \in 1..n : k < i => k \in 1..(n + 1) /\ t[k] = s[k] BY <1>1 DEF PutIn
<1>4. \A k \in 1..n : k >= i => k + 1 \in 1..(n + 1) /\ t[k + 1] = s[k]
  <2> SUFFICES ASSUME NEW k \in 1..n, k >= i PROVE k + 1 \in 1..(n + 1) /\ t[k + 1] = s[k] OBVIOUS
  <2>1. k + 1 \in 1..(n + 1) /\ ~(k + 1 < i) /\ k + 1 # i /\ (k + 1) - 1 = k BY <1>1
  <2> QED BY <2>1 DEF PutIn
<1>5. t[i] = e BY <1>1, <1>2
<1>6. ToSet(t) \subseteq ToSet(s) \cup {e} BY <1>1, <1>2 DEF ToSet
<1>7. ToSet(s) \cup {e} \subseteq ToSet(t)
  <2>1. e \in ToSet(t) BY <1>1, <1>5 DEF ToSet
  <2>2. ASSUME NEW k \in 1..n PROVE s[k] \in ToSet(t)
    <3>1. CASE k < i BY <1>1, <1>3, <3>1 DEF ToSet
    <3>2. CASE k >= i BY <1>1, <1>4, <3>2 DEF ToSet
    <3> QED BY <1>1, <3>1, <3>2
  <2> QED BY <1>1, <2>1, <2>2 DEF ToSet
<1>8. ASSUME IsInjective(s), e \notin ToSet(s) PROVE IsInjective(t)
  <2> SUFFICES ASSUME NEW k \in 1..(n + 1), NEW l \in 1..(n + 1), t[k] = t[l], k < l PROVE FALSE
    BY <1>1 DEF IsInjective
  <2>1. \A m \in 1..n : s[m] # e BY <1>1, <1>8 DEF ToSet
  <2>2. \A a, b \in 1..n : s[a] = s[b] => a = b BY <1>1, <1>8 DEF IsInjective
  <2>3. CASE k = i \/ l = i BY <1>1, <1>2, <2>1, <2>3
  <2>4. CASE k # i /\ l # i
    <3>1. PICK a \in 1..n : t[k] = s[a] /\ a = IF k < i THEN k ELSE k - 1 BY <1>1, <1>2, <2>4
    <3>2. PICK b \in 1..n : t[l] = s[b] /\ b = IF l < i THEN l ELSE l - 1 BY <1>1, <1>2, <2>4
    <3>3. a = b BY <2>2, <3>1, <3>2
    <3> QED BY <1>1, <2>4, <3>1, <3>2, <3>3
  <2> QED BY <2>3, <2>4
<1> QED BY <1>6, <1>7, <1>8

-----------------------------------------------------------------------------
(* The queue.                                                               *)

(* Push puts a job behind those of its priority and before the lower ones.   *)
LEMMA InsertedFacts ==
  ASSUME PoolAssumption, NEW j \in Jobs, NEW q \in Seq(Jobs),
         \A i, k \in DOMAIN q : i < k => Priority[q[i]] >= Priority[q[k]]
  PROVE  /\ Inserted(q, j) \in Seq(Jobs)
         /\ \E n : /\ PutIn(q, Inserted(q, j), n, j)
                   /\ \A k \in 1..Len(q) : k < n => Priority[q[k]] >= Priority[j]
                   /\ \A k \in 1..Len(q) : k >= n => Priority[j] > Priority[q[k]]
<1> DEFINE lower == {i \in DOMAIN q : Priority[j] > Priority[q[i]]}
<1>1. Len(q) \in Nat /\ DOMAIN q = 1..Len(q) OBVIOUS
<1>2. \A k \in 1..Len(q) : Priority[q[k]] \in Nat BY <1>1 DEF PoolAssumption
<1>3. Priority[j] \in Nat BY DEF PoolAssumption
<1>4. CASE lower = {}
  <2>1. Inserted(q, j) = Append(q, j) BY <1>4 DEF Inserted
  <2>2. Append(q, j) \in Seq(Jobs) BY AppendFacts
  <2>3. PutIn(q, Append(q, j), Len(q) + 1, j) BY <1>1 DEF PutIn
  <2>4. \A k \in 1..Len(q) : Priority[q[k]] >= Priority[j] BY <1>1, <1>2, <1>3, <1>4
  <2>5. \A k \in 1..Len(q) : ~(k >= Len(q) + 1) BY <1>1
  <2> QED BY <2>1, <2>2, <2>3, <2>4, <2>5
<1>5. CASE lower # {}
  <2> DEFINE n == Min(lower)
  <2>1. lower \in SUBSET Nat BY <1>1
  <2>2. n \in lower /\ \A y \in lower : n <= y BY <1>5, <2>1, LeastExists
  <2>3. Inserted(q, j) = InsertAt(q, n, j) BY <1>5 DEF Inserted
  <2> HIDE DEF n
  <2>4. n \in 1..Len(q) /\ Priority[j] > Priority[q[n]] BY <1>1, <2>2
  <2>5. InsertAt(q, n, j) \in Seq(Jobs) /\ PutIn(q, InsertAt(q, n, j), n, j) BY <2>4, InsertFacts
  <2>6. ASSUME NEW k \in 1..Len(q), k < n PROVE Priority[q[k]] >= Priority[j]
    <3>0. ~(n <= k) BY <1>1, <2>4, <2>6
    <3>1. k \notin lower BY <2>2, <3>0
    <3>2. ~(Priority[j] > Priority[q[k]]) BY <1>1, <3>1
    <3> QED BY <1>2, <1>3, <3>2
  <2>7. ASSUME NEW k \in 1..Len(q), k >= n PROVE Priority[j] > Priority[q[k]]
    <3>1. CASE k = n BY <2>4, <3>1
    <3>2. CASE k > n
      <4>1. Priority[q[n]] >= Priority[q[k]] BY <1>1, <2>4, <3>2
      <4> QED BY <1>2, <1>3, <2>4, <4>1
    <3> QED BY <2>4, <2>7, <3>1, <3>2
  <2> QED BY <2>3, <2>5, <2>6, <2>7
<1> QED BY <1>4, <1>5

(* Push adds the job once, keeps the order, and wakes a sleeper if any.      *)
LEMMA PushFacts ==
  ASSUME PoolAssumption, NEW j \in Jobs, NEW at \in [Workers -> Labels],
         queue \in Seq(Jobs), QueueOrdered, Push(j, at)
  PROVE  /\ queue' \in Seq(Jobs) /\ Len(queue') = Len(queue) + 1
         /\ ToSet(queue') = ToSet(queue) \cup {j}
         /\ IsInjective(queue) /\ j \notin ToSet(queue) => IsInjective(queue')
         /\ QueueOrdered'
         /\ \/ \E w \in Workers : at[w] = "waiting" /\ pc' = [at EXCEPT ![w] = "woken"]
            \/ (\A w \in Workers : at[w] # "waiting") /\ pc' = at
<1>1. Len(queue) \in Nat /\ DOMAIN queue = 1..Len(queue) OBVIOUS
<1>2. \A i, k \in DOMAIN queue : i < k => Priority[queue[i]] >= Priority[queue[k]]
  BY DEF QueueOrdered
<1>3. queue' = Inserted(queue, j) BY DEF Push
<1>4. queue' \in Seq(Jobs) BY <1>2, <1>3, InsertedFacts
<1>5. PICK n : /\ PutIn(queue, queue', n, j)
               /\ \A k \in 1..Len(queue) : k < n => Priority[queue[k]] >= Priority[j]
               /\ \A k \in 1..Len(queue) : k >= n => Priority[j] > Priority[queue[k]]
  BY <1>2, <1>3, InsertedFacts
<1>6. Len(queue') = Len(queue) + 1 BY <1>5 DEF PutIn
<1>7. /\ ToSet(queue') = ToSet(queue) \cup {j}
      /\ IsInjective(queue) /\ j \notin ToSet(queue) => IsInjective(queue')
  BY <1>4, <1>5, PutInFacts
<1>8. QueueOrdered'
  <2> SUFFICES ASSUME NEW i \in 1..(Len(queue) + 1), NEW k \in 1..(Len(queue) + 1), i < k
               PROVE  Priority[queue'[i]] >= Priority[queue'[k]]
    BY <1>1, <1>4, <1>6 DEF QueueOrdered
  <2>0. n \in 1..(Len(queue) + 1) BY <1>5 DEF PutIn
  <2>1. \A m \in 1..(Len(queue) + 1) :
          /\ m < n => m \in 1..Len(queue) /\ queue'[m] = queue[m]
          /\ m = n => queue'[m] = j
          /\ m > n => m - 1 \in 1..Len(queue) /\ m - 1 >= n /\ queue'[m] = queue[m - 1]
    BY <1>1, <1>5 DEF PutIn
  <2>2. Priority[j] \in Nat /\ \A m \in 1..Len(queue) : Priority[queue[m]] \in Nat
    BY <1>1 DEF PoolAssumption
  <2>3. CASE k = n
    <3>1. i \in 1..Len(queue) /\ queue'[i] = queue[i] /\ queue'[k] = j BY <2>1, <2>3
    <3>2. Priority[queue[i]] >= Priority[j] BY <1>5, <2>3, <3>1
    <3> QED BY <3>1, <3>2
  <2>4. CASE i = n
    <3>1. k > n /\ queue'[i] = j BY <2>1, <2>4
    <3>2. k - 1 \in 1..Len(queue) /\ k - 1 >= n /\ queue'[k] = queue[k - 1] BY <2>1, <3>1
    <3>3. Priority[j] > Priority[queue[k - 1]] BY <1>5, <3>2
    <3>4. Priority[queue'[i]] = Priority[j] /\ Priority[queue'[k]] = Priority[queue[k - 1]] BY <3>1, <3>2
    <3>5. Priority[queue[k - 1]] \in Nat BY <2>2, <3>2
    <3> QED BY <2>2, <3>3, <3>4, <3>5
  <2>5. CASE i # n /\ k # n
    <3>0. (i < n \/ i > n) /\ (k < n \/ k > n) BY <2>0, <2>5
    <3>1. PICK a \in 1..Len(queue) : queue'[i] = queue[a] /\ (i < n => a = i) /\ (i > n => a = i - 1)
      <4>1. CASE i < n BY <2>0, <2>1, <4>1
      <4>2. CASE i > n BY <2>0, <2>1, <4>2
      <4> QED BY <3>0, <4>1, <4>2
    <3>2. PICK b \in 1..Len(queue) : queue'[k] = queue[b] /\ (k < n => b = k) /\ (k > n => b = k - 1)
      <4>1. CASE k < n BY <2>0, <2>1, <4>1
      <4>2. CASE k > n BY <2>0, <2>1, <4>2
      <4> QED BY <3>0, <4>1, <4>2
    <3>3. a < b
      <4>0. a \in Int /\ b \in Int /\ i \in Int /\ k \in Int /\ n \in Int BY <1>1, <2>0
      <4>1. /\ (i < n => a = i) /\ (i > n => a = i - 1)
            /\ (k < n => b = k) /\ (k > n => b = k - 1)
        BY <3>1, <3>2
      <4>2. CASE i < n /\ k < n BY <4>0, <4>1, <4>2
      <4>3. CASE i < n /\ k > n BY <4>0, <4>1, <4>3
      <4>4. CASE i > n BY <4>0, <4>1, <4>4
      <4> QED BY <3>0, <4>2, <4>3, <4>4
    <3> QED BY <1>1, <1>2, <3>1, <3>2, <3>3
  <2> QED BY <2>3, <2>4, <2>5
<1>9. \/ \E w \in Workers : at[w] = "waiting" /\ pc' = [at EXCEPT ![w] = "woken"]
      \/ (\A w \in Workers : at[w] # "waiting") /\ pc' = at
  BY DEF Push
<1> QED BY <1>4, <1>6, <1>7, <1>8, <1>9

-----------------------------------------------------------------------------
(* Workers that are awake, and what a worker's move does to their number.    *)

LEMMA AwakeFinite ==
  ASSUME PoolAssumption, NEW at
  PROVE  IsFiniteSet(AwakeIn(at)) /\ Cardinality(AwakeIn(at)) \in Nat
<1>1. IsFiniteSet(AwakeIn(at)) BY FS_Subset DEF AwakeIn, PoolAssumption
<1> QED BY <1>1, FS_CardinalityType

LEMMA WakesUp ==
  ASSUME PoolAssumption, NEW at \in [Workers -> Labels], NEW w \in Workers, at[w] \notin Awake,
         NEW l \in Awake
  PROVE  Cardinality(AwakeIn([at EXCEPT ![w] = l])) = Cardinality(AwakeIn(at)) + 1
<1>1. AwakeIn([at EXCEPT ![w] = l]) = AwakeIn(at) \cup {w} BY DEF AwakeIn
<1>2. w \notin AwakeIn(at) BY DEF AwakeIn
<1>3. IsFiniteSet(AwakeIn(at)) BY AwakeFinite
<1> QED BY <1>1, <1>2, <1>3, FS_AddElement

LEMMA StaysAwake ==
  ASSUME NEW at \in [Workers -> Labels], NEW w \in Workers, NEW l, at[w] \in Awake <=> l \in Awake
  PROVE  AwakeIn([at EXCEPT ![w] = l]) = AwakeIn(at)
BY DEF AwakeIn

LEMMA GoesBusy ==
  ASSUME PoolAssumption, NEW at \in [Workers -> Labels], NEW w \in Workers, at[w] \in Awake,
         NEW l, l \notin Awake
  PROVE  Cardinality(AwakeIn([at EXCEPT ![w] = l])) = Cardinality(AwakeIn(at)) - 1
<1>1. AwakeIn([at EXCEPT ![w] = l]) = AwakeIn(at) \ {w} BY DEF AwakeIn
<1>2. w \in AwakeIn(at) BY DEF AwakeIn
<1>3. IsFiniteSet(AwakeIn(at)) BY AwakeFinite
<1> QED BY <1>1, <1>2, <1>3, FS_RemoveElement

Asleep(at) == \E w \in Workers : at[w] = "waiting"

LEMMA WakeupMeaning ==
  NoLostWakeup <=> (Asleep(pc) /\ ~PoolCancelled => Len(queue) <= Cardinality(AwakeIn(pc)))
BY DEF NoLostWakeup, Asleep, AwakeIn, Awake

(* A Push keeps the balance: the job it adds has the worker it wakes.        *)
LEMMA PushWakes ==
  ASSUME PoolAssumption, NEW j \in Jobs, NEW at \in [Workers -> Labels],
         queue \in Seq(Jobs), QueueOrdered, Push(j, at),
         Asleep(at) => Len(queue) <= Cardinality(AwakeIn(at))
  PROVE  pc' \in [Workers -> Labels] /\ (Asleep(pc') => Len(queue') <= Cardinality(AwakeIn(pc')))
<1>0. Len(queue') = Len(queue) + 1 /\ Len(queue) \in Nat BY PushFacts
<1>1. CASE \E w \in Workers : at[w] = "waiting" /\ pc' = [at EXCEPT ![w] = "woken"]
  <2>1. PICK w \in Workers : at[w] = "waiting" /\ pc' = [at EXCEPT ![w] = "woken"] BY <1>1
  <2>2. Cardinality(AwakeIn(pc')) = Cardinality(AwakeIn(at)) + 1 BY <2>1, WakesUp DEF Awake
  <2>3. Len(queue) <= Cardinality(AwakeIn(at)) BY <2>1 DEF Asleep
  <2>4. Cardinality(AwakeIn(at)) \in Nat BY AwakeFinite
  <2>5. pc' \in [Workers -> Labels] BY <2>1 DEF Labels
  <2> QED BY <1>0, <2>2, <2>3, <2>4, <2>5
<1>2. CASE (\A w \in Workers : at[w] # "waiting") /\ pc' = at BY <1>2 DEF Asleep
<1> QED BY <1>1, <1>2 DEF Push

-----------------------------------------------------------------------------
(* Steps of the pool.                                                       *)

LEMMA PoolInit == PoolAssumption /\ Init => PoolIInv
<1> SUFFICES ASSUME PoolAssumption, Init PROVE PoolIInv OBVIOUS
<1> USE DEF Init
<1>0. ToSet(queue) = {} BY DEF ToSet
<1>1. TypeOK
  <2>1. retries \in [Jobs -> Nat] /\ \A j \in Jobs : retries[j] <= AllowedRetries(j)
    BY DEF AllowedRetries, PoolAssumption
  <2>2. Len(results) <= ResultsCap BY DEF PoolAssumption
  <2> QED BY <2>1, <2>2 DEF TypeOK, Labels, StopStages
<1>2. WorkersOK BY DEF WorkersOK, Busy
<1>3. OnePlace BY <1>0 DEF OnePlace, PoolAssumption, IsInjective
<1>4. NoneLost BY <1>0 DEF NoneLost, Held, PoolAssumption
<1>5. QueueOrdered BY DEF QueueOrdered
<1>6. SchedulerFirst BY DEF SchedulerFirst, PoolCancelled
<1>7. NoLostWakeup BY DEF NoLostWakeup
<1> QED BY <1>1, <1>2, <1>3, <1>4, <1>5, <1>6, <1>7 DEF PoolIInv

(* A job that is new in the queue, by Submit or by the scheduler.            *)
LEMMA NewJobStep ==
  ASSUME PoolAssumption, PoolIInv, NEW j \in Jobs, j \notin submitted,
         submitted' = submitted \cup {j}, Push(j, pc),
         UNCHANGED <<retries, job, results, reported, sched, stop>>
  PROVE  PoolIInv'
<1>0. TypeOK /\ WorkersOK /\ OnePlace /\ NoneLost /\ QueueOrdered /\ SchedulerFirst /\ NoLostWakeup
  BY DEF PoolIInv
<1>1. queue \in Seq(Jobs) /\ pc \in [Workers -> Labels] /\ job \in [Workers -> Jobs \cup {NoJob}]
  BY <1>0 DEF TypeOK
<1>2. /\ queue' \in Seq(Jobs)
      /\ ToSet(queue') = ToSet(queue) \cup {j}
      /\ IsInjective(queue) /\ j \notin ToSet(queue) => IsInjective(queue')
      /\ QueueOrdered'
  BY <1>0, <1>1, PushFacts
<1>3. j \notin ToSet(queue) /\ j \notin reported /\ j \notin Held BY <1>0 DEF NoneLost
<1>4. pc' \in [Workers -> Labels] /\ \A v \in Workers : pc'[v] = pc[v] \/ (pc[v] = "waiting" /\ pc'[v] = "woken")
  BY <1>1 DEF Push, Labels
<1>5. TypeOK' BY <1>0, <1>2, <1>4 DEF TypeOK, AllowedRetries
<1>6. WorkersOK'
  <2> SUFFICES ASSUME NEW v \in Workers
               PROVE  (job[v] # NoJob <=> pc'[v] \in Busy) /\ (pc'[v] = "new" <=> stop = "off")
    BY DEF WorkersOK
  <2>1. (job[v] # NoJob <=> pc[v] \in Busy) /\ (pc[v] = "new" <=> stop = "off") BY <1>0 DEF WorkersOK
  <2>2. pc'[v] \in Busy <=> pc[v] \in Busy BY <1>4 DEF Busy
  <2>3. pc'[v] = "new" <=> pc[v] = "new" BY <1>4
  <2> QED BY <2>1, <2>2, <2>3
<1>7. OnePlace'
  <2>1. IsInjective(queue') BY <1>0, <1>2, <1>3 DEF OnePlace
  <2>2. ToSet(queue') \cap reported' = {} BY <1>0, <1>2, <1>3 DEF OnePlace
  <2>3. ASSUME NEW w \in Workers, job[w] \in Jobs PROVE job[w] \notin ToSet(queue') \cup reported
    <3>1. job[w] \in Held BY <2>3 DEF Held
    <3> QED BY <1>0, <1>2, <1>3, <2>3, <3>1 DEF OnePlace
  <2>4. \A w, v \in Workers : job'[w] = job'[v] /\ job'[w] \in Jobs => w = v BY <1>0 DEF OnePlace
  <2> QED BY <2>1, <2>2, <2>3, <2>4 DEF OnePlace
<1>8. NoneLost' BY <1>0, <1>2 DEF NoneLost, Held
<1>9. SchedulerFirst' BY <1>0 DEF SchedulerFirst, PoolCancelled
<1>10. NoLostWakeup'
  <2>1. CASE PoolCancelled BY <2>1 DEF NoLostWakeup, PoolCancelled
  <2>2. CASE ~PoolCancelled
    <3>1. Asleep(pc) => Len(queue) <= Cardinality(AwakeIn(pc)) BY <1>0, <2>2, WakeupMeaning
    <3>2. Asleep(pc') => Len(queue') <= Cardinality(AwakeIn(pc')) BY <1>0, <1>1, <3>1, PushWakes
    <3> QED BY <3>2 DEF NoLostWakeup, Asleep, AwakeIn, Awake
  <2> QED BY <2>1, <2>2
<1> QED BY <1>2, <1>5, <1>6, <1>7, <1>8, <1>9, <1>10 DEF PoolIInv

(* Steps that move only the scheduler or Manager.Stop.                       *)
LEMMA StopStep ==
  ASSUME PoolAssumption, PoolIInv,
         Tick \/ EndTick \/ SchedulerExit \/ StopScheduler \/ StopPool \/ CloseResults
  PROVE  PoolIInv'
<1>0. TypeOK /\ WorkersOK /\ OnePlace /\ NoneLost /\ QueueOrdered /\ SchedulerFirst /\ NoLostWakeup
  BY DEF PoolIInv
<1> USE DEF Tick, EndTick, SchedulerExit, StopScheduler, StopPool, CloseResults
<1>1. UNCHANGED <<queue, submitted, retries, pc, job, results, reported>> OBVIOUS
<1>2. /\ sched' \in {"new", "idle", "checking", "gone"} /\ stop' \in StopStages
      /\ stop' = "off" <=> stop = "off"
      /\ PoolCancelled => PoolCancelled' /\ (PoolCancelled' => sched' = "gone")
  BY <1>0 DEF TypeOK, StopStages, PoolCancelled, SchedulerFirst
<1>3. PoolCancelled' => sched' = "gone"
  BY <1>0 DEF TypeOK, StopStages, PoolCancelled, SchedulerFirst
<1>4. TypeOK' BY <1>0, <1>1, <1>2 DEF TypeOK, AllowedRetries
<1>5. WorkersOK' BY <1>0, <1>1, <1>2 DEF WorkersOK
<1>6. OnePlace' BY <1>0, <1>1 DEF OnePlace
<1>7. NoneLost' BY <1>0, <1>1 DEF NoneLost, Held
<1>8. QueueOrdered' BY <1>0, <1>1 DEF QueueOrdered
<1>9. SchedulerFirst' BY <1>3 DEF SchedulerFirst
<1>10. NoLostWakeup' BY <1>0, <1>1, <1>2 DEF NoLostWakeup
<1> QED BY <1>4, <1>5, <1>6, <1>7, <1>8, <1>9, <1>10 DEF PoolIInv

LEMMA StartStep ==
  ASSUME PoolAssumption, PoolIInv, StartManager
  PROVE  PoolIInv'
<1>0. TypeOK /\ WorkersOK /\ OnePlace /\ NoneLost /\ QueueOrdered /\ SchedulerFirst /\ NoLostWakeup
  BY DEF PoolIInv
<1> USE DEF StartManager
<1>4. TypeOK' BY <1>0 DEF TypeOK, AllowedRetries, Labels, StopStages
<1>5. WorkersOK' BY <1>0 DEF WorkersOK, Busy
<1>6. OnePlace' BY <1>0 DEF OnePlace
<1>7. NoneLost' BY <1>0 DEF NoneLost, Held
<1>8. QueueOrdered' BY <1>0 DEF QueueOrdered
<1>9. SchedulerFirst' BY DEF SchedulerFirst, PoolCancelled
<1>10. NoLostWakeup' BY DEF NoLostWakeup
<1> QED BY <1>4, <1>5, <1>6, <1>7, <1>8, <1>9, <1>10 DEF PoolIInv

LEMMA ResultStep ==
  ASSUME PoolAssumption, PoolIInv, ProcessResult
  PROVE  PoolIInv'
<1>0. TypeOK /\ WorkersOK /\ OnePlace /\ NoneLost /\ QueueOrdered /\ SchedulerFirst /\ NoLostWakeup
  BY DEF PoolIInv
<1> USE DEF ProcessResult
<1>1. results' \in Seq(Jobs) /\ Len(results') <= ResultsCap
  <2>1. results \in Seq(Jobs) /\ Len(results) <= ResultsCap BY <1>0 DEF TypeOK
  <2>2. Tail(results) \in Seq(Jobs) /\ Len(Tail(results)) = Len(results) - 1 /\ Len(results) \in Nat
    BY <2>1, TailFacts
  <2> QED BY <2>1, <2>2 DEF PoolAssumption
<1>4. TypeOK' BY <1>0, <1>1 DEF TypeOK, AllowedRetries
<1>5. WorkersOK' BY <1>0 DEF WorkersOK
<1>6. OnePlace' BY <1>0 DEF OnePlace
<1>7. NoneLost' BY <1>0 DEF NoneLost, Held
<1>8. QueueOrdered' BY <1>0 DEF QueueOrdered
<1>9. SchedulerFirst' BY <1>0 DEF SchedulerFirst, PoolCancelled
<1>10. NoLostWakeup' BY <1>0 DEF NoLostWakeup, PoolCancelled
<1> QED BY <1>4, <1>5, <1>6, <1>7, <1>8, <1>9, <1>10 DEF PoolIInv

(* A worker that moves without touching queue, jobs or results.              *)
LEMMA WorkerMoves ==
  ASSUME PoolAssumption, PoolIInv, NEW w \in Workers, NEW l \in Labels,
         pc' = [pc EXCEPT ![w] = l], l \in Busy <=> pc[w] \in Busy, l # "new", pc[w] # "new",
         retries' \in [Jobs -> Nat], \A j \in Jobs : retries'[j] <= AllowedRetries(j),
         l # "waiting" \/ queue = <<>>, PoolCancelled \/ (l \notin Awake => pc[w] \notin Awake \/ queue = <<>>),
         UNCHANGED <<queue, submitted, job, results, reported, sched, stop>>
  PROVE  PoolIInv'
<1>0. TypeOK /\ WorkersOK /\ OnePlace /\ NoneLost /\ QueueOrdered /\ SchedulerFirst /\ NoLostWakeup
  BY DEF PoolIInv
<1>1. pc \in [Workers -> Labels] /\ queue \in Seq(Jobs) BY <1>0 DEF TypeOK
<1>4. TypeOK' BY <1>0 DEF TypeOK, AllowedRetries
<1>5. WorkersOK'
  <2>1. \A v \in Workers : pc'[v] \in Busy <=> pc[v] \in Busy BY <1>1
  <2>2. \A v \in Workers : pc'[v] = "new" <=> pc[v] = "new" BY <1>1
  <2> QED BY <1>0, <2>1, <2>2 DEF WorkersOK
<1>6. OnePlace' BY <1>0 DEF OnePlace
<1>7. NoneLost' BY <1>0 DEF NoneLost, Held
<1>8. QueueOrdered' BY <1>0 DEF QueueOrdered
<1>9. SchedulerFirst' BY <1>0 DEF SchedulerFirst, PoolCancelled
<1>10. NoLostWakeup'
  <2>1. CASE PoolCancelled BY <2>1 DEF NoLostWakeup, PoolCancelled
  <2>2. CASE queue = <<>>
    <3>1. Cardinality(AwakeIn(pc')) \in Nat BY AwakeFinite
    <3>2. Len(queue') = 0 BY <2>2
    <3> QED BY <3>1, <3>2 DEF NoLostWakeup, AwakeIn, Awake
  <2>3. CASE ~PoolCancelled /\ queue # <<>>
    <3>1. Asleep(pc') => Asleep(pc) BY <1>1, <2>3 DEF Asleep
    <3>2. AwakeIn(pc) \subseteq AwakeIn(pc') BY <1>1, <2>3 DEF AwakeIn
    <3>3. Cardinality(AwakeIn(pc)) <= Cardinality(AwakeIn(pc')) BY <3>2, FS_Subset, AwakeFinite
    <3>4. Asleep(pc) => Len(queue) <= Cardinality(AwakeIn(pc)) BY <1>0, <2>3, WakeupMeaning
    <3>5. Cardinality(AwakeIn(pc)) \in Nat /\ Cardinality(AwakeIn(pc')) \in Nat BY AwakeFinite
    <3>6. Len(queue) \in Nat BY <1>1
    <3>7. Asleep(pc') => Len(queue') <= Cardinality(AwakeIn(pc')) BY <3>1, <3>3, <3>4, <3>5, <3>6
    <3> QED BY <3>7 DEF NoLostWakeup, Asleep, AwakeIn, Awake
  <2> QED BY <2>1, <2>2, <2>3
<1> QED BY <1>4, <1>5, <1>6, <1>7, <1>8, <1>9, <1>10 DEF PoolIInv

LEMMA TopStep ==
  ASSUME PoolAssumption, PoolIInv, NEW w \in Workers, Top(w)
  PROVE  PoolIInv'
<1>0. TypeOK BY DEF PoolIInv
<1>1. retries' \in [Jobs -> Nat] /\ \A j \in Jobs : retries'[j] <= AllowedRetries(j)
  BY <1>0 DEF Top, TypeOK
<1>2. CASE PoolCancelled
  <2>1. pc' = [pc EXCEPT ![w] = "exited"] BY <1>2 DEF Top
  <2>2. "exited" \in Labels /\ "exited" \notin Busy /\ pc[w] \notin Busy /\ pc[w] = "top"
    BY DEF Labels, Busy, Top
  <2> QED BY <1>1, <1>2, <2>1, <2>2, WorkerMoves DEF Top
<1>3. CASE ~PoolCancelled
  <2>1. pc' = [pc EXCEPT ![w] = "pop"] BY <1>3 DEF Top
  <2>2. "pop" \in Labels /\ "pop" \notin Busy /\ "pop" \in Awake /\ pc[w] \notin Busy /\ pc[w] = "top"
    BY DEF Labels, Busy, Awake, Top
  <2> QED BY <1>1, <2>1, <2>2, WorkerMoves DEF Top
<1> QED BY <1>2, <1>3

LEMMA HandleStep ==
  ASSUME PoolAssumption, PoolIInv, NEW w \in Workers, Handle(w)
  PROVE  PoolIInv'
<1>0. TypeOK /\ WorkersOK BY DEF PoolIInv
<1>1. pc[w] = "handle" /\ pc[w] \in Busy /\ pc[w] \notin Awake BY DEF Handle, Busy, Awake
<1>2. retries \in [Jobs -> Nat] /\ \A j \in Jobs : retries[j] <= AllowedRetries(j) BY <1>0 DEF TypeOK
<1>3. UNCHANGED <<queue, submitted, job, results, reported, sched, stop>> BY DEF Handle
<1>4. CASE pc' = [pc EXCEPT ![w] = "send"] /\ UNCHANGED retries
  <2>1. "send" \in Labels /\ "send" \in Busy BY DEF Labels, Busy
  <2> QED BY <1>1, <1>2, <1>3, <1>4, <2>1, WorkerMoves
<1>5. CASE /\ retries[job[w]] < AllowedRetries(job[w])
           /\ retries' = [retries EXCEPT ![job[w]] = @ + 1]
           /\ pc' = [pc EXCEPT ![w] = "push"]
  <2>1. "push" \in Labels /\ "push" \in Busy BY DEF Labels, Busy
  <2>0. job[w] \in Jobs BY <1>0, <1>1 DEF TypeOK, WorkersOK
  <2>2. retries' \in [Jobs -> Nat] BY <1>2, <1>5, <2>0
  <2>3. ASSUME NEW j \in Jobs PROVE retries'[j] <= AllowedRetries(j)
    <3>1. AllowedRetries(j) \in Nat BY DEF AllowedRetries, PoolAssumption
    <3> QED BY <1>2, <1>5, <3>1
  <2> QED BY <1>1, <1>3, <1>5, <2>1, <2>2, <2>3, WorkerMoves
<1> QED BY <1>4, <1>5 DEF Handle

LEMMA TailInjective ==
  ASSUME NEW S, NEW s \in Seq(S), s # <<>>, IsInjective(s)
  PROVE  IsInjective(Tail(s)) /\ ToSet(Tail(s)) = ToSet(s) \ {Head(s)}
<1> DEFINE t == Tail(s)
           n == Len(s)
<1>1. /\ n \in Nat \ {0} /\ DOMAIN s = 1..n /\ DOMAIN t = 1..(n - 1) /\ Head(s) = s[1]
      /\ \A i \in 1..(n - 1) : t[i] = s[i + 1]
  OBVIOUS
<1> HIDE DEF t, n
<1>2. \A i \in 1..(n - 1) : i + 1 \in 1..n /\ i + 1 # 1 BY <1>1
<1>3. \A i \in 1..n : i # 1 => i - 1 \in 1..(n - 1) /\ (i - 1) + 1 = i BY <1>1
<1>4. \A i, k \in 1..n : s[i] = s[k] => i = k BY <1>1 DEF IsInjective
<1>5. IsInjective(t)
  <2> SUFFICES ASSUME NEW i \in 1..(n - 1), NEW k \in 1..(n - 1), t[i] = t[k] PROVE i = k
    BY <1>1 DEF IsInjective
  <2>1. i + 1 = k + 1 BY <1>1, <1>2, <1>4
  <2> QED BY <1>1, <2>1
<1>6. ToSet(t) \subseteq ToSet(s) \ {s[1]}
  <2> SUFFICES ASSUME NEW i \in 1..(n - 1) PROVE t[i] \in ToSet(s) \ {s[1]} BY <1>1 DEF ToSet
  <2>1. i + 1 \in 1..n /\ 1 \in 1..n /\ i + 1 # 1 /\ t[i] = s[i + 1] BY <1>1, <1>2
  <2> QED BY <1>1, <1>4, <2>1 DEF ToSet
<1>7. ToSet(s) \ {s[1]} \subseteq ToSet(t)
  <2> SUFFICES ASSUME NEW i \in 1..n, s[i] # s[1] PROVE s[i] \in ToSet(t) BY <1>1 DEF ToSet
  <2>1. i - 1 \in 1..(n - 1) /\ (i - 1) + 1 = i BY <1>3
  <2>2. t[i - 1] = s[i] BY <1>1, <2>1
  <2> QED BY <1>1, <2>1, <2>2 DEF ToSet
<1> QED BY <1>1, <1>5, <1>6, <1>7 DEF t

LEMMA PopStep ==
  ASSUME PoolAssumption, PoolIInv, NEW w \in Workers, Pop(w)
  PROVE  PoolIInv'
<1>0. TypeOK /\ WorkersOK /\ OnePlace /\ NoneLost /\ QueueOrdered /\ SchedulerFirst /\ NoLostWakeup
  BY DEF PoolIInv
<1>1. pc[w] \in {"pop", "woken"} /\ UNCHANGED <<submitted, retries, results, reported, sched, stop>>
  BY DEF Pop
<1>2. pc[w] \notin Busy /\ pc[w] \in Awake /\ pc[w] # "new" BY <1>1 DEF Busy, Awake
<1>3. /\ queue \in Seq(Jobs) /\ pc \in [Workers -> Labels] /\ job \in [Workers -> Jobs \cup {NoJob}]
      /\ retries \in [Jobs -> Nat] /\ \A j \in Jobs : retries[j] <= AllowedRetries(j)
  BY <1>0 DEF TypeOK
<1>4. CASE queue = <<>> /\ pc' = [pc EXCEPT ![w] = "waiting"] /\ UNCHANGED <<queue, job>>
  <2>1. "waiting" \in Labels /\ "waiting" \notin Busy BY DEF Labels, Busy
  <2> QED BY <1>1, <1>2, <1>3, <1>4, <2>1, WorkerMoves
<1>5. CASE /\ queue # <<>> /\ job' = [job EXCEPT ![w] = Head(queue)]
           /\ queue' = Tail(queue) /\ pc' = [pc EXCEPT ![w] = "handle"]
  <2> DEFINE h == Head(queue)
  <2>1. /\ h \in ToSet(queue) /\ h \in Jobs /\ queue' \in Seq(Jobs) /\ Len(queue') = Len(queue) - 1
        /\ Len(queue) \in Nat
    BY <1>3, <1>5, TailFacts
  <2>2. IsInjective(queue') /\ ToSet(queue') = ToSet(queue) \ {h}
    BY <1>0, <1>3, <1>5, TailInjective DEF OnePlace
  <2> HIDE DEF h
  <2>3. /\ job'[w] = h /\ \A v \in Workers : v # w => job'[v] = job[v]
        /\ pc'[w] = "handle" /\ \A v \in Workers : v # w => pc'[v] = pc[v]
    BY <1>3, <1>5 DEF h
  <2>4. job[w] = NoJob /\ h # NoJob BY <1>0, <1>2, <2>1 DEF WorkersOK, PoolAssumption
  <2>5. \A v \in Workers : job[v] \in Jobs => v # w /\ job[v] # h BY <1>0, <2>1, <2>4 DEF OnePlace, PoolAssumption
  <2>6. TypeOK'
    <3>1. job' \in [Workers -> Jobs \cup {NoJob}] /\ pc' \in [Workers -> Labels]
      BY <1>3, <1>5, <2>1 DEF Labels, h
    <3> QED BY <1>0, <1>1, <2>1, <3>1 DEF TypeOK, AllowedRetries
  <2>7. WorkersOK' BY <1>0, <1>1, <1>2, <2>3, <2>4 DEF WorkersOK, Busy
  <2>8. OnePlace'
    <3>1. ToSet(queue') \cap reported' = {} BY <1>0, <1>1, <2>2 DEF OnePlace
    <3>2. \A v \in Workers : job'[v] \in Jobs => job'[v] \notin ToSet(queue') \cup reported'
      BY <1>0, <1>1, <2>1, <2>2, <2>3 DEF OnePlace
    <3>3. \A u, v \in Workers : job'[u] = job'[v] /\ job'[u] \in Jobs => u = v
      BY <1>0, <2>3, <2>5 DEF OnePlace
    <3> QED BY <2>2, <3>1, <3>2, <3>3 DEF OnePlace
  <2>9. NoneLost'
    <3>1. Held' = Held \cup {h}
      <4>1. Held' \subseteq Held \cup {h} BY <2>3 DEF Held
      <4>2. h \in Held' BY <2>1, <2>3 DEF Held
      <4>3. Held \subseteq Held'
        <5> SUFFICES ASSUME NEW v \in Workers, job[v] \in Jobs PROVE job[v] \in Held' BY DEF Held
        <5> QED BY <2>3, <2>5 DEF Held
      <4> QED BY <4>1, <4>2, <4>3
    <3> QED BY <1>0, <1>1, <2>1, <2>2, <3>1 DEF NoneLost
  <2>10. QueueOrdered'
    <3>1. Len(queue') = Len(queue) - 1 /\ DOMAIN queue' = 1..(Len(queue) - 1) BY <2>1
    <3>2. \A i \in 1..(Len(queue) - 1) : queue'[i] = queue[i + 1] /\ i + 1 \in DOMAIN queue
      BY <1>3, <1>5, <2>1
    <3> SUFFICES ASSUME NEW i \in 1..(Len(queue) - 1), NEW k \in 1..(Len(queue) - 1), i < k
                 PROVE  Priority[queue'[i]] >= Priority[queue'[k]]
      BY <3>1 DEF QueueOrdered
    <3>3. i + 1 < k + 1 BY <2>1
    <3>4. Priority[queue[i + 1]] >= Priority[queue[k + 1]] BY <1>0, <3>2, <3>3 DEF QueueOrdered
    <3> QED BY <3>2, <3>4
  <2>11. SchedulerFirst' BY <1>0, <1>1 DEF SchedulerFirst, PoolCancelled
  <2>12. NoLostWakeup'
    <3>1. Asleep(pc') => Asleep(pc) BY <2>3 DEF Asleep
    <3>2. "handle" \notin Awake BY DEF Awake
    <3>3. Cardinality(AwakeIn(pc')) = Cardinality(AwakeIn(pc)) - 1 BY <1>2, <1>3, <1>5, <3>2, GoesBusy
    <3>4. Cardinality(AwakeIn(pc)) \in Nat BY AwakeFinite
    <3>5. Asleep(pc) /\ ~PoolCancelled => Len(queue) <= Cardinality(AwakeIn(pc)) BY <1>0, WakeupMeaning
    <3>6. Asleep(pc') /\ ~PoolCancelled => Len(queue') <= Cardinality(AwakeIn(pc'))
      BY <2>1, <3>1, <3>3, <3>4, <3>5
    <3> QED BY <1>1, <3>6 DEF NoLostWakeup, Asleep, AwakeIn, Awake, PoolCancelled
  <2> QED BY <2>6, <2>7, <2>8, <2>9, <2>10, <2>11, <2>12 DEF PoolIInv
<1> QED BY <1>4, <1>5 DEF Pop

(* The job a worker is done with: where it goes is the step's business.      *)
LEMMA LetsGo ==
  ASSUME PoolAssumption, TypeOK, WorkersOK, OnePlace, NEW w \in Workers, pc[w] \in Busy,
         job' = [job EXCEPT ![w] = NoJob]
  PROVE  /\ job[w] \in Jobs /\ job[w] \notin ToSet(queue) \cup reported
         /\ job' \in [Workers -> Jobs \cup {NoJob}]
         /\ job'[w] = NoJob /\ \A v \in Workers : v # w => job'[v] = job[v]
         /\ \A v \in Workers : job'[v] \in Jobs => v # w /\ job'[v] # job[w] /\ job'[v] = job[v]
         /\ Held = Held' \cup {job[w]}
<1>1. job \in [Workers -> Jobs \cup {NoJob}] BY DEF TypeOK
<1>2. job[w] \in Jobs BY <1>1 DEF WorkersOK
<1>3. job[w] \notin ToSet(queue) \cup reported BY <1>2 DEF OnePlace
<1>4. /\ job' \in [Workers -> Jobs \cup {NoJob}]
      /\ job'[w] = NoJob /\ \A v \in Workers : v # w => job'[v] = job[v]
  BY <1>1
<1>5. \A v \in Workers : job'[v] \in Jobs => v # w /\ job'[v] # job[w] /\ job'[v] = job[v]
  BY <1>4 DEF OnePlace, PoolAssumption
<1>6. Held = Held' \cup {job[w]}
  <2>1. Held' \subseteq Held BY <1>5 DEF Held
  <2>2. job[w] \in Held BY <1>2 DEF Held
  <2>3. ASSUME NEW v \in Workers, job[v] \in Jobs, v # w PROVE job[v] \in Held' BY <1>4, <2>3 DEF Held
  <2>4. Held \subseteq Held' \cup {job[w]} BY <2>3 DEF Held
  <2> QED BY <2>1, <2>2, <2>4
<1> QED BY <1>2, <1>3, <1>4, <1>5, <1>6

LEMMA SendStep ==
  ASSUME PoolAssumption, PoolIInv, NEW w \in Workers, Send(w)
  PROVE  PoolIInv'
<1>0. TypeOK /\ WorkersOK /\ OnePlace /\ NoneLost /\ QueueOrdered /\ SchedulerFirst /\ NoLostWakeup
  BY DEF PoolIInv
<1>1. /\ pc[w] = "send" /\ Len(results) < ResultsCap /\ results' = Append(results, job[w])
      /\ reported' = reported \cup {job[w]} /\ job' = [job EXCEPT ![w] = NoJob]
      /\ pc' = [pc EXCEPT ![w] = "top"] /\ UNCHANGED <<queue, submitted, retries, sched, stop>>
  BY DEF Send
<1>2. pc[w] \in Busy /\ pc[w] \notin Awake BY <1>1 DEF Busy, Awake
<1>3. /\ job[w] \in Jobs /\ job[w] \notin ToSet(queue) \cup reported
      /\ job' \in [Workers -> Jobs \cup {NoJob}]
      /\ job'[w] = NoJob /\ \A v \in Workers : v # w => job'[v] = job[v]
      /\ \A v \in Workers : job'[v] \in Jobs => v # w /\ job'[v] # job[w] /\ job'[v] = job[v]
      /\ Held = Held' \cup {job[w]}
  BY <1>0, <1>1, <1>2, LetsGo
<1>4. pc \in [Workers -> Labels] /\ queue \in Seq(Jobs) /\ results \in Seq(Jobs) BY <1>0 DEF TypeOK
<1>5. pc' \in [Workers -> Labels] /\ pc'[w] = "top" /\ \A v \in Workers : v # w => pc'[v] = pc[v]
  BY <1>1, <1>4 DEF Labels
<1>6. TypeOK'
  <2>1. results' \in Seq(Jobs) /\ Len(results') = Len(results) + 1 /\ Len(results) \in Nat
    BY <1>1, <1>3, <1>4, AppendFacts
  <2>2. Len(results') <= ResultsCap BY <1>1, <2>1 DEF PoolAssumption
  <2> QED BY <1>0, <1>1, <1>3, <1>5, <2>1, <2>2 DEF TypeOK, AllowedRetries
<1>7. WorkersOK' BY <1>0, <1>1, <1>3, <1>5 DEF WorkersOK, Busy
<1>8. OnePlace'
  <2>1. ToSet(queue') \cap reported' = {} BY <1>0, <1>1, <1>3 DEF OnePlace
  <2>2. \A v \in Workers : job'[v] \in Jobs => job'[v] \notin ToSet(queue') \cup reported'
    BY <1>0, <1>1, <1>3 DEF OnePlace
  <2>3. \A u, v \in Workers : job'[u] = job'[v] /\ job'[u] \in Jobs => u = v
    BY <1>0, <1>3 DEF OnePlace
  <2> QED BY <1>0, <1>1, <2>1, <2>2, <2>3 DEF OnePlace
<1>9. NoneLost' BY <1>0, <1>1, <1>3 DEF NoneLost
<1>10. QueueOrdered' BY <1>0, <1>1 DEF QueueOrdered
<1>11. SchedulerFirst' BY <1>0, <1>1 DEF SchedulerFirst, PoolCancelled
<1>12. NoLostWakeup'
  <2>1. Asleep(pc') => Asleep(pc) BY <1>5 DEF Asleep
  <2>2. "top" \in Awake BY DEF Awake
  <2>3. Cardinality(AwakeIn(pc')) = Cardinality(AwakeIn(pc)) + 1 BY <1>1, <1>2, <1>4, <2>2, WakesUp
  <2>4. Cardinality(AwakeIn(pc)) \in Nat /\ Len(queue) \in Nat BY <1>4, AwakeFinite
  <2>5. Asleep(pc) /\ ~PoolCancelled => Len(queue) <= Cardinality(AwakeIn(pc)) BY <1>0, WakeupMeaning
  <2>6. Asleep(pc') /\ ~PoolCancelled => Len(queue) <= Cardinality(AwakeIn(pc'))
    BY <2>1, <2>3, <2>4, <2>5
  <2> QED BY <1>1, <2>6 DEF NoLostWakeup, Asleep, AwakeIn, Awake, PoolCancelled
<1> QED BY <1>6, <1>7, <1>8, <1>9, <1>10, <1>11, <1>12 DEF PoolIInv

LEMMA RequeueStep ==
  ASSUME PoolAssumption, PoolIInv, NEW w \in Workers, Requeue(w)
  PROVE  PoolIInv'
<1>0. TypeOK /\ WorkersOK /\ OnePlace /\ NoneLost /\ QueueOrdered /\ SchedulerFirst /\ NoLostWakeup
  BY DEF PoolIInv
<1> DEFINE at == [pc EXCEPT ![w] = "top"]
<1>1. /\ pc[w] = "push" /\ Push(job[w], at) /\ job' = [job EXCEPT ![w] = NoJob]
      /\ UNCHANGED <<submitted, retries, results, reported, sched, stop>>
  BY DEF Requeue
<1>2. pc[w] \in Busy /\ pc[w] \notin Awake BY <1>1 DEF Busy, Awake
<1>3. /\ job[w] \in Jobs /\ job[w] \notin ToSet(queue) \cup reported
      /\ job' \in [Workers -> Jobs \cup {NoJob}]
      /\ job'[w] = NoJob /\ \A v \in Workers : v # w => job'[v] = job[v]
      /\ \A v \in Workers : job'[v] \in Jobs => v # w /\ job'[v] # job[w] /\ job'[v] = job[v]
      /\ Held = Held' \cup {job[w]}
  BY <1>0, <1>1, <1>2, LetsGo
<1>4. pc \in [Workers -> Labels] /\ queue \in Seq(Jobs) BY <1>0 DEF TypeOK
<1>5. at \in [Workers -> Labels] /\ at[w] = "top" /\ \A v \in Workers : v # w => at[v] = pc[v]
  BY <1>4 DEF Labels
<1>6. Cardinality(AwakeIn(at)) = Cardinality(AwakeIn(pc)) + 1
  <2>1. "top" \in Awake BY DEF Awake
  <2> QED BY <1>2, <1>4, <2>1, WakesUp
<1> HIDE DEF at
<1>7. /\ queue' \in Seq(Jobs) /\ ToSet(queue') = ToSet(queue) \cup {job[w]}
      /\ IsInjective(queue) /\ job[w] \notin ToSet(queue) => IsInjective(queue')
      /\ QueueOrdered'
      /\ \/ \E v \in Workers : at[v] = "waiting" /\ pc' = [at EXCEPT ![v] = "woken"]
         \/ (\A v \in Workers : at[v] # "waiting") /\ pc' = at
  BY <1>0, <1>1, <1>3, <1>4, <1>5, PushFacts
<1>8. /\ pc' \in [Workers -> Labels] /\ pc'[w] = "top"
      /\ \A v \in Workers : v # w => pc'[v] = pc[v] \/ (pc[v] = "waiting" /\ pc'[v] = "woken")
  BY <1>5, <1>7 DEF Labels
<1>9. TypeOK' BY <1>0, <1>1, <1>3, <1>7, <1>8 DEF TypeOK, AllowedRetries
<1>10. WorkersOK'
  <2> SUFFICES ASSUME NEW v \in Workers
               PROVE  (job'[v] # NoJob <=> pc'[v] \in Busy) /\ (pc'[v] = "new" <=> stop = "off")
    BY <1>1 DEF WorkersOK
  <2>1. (job[v] # NoJob <=> pc[v] \in Busy) /\ (pc[v] = "new" <=> stop = "off") BY <1>0 DEF WorkersOK
  <2>2. CASE v = w BY <1>1, <1>3, <1>8, <2>1, <2>2 DEF Busy
  <2>3. CASE v # w
    <3>1. pc'[v] \in Busy <=> pc[v] \in Busy BY <1>8, <2>3 DEF Busy
    <3>2. pc'[v] = "new" <=> pc[v] = "new" BY <1>8, <2>3
    <3> QED BY <1>3, <2>1, <2>3, <3>1, <3>2
  <2> QED BY <2>2, <2>3
<1>11. OnePlace'
  <2>1. ToSet(queue') \cap reported' = {} BY <1>0, <1>1, <1>3, <1>7 DEF OnePlace
  <2>2. \A v \in Workers : job'[v] \in Jobs => job'[v] \notin ToSet(queue') \cup reported'
    BY <1>0, <1>1, <1>3, <1>7 DEF OnePlace
  <2>3. \A u, v \in Workers : job'[u] = job'[v] /\ job'[u] \in Jobs => u = v
    BY <1>0, <1>3 DEF OnePlace
  <2> QED BY <1>0, <1>3, <1>7, <2>1, <2>2, <2>3 DEF OnePlace
<1>12. NoneLost' BY <1>0, <1>1, <1>3, <1>7 DEF NoneLost
<1>13. SchedulerFirst' BY <1>0, <1>1 DEF SchedulerFirst, PoolCancelled
<1>14. NoLostWakeup'
  <2>1. Asleep(at) => Asleep(pc) BY <1>5 DEF Asleep
  <2>2. Cardinality(AwakeIn(pc)) \in Nat /\ Len(queue) \in Nat BY <1>4, AwakeFinite
  <2>3. Asleep(pc) /\ ~PoolCancelled => Len(queue) <= Cardinality(AwakeIn(pc)) BY <1>0, WakeupMeaning
  <2>4. CASE PoolCancelled BY <1>1, <2>4 DEF NoLostWakeup, PoolCancelled
  <2>5. CASE ~PoolCancelled
    <3>1. Asleep(at) => Len(queue) <= Cardinality(AwakeIn(at)) BY <1>6, <2>1, <2>2, <2>3, <2>5
    <3>2. Asleep(pc') => Len(queue') <= Cardinality(AwakeIn(pc'))
      BY <1>0, <1>1, <1>3, <1>4, <1>5, <3>1, PushWakes
    <3> QED BY <3>2 DEF NoLostWakeup, Asleep, AwakeIn, Awake
  <2> QED BY <2>4, <2>5
<1> QED BY <1>7, <1>9, <1>10, <1>11, <1>12, <1>13, <1>14 DEF PoolIInv

LEMMA PoolNext ==
  ASSUME PoolAssumption, PoolIInv, Next
  PROVE  PoolIInv'
<1>1. ASSUME NEW j \in Jobs, Submit(j) \/ RunTask(j) PROVE PoolIInv'
  <2>1. /\ j \notin submitted /\ submitted' = submitted \cup {j} /\ Push(j, pc)
        /\ UNCHANGED <<retries, job, results, reported, sched, stop>>
    BY <1>1 DEF Submit, RunTask
  <2> QED BY <2>1, NewJobStep
<1>2. ASSUME NEW w \in Workers, Step(w) PROVE PoolIInv'
  BY <1>2, TopStep, PopStep, HandleStep, RequeueStep, SendStep DEF Step
<1> QED BY <1>1, <1>2, ResultStep, StopStep, StartStep DEF Next

(* One place, stated as the run states it: by counting.                      *)
LEMMA PoolImplies ==
  ASSUME PoolAssumption, PoolIInv
  PROVE  PoolInv
<1>0. TypeOK /\ WorkersOK /\ OnePlace /\ NoneLost /\ QueueOrdered BY DEF PoolIInv
<1>1. JobsConserved
  <2> SUFFICES ASSUME NEW j \in Jobs
               PROVE  Cardinality(InQueue(j)) + Cardinality(Holders(j)) + (IF j \in reported THEN 1 ELSE 0)
                        = IF j \in submitted THEN 1 ELSE 0
    BY DEF JobsConserved
  <2>1. j \in submitted <=> j \in ToSet(queue) \/ j \in reported \/ j \in Held BY <1>0 DEF NoneLost
  <2>2. j \in ToSet(queue) => j \notin reported /\ j \notin Held BY <1>0 DEF OnePlace, Held
  <2>3. j \in reported => j \notin Held BY <1>0 DEF OnePlace, Held
  <2>4. Cardinality(InQueue(j)) = IF j \in ToSet(queue) THEN 1 ELSE 0
    <3>1. CASE j \in ToSet(queue)
      <4>1. PICK i \in DOMAIN queue : queue[i] = j BY <3>1 DEF ToSet
      <4>2. InQueue(j) = {i} BY <1>0, <4>1 DEF InQueue, OnePlace, IsInjective
      <4>3. Cardinality({i}) = 1 BY FS_Singleton
      <4> QED BY <3>1, <4>2, <4>3
    <3>2. CASE j \notin ToSet(queue)
      <4>1. InQueue(j) = {} BY <3>2 DEF InQueue, ToSet
      <4> QED BY <3>2, <4>1, FS_EmptySet
    <3> QED BY <3>1, <3>2
  <2>5. Cardinality(Holders(j)) = IF j \in Held THEN 1 ELSE 0
    <3>1. CASE j \in Held
      <4>1. PICK w \in Workers : job[w] = j BY <3>1 DEF Held
      <4>2. Holders(j) = {w} BY <1>0, <4>1 DEF Holders, OnePlace
      <4>3. Cardinality({w}) = 1 BY FS_Singleton
      <4> QED BY <3>1, <4>2, <4>3
    <3>2. CASE j \notin Held
      <4>1. Holders(j) = {} BY <3>2 DEF Holders, Held
      <4> QED BY <3>2, <4>1, FS_EmptySet
    <3> QED BY <3>1, <3>2
  <2> QED BY <2>1, <2>2, <2>3, <2>4, <2>5
<1> QED BY <1>0, <1>1 DEF PoolInv

-----------------------------------------------------------------------------
(* The trash.                                                               *)

LEMMA TrashStart == TrashAssumption /\ TrashInit => TrashTypeOK
<1> SUFFICES ASSUME TrashAssumption, TrashInit PROVE TrashTypeOK OBVIOUS
<1>1. InBin = {} BY DEF InBin, Range, TrashInit
<1>2. age \in [Items -> 0 .. MaxAge] BY DEF TrashInit, MaxAge, TrashAssumption
<1>3. restarts \in 0 .. MaxRestarts BY DEF TrashInit, TrashAssumption
<1>4. bin \in Seq(Items) /\ IsInjective(bin) /\ batch \in Seq(Items) BY DEF TrashInit, IsInjective
<1>5. full \in BOOLEAN /\ failed \in BOOLEAN BY DEF TrashInit
<1>6. offset \in Nat /\ emptying \in {"idle", "list", "delete"} BY DEF TrashInit
<1> QED BY <1>1, <1>2, <1>3, <1>4, <1>5, <1>6 DEF TrashTypeOK, TrashInit

LEMMA WithoutFacts ==
  ASSUME TrashTypeOK, NEW f
  PROVE  /\ Without(f) \in Seq(Items) /\ IsInjective(Without(f))
         /\ ToSet(Without(f)) = InBin \ {f}
<1>1. bin \in Seq(Items) /\ IsInjective(bin) BY DEF TrashTypeOK
<1>2. ToSet(bin) = InBin BY DEF ToSet, InBin, Range
<1> QED BY <1>1, <1>2, RemoveFirstFacts DEF Without

(* What a deletion leaves is a bin again.                                    *)
LEMMA DeletedFacts ==
  ASSUME TrashTypeOK, NEW f, Deleted(f)
  PROVE  live' \subseteq Items /\ bin' \in Seq(Items) /\ IsInjective(bin') /\ InBin' \cap live' = {}
<1>1. bin' \in Seq(Items) /\ IsInjective(bin') /\ ToSet(bin') = InBin \ {f} BY WithoutFacts DEF Deleted
<1>2. InBin' = ToSet(bin') BY DEF InBin, Range, ToSet
<1> QED BY <1>1, <1>2 DEF Deleted, TrashTypeOK

LEMMA TrashSteps ==
  ASSUME TrashAssumption, TrashTypeOK, TrashNext
  PROVE  TrashTypeOK'
<1>1. ASSUME NEW f \in Items, SoftDelete(f) PROVE TrashTypeOK'
  <2>1. Without(f) \in Seq(Items) /\ IsInjective(Without(f)) /\ ToSet(Without(f)) = InBin \ {f}
    BY WithoutFacts
  <2> DEFINE r == Without(f)
             b == <<f>> \o r
  <2>2. b \in Seq(Items) /\ PutIn(r, b, 1, f)
    <3> HIDE DEF r
    <3>1. r \in Seq(Items) /\ Len(r) \in Nat BY <2>1 DEF r
    <3>2. b \in Seq(Items) /\ Len(b) = Len(r) + 1 BY <3>1
    <3>3. b[1] = f BY <3>1
    <3>4. ASSUME NEW k \in 1..(Len(r) + 1), ~(k = 1) PROVE b[k] = r[k - 1] BY <3>1, <3>4
    <3> HIDE DEF b
    <3>5. \A k \in 1..(Len(r) + 1) : ~(k < 1) BY <3>1
    <3> QED BY <3>1, <3>2, <3>3, <3>4, <3>5 DEF PutIn
  <2>3. ToSet(b) = ToSet(r) \cup {f} /\ IsInjective(b)
    <3> HIDE DEF b
    <3>1. f \notin ToSet(r) BY <2>1
    <3> QED BY <1>1, <2>1, <2>2, <3>1, PutInFacts
  <2>4. bin' = b /\ live' = live \ {f} BY <1>1 DEF SoftDelete
  <2>5. InBin' = InBin \cup {f}
    <3>1. InBin' = ToSet(bin') BY DEF InBin, Range, ToSet
    <3>2. f \in InBin \/ f \notin InBin OBVIOUS
    <3> HIDE DEF b
    <3> QED BY <2>1, <2>3, <2>4, <3>1, <3>2
  <2>6. age' \in [Items -> 0 .. MaxAge] BY <1>1 DEF SoftDelete, TrashTypeOK, MaxAge, TrashAssumption
  <2> HIDE DEF b
  <2> QED BY <1>1, <2>2, <2>3, <2>4, <2>5, <2>6 DEF SoftDelete, TrashTypeOK, request, MaxAge
<1>2. ASSUME NEW f \in Items, Restore(f) PROVE TrashTypeOK'
  <2>1. bin' \in Seq(Items) /\ IsInjective(bin') /\ ToSet(bin') = InBin \ {f}
    BY <1>2, WithoutFacts DEF Restore
  <2>2. InBin' = ToSet(bin') BY DEF InBin, Range, ToSet
  <2> QED BY <1>2, <2>1, <2>2 DEF Restore, TrashTypeOK, request, MaxAge
<1>3. ASSUME NEW f \in Items, PermanentDelete(f) \/ CleanupItem(f) PROVE TrashTypeOK'
  BY <1>3, DeletedFacts DEF PermanentDelete, CleanupItem, TrashTypeOK, request, MaxAge
<1>4. CASE StartEmpty
  <2>1. InBin \subseteq Items /\ InBin' = InBin /\ (MaxAge)' = MaxAge
    BY <1>4 DEF StartEmpty, TrashTypeOK, InBin, Range, MaxAge
  <2>2. failed' \in BOOLEAN /\ full' \in BOOLEAN BY <1>4 DEF StartEmpty, TrashTypeOK
  <2>3. offset' \in Nat /\ emptying' \in {"idle", "list", "delete"} BY <1>4 DEF StartEmpty
  <2> QED BY <1>4, <2>1, <2>2, <2>3 DEF StartEmpty, TrashTypeOK
<1>5. CASE ListPage
  <2>1. Page \in Seq(Items)
    <3>1. bin \in Seq(Items) /\ Len(bin) \in Nat /\ offset \in Nat BY DEF TrashTypeOK
    <3> DEFINE m == Min({offset + BatchSize, Len(bin)})
    <3>2. m \in Nat /\ m <= Len(bin)
      <4>1. {offset + BatchSize, Len(bin)} \in SUBSET Nat BY <3>1 DEF TrashAssumption
      <4>2. m \in {offset + BatchSize, Len(bin)} /\ \A y \in {offset + BatchSize, Len(bin)} : m <= y
        BY <4>1, LeastExists
      <4> HIDE DEF m
      <4> QED BY <4>1, <4>2
    <3> HIDE DEF m
    <3>3. \A i \in (offset + 1)..m : bin[i] \in Items BY <3>1, <3>2
    <3>4. SubSeq(bin, offset + 1, m) \in Seq(Items) BY <3>1, <3>2, <3>3
    <3> QED BY <3>4 DEF Page, m
  <2> QED BY <1>5, <2>1 DEF ListPage, TrashTypeOK, InBin, Range, MaxAge
<1>6. CASE DeleteItem
  <2>1. batch' \in Seq(Items) BY <1>6, TailFacts DEF DeleteItem, TrashTypeOK
  <2>2. live' \subseteq Items /\ bin' \in Seq(Items) /\ IsInjective(bin') /\ InBin' \cap live' = {}
    BY <1>6, DeletedFacts DEF DeleteItem, TrashTypeOK, InBin
  <2> QED BY <1>6, <2>1, <2>2 DEF DeleteItem, TrashTypeOK, MaxAge
<1>7. CASE EndPage
  <2>1. offset' \in Nat BY <1>7 DEF EndPage, TrashTypeOK, TrashAssumption
  <2> QED BY <1>7, <2>1 DEF EndPage, TrashTypeOK, InBin, Range, MaxAge
<1>8. CASE Day
  <2>1. age' \in [Items -> 0 .. MaxAge]
    <3>1. age \in [Items -> 0 .. MaxAge] /\ MaxAge \in Nat BY DEF TrashTypeOK, MaxAge, TrashAssumption
    <3> HIDE DEF MaxAge
    <3> QED BY <1>8, <3>1 DEF Day
  <2> QED BY <1>8, <2>1 DEF Day, TrashTypeOK, InBin, Range, request, MaxAge
<1>9. CASE StartCleanup BY <1>9 DEF StartCleanup, TrashTypeOK, InBin, Range, request, MaxAge
<1>10. CASE Restart
  <2>1. restarts' \in 0 .. MaxRestarts BY <1>10 DEF Restart, TrashTypeOK, TrashAssumption
  <2>2. overdue' \subseteq Items BY <1>10 DEF Restart, TrashTypeOK, InBin, Range
  <2>3. InBin' = InBin /\ (MaxAge)' = MaxAge BY <1>10 DEF Restart, InBin, Range, MaxAge
  <2>4. failed' \in BOOLEAN /\ full' \in BOOLEAN BY <1>10 DEF Restart
  <2>5. offset' \in Nat /\ emptying' \in {"idle", "list", "delete"} /\ batch' \in Seq(Items)
    BY <1>10 DEF Restart
  <2> QED BY <1>10, <2>1, <2>2, <2>3, <2>4, <2>5 DEF Restart, TrashTypeOK
<1> QED BY <1>1, <1>2, <1>3, <1>4, <1>5, <1>6, <1>7, <1>8, <1>9, <1>10 DEF TrashNext, Empty

-----------------------------------------------------------------------------
(* The daemon: events that are yet to set a timer.                          *)

LEMMA PendingFinite ==
  ASSUME NEW S, NEW s \in Seq(S)
  PROVE  IsFiniteSet(Pending(s)) /\ Cardinality(Pending(s)) \in Nat
<1>1. IsFiniteSet(1..Len(s)) BY FS_Interval
<1>2. IsFiniteSet(Pending(s)) BY <1>1, FS_Subset DEF Pending
<1> QED BY <1>2, FS_CardinalityType

LEMMA PendingEmpty == Cardinality(Pending(<<>>)) = 0
<1>1. Pending(<<>>) = {} BY DEF Pending
<1> QED BY <1>1, FS_EmptySet

LEMMA PendingAppend ==
  ASSUME NEW S, NEW s \in Seq(S), NEW e \in S
  PROVE  /\ Cardinality(Pending(Append(s, e))) <= Cardinality(Pending(s)) + 1
         /\ e.op \notin Uploads => Cardinality(Pending(Append(s, e))) = Cardinality(Pending(s))
<1> DEFINE t == Append(s, e)
<1>1. /\ Len(t) = Len(s) + 1 /\ Len(s) \in Nat /\ t[Len(s) + 1] = e
      /\ \A i \in 1..Len(s) : t[i] = s[i]
  OBVIOUS
<1> HIDE DEF t
<1>2. CASE e.op \in Uploads
  <2>1. Pending(t) = Pending(s) \cup {Len(s) + 1} BY <1>1, <1>2 DEF Pending
  <2>2. Len(s) + 1 \notin Pending(s) BY <1>1 DEF Pending
  <2>3. Cardinality(Pending(t)) = Cardinality(Pending(s)) + 1
    BY <2>1, <2>2, PendingFinite, FS_AddElement
  <2>4. Cardinality(Pending(s)) \in Nat BY PendingFinite
  <2> QED BY <1>2, <2>3, <2>4 DEF t
<1>3. CASE e.op \notin Uploads
  <2>1. Pending(t) = Pending(s) BY <1>1, <1>3 DEF Pending
  <2>2. Cardinality(Pending(s)) \in Nat BY PendingFinite
  <2> QED BY <2>1, <2>2 DEF t
<1> QED BY <1>2, <1>3

LEMMA PendingTail ==
  ASSUME NEW S, NEW s \in Seq(S), s # <<>>
  PROVE  /\ Cardinality(Pending(Tail(s))) <= Cardinality(Pending(s))
         /\ Head(s).op \in Uploads => Cardinality(Pending(Tail(s))) + 1 = Cardinality(Pending(s))
<1> DEFINE t == Tail(s)
           n == Len(s)
           P == Pending(t)
           Q == Pending(s) \ {1}
<1>1. /\ n \in Nat \ {0} /\ Len(t) = n - 1 /\ Head(s) = s[1]
      /\ \A i \in 1..(n - 1) : t[i] = s[i + 1] /\ i + 1 \in 1..n
  OBVIOUS
<1>2. IsFiniteSet(P) /\ IsFiniteSet(Q) /\ IsFiniteSet(Pending(s))
  <2>1. t \in Seq(S) OBVIOUS
  <2>2. IsFiniteSet(P) BY <2>1, PendingFinite
  <2>3. IsFiniteSet(Pending(s)) BY PendingFinite
  <2>4. IsFiniteSet(Q) BY <2>3, FS_Subset
  <2> QED BY <2>2, <2>3, <2>4
<1> HIDE DEF t, n
<1>3. \A i \in P : i \in 1..(n - 1) /\ i + 1 \in Q
  <2> SUFFICES ASSUME NEW i \in P PROVE i \in 1..(n - 1) /\ i + 1 \in Q OBVIOUS
  <2>1. i \in 1..(n - 1) /\ t[i].op \in Uploads BY <1>1 DEF Pending
  <2>2. i + 1 \in 1..n /\ s[i + 1].op \in Uploads /\ i + 1 # 1 BY <1>1, <2>1
  <2> QED BY <2>1, <2>2 DEF Pending, n
<1>4. \A k \in Q : k - 1 \in P /\ (k - 1) + 1 = k
  <2> SUFFICES ASSUME NEW k \in Q PROVE k - 1 \in P /\ (k - 1) + 1 = k OBVIOUS
  <2>1. k \in 1..n /\ k # 1 /\ s[k].op \in Uploads BY DEF Pending, n
  <2>2. k - 1 \in 1..(n - 1) /\ (k - 1) + 1 = k BY <1>1, <2>1
  <2>3. t[k - 1] = s[k] BY <1>1, <2>2
  <2> QED BY <1>1, <2>1, <2>2, <2>3 DEF Pending
<1>5. Cardinality(P) = Cardinality(Q)
  <2> DEFINE f == [i \in P |-> i + 1]
  <2>1. f \in [P -> Q] BY <1>3
  <2>2. \A i, k \in P : f[i] = f[k] => i = k BY <1>1, <1>3
  <2>3. \A k \in Q : \E i \in P : f[i] = k BY <1>4
  <2> HIDE DEF f, P, Q
  <2>4. f \in Bijection(P, Q) BY <2>1, <2>2, <2>3 DEF Bijection, Injection, Surjection, IsInjective
  <2>5. ExistsBijection(P, Q) BY <2>4 DEF ExistsBijection
  <2> QED BY <1>2, <2>5, FS_Bijection
<1>6. Cardinality(P) \in Nat /\ Cardinality(Q) \in Nat /\ Cardinality(Pending(s)) \in Nat
  BY <1>2, FS_CardinalityType
<1>7. CASE 1 \in Pending(s)
  <2>1. Cardinality(Q) = Cardinality(Pending(s)) - 1 BY <1>2, <1>7, FS_RemoveElement
  <2> HIDE DEF P, Q
  <2>2. Cardinality(P) + 1 = Cardinality(Pending(s)) /\ Cardinality(P) <= Cardinality(Pending(s))
    BY <1>5, <1>6, <2>1
  <2> QED BY <2>2 DEF P, t
<1>8. CASE 1 \notin Pending(s)
  <2>1. Q = Pending(s) BY <1>8
  <2>2. ~(Head(s).op \in Uploads) BY <1>1, <1>8 DEF Pending, n
  <2> HIDE DEF P, Q
  <2>3. Cardinality(P) <= Cardinality(Pending(s)) BY <1>5, <1>6, <2>1
  <2> QED BY <2>2, <2>3 DEF P, t
<1> QED BY <1>7, <1>8

LEMMA DaemonStart == DaemonAssumption /\ NewSyncDaemon => DaemonIInv
<1> SUFFICES ASSUME DaemonAssumption, NewSyncDaemon PROVE DaemonIInv OBVIOUS
<1> USE DEF NewSyncDaemon
<1>1. DaemonTypes BY DEF DaemonTypes, DaemonAssumption
<1>2. TimersCounted
  <2>1. Len(timer) = 0 /\ changes = 0 OBVIOUS
  <2>2. Cardinality(Pending(events)) = 0 BY PendingEmpty
  <2> QED BY <2>1, <2>2 DEF TimersCounted
<1>3. LatestInMap BY DEF LatestInMap
<1>4. TimersKnown BY DEF TimersKnown
<1> QED BY <1>1, <1>2, <1>3, <1>4 DEF DaemonIInv

(* An event for the loop.                                                    *)
LEMMA EventFacts ==
  ASSUME DaemonTypes, NEW op \in {"create", "write", "remove", "directory"},
         NEW p \in Local \cup {"nested"}, op \in Uploads => p \in Local, Event(op, p)
  PROVE  /\ events' \in Seq(EventRec)
         /\ \A i \in 1..Len(events') : events'[i].op \in Uploads => events'[i].path \in Local
         /\ Cardinality(Pending(events')) <= Cardinality(Pending(events)) + 1
         /\ op \notin Uploads => Cardinality(Pending(events')) <= Cardinality(Pending(events))
<1> DEFINE e == [op |-> op, path |-> p]
<1>0. e \in EventRec /\ e.op = op /\ e.path = p BY DEF EventRec
<1>1. events \in Seq(EventRec) /\ \A i \in 1..Len(events) : events[i].op \in Uploads => events[i].path \in Local
  BY DEF DaemonTypes
<1>2. Cardinality(Pending(events)) \in Nat BY <1>1, PendingFinite
<1> HIDE DEF e
<1>3. CASE events' = events BY <1>1, <1>2, <1>3
<1>4. CASE events' = Append(events, e)
  <2>1. Append(events, e) \in Seq(EventRec) BY <1>0, <1>1, AppendFacts
  <2>2. /\ Cardinality(Pending(Append(events, e))) <= Cardinality(Pending(events)) + 1
        /\ op \notin Uploads => Cardinality(Pending(Append(events, e))) = Cardinality(Pending(events))
    BY <1>0, <1>1, PendingAppend
  <2>3. ASSUME NEW i \in 1..Len(events'), events'[i].op \in Uploads PROVE events'[i].path \in Local
    <3>1. CASE i \in 1..Len(events)
      <4>1. events'[i] = events[i] BY <1>1, <1>4, <3>1
      <4> QED BY <1>1, <2>3, <3>1, <4>1
    <3>2. CASE i = Len(events) + 1
      <4>1. events'[i] = e BY <1>1, <1>4, <3>2
      <4> QED BY <1>0, <2>3, <4>1
    <3> QED BY <1>1, <1>4, <3>1, <3>2
  <2> QED BY <1>2, <1>4, <2>1, <2>2, <2>3
<1> QED BY <1>3, <1>4 DEF Event, e

LEMMA ChangeStep ==
  ASSUME DaemonAssumption, DaemonIInv, NEW p \in Local, Change(p)
  PROVE  DaemonIInv'
<1>0. DaemonTypes /\ TimersCounted /\ LatestInMap /\ TimersKnown BY DEF DaemonIInv
<1>1. /\ changes < MaxChanges /\ changes' = changes + 1 /\ disk' = [disk EXCEPT ![p] = changes + 1]
      /\ UNCHANGED <<nested, debounce, timer, tried, daemon>>
  BY DEF Change
<1>2. changes \in 0..MaxChanges /\ disk \in [Local -> 0..MaxChanges] /\ events \in Seq(EventRec)
      /\ timer \in Seq(TimerRec) /\ Len(timer) \in Nat
  BY <1>0 DEF DaemonTypes
<1>3. disk' \in [Local -> 0..MaxChanges] /\ changes' \in 0..MaxChanges BY <1>1, <1>2 DEF DaemonAssumption
<1>4. Cardinality(Pending(events)) \in Nat BY <1>2, PendingFinite
<1>5. /\ events' \in Seq(EventRec)
      /\ \A i \in 1..Len(events') : events'[i].op \in Uploads => events'[i].path \in Local
      /\ Cardinality(Pending(events')) <= Cardinality(Pending(events)) + 1
  <2>1. CASE Seen(p)
    <3>1. Event(IF disk[p] = 0 THEN "create" ELSE "write", p) BY <2>1 DEF Change
    <3>2. CASE disk[p] = 0
      <4>1. Event("create", p) BY <3>1, <3>2
      <4> QED BY <1>0, <4>1, EventFacts
    <3>3. CASE disk[p] # 0
      <4>1. Event("write", p) BY <3>1, <3>3
      <4> QED BY <1>0, <4>1, EventFacts
    <3> QED BY <3>2, <3>3
  <2>2. CASE ~Seen(p)
    <3>1. events' = events BY <2>2 DEF Change
    <3>2. Cardinality(Pending(events)) <= Cardinality(Pending(events)) + 1 BY <1>4
    <3> QED BY <1>0, <3>1, <3>2 DEF DaemonTypes
  <2> QED BY <2>1, <2>2
<1>6. Cardinality(Pending(events')) \in Nat BY <1>5, PendingFinite
<1>7. DaemonTypes' BY <1>0, <1>1, <1>3, <1>5 DEF DaemonTypes
<1>8. TimersCounted'
  <2>1. Len(timer) + Cardinality(Pending(events)) <= changes BY <1>0 DEF TimersCounted
  <2>2. Len(timer) + Cardinality(Pending(events')) <= changes + 1 BY <1>2, <1>4, <1>5, <1>6, <2>1
  <2> QED BY <1>1, <2>2 DEF TimersCounted
<1>9. LatestInMap' BY <1>0, <1>1 DEF LatestInMap
<1>10. TimersKnown' BY <1>0, <1>1 DEF TimersKnown
<1> QED BY <1>7, <1>8, <1>9, <1>10 DEF DaemonIInv

(* Steps of files and watcher that count no change and set no timer.         *)
LEMMA QuietStep ==
  ASSUME DaemonAssumption, DaemonIInv, disk' \in [Local -> 0..MaxChanges],
         UNCHANGED <<changes, debounce, timer>>, events' \in Seq(EventRec),
         \A i \in 1..Len(events') : events'[i].op \in Uploads => events'[i].path \in Local,
         Cardinality(Pending(events')) <= Cardinality(Pending(events))
  PROVE  DaemonIInv'
<1>0. DaemonTypes /\ TimersCounted /\ LatestInMap /\ TimersKnown BY DEF DaemonIInv
<1>1. DaemonTypes' BY <1>0 DEF DaemonTypes
<1>2. TimersCounted'
  <2>1. Cardinality(Pending(events)) \in Nat /\ Cardinality(Pending(events')) \in Nat
    BY <1>0, PendingFinite DEF DaemonTypes
  <2>2. Len(timer) \in Nat /\ changes \in Nat BY <1>0 DEF DaemonTypes
  <2>3. Len(timer) + Cardinality(Pending(events)) <= changes BY <1>0 DEF TimersCounted
  <2>4. Len(timer) + Cardinality(Pending(events')) <= changes BY <2>1, <2>2, <2>3
  <2> QED BY <2>4 DEF TimersCounted
<1>3. LatestInMap' BY <1>0 DEF LatestInMap
<1>4. TimersKnown' BY <1>0 DEF TimersKnown
<1> QED BY <1>1, <1>2, <1>3, <1>4 DEF DaemonIInv

LEMMA QuietSteps ==
  ASSUME DaemonAssumption, DaemonIInv,
         (\E p \in Local : RemoveFile(p)) \/ MakeDirectory \/ StopWatching
  PROVE  DaemonIInv'
<1>0. DaemonTypes BY DEF DaemonIInv
<1>1. /\ disk \in [Local -> 0..MaxChanges] /\ events \in Seq(EventRec) /\ Cardinality(Pending(events)) \in Nat
      /\ \A i \in 1..Len(events) : events[i].op \in Uploads => events[i].path \in Local
  BY <1>0, PendingFinite DEF DaemonTypes
<1>2. "remove" \notin Uploads /\ "directory" \notin Uploads BY DEF Uploads
<1>3. ASSUME NEW p \in Local, RemoveFile(p) PROVE DaemonIInv'
  <2>1. disk' \in [Local -> 0..MaxChanges] BY <1>1, <1>3 DEF RemoveFile, DaemonAssumption
  <2>2. CASE Event("remove", p) BY <1>0, <1>2, <1>3, <2>1, <2>2, EventFacts, QuietStep DEF RemoveFile
  <2>3. CASE UNCHANGED events BY <1>1, <1>3, <2>1, <2>3, QuietStep DEF RemoveFile
  <2> QED BY <1>3, <2>2, <2>3 DEF RemoveFile
<1>4. CASE MakeDirectory
  BY <1>0, <1>1, <1>2, <1>4, EventFacts, QuietStep DEF MakeDirectory
<1>5. CASE StopWatching
  <2>1. Cardinality(Pending(events')) <= Cardinality(Pending(events)) BY <1>1, <1>5, PendingEmpty DEF StopWatching
  <2>2. events' = <<>> /\ Len(events') = 0 /\ events' \in Seq(EventRec) BY <1>5 DEF StopWatching
  <2>3. \A i \in 1..Len(events') : events'[i].op \in Uploads => events'[i].path \in Local BY <2>2
  <2> QED BY <1>1, <1>5, <2>1, <2>2, <2>3, QuietStep DEF StopWatching
<1> QED BY <1>3, <1>4, <1>5

(* The timer a change sets: the one before it in the map is stopped, unless  *)
(* it has fired.                                                             *)
LEMMA DebounceFacts ==
  ASSUME DaemonTypes, LatestInMap, NEW p \in Local, debounceUpload(p)
  PROVE  /\ timer' \in Seq(TimerRec) /\ Len(timer') = Len(timer) + 1
         /\ timer'[Len(timer) + 1].path = p
         /\ debounce' = [debounce EXCEPT ![p] = Len(timer) + 1]
         /\ \A t \in 1..Len(timer) :
              /\ timer'[t].path = timer[t].path
              /\ timer'[t].pc = timer[t].pc \/ (timer[t].pc = "set" /\ timer'[t].pc = "done")
              /\ t = debounce[p] => timer'[t].pc # "set"
<1> DEFINE old == IF InMap(p) THEN Stopped(debounce[p]) ELSE timer
           new == [path |-> p, pc |-> "set", read |-> 0]
           n == Len(timer)
<1>1. timer \in Seq(TimerRec) /\ debounce \in [Local -> 0..n] /\ n \in Nat BY DEF DaemonTypes
<1>2. \A t \in 1..n : /\ timer[t] \in TimerRec /\ timer[t].path \in Local /\ timer[t].read \in Nat
                      /\ timer[t].pc \in {"set", "upload", "forget", "done"}
  <2>1. \A t \in 1..n : timer[t] \in TimerRec BY <1>1
  <2>2. \A r \in TimerRec : r.path \in Local /\ r.read \in Nat /\ r.pc \in {"set", "upload", "forget", "done"}
    BY DEF TimerRec
  <2> HIDE DEF n
  <2> QED BY <2>1, <2>2
<1>3. new \in TimerRec /\ new.path = p BY DEF TimerRec
<1>4. timer' = Append(old, new) /\ debounce' = [debounce EXCEPT ![p] = n + 1]
  BY DEF debounceUpload
<1> HIDE DEF new, n
<1>5. /\ old \in Seq(TimerRec) /\ Len(old) = n
      /\ \A t \in 1..n : /\ old[t].path = timer[t].path
                         /\ old[t].pc = timer[t].pc \/ (timer[t].pc = "set" /\ old[t].pc = "done")
                         /\ t = debounce[p] => old[t].pc # "set"
  <2>1. CASE debounce[p] = 0 BY <1>1, <2>1 DEF InMap, n
  <2>2. CASE debounce[p] # 0 /\ timer[debounce[p]].pc # "set"
    <3>1. old = timer BY <2>2 DEF InMap, Stopped
    <3> HIDE DEF old
    <3> QED BY <1>1, <2>2, <3>1 DEF n
  <2>3. CASE debounce[p] # 0 /\ timer[debounce[p]].pc = "set"
    <3> DEFINE d == debounce[p]
               r == [timer[d] EXCEPT !.pc = "done"]
    <3>1. d \in 1..n BY <1>1, <2>3
    <3>2. old = [timer EXCEPT ![d] = r] BY <2>3 DEF InMap, Stopped
    <3> HIDE DEF old, d
    <3>3. r \in TimerRec /\ r.path = timer[d].path /\ r.pc = "done" BY <1>2, <3>1 DEF TimerRec
    <3> HIDE DEF r
    <3>4. old \in Seq(TimerRec) /\ Len(old) = n BY <1>1, <3>1, <3>2, <3>3 DEF n
    <3>5. old[d] = r /\ \A t \in 1..n : t # d => old[t] = timer[t] BY <1>1, <3>1, <3>2 DEF n
    <3> QED BY <2>3, <3>1, <3>3, <3>4, <3>5 DEF d
  <2> QED BY <2>1, <2>2, <2>3
<1> HIDE DEF old
<1>6. /\ timer' \in Seq(TimerRec) /\ Len(timer') = n + 1 /\ timer'[n + 1] = new
      /\ \A t \in 1..n : timer'[t] = old[t]
  BY <1>1, <1>3, <1>4, <1>5
<1> QED BY <1>3, <1>4, <1>5, <1>6 DEF n

LEMMA WatchStep ==
  ASSUME DaemonAssumption, DaemonIInv, watch
  PROVE  DaemonIInv'
<1>0. DaemonTypes /\ TimersCounted /\ LatestInMap /\ TimersKnown BY DEF DaemonIInv
<1> DEFINE e == Head(events)
           n == Len(timer)
<1>1. /\ events \in Seq(EventRec) /\ timer \in Seq(TimerRec) /\ n \in Nat /\ changes \in Nat
      /\ \A i \in 1..Len(events) : events[i].op \in Uploads => events[i].path \in Local
      /\ disk \in [Local -> 0..MaxChanges] /\ debounce \in [Local -> 0..n]
  BY <1>0 DEF DaemonTypes
<1>2. events # <<>> /\ events' = Tail(events) /\ handleEvent(e) /\ UNCHANGED <<disk, changes, tried, unseen, daemon>>
  BY DEF watch
<1>3. /\ events' \in Seq(EventRec) /\ Len(events') = Len(events) - 1 /\ Len(events) \in Nat /\ e \in EventRec
      /\ e = events[1] /\ 1 \in 1..Len(events)
      /\ \A i \in 1..(Len(events) - 1) : events'[i] = events[i + 1] /\ i + 1 \in 1..Len(events)
  BY <1>1, <1>2
<1>4. \A i \in 1..Len(events') : events'[i].op \in Uploads => events'[i].path \in Local BY <1>1, <1>3
<1>5. /\ Cardinality(Pending(events')) <= Cardinality(Pending(events))
      /\ e.op \in Uploads => Cardinality(Pending(events')) + 1 = Cardinality(Pending(events))
      /\ Cardinality(Pending(events)) \in Nat /\ Cardinality(Pending(events')) \in Nat
  BY <1>1, <1>2, <1>3, PendingTail, PendingFinite
<1>6. e.op \in {"create", "write", "remove", "directory"} BY <1>3 DEF EventRec
<1>7. e.op \in Uploads => e.path \in Local BY <1>1, <1>3
<1> HIDE DEF e, n
<1>8. CASE UNCHANGED <<timer, debounce>>
  BY <1>1, <1>2, <1>3, <1>4, <1>5, <1>8, QuietStep
<1>9. CASE e.op \in Uploads /\ debounceUpload(e.path)
  <2> DEFINE p == e.path
  <2>0. p \in Local BY <1>7, <1>9
  <2>1. /\ timer' \in Seq(TimerRec) /\ Len(timer') = n + 1
        /\ timer'[n + 1].path = p
        /\ debounce' = [debounce EXCEPT ![p] = n + 1]
        /\ \A t \in 1..n :
              /\ timer'[t].path = timer[t].path
              /\ timer'[t].pc = timer[t].pc \/ (timer[t].pc = "set" /\ timer'[t].pc = "done")
              /\ t = debounce[p] => timer'[t].pc # "set"
    BY <1>0, <1>9, <2>0, DebounceFacts DEF n
  <2> HIDE DEF p
  <2>2. /\ debounce' \in [Local -> 0..(n + 1)] /\ debounce'[p] = n + 1
        /\ \A q \in Local : q # p => debounce'[q] = debounce[q]
    BY <1>1, <2>0, <2>1
  <2>3. DaemonTypes' BY <1>0, <1>2, <1>3, <1>4, <2>1, <2>2 DEF DaemonTypes
  <2>4. TimersCounted'
    <3>1. n + Cardinality(Pending(events)) <= changes BY <1>0 DEF TimersCounted, n
    <3>2. (n + 1) + Cardinality(Pending(events')) <= changes BY <1>1, <1>5, <1>9, <3>1
    <3> QED BY <1>2, <2>1, <3>2 DEF TimersCounted
  <2>5. LatestInMap'
    <3> SUFFICES ASSUME NEW q \in Local, debounce'[q] # 0
                 PROVE  /\ timer'[debounce'[q]].path = q
                        /\ \A t \in 1..(n + 1) : timer'[t].path = q => t <= debounce'[q]
      BY <2>1 DEF LatestInMap
    <3>1. CASE q = p BY <1>1, <2>1, <2>2, <3>1
    <3>2. CASE q # p
      <4>1. debounce'[q] = debounce[q] /\ debounce[q] \in 1..n BY <1>1, <2>2, <3>2
      <4>2. timer[debounce[q]].path = q /\ \A t \in 1..n : timer[t].path = q => t <= debounce[q]
        BY <1>0, <4>1 DEF LatestInMap, n
      <4>3. timer'[debounce[q]].path = q BY <2>1, <4>1, <4>2
      <4>4. ASSUME NEW t \in 1..(n + 1), timer'[t].path = q PROVE t <= debounce[q]
        <5>1. t # n + 1 BY <2>1, <3>2, <4>4
        <5>2. t \in 1..n BY <1>1, <5>1
        <5> QED BY <2>1, <4>2, <4>4, <5>2
      <4> QED BY <4>1, <4>3, <4>4
    <3> QED BY <3>1, <3>2
  <2>6. TimersKnown'
    <3>0. DOMAIN timer' = 1..(n + 1) /\ DOMAIN timer = 1..n BY <1>1, <2>1 DEF n
    <3> SUFFICES ASSUME NEW t \in 1..(n + 1), timer'[t].pc = "set"
                 PROVE  \/ debounce'[timer'[t].path] = t
                        \/ \E s \in 1..(t - 1) : timer'[s].path = timer'[t].path /\ timer'[s].pc \in {"forget", "done"}
      BY <3>0 DEF TimersKnown
    <3>1. CASE t = n + 1 BY <2>1, <2>2, <3>1
    <3>2. CASE t # n + 1
      <4>1. t \in 1..n BY <1>1, <3>2
      <4>2. timer[t].pc = "set" /\ timer'[t].path = timer[t].path /\ t # debounce[p] BY <2>1, <4>1
      <4>3. timer[t].path \in Local
        <5>1. timer[t] \in TimerRec BY <1>1, <4>1 DEF n
        <5> QED BY <5>1 DEF TimerRec
      <4>4. CASE debounce[timer[t].path] = t BY <2>2, <4>2, <4>3, <4>4
      <4>5. CASE debounce[timer[t].path] # t
        <5>1. PICK s \in 1..(t - 1) : timer[s].path = timer[t].path /\ timer[s].pc \in {"forget", "done"}
          BY <1>0, <3>0, <4>1, <4>2, <4>5 DEF TimersKnown
        <5>2. s \in 1..n BY <1>1, <4>1
        <5>3. timer'[s].path = timer[s].path /\ timer'[s].pc = timer[s].pc BY <2>1, <5>1, <5>2
        <5> QED BY <4>2, <5>1, <5>3
      <4> QED BY <4>4, <4>5
    <3> QED BY <3>1, <3>2
  <2> QED BY <2>3, <2>4, <2>5, <2>6 DEF DaemonIInv
<1>10. UNCHANGED <<timer, debounce>> \/ (e.op \in Uploads /\ debounceUpload(e.path))
  BY <1>2, <1>6 DEF handleEvent, Uploads
<1> QED BY <1>8, <1>9, <1>10

(* A step that moves timers on: none is set by it, and those that are over   *)
(* stay over.                                                                *)
LEMMA TimersMove ==
  ASSUME DaemonIInv, timer' \in Seq(TimerRec), Len(timer') = Len(timer),
         \A u \in 1..Len(timer) :
           /\ timer'[u].path = timer[u].path
           /\ timer'[u].pc = "set" => timer[u].pc = "set"
           /\ timer[u].pc \in {"forget", "done"} => timer'[u].pc \in {"forget", "done"},
         debounce' = debounce, UNCHANGED <<disk, changes, events>>
  PROVE  DaemonIInv'
<1>0. DaemonTypes /\ TimersCounted /\ LatestInMap /\ TimersKnown BY DEF DaemonIInv
<1> DEFINE n == Len(timer)
<1>1. timer \in Seq(TimerRec) /\ debounce \in [Local -> 0..n] /\ n \in Nat BY <1>0 DEF DaemonTypes
<1>2. DaemonTypes' BY <1>0 DEF DaemonTypes
<1>3. TimersCounted' BY <1>0 DEF TimersCounted
<1>4. LatestInMap'
  <2> SUFFICES ASSUME NEW q \in Local, debounce[q] # 0
               PROVE  /\ timer'[debounce[q]].path = q
                      /\ \A t \in 1..n : timer'[t].path = q => t <= debounce[q]
    BY DEF LatestInMap
  <2>1. debounce[q] \in 1..n BY <1>1
  <2> QED BY <1>0, <2>1 DEF LatestInMap
<1>5. TimersKnown'
  <2>0. DOMAIN timer' = 1..n /\ DOMAIN timer = 1..n BY <1>1
  <2> SUFFICES ASSUME NEW t \in 1..n, timer'[t].pc = "set"
               PROVE  \/ debounce[timer'[t].path] = t
                      \/ \E s \in 1..(t - 1) : timer'[s].path = timer'[t].path /\ timer'[s].pc \in {"forget", "done"}
    BY <2>0 DEF TimersKnown
  <2>1. timer[t].pc = "set" /\ timer'[t].path = timer[t].path OBVIOUS
  <2>2. CASE debounce[timer[t].path] = t BY <2>1, <2>2
  <2>3. CASE debounce[timer[t].path] # t
    <3>1. PICK s \in 1..(t - 1) : timer[s].path = timer[t].path /\ timer[s].pc \in {"forget", "done"}
      BY <1>0, <2>0, <2>1, <2>3 DEF TimersKnown
    <3>2. s \in 1..n BY <1>1
    <3> QED BY <2>1, <3>1, <3>2
  <2> QED BY <2>2, <2>3
<1> QED BY <1>2, <1>3, <1>4, <1>5 DEF DaemonIInv

(* One timer's record is replaced.                                           *)
LEMMA TimerReplaced ==
  ASSUME timer \in Seq(TimerRec), NEW t \in DOMAIN timer, NEW r \in TimerRec,
         timer' = [timer EXCEPT ![t] = r]
  PROVE  /\ t \in 1..Len(timer) /\ timer' \in Seq(TimerRec) /\ Len(timer') = Len(timer)
         /\ timer'[t] = r /\ \A u \in 1..Len(timer) : u # t => timer'[u] = timer[u]
OBVIOUS

LEMMA TimerSteps ==
  ASSUME DaemonAssumption, DaemonIInv, NEW t \in DOMAIN timer, Fire(t) \/ uploadFile(t) \/ Forget(t)
  PROVE  DaemonIInv'
<1>0. DaemonTypes /\ TimersCounted /\ LatestInMap /\ TimersKnown BY DEF DaemonIInv
<1> DEFINE n == Len(timer)
<1>1. timer \in Seq(TimerRec) /\ debounce \in [Local -> 0..n] /\ n \in Nat
      /\ disk \in [Local -> 0..MaxChanges]
  BY <1>0 DEF DaemonTypes
<1>2. timer[t] \in TimerRec BY <1>1
<1>3. timer[t].path \in Local /\ timer[t].read \in Nat /\ timer[t].pc \in {"set", "upload", "forget", "done"}
  BY <1>2 DEF TimerRec
<1>4. CASE Fire(t)
  <2> DEFINE r == [timer[t] EXCEPT !.pc = "upload", !.read = disk[timer[t].path]]
  <2>0. disk[timer[t].path] \in Nat BY <1>1, <1>3
  <2>1. timer' = [timer EXCEPT ![t] = r] BY <1>4 DEF Fire
  <2>2. r \in TimerRec /\ r.path = timer[t].path /\ r.pc = "upload" BY <1>2, <2>0 DEF TimerRec
  <2> HIDE DEF r
  <2>3. /\ t \in 1..n /\ timer' \in Seq(TimerRec) /\ Len(timer') = n
        /\ timer'[t] = r /\ \A u \in 1..n : u # t => timer'[u] = timer[u]
    BY <1>1, <2>1, <2>2, TimerReplaced
  <2> QED BY <1>4, <2>2, <2>3, TimersMove DEF Fire
<1>5. CASE uploadFile(t)
  <2> DEFINE r == [timer[t] EXCEPT !.pc = "forget"]
  <2>1. timer' = [timer EXCEPT ![t] = r] BY <1>5 DEF uploadFile
  <2>2. r \in TimerRec /\ r.path = timer[t].path /\ r.pc = "forget" BY <1>2 DEF TimerRec
  <2> HIDE DEF r
  <2>3. /\ t \in 1..n /\ timer' \in Seq(TimerRec) /\ Len(timer') = n
        /\ timer'[t] = r /\ \A u \in 1..n : u # t => timer'[u] = timer[u]
    BY <1>1, <2>1, <2>2, TimerReplaced
  <2> QED BY <1>5, <2>2, <2>3, TimersMove DEF uploadFile
<1>6. CASE Forget(t)
  <2> DEFINE r == [timer[t] EXCEPT !.pc = "done"]
             p == timer[t].path
  <2>1. /\ timer' = [timer EXCEPT ![t] = r] /\ timer[t].pc = "forget"
        /\ debounce' = [debounce EXCEPT ![p] = 0] /\ UNCHANGED <<disk, changes, events>>
    BY <1>6 DEF Forget
  <2>2. r \in TimerRec /\ r.path = p /\ r.pc = "done" BY <1>2 DEF TimerRec
  <2> HIDE DEF r
  <2>3. /\ t \in 1..n /\ timer' \in Seq(TimerRec) /\ Len(timer') = n
        /\ timer'[t] = r /\ \A u \in 1..n : u # t => timer'[u] = timer[u]
    BY <1>1, <2>1, <2>2, TimerReplaced
  <2>4. \A u \in 1..n : timer'[u].path = timer[u].path BY <2>2, <2>3
  <2> HIDE DEF p
  <2>5. /\ debounce' \in [Local -> 0..n] /\ debounce'[p] = 0
        /\ \A q \in Local : q # p => debounce'[q] = debounce[q]
    BY <1>1, <1>3, <2>1 DEF p
  <2> HIDE DEF n
  <2>6. DaemonTypes' BY <1>0, <2>1, <2>3, <2>5 DEF DaemonTypes, n
  <2>7. TimersCounted' BY <1>0, <2>1, <2>3 DEF TimersCounted, n
  <2>8. LatestInMap'
    <3> SUFFICES ASSUME NEW q \in Local, debounce'[q] # 0
                 PROVE  /\ timer'[debounce'[q]].path = q
                        /\ \A u \in 1..n : timer'[u].path = q => u <= debounce'[q]
      BY <2>3 DEF LatestInMap
    <3>1. debounce'[q] = debounce[q] /\ debounce[q] \in 1..n BY <1>1, <2>5
    <3> QED BY <1>0, <2>4, <3>1 DEF LatestInMap, n
  <2>9. TimersKnown'
    <3>0. DOMAIN timer' = 1..n /\ DOMAIN timer = 1..n BY <1>1, <2>3 DEF n
    <3> SUFFICES ASSUME NEW u \in 1..n, timer'[u].pc = "set"
                 PROVE  \/ debounce'[timer'[u].path] = u
                        \/ \E s \in 1..(u - 1) : timer'[s].path = timer'[u].path /\ timer'[s].pc \in {"forget", "done"}
      BY <3>0 DEF TimersKnown
    <3>1. u # t /\ timer[u].pc = "set" /\ timer'[u].path = timer[u].path BY <2>2, <2>3
    <3>2. timer[u].path \in Local
      <4>1. timer[u] \in TimerRec BY <1>1 DEF n
      <4> QED BY <4>1 DEF TimerRec
    <3>3. CASE debounce[timer[u].path] = u /\ timer[u].path # p BY <2>5, <3>1, <3>2, <3>3
    <3>4. CASE debounce[timer[u].path] = u /\ timer[u].path = p
      <4>1. debounce[p] # 0 BY <1>1, <3>4
      <4>2. t <= u BY <1>0, <1>3, <2>3, <3>4, <4>1 DEF LatestInMap, n, p
      <4>3. t \in 1..(u - 1) BY <1>1, <2>3, <3>1, <4>2
      <4>4. timer'[t].path = timer'[u].path /\ timer'[t].pc = "done" BY <2>2, <2>3, <3>1, <3>4
      <4> QED BY <4>3, <4>4
    <3>5. CASE debounce[timer[u].path] # u
      <4>1. PICK s \in 1..(u - 1) : timer[s].path = timer[u].path /\ timer[s].pc \in {"forget", "done"}
        BY <1>0, <3>0, <3>1, <3>5 DEF TimersKnown
      <4>2. s \in 1..n BY <1>1
      <4>3. timer'[s].pc \in {"forget", "done"} BY <2>2, <2>3, <4>1, <4>2
      <4> QED BY <2>4, <3>1, <4>1, <4>2, <4>3
    <3> QED BY <3>3, <3>4, <3>5
  <2> QED BY <2>6, <2>7, <2>8, <2>9 DEF DaemonIInv
<1> QED BY <1>4, <1>5, <1>6

LEMMA StopTimersStep ==
  ASSUME DaemonAssumption, DaemonIInv, StopTimers
  PROVE  DaemonIInv'
<1> DEFINE n == Len(timer)
           f == [t \in 1..n |-> IF debounce[timer[t].path] = t /\ timer[t].pc = "set"
                                THEN [timer[t] EXCEPT !.pc = "done"] ELSE timer[t]]
<1>1. timer \in Seq(TimerRec) /\ n \in Nat /\ DOMAIN timer = 1..n BY DEF DaemonIInv, DaemonTypes
<1>2. timer' = f /\ UNCHANGED <<disk, changes, events, debounce>> BY <1>1 DEF StopTimers
<1>3. ASSUME NEW t \in 1..n
      PROVE  /\ f[t] \in TimerRec /\ f[t].path = timer[t].path
             /\ f[t] = timer[t] \/ (timer[t].pc = "set" /\ f[t].pc = "done")
  <2>1. timer[t] \in TimerRec BY <1>1
  <2> DEFINE r == [timer[t] EXCEPT !.pc = "done"]
  <2>2. r \in TimerRec /\ r.path = timer[t].path /\ r.pc = "done" BY <2>1 DEF TimerRec
  <2>3. f[t] = IF debounce[timer[t].path] = t /\ timer[t].pc = "set" THEN r ELSE timer[t] OBVIOUS
  <2> HIDE DEF f, r
  <2> QED BY <2>1, <2>2, <2>3
<1>4. f \in [1..n -> TimerRec] BY <1>3
<1> HIDE DEF f
<1>5. f \in Seq(TimerRec) /\ Len(f) = n BY <1>1, <1>4
<1>6. \A u \in 1..n : /\ timer'[u].path = timer[u].path
                      /\ timer'[u].pc = "set" => timer[u].pc = "set"
                      /\ timer[u].pc \in {"forget", "done"} => timer'[u].pc \in {"forget", "done"}
  BY <1>2, <1>3
<1> QED BY <1>2, <1>5, <1>6, TimersMove

LEMMA DaemonImplies ==
  ASSUME DaemonAssumption, DaemonIInv
  PROVE  DaemonTypeOK /\ TimersKnown
<1>0. DaemonTypes /\ TimersCounted /\ TimersKnown BY DEF DaemonIInv
<1>1. timer \in Seq(TimerRec) /\ Len(timer) \in Nat /\ changes \in 0..MaxChanges BY <1>0 DEF DaemonTypes
<1>2. Len(timer) <= changes
  <2>1. Cardinality(Pending(events)) \in Nat BY <1>0, PendingFinite DEF DaemonTypes
  <2>2. Len(timer) + Cardinality(Pending(events)) <= changes BY <1>0 DEF TimersCounted
  <2> QED BY <1>1, <2>1, <2>2 DEF DaemonAssumption
<1>3. \A t \in DOMAIN timer : timer[t].pc \in {"set", "upload", "forget", "done"}
  <2>1. \A t \in DOMAIN timer : timer[t] \in TimerRec BY <1>1
  <2> QED BY <2>1 DEF TimerRec
<1> QED BY <1>0, <1>2, <1>3 DEF DaemonTypeOK, DaemonTypes

-----------------------------------------------------------------------------
(* The theorems.                                                            *)

LEMMA BackgroundStep ==
  ASSUME PoolAssumption, TrashAssumption, DaemonAssumption, BackgroundIInv, [Work]_background
  PROVE  BackgroundIInv'
<1>0. PoolIInv /\ TrashTypeOK /\ DaemonIInv /\ part \in {"jobs", "trash", "daemon"} BY DEF BackgroundIInv
<1>1. UNCHANGED vars => PoolIInv'
  BY <1>0 DEF vars, PoolIInv, TypeOK, AllowedRetries, WorkersOK, OnePlace, NoneLost, Held, QueueOrdered,
     SchedulerFirst, PoolCancelled, NoLostWakeup
<1>2. UNCHANGED trashVars => TrashTypeOK'
  BY <1>0 DEF trashVars, request, TrashTypeOK, InBin, Range, MaxAge
<1>3. UNCHANGED daemonVars => DaemonIInv'
  BY <1>0 DEF daemonVars, DaemonIInv, DaemonTypes, TimersCounted, LatestInMap, TimersKnown
<1>4. Next => PoolIInv' BY <1>0, PoolNext
<1>5. TrashNext => TrashTypeOK' BY <1>0, TrashSteps
<1>6. DaemonNext => DaemonIInv'
  BY <1>0, ChangeStep, QuietSteps, WatchStep, TimerSteps, StopTimersStep DEF DaemonNext
<1> QED BY <1>0, <1>1, <1>2, <1>3, <1>4, <1>5, <1>6 DEF BackgroundIInv, Work, background

LEMMA BackgroundInductive == BackgroundSpec => []BackgroundIInv
<1>1. Start => BackgroundIInv
  BY PoolAssumption, TrashAssumption, DaemonAssumption, PoolInit, TrashStart, DaemonStart
  DEF Start, BackgroundIInv
<1>2. BackgroundIInv /\ [Work]_background => BackgroundIInv'
  BY PoolAssumption, TrashAssumption, DaemonAssumption, BackgroundStep
<1> QED BY <1>1, <1>2, PTL DEF BackgroundSpec

(* For any workers, jobs and priorities no job is lost or doubled on its way *)
(* through queue, workers and retries and the queue stays in order of        *)
(* priority (MemoryQueue, WorkerPool.processJob); the trash holds no item    *)
(* twice or while it is live (TrashBin); and a timer that runs down is in    *)
(* the daemon's map unless an earlier timer of the file took its entry       *)
(* (debounceUpload).                                                         *)
THEOREM BackgroundCorrect == BackgroundSpec => []BackgroundInv
<1>1. BackgroundIInv => BackgroundInv
  BY PoolAssumption, DaemonAssumption, PoolImplies, DaemonImplies DEF BackgroundIInv, BackgroundInv
<1> QED BY <1>1, BackgroundInductive, PTL

(* While a worker sleeps in cond.Wait, each queued job has a worker that is  *)
(* awake and on its way to Pop: Push signals under the lock, and a signal is *)
(* never spent on a worker that will not look at the queue.                  *)
THEOREM WakeupsKept == BackgroundSpec => []NoLostWakeup
<1>1. BackgroundIInv => NoLostWakeup BY DEF BackgroundIInv, PoolIInv
<1> QED BY <1>1, BackgroundInductive, PTL

(* Manager.Stop waits for the scheduler before it cancels the pool, so that  *)
(* no step after the cancellation submits a scheduled task.                  *)
THEOREM TasksEndBeforePool == BackgroundSpec => NoTaskAfterStop
<1>1. ASSUME BackgroundIInv, [Work]_background
      PROVE  [PoolCancelled => submitted' \cap Tasks = submitted \cap Tasks]_vars
  <2>1. SchedulerFirst BY <1>1 DEF BackgroundIInv, PoolIInv
  <2>2. SUFFICES ASSUME Next, PoolCancelled PROVE submitted' \cap Tasks = submitted \cap Tasks
    BY <1>1 DEF Work, background
  <2>3. sched = "gone" BY <2>1, <2>2 DEF SchedulerFirst
  <2>4. ASSUME NEW j \in Jobs, Submit(j) PROVE submitted' \cap Tasks = submitted \cap Tasks
    BY <2>4 DEF Submit
  <2>5. ASSUME NEW j \in Jobs, RunTask(j) PROVE FALSE BY <2>3, <2>5 DEF RunTask
  <2>6. ASSUME NEW w \in Workers, Step(w) PROVE submitted' = submitted
    BY <2>6 DEF Step, Top, Pop, Handle, Requeue, Send
  <2> QED BY <2>2, <2>4, <2>5, <2>6 DEF Next, ProcessResult, Tick, EndTick, SchedulerExit, StartManager,
        StopScheduler, StopPool, CloseResults
<1> QED BY <1>1, BackgroundInductive, PTL DEF BackgroundSpec, NoTaskAfterStop
=============================================================================
