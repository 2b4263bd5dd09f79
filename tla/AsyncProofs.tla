---------------------------- MODULE AsyncProofs ----------------------------
(* async's queues, flows, auto and iterators, for any number of tasks, of    *)
(* callers and of elements, queues of any concurrency and payload, loops of  *)
(* any limit, and any finite graph of tasks.                                 *)
(*                                                                           *)
(* QueueInv: every task that was pushed is in one place.  It waits, it is in *)
(* the load of one worker, or it was called back; only a kill makes tasks    *)
(* vanish, and only waiting ones.  That no task is forgotten rests on        *)
(* `process': whenever the event loop is idle while a task waits and a       *)
(* worker is free, one has been set by setImmediate and not run yet.         *)
(*                                                                           *)
(* FlowInv: a flow is one task, one timer or its answer; who waits for a     *)
(* memo is in the queue of its key, and only until the memo is there; a      *)
(* timeout has one timer, that of the caller who is still to be answered.    *)
(*                                                                           *)
(* AutoInv: the tasks taken from the stack of checkForDeadlocks are those    *)
(* that name reached tasks only, each once, and none of tasks that wait for  *)
(* each other is ever among them; a task is ready, running or has called     *)
(* back once all it depends on has, and only then.                           *)
(*                                                                           *)
(* EachInv: a limited loop counts the iteratees that are under way, the      *)
(* other one those that have called back without an error; what a consumer   *)
(* has gathered is what was called back by all the others; and as long as    *)
(* the callback is there the loop is still to call it: it looks for another  *)
(* element, or an iteratee is under way.                                     *)
EXTENDS AsyncQueue, AsyncAuto, AsyncFlow, AsyncEach, SequenceTheorems, FunctionTheorems,
        FiniteSetTheorems, WellFoundedInduction, TLAPS

USE QueueAssumption

-----------------------------------------------------------------------------
(* Sequences.                                                                *)
LEMMA SetOf ==
    ASSUME NEW S, NEW s \in Seq(S), NEW x
    PROVE  x \in ToSet(s) <=> \E k \in 1..Len(s) : s[k] = x
<1>1. DOMAIN s = 1..Len(s)
  BY LenProperties
<1> QED
  BY <1>1 DEF ToSet

LEMMA SetOfBoth ==
    ASSUME NEW S, NEW s \in Seq(S), NEW t \in Seq(S)
    PROVE  /\ s \o t \in Seq(S)
           /\ ToSet(s \o t) = ToSet(s) \cup ToSet(t)
<1>1. /\ s \o t \in Seq(S) /\ Len(s \o t) = Len(s) + Len(t)
      /\ \A k \in 1..(Len(s) + Len(t)) :
            (s \o t)[k] = IF k <= Len(s) THEN s[k] ELSE t[k - Len(s)]
      /\ Len(s) \in Nat /\ Len(t) \in Nat
  BY ConcatProperties, LenProperties
<1>2. ASSUME NEW x, x \in ToSet(s \o t) PROVE x \in ToSet(s) \cup ToSet(t)
  <2>0. PICK k \in 1..Len(s \o t) : (s \o t)[k] = x
    BY <1>1, <1>2, SetOf
  <2>1. k \in 1..(Len(s) + Len(t)) /\ (s \o t)[k] = x
    BY <1>1, <2>0
  <2>2. CASE k <= Len(s)
    BY <1>1, <2>1, <2>2, SetOf
  <2>3. CASE k > Len(s)
    <3>1. k - Len(s) \in 1..Len(t) /\ t[k - Len(s)] = x
      BY <1>1, <2>1, <2>3
    <3> QED
      BY <3>1, SetOf
  <2> QED
    BY <1>1, <2>2, <2>3
<1>3. ASSUME NEW x, x \in ToSet(s) PROVE x \in ToSet(s \o t)
  <2>1. PICK k \in 1..Len(s) : s[k] = x
    BY <1>3, SetOf
  <2>2. k \in 1..(Len(s) + Len(t)) /\ (s \o t)[k] = x
    BY <1>1, <2>1
  <2> QED
    BY <1>1, <2>2, SetOf
<1>4. ASSUME NEW x, x \in ToSet(t) PROVE x \in ToSet(s \o t)
  <2>1. PICK k \in 1..Len(t) : t[k] = x
    BY <1>4, SetOf
  <2>2. PICK j \in 1..(Len(s) + Len(t)) : j = k + Len(s)
    BY <1>1
  <2>3. (s \o t)[j] = x
    BY <1>1, <2>1, <2>2
  <2> QED
    BY <1>1, <2>3, SetOf
<1> QED
  BY <1>1, <1>2, <1>3, <1>4

LEMMA BothInjective ==
    ASSUME NEW S, NEW s \in Seq(S), NEW t \in Seq(S), IsInjective(s), IsInjective(t),
           ToSet(s) \cap ToSet(t) = {}
    PROVE  IsInjective(s \o t)
<1>1. /\ s \o t \in Seq(S) /\ Len(s \o t) = Len(s) + Len(t)
      /\ \A k \in 1..(Len(s) + Len(t)) :
            (s \o t)[k] = IF k <= Len(s) THEN s[k] ELSE t[k - Len(s)]
      /\ Len(s) \in Nat /\ Len(t) \in Nat
      /\ DOMAIN s = 1..Len(s) /\ DOMAIN t = 1..Len(t)
      /\ DOMAIN (s \o t) = 1..(Len(s) + Len(t))
  BY ConcatProperties, LenProperties
<1> SUFFICES ASSUME NEW j \in 1..(Len(s) + Len(t)), NEW k \in 1..(Len(s) + Len(t)),
                    (s \o t)[j] = (s \o t)[k]
             PROVE  j = k
  BY <1>1 DEF IsInjective
<1>2. \A i \in 1..(Len(s) + Len(t)) : i > Len(s) => i - Len(s) \in 1..Len(t)
  BY <1>1
<1>3. \A i \in 1..Len(s) : s[i] \in ToSet(s)
  BY SetOf
<1>4. \A i \in 1..Len(t) : t[i] \in ToSet(t)
  BY SetOf
<1>5. CASE j <= Len(s) /\ k <= Len(s)
  BY <1>1, <1>5 DEF IsInjective
<1>6. CASE j > Len(s) /\ k > Len(s)
  <2>1. t[j - Len(s)] = t[k - Len(s)]
    BY <1>1, <1>6
  <2>2. j - Len(s) = k - Len(s)
    BY <1>1, <1>2, <1>6, <2>1 DEF IsInjective
  <2> QED
    BY <1>1, <2>2
<1>7. CASE j <= Len(s) /\ k > Len(s)
  BY <1>1, <1>2, <1>3, <1>4, <1>7
<1>8. CASE j > Len(s) /\ k <= Len(s)
  BY <1>1, <1>2, <1>3, <1>4, <1>8
<1> QED
  BY <1>1, <1>5, <1>6, <1>7, <1>8

LEMMA Inserted ==
    ASSUME NEW S, NEW s \in Seq(S), NEW i \in 1..(Len(s) + 1), NEW e \in S
    PROVE  /\ InsertAt(s, i, e) \in Seq(S) /\ Len(InsertAt(s, i, e)) = Len(s) + 1
           /\ \A k \in 1..(Len(s) + 1) :
                 InsertAt(s, i, e)[k] = IF k < i THEN s[k] ELSE IF k = i THEN e ELSE s[k - 1]
<1>1. Len(s) \in Nat
  BY LenProperties
<1>2. PICK u : u = SubSeq(s, 1, i - 1)
  OBVIOUS
<1>3. PICK w : w = SubSeq(s, i, Len(s))
  OBVIOUS
<1>4. /\ u \in Seq(S) /\ Len(u) = i - 1
      /\ \A k \in 1..(i - 1) : u[k] = s[k]
  <2>1. 1 \in 1..(Len(s) + 1) /\ i - 1 \in 0..Len(s)
    BY <1>1
  <2>2. \A k \in 1..Len(s) : s[k] \in S
    BY ElementOfSeq
  <2> QED
    BY <1>1, <1>2, <2>1, <2>2, SubSeqProperties
<1>5. /\ w \in Seq(S) /\ Len(w) = Len(s) + 1 - i
      /\ \A k \in 1..(Len(s) + 1 - i) : w[k] = s[i + k - 1]
  BY <1>1, <1>3, SubSeqProperties
<1>6. /\ <<e>> \in Seq(S) /\ u \o <<e>> \in Seq(S) /\ Len(u \o <<e>>) = i
      /\ \A k \in 1..i : (u \o <<e>>)[k] = IF k < i THEN s[k] ELSE e
  BY <1>1, <1>4, ConcatProperties
<1>7. InsertAt(s, i, e) = (u \o <<e>>) \o w
  BY <1>2, <1>3 DEF InsertAt
<1>8. PICK v \in Seq(S) : v = u \o <<e>>
  BY <1>6
<1>9. /\ v \o w \in Seq(S) /\ Len(v \o w) = Len(v) + Len(w)
      /\ \A k \in 1..(Len(v) + Len(w)) :
            (v \o w)[k] = IF k <= Len(v) THEN v[k] ELSE w[k - Len(v)]
  BY <1>5, ConcatProperties
<1>10. /\ Len(v) = i /\ Len(v) + Len(w) = Len(s) + 1
       /\ \A k \in 1..i : v[k] = IF k < i THEN s[k] ELSE e
  <2>1. Len(v) = i
    BY <1>6, <1>8
  <2>2. \A k \in 1..i : v[k] = IF k < i THEN s[k] ELSE e
    BY <1>6, <1>8
  <2> QED
    BY <1>1, <1>5, <2>1, <2>2
<1>11. ASSUME NEW k \in 1..(Len(s) + 1)
       PROVE  (v \o w)[k] = IF k < i THEN s[k] ELSE IF k = i THEN e ELSE s[k - 1]
  <2>1. CASE k <= i
    <3>1. k \in 1..i /\ k \in 1..(Len(v) + Len(w)) /\ k <= Len(v)
      BY <1>1, <1>10, <2>1
    <3>2. (v \o w)[k] = v[k]
      BY <1>9, <3>1
    <3>3. v[k] = IF k < i THEN s[k] ELSE e
      BY <1>10, <3>1
    <3>4. CASE k < i
      BY <3>2, <3>3, <3>4
    <3>5. CASE ~ (k < i)
      <4>1. k = i /\ v[k] = e
        BY <1>1, <2>1, <3>3, <3>5
      <4> QED
        BY <3>2, <3>5, <4>1
    <3> QED
      BY <3>4, <3>5
  <2>2. CASE k > i
    <3>1. PICK j \in 1..(Len(s) + 1 - i) : j = k - i
      BY <1>1, <2>2
    <3>2. w[j] = s[i + j - 1] /\ i + j - 1 = k - 1
      BY <1>1, <1>5, <3>1
    <3> QED
      BY <1>1, <1>9, <1>10, <2>2, <3>1, <3>2
  <2>3. k <= i \/ k > i
    BY <1>1
  <2> QED
    BY <2>1, <2>2, <2>3
<1> QED
  BY <1>7, <1>8, <1>9, <1>10, <1>11

LEMMA Rest ==
    ASSUME NEW S, NEW s \in Seq(S), NEW d \in 1..Len(s)
    PROVE  /\ SubSeq(s, d + 1, Len(s)) \in Seq(S)
           /\ Len(SubSeq(s, d + 1, Len(s))) = Len(s) - d
           /\ \A k \in 1..(Len(s) - d) : SubSeq(s, d + 1, Len(s))[k] = s[d + k]
<1>1. Len(s) \in Nat
  BY LenProperties
<1>2. PICK i \in 1..(Len(s) + 1) : i = d + 1
  BY <1>1
<1>3. PICK n \in i - 1..Len(s) : n = Len(s)
  BY <1>1, <1>2
<1>4. PICK t : t = SubSeq(s, i, n)
  OBVIOUS
<1>5. /\ t \in Seq(S) /\ Len(t) = n - i + 1
      /\ \A k \in 1..(n - i + 1) : t[k] = s[i + k - 1]
  BY <1>4, SubSeqProperties
<1>6. n - i + 1 = n - d
  BY <1>1, <1>2
<1>7. \A k \in 1..(n - d) : i + k - 1 = d + k
  BY <1>1, <1>2
<1> QED
  BY <1>2, <1>3, <1>4, <1>5, <1>6, <1>7

(* Numbers have a least one among them.                                      *)
LEMMA Least ==
    ASSUME NEW T, T \subseteq Nat, T # {}
    PROVE  \E x \in T : \A y \in T : x <= y
<1> DEFINE Less == OpToRel(<, Nat)
<1>1. IsWellFoundedOn(Less, Nat)
  BY NatLessThanWellFounded
<1>2. \A x, y \in Nat : x < y => <<x, y>> \in Less
  BY DEF OpToRel
<1> HIDE DEF Less
<1>3. PICK x \in T : \A y \in T : ~ (<<y, x>> \in Less)
  BY <1>1, WFMin
<1>4. ASSUME NEW y \in T PROVE x <= y
  <2>1. x \in Nat /\ y \in Nat
    OBVIOUS
  <2>2. ~ (y < x)
    BY <1>2, <1>3, <2>1
  <2> QED
    BY <2>1, <2>2
<1> QED
  BY <1>4

(* The elements of a set one after another.                                  *)
LEMMA InSomeOrder ==
    ASSUME NEW S, NEW T, IsFiniteSet(T), T \subseteq S
    PROVE  /\ SetToSeq(T) \in Seq(S) /\ IsInjective(SetToSeq(T)) /\ ToSet(SetToSeq(T)) = T
<1>1. PICK n : n = Cardinality(T)
  OBVIOUS
<1>2. n \in Nat /\ \E f \in [1..n -> T] : IsInjective(f)
  <2>1. n \in Nat /\ ExistsBijection(1..n, T)
    BY <1>1, FS_CardinalityType
  <2> QED
    BY <2>1 DEF ExistsBijection, Bijection, Injection
<1>3. PICK s : s = SetToSeq(T)
  OBVIOUS
<1>4. s \in [1..n -> T] /\ IsInjective(s)
  BY <1>1, <1>2, <1>3 DEF SetToSeq
<1>5. s \in Seq(S)
  <2>1. s = [k \in 1..n |-> s[k]] /\ \A k \in 1..n : s[k] \in S
    BY <1>4
  <2> QED
    BY <1>2, <2>1
<1>6. s \in Surjection(1..n, T)
  <2>1. Cardinality(1..n) = n
    BY <1>2, FS_Interval
  <2>2. s \in Injection(1..n, T)
    BY <1>4 DEF Injection
  <2> QED
    BY <1>1, <2>1, <2>2, FS_Injection
<1>7. ToSet(s) = T
  <2>1. DOMAIN s = 1..n /\ \A x \in T : \E k \in 1..n : s[k] = x
    BY <1>4, <1>6 DEF Surjection
  <2> QED
    BY <1>4, <2>1 DEF ToSet
<1> QED
  BY <1>3, <1>4, <1>5, <1>7

(* A sequence has at most as many different elements as places, and as many  *)
(* if it names each of them once.                                            *)
LEMMA DifferentElements ==
    ASSUME NEW S, NEW s \in Seq(S)
    PROVE  /\ IsFiniteSet(ToSet(s)) /\ Cardinality(ToSet(s)) \in Nat
           /\ Cardinality(ToSet(s)) <= Len(s)
           /\ Cardinality(ToSet(s)) = Len(s) <=> IsInjective(s)
<1>1. PICK n \in Nat : n = Len(s)
  BY LenProperties
<1>2. s \in [1..n -> ToSet(s)] /\ DOMAIN s = 1..n
  BY <1>1, LenProperties DEF ToSet
<1>3. s \in Surjection(1..n, ToSet(s))
  BY <1>2, <1>1, SetOf DEF Surjection
<1>4. IsFiniteSet(1..n) /\ Cardinality(1..n) = n
  BY FS_Interval
<1>5. /\ IsFiniteSet(ToSet(s)) /\ Cardinality(ToSet(s)) <= n
      /\ Cardinality(ToSet(s)) = n <=> s \in Injection(1..n, ToSet(s))
  BY <1>3, <1>4, FS_Surjection
<1>6. s \in Injection(1..n, ToSet(s)) <=> IsInjective(s)
  BY <1>2 DEF Injection
<1>7. Cardinality(ToSet(s)) \in Nat
  BY <1>5, FS_CardinalityType
<1> QED
  BY <1>1, <1>5, <1>6, <1>7

LEMMA AllButLast ==
    ASSUME NEW S, NEW s \in Seq(S), s # <<>>
    PROVE  /\ Last(s) \in S /\ Front(s) \in Seq(S)
           /\ ToSet(s) = ToSet(Front(s)) \cup {Last(s)}
           /\ IsInjective(s) => IsInjective(Front(s)) /\ Last(s) \notin ToSet(Front(s))
<1>1. PICK n \in Nat \ {0} : n = Len(s)
  BY LenProperties, EmptySeq
<1>2. PICK f : f = Front(s)
  OBVIOUS
<1>3. /\ f \in Seq(S) /\ Len(f) = n - 1
      /\ \A k \in 1..(n - 1) : f[k] = s[k]
  <2>1. PICK m \in 0..n : m = n - 1
    BY <1>1
  <2>2. f = SubSeq(s, 1, m) /\ 1 \in 1..(Len(s) + 1) /\ m \in 0..Len(s) /\ m = m - 1 + 1
    BY <1>1, <1>2, <2>1 DEF Front
  <2>3. \A k \in 1..n : s[k] \in S
    BY <1>1, ElementOfSeq
  <2> QED
    BY <1>1, <2>1, <2>2, <2>3, SubSeqProperties
<1>4. Last(s) = s[n] /\ s[n] \in S
  BY <1>1, ElementOfSeq DEF Last
<1>5. DOMAIN s = 1..n /\ DOMAIN f = 1..(n - 1)
  BY <1>1, <1>3, LenProperties
<1>6. 1..n = 1..(n - 1) \cup {n} /\ n \notin 1..(n - 1)
  BY <1>1
<1>7. ToSet(s) = ToSet(f) \cup {s[n]}
  <2>1. ToSet(s) = {s[k] : k \in 1..n} /\ ToSet(f) = {f[k] : k \in 1..(n - 1)}
    BY <1>5 DEF ToSet
  <2> QED
    BY <1>3, <1>6, <2>1
<1>8. IsInjective(s) => IsInjective(f) /\ s[n] \notin ToSet(f)
  BY <1>3, <1>5, <1>6 DEF IsInjective, ToSet
<1> QED
  BY <1>2, <1>3, <1>4, <1>7, <1>8

LEMMA AllButFirst ==
    ASSUME NEW S, NEW s \in Seq(S), s # <<>>
    PROVE  /\ Head(s) \in S /\ Tail(s) \in Seq(S)
           /\ ToSet(s) = ToSet(Tail(s)) \cup {Head(s)}
           /\ IsInjective(s) => IsInjective(Tail(s)) /\ Head(s) \notin ToSet(Tail(s))
<1>1. PICK n \in Nat \ {0} : n = Len(s)
  BY LenProperties, EmptySeq
<1>2. PICK t : t = Tail(s)
  OBVIOUS
<1>3. /\ t \in Seq(S) /\ Len(t) = n - 1
      /\ \A k \in 1..(n - 1) : t[k] = s[k + 1]
  BY <1>1, <1>2, HeadTailProperties
<1>4. Head(s) = s[1] /\ s[1] \in S
  BY <1>1, ElementOfSeq
<1>5. DOMAIN s = 1..n /\ DOMAIN t = 1..(n - 1)
  BY <1>1, <1>3, LenProperties
<1>6. \A k \in 1..n : k = 1 \/ \E j \in 1..(n - 1) : k = j + 1
  <2>1. ASSUME NEW k \in 1..n, k # 1 PROVE k - 1 \in 1..(n - 1) /\ k = (k - 1) + 1
    BY <2>1
  <2> QED
    BY <2>1
<1>7. \A j \in 1..(n - 1) : j + 1 \in 1..n /\ j + 1 # 1
  BY <1>1
<1>8. ToSet(s) = ToSet(t) \cup {s[1]}
  <2>1. ToSet(s) = {s[k] : k \in 1..n} /\ ToSet(t) = {t[k] : k \in 1..(n - 1)}
    BY <1>5 DEF ToSet
  <2>2. ASSUME NEW x \in ToSet(s), x # s[1] PROVE x \in ToSet(t)
    <3>1. PICK k \in 1..n : s[k] = x
      BY <2>1
    <3>2. PICK j \in 1..(n - 1) : k = j + 1
      BY <1>6, <2>2, <3>1
    <3> QED
      BY <1>3, <2>1, <3>1, <3>2
  <2>3. ToSet(t) \subseteq ToSet(s)
    BY <1>3, <1>7, <2>1
  <2>4. s[1] \in ToSet(s)
    BY <1>1, <2>1
  <2> QED
    BY <2>2, <2>3, <2>4
<1>9. ASSUME IsInjective(s) PROVE IsInjective(t) /\ s[1] \notin ToSet(t)
  <2>1. \A i, j \in 1..(n - 1) : t[i] = t[j] => i + 1 = j + 1
    BY <1>3, <1>5, <1>7, <1>9 DEF IsInjective
  <2>2. \A j \in 1..(n - 1) : t[j] # s[1]
    BY <1>1, <1>3, <1>5, <1>7, <1>9 DEF IsInjective
  <2> QED
    BY <1>5, <2>1, <2>2 DEF IsInjective, ToSet
<1> QED
  BY <1>2, <1>3, <1>4, <1>8, <1>9

-----------------------------------------------------------------------------
(* The invariant.                                                            *)
Task == [id : Nat, priority : Nat]

QueueTypeOK ==
    /\ q \in [kind : {k.kind : k \in QueueKinds}, concurrency : Nat \ {0},
              payload : Nat \ {0}, paused : BOOLEAN, killed : BOOLEAN]
    /\ tasks \in Seq(Task)
    /\ workers \in Nat
    /\ IsFiniteSet(given) /\ given \subseteq Seq(Nat)
    /\ immediates \in [process : Nat, drain : Nat]
    /\ phase \in {"idle", "process", "next"}
    /\ work \in [pushed : Seq(Nat), taken : Seq(Nat), called : Seq(Nat), drained : Seq(Nat),
                 switches : Nat, emptyPushes : Nat]

Waiting == {tasks[k].id : k \in DOMAIN tasks}
Pushed == DOMAIN work.pushed

(* A task waits in one place, and one that waits was not taken.              *)
WaitingOnce ==
    /\ \A j, k \in DOMAIN tasks : tasks[j].id = tasks[k].id => j = k
    /\ Waiting \cap ToSet(work.taken) = {}
    /\ Waiting \cup ToSet(work.taken) \subseteq Pushed
    /\ ~q.killed => Pushed \subseteq Waiting \cup ToSet(work.taken)
    /\ q.kind = "priority" => InOrderOfPriority

(* One that was taken is in one load or was called back.                     *)
TakenOnce ==
    /\ IsInjective(work.taken) /\ IsInjective(work.called)
    /\ ToSet(work.taken) = ToSet(work.called) \cup Ids(given)
    /\ ToSet(work.called) \cap Ids(given) = {}
    /\ \A l \in given : l # <<>> /\ IsInjective(l)
    /\ \A l, m \in given : l # m => ToSet(l) \cap ToSet(m) = {}

WorkersRight == workers = Cardinality(given) /\ workers <= q.concurrency

ProcessComes == phase = "idle" /\ MayTake => immediates.process > 0

DrainsRight ==
    /\ immediates.drain > 0 => work.emptyPushes > 0
    /\ \A k \in DOMAIN work.drained : work.drained[k] > 0 => work.emptyPushes > 0

QueueInv == QueueTypeOK /\ WaitingOnce /\ TakenOnce /\ WorkersRight /\ ProcessComes /\ DrainsRight

LEMMA QueueInvGives == QueueInv => TasksRunOnce
<1> SUFFICES ASSUME QueueInv PROVE TasksRunOnce
  OBVIOUS
<1>1. ~q.killed => Pushed \ ToSet(work.taken) = Waiting
  BY DEF QueueInv, WaitingOnce
<1> QED
  BY <1>1 DEF QueueInv, TasksRunOnce, WaitingOnce, TakenOnce, WorkersRight, ProcessComes,
              DrainsRight, Waiting, Pushed

LEMMA InitQueue == QueueInit => QueueInv
<1> SUFFICES ASSUME QueueInit PROVE QueueInv
  OBVIOUS
<1>1. PICK k \in QueueKinds :
         q = [kind |-> k.kind, concurrency |-> k.concurrency, payload |-> k.payload,
              paused |-> FALSE, killed |-> FALSE]
  BY DEF QueueInit
<1>2. /\ tasks = <<>> /\ workers = 0 /\ given = {}
      /\ immediates = [process |-> 0, drain |-> 0] /\ phase = "idle"
      /\ work = [pushed |-> <<>>, taken |-> <<>>, called |-> <<>>, drained |-> <<>>,
                 switches |-> 0, emptyPushes |-> 0]
  BY DEF QueueInit
<1>3. /\ work.pushed = <<>> /\ work.taken = <<>> /\ work.called = <<>> /\ work.drained = <<>>
      /\ immediates.process = 0 /\ immediates.drain = 0
  BY <1>2
<1>4. /\ DOMAIN tasks = {} /\ Pushed = {} /\ Waiting = {} /\ ToSet(work.taken) = {}
      /\ ToSet(work.called) = {} /\ Ids(given) = {} /\ DOMAIN work.drained = {}
      /\ IsInjective(work.taken) /\ IsInjective(work.called)
  <2>1. DOMAIN <<>> = {}
    OBVIOUS
  <2> QED
    BY <1>2, <1>3, <2>1 DEF Pushed, Waiting, ToSet, Ids, IsInjective
<1>5. QueueTypeOK
  <2>1. q \in [kind : {x.kind : x \in QueueKinds}, concurrency : Nat \ {0},
               payload : Nat \ {0}, paused : BOOLEAN, killed : BOOLEAN]
    BY <1>1
  <2>2. IsFiniteSet(given)
    BY <1>2, FS_EmptySet
  <2>3. tasks \in Seq(Task) /\ <<>> \in Seq(Nat)
    BY <1>2, EmptySeq
  <2> QED
    BY <1>2, <2>1, <2>2, <2>3 DEF QueueTypeOK
<1>6. WaitingOnce
  BY <1>4 DEF WaitingOnce, InOrderOfPriority
<1>7. TakenOnce
  BY <1>2, <1>4 DEF TakenOnce
<1>8. WorkersRight
  <2>1. Cardinality(given) = 0
    BY <1>2, FS_EmptySet
  <2> QED
    BY <1>2, <1>5, <2>1 DEF WorkersRight, QueueTypeOK
<1>9. ProcessComes /\ DrainsRight
  BY <1>2, <1>3, <1>4 DEF ProcessComes, MayTake, DrainsRight
<1> QED
  BY <1>5, <1>6, <1>7, <1>8, <1>9 DEF QueueInv

-----------------------------------------------------------------------------
(* The steps.                                                                *)

(* What is inserted at a place keeps the others in their order; in a         *)
(* priority queue those before it are no later, those behind it are later.   *)
LEMMA InsertStep ==
    ASSUME QueueInv, NEW at \in 1..(Len(tasks) + 1), NEW p \in Nat, Insert(at, p),
           q.kind = "priority" =>
              /\ \A k \in 1..Len(tasks) : k < at => tasks[k].priority <= p
              /\ \A k \in 1..Len(tasks) : at <= k => p < tasks[k].priority
    PROVE  QueueInv'
<1>1. /\ tasks \in Seq(Task) /\ Len(tasks) \in Nat /\ DOMAIN tasks = 1..Len(tasks)
      /\ work.pushed \in Seq(Nat) /\ Len(work.pushed) \in Nat
      /\ \A k \in 1..Len(tasks) : tasks[k] \in Task
  BY LenProperties, ElementOfSeq DEF QueueInv, QueueTypeOK
<1>2. PICK n \in Nat : n = Len(work.pushed) + 1
  BY <1>1
<1>3. PICK e \in Task : e = [id |-> n, priority |-> p]
  BY DEF Task
<1>4. /\ tasks' = InsertAt(tasks, at, e)
      /\ immediates' = [immediates EXCEPT !.process = @ + 1]
      /\ work' = [work EXCEPT !.pushed = Append(@, p)]
      /\ q' = q /\ workers' = workers /\ given' = given /\ phase' = phase
  BY <1>2, <1>3 DEF Insert
<1>5. /\ tasks' \in Seq(Task) /\ Len(tasks') = Len(tasks) + 1
      /\ \A k \in 1..(Len(tasks) + 1) :
            tasks'[k] = IF k < at THEN tasks[k] ELSE IF k = at THEN e ELSE tasks[k - 1]
  <2>1. /\ InsertAt(tasks, at, e) \in Seq(Task) /\ Len(InsertAt(tasks, at, e)) = Len(tasks) + 1
        /\ \A k \in 1..(Len(tasks) + 1) :
              InsertAt(tasks, at, e)[k]
                 = IF k < at THEN tasks[k] ELSE IF k = at THEN e ELSE tasks[k - 1]
    BY <1>1, Inserted
  <2> QED
    BY <1>4, <2>1
<1>6. DOMAIN tasks' = 1..(Len(tasks) + 1)
  BY <1>5, LenProperties
<1>7. /\ work'.pushed = Append(work.pushed, p) /\ work'.taken = work.taken
      /\ work'.called = work.called /\ work'.drained = work.drained
      /\ work'.switches = work.switches /\ work'.emptyPushes = work.emptyPushes
      /\ immediates'.process = immediates.process + 1 /\ immediates'.drain = immediates.drain
  BY <1>4 DEF QueueInv, QueueTypeOK
<1>8. work'.pushed \in Seq(Nat) /\ Pushed = 1..(n - 1) /\ Pushed' = 1..n
  BY <1>1, <1>2, <1>7, AppendProperties, LenProperties DEF Pushed
<1>9. \A k \in 1..Len(tasks) : tasks[k].id \in 1..(n - 1)
  BY <1>1, <1>8 DEF QueueInv, WaitingOnce, Waiting
<1> DEFINE Old(k) == IF k < at THEN k ELSE k - 1
<1>10. \A k \in DOMAIN tasks' :
          k # at => Old(k) \in 1..Len(tasks) /\ tasks'[k] = tasks[Old(k)]
  BY <1>1, <1>5, <1>6
<1>11. \A j, k \in DOMAIN tasks' : j # at /\ k # at =>
          (Old(j) = Old(k) => j = k) /\ (j < k => Old(j) < Old(k))
  BY <1>1, <1>6
<1>12. at \in DOMAIN tasks' /\ tasks'[at] = e /\ e.id = n /\ e.priority = p
  BY <1>1, <1>3, <1>5, <1>6
<1>13. \A j, k \in DOMAIN tasks' : j < k =>
          /\ k = at => Old(j) < at
          /\ j = at => at <= Old(k)
  BY <1>1, <1>6
<1> HIDE DEF Old
<1>14. \A k \in DOMAIN tasks' : tasks'[k].id \in 1..n /\ (k # at => tasks'[k].id # n)
  BY <1>2, <1>9, <1>10, <1>12
<1>15. Waiting' = Waiting \cup {n}
  <2>1. \A k \in DOMAIN tasks' : tasks'[k].id \in Waiting \cup {n}
    BY <1>1, <1>10, <1>12 DEF Waiting
  <2>2. \A k \in DOMAIN tasks : \E j \in DOMAIN tasks' : tasks'[j].id = tasks[k].id
    <3> SUFFICES ASSUME NEW k \in 1..Len(tasks)
                 PROVE  \E j \in DOMAIN tasks' : tasks'[j].id = tasks[k].id
      BY <1>1
    <3>1. CASE k < at
      BY <1>1, <1>5, <1>6, <3>1
    <3>2. CASE k >= at
      <4>1. PICK j \in 1..(Len(tasks) + 1) : j = k + 1
        BY <1>1
      <4>2. ~ (j < at) /\ j # at /\ j - 1 = k
        BY <3>2, <4>1
      <4>3. tasks'[j] = tasks[k]
        BY <1>5, <4>2
      <4> QED
        BY <1>6, <4>3
    <3> QED
      BY <1>1, <3>1, <3>2
  <2> QED
    BY <1>12, <2>1, <2>2 DEF Waiting
<1>16. QueueTypeOK'
  <2>1. immediates' \in [process : Nat, drain : Nat]
    <3>1. immediates.process + 1 \in Nat
      BY DEF QueueInv, QueueTypeOK
    <3> QED
      BY <1>4, <3>1 DEF QueueInv, QueueTypeOK
  <2>2. work' \in [pushed : Seq(Nat), taken : Seq(Nat), called : Seq(Nat), drained : Seq(Nat),
                   switches : Nat, emptyPushes : Nat]
    <3>1. Append(work.pushed, p) \in Seq(Nat)
      BY <1>7, <1>8
    <3> QED
      BY <1>4, <3>1 DEF QueueInv, QueueTypeOK
  <2> QED
    BY <1>4, <1>5, <2>1, <2>2 DEF QueueInv, QueueTypeOK
<1>17. WaitingOnce'
  <2>1. \A j, k \in DOMAIN tasks' : tasks'[j].id = tasks'[k].id => j = k
    <3> SUFFICES ASSUME NEW j \in DOMAIN tasks', NEW k \in DOMAIN tasks',
                        tasks'[j].id = tasks'[k].id, j # k
                 PROVE  FALSE
      OBVIOUS
    <3>1. j # at /\ k # at
      BY <1>12, <1>14
    <3>2. Old(j) = Old(k)
      BY <1>1, <1>10, <3>1 DEF QueueInv, WaitingOnce
    <3> QED
      BY <1>11, <3>1, <3>2
  <2>2. n \notin ToSet(work.taken) /\ 1..n = (1..(n - 1)) \cup {n}
    BY <1>2, <1>8 DEF QueueInv, WaitingOnce
  <2>3. (q.kind = "priority" => InOrderOfPriority)'
    <3> SUFFICES ASSUME q.kind = "priority", NEW j \in DOMAIN tasks', NEW k \in DOMAIN tasks',
                        j < k
                 PROVE  \/ tasks'[j].priority < tasks'[k].priority
                        \/ tasks'[j].priority = tasks'[k].priority /\ tasks'[j].id < tasks'[k].id
      BY <1>4 DEF InOrderOfPriority
    <3>1. CASE j # at /\ k # at
      <4>1. Old(j) \in DOMAIN tasks /\ Old(k) \in DOMAIN tasks /\ Old(j) < Old(k)
        BY <1>1, <1>10, <1>11, <3>1
      <4>2. \/ tasks[Old(j)].priority < tasks[Old(k)].priority
            \/ /\ tasks[Old(j)].priority = tasks[Old(k)].priority
               /\ tasks[Old(j)].id < tasks[Old(k)].id
        BY <4>1 DEF QueueInv, WaitingOnce, InOrderOfPriority
      <4> QED
        BY <1>10, <3>1, <4>2
    <3>2. CASE j = at
      <4>1. k # at /\ at <= Old(k) /\ Old(k) \in 1..Len(tasks)
        BY <1>10, <1>13, <3>2
      <4>2. p < tasks[Old(k)].priority
        BY <4>1
      <4> QED
        BY <1>10, <1>12, <3>2, <4>1, <4>2
    <3>3. CASE k = at
      <4>1. j # at /\ Old(j) < at /\ Old(j) \in 1..Len(tasks)
        BY <1>10, <1>13, <3>3
      <4>2. /\ tasks[Old(j)].priority <= p /\ tasks[Old(j)].priority \in Nat
            /\ tasks[Old(j)].id \in 1..(n - 1)
        BY <1>1, <1>9, <4>1 DEF Task
      <4>3. tasks'[j] = tasks[Old(j)] /\ tasks'[k].priority = p /\ tasks'[k].id = n
        BY <1>10, <1>12, <3>3, <4>1
      <4> QED
        BY <4>2, <4>3
    <3> QED
      BY <3>1, <3>2, <3>3
  <2> QED
    BY <1>4, <1>7, <1>8, <1>15, <2>1, <2>2, <2>3 DEF QueueInv, WaitingOnce
<1>18. TakenOnce' /\ WorkersRight'
  BY <1>4, <1>7 DEF QueueInv, TakenOnce, WorkersRight
<1>19. ProcessComes'
  BY <1>7 DEF QueueInv, QueueTypeOK, ProcessComes
<1>20. DrainsRight'
  BY <1>7 DEF QueueInv, DrainsRight
<1> QED
  BY <1>16, <1>17, <1>18, <1>19, <1>20 DEF QueueInv

LEMMA PushStep == ASSUME QueueInv, QueuePush PROVE QueueInv'
<1>1. /\ tasks \in Seq(Task) /\ Len(tasks) \in Nat /\ DOMAIN tasks = 1..Len(tasks)
      /\ \A k \in 1..Len(tasks) : tasks[k] \in Task
  BY LenProperties, ElementOfSeq DEF QueueInv, QueueTypeOK
<1>2. CASE q.kind # "priority"
  <2>1. PICK at \in 1..(Len(tasks) + 1) : at = Len(tasks) + 1
    BY <1>1
  <2> QED
    BY <1>2, <2>1, InsertStep DEF QueuePush
<1>3. ASSUME q.kind = "priority" PROVE QueueInv'
  <2>1. PICK p \in Priorities : Insert(NextNode(p), p)
    BY <1>3 DEF QueuePush
  <2>2. p \in Nat
    BY DEF Priorities
  <2> DEFINE later == {k \in DOMAIN tasks : ~ (p >= tasks[k].priority)}
  <2>3. /\ NextNode(p) \in 1..(Len(tasks) + 1)
        /\ \A k \in 1..Len(tasks) : k < NextNode(p) => tasks[k].priority <= p
        /\ \A k \in 1..Len(tasks) : NextNode(p) <= k => p < tasks[k].priority
    <3>1. CASE later = {}
      <4>1. NextNode(p) = Len(tasks) + 1
        BY <3>1 DEF NextNode
      <4>2. \A k \in 1..Len(tasks) : p >= tasks[k].priority
        BY <1>1, <3>1
      <4>3. \A k \in 1..Len(tasks) : tasks[k].priority \in Nat
        BY <1>1 DEF Task
      <4> QED
        BY <1>1, <2>2, <4>1, <4>2, <4>3
    <3>2. CASE later # {}
      <4>1. later \subseteq Nat
        BY <1>1
      <4> HIDE DEF later
      <4>2. \E x \in later : \A y \in later : x <= y
        BY <3>2, <4>1, Least
      <4> USE DEF later
      <4>3. NextNode(p) = CHOOSE x \in later : \A y \in later : x <= y
        BY <3>2 DEF NextNode
      <4>4. NextNode(p) \in later /\ \A y \in later : NextNode(p) <= y
        BY <4>2, <4>3
      <4>5. PICK f \in 1..Len(tasks) :
              /\ f = NextNode(p) /\ ~ (p >= tasks[f].priority)
              /\ \A y \in later : f <= y
        BY <1>1, <4>4
      <4>6. ASSUME NEW k \in 1..Len(tasks), k < f PROVE tasks[k].priority <= p
        <5>1. k \notin later
          BY <1>1, <4>5, <4>6
        <5>2. tasks[k].priority \in Nat
          BY <1>1 DEF Task
        <5> QED
          BY <1>1, <2>2, <5>1, <5>2
      <4>7. ASSUME NEW k \in 1..Len(tasks), f <= k PROVE p < tasks[k].priority
        <5>1. tasks[f].priority \in Nat /\ tasks[k].priority \in Nat
          BY <1>1 DEF Task
        <5>2. p < tasks[f].priority
          BY <2>2, <4>5, <5>1
        <5>3. tasks[f].priority <= tasks[k].priority
          <6>1. CASE f = k
            BY <5>1, <6>1
          <6>2. CASE f < k
            BY <1>1, <1>3, <5>1, <6>2 DEF QueueInv, WaitingOnce, InOrderOfPriority
          <6> QED
            BY <4>7, <6>1, <6>2
        <5> QED
          BY <2>2, <5>1, <5>2, <5>3
      <4> QED
        BY <1>1, <4>5, <4>6, <4>7
    <3> QED
      BY <3>1, <3>2
  <2>4. PICK at \in 1..(Len(tasks) + 1) : at = NextNode(p)
    BY <2>3
  <2> QED
    BY <2>1, <2>2, <2>3, <2>4, InsertStep
<1> QED
  BY <1>2, <1>3

LEMMA UnshiftStep == ASSUME QueueInv, QueueUnshift PROVE QueueInv'
<1>1. 1 \in 1..(Len(tasks) + 1) /\ 1 \in Nat
  BY LenProperties DEF QueueInv, QueueTypeOK
<1> QED
  BY <1>1, InsertStep DEF QueueUnshift

(* An empty push, pause, resume and kill.                                    *)
LEMMA SwitchStep ==
    ASSUME QueueInv, PushNothing \/ QueuePause \/ QueueResume \/ QueueKill
    PROVE  QueueInv'
<1>1. /\ tasks \in Seq(Task) /\ Len(tasks) \in Nat /\ DOMAIN tasks = 1..Len(tasks)
      /\ q.concurrency \in Nat \ {0}
      /\ immediates.process \in Nat /\ immediates.drain \in Nat
      /\ immediates = [process |-> immediates.process, drain |-> immediates.drain]
      /\ work.switches \in Nat /\ work.emptyPushes \in Nat
  BY LenProperties DEF QueueInv, QueueTypeOK
<1>2. /\ work'.pushed = work.pushed /\ work'.taken = work.taken /\ work'.called = work.called
      /\ work'.drained = work.drained /\ work'.emptyPushes >= work.emptyPushes
      /\ work' \in [pushed : Seq(Nat), taken : Seq(Nat), called : Seq(Nat), drained : Seq(Nat),
                    switches : Nat, emptyPushes : Nat]
  <2>1. work.switches + 1 \in Nat /\ work.emptyPushes + 1 \in Nat
    BY <1>1
  <2>2. /\ work \in [pushed : Seq(Nat), taken : Seq(Nat), called : Seq(Nat), drained : Seq(Nat),
                    switches : Nat, emptyPushes : Nat]
        /\ \/ work' = [work EXCEPT !.switches = @ + 1, !.emptyPushes = @ + 1]
           \/ work' = [work EXCEPT !.switches = @ + 1]
    BY DEF PushNothing, QueuePause, QueueResume, QueueKill, Switched, QueueInv, QueueTypeOK
  <2>3. work' = [ pushed |-> work.pushed, taken |-> work.taken, called |-> work.called,
                  drained |-> work.drained, switches |-> work'.switches,
                  emptyPushes |-> work'.emptyPushes ]
    BY <2>2
  <2>4. /\ work'.switches = work.switches + 1
        /\ work'.emptyPushes \in {work.emptyPushes, work.emptyPushes + 1}
    BY <2>2
  <2>5. work'.emptyPushes >= work.emptyPushes
    BY <1>1, <2>4
  <2> QED
    BY <2>1, <2>2, <2>3, <2>4, <2>5, <1>1
<1>3. /\ workers' = workers /\ given' = given /\ phase' = phase
      /\ q'.kind = q.kind /\ q'.concurrency = q.concurrency /\ (q.killed => q'.killed)
      /\ q' \in [kind : {k.kind : k \in QueueKinds}, concurrency : Nat \ {0},
                 payload : Nat \ {0}, paused : BOOLEAN, killed : BOOLEAN]
  BY DEF PushNothing, QueuePause, QueueResume, QueueKill, QueueInv, QueueTypeOK
<1>4. \/ tasks' = tasks
      \/ tasks' = <<>> /\ q'.killed
  BY DEF PushNothing, QueuePause, QueueResume, QueueKill, QueueInv, QueueTypeOK
<1>5. QueueTypeOK'
  <2>1. immediates' \in [process : Nat, drain : Nat]
    <3>1. ResumeCount \in Nat
      BY <1>1 DEF ResumeCount
    <3>2. /\ immediates.process + 1 \in Nat /\ immediates.drain + 1 \in Nat
          /\ immediates.process + ResumeCount \in Nat
      BY <1>1, <3>1
    <3> QED
      BY <1>1, <3>2 DEF PushNothing, QueuePause, QueueResume, QueueKill
  <2>2. tasks' \in Seq(Task)
    BY <1>1, <1>4, EmptySeq
  <2> QED
    BY <1>2, <1>3, <2>1, <2>2 DEF QueueInv, QueueTypeOK
<1>6. WaitingOnce'
  <2>1. CASE tasks' = tasks
    BY <1>2, <1>3, <2>1
    DEF QueueInv, WaitingOnce, InOrderOfPriority, Waiting, Pushed
  <2>2. CASE tasks' = <<>> /\ q'.killed
    <3>1. DOMAIN tasks' = {} /\ Waiting' = {}
      BY <2>2 DEF Waiting
    <3> QED
      BY <1>2, <2>2, <3>1 DEF QueueInv, WaitingOnce, InOrderOfPriority, Pushed
  <2> QED
    BY <1>4, <2>1, <2>2
<1>7. TakenOnce' /\ WorkersRight'
  BY <1>2, <1>3 DEF QueueInv, TakenOnce, WorkersRight
<1>8. ProcessComes'
  <2> SUFFICES ASSUME phase = "idle", MayTake' PROVE immediates'.process > 0
    BY <1>3 DEF ProcessComes
  <2>1. CASE PushNothing
    BY <1>1, <2>1 DEF PushNothing, QueueInv, ProcessComes, MayTake
  <2>2. CASE QueuePause
    BY <2>2 DEF QueuePause, MayTake, QueueInv, QueueTypeOK
  <2>3. CASE QueueResume
    <3>1. tasks # <<>>
      BY <2>3 DEF QueueResume, MayTake
    <3>2. Len(tasks) > 0
      BY <1>1, <3>1, EmptySeq
    <3>3. ResumeCount \in Nat /\ ResumeCount > 0
      BY <1>1, <3>2 DEF ResumeCount
    <3> QED
      BY <1>1, <2>3, <3>3 DEF QueueResume
  <2>4. CASE QueueKill
    BY <2>4 DEF QueueKill, MayTake
  <2> QED
    BY <2>1, <2>2, <2>3, <2>4
<1>9. DrainsRight'
  <2>1. CASE PushNothing
    <3>1. work'.emptyPushes > 0
      BY <1>1, <2>1 DEF PushNothing, QueueInv, QueueTypeOK
    <3> QED
      BY <3>1 DEF DrainsRight
  <2>2. CASE QueuePause \/ QueueResume \/ QueueKill
    <3>1. work'.emptyPushes = work.emptyPushes /\ immediates'.drain = immediates.drain
      BY <1>1, <2>2 DEF QueuePause, QueueResume, QueueKill, Switched, QueueInv, QueueTypeOK
    <3> QED
      BY <1>2, <3>1 DEF QueueInv, DrainsRight
  <2> QED
    BY <2>1, <2>2
<1> QED
  BY <1>5, <1>6, <1>7, <1>8, <1>9 DEF QueueInv

(* process runs, or drain is called.                                         *)
LEMMA ImmediateStep == ASSUME QueueInv, RunsImmediate PROVE QueueInv'
<1>1. /\ Len(tasks) \in Nat /\ workers \in Nat
      /\ immediates.process \in Nat /\ immediates.drain \in Nat
      /\ immediates = [process |-> immediates.process, drain |-> immediates.drain]
      /\ work.drained \in Seq(Nat) /\ Len(tasks) + workers \in Nat
  BY LenProperties DEF QueueInv, QueueTypeOK
<1>2. UNCHANGED <<q, tasks, workers, given>>
  BY DEF RunsImmediate
<1>3. CASE /\ immediates.process > 0
           /\ immediates' = [immediates EXCEPT !.process = @ - 1]
           /\ phase' = "process" /\ work' = work
  <2>1. immediates' \in [process : Nat, drain : Nat] /\ immediates'.drain = immediates.drain
    <3>1. immediates.process - 1 \in Nat
      BY <1>1, <1>3
    <3> QED
      BY <1>1, <1>3, <3>1
  <2>2. QueueTypeOK'
    BY <1>2, <1>3, <2>1 DEF QueueInv, QueueTypeOK
  <2>3. WaitingOnce' /\ TakenOnce' /\ WorkersRight'
    BY <1>2, <1>3 DEF QueueInv, WaitingOnce, TakenOnce, WorkersRight, InOrderOfPriority, Waiting, Pushed
  <2>4. ProcessComes' /\ DrainsRight'
    BY <1>3, <2>1 DEF QueueInv, ProcessComes, DrainsRight
  <2> QED
    BY <2>2, <2>3, <2>4 DEF QueueInv
<1>4. CASE /\ immediates.drain > 0
           /\ immediates' = [immediates EXCEPT !.drain = @ - 1]
           /\ work' = IF q.killed THEN work
                      ELSE [work EXCEPT !.drained = Append(@, Len(tasks) + workers)]
           /\ phase' = phase
  <2>1. immediates' \in [process : Nat, drain : Nat] /\ immediates'.process = immediates.process
    <3>1. immediates.drain - 1 \in Nat
      BY <1>1, <1>4
    <3> QED
      BY <1>1, <1>4, <3>1
  <2>2. /\ work'.pushed = work.pushed /\ work'.taken = work.taken /\ work'.called = work.called
        /\ work'.switches = work.switches /\ work'.emptyPushes = work.emptyPushes
        /\ work'.drained = work.drained \/ work'.drained = Append(work.drained, Len(tasks) + workers)
    BY <1>4 DEF QueueInv, QueueTypeOK
  <2>3. work' \in [pushed : Seq(Nat), taken : Seq(Nat), called : Seq(Nat), drained : Seq(Nat),
                   switches : Nat, emptyPushes : Nat]
    <3>1. Append(work.drained, Len(tasks) + workers) \in Seq(Nat)
      BY <1>1, AppendProperties
    <3> QED
      BY <1>4, <3>1 DEF QueueInv, QueueTypeOK
  <2>4. work.emptyPushes > 0
    BY <1>4 DEF QueueInv, DrainsRight
  <2>5. QueueTypeOK'
    BY <1>2, <1>4, <2>1, <2>3 DEF QueueInv, QueueTypeOK
  <2>6. WaitingOnce' /\ TakenOnce' /\ WorkersRight'
    BY <1>2, <2>2 DEF QueueInv, WaitingOnce, TakenOnce, WorkersRight, InOrderOfPriority, Waiting, Pushed
  <2>7. ProcessComes'
    BY <1>2, <1>4, <2>1 DEF QueueInv, ProcessComes, MayTake
  <2>8. DrainsRight'
    BY <2>2, <2>4 DEF DrainsRight
  <2> QED
    BY <2>5, <2>6, <2>7, <2>8 DEF QueueInv
<1> QED
  BY <1>3, <1>4 DEF RunsImmediate

(* The first tasks of the list, by the payload.                              *)
LEMMA LoadIs ==
    ASSUME QueueInv, tasks # <<>>
    PROVE  /\ Load \in Seq(Nat) /\ Len(Load) \in 1..Len(tasks)
           /\ \A k \in 1..Len(Load) : Load[k] = tasks[k].id
<1>1. /\ tasks \in Seq(Task) /\ Len(tasks) \in Nat /\ Len(tasks) # 0
      /\ q.payload \in Nat \ {0}
      /\ \A k \in 1..Len(tasks) : tasks[k] \in Task
  BY LenProperties, EmptySeq, ElementOfSeq DEF QueueInv, QueueTypeOK
<1>2. PICK l \in 1..Len(tasks) :
         l = IF Len(tasks) < q.payload THEN Len(tasks) ELSE q.payload
  BY <1>1
<1>3. Load = [k \in 1..l |-> tasks[k].id]
  BY <1>2 DEF Load
<1>4. \A k \in 1..l : tasks[k].id \in Nat
  BY <1>1, <1>2 DEF Task
<1>5. Load \in Seq(Nat)
  BY <1>1, <1>3, <1>4
<1>6. Len(Load) = l
  <2>1. 1..Len(Load) = 1..l /\ Len(Load) \in Nat
    BY <1>3, <1>5, LenProperties
  <2> QED
    BY <1>2, <2>1
<1> QED
  BY <1>3, <1>5, <1>6

LEMMA TakeStep == ASSUME QueueInv, Take PROVE QueueInv'
<1>1. /\ tasks \in Seq(Task) /\ Len(tasks) \in Nat /\ DOMAIN tasks = 1..Len(tasks)
      /\ work.taken \in Seq(Nat) /\ work.called \in Seq(Nat)
      /\ \A k \in 1..Len(tasks) : tasks[k] \in Task
  BY LenProperties, ElementOfSeq DEF QueueInv, QueueTypeOK
<1>2. PICK load \in Seq(Nat) : load = Load
  BY LoadIs DEF Take, MayTake
<1>3. /\ Len(load) \in 1..Len(tasks) /\ DOMAIN load = 1..Len(load)
      /\ \A k \in 1..Len(load) : load[k] = tasks[k].id
  BY <1>2, LoadIs, LenProperties DEF Take, MayTake
<1>31. PICK d \in 1..Len(tasks) : d = Len(load)
  BY <1>3
<1>4. /\ tasks' \in Seq(Task) /\ Len(tasks') = Len(tasks) - Len(load)
      /\ \A k \in 1..Len(tasks') : tasks'[k] = tasks[Len(load) + k]
  <2>1. tasks' = SubSeq(tasks, Len(load) + 1, Len(tasks))
    BY <1>2 DEF Take
  <2> QED
    BY <1>1, <1>31, <2>1, Rest
<1>5. /\ DOMAIN tasks' = 1..Len(tasks') /\ Len(tasks') \in Nat
      /\ \A k \in DOMAIN tasks' : Len(load) + k \in DOMAIN tasks /\ tasks'[k] = tasks[Len(load) + k]
      /\ \A k \in DOMAIN load : k \in DOMAIN tasks
      /\ \A k \in DOMAIN tasks : k \in DOMAIN load \/ k - Len(load) \in DOMAIN tasks'
      /\ \A k \in DOMAIN tasks : k - Len(load) \in DOMAIN tasks' => tasks'[k - Len(load)] = tasks[k]
  <2>1. DOMAIN tasks' = 1..Len(tasks') /\ Len(tasks') \in Nat
    BY <1>4, LenProperties
  <2>2. \A k \in DOMAIN tasks' : Len(load) + k \in DOMAIN tasks /\ tasks'[k] = tasks[Len(load) + k]
    <3>1. \A k \in 1..(Len(tasks) - d) : d + k \in 1..Len(tasks)
      BY <1>1
    <3> QED
      BY <1>1, <1>31, <1>4, <2>1, <3>1
  <2>3. /\ \A k \in DOMAIN load : k \in DOMAIN tasks
        /\ \A k \in DOMAIN tasks : k \in DOMAIN load \/ k - Len(load) \in DOMAIN tasks'
    BY <1>1, <1>3, <1>4, <2>1
  <2>4. \A k \in DOMAIN tasks : Len(load) + (k - Len(load)) = k
    BY <1>1, <1>3
  <2> QED
    BY <2>1, <2>2, <2>3, <2>4
<1>6. ToSet(load) = {tasks[k].id : k \in DOMAIN load}
  BY <1>3 DEF ToSet
<1>7. ToSet(load) \subseteq Waiting /\ Waiting' \cup ToSet(load) = Waiting
  BY <1>5, <1>6 DEF Waiting
<1>8. Waiting' \cap ToSet(load) = {}
  <2> SUFFICES ASSUME NEW j \in DOMAIN tasks', NEW k \in DOMAIN load, tasks'[j].id = tasks[k].id
               PROVE  FALSE
    BY <1>6 DEF Waiting
  <2>1. Len(load) + j = k
    BY <1>5 DEF QueueInv, WaitingOnce
  <2> QED
    BY <1>3, <1>5, <2>1
<1>9. IsInjective(load)
  BY <1>3, <1>5 DEF IsInjective, QueueInv, WaitingOnce
<1>10. ToSet(load) \cap ToSet(work.taken) = {} /\ load[1] \in ToSet(load)
  <2>1. 1 \in 1..Len(load)
    BY <1>1, <1>3
  <2> QED
    BY <1>7, <2>1, SetOf DEF QueueInv, WaitingOnce
<1>11. /\ work'.pushed = work.pushed /\ work'.taken = work.taken \o load
       /\ work'.called \in {work.called, work.called \o load}
       /\ work'.drained = work.drained /\ work'.switches = work.switches
       /\ work'.emptyPushes = work.emptyPushes
       /\ q' = q /\ immediates' = immediates
  BY <1>2 DEF Take, CallTasks, QueueInv, QueueTypeOK
<1>12. /\ work.taken \o load \in Seq(Nat) /\ work.called \o load \in Seq(Nat)
       /\ ToSet(work.taken \o load) = ToSet(work.taken) \cup ToSet(load)
       /\ ToSet(work.called \o load) = ToSet(work.called) \cup ToSet(load)
  BY <1>1, SetOfBoth
<1>13. IsInjective(work.taken \o load) /\ IsInjective(work.called \o load)
  <2>1. ToSet(work.taken) \cap ToSet(load) = {} /\ ToSet(work.called) \cap ToSet(load) = {}
    BY <1>10 DEF QueueInv, TakenOnce
  <2> QED
    BY <1>1, <1>9, <2>1, BothInjective DEF QueueInv, TakenOnce
<1>14. WaitingOnce'
  <2>1. \A j, k \in DOMAIN tasks' : tasks'[j].id = tasks'[k].id => j = k
    <3> SUFFICES ASSUME NEW j \in DOMAIN tasks', NEW k \in DOMAIN tasks',
                        tasks'[j].id = tasks'[k].id
                 PROVE  j = k
      OBVIOUS
    <3>1. Len(load) + j = Len(load) + k
      BY <1>5 DEF QueueInv, WaitingOnce
    <3> QED
      BY <1>3, <1>5, <3>1
  <2>2. (q.kind = "priority" => InOrderOfPriority)'
    <3> SUFFICES ASSUME q.kind = "priority", NEW j \in DOMAIN tasks', NEW k \in DOMAIN tasks',
                        j < k
                 PROVE  \/ tasks'[j].priority < tasks'[k].priority
                        \/ tasks'[j].priority = tasks'[k].priority /\ tasks'[j].id < tasks'[k].id
      BY <1>11 DEF InOrderOfPriority
    <3>1. Len(load) + j < Len(load) + k
      BY <1>3, <1>5
    <3> QED
      BY <1>5, <3>1 DEF QueueInv, WaitingOnce, InOrderOfPriority
  <2>3. Waiting' \cap ToSet(work.taken) = {}
    BY <1>7 DEF QueueInv, WaitingOnce
  <2> QED
    BY <1>7, <1>8, <1>11, <1>12, <2>1, <2>2, <2>3 DEF QueueInv, WaitingOnce, Pushed
<1>15. CASE /\ workers' = workers + 1 /\ given' = given \cup {load}
            /\ work'.called = work.called /\ phase' = phase
            /\ work' = [work EXCEPT !.taken = @ \o load]
  <2>1. load \notin given
    BY <1>10 DEF QueueInv, TakenOnce, Ids
  <2>2. IsFiniteSet(given') /\ Cardinality(given') = Cardinality(given) + 1
    BY <1>15, <2>1, FS_AddElement DEF QueueInv, QueueTypeOK
  <2>3. Ids(given') = Ids(given) \cup ToSet(load)
    BY <1>15 DEF Ids
  <2>4. QueueTypeOK'
    <3>1. workers + 1 \in Nat
      BY DEF QueueInv, QueueTypeOK
    <3>2. work' \in [pushed : Seq(Nat), taken : Seq(Nat), called : Seq(Nat), drained : Seq(Nat),
                     switches : Nat, emptyPushes : Nat]
      BY <1>12, <1>15 DEF QueueInv, QueueTypeOK
    <3> QED
      BY <1>4, <1>11, <1>15, <2>2, <3>1, <3>2 DEF QueueInv, QueueTypeOK
  <2>5. TakenOnce'
    <3>1. \A m \in given : ToSet(m) \cap ToSet(load) = {}
      BY <1>10 DEF QueueInv, TakenOnce, Ids
    <3>2. load # <<>>
      BY <1>1, <1>3, EmptySeq
    <3>3. \A l \in given' : l # <<>> /\ IsInjective(l)
      BY <1>9, <1>15, <3>2 DEF QueueInv, TakenOnce
    <3>4. \A l, m \in given' : l # m => ToSet(l) \cap ToSet(m) = {}
      BY <1>15, <3>1 DEF QueueInv, TakenOnce
    <3>5. /\ ToSet(work'.taken) = ToSet(work'.called) \cup Ids(given')
          /\ ToSet(work'.called) \cap Ids(given') = {}
      BY <1>10, <1>11, <1>12, <1>15, <2>3 DEF QueueInv, TakenOnce
    <3> QED
      BY <1>11, <1>13, <1>15, <3>3, <3>4, <3>5 DEF QueueInv, TakenOnce
  <2>6. WorkersRight'
    <3>1. workers + 1 <= q.concurrency
      BY DEF Take, MayTake, QueueInv, QueueTypeOK
    <3> QED
      BY <1>11, <1>15, <2>2, <3>1 DEF QueueInv, WorkersRight
  <2>7. ProcessComes' /\ DrainsRight'
    BY <1>11, <1>15 DEF Take, QueueInv, ProcessComes, DrainsRight
  <2> QED
    BY <1>14, <2>4, <2>5, <2>6, <2>7 DEF QueueInv
<1>16. CASE /\ phase' = "next" /\ workers' = workers /\ given' = given
            /\ work' = [work EXCEPT !.taken = @ \o load, !.called = @ \o load]
  <2>1. work'.called = work.called \o load
    BY <1>16 DEF QueueInv, QueueTypeOK
  <2>2. QueueTypeOK'
    <3>1. work' \in [pushed : Seq(Nat), taken : Seq(Nat), called : Seq(Nat), drained : Seq(Nat),
                     switches : Nat, emptyPushes : Nat]
      BY <1>12, <1>16 DEF QueueInv, QueueTypeOK
    <3> QED
      BY <1>4, <1>11, <1>16, <3>1 DEF QueueInv, QueueTypeOK
  <2>3. TakenOnce'
    <3>1. ToSet(load) \cap Ids(given) = {}
      BY <1>10 DEF QueueInv, TakenOnce
    <3> QED
      BY <1>11, <1>12, <1>13, <1>16, <2>1, <3>1 DEF QueueInv, TakenOnce
  <2>4. WorkersRight' /\ ProcessComes' /\ DrainsRight'
    BY <1>11, <1>16 DEF QueueInv, WorkersRight, ProcessComes, DrainsRight
  <2> QED
    BY <1>14, <2>2, <2>3, <2>4 DEF QueueInv
<1> QED
  <2>1. /\ work.called = [work EXCEPT !.taken = @ \o load].called
        /\ [[work EXCEPT !.taken = @ \o load] EXCEPT !.called = @ \o load]
              = [work EXCEPT !.taken = @ \o load, !.called = @ \o load]
    BY DEF QueueInv, QueueTypeOK
  <2> QED
    BY <1>2, <1>15, <1>16, <2>1 DEF Take, CallTasks

LEMMA CallsBackStep == ASSUME QueueInv, WorkerCallsBack PROVE QueueInv'
<1>1. PICK load \in given :
        /\ given' = given \ {load} /\ workers' = workers - 1 /\ phase' = "next"
        /\ work' = [work EXCEPT !.called = @ \o load]
  BY DEF WorkerCallsBack, CallTasks
<1>2. UNCHANGED <<q, tasks, immediates>>
  BY DEF WorkerCallsBack
<1>3. load \in Seq(Nat) /\ work.called \in Seq(Nat)
  BY DEF QueueInv, QueueTypeOK
<1>4. /\ work'.pushed = work.pushed /\ work'.taken = work.taken
      /\ work'.called = work.called \o load
      /\ work'.drained = work.drained /\ work'.emptyPushes = work.emptyPushes
  BY <1>1 DEF QueueInv, QueueTypeOK
<1>5. /\ work.called \o load \in Seq(Nat)
      /\ ToSet(work.called \o load) = ToSet(work.called) \cup ToSet(load)
  BY <1>3, SetOfBoth
<1>6. ToSet(load) \subseteq Ids(given) /\ ToSet(load) \cap ToSet(work.called) = {}
  BY DEF QueueInv, TakenOnce, Ids
<1>7. Ids(given) = Ids(given') \cup ToSet(load) /\ Ids(given') \cap ToSet(load) = {}
  <2>1. \A m \in given' : ToSet(m) \cap ToSet(load) = {}
    BY <1>1 DEF QueueInv, TakenOnce
  <2> QED
    BY <1>1, <2>1 DEF Ids
<1>8. /\ IsFiniteSet(given') /\ Cardinality(given') = Cardinality(given) - 1
      /\ Cardinality(given') \in Nat
  BY <1>1, FS_RemoveElement, FS_CardinalityType DEF QueueInv, QueueTypeOK
<1>9. WorkersRight'
  BY <1>1, <1>2, <1>8 DEF QueueInv, QueueTypeOK, WorkersRight
<1>10. QueueTypeOK'
  <2>1. workers' \in Nat
    BY <1>8, <1>9 DEF WorkersRight
  <2>2. work' \in [pushed : Seq(Nat), taken : Seq(Nat), called : Seq(Nat), drained : Seq(Nat),
                   switches : Nat, emptyPushes : Nat]
    BY <1>1, <1>5 DEF QueueInv, QueueTypeOK
  <2> QED
    BY <1>1, <1>2, <1>8, <2>1, <2>2 DEF QueueInv, QueueTypeOK
<1>11. WaitingOnce'
  BY <1>2, <1>4 DEF QueueInv, WaitingOnce, InOrderOfPriority, Waiting, Pushed
<1>12. TakenOnce'
  <2>1. IsInjective(work'.called)
    BY <1>3, <1>4, <1>6, BothInjective DEF QueueInv, TakenOnce
  <2> QED
    BY <1>1, <1>4, <1>5, <1>6, <1>7, <2>1 DEF QueueInv, TakenOnce
<1>13. ProcessComes' /\ DrainsRight'
  BY <1>1, <1>2, <1>4 DEF QueueInv, ProcessComes, DrainsRight
<1> QED
  BY <1>9, <1>10, <1>11, <1>12, <1>13 DEF QueueInv

(* The end of process, and of _next, which calls drain when nothing is left. *)
LEMMA EndStep == ASSUME QueueInv, ProcessEnds \/ NextEnds PROVE QueueInv'
<1>1. UNCHANGED <<q, tasks, workers, given, immediates>>
  BY DEF ProcessEnds, NextEnds
<1>2. work.drained \in Seq(Nat) /\ 0 \in Nat /\ Append(work.drained, 0) \in Seq(Nat)
  BY AppendProperties DEF QueueInv, QueueTypeOK
<1>3. /\ work'.pushed = work.pushed /\ work'.taken = work.taken /\ work'.called = work.called
      /\ work'.emptyPushes = work.emptyPushes
      /\ work'.drained = work.drained \/ work'.drained = Append(work.drained, 0)
  BY DEF ProcessEnds, NextEnds, QueueInv, QueueTypeOK
<1>4. QueueTypeOK'
  <2>1. work' \in [pushed : Seq(Nat), taken : Seq(Nat), called : Seq(Nat), drained : Seq(Nat),
                   switches : Nat, emptyPushes : Nat]
    BY <1>2 DEF ProcessEnds, NextEnds, QueueInv, QueueTypeOK
  <2>2. phase' \in {"idle", "process", "next"}
    BY DEF ProcessEnds, NextEnds
  <2> QED
    BY <1>1, <2>1, <2>2 DEF QueueInv, QueueTypeOK
<1>5. WaitingOnce' /\ TakenOnce' /\ WorkersRight'
  BY <1>1, <1>3
  DEF QueueInv, WaitingOnce, TakenOnce, WorkersRight, InOrderOfPriority, Waiting, Pushed
<1>6. ProcessComes'
  BY <1>1 DEF ProcessEnds, NextEnds, ProcessComes, MayTake
<1>7. DrainsRight'
  <2>1. CASE work'.drained = work.drained
    BY <1>1, <1>3, <2>1 DEF QueueInv, DrainsRight
  <2>2. CASE work'.drained = Append(work.drained, 0)
    <3>1. DOMAIN Append(work.drained, 0) = 1..(Len(work.drained) + 1)
      BY <1>2, AppendProperties, LenProperties
    <3>2. /\ DOMAIN work.drained = 1..Len(work.drained) /\ Len(work.drained) \in Nat
          /\ \A k \in 1..Len(work.drained) : Append(work.drained, 0)[k] = work.drained[k]
          /\ Append(work.drained, 0)[Len(work.drained) + 1] = 0
      BY <1>2, AppendProperties, LenProperties
    <3>3. ASSUME NEW k \in DOMAIN work'.drained, work'.drained[k] > 0
          PROVE  work.emptyPushes > 0
      <4>1. k \in 1..(Len(work.drained) + 1)
        BY <2>2, <3>1, <3>3
      <4>2. k # Len(work.drained) + 1
        BY <2>2, <3>2, <3>3
      <4>3. k \in DOMAIN work.drained
        BY <3>2, <4>1, <4>2
      <4> QED
        BY <2>2, <3>2, <3>3, <4>3 DEF QueueInv, DrainsRight
    <3> QED
      BY <1>1, <1>3, <3>3 DEF QueueInv, DrainsRight
  <2> QED
    BY <1>3, <2>1, <2>2
<1> QED
  BY <1>4, <1>5, <1>6, <1>7 DEF QueueInv

LEMMA NextQueue == QueueInv /\ [QueueNext]_queueVars => QueueInv'
<1> SUFFICES ASSUME QueueInv, [QueueNext]_queueVars PROVE QueueInv'
  OBVIOUS
<1>1. CASE QueuePush
  BY <1>1, PushStep
<1>2. CASE QueueUnshift
  BY <1>2, UnshiftStep
<1>3. CASE PushNothing \/ QueuePause \/ QueueResume \/ QueueKill
  BY <1>3, SwitchStep
<1>4. CASE RunsImmediate
  BY <1>4, ImmediateStep
<1>5. CASE Take
  BY <1>5, TakeStep
<1>6. CASE WorkerCallsBack
  BY <1>6, CallsBackStep
<1>7. CASE ProcessEnds \/ NextEnds
  BY <1>7, EndStep
<1>8. CASE UNCHANGED queueVars
  <2>1. /\ q' = q /\ tasks' = tasks /\ workers' = workers /\ given' = given
        /\ immediates' = immediates /\ phase' = phase /\ work' = work
    BY <1>8 DEF queueVars
  <2>2. QueueTypeOK' /\ WaitingOnce'
    BY <2>1 DEF QueueInv, QueueTypeOK, WaitingOnce, InOrderOfPriority, Waiting, Pushed
  <2>3. TakenOnce' /\ WorkersRight' /\ ProcessComes' /\ DrainsRight'
    BY <2>1 DEF QueueInv, TakenOnce, WorkersRight, ProcessComes, DrainsRight, MayTake
  <2> QED
    BY <2>2, <2>3 DEF QueueInv
<1> QED
  BY <1>1, <1>2, <1>3, <1>4, <1>5, <1>6, <1>7, <1>8 DEF QueueNext

(* A task is given to one worker at most and called back once; unless the    *)
(* queue was killed, each that is pushed waits, is given or was called back; *)
(* and while one waits and a worker is free, a process comes (6643-6785).    *)
THEOREM QueueRunsTasksOnce == QueueSpec => []TasksRunOnce
<1>1. QueueSpec => []QueueInv
  BY InitQueue, NextQueue, PTL DEF QueueSpec
<1> QED
  BY <1>1, QueueInvGives, PTL

-----------------------------------------------------------------------------
(* Flows and wrappers: the invariant.                                        *)
Turn == [task : Nat, error : BOOLEAN, more : BOOLEAN]
CallerStates == {"new", "queued", "immediate", "done", "called"}
Heard == Nat \cup {Ok, TimedOut}

Limit == [original : Callers \cup {0}, timers : SUBSET Callers, timedOut : BOOLEAN,
          overlapped : BOOLEAN, inTime : SUBSET Callers, stale : SUBSET Callers]

FlowTypeOK ==
    /\ flow \in [kind : Flows \cup Wrappers, started : Nat, waiting : BOOLEAN]
    /\ pending \subseteq Nat
    /\ outcomes \in Seq(Turn)
    /\ flowAnswers \in Seq([error : BOOLEAN])
    /\ memo \in [memo : [Keys -> Nat], queues : [Keys -> Seq(Callers)], calls : [Keys -> Nat]]
    /\ limit \in Limit
    /\ caller \in [Callers -> [key : Keys, state : CallerStates, got : Seq(Heard), heard : BOOLEAN]]

(* What a task said that was not the last of its flow.                       *)
WentOn(turn) ==
    /\ turn.error <=> flow.kind = "retry"
    /\ flow.kind \notin {"waterfall", "forever"} => turn.more

(* One task after another: the next runs, or its timer does, until the flow  *)
(* is answered.                                                              *)
RunsInTurn == flow.kind # "race" =>
    /\ \A k \in DOMAIN outcomes : outcomes[k].task = k
    /\ \/ pending = {} /\ flow.started = Len(outcomes)
       \/ /\ pending = {Len(outcomes) + 1} /\ flow.started = Len(outcomes) + 1
          /\ flowAnswers = <<>> /\ ~flow.waiting
    /\ flow.waiting => flow.kind = "retry" /\ flow.started > 0 /\ flowAnswers = <<>>
    /\ flow.started > 0 /\ pending = {} /\ ~flow.waiting => flowAnswers # <<>>
    /\ flow.started > 0 => flow.kind \in Flows
    /\ flow.kind \in {"waterfall", "retry"} =>
          flow.started <= FlowTasks /\ (flow.waiting => flow.started < FlowTasks)
    /\ flowAnswers = <<>> => \A k \in DOMAIN outcomes : WentOn(outcomes[k])

(* All at once: the first that calls back answers.                           *)
RunsAtOnce == flow.kind = "race" =>
    /\ ~flow.waiting
    /\ flow.started = 0 => pending = {} /\ outcomes = <<>>
    /\ flow.started > 0 /\ outcomes = <<>> => pending = 1..FlowTasks
    /\ flowAnswers = <<>> <=> outcomes = <<>>

AnsweredRight == Len(flowAnswers) <= 1 /\ \A k \in DOMAIN flowAnswers : FlowRight(flowAnswers[k].error)

(* Who waits for a key is in its queue, and only until the memo is there.    *)
MemoRight ==
    /\ \A k \in Keys :
          /\ memo.calls[k] <= 1
          /\ memo.queues[k] # <<>> => memo.memo[k] = 0
          /\ memo.calls[k] = 1 => memo.queues[k] # <<>> \/ memo.memo[k] # 0
          /\ \A c \in ToSet(memo.queues[k]) : caller[c].state = "queued" /\ caller[c].key = k
    /\ \A c \in Callers :
          /\ caller[c].state = "queued" => c \in ToSet(memo.queues[caller[c].key])
          /\ caller[c].state \in {"new", "queued", "immediate"} => caller[c].got = <<>>
          /\ caller[c].state \in {"immediate", "done"} => memo.memo[caller[c].key] # 0
          /\ caller[c].state = "done" => caller[c].got = <<memo.memo[caller[c].key]>>

(* Without calls that overlap the timer is that of the last caller, and who  *)
(* has none was answered and will not be again.                              *)
OneReply(c) ==
    caller[c].got = <<IF c \in limit.inTime \ limit.stale THEN Ok ELSE TimedOut>>

LimitRight ==
    /\ \A c \in limit.timers : caller[c].state = "called"
    /\ \A c \in Callers :
          /\ caller[c].state = "called" =>
                limit.original \in Callers /\ caller[limit.original].state = "called"
          /\ caller[c].state = "new" => ~caller[c].heard
          /\ c \in limit.inTime => caller[c].heard
          /\ c \in limit.stale => limit.timedOut
    /\ ~limit.overlapped =>
          /\ limit.timers \subseteq {limit.original}
          /\ \A c \in Callers : caller[c].state = "called" =>
                IF c \in limit.timers
                THEN /\ caller[c].got = <<>> /\ (caller[c].heard => limit.timedOut)
                     /\ c \in limit.stale <=> limit.timedOut
                ELSE OneReply(c) /\ (caller[c].heard \/ limit.timedOut)

FlowInv == FlowTypeOK /\ RunsInTurn /\ RunsAtOnce /\ AnsweredRight /\ MemoRight /\ LimitRight

LEMMA FlowInvGives == FlowInv => FlowIsRight
<1> SUFFICES ASSUME FlowInv PROVE FlowIsRight
  OBVIOUS
<1>0. flowAnswers \in Seq([error : BOOLEAN])
  BY DEF FlowInv, FlowTypeOK
<1>1. Len(flowAnswers) \in Nat /\ Len(flowAnswers) <= 1
  BY <1>0, LenProperties DEF FlowInv, AnsweredRight
<1>11. PICK n \in Nat : n = Len(flowAnswers)
  BY <1>1
<1>2. ASSUME flow.started > 0, pending = {}, ~flow.waiting PROVE Len(flowAnswers) = 1
  <2>1. flowAnswers # <<>>
    <3>1. CASE flow.kind # "race"
      BY <1>2, <3>1 DEF FlowInv, RunsInTurn
    <3>2. CASE flow.kind = "race"
      <4>1. 1 \in 1..FlowTasks
        BY FlowAssumption
      <4> QED
        BY <1>2, <3>2, <4>1 DEF FlowInv, RunsAtOnce
    <3> QED
      BY <3>1, <3>2
  <2>2. n # 0 /\ n <= 1
    BY <1>0, <1>1, <1>11, <2>1, EmptySeq
  <2>3. n = 1
    BY <2>2
  <2> QED
    BY <1>11, <2>3
<1>3. ASSUME NEW c \in Callers PROVE CallerRight(c)
  <2>1. /\ caller[c].key \in Keys /\ caller[c].state \in CallerStates
        /\ caller[c].got \in Seq(Heard) /\ Len(caller[c].got) \in Nat
    BY LenProperties DEF FlowInv, FlowTypeOK
  <2>2. memo.calls[caller[c].key] <= 1
    BY <2>1 DEF FlowInv, MemoRight
  <2>3. Len(caller[c].got) <= 1 \/ limit.overlapped
    <3>1. CASE caller[c].state \in {"new", "queued", "immediate"}
      <4>1. Len(caller[c].got) = 0
        BY <2>1, <3>1, EmptySeq DEF FlowInv, MemoRight
      <4> QED
        BY <4>1
    <3>2. CASE caller[c].state = "done"
      <4>1. caller[c].got = <<memo.memo[caller[c].key]>>
        BY <3>2 DEF FlowInv, MemoRight
      <4> QED
        BY <4>1
    <3>3. CASE caller[c].state = "called" /\ ~limit.overlapped
      <4>0. caller[c].got = <<>> \/ OneReply(c)
        BY <3>3 DEF FlowInv, LimitRight
      <4>5. \A x : Len(<<x>>) = 1
        OBVIOUS
      <4>1. caller[c].got = <<>> \/ Len(caller[c].got) = 1
        BY <4>0, <4>5 DEF OneReply
      <4>2. PICK m \in Nat : m = Len(caller[c].got)
        BY <2>1
      <4>3. m = 0 \/ m = 1
        BY <2>1, <4>1, <4>2, EmptySeq
      <4>4. m <= 1
        BY <4>3
      <4> QED
        BY <4>2, <4>4, Zenon
    <3> QED
      BY <2>1, <3>1, <3>2, <3>3, Zenon DEF CallerStates
  <2>4. /\ caller[c].state = "done" => caller[c].got = <<memo.memo[caller[c].key]>>
        /\ caller[c].state = "queued" => c \in ToSet(memo.queues[caller[c].key])
    BY DEF FlowInv, MemoRight
  <2>5. caller[c].state = "called" /\ c \notin limit.timers /\ ~limit.overlapped
            => caller[c].got = <<IF c \in limit.inTime \ limit.stale THEN Ok ELSE TimedOut>>
    BY DEF FlowInv, LimitRight, OneReply
  <2> QED
    BY <2>2, <2>3, <2>4, <2>5 DEF CallerRight
<1> QED
  BY <1>1, <1>2, <1>3 DEF FlowInv, AnsweredRight, RunsInTurn, FlowIsRight

LEMMA InitFlow == FlowInit => FlowInv
<1> SUFFICES ASSUME FlowInit PROVE FlowInv
  OBVIOUS
<1>1. /\ flow.kind \in Flows \cup Wrappers /\ flow.started = 0 /\ flow.waiting = FALSE
      /\ flow \in [kind : Flows \cup Wrappers, started : Nat, waiting : BOOLEAN]
  <2>1. flow \in [kind : Flows \cup Wrappers, started : {0}, waiting : {FALSE}]
    BY DEF FlowInit
  <2>2. flow.kind \in Flows \cup Wrappers /\ flow.started = 0 /\ flow.waiting = FALSE
    BY <2>1
  <2>4. \A kind \in Flows \cup Wrappers : 
           [kind |-> kind, started |-> 0, waiting |-> FALSE]
              \in [kind : Flows \cup Wrappers, started : Nat, waiting : BOOLEAN]
    OBVIOUS
  <2>3. flow = [kind |-> flow.kind, started |-> 0, waiting |-> FALSE]
    BY <2>1
  <2> QED
    BY <2>2, <2>3, <2>4
<1>2. /\ pending = {} /\ outcomes = <<>> /\ flowAnswers = <<>>
      /\ limit = [original |-> 0, timers |-> {}, timedOut |-> FALSE, overlapped |-> FALSE,
                  inTime |-> {}, stale |-> {}]
      /\ memo = [memo |-> [k \in Keys |-> 0], queues |-> [k \in Keys |-> <<>>],
                 calls |-> [k \in Keys |-> 0]]
  BY DEF FlowInit
<1>3. \A c \in Callers : /\ caller[c].state = "new" /\ caller[c].got = <<>>
                         /\ caller[c].heard = FALSE /\ caller[c].key \in Keys
  BY DEF FlowInit
<1>4. \A k \in Keys : memo.memo[k] = 0 /\ memo.queues[k] = <<>> /\ memo.calls[k] = 0
  BY <1>2
<1>5. Len(outcomes) = 0 /\ Len(flowAnswers) = 0 /\ DOMAIN outcomes = {} /\ DOMAIN flowAnswers = {}
  BY <1>2
<1>6. FlowTypeOK
  <2>1. caller \in [Callers -> [key : Keys, state : CallerStates, got : Seq(Heard), heard : BOOLEAN]]
    <3>1. /\ {"new"} \subseteq CallerStates /\ {<<>>} \subseteq Seq(Heard)
          /\ {FALSE} \subseteq BOOLEAN
      BY EmptySeq DEF CallerStates
    <3> QED
      BY <3>1 DEF FlowInit
  <2>2. memo \in [memo : [Keys -> Nat], queues : [Keys -> Seq(Callers)], calls : [Keys -> Nat]]
    BY <1>2, EmptySeq
  <2>3. outcomes \in Seq(Turn) /\ flowAnswers \in Seq([error : BOOLEAN])
    BY <1>2, EmptySeq
  <2> QED
    BY <1>1, <1>2, <2>1, <2>2, <2>3 DEF FlowTypeOK, Limit
<1>7. RunsInTurn /\ RunsAtOnce /\ AnsweredRight
  BY <1>1, <1>2, <1>5, FlowAssumption DEF RunsInTurn, RunsAtOnce, AnsweredRight
<1>8. MemoRight
  <2>1. ToSet(<<>>) = {}
    BY DEF ToSet
  <2> QED
    BY <1>3, <1>4, <2>1 DEF MemoRight
<1>9. LimitRight
  BY <1>2, <1>3 DEF LimitRight
<1> QED
  BY <1>6, <1>7, <1>8, <1>9 DEF FlowInv

(* A flow begins: with its first task, with all, or at its end.              *)
LEMMA BeginStep == ASSUME FlowInv, Begin PROVE FlowInv'
<1>1. /\ flow.kind \in Flows /\ flow.started = 0 /\ flowAnswers = <<>>
      /\ outcomes' = outcomes /\ memo' = memo /\ limit' = limit /\ caller' = caller
  BY DEF Begin, Shared
<1>2. /\ ~flow.waiting /\ outcomes = <<>> /\ pending = {}
      /\ outcomes \in Seq(Turn) /\ Len(outcomes) = 0 /\ DOMAIN outcomes = {}
  <2>1. outcomes \in Seq(Turn) /\ Len(outcomes) \in Nat
    BY LenProperties DEF FlowInv, FlowTypeOK
  <2>2. CASE flow.kind = "race"
    BY <1>1, <2>1, <2>2 DEF FlowInv, RunsAtOnce
  <2>3. CASE flow.kind # "race"
    <3>1. ~flow.waiting /\ pending = {} /\ Len(outcomes) = 0
      BY <1>1, <2>1, <2>3 DEF FlowInv, RunsInTurn
    <3> QED
      BY <2>1, <3>1, EmptySeq
  <2> QED
    BY <2>2, <2>3
<1>3. MemoRight' /\ LimitRight'
  BY <1>1 DEF FlowInv, MemoRight, LimitRight, OneReply
<1>4. CASE /\ TestsFirst(flow.kind) /\ flowAnswers' = Append(flowAnswers, [error |-> FALSE])
           /\ flow' = flow /\ pending' = pending
  <2>1. flowAnswers' = <<[error |-> FALSE]>>
    BY <1>1, <1>4
  <2>2. /\ flowAnswers' \in Seq([error : BOOLEAN]) /\ Len(flowAnswers') = 1
        /\ DOMAIN flowAnswers' = {1} /\ flowAnswers'[1].error = FALSE /\ flowAnswers' # <<>>
    BY <2>1
  <2>3. FlowTypeOK'
    BY <1>1, <1>4, <2>2 DEF FlowInv, FlowTypeOK
  <2>4. RunsInTurn' /\ RunsAtOnce'
    BY <1>1, <1>2, <1>4, <2>2, FlowAssumption
    DEF FlowInv, RunsInTurn, RunsAtOnce, TestsFirst
  <2>5. AnsweredRight'
    BY <1>1, <1>2, <1>4, <2>2 DEF AnsweredRight, FlowRight, TestsFirst
  <2> QED
    BY <1>3, <2>3, <2>4, <2>5 DEF FlowInv
<1>5. CASE flow.kind # "race" /\ Start(1) /\ flowAnswers' = flowAnswers
  <2>1. /\ flow'.kind = flow.kind /\ flow'.started = 1 /\ flow'.waiting = FALSE
        /\ flow' \in [kind : Flows \cup Wrappers, started : Nat, waiting : BOOLEAN]
        /\ pending' = {1}
    BY <1>2, <1>5 DEF Start, FlowInv, FlowTypeOK
  <2>2. FlowTypeOK'
    BY <1>1, <1>5, <2>1 DEF FlowInv, FlowTypeOK
  <2>3. RunsInTurn' /\ RunsAtOnce'
    BY <1>1, <1>2, <1>5, <2>1, FlowAssumption DEF FlowInv, RunsInTurn, RunsAtOnce
  <2>4. AnsweredRight'
    BY <1>1, <1>5 DEF AnsweredRight
  <2> QED
    BY <1>3, <2>2, <2>3, <2>4 DEF FlowInv
<1>6. CASE /\ flow.kind = "race" /\ flow' = [flow EXCEPT !.started = FlowTasks]
           /\ pending' = 1..FlowTasks /\ flowAnswers' = flowAnswers
  <2>1. /\ flow'.kind = flow.kind /\ flow'.started = FlowTasks /\ flow'.waiting = flow.waiting
        /\ flow' \in [kind : Flows \cup Wrappers, started : Nat, waiting : BOOLEAN]
    BY <1>6, FlowAssumption DEF FlowInv, FlowTypeOK
  <2>2. FlowTypeOK'
    BY <1>1, <1>6, <2>1, FlowAssumption DEF FlowInv, FlowTypeOK
  <2>3. RunsInTurn' /\ RunsAtOnce'
    BY <1>1, <1>2, <1>6, <2>1, FlowAssumption DEF FlowInv, RunsInTurn, RunsAtOnce
  <2>4. AnsweredRight'
    BY <1>1, <1>6 DEF AnsweredRight
  <2> QED
    BY <1>3, <2>2, <2>3, <2>4 DEF FlowInv
<1> QED
  BY <1>4, <1>5, <1>6 DEF Begin, Final

LEMMA TimerStep == ASSUME FlowInv, RetryTimer PROVE FlowInv'
<1>1. /\ flow.waiting /\ flow.kind = "retry" /\ flow.started > 0 /\ flowAnswers = <<>>
      /\ pending = {} /\ flow.started = Len(outcomes) /\ flow.started < FlowTasks
  BY DEF RetryTimer, FlowInv, RunsInTurn, RunsAtOnce
<1>2. /\ outcomes' = outcomes /\ flowAnswers' = flowAnswers
      /\ memo' = memo /\ limit' = limit /\ caller' = caller
  BY DEF RetryTimer, Shared
<1>3. /\ flow'.kind = flow.kind /\ flow'.started = flow.started + 1 /\ flow'.waiting = FALSE
      /\ pending' = {flow.started + 1} /\ flow.started + 1 \in Nat
      /\ flow' \in [kind : Flows \cup Wrappers, started : Nat, waiting : BOOLEAN]
  <2>1. flow.started + 1 \in Nat
    BY DEF FlowInv, FlowTypeOK
  <2> QED
    BY <1>1, <2>1 DEF RetryTimer, Start, FlowInv, FlowTypeOK
<1>4. FlowTypeOK'
  BY <1>2, <1>3 DEF FlowInv, FlowTypeOK
<1>5. RunsInTurn' /\ RunsAtOnce'
  <2>1. flow.started + 1 <= FlowTasks
    BY <1>1, FlowAssumption DEF FlowInv, FlowTypeOK
  <2>2. \A k \in DOMAIN outcomes : WentOn(outcomes[k])'
    BY <1>1, <1>2, <1>3 DEF FlowInv, RunsInTurn, WentOn
  <2> QED
    BY <1>1, <1>2, <1>3, <2>1, <2>2 DEF FlowInv, RunsInTurn, RunsAtOnce, Flows
<1>6. AnsweredRight'
  BY <1>1, <1>2 DEF AnsweredRight
<1>7. MemoRight' /\ LimitRight'
  BY <1>2 DEF FlowInv, MemoRight, LimitRight, OneReply
<1> QED
  BY <1>4, <1>5, <1>6, <1>7 DEF FlowInv

(* A task calls back what comes to be the last turn.                         *)
LEMMA Turned ==
    ASSUME FlowInv, NEW n \in pending, NEW error \in BOOLEAN, NEW more \in BOOLEAN,
           TaskAnswers(n, error, more)
    PROVE  /\ outcomes' \in Seq(Turn) /\ DOMAIN outcomes' = 1..(Len(outcomes) + 1)
           /\ Len(outcomes') = Len(outcomes) + 1 /\ Len(outcomes) \in Nat
           /\ outcomes' # <<>>
           /\ DOMAIN outcomes = 1..Len(outcomes)
           /\ \A k \in 1..Len(outcomes) : outcomes'[k] = outcomes[k]
           /\ outcomes'[Len(outcomes) + 1] = [task |-> n, error |-> error, more |-> more]
           /\ memo' = memo /\ limit' = limit /\ caller' = caller
<1>1. /\ outcomes \in Seq(Turn) /\ DOMAIN outcomes = 1..Len(outcomes) /\ Len(outcomes) \in Nat
      /\ n \in Nat
  BY LenProperties DEF FlowInv, FlowTypeOK
<1>2. PICK turn \in Turn : turn = [task |-> n, error |-> error, more |-> more]
  BY <1>1 DEF Turn
<1>3. outcomes' = Append(outcomes, turn) /\ memo' = memo /\ limit' = limit /\ caller' = caller
  BY <1>2 DEF TaskAnswers, Shared
<1>4. /\ Append(outcomes, turn) \in Seq(Turn) /\ Append(outcomes, turn) # <<>>
      /\ Len(Append(outcomes, turn)) = Len(outcomes) + 1
      /\ \A k \in 1..Len(outcomes) : Append(outcomes, turn)[k] = outcomes[k]
      /\ Append(outcomes, turn)[Len(outcomes) + 1] = turn
  BY <1>1, AppendProperties
<1>5. DOMAIN Append(outcomes, turn) = 1..(Len(outcomes) + 1)
  BY <1>4, LenProperties
<1> QED
  BY <1>1, <1>2, <1>3, <1>4, <1>5

(* The final callback is called, with what the flow has come to.             *)
LEMMA Answered1 ==
    ASSUME FlowInv, NEW error \in BOOLEAN, flowAnswers = <<>>, Final(error), FlowRight(error)'
    PROVE  /\ flowAnswers' \in Seq([error : BOOLEAN]) /\ flowAnswers' # <<>>
           /\ AnsweredRight'
<1>1. flowAnswers' = <<[error |-> error]>>
  BY DEF Final
<1>2. /\ Len(flowAnswers') = 1 /\ DOMAIN flowAnswers' = {1} /\ flowAnswers'[1].error = error
      /\ flowAnswers' \in Seq([error : BOOLEAN]) /\ flowAnswers' # <<>>
  BY <1>1
<1>3. ASSUME NEW k \in DOMAIN flowAnswers' PROVE FlowRight(flowAnswers[k].error)'
  <2>1. flowAnswers'[k].error = error
    BY <1>2
  <2> QED
    BY <2>1 DEF FlowRight
<1>4. (Len(flowAnswers) <= 1)'
  BY <1>2
<1> QED
  BY <1>2, <1>3, <1>4 DEF AnsweredRight

LEMMA RaceStep ==
    ASSUME FlowInv, NEW n \in pending, NEW error \in BOOLEAN, NEW more \in BOOLEAN,
           TaskAnswers(n, error, more), flow.kind = "race"
    PROVE  FlowInv'
<1>1. /\ flow' = flow /\ pending' = pending \ {n}
      /\ IF RaceOver THEN flowAnswers' = flowAnswers ELSE Final(error)
  BY DEF TaskAnswers
<1>2. /\ ~flow.waiting /\ flow.started # 0
      /\ flowAnswers = <<>> <=> outcomes = <<>>
  BY DEF FlowInv, RunsAtOnce
<1>3. /\ MemoRight' /\ LimitRight' /\ outcomes' \in Seq(Turn)
      /\ memo' = memo /\ limit' = limit /\ caller' = caller /\ outcomes' # <<>>
  <2>1. /\ memo' = memo /\ limit' = limit /\ caller' = caller
        /\ outcomes' \in Seq(Turn) /\ outcomes' # <<>>
    BY Turned
  <2> QED
    BY <2>1 DEF FlowInv, MemoRight, LimitRight, OneReply
<1>4. CASE RaceOver
  <2>1. flowAnswers' = flowAnswers /\ flowAnswers # <<>> /\ outcomes # <<>>
    BY <1>1, <1>2, <1>4 DEF RaceOver
  <2>2. AnsweredRight'
    <3>1. Len(outcomes) # 0 /\ Len(outcomes) \in Nat /\ outcomes \in Seq(Turn)
      BY <2>1, EmptySeq, LenProperties DEF FlowInv, FlowTypeOK
    <3>2. outcomes'[1] = outcomes[1]
      <4>1. 1 \in 1..Len(outcomes)
        BY <3>1
      <4>2. \A k \in 1..Len(outcomes) : outcomes'[k] = outcomes[k]
        BY Turned
      <4> QED
        BY <4>1, <4>2
    <3>3. \A k \in DOMAIN flowAnswers : FlowRight(flowAnswers[k].error)'
      BY <1>1, <1>3, <2>1, <3>2 DEF FlowInv, AnsweredRight, FlowRight
    <3> QED
      BY <2>1, <3>3 DEF FlowInv, AnsweredRight
  <2>3. RunsInTurn' /\ RunsAtOnce'
    BY <1>1, <1>2, <1>3, <2>1 DEF RunsInTurn, RunsAtOnce
  <2> QED
    BY <1>1, <1>3, <2>1, <2>2, <2>3 DEF FlowInv, FlowTypeOK
<1>5. CASE ~RaceOver
  <2>1. flowAnswers = <<>> /\ outcomes = <<>> /\ Final(error)
    BY <1>1, <1>2, <1>5 DEF RaceOver
  <2>2. FlowRight(error)'
    <3>1. Len(outcomes) = 0
      BY <2>1
    <3>2. outcomes'[1].error = error
      <4>1. outcomes'[Len(outcomes) + 1] = [task |-> n, error |-> error, more |-> more]
        BY Turned
      <4>2. Len(outcomes) + 1 = 1
        BY <3>1
      <4> QED
        BY <4>1, <4>2
    <3> QED
      BY <1>1, <1>3, <3>2 DEF FlowRight
  <2>3. flowAnswers' \in Seq([error : BOOLEAN]) /\ flowAnswers' # <<>> /\ AnsweredRight'
    BY <2>1, <2>2, Answered1
  <2>4. RunsInTurn' /\ RunsAtOnce'
    BY <1>1, <1>2, <1>3, <2>3 DEF RunsInTurn, RunsAtOnce
  <2> QED
    BY <1>1, <1>3, <2>3, <2>4 DEF FlowInv, FlowTypeOK
<1> QED
  BY <1>4, <1>5

(* The task at work is the next in turn; either it went on, or the flow is   *)
(* answered.                                                                 *)
LEMMA TurnStep ==
    ASSUME FlowInv, NEW n \in pending, NEW error \in BOOLEAN, NEW more \in BOOLEAN,
           TaskAnswers(n, error, more), flow.kind # "race"
    PROVE  FlowInv'
<1>1. /\ n = Len(outcomes) + 1 /\ pending = {n} /\ flow.started = n /\ n \in Nat /\ n > 0
      /\ flowAnswers = <<>> /\ ~flow.waiting /\ flow.kind \in Flows
      /\ \A k \in DOMAIN outcomes : WentOn(outcomes[k]) /\ outcomes[k].task = k
  <2>1. n = Len(outcomes) + 1 /\ pending = {n} /\ flow.started = n /\ flowAnswers = <<>> /\ ~flow.waiting
    BY DEF FlowInv, RunsInTurn
  <2>2. Len(outcomes) \in Nat
    BY Turned
  <2>3. n \in Nat /\ n > 0
    BY <2>1, <2>2
  <2> QED
    BY <2>1, <2>3 DEF FlowInv, RunsInTurn
<1>2. PICK turn : turn = [task |-> n, error |-> error, more |-> more]
  OBVIOUS
<1>3. turn.task = n /\ turn.error = error /\ turn.more = more
  BY <1>2
<1>4. /\ outcomes' \in Seq(Turn) /\ DOMAIN outcomes' = 1..n /\ Len(outcomes') = n
      /\ outcomes' # <<>> /\ outcomes'[n] = turn
      /\ DOMAIN outcomes = 1..(n - 1)
      /\ \A k \in 1..(n - 1) : outcomes'[k] = outcomes[k]
  <2>1. Len(outcomes) = n - 1
    BY <1>1, Turned
  <2> QED
    BY <1>1, <1>2, <2>1, Turned
<1>5. /\ MemoRight' /\ LimitRight'
      /\ memo' = memo /\ limit' = limit /\ caller' = caller
  <2>1. memo' = memo /\ limit' = limit /\ caller' = caller
    BY Turned
  <2> QED
    BY <2>1 DEF FlowInv, MemoRight, LimitRight, OneReply
<1>6. \A k \in 1..n : k = n \/ (k \in 1..(n - 1) /\ k \in DOMAIN outcomes)
  BY <1>1, <1>4
<1>7. \A k \in 1..n : outcomes'[k].task = k
  BY <1>1, <1>3, <1>4, <1>6
<1>8. flow.kind \in {"waterfall", "retry"} => n <= FlowTasks
  BY <1>1 DEF FlowInv, RunsInTurn
<1>9. CASE /\ flow.kind = "retry" /\ error /\ TriesAgain(n, more)
           /\ pending' = {} /\ flowAnswers' = flowAnswers
           /\ flow' = [flow EXCEPT !.waiting = TRUE]
  <2>1. /\ flow'.kind = "retry" /\ flow'.started = n /\ flow'.waiting
        /\ flow' \in [kind : Flows \cup Wrappers, started : Nat, waiting : BOOLEAN]
    BY <1>1, <1>9 DEF FlowInv, FlowTypeOK
  <2>2. \A k \in 1..n : WentOn(outcomes[k])'
    BY <1>1, <1>3, <1>4, <1>6, <1>9, <2>1 DEF WentOn, TriesAgain
  <2>3. n < FlowTasks
    BY <1>9 DEF TriesAgain
  <2>4. RunsInTurn' /\ RunsAtOnce'
    BY <1>1, <1>4, <1>7, <1>8, <1>9, <2>1, <2>2, <2>3 DEF RunsInTurn, RunsAtOnce, Flows
  <2>5. AnsweredRight'
    BY <1>1, <1>9 DEF AnsweredRight
  <2>6. FlowTypeOK'
    BY <1>4, <1>5, <1>9, <2>1 DEF FlowInv, FlowTypeOK
  <2> QED
    BY <1>5, <2>4, <2>5, <2>6 DEF FlowInv
<1>10. CASE /\ flow.kind # "retry" /\ ~error /\ GoesOn(n, more)
            /\ flow' = [flow EXCEPT !.started = n + 1]
            /\ pending' = {n + 1} /\ flowAnswers' = flowAnswers
  <2>1. /\ flow'.kind = flow.kind /\ flow'.started = n + 1 /\ flow'.waiting = flow.waiting
        /\ n + 1 \in Nat
        /\ flow' \in [kind : Flows \cup Wrappers, started : Nat, waiting : BOOLEAN]
    <3>1. n + 1 \in Nat
      BY <1>1
    <3> QED
      BY <1>10, <3>1 DEF FlowInv, FlowTypeOK
  <2>2. \A k \in 1..n : WentOn(outcomes[k])'
    <3>1. more \/ flow.kind \in {"waterfall", "forever"}
      BY <1>10 DEF GoesOn
    <3> QED
      BY <1>1, <1>3, <1>4, <1>6, <1>10, <2>1, <3>1 DEF WentOn
  <2>3. flow.kind = "waterfall" => n + 1 <= FlowTasks
    BY <1>1, <1>10, FlowAssumption DEF GoesOn, Loops
  <2>4. RunsInTurn' /\ RunsAtOnce'
    BY <1>1, <1>4, <1>7, <1>10, <2>1, <2>2, <2>3 DEF RunsInTurn, RunsAtOnce
  <2>5. AnsweredRight'
    BY <1>1, <1>10 DEF AnsweredRight
  <2>6. FlowTypeOK'
    BY <1>4, <1>5, <1>10, <2>1 DEF FlowInv, FlowTypeOK
  <2> QED
    BY <1>5, <2>4, <2>5, <2>6 DEF FlowInv
<1>11. CASE /\ flow.kind = "retry" => ~ (error /\ TriesAgain(n, more))
            /\ flow.kind # "retry" => ~ (~error /\ GoesOn(n, more))
            /\ Final(error) /\ flow' = flow /\ pending' = {}
  <2>1. AllFine' <=> \A k \in 1..n : ~outcomes'[k].error
    BY <1>4 DEF AllFine
  <2>2. flow.kind # "retry" => (AllFine' <=> ~error)
    <3>1. flow.kind # "retry" => \A k \in 1..(n - 1) : ~outcomes'[k].error
      BY <1>1, <1>4 DEF WentOn
    <3>2. n \in 1..n
      BY <1>1
    <3> QED
      BY <1>3, <1>4, <1>6, <2>1, <3>1, <3>2
  <2>3. Last(outcomes)' = turn
    BY <1>4 DEF Last
  <2>4. FlowRight(error)'
    <3>1. CASE flow.kind = "waterfall"
      <4>1. ~error => n = FlowTasks
        <5>1. ~error => ~ (n < FlowTasks)
          BY <1>11, <3>1 DEF GoesOn
        <5> QED
          BY <1>1, <1>8, <3>1, <5>1, FlowAssumption
      <4> QED
        BY <1>4, <1>11, <2>2, <3>1, <4>1 DEF FlowRight
    <3>2. CASE flow.kind = "retry"
      <4>1. \A k \in 1..(n - 1) : outcomes'[k].error /\ outcomes'[k].more
        BY <1>1, <1>4, <3>2 DEF WentOn
      <4>2. error => n = FlowTasks \/ ~more
        <5>1. error => ~ (n < FlowTasks /\ more)
          BY <1>11, <3>2 DEF TriesAgain
        <5> QED
          BY <1>1, <1>8, <3>2, <5>1, FlowAssumption
      <4>3. n <= FlowTasks
        BY <1>8, <3>2
      <4> QED
        BY <1>3, <1>4, <1>11, <2>3, <3>2, <4>1, <4>2, <4>3 DEF FlowRight
    <3>3. CASE flow.kind \in Loops
      <4>1. \A k \in 1..(n - 1) : outcomes'[k].more \/ flow.kind = "forever"
        BY <1>1, <1>4, <3>3 DEF WentOn, Loops
      <4>2. flow.kind \notin {"race", "waterfall", "retry"}
        BY <3>3 DEF Loops
      <4>3. ~error => ~more /\ flow.kind # "forever"
        BY <1>11, <3>3, <4>2 DEF GoesOn
      <4> QED
        BY <1>3, <1>4, <1>11, <2>2, <2>3, <4>1, <4>2, <4>3 DEF FlowRight
    <3> QED
      BY <1>1, <3>1, <3>2, <3>3 DEF Flows, Loops
  <2>5. flowAnswers' \in Seq([error : BOOLEAN]) /\ flowAnswers' # <<>> /\ AnsweredRight'
    BY <1>1, <1>11, <2>4, Answered1
  <2>6. RunsInTurn' /\ RunsAtOnce'
    BY <1>1, <1>4, <1>7, <1>8, <1>11, <2>5 DEF RunsInTurn, RunsAtOnce
  <2>7. FlowTypeOK'
    BY <1>4, <1>5, <1>11, <2>5 DEF FlowInv, FlowTypeOK
  <2> QED
    BY <1>5, <2>5, <2>6, <2>7 DEF FlowInv
<1>12. pending \ {n} = {} /\ (pending \ {n}) \cup {n + 1} = {n + 1}
  BY <1>1
<1> QED
  BY <1>9, <1>10, <1>11, <1>12 DEF TaskAnswers

(* The wrappers leave the flow alone.                                        *)
LEMMA FlowRests ==
    ASSUME FlowInv, flow' = flow, FlowFixed
    PROVE  /\ RunsInTurn' /\ RunsAtOnce' /\ AnsweredRight'
           /\ (FlowTypeOK' <=>
                 /\ memo' \in [memo : [Keys -> Nat], queues : [Keys -> Seq(Callers)],
                               calls : [Keys -> Nat]]
                 /\ limit' \in Limit
                 /\ caller' \in [Callers -> [key : Keys, state : CallerStates, got : Seq(Heard),
                                             heard : BOOLEAN]])
<1>1. /\ flow' = flow /\ pending' = pending /\ outcomes' = outcomes
      /\ flowAnswers' = flowAnswers
  BY DEF FlowFixed
<1>2. RunsInTurn' /\ RunsAtOnce'
  BY <1>1 DEF FlowInv, RunsInTurn, RunsAtOnce, WentOn
<1>3. AnsweredRight'
  BY <1>1 DEF FlowInv, AnsweredRight, FlowRight, AllFine
<1> QED
  BY <1>1, <1>2, <1>3 DEF FlowInv, FlowTypeOK

LEMMA WhoWaits ==
    ASSUME FlowInv, NEW k \in Keys, NEW d \in ToSet(memo.queues[k])
    PROVE  d \in Callers /\ caller[d].state = "queued" /\ caller[d].key = k
<1>1. PICK t \in Seq(Callers) : t = memo.queues[k]
  BY DEF FlowInv, FlowTypeOK
<1>2. PICK j \in 1..Len(t) : t[j] = d
  BY <1>1, SetOf
<1>3. d \in Callers
  BY <1>1, <1>2, ElementOfSeq
<1> QED
  BY <1>3 DEF FlowInv, MemoRight

(* The calls of a memoized function do not touch those of one with a limit.  *)
LEMMA LimitRests ==
    ASSUME FlowInv, limit' = limit,
           \A d \in Callers :
              /\ caller'[d].heard = caller[d].heard
              /\ caller[d].state \in {"called", "new"} \/ caller'[d].state \in {"called", "new"}
                    => caller'[d] = caller[d]
    PROVE  LimitRight'
<1>1. limit.timers \subseteq Callers
  BY DEF FlowInv, FlowTypeOK, Limit
<1>2. \A d \in limit.timers : caller'[d].state = "called"
  BY <1>1 DEF FlowInv, LimitRight
<1>3. ASSUME NEW d \in Callers
      PROVE  /\ caller'[d].state = "called" =>
                    limit.original \in Callers /\ caller'[limit.original].state = "called"
             /\ caller'[d].state = "new" => ~caller'[d].heard
             /\ d \in limit.inTime => caller'[d].heard
             /\ d \in limit.stale => limit.timedOut
  BY DEF FlowInv, LimitRight
<1>4. ASSUME ~limit.overlapped, NEW d \in Callers, caller'[d].state = "called"
      PROVE  IF d \in limit'.timers
             THEN /\ caller'[d].got = <<>> /\ (caller'[d].heard => limit'.timedOut)
                  /\ d \in limit'.stale <=> limit'.timedOut
             ELSE OneReply(d)' /\ (caller'[d].heard \/ limit'.timedOut)
  <2>1. caller'[d] = caller[d] /\ caller[d].state = "called"
    BY <1>4
  <2>2. OneReply(d) <=> OneReply(d)'
    BY <2>1 DEF OneReply
  <2> QED
    BY <1>4, <2>1, <2>2 DEF FlowInv, LimitRight
<1>5. ~limit.overlapped => limit.timers \subseteq {limit.original}
  BY DEF FlowInv, LimitRight
<1> QED
  BY <1>2, <1>3, <1>4, <1>5 DEF LimitRight

LEMMA CallMemoizedStep ==
    ASSUME FlowInv, NEW c \in Callers, CallMemoized(c)
    PROVE  FlowInv'
<1>1. PICK key \in Keys : key = caller[c].key
  BY DEF FlowInv, FlowTypeOK
<1>2. PICK s \in CallerStates : s = IF MemoKnows(key) THEN "immediate" ELSE "queued"
  BY DEF CallerStates
<1>3. /\ caller[c].state = "new" /\ flow' = flow /\ limit' = limit /\ FlowFixed
      /\ caller' = [caller EXCEPT ![c].state = s]
      /\ memo' = IF MemoKnows(key) THEN memo
                 ELSE [memo EXCEPT !.queues[key] = Append(@, c),
                                   !.calls[key] = IF memo.queues[key] = <<>> THEN @ + 1 ELSE @]
  BY <1>1, <1>2 DEF CallMemoized
<1>4. caller \in [Callers -> [key : Keys, state : CallerStates, got : Seq(Heard), heard : BOOLEAN]]
  BY DEF FlowInv, FlowTypeOK
<1>5. /\ caller' \in [Callers -> [key : Keys, state : CallerStates, got : Seq(Heard), heard : BOOLEAN]]
      /\ caller'[c].state = s /\ caller'[c].key = key /\ caller'[c].got = caller[c].got
      /\ \A d \in Callers : d # c => caller'[d] = caller[d]
      /\ \A d \in Callers : /\ caller'[d].key = caller[d].key /\ caller'[d].got = caller[d].got
                            /\ caller'[d].heard = caller[d].heard
  BY <1>1, <1>3, <1>4
<1>6. /\ memo.memo \in [Keys -> Nat] /\ memo.queues \in [Keys -> Seq(Callers)]
      /\ memo.calls \in [Keys -> Nat]
      /\ memo = [memo |-> memo.memo, queues |-> memo.queues, calls |-> memo.calls]
  BY DEF FlowInv, FlowTypeOK
<1>7. LimitRight'
  BY <1>2, <1>3, <1>5 DEF FlowInv, LimitRight, OneReply
<1>8. CASE MemoKnows(key)
  <2>1. memo' = memo /\ s = "immediate" /\ memo.memo[key] # 0
    BY <1>2, <1>3, <1>8 DEF MemoKnows
  <2>2. MemoRight'
    <3>1. \A k \in Keys : \A d \in ToSet(memo.queues[k]) : caller'[d] = caller[d]
      BY <1>3, <1>5, WhoWaits
    <3>2. ASSUME NEW d \in Callers
          PROVE  /\ caller'[d].state = "queued" => d \in ToSet(memo.queues[caller'[d].key])
                 /\ caller'[d].state \in {"new", "queued", "immediate"} => caller'[d].got = <<>>
                 /\ caller'[d].state \in {"immediate", "done"} => memo.memo[caller'[d].key] # 0
                 /\ caller'[d].state = "done" => caller'[d].got = <<memo.memo[caller'[d].key]>>
      <4>1. CASE d = c
        BY <1>3, <1>5, <2>1, <4>1 DEF FlowInv, MemoRight
      <4>2. CASE d # c
        BY <1>5, <4>2 DEF FlowInv, MemoRight
      <4> QED
        BY <4>1, <4>2
    <3> QED
      BY <2>1, <3>1, <3>2 DEF FlowInv, MemoRight
  <2>3. FlowTypeOK'
    BY <1>3, <1>5, <2>1, FlowRests DEF FlowInv, FlowTypeOK
  <2> QED
    BY <1>3, <1>7, <2>2, <2>3, FlowRests DEF FlowInv
<1>9. CASE ~MemoKnows(key)
  <2>1. s = "queued" /\ memo.memo[key] = 0
    BY <1>2, <1>9 DEF MemoKnows
  <2>2. PICK n \in Nat : n = IF memo.queues[key] = <<>> THEN memo.calls[key] + 1 ELSE memo.calls[key]
    BY <1>6
  <2>3. /\ Append(memo.queues[key], c) \in Seq(Callers) /\ Append(memo.queues[key], c) # <<>>
        /\ ToSet(Append(memo.queues[key], c)) = ToSet(memo.queues[key]) \cup {c}
    <3>1. memo.queues[key] \in Seq(Callers)
      BY <1>6
    <3>2. PICK t \in Seq(Callers) : t = memo.queues[key]
      BY <3>1
    <3>3. Append(t, c) \in Seq(Callers) /\ Append(t, c) # <<>> /\ Append(t, c) = t \o <<c>>
      BY AppendProperties, AppendIsConcat
    <3>4. <<c>> \in Seq(Callers) /\ ToSet(<<c>>) = {c}
      BY DEF ToSet
    <3>5. PICK u \in Seq(Callers) : u = <<c>>
      BY <3>4
    <3>6. ToSet(t \o u) = ToSet(t) \cup ToSet(u)
      BY SetOfBoth
    <3> QED
      BY <3>2, <3>3, <3>4, <3>5, <3>6
  <2>4. memo' = [memo |-> memo.memo,
                 queues |-> [memo.queues EXCEPT ![key] = Append(memo.queues[key], c)],
                 calls |-> [memo.calls EXCEPT ![key] = n]]
    BY <1>3, <1>6, <1>9, <2>2
  <2>5. /\ memo'.memo = memo.memo
        /\ memo'.queues[key] = Append(memo.queues[key], c) /\ memo'.calls[key] = n
        /\ \A k \in Keys : k # key => memo'.queues[k] = memo.queues[k] /\ memo'.calls[k] = memo.calls[k]
        /\ memo'.queues \in [Keys -> Seq(Callers)] /\ memo'.calls \in [Keys -> Nat]
    BY <1>6, <2>3, <2>4
  <2>6. n <= 1
    <3>1. memo.calls[key] \in Nat /\ memo.calls[key] <= 1
          /\ (memo.calls[key] = 1 => memo.queues[key] # <<>>)
      BY <1>6, <2>1 DEF FlowInv, MemoRight
    <3> QED
      BY <2>2, <3>1
  <2>7. MemoRight'
    <3>1. ASSUME NEW k \in Keys
          PROVE  /\ memo'.calls[k] <= 1
                 /\ memo'.queues[k] # <<>> => memo'.memo[k] = 0
                 /\ memo'.calls[k] = 1 => memo'.queues[k] # <<>> \/ memo'.memo[k] # 0
                 /\ \A d \in ToSet(memo'.queues[k]) : caller'[d].state = "queued" /\ caller'[d].key = k
      <4>1. \A d \in ToSet(memo.queues[k]) : d \in Callers
        BY <1>6, SetOf, ElementOfSeq
      <4>2. \A d \in ToSet(memo.queues[k]) : caller'[d].state = "queued" /\ caller'[d].key = k
        BY <1>3, <1>5, <4>1 DEF FlowInv, MemoRight
      <4>3. CASE k = key
        BY <1>5, <2>1, <2>3, <2>5, <2>6, <4>2, <4>3
      <4>4. CASE k # key
        BY <2>5, <4>2, <4>4 DEF FlowInv, MemoRight
      <4> QED
        BY <4>3, <4>4
    <3>2. ASSUME NEW d \in Callers
          PROVE  /\ caller'[d].state = "queued" => d \in ToSet(memo'.queues[caller'[d].key])
                 /\ caller'[d].state \in {"new", "queued", "immediate"} => caller'[d].got = <<>>
                 /\ caller'[d].state \in {"immediate", "done"} => memo'.memo[caller'[d].key] # 0
                 /\ caller'[d].state = "done" => caller'[d].got = <<memo'.memo[caller'[d].key]>>
      <4>1. CASE d = c
        BY <1>3, <1>5, <2>1, <2>3, <2>5, <4>1 DEF FlowInv, MemoRight
      <4>2. CASE d # c
        <5>1. caller'[d] = caller[d] /\ caller[d].key \in Keys
          BY <1>4, <1>5, <4>2
        <5>2. ToSet(memo.queues[caller[d].key]) \subseteq ToSet(memo'.queues[caller[d].key])
          BY <2>3, <2>5, <5>1
        <5> QED
          BY <2>5, <5>1, <5>2 DEF FlowInv, MemoRight
      <4> QED
        BY <4>1, <4>2
    <3> QED
      BY <3>1, <3>2 DEF MemoRight
  <2>8. FlowTypeOK'
    <3>1. memo' \in [memo : [Keys -> Nat], queues : [Keys -> Seq(Callers)], calls : [Keys -> Nat]]
      BY <1>6, <2>4, <2>5
    <3> QED
      BY <1>3, <1>5, <3>1, FlowRests DEF FlowInv, FlowTypeOK
  <2> QED
    BY <1>3, <1>7, <2>7, <2>8, FlowRests DEF FlowInv
<1> QED
  BY <1>8, <1>9

(* All that wait for the key are answered, and none of it waits any more.    *)
LEMMA MemoAnswersStep ==
    ASSUME FlowInv, NEW key \in Keys, NEW result \in {1, 2}, MemoAnswers(key, result)
    PROVE  FlowInv'
<1>1. /\ memo.calls[key] > 0 /\ memo.queues[key] # <<>>
      /\ memo' = [memo EXCEPT !.memo[key] = result, !.queues[key] = <<>>]
      /\ caller' = [c \in Callers |->
                      IF c \in ToSet(memo.queues[key])
                      THEN [caller[c] EXCEPT !.state = "done", !.got = Append(@, result)]
                      ELSE caller[c]]
      /\ flow' = flow /\ limit' = limit /\ FlowFixed
  BY DEF MemoAnswers
<1>2. /\ memo.memo \in [Keys -> Nat] /\ memo.queues \in [Keys -> Seq(Callers)]
      /\ memo.calls \in [Keys -> Nat]
      /\ memo = [memo |-> memo.memo, queues |-> memo.queues, calls |-> memo.calls]
      /\ caller \in [Callers -> [key : Keys, state : CallerStates, got : Seq(Heard), heard : BOOLEAN]]
  BY DEF FlowInv, FlowTypeOK
<1>3. PICK waiting : waiting = ToSet(memo.queues[key])
  OBVIOUS
<1>4. \A c \in Callers : c \in waiting =>
         caller[c].state = "queued" /\ caller[c].key = key /\ caller[c].got = <<>>
  BY <1>3 DEF FlowInv, MemoRight
<1>5. /\ memo'.memo = [memo.memo EXCEPT ![key] = result]
      /\ memo'.queues = [memo.queues EXCEPT ![key] = <<>>]
      /\ memo'.calls = memo.calls
      /\ memo' = [memo |-> memo'.memo, queues |-> memo'.queues, calls |-> memo'.calls]
  BY <1>1, <1>2
<1>6. /\ memo'.memo[key] = result /\ memo'.queues[key] = <<>>
      /\ \A k \in Keys : k # key => memo'.memo[k] = memo.memo[k] /\ memo'.queues[k] = memo.queues[k]
      /\ memo'.memo \in [Keys -> Nat] /\ memo'.queues \in [Keys -> Seq(Callers)]
  BY <1>2, <1>5, EmptySeq
<1>7. ASSUME NEW c \in Callers
      PROVE  /\ caller'[c].key = caller[c].key /\ caller'[c].heard = caller[c].heard
             /\ IF c \in waiting THEN caller'[c].state = "done" /\ caller'[c].got = <<result>>
                ELSE caller'[c] = caller[c]
             /\ caller'[c] \in [key : Keys, state : CallerStates, got : Seq(Heard), heard : BOOLEAN]
  <2>1. caller[c] \in [key : Keys, state : CallerStates, got : Seq(Heard), heard : BOOLEAN]
    BY <1>2
  <2>2. CASE c \in waiting
    <3>1. caller'[c] = [caller[c] EXCEPT !.state = "done", !.got = Append(@, result)]
      BY <1>1, <1>3, <2>2
    <3>2. Append(caller[c].got, result) = <<result>> /\ <<result>> \in Seq(Heard)
      <4>1. caller[c].got = <<>>
        BY <1>4, <2>2
      <4>2. Append(<<>>, result) = <<result>>
        OBVIOUS
      <4>3. result \in Heard
        BY DEF Heard
      <4> QED
        BY <4>1, <4>2, <4>3
    <3>3. caller'[c] = [caller[c] EXCEPT !.state = "done", !.got = <<result>>]
      BY <2>1, <3>1, <3>2
    <3> QED
      BY <2>1, <2>2, <3>2, <3>3 DEF CallerStates
  <2>3. CASE c \notin waiting
    BY <1>1, <1>3, <2>1, <2>3
  <2> QED
    BY <2>2, <2>3
<1>8. FlowTypeOK'
  <2>1. memo' \in [memo : [Keys -> Nat], queues : [Keys -> Seq(Callers)], calls : [Keys -> Nat]]
    BY <1>2, <1>5, <1>6
  <2>2. caller' \in [Callers -> [key : Keys, state : CallerStates, got : Seq(Heard), heard : BOOLEAN]]
    <3>1. caller' = [c \in Callers |-> caller'[c]]
      BY <1>1
    <3> QED
      BY <1>7, <3>1
  <2>3. limit' \in Limit
    BY <1>1 DEF FlowInv, FlowTypeOK
  <2> QED
    BY <1>1, <2>1, <2>2, <2>3, FlowRests
<1>9. MemoRight'
  <2>1. ASSUME NEW k \in Keys
        PROVE  /\ memo'.calls[k] <= 1
               /\ memo'.queues[k] # <<>> => memo'.memo[k] = 0
               /\ memo'.calls[k] = 1 => memo'.queues[k] # <<>> \/ memo'.memo[k] # 0
               /\ \A d \in ToSet(memo'.queues[k]) : caller'[d].state = "queued" /\ caller'[d].key = k
    <3>1. CASE k = key
      <4>1. ToSet(memo'.queues[k]) = {}
        BY <1>6, <3>1 DEF ToSet
      <4> QED
        BY <1>5, <1>6, <3>1, <4>1 DEF FlowInv, MemoRight
    <3>2. CASE k # key
      <4>1. \A d \in ToSet(memo.queues[k]) : d \in Callers
        BY WhoWaits
      <4>2. \A d \in ToSet(memo.queues[k]) : caller[d].state = "queued" /\ caller[d].key = k
        BY DEF FlowInv, MemoRight
      <4>3. \A d \in ToSet(memo.queues[k]) : d \notin waiting
        BY <1>4, <3>2, <4>1, <4>2
      <4> QED
        BY <1>5, <1>6, <1>7, <3>2, <4>1, <4>2, <4>3 DEF FlowInv, MemoRight
    <3> QED
      BY <3>1, <3>2
  <2>2. ASSUME NEW d \in Callers
        PROVE  /\ caller'[d].state = "queued" => d \in ToSet(memo'.queues[caller'[d].key])
               /\ caller'[d].state \in {"new", "queued", "immediate"} => caller'[d].got = <<>>
               /\ caller'[d].state \in {"immediate", "done"} => memo'.memo[caller'[d].key] # 0
               /\ caller'[d].state = "done" => caller'[d].got = <<memo'.memo[caller'[d].key]>>
    <3>1. CASE d \in waiting
      BY <1>4, <1>6, <1>7, <3>1
    <3>2. CASE d \notin waiting
      <4>1. caller'[d] = caller[d] /\ caller[d].key \in Keys
        BY <1>2, <1>7, <3>2
      <4>2. CASE caller[d].key = key
        <5>1. caller[d].state \notin {"queued", "immediate", "done"}
          BY <1>1, <1>3, <3>2, <4>2 DEF FlowInv, MemoRight
        <5> QED
          BY <4>1, <5>1 DEF FlowInv, MemoRight
      <4>3. CASE caller[d].key # key
        BY <1>6, <4>1, <4>3 DEF FlowInv, MemoRight
      <4> QED
        BY <4>2, <4>3
    <3> QED
      BY <3>1, <3>2
  <2> QED
    BY <2>1, <2>2 DEF MemoRight
<1>10. LimitRight'
  <2>1. \A c \in Callers : (caller[c].state \in {"called", "new"} \/ caller'[c].state \in {"called", "new"})
            => caller'[c] = caller[c]
    BY <1>4, <1>7
  <2> QED
    BY <1>1, <1>7, <2>1, LimitRests
<1> QED
  BY <1>1, <1>8, <1>9, <1>10, FlowRests DEF FlowInv

LEMMA MemoImmediateStep ==
    ASSUME FlowInv, NEW c \in Callers, MemoImmediate(c)
    PROVE  FlowInv'
<1>1. caller \in [Callers -> [key : Keys, state : CallerStates, got : Seq(Heard), heard : BOOLEAN]]
  BY DEF FlowInv, FlowTypeOK
<1>2. PICK m \in Nat : m = memo.memo[caller[c].key]
  BY <1>1 DEF FlowInv, FlowTypeOK
<1>3. /\ caller[c].state = "immediate" /\ caller[c].got = <<>> /\ m # 0
      /\ flow' = flow /\ limit' = limit /\ memo' = memo /\ FlowFixed
  BY <1>2 DEF MemoImmediate, FlowInv, MemoRight
<1>4. Append(caller[c].got, m) = <<m>> /\ <<m>> \in Seq(Heard) /\ "done" \in CallerStates
  BY <1>3 DEF Heard, CallerStates
<1>5. caller' = [caller EXCEPT ![c] = [caller[c] EXCEPT !.state = "done", !.got = <<m>>]]
  BY <1>1, <1>2, <1>4 DEF MemoImmediate
<1>6. /\ caller'[c].state = "done" /\ caller'[c].key = caller[c].key /\ caller'[c].got = <<m>>
      /\ caller'[c].heard = caller[c].heard
      /\ \A d \in Callers : d # c => caller'[d] = caller[d]
      /\ caller' \in [Callers -> [key : Keys, state : CallerStates, got : Seq(Heard), heard : BOOLEAN]]
  BY <1>1, <1>4, <1>5
<1>7. FlowTypeOK'
  BY <1>3, <1>6, FlowRests DEF FlowInv, FlowTypeOK
<1>8. MemoRight'
  <2>1. \A k \in Keys : \A d \in ToSet(memo.queues[k]) : caller'[d] = caller[d]
    BY <1>3, <1>6, WhoWaits
  <2>2. ASSUME NEW d \in Callers
        PROVE  /\ caller'[d].state = "queued" => d \in ToSet(memo.queues[caller'[d].key])
               /\ caller'[d].state \in {"new", "queued", "immediate"} => caller'[d].got = <<>>
               /\ caller'[d].state \in {"immediate", "done"} => memo.memo[caller'[d].key] # 0
               /\ caller'[d].state = "done" => caller'[d].got = <<memo.memo[caller'[d].key]>>
    <3>1. CASE d = c
      BY <1>2, <1>3, <1>6, <3>1
    <3>2. CASE d # c
      BY <1>6, <3>2 DEF FlowInv, MemoRight
    <3> QED
      BY <3>1, <3>2
  <2> QED
    BY <1>3, <2>1, <2>2 DEF FlowInv, MemoRight
<1>9. LimitRight'
  BY <1>3, <1>6, LimitRests
<1> QED
  BY <1>3, <1>7, <1>8, <1>9, FlowRests DEF FlowInv

(* The calls of a function with a timeout do not touch a memo's callers.     *)
LEMMA MemoRests ==
    ASSUME FlowInv, memo' = memo,
           \A d \in Callers : /\ caller'[d].key = caller[d].key
                              /\ \/ caller'[d].state = caller[d].state /\ caller'[d].got = caller[d].got
                                 \/ caller'[d].state = "called" /\ caller[d].state \in {"new", "called"}
    PROVE  MemoRight'
<1>1. \A k \in Keys : \A d \in ToSet(memo.queues[k]) : caller'[d].state = "queued" /\ caller'[d].key = k
  BY WhoWaits
<1>2. ASSUME NEW d \in Callers
      PROVE  /\ caller'[d].state = "queued" => d \in ToSet(memo.queues[caller'[d].key])
             /\ caller'[d].state \in {"new", "queued", "immediate"} => caller'[d].got = <<>>
             /\ caller'[d].state \in {"immediate", "done"} => memo.memo[caller'[d].key] # 0
             /\ caller'[d].state = "done" => caller'[d].got = <<memo.memo[caller'[d].key]>>
  BY DEF FlowInv, MemoRight
<1> QED
  BY <1>1, <1>2 DEF FlowInv, MemoRight

LEMMA CallTimedStep ==
    ASSUME FlowInv, NEW c \in Callers, CallTimed(c)
    PROVE  FlowInv'
<1>1. /\ caller[c].state = "new" /\ caller' = [caller EXCEPT ![c].state = "called"]
      /\ limit' = [limit EXCEPT !.original = c, !.timers = @ \cup {c},
                                !.overlapped = @ \/ limit.timers # {},
                                !.stale = IF limit.timedOut THEN @ \cup {c} ELSE @]
      /\ flow' = flow /\ memo' = memo /\ FlowFixed
  BY DEF CallTimed
<1>2. /\ caller \in [Callers -> [key : Keys, state : CallerStates, got : Seq(Heard), heard : BOOLEAN]]
      /\ limit \in Limit
  BY DEF FlowInv, FlowTypeOK
<1>3. /\ caller' \in [Callers -> [key : Keys, state : CallerStates, got : Seq(Heard), heard : BOOLEAN]]
      /\ caller'[c].state = "called" /\ caller'[c].key = caller[c].key
      /\ caller'[c].got = caller[c].got /\ caller'[c].heard = caller[c].heard
      /\ \A d \in Callers : d # c => caller'[d] = caller[d]
  BY <1>1, <1>2 DEF CallerStates
<1>4. /\ limit'.original = c /\ limit'.timers = limit.timers \cup {c}
      /\ limit'.timedOut = limit.timedOut /\ limit'.inTime = limit.inTime
      /\ limit'.stale = IF limit.timedOut THEN limit.stale \cup {c} ELSE limit.stale
      /\ limit'.overlapped = (limit.overlapped \/ limit.timers # {})
      /\ limit' \in Limit
  <2>1. (limit.overlapped \/ limit.timers # {}) \in BOOLEAN
    BY <1>2
  <2>2. PICK z \in SUBSET Callers :
           z = IF limit.timedOut THEN limit.stale \cup {c} ELSE limit.stale
    BY <1>2 DEF Limit
  <2>3. PICK b \in BOOLEAN : b = (limit.overlapped \/ limit.timers # {})
    BY <2>1
  <2>4. limit' = [limit EXCEPT !.original = c, !.timers = @ \cup {c},
                               !.overlapped = b, !.stale = z]
    BY <1>1, <1>2, <2>2, <2>3 DEF Limit
  <2>5. limit.timers \cup {c} \subseteq Callers
    BY <1>2 DEF Limit
  <2> QED
    BY <1>2, <2>2, <2>3, <2>4, <2>5 DEF Limit
<1>5. FlowTypeOK'
  BY <1>1, <1>3, <1>4, FlowRests DEF FlowInv, FlowTypeOK
<1>6. MemoRight'
  BY <1>1, <1>3, MemoRests
<1>7. LimitRight'
  <2>1. \A d \in limit'.timers : caller'[d].state = "called"
    BY <1>2, <1>3, <1>4 DEF FlowInv, LimitRight, Limit
  <2>2. \A d \in Callers : caller'[d].state = "new" => ~caller'[d].heard
    BY <1>3 DEF FlowInv, LimitRight
  <2>5. limit.inTime \subseteq Callers /\ limit.timedOut \in BOOLEAN
    BY <1>2 DEF Limit
  <2>6. \A d \in Callers : /\ d \in limit'.inTime => caller'[d].heard
                           /\ d \in limit'.stale => limit'.timedOut
    BY <1>3, <1>4, <2>5 DEF FlowInv, LimitRight
  <2>3. ASSUME ~limit'.overlapped, NEW d \in Callers, caller'[d].state = "called"
        PROVE  IF d \in limit'.timers
               THEN /\ caller'[d].got = <<>> /\ (caller'[d].heard => limit'.timedOut)
                    /\ d \in limit'.stale <=> limit'.timedOut
               ELSE OneReply(d)' /\ (caller'[d].heard \/ limit'.timedOut)
    <3>1. ~limit.overlapped /\ limit.timers = {}
      BY <1>4, <2>3
    <3>2. CASE d = c
      <4>1. caller[c].got = <<>> /\ ~caller[c].heard
        BY <1>1 DEF FlowInv, MemoRight, LimitRight
      <4>2. c \in limit'.stale <=> limit'.timedOut
        BY <1>1, <1>4, <2>5 DEF FlowInv, LimitRight
      <4> QED
        BY <1>3, <1>4, <3>2, <4>1, <4>2
    <3>3. CASE d # c
      <4>1. OneReply(d) /\ (caller[d].heard \/ limit.timedOut)
        BY <1>3, <2>3, <3>1, <3>3 DEF FlowInv, LimitRight
      <4>2. d \in limit'.inTime \ limit'.stale <=> d \in limit.inTime \ limit.stale
        BY <1>4, <3>3
      <4>3. d \notin limit'.timers
        BY <1>4, <3>1, <3>3
      <4> QED
        BY <1>3, <1>4, <3>3, <4>1, <4>2, <4>3 DEF OneReply
    <3> QED
      BY <3>2, <3>3
  <2>4. ~limit'.overlapped => limit'.timers \subseteq {limit'.original}
    BY <1>4
  <2> QED
    BY <1>3, <1>4, <2>1, <2>2, <2>3, <2>4, <2>6 DEF LimitRight
<1> QED
  BY <1>1, <1>5, <1>6, <1>7, FlowRests DEF FlowInv

(* One more answer for the last caller.                                      *)
LEMMA OneMore ==
    ASSUME FlowInv, NEW o \in Callers, NEW x \in Heard
    PROVE  /\ Append(caller[o].got, x) \in Seq(Heard)
           /\ caller[o].got = <<>> => Append(caller[o].got, x) = <<x>>
<1>1. PICK s \in Seq(Heard) : s = caller[o].got
  BY DEF FlowInv, FlowTypeOK
<1>2. Append(s, x) \in Seq(Heard)
  BY AppendProperties
<1>3. s = <<>> => Append(s, x) = <<x>>
  OBVIOUS
<1> QED
  BY <1>1, <1>2, <1>3

LEMMA TimedAnswersStep ==
    ASSUME FlowInv, NEW c \in Callers, TimedAnswers(c)
    PROVE  FlowInv'
<1>1. /\ caller[c].state = "called" /\ ~caller[c].heard
      /\ flow' = flow /\ memo' = memo /\ FlowFixed
  BY DEF TimedAnswers
<1>2. /\ caller \in [Callers -> [key : Keys, state : CallerStates, got : Seq(Heard), heard : BOOLEAN]]
      /\ limit \in Limit
  BY DEF FlowInv, FlowTypeOK
<1>3. PICK o \in Callers : o = limit.original /\ caller[o].state = "called"
  BY <1>1 DEF FlowInv, LimitRight
<1>4. PICK h : h = [caller EXCEPT ![c].heard = TRUE]
  OBVIOUS
<1>8. PICK timely \in SUBSET Callers : timely = limit.inTime \cup ({c} \cap limit.timers)
  BY <1>2 DEF Limit
<1>5. /\ h \in [Callers -> [key : Keys, state : CallerStates, got : Seq(Heard), heard : BOOLEAN]]
      /\ h[c].heard = TRUE
      /\ \A d \in Callers : /\ h[d].key = caller[d].key /\ h[d].state = caller[d].state
                            /\ h[d].got = caller[d].got
                            /\ d # c => h[d].heard = caller[d].heard
  BY <1>2, <1>4
<1>6. CASE Injects
  <2>1. /\ caller' = [h EXCEPT ![o].got = Append(@, Ok)]
        /\ limit' = [limit EXCEPT !.timers = @ \ {o}, !.inTime = timely]
    BY <1>3, <1>4, <1>6, <1>8 DEF TimedAnswers
  <2>2. Append(caller[o].got, Ok) \in Seq(Heard)
    BY OneMore DEF Heard
  <2>3. /\ caller' \in [Callers -> [key : Keys, state : CallerStates, got : Seq(Heard), heard : BOOLEAN]]
        /\ caller'[o].got = Append(caller[o].got, Ok)
        /\ \A d \in Callers : /\ caller'[d].key = caller[d].key /\ caller'[d].state = caller[d].state
                              /\ caller'[d].heard = h[d].heard
                              /\ d # o => caller'[d].got = caller[d].got
    BY <1>5, <2>1, <2>2
  <2>4. /\ limit'.original = o /\ limit'.timers = limit.timers \ {o}
        /\ limit'.timedOut = limit.timedOut /\ limit'.overlapped = limit.overlapped
        /\ limit'.stale = limit.stale /\ limit'.inTime = timely
        /\ limit' \in Limit
    BY <1>2, <1>3, <2>1 DEF Limit
  <2>5. FlowTypeOK'
    BY <1>1, <2>3, <2>4, FlowRests DEF FlowInv, FlowTypeOK
  <2>6. MemoRight'
    BY <1>1, <1>3, <2>3, MemoRests
  <2>7. LimitRight'
    <3>1. \A d \in limit'.timers : caller'[d].state = "called"
      BY <1>2, <2>3, <2>4 DEF FlowInv, LimitRight, Limit
    <3>2. ASSUME NEW d \in Callers, caller'[d].state = "new" PROVE ~caller'[d].heard
      <4>1. caller[d].state = "new" /\ d # c
        BY <1>1, <2>3, <3>2
      <4> QED
        BY <1>5, <2>3, <4>1 DEF FlowInv, LimitRight
    <3>3. ASSUME ~limit.overlapped, NEW d \in Callers, caller[d].state = "called"
          PROVE  IF d \in limit'.timers
                 THEN /\ caller'[d].got = <<>> /\ (caller'[d].heard => limit'.timedOut)
                      /\ d \in limit'.stale <=> limit'.timedOut
                 ELSE OneReply(d)' /\ (caller'[d].heard \/ limit'.timedOut)
      <4>1. ~limit.timedOut /\ c \in limit.timers /\ limit.timers \subseteq {o}
        BY <1>1, <1>3, <1>6, <3>3 DEF Injects, FlowInv, LimitRight
      <4>2. c = o /\ limit'.timers = {}
        BY <2>4, <4>1
      <4>3. CASE d = c
        <5>1. caller[o].got = <<>>
          BY <1>1, <3>3, <4>1, <4>2 DEF FlowInv, LimitRight
        <5>2. Append(caller[o].got, Ok) = <<Ok>>
          BY <5>1, OneMore DEF Heard
        <5>3. caller'[d].got = <<Ok>> /\ caller'[d].heard
          BY <1>5, <2>3, <4>2, <4>3, <5>2
        <5>4. d \in limit'.inTime \ limit'.stale
          BY <1>3, <1>8, <2>4, <4>1, <4>3 DEF FlowInv, LimitRight
        <5> QED
          BY <4>2, <5>3, <5>4 DEF OneReply
      <4>4. CASE d # c
        <5>1. d \notin limit.timers
          BY <4>1, <4>2, <4>4
        <5>2. OneReply(d) /\ caller[d].heard
          BY <3>3, <4>1, <5>1 DEF FlowInv, LimitRight
        <5>3. d \in limit'.inTime \ limit'.stale <=> d \in limit.inTime \ limit.stale
          BY <1>8, <2>4, <4>4
        <5> QED
          BY <1>5, <2>3, <4>2, <4>4, <5>2, <5>3 DEF OneReply
      <4> QED
        BY <4>3, <4>4
    <3>4. ~limit.overlapped => limit'.timers \subseteq {limit'.original}
      BY <1>3, <2>4 DEF FlowInv, LimitRight
    <3>5. \A d \in Callers : caller'[d].state = caller[d].state
      BY <2>3
    <3>6. limit'.original \in Callers /\ caller'[limit'.original].state = "called"
      BY <1>3, <2>4, <3>5
    <3>7. limit'.overlapped = limit.overlapped
      BY <2>4
    <3>8. \A d \in Callers : /\ d \in limit'.inTime => caller'[d].heard
                             /\ d \in limit'.stale => limit'.timedOut
      <4>1. ASSUME NEW d \in Callers, d \in limit'.inTime PROVE caller'[d].heard
        <5>1. d \in limit.inTime \/ d = c
          BY <1>8, <2>4, <4>1
        <5>2. d \in limit.inTime => caller[d].heard
          BY DEF FlowInv, LimitRight
        <5> QED
          BY <1>5, <2>3, <5>1, <5>2
      <4>2. \A d \in Callers : d \in limit'.stale => limit'.timedOut
        BY <2>4 DEF FlowInv, LimitRight
      <4> QED
        BY <4>1, <4>2
    <3> QED
      BY <3>1, <3>2, <3>3, <3>4, <3>5, <3>6, <3>7, <3>8 DEF LimitRight
  <2> QED
    BY <1>1, <2>5, <2>6, <2>7, FlowRests DEF FlowInv
<1>7. CASE ~Injects
  <2>1. caller' = h /\ limit' = [limit EXCEPT !.inTime = timely] /\ limit.timedOut
    BY <1>4, <1>7, <1>8 DEF TimedAnswers, Injects
  <2>5. /\ limit'.original = limit.original /\ limit'.timers = limit.timers
        /\ limit'.timedOut = limit.timedOut /\ limit'.overlapped = limit.overlapped
        /\ limit'.stale = limit.stale /\ limit'.inTime = timely
        /\ limit' \in Limit
    BY <1>2, <1>8, <2>1 DEF Limit
  <2>2. FlowTypeOK'
    BY <1>1, <1>5, <2>1, <2>5, FlowRests DEF FlowInv, FlowTypeOK
  <2>3. MemoRight'
    BY <1>1, <1>5, <2>1, MemoRests
  <2>4. LimitRight'
    <3>1. \A d \in limit.timers : h[d].state = "called"
      BY <1>2, <1>5 DEF FlowInv, LimitRight, Limit
    <3>2. h[limit.original].state = "called" /\ limit.original \in Callers
      BY <1>3, <1>5
    <3>3. ASSUME NEW d \in Callers, h[d].state = "new" PROVE ~h[d].heard
      <4>1. caller[d].state = "new" /\ d # c
        BY <1>1, <1>5, <3>3
      <4> QED
        BY <1>5, <4>1 DEF FlowInv, LimitRight
    <3>4. ASSUME ~limit.overlapped, NEW d \in Callers, h[d].state = "called"
          PROVE  IF d \in limit'.timers
                 THEN /\ caller'[d].got = <<>> /\ (caller'[d].heard => limit'.timedOut)
                      /\ d \in limit'.stale <=> limit'.timedOut
                 ELSE OneReply(d)' /\ (caller'[d].heard \/ limit'.timedOut)
      <4>1. CASE d \in limit.timers
        BY <1>5, <2>1, <2>5, <3>4, <4>1 DEF FlowInv, LimitRight
      <4>2. CASE d \notin limit.timers
        <5>1. OneReply(d)
          BY <1>5, <3>4, <4>2 DEF FlowInv, LimitRight
        <5>2. d \in limit'.inTime \ limit'.stale <=> d \in limit.inTime \ limit.stale
          BY <1>8, <2>5, <4>2
        <5> QED
          BY <1>5, <2>1, <2>5, <4>2, <5>1, <5>2 DEF OneReply
      <4> QED
        BY <4>1, <4>2
    <3>5. ~limit.overlapped => limit.timers \subseteq {limit.original}
      BY DEF FlowInv, LimitRight
    <3>6. \A d \in Callers : /\ d \in limit'.inTime => caller'[d].heard
                             /\ d \in limit'.stale => limit'.timedOut
      BY <1>5, <1>8, <2>1, <2>5 DEF FlowInv, LimitRight
    <3> QED
      BY <2>1, <2>5, <3>1, <3>2, <3>3, <3>4, <3>5, <3>6 DEF LimitRight
  <2> QED
    BY <1>1, <2>2, <2>3, <2>4, FlowRests DEF FlowInv
<1> QED
  BY <1>6, <1>7

LEMMA TimerFiresStep ==
    ASSUME FlowInv, NEW c \in Callers, TimerFires(c)
    PROVE  FlowInv'
<1>1. /\ caller \in [Callers -> [key : Keys, state : CallerStates, got : Seq(Heard), heard : BOOLEAN]]
      /\ limit \in Limit
  BY DEF FlowInv, FlowTypeOK
<1>2. c \in limit.timers /\ flow' = flow /\ memo' = memo /\ FlowFixed
  BY DEF TimerFires
<1>3. PICK o \in Callers : o = limit.original /\ caller[o].state = "called"
  BY <1>2 DEF FlowInv, LimitRight
<1>4. /\ limit' = [limit EXCEPT !.timers = @ \ {c}, !.timedOut = TRUE]
      /\ caller' = [caller EXCEPT ![o].got = Append(@, TimedOut)]
  BY <1>3 DEF TimerFires
<1>5. /\ limit'.original = o /\ limit'.timers = limit.timers \ {c}
      /\ limit'.timedOut = TRUE /\ limit'.overlapped = limit.overlapped
      /\ limit'.stale = limit.stale /\ limit'.inTime = limit.inTime
      /\ limit' \in Limit
  BY <1>1, <1>3, <1>4 DEF Limit
<1>6. Append(caller[o].got, TimedOut) \in Seq(Heard)
  BY OneMore DEF Heard
<1>7. /\ caller' \in [Callers -> [key : Keys, state : CallerStates, got : Seq(Heard), heard : BOOLEAN]]
      /\ caller'[o].got = Append(caller[o].got, TimedOut)
      /\ \A d \in Callers : /\ caller'[d].key = caller[d].key /\ caller'[d].state = caller[d].state
                            /\ caller'[d].heard = caller[d].heard
                            /\ d # o => caller'[d].got = caller[d].got
  BY <1>1, <1>4, <1>6
<1>8. FlowTypeOK'
  BY <1>2, <1>5, <1>7, FlowRests DEF FlowInv, FlowTypeOK
<1>9. MemoRight'
  BY <1>2, <1>3, <1>7, MemoRests
<1>10. LimitRight'
  <2>1. \A d \in limit'.timers : caller'[d].state = "called"
    BY <1>1, <1>5, <1>7 DEF FlowInv, LimitRight, Limit
  <2>2. \A d \in Callers : caller'[d].state = "new" => ~caller'[d].heard
    BY <1>7 DEF FlowInv, LimitRight
  <2>3. ASSUME ~limit.overlapped, NEW d \in Callers, caller[d].state = "called"
        PROVE  d \notin limit'.timers /\ OneReply(d)'
    <3>1. c = o /\ limit.timers = {o}
      BY <1>2, <1>3, <2>3 DEF FlowInv, LimitRight
    <3>2. CASE d = o
      <4>1. caller[o].got = <<>>
        BY <1>3, <2>3, <3>1 DEF FlowInv, LimitRight
      <4>2. Append(caller[o].got, TimedOut) = <<TimedOut>>
        BY <4>1, OneMore DEF Heard
      <4>3. d \notin limit'.inTime \ limit'.stale
        BY <1>3, <1>5, <2>3, <3>1, <3>2 DEF FlowInv, LimitRight
      <4> QED
        BY <1>5, <1>7, <3>1, <3>2, <4>2, <4>3 DEF OneReply
    <3>3. CASE d # o
      <4>1. d \notin limit.timers
        BY <3>1, <3>3
      <4>2. OneReply(d)
        BY <2>3, <4>1 DEF FlowInv, LimitRight
      <4> QED
        BY <1>5, <1>7, <3>3, <4>1, <4>2 DEF OneReply
    <3> QED
      BY <3>2, <3>3
  <2>4. ~limit.overlapped => limit'.timers \subseteq {limit'.original}
    BY <1>3, <1>5 DEF FlowInv, LimitRight
  <2>5. \A d \in Callers : d \in limit'.inTime => caller'[d].heard
    BY <1>5, <1>7 DEF FlowInv, LimitRight
  <2> QED
    <3>1. limit'.original \in Callers /\ caller'[limit'.original].state = "called"
      BY <1>3, <1>5, <1>7
    <3>2. ~limit'.overlapped => ~limit.overlapped
      BY <1>5
    <3>3. \A d \in Callers : caller'[d].state = caller[d].state
      BY <1>7
    <3> QED
      BY <1>5, <2>1, <2>2, <2>3, <2>4, <2>5, <3>1, <3>2, <3>3 DEF LimitRight
<1> QED
  BY <1>2, <1>8, <1>9, <1>10, FlowRests DEF FlowInv

LEMMA NextFlow == FlowInv /\ [FlowNext]_flowVars => FlowInv'
<1> SUFFICES ASSUME FlowInv, [FlowNext]_flowVars PROVE FlowInv'
  OBVIOUS
<1>1. CASE Begin
  BY <1>1, BeginStep
<1>2. CASE FlowCallback
  BY <1>2, RaceStep, TurnStep DEF FlowCallback
<1>3. CASE RetryTimer
  BY <1>3, TimerStep
<1>4. CASE \E key \in Keys, result \in {1, 2} : MemoAnswers(key, result)
  BY <1>4, MemoAnswersStep
<1>5. CASE \E c \in Callers : CallMemoized(c) \/ MemoImmediate(c)
  BY <1>5, CallMemoizedStep, MemoImmediateStep
<1>6. CASE \E c \in Callers : CallTimed(c) \/ TimedAnswers(c) \/ TimerFires(c)
  BY <1>6, CallTimedStep, TimedAnswersStep, TimerFiresStep
<1>7. CASE UNCHANGED flowVars
  <2>1. flow' = flow /\ FlowFixed /\ memo' = memo /\ limit' = limit /\ caller' = caller
    BY <1>7 DEF flowVars, FlowFixed
  <2>2. MemoRight' /\ LimitRight'
    BY <2>1 DEF FlowInv, MemoRight, LimitRight, OneReply
  <2> QED
    BY <2>1, <2>2, FlowRests DEF FlowInv, FlowTypeOK
<1> QED
  BY <1>1, <1>2, <1>3, <1>4, <1>5, <1>6, <1>7 DEF FlowNext

(* A flow calls its final callback once, with what its tasks, in whatever    *)
(* way they end, amount to (waterfall 9469-9501, retry 8847-8864, loops and  *)
(* race); a memoized function is called once for a key, and all who ask get  *)
(* that answer (8112-8144); a function with a timeout answers who calls      *)
(* once, if no call comes while another is under way: with its answer if it  *)
(* is in time and no call timed out before, else with the error (9138-9168). *)
THEOREM FlowsAnswerOnce == FlowSpec => []FlowIsRight
<1>1. FlowSpec => []FlowInv
  BY InitFlow, NextFlow, PTL DEF FlowSpec
<1> QED
  BY <1>1, FlowInvGives, PTL

-----------------------------------------------------------------------------
AutoPhases == {"checking", "looping", "waiting"}
AutoOutcomes == {<<>>, <<"done">>, <<"thrown">>, <<"error">>}

AutoTypeOK ==
    /\ graph \in Graphs /\ concurrency \in Concurrencies
    /\ readyToCheck \in Seq(Tasks) /\ uncheckedDependencies \in [Tasks -> Int] /\ counter \in Nat
    /\ readyTasks \in Seq(Tasks) /\ remaining \in [Tasks -> Int]
    /\ autoRunning \subseteq Tasks /\ results \subseteq Tasks
    /\ hasError \in BOOLEAN /\ autoPhase \in AutoPhases /\ autoAnswers \in AutoOutcomes

(* The tasks C were taken from the stack.                                    *)
Checked(C) ==
    /\ counter = Cardinality(C)
    /\ \A t \in Tasks : uncheckedDependencies[t]
                           = Len(graph[t]) - Cardinality(DependsOn(graph, t) \cap C)
    /\ IsInjective(readyToCheck) /\ ToSet(readyToCheck) \cap C = {}
    /\ ToSet(readyToCheck) \cup C = {t \in Tasks : uncheckedDependencies[t] = 0}
    /\ \A S \in SUBSET Tasks : WaitForEachOther(S) => S \cap (C \cup ToSet(readyToCheck)) = {}

Impossible ==
    \/ \E S \in SUBSET Tasks : WaitForEachOther(S)
    \/ \E t \in Tasks : ~IsInjective(graph[t])

CheckRight ==
    IF autoPhase = "checking"
    THEN /\ \E C \in SUBSET Tasks : Checked(C)
         /\ Tasks # {} /\ autoAnswers = <<>> /\ autoRunning = {} /\ results = {}
    ELSE autoAnswers = <<"thrown">> <=> Impossible

Unmet(t) == {k \in DOMAIN graph[t] : graph[t][k] \notin results}
Unblocked == ToSet(readyTasks) \cup autoRunning \cup results

(* A task is in one place, and gets there when all it depends on have called *)
(* back.                                                                     *)
InTurn ==
    /\ IsInjective(readyTasks)
    /\ ToSet(readyTasks) \cap autoRunning = {} /\ ToSet(readyTasks) \cap results = {}
    /\ autoRunning \cap results = {}
    /\ \A t \in Unblocked : DependsOn(graph, t) \subseteq results
    /\ ~hasError => \A t \in Tasks : /\ remaining[t] = Cardinality(Unmet(t))
                                     /\ DependsOn(graph, t) \subseteq results => t \in Unblocked
    /\ Cardinality(autoRunning) <= concurrency

AutoAnswered ==
    /\ hasError => autoAnswers # <<>>
    /\ autoAnswers = <<"thrown">> => autoPhase = "waiting" /\ autoRunning = {}
    /\ autoAnswers = <<"done">> => results = Tasks
    /\ autoPhase # "checking" /\ autoAnswers = <<>> => readyTasks # <<>> \/ autoRunning # {}
    /\ autoPhase = "waiting" /\ autoAnswers = <<>> => ~MayRun

AutoInv == AutoTypeOK /\ CheckRight /\ InTurn /\ AutoAnswered

-----------------------------------------------------------------------------
LEMMA Outcomes ==
    /\ Len(<<"done">>) = 1 /\ Len(<<"thrown">>) = 1 /\ Len(<<"error">>) = 1
    /\ <<>> # <<"done">> /\ <<>> # <<"thrown">> /\ <<>> # <<"error">>
    /\ <<"done">> # <<"thrown">> /\ <<"done">> # <<"error">> /\ <<"thrown">> # <<"error">>
    /\ Len(<<>>) = 0
  OBVIOUS

LEMMA GraphIs ==
    ASSUME AutoTypeOK
    PROVE  /\ IsFiniteSet(Tasks) /\ concurrency \in Nat \ {0}
           /\ \A t \in Tasks : /\ graph[t] \in Seq(Tasks) /\ DependsOn(graph, t) \subseteq Tasks
                               /\ DOMAIN graph[t] = 1..Len(graph[t]) /\ Len(graph[t]) \in Nat
<1>1. IsFiniteSet(Tasks) /\ \A t \in Tasks : graph[t] \in Seq(Tasks)
  BY AutoAssumption DEF AutoTypeOK, Tasks
<1>2. concurrency \in Nat \ {0}
  BY AutoAssumption DEF AutoTypeOK
<1>3. ASSUME NEW t \in Tasks
      PROVE  /\ DependsOn(graph, t) \subseteq Tasks
             /\ DOMAIN graph[t] = 1..Len(graph[t]) /\ Len(graph[t]) \in Nat
  <2>1. PICK s \in Seq(Tasks) : s = graph[t]
    BY <1>1
  <2>2. DOMAIN s = 1..Len(s) /\ Len(s) \in Nat /\ \A k \in 1..Len(s) : s[k] \in Tasks
    BY LenProperties, ElementOfSeq
  <2> QED
    BY <2>1, <2>2 DEF DependsOn, ToSet
<1> QED
  BY <1>1, <1>2, <1>3

(* A task has no more dependencies than it names, and all that it names are  *)
(* in C when it has as many there.                                           *)
LEMMA AllReached ==
    ASSUME AutoTypeOK, NEW t \in Tasks, NEW C
    PROVE  /\ IsFiniteSet(DependsOn(graph, t) \cap C)
           /\ Cardinality(DependsOn(graph, t) \cap C) \in Nat
           /\ Len(graph[t]) - Cardinality(DependsOn(graph, t) \cap C) = 0
                 <=> IsInjective(graph[t]) /\ DependsOn(graph, t) \subseteq C
<1>1. PICK s \in Seq(Tasks) : s = graph[t]
  BY GraphIs
<1>2. PICK D : D = ToSet(s)
  OBVIOUS
<1>3. D = DependsOn(graph, t)
  BY <1>1, <1>2 DEF DependsOn
<1>4. /\ IsFiniteSet(D) /\ Cardinality(D) \in Nat /\ Cardinality(D) <= Len(s)
      /\ Cardinality(D) = Len(s) <=> IsInjective(s)
  BY <1>2, DifferentElements
<1>5. /\ IsFiniteSet(D \cap C) /\ Cardinality(D \cap C) <= Cardinality(D)
      /\ Cardinality(D) = Cardinality(D \cap C) => D = D \cap C
  <2>1. D \cap C \in SUBSET D
    OBVIOUS
  <2> QED
    BY <1>4, <2>1, FS_Subset
<1>6. Cardinality(D \cap C) \in Nat
  BY <1>5, FS_CardinalityType
<1>7. Len(s) \in Nat
  BY LenProperties
<1>8. D \subseteq C => D = D \cap C
  OBVIOUS
<1>9. Len(s) - Cardinality(D \cap C) = 0 <=> Cardinality(D \cap C) = Len(s)
  BY <1>6, <1>7
<1>10. Cardinality(D \cap C) = Len(s) => Cardinality(D) = Len(s) /\ Cardinality(D) = Cardinality(D \cap C)
  BY <1>4, <1>5, <1>6, <1>7
<1>11. D = D \cap C => D \subseteq C
  OBVIOUS
<1>12. Cardinality(D \cap C) = Len(s) => IsInjective(s) /\ D \subseteq C
  BY <1>4, <1>5, <1>10, <1>11
<1>13. IsInjective(s) /\ D \subseteq C => Cardinality(D \cap C) = Len(s)
  BY <1>4, <1>8
<1> QED
  BY <1>1, <1>3, <1>5, <1>6, <1>9, <1>12, <1>13

LEMMA UnmetIs ==
    ASSUME AutoTypeOK, NEW t \in Tasks
    PROVE  /\ IsFiniteSet(Unmet(t)) /\ Cardinality(Unmet(t)) \in Nat
           /\ Cardinality(Unmet(t)) = 0 <=> DependsOn(graph, t) \subseteq results
<1>1. DOMAIN graph[t] = 1..Len(graph[t]) /\ Len(graph[t]) \in Nat
  BY GraphIs
<1>2. IsFiniteSet(1..Len(graph[t]))
  BY <1>1, FS_Interval
<1>3. Unmet(t) \in SUBSET (1..Len(graph[t]))
  BY <1>1 DEF Unmet
<1>4. IsFiniteSet(Unmet(t)) /\ Cardinality(Unmet(t)) \in Nat
  BY <1>2, <1>3, FS_Subset, FS_CardinalityType
<1>5. Cardinality(Unmet(t)) = 0 <=> Unmet(t) = {}
  BY <1>4, FS_EmptySet
<1>6. Unmet(t) = {} <=> DependsOn(graph, t) \subseteq results
  BY DEF Unmet, DependsOn, ToSet
<1> QED
  BY <1>4, <1>5, <1>6

LEMMA AutoInvGives == AutoInv => AutoIsRight
<1> SUFFICES ASSUME AutoInv PROVE AutoIsRight
  OBVIOUS
<1>1. \A t \in autoRunning \cup results : DependsOn(graph, t) \subseteq results
  BY DEF AutoInv, InTurn, Unblocked
<1>2. Cardinality(autoRunning) <= concurrency
  BY DEF AutoInv, InTurn
<1>3. Len(autoAnswers) <= 1
  <2>1. autoAnswers \in {<<>>, <<"done">>, <<"thrown">>, <<"error">>}
    BY DEF AutoInv, AutoTypeOK, AutoOutcomes
  <2>2. PICK n \in {0, 1} : n = Len(autoAnswers)
    BY <2>1, Outcomes
  <2> QED
    BY <2>2
<1>4. autoPhase # "checking" => (autoAnswers = <<"thrown">> <=> Impossible)
  BY DEF AutoInv, CheckRight
<1>5. autoAnswers = <<"done">> => results = Tasks
  BY DEF AutoInv, AutoAnswered
<1>6. ASSUME autoPhase = "waiting", autoRunning = {} PROVE autoAnswers # <<>>
  <2>1. Cardinality(autoRunning) = 0 /\ concurrency \in Nat \ {0}
    BY <1>6, FS_EmptySet, GraphIs DEF AutoInv
  <2>2. Cardinality(autoRunning) < concurrency
    BY <2>1
  <2>3. autoAnswers = <<>> => readyTasks = <<>>
    BY <1>6, <2>2 DEF AutoInv, AutoAnswered, MayRun
  <2>4. autoAnswers = <<>> => readyTasks # <<>>
    BY <1>6 DEF AutoInv, AutoAnswered
  <2> QED
    BY <2>3, <2>4
<1> QED
  BY <1>1, <1>2, <1>3, <1>4, <1>5, <1>6 DEF AutoIsRight, Impossible

LEMMA InitAuto == AutoInit => AutoInv
<1> SUFFICES ASSUME AutoInit PROVE AutoInv
  OBVIOUS
<1>1. /\ graph \in Graphs /\ concurrency \in Concurrencies
      /\ readyTasks = SetToSeq(Free) /\ remaining = Dependencies
      /\ readyToCheck = SetToSeq(Free) /\ uncheckedDependencies = Dependencies /\ counter = 0
      /\ autoRunning = {} /\ results = {} /\ hasError = FALSE
      /\ IF Tasks = {} THEN autoPhase = "waiting" /\ autoAnswers = <<"done">>
                       ELSE autoPhase = "checking" /\ autoAnswers = <<>>
  BY DEF AutoInit
<1>2. IsFiniteSet(Tasks) /\ \A t \in Tasks : graph[t] \in Seq(Tasks)
  BY <1>1, AutoAssumption DEF Tasks
<1>3. /\ readyTasks \in Seq(Tasks) /\ IsInjective(readyTasks) /\ ToSet(readyTasks) = Free
      /\ readyToCheck = readyTasks
  <2>1. Free \in SUBSET Tasks
    BY DEF Free
  <2>2. IsFiniteSet(Free)
    BY <1>2, <2>1, FS_Subset
  <2> QED
    BY <1>1, <2>1, <2>2, InSomeOrder
<1>4. Dependencies \in [Tasks -> Int] /\ \A t \in Tasks : Dependencies[t] = Len(graph[t])
  BY <1>2, LenProperties DEF Dependencies
<1>5. AutoTypeOK
  BY <1>1, <1>3, <1>4 DEF AutoTypeOK, AutoPhases, AutoOutcomes
<1>6. \A t \in Tasks : Len(graph[t]) = 0 <=> t \in Free
  <2>1. ASSUME NEW t \in Tasks PROVE Len(graph[t]) = 0 <=> graph[t] = <<>>
    BY <1>2, EmptySeq
  <2> QED
    BY <2>1 DEF Free
<1>7. \A t \in Free : DependsOn(graph, t) = {}
  BY DEF Free, DependsOn, ToSet
<1>8. CheckRight
  <2>1. CASE Tasks = {}
    <3>1. ~Impossible
      BY <2>1 DEF Impossible, WaitForEachOther
    <3> QED
      BY <1>1, <2>1, <3>1, Outcomes DEF CheckRight
  <2>2. CASE Tasks # {}
    <3>1. Cardinality({}) = 0
      BY FS_EmptySet
    <3>2. ASSUME NEW t \in Tasks
          PROVE  uncheckedDependencies[t]
                    = Len(graph[t]) - Cardinality(DependsOn(graph, t) \cap {})
      <4>1. DependsOn(graph, t) \cap {} = {} /\ Len(graph[t]) \in Nat
        BY <1>2, LenProperties
      <4> QED
        BY <1>1, <1>4, <3>1, <4>1
    <3>3. ToSet(readyToCheck) \cup {} = {t \in Tasks : uncheckedDependencies[t] = 0}
      BY <1>1, <1>3, <1>4, <1>6 DEF Free
    <3>4. \A S \in SUBSET Tasks : WaitForEachOther(S) => S \cap ({} \cup ToSet(readyToCheck)) = {}
      BY <1>3, <1>7 DEF WaitForEachOther
    <3>5. Checked({})
      BY <1>1, <1>3, <3>1, <3>2, <3>3, <3>4 DEF Checked
    <3> QED
      BY <1>1, <2>2, <3>5 DEF CheckRight
  <2> QED
    BY <2>1, <2>2
<1>9. InTurn
  <2>1. ASSUME NEW t \in Tasks PROVE remaining[t] = Cardinality(Unmet(t))
    <3>1. Unmet(t) = 1..Len(graph[t]) /\ Len(graph[t]) \in Nat
      BY <1>1, <1>5, GraphIs DEF Unmet
    <3>2. Cardinality(1..Len(graph[t])) = Len(graph[t])
      BY <3>1, FS_Interval
    <3> QED
      BY <1>1, <1>4, <3>1, <3>2
  <2>2. ASSUME NEW t \in Tasks, DependsOn(graph, t) \subseteq results PROVE t \in Free
    <3>1. Cardinality(Unmet(t)) = 0
      BY <1>5, <2>2, UnmetIs
    <3> QED
      BY <1>1, <1>4, <1>6, <2>1, <3>1
  <2>3. Cardinality(autoRunning) = 0 /\ concurrency \in Nat
    BY <1>1, <1>5, FS_EmptySet, GraphIs
  <2>4. Cardinality(autoRunning) <= concurrency
    BY <2>3
  <2>5. Unblocked = Free
    BY <1>1, <1>3 DEF Unblocked
  <2> QED
    BY <1>1, <1>3, <1>7, <2>1, <2>2, <2>4, <2>5 DEF InTurn
<1>10. AutoAnswered
  BY <1>1, Outcomes DEF AutoAnswered
<1> QED
  BY <1>5, <1>8, <1>9, <1>10 DEF AutoInv


-----------------------------------------------------------------------------
(* checkForDeadlocks: a task gets on the stack when the last of what it      *)
(* depends on is taken from it, and it names each of them once.              *)
LEMMA CheckTaskStep == ASSUME AutoInv, CheckTask PROVE AutoInv'
<1>0. PICK t : t = Last(readyToCheck)
  OBVIOUS
<1> DEFINE left == [d \in Tasks |-> uncheckedDependencies[d] - IF d \in Dependents(t) THEN 1 ELSE 0]
           now == {d \in Dependents(t) : left[d] = 0}
<1>1. /\ autoPhase = "checking" /\ readyToCheck # <<>>
      /\ uncheckedDependencies' = left /\ readyToCheck' = Front(readyToCheck) \o SetToSeq(now)
      /\ counter' = counter + 1
      /\ graph' = graph /\ concurrency' = concurrency /\ readyTasks' = readyTasks
      /\ remaining' = remaining /\ autoRunning' = autoRunning /\ results' = results
      /\ hasError' = hasError /\ autoPhase' = autoPhase /\ autoAnswers' = autoAnswers
  BY <1>0 DEF CheckTask
<1>2. AutoTypeOK
  BY DEF AutoInv
<1>3. Tasks' = Tasks
  BY <1>1 DEF Tasks
<1>4. PICK C \in SUBSET Tasks : Checked(C)
  BY <1>1 DEF AutoInv, CheckRight
<1>5. PICK f : f = Front(readyToCheck)
  OBVIOUS
<1>6. /\ t \in Tasks /\ f \in Seq(Tasks) /\ IsInjective(f) /\ t \notin ToSet(f)
      /\ ToSet(readyToCheck) = ToSet(f) \cup {t}
  BY <1>0, <1>1, <1>2, <1>4, <1>5, AllButLast DEF AutoTypeOK, Checked
<1>7. t \notin C /\ C \cup {t} \in SUBSET Tasks
  BY <1>4, <1>6 DEF Checked
<1>8. /\ now \subseteq Tasks /\ IsFiniteSet(now)
      /\ left \in [Tasks -> Int] /\ uncheckedDependencies \in [Tasks -> Int]
  <2>1. now \in SUBSET Tasks
    BY DEF Dependents
  <2>2. IsFiniteSet(now)
    BY <1>2, <2>1, GraphIs, FS_Subset
  <2> QED
    BY <1>2, <2>1, <2>2 DEF AutoTypeOK
<1>9. ASSUME NEW d \in Tasks
      PROVE  /\ left[d] = Len(graph[d]) - Cardinality(DependsOn(graph, d) \cap (C \cup {t}))
             /\ d \in now => uncheckedDependencies[d] # 0
             /\ uncheckedDependencies[d] = 0 => left[d] = 0
             /\ left[d] = 0 => d \in now \/ uncheckedDependencies[d] = 0
  <2>1. uncheckedDependencies[d] = Len(graph[d]) - Cardinality(DependsOn(graph, d) \cap C)
    BY <1>4 DEF Checked
  <2>2. /\ IsFiniteSet(DependsOn(graph, d) \cap C)
        /\ Cardinality(DependsOn(graph, d) \cap C) \in Nat /\ Len(graph[d]) \in Nat
    BY <1>2, AllReached, GraphIs
  <2>3. CASE t \in DependsOn(graph, d)
    <3>1. DependsOn(graph, d) \cap (C \cup {t}) = (DependsOn(graph, d) \cap C) \cup {t}
      BY <2>3
    <3>2. Cardinality((DependsOn(graph, d) \cap C) \cup {t}) = Cardinality(DependsOn(graph, d) \cap C) + 1
      BY <1>7, <2>2, FS_AddElement
    <3>3. left[d] = uncheckedDependencies[d] - 1
      BY <2>3 DEF Dependents
    <3>4. uncheckedDependencies[d] # 0
      <4>1. ~ (DependsOn(graph, d) \subseteq C)
        BY <1>7, <2>3
      <4> QED
        BY <1>2, <2>1, <4>1, AllReached
    <3>5. left[d] = 0 => d \in now
      BY <2>3 DEF Dependents
    <3>6. PICK n \in Nat : n = Cardinality(DependsOn(graph, d) \cap C)
      BY <2>2
    <3>7. PICK m \in Nat : m = Len(graph[d])
      BY <2>2
    <3>8. left[d] = m - (n + 1)
      BY <2>1, <3>3, <3>6, <3>7
    <3> QED
      BY <3>1, <3>2, <3>4, <3>5, <3>6, <3>7, <3>8
  <2>4. CASE t \notin DependsOn(graph, d)
    <3>1. DependsOn(graph, d) \cap (C \cup {t}) = DependsOn(graph, d) \cap C
      BY <2>4
    <3>2. d \notin Dependents(t)
      BY <2>4 DEF Dependents
    <3>3. left[d] = uncheckedDependencies[d]
      BY <1>8, <3>2
    <3> QED
      BY <2>1, <3>1, <3>2, <3>3
  <2> QED
    BY <2>3, <2>4
<1>10. PICK z : z = SetToSeq(now)
  OBVIOUS
<1>11. z \in Seq(Tasks) /\ IsInjective(z) /\ ToSet(z) = now
  BY <1>8, <1>10, InSomeOrder
<1> HIDE DEF left, now
<1>12. f \o z \in Seq(Tasks) /\ ToSet(f \o z) = ToSet(f) \cup now
  BY <1>6, <1>11, SetOfBoth
<1>13. ToSet(f) \cap now = {}
  BY <1>4, <1>6, <1>8, <1>9 DEF Checked
<1>14. IsInjective(f \o z)
  BY <1>6, <1>11, <1>13, BothInjective
<1>15. AutoTypeOK'
  <2>1. counter + 1 \in Nat
    BY <1>2 DEF AutoTypeOK
  <2> QED
    BY <1>1, <1>2, <1>3, <1>5, <1>8, <1>10, <1>12, <2>1 DEF AutoTypeOK
<1>16. CheckRight'
  <2>1. IsFiniteSet(C)
    BY <1>2, GraphIs, FS_Subset
  <2>2. counter' = Cardinality(C \cup {t})
    BY <1>1, <1>4, <1>7, <2>1, FS_AddElement DEF Checked
  <2>3. ToSet(f \o z) \cap (C \cup {t}) = {}
    <3>1. ToSet(f) \cap C = {} /\ t \notin ToSet(f)
      BY <1>4, <1>6 DEF Checked
    <3>2. \A d \in C \cup {t} : uncheckedDependencies[d] = 0
      BY <1>4, <1>6 DEF Checked
    <3> QED
      BY <1>7, <1>8, <1>9, <1>12, <3>1, <3>2
  <2>4. ToSet(f \o z) \cup (C \cup {t}) = {d \in Tasks : left[d] = 0}
    <3>1. ToSet(f) \cup {t} \cup C = {d \in Tasks : uncheckedDependencies[d] = 0}
      BY <1>4, <1>6 DEF Checked
    <3>2. \A d \in now : left[d] = 0
      BY DEF now
    <3>3. \A d \in Tasks : left[d] = 0 <=> d \in now \/ uncheckedDependencies[d] = 0
      BY <1>9, <3>2
    <3> QED
      BY <1>8, <1>12, <3>1, <3>3
  <2>5. ASSUME NEW S \in SUBSET Tasks, WaitForEachOther(S)
        PROVE  S \cap ((C \cup {t}) \cup ToSet(f \o z)) = {}
    <3>1. S \cap (C \cup ToSet(f) \cup {t}) = {}
      BY <1>4, <1>6, <2>5 DEF Checked
    <3>2. ASSUME NEW d \in now PROVE d \notin S
      <4>1. d \in Tasks /\ left[d] = 0
        BY <1>8, <3>2 DEF now
      <4>2. DependsOn(graph, d) \subseteq C \cup {t}
        BY <1>2, <1>9, <4>1, AllReached
      <4> QED
        BY <2>5, <3>1, <4>2 DEF WaitForEachOther
    <3> QED
      BY <1>12, <3>1, <3>2
  <2>6. \A S : WaitForEachOther(S)' <=> WaitForEachOther(S)
    BY <1>1 DEF WaitForEachOther, DependsOn
  <2>7. \A d \in Tasks : DependsOn(graph, d)' = DependsOn(graph, d)
    BY <1>1 DEF DependsOn
  <2>8. Checked(C \cup {t})'
    BY <1>1, <1>3, <1>5, <1>9, <1>10, <1>14, <2>2, <2>3, <2>4, <2>5, <2>6, <2>7 DEF Checked
  <2>9. Tasks # {} /\ autoAnswers = <<>> /\ autoRunning = {} /\ results = {}
    BY <1>1 DEF AutoInv, CheckRight
  <2> QED
    BY <1>1, <1>3, <1>7, <2>8, <2>9 DEF CheckRight
<1>17. InTurn'
  BY <1>1, <1>3 DEF AutoInv, InTurn, Unblocked, Unmet, DependsOn
<1>18. AutoAnswered'
  BY <1>1, <1>3 DEF AutoInv, AutoAnswered, MayRun
<1> QED
  BY <1>15, <1>16, <1>17, <1>18 DEF AutoInv

(* When all were reached no tasks wait for each other; the others wait for   *)
(* each other, or one of them is named twice.                                *)
LEMMA CheckEndsStep == ASSUME AutoInv, CheckEnds PROVE AutoInv'
<1>1. /\ autoPhase = "checking" /\ readyToCheck = <<>>
      /\ graph' = graph /\ concurrency' = concurrency /\ readyTasks' = readyTasks
      /\ readyToCheck' = readyToCheck /\ uncheckedDependencies' = uncheckedDependencies
      /\ counter' = counter
      /\ remaining' = remaining /\ autoRunning' = autoRunning /\ results' = results
      /\ hasError' = hasError
  BY DEF CheckEnds, checkVars
<1>2. IF counter = Cardinality(Tasks)
      THEN autoPhase' = "looping" /\ autoAnswers' = autoAnswers
      ELSE autoPhase' = "waiting" /\ autoAnswers' = <<"thrown">>
  BY DEF CheckEnds
<1>3. AutoTypeOK /\ Tasks # {} /\ autoAnswers = <<>> /\ autoRunning = {}
  BY <1>1 DEF AutoInv, CheckRight
<1>4. Tasks' = Tasks
  BY <1>1 DEF Tasks
<1>5. PICK C \in SUBSET Tasks : Checked(C)
  BY <1>1 DEF AutoInv, CheckRight
<1>6. ToSet(readyToCheck) = {}
  BY <1>1 DEF ToSet
<1>7. \A t \in Tasks : t \in C <=> IsInjective(graph[t]) /\ DependsOn(graph, t) \subseteq C
  <2>1. C = {t \in Tasks : uncheckedDependencies[t] = 0}
    BY <1>5, <1>6 DEF Checked
  <2>2. ASSUME NEW t \in Tasks
        PROVE  uncheckedDependencies[t] = 0
                  <=> IsInjective(graph[t]) /\ DependsOn(graph, t) \subseteq C
    BY <1>3, <1>5, AllReached DEF Checked
  <2> QED
    BY <2>1, <2>2
<1>8. counter = Cardinality(Tasks) <=> C = Tasks
  <2>1. counter = Cardinality(C)
    BY <1>5 DEF Checked
  <2> QED
    BY <1>3, <2>1, GraphIs, FS_Subset
<1>9. C = Tasks <=> ~Impossible
  <2>1. ASSUME C = Tasks PROVE ~Impossible
    <3>1. \A S \in SUBSET Tasks : ~WaitForEachOther(S)
      BY <1>5, <2>1 DEF Checked, WaitForEachOther
    <3> QED
      BY <1>7, <2>1, <3>1 DEF Impossible
  <2>2. ASSUME ~Impossible, C # Tasks PROVE FALSE
    <3>1. Tasks \ C # {} /\ Tasks \ C \in SUBSET Tasks
      BY <1>5, <2>2
    <3>2. \A t \in Tasks \ C : DependsOn(graph, t) \cap (Tasks \ C) # {}
      BY <1>3, <1>7, <2>2, GraphIs DEF Impossible
    <3>3. WaitForEachOther(Tasks \ C)
      BY <3>1, <3>2 DEF WaitForEachOther
    <3> QED
      BY <2>2, <3>1, <3>3 DEF Impossible
  <2> QED
    BY <2>1, <2>2
<1>10. Impossible' <=> Impossible
  BY <1>1, <1>4 DEF Impossible, WaitForEachOther, DependsOn
<1>11. AutoTypeOK'
  BY <1>1, <1>2, <1>3, <1>4 DEF AutoTypeOK, AutoPhases, AutoOutcomes
<1>12. CheckRight'
  BY <1>2, <1>3, <1>8, <1>9, <1>10, Outcomes DEF CheckRight
<1>13. InTurn'
  BY <1>1, <1>4 DEF AutoInv, InTurn, Unblocked, Unmet, DependsOn
<1>14. ASSUME ~Impossible PROVE readyTasks # <<>>
  <2>1. ~WaitForEachOther(Tasks)
    BY <1>14 DEF Impossible
  <2>2. PICK t \in Tasks : DependsOn(graph, t) \cap Tasks = {}
    BY <1>3, <2>1 DEF WaitForEachOther
  <2>3. DependsOn(graph, t) = {}
    BY <1>3, <2>2, GraphIs
  <2>4. ~hasError
    BY <1>3 DEF AutoInv, AutoAnswered
  <2>5. t \in Unblocked /\ results = {}
    BY <1>1, <2>3, <2>4 DEF AutoInv, InTurn, CheckRight
  <2> QED
    BY <1>3, <2>5 DEF Unblocked, ToSet
<1>15. AutoAnswered'
  BY <1>1, <1>2, <1>3, <1>8, <1>9, <1>14, Outcomes DEF AutoInv, AutoAnswered
<1> QED
  BY <1>11, <1>12, <1>13, <1>15 DEF AutoInv

(* A task t that has been started calls back without an error; `ready' wait  *)
(* and `others' run besides.                                                 *)
LEMMA CompleteStep ==
    ASSUME AutoInv, autoPhase # "checking", autoAnswers # <<"thrown">>,
           NEW t \in Tasks, NEW ready \in Seq(Tasks), NEW others \in SUBSET Tasks,
           t \notin results, t \notin others, t \notin ToSet(ready),
           ToSet(readyTasks) \cup autoRunning = ToSet(ready) \cup others \cup {t},
           IsInjective(ready), ToSet(ready) \cap others = {},
           Cardinality(others) <= concurrency,
           TaskComplete(t, ready, others), autoRunning' = others,
           UNCHANGED <<graph, concurrency, checkVars>>
    PROVE  AutoInv'
<1> DEFINE named(d) == {k \in DOMAIN graph[d] : graph[d][k] = t}
           left == [d \in Tasks |-> remaining[d]
                       - IF d \in Informed(t) THEN Cardinality(named(d)) ELSE 0]
           now == {d \in Informed(t) : left[d] = 0}
<1>1. /\ remaining' = left /\ readyTasks' = ready \o SetToSeq(now)
      /\ results' = results \cup {t}
      /\ autoAnswers' = IF ready \o SetToSeq(now) = <<>> /\ others = {} THEN AnswerOnce("done")
                        ELSE autoAnswers
      /\ autoPhase' = "looping" /\ hasError' = hasError
      /\ graph' = graph /\ concurrency' = concurrency /\ readyToCheck' = readyToCheck
      /\ uncheckedDependencies' = uncheckedDependencies /\ counter' = counter
  BY DEF TaskComplete, checkVars
<1>2. AutoTypeOK
  BY DEF AutoInv
<1>3. Tasks' = Tasks
  BY <1>1 DEF Tasks
<1>4. /\ Informed(t) \subseteq Tasks
      /\ \A d \in Tasks : d \in Informed(t) <=> ~hasError /\ t \in DependsOn(graph, d)
  BY DEF Informed, Dependents
<1>5. now \subseteq Tasks /\ IsFiniteSet(now)
  <2>1. now \in SUBSET Tasks
    BY <1>4
  <2> QED
    BY <1>2, <2>1, GraphIs, FS_Subset
<1>6. PICK z : z = SetToSeq(now)
  OBVIOUS
<1>7. z \in Seq(Tasks) /\ IsInjective(z) /\ ToSet(z) = now
  BY <1>5, <1>6, InSomeOrder
<1>8. ready \o z \in Seq(Tasks) /\ ToSet(ready \o z) = ToSet(ready) \cup now
  <2> HIDE DEF now
  <2> QED
    BY <1>7, SetOfBoth
<1>9. ASSUME NEW d \in Tasks
      PROVE  IsFiniteSet(named(d)) /\ Cardinality(named(d)) \in Nat
  <2>1. DOMAIN graph[d] = 1..Len(graph[d]) /\ Len(graph[d]) \in Nat
    BY <1>2, GraphIs
  <2>2. named(d) \in SUBSET (1..Len(graph[d])) /\ IsFiniteSet(1..Len(graph[d]))
    BY <2>1, FS_Interval
  <2> QED
    BY <2>2, FS_Subset, FS_CardinalityType
<1>10. left \in [Tasks -> Int]
  <2>1. \A d \in Tasks : remaining[d] \in Int
    BY <1>2 DEF AutoTypeOK
  <2>2. ASSUME NEW d \in Tasks PROVE left[d] \in Int
    <3>1. PICK n \in Int : n = remaining[d]
      BY <2>1
    <3>2. PICK m \in Nat : m = Cardinality(named(d))
      BY <1>9
    <3>3. left[d] = n - m \/ left[d] = n - 0
      BY <3>1, <3>2
    <3> QED
      BY <3>3
  <2> QED
    BY <2>2
<1>11. AutoTypeOK'
  <2>1. autoAnswers' \in AutoOutcomes
    BY <1>1, <1>2 DEF AutoTypeOK, AutoOutcomes, AnswerOnce
  <2> QED
    BY <1>1, <1>2, <1>3, <1>6, <1>8, <1>10, <2>1 DEF AutoTypeOK, AutoPhases
<1>12. ASSUME ~hasError, NEW d \in Tasks
       PROVE  left[d] = Cardinality(Unmet(d)')
  <2>1. PICK n \in Nat : n = Cardinality(Unmet(d))
    BY <1>2, UnmetIs
  <2>2. remaining[d] = n
    BY <1>12, <2>1 DEF AutoInv, InTurn
  <2>3. Unmet(d)' = Unmet(d) \ named(d) /\ named(d) \subseteq Unmet(d)
    BY <1>1 DEF Unmet
  <2>4. CASE t \in DependsOn(graph, d)
    <3>1. PICK m \in Nat : m = Cardinality(named(d))
      BY <1>9
    <3>2. Cardinality(Unmet(d) \ named(d)) = n - m
      <4>1. Unmet(d) \cap named(d) = named(d)
        BY <2>3
      <4>2. IsFiniteSet(Unmet(d))
        BY <1>2, UnmetIs
      <4> QED
        BY <2>1, <3>1, <4>1, <4>2, FS_Difference
    <3>3. left[d] = n - m
      BY <1>4, <1>12, <2>2, <2>4, <3>1
    <3> QED
      BY <2>3, <3>2, <3>3
  <2>5. CASE t \notin DependsOn(graph, d)
    <3>1. named(d) = {}
      BY <2>5 DEF DependsOn, ToSet
    <3>2. Unmet(d)' = Unmet(d)
      BY <2>3, <3>1
    <3>3. left[d] = n
      BY <1>4, <2>2, <2>5
    <3> QED
      BY <2>1, <3>2, <3>3
  <2> QED
    BY <2>4, <2>5
<1>13. ASSUME ~hasError, NEW d \in Tasks
       PROVE  left[d] = 0 <=> DependsOn(graph, d) \subseteq results \cup {t}
  <2>1. PICK M : M = Unmet(d)'
    OBVIOUS
  <2>2. M = {k \in DOMAIN graph[d] : graph[d][k] \notin results \cup {t}}
    BY <1>1, <2>1 DEF Unmet
  <2>3. M \in SUBSET Unmet(d)
    BY <2>2 DEF Unmet
  <2>4. IsFiniteSet(M)
    BY <1>2, <2>3, UnmetIs, FS_Subset
  <2>5. Cardinality(M) = 0 <=> M = {}
    BY <2>4, FS_EmptySet
  <2>6. M = {} <=> DependsOn(graph, d) \subseteq results \cup {t}
    BY <2>2 DEF DependsOn, ToSet
  <2>7. left[d] = Cardinality(M)
    BY <1>12, <1>13, <2>1
  <2> HIDE DEF left
  <2> QED
    BY <2>5, <2>6, <2>7
<1>14. DependsOn(graph, t) \subseteq results /\ t \in Unblocked
  BY DEF AutoInv, InTurn, Unblocked
<1>15. ASSUME NEW d \in now
       PROVE  d \notin Unblocked /\ DependsOn(graph, d) \subseteq results \cup {t}
  <2>1. d \in Tasks /\ ~hasError /\ t \in DependsOn(graph, d) /\ left[d] = 0
    BY <1>4, <1>5
  <2>2. ~ (DependsOn(graph, d) \subseteq results)
    BY <2>1
  <2>3. \A u \in Unblocked : DependsOn(graph, u) \subseteq results
    BY DEF AutoInv, InTurn
  <2> QED
    BY <1>13, <2>1, <2>2, <2>3
<1>16. \A d \in Tasks : ~hasError /\ t \in DependsOn(graph, d) /\ left[d] = 0 => d \in now
  BY <1>4
<1> HIDE DEF named, left, now
<1>17. Unblocked' = Unblocked \cup now
  BY <1>1, <1>6, <1>8 DEF Unblocked
<1>18. IsInjective(ready \o z)
  <2>1. ToSet(ready) \cap now = {}
    BY <1>15 DEF Unblocked
  <2> QED
    BY <1>7, <2>1, BothInjective
<1>19. \A d \in Tasks : DependsOn(graph, d)' = DependsOn(graph, d)
  BY <1>1 DEF DependsOn
<1>20. InTurn'
  <2>1. /\ ToSet(ready \o z) \cap others = {}
        /\ ToSet(ready \o z) \cap (results \cup {t}) = {}
        /\ others \cap (results \cup {t}) = {}
    <3>1. now \cap (results \cup {t}) = {} /\ now \cap others = {}
      BY <1>14, <1>15 DEF Unblocked
    <3>2. ToSet(ready) \cap results = {} /\ others \cap results = {}
      BY DEF AutoInv, InTurn
    <3> QED
      BY <1>8, <3>1, <3>2
  <2>2. ASSUME NEW d \in Unblocked' PROVE DependsOn(graph, d)' \subseteq results'
    <3>1. d \in Tasks
      <4>1. ToSet(readyTasks) \subseteq Tasks
        <5>1. PICK u \in Seq(Tasks) : u = readyTasks
          BY <1>2 DEF AutoTypeOK
        <5>2. \A k \in 1..Len(u) : u[k] \in Tasks
          BY ElementOfSeq
        <5> QED
          BY <5>1, <5>2, SetOf
      <4> QED
        BY <1>2, <1>5, <1>17, <2>2, <4>1 DEF AutoTypeOK, Unblocked
    <3>2. d \in Unblocked => DependsOn(graph, d) \subseteq results
      BY DEF AutoInv, InTurn
    <3> QED
      BY <1>1, <1>15, <1>17, <1>19, <2>2, <3>1, <3>2
  <2>3. ASSUME ~hasError, NEW d \in Tasks, DependsOn(graph, d) \subseteq results \cup {t}
        PROVE  d \in Unblocked'
    <3>1. CASE t \in DependsOn(graph, d)
      BY <1>13, <1>16, <1>17, <2>3, <3>1
    <3>2. CASE t \notin DependsOn(graph, d)
      <4>1. DependsOn(graph, d) \subseteq results
        BY <2>3, <3>2
      <4> QED
        BY <1>17, <2>3, <4>1 DEF AutoInv, InTurn
    <3> QED
      BY <3>1, <3>2
  <2>4. IsInjective(readyTasks)'
    BY <1>1, <1>6, <1>18
  <2>5. /\ (ToSet(readyTasks) \cap autoRunning = {})' /\ (ToSet(readyTasks) \cap results = {})'
        /\ (autoRunning \cap results = {})'
    BY <1>1, <1>6, <2>1
  <2>6. \A d \in Unblocked' : DependsOn(graph', d) \subseteq results'
    BY <1>1, <2>2
  <2>7. ~hasError' => \A d \in Tasks' : /\ remaining'[d] = Cardinality(Unmet(d)')
                                        /\ DependsOn(graph', d) \subseteq results' => d \in Unblocked'
    <3>1. ASSUME ~hasError, NEW d \in Tasks
          PROVE  /\ remaining'[d] = Cardinality(Unmet(d)')
                 /\ DependsOn(graph', d) \subseteq results' => d \in Unblocked'
      <4>1. remaining'[d] = Cardinality(Unmet(d)')
        BY <1>1, <1>12, <3>1
      <4>2. DependsOn(graph', d) \subseteq results' => d \in Unblocked'
        BY <1>1, <2>3, <3>1
      <4> QED
        BY <4>1, <4>2
    <3> QED
      BY <1>1, <1>3, <3>1
  <2>8. Cardinality(autoRunning') <= concurrency'
    BY <1>1
  <2> QED
    BY <2>4, <2>5, <2>6, <2>7, <2>8 DEF InTurn
<1>21. autoAnswers' = autoAnswers
          \/ /\ ready \o z = <<>> /\ others = {} /\ autoAnswers = <<>> /\ autoAnswers' = <<"done">>
  BY <1>1, <1>6 DEF AnswerOnce
<1>22. ~Impossible /\ autoAnswers' # <<"thrown">>
  BY <1>21, Outcomes DEF AutoInv, CheckRight
<1>23. CheckRight'
  <2>1. Impossible' <=> Impossible
    BY <1>1, <1>3 DEF Impossible, WaitForEachOther, DependsOn
  <2> QED
    BY <1>1, <1>22, <2>1 DEF CheckRight
<1>24. ASSUME autoAnswers' = <<"done">> PROVE results \cup {t} = Tasks
  <2>1. CASE autoAnswers = <<"done">>
    BY <1>2, <2>1 DEF AutoInv, AutoAnswered, AutoTypeOK
  <2>2. CASE ready \o z = <<>> /\ others = {} /\ autoAnswers = <<>>
    <3>1. ~hasError
      BY <2>2 DEF AutoInv, AutoAnswered
    <3>2. Unblocked' = results \cup {t}
      <4>1. ToSet(<<>>) = {}
        BY DEF ToSet
      <4> QED
        BY <1>1, <1>6, <2>2, <4>1 DEF Unblocked
    <3>3. \A d \in Tasks : d \in results \cup {t} \/ ~ (DependsOn(graph, d) \subseteq results \cup {t})
      BY <1>1, <1>3, <1>20, <3>1, <3>2 DEF InTurn
    <3>4. Tasks \ (results \cup {t}) \in SUBSET Tasks
      OBVIOUS
    <3>5. \A d \in Tasks \ (results \cup {t}) :
             DependsOn(graph, d) \cap (Tasks \ (results \cup {t})) # {}
      BY <1>2, <3>3, GraphIs
    <3>6. Tasks \ (results \cup {t}) = {}
      BY <1>22, <3>4, <3>5 DEF Impossible, WaitForEachOther
    <3> QED
      BY <1>2, <3>6 DEF AutoTypeOK
  <2> QED
    BY <1>21, <1>24, <2>1, <2>2
<1>25. AutoAnswered'
  <2>1. hasError' => autoAnswers' # <<>>
    BY <1>1, <1>21, Outcomes DEF AutoInv, AutoAnswered
  <2>2. autoAnswers' = <<"done">> => results' = Tasks'
    BY <1>1, <1>3, <1>24
  <2>3. autoAnswers' = <<>> => readyTasks' # <<>> \/ autoRunning' # {}
    <3>1. CASE ready \o z = <<>> /\ others = {}
      BY <1>1, <1>6, <3>1, Outcomes DEF AnswerOnce
    <3>2. CASE ready \o z # <<>> \/ others # {}
      BY <1>1, <1>6, <3>2
    <3> QED
      BY <3>1, <3>2
  <2> QED
    BY <1>1, <1>22, <2>1, <2>2, <2>3 DEF AutoAnswered
<1> QED
  BY <1>11, <1>20, <1>23, <1>25 DEF AutoInv

(* It calls back with one.                                                   *)
LEMMA FailsStep ==
    ASSUME AutoInv, autoPhase # "checking", autoAnswers # <<"thrown">>,
           NEW t \in Tasks, NEW ready \in Seq(Tasks), NEW others \in SUBSET Tasks,
           ToSet(readyTasks) \cup autoRunning = ToSet(ready) \cup others \cup {t},
           IsInjective(ready), ToSet(ready) \cap others = {},
           Cardinality(others) <= concurrency,
           TaskFails(ready), autoRunning' = others, autoPhase' = autoPhase,
           UNCHANGED <<graph, concurrency, checkVars>>
    PROVE  AutoInv'
<1>1. /\ hasError' = TRUE /\ autoAnswers' = AnswerOnce("error") /\ readyTasks' = ready
      /\ remaining' = remaining /\ results' = results
      /\ graph' = graph /\ concurrency' = concurrency /\ readyToCheck' = readyToCheck
      /\ uncheckedDependencies' = uncheckedDependencies /\ counter' = counter
  BY DEF TaskFails, checkVars
<1>2. Tasks' = Tasks
  BY <1>1 DEF Tasks
<1>3. autoAnswers' = IF autoAnswers = <<>> THEN <<"error">> ELSE autoAnswers
  BY <1>1 DEF AnswerOnce
<1>4. autoAnswers' # <<>> /\ autoAnswers' # <<"thrown">>
  BY <1>3, Outcomes
<1>5. AutoTypeOK'
  BY <1>1, <1>2, <1>3 DEF AutoInv, AutoTypeOK, AutoOutcomes
<1>6. CheckRight'
  <2>1. Impossible' <=> Impossible
    BY <1>1, <1>2 DEF Impossible, WaitForEachOther, DependsOn
  <2> QED
    BY <1>4, <2>1 DEF AutoInv, CheckRight
<1>7. Unblocked' \subseteq Unblocked
  BY <1>1 DEF Unblocked
<1>8. InTurn'
  <2>1. \A d \in Unblocked' : DependsOn(graph', d) \subseteq results'
    BY <1>1, <1>7 DEF AutoInv, InTurn
  <2>2. /\ ToSet(ready) \cap results = {} /\ others \cap results = {}
    BY DEF AutoInv, InTurn
  <2> QED
    BY <1>1, <2>1, <2>2 DEF InTurn
<1>9. AutoAnswered'
  BY <1>1, <1>2, <1>3, <1>4, Outcomes DEF AutoInv, AutoAnswered
<1> QED
  BY <1>5, <1>6, <1>8, <1>9 DEF AutoInv

(* runTask takes the first that is ready: it gives up after an error.        *)
LEMMA RunTaskStep == ASSUME AutoInv, RunTask PROVE AutoInv'
<1>1. PICK t, ready : t = Head(readyTasks) /\ ready = Tail(readyTasks)
  OBVIOUS
<1>2. /\ autoPhase = "looping" /\ readyTasks # <<>> /\ Cardinality(autoRunning) < concurrency
      /\ UNCHANGED <<graph, concurrency, checkVars>>
  BY DEF RunTask, MayRun
<1>3. IF hasError
      THEN readyTasks' = ready
           /\ UNCHANGED <<remaining, autoRunning, results, hasError, autoPhase, autoAnswers>>
      ELSE \/ /\ autoRunning' = autoRunning \cup {t} /\ readyTasks' = ready
              /\ UNCHANGED <<remaining, results, hasError, autoPhase, autoAnswers>>
           \/ TaskComplete(t, ready, autoRunning) /\ UNCHANGED autoRunning
           \/ TaskFails(ready) /\ UNCHANGED <<autoRunning, autoPhase>>
  BY <1>1 DEF RunTask
<1>4. AutoTypeOK /\ autoRunning \in SUBSET Tasks /\ autoAnswers # <<"thrown">>
  BY <1>2 DEF AutoInv, AutoTypeOK, AutoAnswered
<1>5. /\ t \in Tasks /\ ready \in Seq(Tasks) /\ ToSet(readyTasks) = ToSet(ready) \cup {t}
      /\ IsInjective(ready) /\ t \notin ToSet(ready)
  BY <1>1, <1>2, AllButFirst DEF AutoInv, AutoTypeOK, InTurn
<1>6. /\ t \notin results /\ t \notin autoRunning
      /\ ToSet(ready) \cap autoRunning = {} /\ ToSet(ready) \cap results = {}
  BY <1>5 DEF AutoInv, InTurn
<1>7. PICK n \in Nat, c \in Nat : n = Cardinality(autoRunning) /\ c = concurrency /\ n < c
  <2>1. IsFiniteSet(autoRunning) /\ concurrency \in Nat
    BY <1>4, GraphIs, FS_Subset
  <2> QED
    BY <1>2, <2>1, FS_CardinalityType
<1>8. ToSet(readyTasks) \cup autoRunning = ToSet(ready) \cup autoRunning \cup {t}
  BY <1>5
<1>9. CASE TaskComplete(t, ready, autoRunning) /\ UNCHANGED autoRunning
  <2>1. autoPhase # "checking" /\ Cardinality(autoRunning) <= concurrency
    BY <1>2, <1>7
  <2> QED
    BY <1>2, <1>4, <1>5, <1>6, <1>8, <1>9, <2>1, CompleteStep
<1>10. CASE TaskFails(ready) /\ UNCHANGED <<autoRunning, autoPhase>>
  <2>1. autoPhase # "checking" /\ Cardinality(autoRunning) <= concurrency
    BY <1>2, <1>7
  <2> QED
    BY <1>2, <1>4, <1>5, <1>6, <1>8, <1>10, <2>1, FailsStep
<1>11. ASSUME readyTasks' = ready, UNCHANGED <<remaining, results, hasError, autoPhase, autoAnswers>>,
              \/ hasError /\ autoRunning' = autoRunning
              \/ ~hasError /\ autoRunning' = autoRunning \cup {t}
       PROVE  AutoInv'
  <2>1. /\ graph' = graph /\ concurrency' = concurrency /\ readyToCheck' = readyToCheck
        /\ uncheckedDependencies' = uncheckedDependencies /\ counter' = counter
        /\ remaining' = remaining /\ results' = results /\ hasError' = hasError
        /\ autoPhase' = autoPhase /\ autoAnswers' = autoAnswers
    BY <1>2, <1>11 DEF checkVars
  <2>2. Tasks' = Tasks
    BY <2>1 DEF Tasks
  <2>3. AutoTypeOK'
    BY <1>4, <1>5, <1>11, <2>1, <2>2 DEF AutoTypeOK
  <2>4. CheckRight'
    <3>1. Impossible' <=> Impossible
      BY <2>1, <2>2 DEF Impossible, WaitForEachOther, DependsOn
    <3> QED
      BY <1>2, <2>1, <3>1 DEF AutoInv, CheckRight
  <2>5. InTurn'
    <3>1. Unblocked' \subseteq Unblocked /\ (~hasError => Unblocked' = Unblocked)
      BY <1>5, <1>11, <2>1 DEF Unblocked
    <3>2. Cardinality(autoRunning') <= concurrency'
      <4>1. IsFiniteSet(autoRunning)
        BY <1>4, GraphIs, FS_Subset
      <4>2. Cardinality(autoRunning') = n \/ Cardinality(autoRunning') = n + 1
        BY <1>6, <1>7, <1>11, <4>1, FS_AddElement
      <4>3. n <= c /\ n + 1 <= c
        BY <1>7
      <4> QED
        BY <1>7, <2>1, <4>2, <4>3
    <3>3. \A d \in Unblocked' : DependsOn(graph', d) \subseteq results'
      BY <2>1, <3>1 DEF AutoInv, InTurn
    <3>4. /\ IsInjective(readyTasks)' /\ (ToSet(readyTasks) \cap autoRunning = {})'
          /\ (ToSet(readyTasks) \cap results = {})' /\ (autoRunning \cap results = {})'
      <4>1. autoRunning \cap results = {}
        BY DEF AutoInv, InTurn
      <4> QED
        BY <1>5, <1>6, <1>11, <2>1, <4>1
    <3>5. \A d \in Tasks : Unmet(d)' = Unmet(d)
      BY <2>1 DEF Unmet
    <3>6. ~hasError' => \A d \in Tasks' : /\ remaining'[d] = Cardinality(Unmet(d)')
                                          /\ DependsOn(graph', d) \subseteq results' => d \in Unblocked'
      BY <2>1, <2>2, <3>1, <3>5 DEF AutoInv, InTurn
    <3> QED
      BY <3>2, <3>3, <3>4, <3>6 DEF InTurn
  <2>6. AutoAnswered'
    BY <1>2, <1>11, <2>1, <2>2, Outcomes DEF AutoInv, AutoAnswered
  <2> QED
    BY <2>3, <2>4, <2>5, <2>6 DEF AutoInv
<1> QED
  BY <1>3, <1>9, <1>10, <1>11

LEMMA TaskCallsBackStep == ASSUME AutoInv, TaskCallsBack PROVE AutoInv'
<1>1. PICK t \in autoRunning :
         /\ autoRunning' = autoRunning \ {t}
         /\ \/ TaskComplete(t, readyTasks, autoRunning \ {t})
            \/ TaskFails(readyTasks) /\ UNCHANGED autoPhase
  BY DEF TaskCallsBack
<1>2. autoPhase = "waiting" /\ UNCHANGED <<graph, concurrency, checkVars>>
  BY DEF TaskCallsBack
<1>3. PICK others : others = autoRunning \ {t}
  OBVIOUS
<1>4. /\ AutoTypeOK /\ t \in Tasks /\ others \in SUBSET Tasks /\ readyTasks \in Seq(Tasks)
      /\ autoAnswers # <<"thrown">>
  BY <1>1, <1>3 DEF AutoInv, AutoTypeOK, AutoAnswered
<1>5. /\ t \notin results /\ t \notin others /\ t \notin ToSet(readyTasks)
      /\ IsInjective(readyTasks) /\ ToSet(readyTasks) \cap others = {}
      /\ ToSet(readyTasks) \cup autoRunning = ToSet(readyTasks) \cup others \cup {t}
  BY <1>1, <1>3 DEF AutoInv, InTurn
<1>6. Cardinality(others) <= concurrency
  <2>1. IsFiniteSet(autoRunning) /\ concurrency \in Nat
    BY <1>4, GraphIs, FS_Subset DEF AutoTypeOK
  <2>2. Cardinality(others) <= Cardinality(autoRunning) /\ IsFiniteSet(others)
    BY <1>3, <2>1, FS_Subset
  <2>3. Cardinality(others) \in Nat /\ Cardinality(autoRunning) \in Nat
    BY <2>1, <2>2, FS_CardinalityType
  <2>4. Cardinality(autoRunning) <= concurrency
    BY DEF AutoInv, InTurn
  <2> QED
    BY <2>1, <2>2, <2>3, <2>4
<1>7. PICK ready \in Seq(Tasks) : ready = readyTasks
  BY <1>4
<1>8. autoPhase # "checking"
  BY <1>2
<1>9. CASE TaskComplete(t, readyTasks, autoRunning \ {t})
  BY <1>1, <1>2, <1>3, <1>4, <1>5, <1>6, <1>7, <1>8, <1>9, CompleteStep
<1>10. CASE TaskFails(readyTasks) /\ UNCHANGED autoPhase
  BY <1>1, <1>2, <1>3, <1>4, <1>5, <1>6, <1>7, <1>8, <1>10, FailsStep
<1> QED
  BY <1>1, <1>9, <1>10

LEMMA NextAuto == AutoInv /\ [AutoNext]_autoVars => AutoInv'
<1> SUFFICES ASSUME AutoInv, [AutoNext]_autoVars PROVE AutoInv'
  OBVIOUS
<1>1. CASE CheckTask
  BY <1>1, CheckTaskStep
<1>2. CASE CheckEnds
  BY <1>2, CheckEndsStep
<1>3. CASE RunTask
  BY <1>3, RunTaskStep
<1>4. CASE TaskCallsBack
  BY <1>4, TaskCallsBackStep
<1>5. ASSUME \/ UNCHANGED autoVars
             \/ AutoLoopEnds
      PROVE  AutoInv'
  <2>1. /\ graph' = graph /\ concurrency' = concurrency /\ readyToCheck' = readyToCheck
        /\ uncheckedDependencies' = uncheckedDependencies /\ counter' = counter
        /\ readyTasks' = readyTasks /\ remaining' = remaining /\ autoRunning' = autoRunning
        /\ results' = results /\ hasError' = hasError /\ autoAnswers' = autoAnswers
        /\ \/ autoPhase' = autoPhase
           \/ autoPhase = "looping" /\ autoPhase' = "waiting" /\ ~MayRun
    BY <1>5 DEF autoVars, checkVars, AutoLoopEnds
  <2>2. Tasks' = Tasks
    BY <2>1 DEF Tasks
  <2>3. AutoTypeOK'
    BY <2>1, <2>2 DEF AutoInv, AutoTypeOK, AutoPhases
  <2>4. CheckRight'
    <3>1. Impossible' <=> Impossible
      BY <2>1, <2>2 DEF Impossible, WaitForEachOther, DependsOn
    <3>2. CASE autoPhase # "checking"
      BY <2>1, <3>1, <3>2 DEF AutoInv, CheckRight
    <3>3. CASE autoPhase = "checking"
      <4>1. PICK C \in SUBSET Tasks : Checked(C)
        BY <3>3 DEF AutoInv, CheckRight
      <4>2. Checked(C)'
        BY <2>1, <2>2, <4>1 DEF Checked, WaitForEachOther, DependsOn
      <4> QED
        BY <2>1, <2>2, <3>3, <4>2 DEF AutoInv, CheckRight
    <3> QED
      BY <3>2, <3>3
  <2>5. InTurn'
    BY <2>1, <2>2 DEF AutoInv, InTurn, Unblocked, Unmet, DependsOn
  <2>6. AutoAnswered'
    BY <2>1, <2>2 DEF AutoInv, AutoAnswered, MayRun
  <2> QED
    BY <2>3, <2>4, <2>5, <2>6 DEF AutoInv
<1> QED
  BY <1>1, <1>2, <1>3, <1>4, <1>5 DEF AutoNext

(* auto throws exactly when its tasks could not all be run, or one names     *)
(* another twice (checkForDeadlocks 6025-6046); else a task is started when  *)
(* those it depends on have called back, within the bound, and one answer    *)
(* comes: that all were run, or that one has failed (5963-6023).             *)
THEOREM AutoRunsTasksInTurn == AutoSpec => []AutoIsRight
<1>1. AutoSpec => []AutoInv
  BY InitAuto, NextAuto, PTL DEF AutoSpec
<1> QED
  BY <1>1, AutoInvGives, PTL

USE EachAssumption

-----------------------------------------------------------------------------
(* The numbers of a finite set can be put in ascending order: each goes to   *)
(* the place of its rank.                                                    *)
LEMMA Ranks ==
    ASSUME NEW n \in Nat, NEW S, S \subseteq 1..n
    PROVE  /\ IsFiniteSet(S) /\ Cardinality(S) \in Nat
           /\ \E h \in [1..Cardinality(S) -> S] :
                 /\ \A j, k \in 1..Cardinality(S) : j < k => h[j] < h[k]
                 /\ \A x \in S : \E k \in 1..Cardinality(S) : h[k] = x
<1>1. IsFiniteSet(S) /\ Cardinality(S) \in Nat
  <2>1. IsFiniteSet(1..n)
    BY FS_Interval
  <2>2. IsFiniteSet(S)
    BY <2>1, FS_Subset
  <2> QED
    BY <2>2, FS_CardinalityType
<1>0. \A x \in S : x \in Nat
  OBVIOUS
<1>2. PICK m \in Nat : m = Cardinality(S)
  BY <1>1
<1> DEFINE UpTo(x) == {y \in S : y <= x}
<1>3. ASSUME NEW x \in S
      PROVE  IsFiniteSet(UpTo(x)) /\ Cardinality(UpTo(x)) \in 1..m
  <2>1. IsFiniteSet(UpTo(x)) /\ Cardinality(UpTo(x)) <= m /\ Cardinality(UpTo(x)) \in Nat
    <3>1. UpTo(x) \in SUBSET S
      OBVIOUS
    <3> QED
      BY <1>1, <1>2, <3>1, FS_Subset, FS_CardinalityType
  <2>2. Cardinality(UpTo(x)) # 0
    <3>1. x \in UpTo(x)
      OBVIOUS
    <3> QED
      BY <2>1, <3>1, FS_EmptySet
  <2> QED
    BY <2>1, <2>2
<1>4. ASSUME NEW x \in S, NEW y \in S, x < y
      PROVE  Cardinality(UpTo(x)) < Cardinality(UpTo(y))
  <2>1. UpTo(x) \in SUBSET UpTo(y) /\ y \in UpTo(y) /\ y \notin UpTo(x)
    <3>1. x \in Nat /\ y \in Nat /\ x < y /\ \A w \in S : w \in Nat
      BY <1>0, <1>4
    <3>2. \A w \in S : w <= x => w <= y
      BY <3>1
    <3>3. y <= y /\ ~(y <= x)
      BY <3>1
    <3> QED
      BY <3>2, <3>3
  <2>2. PICK A, B : A = UpTo(x) /\ B = UpTo(y)
    OBVIOUS
  <2> HIDE DEF UpTo
  <2>3. /\ IsFiniteSet(B) /\ A \in SUBSET B /\ A # B
        /\ Cardinality(A) \in 1..m /\ Cardinality(B) \in 1..m
    BY <1>3, <2>1, <2>2
  <2>4. Cardinality(A) <= Cardinality(B) /\ Cardinality(A) # Cardinality(B)
    BY <2>3, FS_Subset
  <2>5. Cardinality(A) < Cardinality(B)
    BY <2>3, <2>4
  <2> QED
    BY <2>2, <2>5
<1> DEFINE f == [x \in S |-> Cardinality(UpTo(x))]
<1>5. f \in [S -> 1..m] /\ \A x, y \in S : x < y => f[x] < f[y]
  <2> HIDE DEF UpTo
  <2> QED
    BY <1>3, <1>4
<1> HIDE DEF f
<1>6. \A x, y \in S : f[x] = f[y] => x = y
  <2> SUFFICES ASSUME NEW x \in S, NEW y \in S, f[x] = f[y], x # y PROVE FALSE
    OBVIOUS
  <2>1. x < y \/ y < x
    BY <1>0
  <2>2. f[x] \in 1..m /\ f[y] \in 1..m
    BY <1>5
  <2> QED
    BY <1>5, <2>1, <2>2
<1>7. f \in Injection(S, 1..m)
  BY <1>5, <1>6, Fun_IsInj
<1>8. f \in Surjection(S, 1..m)
  <2>1. IsFiniteSet(1..m) /\ Cardinality(1..m) = m
    BY FS_Interval
  <2> QED
    BY <1>2, <1>7, <2>1, FS_Injection
<1>9. \A k \in 1..m : \E x \in S : f[x] = k
  BY <1>8, Fun_SurjectionProperties
<1> DEFINE h == [k \in 1..m |-> CHOOSE x \in S : f[x] = k]
<1>10. \A k \in 1..m : h[k] \in S /\ f[h[k]] = k
  BY <1>9
<1>11. h \in [1..m -> S]
  BY <1>10
<1> HIDE DEF h
<1>12. ASSUME NEW j \in 1..m, NEW k \in 1..m, j < k PROVE h[j] < h[k]
  <2>1. f[h[j]] = j /\ f[h[k]] = k /\ h[j] \in S /\ h[k] \in S
    BY <1>10
  <2>2. h[k] # h[j]
    BY <1>12, <2>1
  <2>3. ~(h[k] < h[j])
    <3>1. ~(k < j)
      BY <1>12
    <3> QED
      BY <1>5, <2>1, <3>1
  <2>4. h[k] \in Nat /\ h[j] \in Nat
    BY <1>0, <2>1
  <2> QED
    BY <2>2, <2>3, <2>4
<1>13. ASSUME NEW x \in S PROVE \E k \in 1..m : h[k] = x
  <2>1. f[x] \in 1..m
    BY <1>5
  <2> QED
    BY <1>6, <1>10, <2>1
<1> QED
  BY <1>1, <1>2, <1>11, <1>12, <1>13

(* Ascending sorts a sequence of different numbers.                          *)
LEMMA Sorts ==
    ASSUME NEW n \in Nat, NEW s \in Seq(1..n), IsInjective(s)
    PROVE  /\ IsInjective(Ascending(s)) /\ Increasing(Ascending(s))
           /\ ToSet(Ascending(s)) = ToSet(s)
<1>1. PICK m \in Nat : m = Len(s)
  OBVIOUS
<1>2. DOMAIN s = 1..m /\ \A k \in 1..m : s[k] \in 1..n
  BY <1>1
<1>3. PICK S : S = ToSet(s)
  OBVIOUS
<1>4. S \subseteq 1..n /\ (\A k \in 1..m : s[k] \in S) /\ \A x \in S : \E k \in 1..m : s[k] = x
  BY <1>2, <1>3 DEF ToSet
<1>5. \A j, k \in 1..m : s[j] = s[k] => j = k
  BY <1>2 DEF IsInjective
<1>6. IsFiniteSet(S) /\ Cardinality(S) = m
  <2>1. IsFiniteSet(S)
    BY <1>4, Ranks
  <2>2. s \in [1..m -> S]
    BY <1>1, <1>4
  <2>3. s \in Injection(1..m, S) /\ s \in Surjection(1..m, S)
    BY <1>4, <1>5, <2>2, Fun_IsInj, Fun_IsSurj
  <2>4. Cardinality(1..m) = m
    BY FS_Interval
  <2> QED
    BY <2>1, <2>3, <2>4, FS_Injection
<1>7. PICK h \in [1..m -> S] : \A j, k \in 1..m : j < k => h[j] < h[k]
  <2>1. \E h \in [1..Cardinality(S) -> S] :
           \A j, k \in 1..Cardinality(S) : j < k => h[j] < h[k]
    BY <1>4, Ranks
  <2> QED
    BY <1>6, <2>1
<1> DEFINE p0 == [k \in 1..m |-> CHOOSE j \in 1..m : s[j] = h[k]]
<1>8. \A k \in 1..m : p0[k] \in 1..m /\ s[p0[k]] = h[k]
  BY <1>4, <1>7
<1>9. p0 \in [1..m -> 1..m]
  BY <1>8
<1> HIDE DEF p0
<1>10. \A j, k \in 1..m : h[j] \in Nat /\ h[k] \in Nat /\ (j # k => h[j] # h[k])
  <2> TAKE j, k \in 1..m
  <2>1. h[j] \in Nat /\ h[k] \in Nat
    <3>1. h[j] \in S /\ h[k] \in S
      BY <1>7
    <3>2. h[j] \in 1..n /\ h[k] \in 1..n
      BY <1>4, <3>1
    <3> QED
      BY <3>2
  <2>2. j # k => j < k \/ k < j
    OBVIOUS
  <2>3. j # k => h[j] < h[k] \/ h[k] < h[j]
    BY <1>7, <2>2
  <2> QED
    BY <2>1, <2>3
<1>11. p0 \in Injection(1..m, 1..m)
  <2>1. \A j, k \in 1..m : p0[j] = p0[k] => j = k
    BY <1>8, <1>10
  <2> QED
    BY <1>9, <2>1, Fun_IsInj
<1>12. \A j, k \in 1..m : j < k => s[p0[j]] <= s[p0[k]]
  BY <1>7, <1>8, <1>10
<1> DEFINE Sorted(p) == \A j, k \in DOMAIN s : j < k => s[p[j]] <= s[p[k]]
<1> DEFINE p == CHOOSE p \in Injection(DOMAIN s, DOMAIN s) : Sorted(p)
<1>13. p \in Injection(1..m, 1..m) /\ Sorted(p)
  BY <1>2, <1>11, <1>12
<1>14. PICK a : a = Ascending(s)
  OBVIOUS
<1>15. a = [k \in 1..m |-> s[p[k]]]
  BY <1>2, <1>14 DEF Ascending
<1>16. \A j, k \in 1..m : j < k => s[p[j]] <= s[p[k]]
  BY <1>2, <1>13
<1> HIDE DEF p, Sorted
<1>17. p \in [1..m -> 1..m] /\ \A j, k \in 1..m : p[j] = p[k] => j = k
  BY <1>13 DEF Injection, IsInjective
<1>18. \A j, k \in 1..m : j # k => a[j] # a[k]
  BY <1>5, <1>15, <1>17
<1>19. Increasing(a)
  <2> SUFFICES ASSUME NEW j \in 1..m, NEW k \in 1..m, j < k PROVE a[j] < a[k]
    BY <1>15 DEF Increasing
  <2>1. a[j] \in Nat /\ a[k] \in Nat
    <3>1. p[j] \in 1..m /\ p[k] \in 1..m
      BY <1>17
    <3>2. a[j] \in 1..n /\ a[k] \in 1..n
      BY <1>2, <1>15, <3>1
    <3> QED
      BY <3>2
  <2>2. a[j] <= a[k] /\ a[j] # a[k]
    BY <1>15, <1>16, <1>18
  <2> QED
    BY <2>1, <2>2
<1>20. ToSet(a) = S
  <2>1. p \in Surjection(1..m, 1..m)
    <3>1. IsFiniteSet(1..m)
      BY FS_Interval
    <3> QED
      BY <1>13, <3>1, FS_Injection
  <2>2. \A k \in 1..m : \E j \in 1..m : p[j] = k
    BY <2>1 DEF Surjection
  <2>3. ASSUME NEW x \in S PROVE \E j \in 1..m : a[j] = x
    <3>1. PICK k \in 1..m : s[k] = x
      BY <1>4
    <3>2. PICK j \in 1..m : p[j] = k
      BY <2>2
    <3> QED
      BY <1>15, <3>1, <3>2
  <2>4. \A j \in 1..m : a[j] \in S
    BY <1>4, <1>15, <1>17
  <2>5. ToSet(a) = {a[j] : j \in 1..m}
    BY <1>15 DEF ToSet
  <2>6. \A x \in ToSet(a) : x \in S
    BY <2>4, <2>5
  <2>7. \A x \in S : x \in ToSet(a)
    BY <2>3, <2>5
  <2> QED
    BY <2>6, <2>7
<1>21. IsInjective(a)
  BY <1>15, <1>18 DEF IsInjective
<1> QED
  BY <1>3, <1>14, <1>19, <1>20, <1>21

-----------------------------------------------------------------------------
LoopStates == [ next : Nat, running : Nat, completed : Nat, done : BOOLEAN, looping : BOOLEAN,
                left : BOOLEAN ]
OutStates == [ at : [1..MaxElements -> Results \cup {Missing}], list : Seq(1..MaxElements),
               memo : Seq(1..MaxElements), cb : BOOLEAN ]
Limited == job.eachfn # "arrayLike"
ToldOf(td) == {i \in 1..job.size : td[i] # Missing}
YesOf(td) == {i \in 1..job.size : td[i] = "yes"}

(* The invariant, of a loop e, the elements op that are under way, what the  *)
(* consumer has got o, what was called back td and the answers an.           *)
EachTypeOK(e, op, o, td) ==
    /\ e \in LoopStates
    /\ 1 <= e.next /\ e.next <= job.size + 1
    /\ op \subseteq 1..(e.next - 1)
    /\ o \in OutStates
    /\ td \in [1..MaxElements -> Results \cup {Missing}]
    /\ \A i \in 1..MaxElements : td[i] # Missing <=> i < e.next /\ i \notin op
    /\ job.consumer # "detect" => o.cb

(* The loops: what they count, and when they may still call the callback.    *)
LoopRight(e, op, o, td) ==
    /\ Limited =>
          /\ e.running = Cardinality(op) /\ e.running <= job.limit
          /\ e.left /\ e.looping => ~e.done
          /\ e.left /\ e.done => e.next = job.size + 1
          /\ e.left /\ ~e.looping => IF e.done THEN op # {} ELSE e.running >= job.limit
          /\ ~o.cb => ~e.left
          /\ Series => op \subseteq {e.next - 1}
    /\ ~Limited =>
          /\ e.left => /\ e.completed = Cardinality(ToldOf(td))
                       /\ e.completed < job.size \/ (job.size = 0 /\ e.looping)
          /\ ~e.looping => e.next = job.size + 1
    /\ job.consumer = "detect" /\ ~e.left /\ o.cb => op = {} /\ e.next = job.size + 1

(* What the consumers have gathered.                                         *)
GatheredRight(e, op, o, td) ==
    /\ e.left /\ job.consumer # "detect" => \A i \in 1..job.size : td[i] # "error"
    /\ job.consumer = "detect" /\ o.cb => \A i \in 1..job.size : td[i] \in {Missing, "no"}
    /\ job.consumer \in {"map", "filterArray"} => o.at = td
    /\ job.consumer \in {"filterGeneric", "concat"} =>
          /\ IsInjective(o.list) /\ ToSet(o.list) = YesOf(td)
          /\ Series => Increasing(o.list)
    /\ job.consumer = "reduce" /\ e.left =>
          o.memo = [k \in 1..(e.next - (IF op = {} THEN 1 ELSE 2)) |-> k]

RightAnswer(td, a) ==
    IF a.error THEN \E i \in 1..job.size : td[i] = "error"
    ELSE /\ job.consumer # "detect" => \A i \in 1..job.size : td[i] \in {"yes", "no"}
         /\ job.consumer = "map" => a.value = [i \in 1..job.size |-> td[i]]
         /\ job.consumer \in {"filterArray", "filterGeneric", "concat"} =>
               /\ IsInjective(a.value) /\ ToSet(a.value) = YesOf(td)
               /\ Series \/ (job.consumer # "concat" /\ ~job.named) => Increasing(a.value)
         /\ job.consumer = "reduce" => a.value = [i \in 1..job.size |-> i]
         /\ job.consumer = "detect" =>
               \/ a.value = <<>> /\ \A i \in 1..job.size : td[i] = "no"
               \/ \E i \in 1..job.size : /\ a.value = <<i>> /\ td[i] = "yes"
                                         /\ Series => \A j \in 1..(i - 1) : td[j] = "no"

(* One answer once the callback has left, or a tester has none any more.     *)
AnswersRight(e, o, td, an) ==
    IF e.left /\ o.cb THEN an = <<>> ELSE an = <<an[1]>> /\ RightAnswer(td, an[1])

EachOK(e, op, o, td, an) ==
    EachTypeOK(e, op, o, td) /\ LoopRight(e, op, o, td) /\ GatheredRight(e, op, o, td)
    /\ AnswersRight(e, o, td, an)

EachInv == job \in Jobs /\ EachOK(each, open, out, told, answers)

USE DEF LoopStates, OutStates

(* heard is what the iteratee of i calls back, r what its consumer makes of  *)
(* it.                                                                       *)
Called(e, op, an, i, heard, r, o, td) ==
    /\ job \in Jobs /\ EachOK(e, op, out, told, an) /\ i \in op /\ heard \in Results
    /\ r = Passed(heard) /\ o = Consumed(i, r) /\ td = [told EXCEPT ![i] = heard]

Stops(r) == r = "error" \/ Breaks(r)

LoopCalls(e, r) == IF job.eachfn = "arrayLike" THEN ArrayCallback(e, r) ELSE LimitCallback(e, r)
AfterCall(c) == [c.e EXCEPT !.left = @ /\ ~c.calls]

LEMMA JobIs ==
    ASSUME job \in Jobs
    PROVE  /\ job.size \in Nat /\ job.size <= MaxElements /\ job.limit \in Nat \ {0}
           /\ job.limit \in Limits \cup {MaxElements + 1}
           /\ job.consumer \in Consumers /\ job.eachfn \in {"arrayLike", "limit", "generic"}
           /\ ~Limited => job.limit = MaxElements + 1
           /\ job.consumer = "reduce" => Series
           /\ job.consumer = "filterArray" => job.eachfn # "generic"
           /\ job.named => job.consumer = "filterGeneric"
<1>1. /\ job \in [ eachfn : {"arrayLike", "limit", "generic"}, consumer : Consumers,
                   size : 0..MaxElements, limit : Limits \cup {MaxElements + 1}, named : BOOLEAN ]
      /\ JobOK(job)
  BY DEF Jobs
<1>2. /\ job.size \in 0..MaxElements /\ MaxElements \in Nat /\ Limits \subseteq Nat \ {0}
      /\ job.limit \in Limits \cup {MaxElements + 1} /\ job.consumer \in Consumers
      /\ job.eachfn \in {"arrayLike", "limit", "generic"}
  BY <1>1
<1>3. /\ ~Limited => job.limit = MaxElements + 1
      /\ job.consumer = "reduce" => Series
      /\ job.consumer = "filterArray" => job.eachfn # "generic"
      /\ job.named => job.consumer = "filterGeneric"
  BY <1>1 DEF JobOK, Limited, Series
<1>4. job.size \in Nat /\ job.size <= MaxElements
  BY <1>2
<1>5. job.limit \in Nat \ {0}
  <2>1. MaxElements + 1 \in Nat \ {0}
    BY <1>2
  <2> QED
    BY <1>2, <2>1
<1> QED
  BY <1>2, <1>3, <1>4, <1>5

(* What is called back is noted, and consumed.                               *)
LEMMA CallTells ==
    ASSUME NEW e, NEW op, NEW an, NEW i, NEW heard, NEW r, NEW o, NEW td,
           Called(e, op, an, i, heard, r, o, td)
    PROVE  /\ i \in 1..job.size /\ i \in 1..MaxElements /\ i < e.next /\ i \in Nat
           /\ told[i] = Missing /\ td[i] = heard
           /\ \A j \in 1..MaxElements : j # i => td[j] = told[j]
           /\ td \in [1..MaxElements -> Results \cup {Missing}]
           /\ r \in Results /\ (job.consumer # "detect" => r = heard) /\ (out.cb => r = heard)
           /\ o \in OutStates
           /\ o.cb <=> (job.consumer = "detect" => out.cb /\ r = "no")
<1>1. /\ job.size \in Nat /\ job.size <= MaxElements /\ job.consumer \in Consumers
      /\ MaxElements \in Nat
  BY JobIs DEF Called
<1>2. EachTypeOK(e, op, out, told) /\ i \in op /\ heard \in Results
  BY DEF Called, EachOK
<1>3. e.next \in Nat /\ op \subseteq 1..(e.next - 1) /\ e.next <= job.size + 1
  BY <1>2 DEF EachTypeOK
<1>4. i \in 1..job.size /\ i \in 1..MaxElements /\ i < e.next /\ i \in Nat
  BY <1>1, <1>2, <1>3
<1>5. told \in [1..MaxElements -> Results \cup {Missing}] /\ told[i] = Missing
  BY <1>2, <1>4 DEF EachTypeOK
<1>6. /\ td[i] = heard /\ td \in [1..MaxElements -> Results \cup {Missing}]
      /\ \A j \in 1..MaxElements : j # i => td[j] = told[j]
  BY <1>2, <1>4, <1>5 DEF Called
<1>7. r \in Results /\ (job.consumer # "detect" => r = heard) /\ (out.cb => r = heard)
  BY <1>2 DEF Called, Passed, Results
<1>8. /\ out \in OutStates
      /\ job.consumer # "detect" => out.cb
  BY <1>2 DEF EachTypeOK
<1>9. o = Consumed(i, r)
  BY DEF Called
<1>10. CASE job.consumer \in {"map", "filterArray"}
  <2>1. o = [out EXCEPT !.at[i] = r]
    BY <1>9, <1>10 DEF Consumed, Place
  <2>2. o = [at |-> [out.at EXCEPT ![i] = r], list |-> out.list, memo |-> out.memo, cb |-> out.cb]
    BY <1>8, <2>1
  <2>3. [out.at EXCEPT ![i] = r] \in [1..MaxElements -> Results \cup {Missing}]
    BY <1>4, <1>7, <1>8
  <2> QED
    BY <1>4, <1>5, <1>6, <1>7, <1>8, <1>10, <2>2, <2>3
<1>11. CASE job.consumer \in {"filterGeneric", "concat"}
  <2>1. o = IF r = "yes" THEN [out EXCEPT !.list = Append(@, i)] ELSE out
    BY <1>9, <1>11 DEF Consumed
  <2>2. Append(out.list, i) \in Seq(1..MaxElements)
    BY <1>4, <1>8
  <2>3. CASE r = "yes"
    <3>1. o = [at |-> out.at, list |-> Append(out.list, i), memo |-> out.memo, cb |-> out.cb]
      BY <1>8, <2>1, <2>3
    <3> QED
      BY <1>4, <1>5, <1>6, <1>7, <1>8, <1>11, <2>2, <3>1
  <2>4. CASE r # "yes"
    BY <1>4, <1>5, <1>6, <1>7, <1>8, <1>11, <2>1, <2>4
  <2> QED
    BY <2>3, <2>4
<1>12. CASE job.consumer = "reduce"
  <2>1. o = [out EXCEPT !.memo = IF Error(r) THEN <<>> ELSE Append(@, i)]
    BY <1>9, <1>12 DEF Consumed
  <2>2. PICK m : m = IF Error(r) THEN <<>> ELSE Append(out.memo, i)
    OBVIOUS
  <2>3. m \in Seq(1..MaxElements)
    <3>1. <<>> \in Seq(1..MaxElements) /\ Append(out.memo, i) \in Seq(1..MaxElements)
      BY <1>4, <1>8
    <3> QED
      BY <2>2, <3>1
  <2>4. o = [at |-> out.at, list |-> out.list, memo |-> m, cb |-> out.cb]
    BY <1>8, <2>1, <2>2
  <2> QED
    BY <1>4, <1>5, <1>6, <1>7, <1>8, <1>12, <2>3, <2>4
<1>13. CASE job.consumer = "detect"
  <2>1. o = IF r = "no" THEN out ELSE [out EXCEPT !.cb = FALSE]
    BY <1>9, <1>13 DEF Consumed
  <2>2. r # "no" => o = [at |-> out.at, list |-> out.list, memo |-> out.memo, cb |-> FALSE]
    BY <1>8, <2>1
  <2>3. ~out.cb => r = "no"
    BY <1>13 DEF Called, Passed
  <2> QED
    BY <1>4, <1>5, <1>6, <1>7, <1>8, <1>13, <2>1, <2>2, <2>3
<1> QED
  BY <1>1, <1>10, <1>11, <1>12, <1>13 DEF Consumers

(* ... what the consumer has gathered, *)
LEMMA CallGathers ==
    ASSUME NEW e, NEW op, NEW an, NEW i, NEW heard, NEW r, NEW o, NEW td,
           Called(e, op, an, i, heard, r, o, td),
           NEW e2, e2.next = e.next, e2.left => e.left /\ r # "error"
    PROVE  GatheredRight(e2, op \ {i}, o, td)
<1>1. /\ job.size \in Nat /\ job.size <= MaxElements /\ job.consumer \in Consumers
      /\ MaxElements \in Nat /\ (job.consumer = "reduce" => Series)
  BY JobIs DEF Called
<1>2. /\ i \in 1..job.size /\ i \in 1..MaxElements /\ i < e.next /\ i \in Nat
      /\ told[i] = Missing /\ td[i] = heard
      /\ \A j \in 1..MaxElements : j # i => td[j] = told[j]
      /\ td \in [1..MaxElements -> Results \cup {Missing}]
      /\ r \in Results /\ (job.consumer # "detect" => r = heard) /\ (out.cb => r = heard)
      /\ o \in OutStates
      /\ o.cb <=> (job.consumer = "detect" => out.cb /\ r = "no")
  BY CallTells
<1>3. /\ EachTypeOK(e, op, out, told) /\ LoopRight(e, op, out, told) /\ GatheredRight(e, op, out, told)
      /\ i \in op /\ o = Consumed(i, r) /\ td = [told EXCEPT ![i] = heard]
  BY DEF Called, EachOK
<1>4. /\ out \in OutStates
      /\ told \in [1..MaxElements -> Results \cup {Missing}]
      /\ e.next \in Nat /\ op \subseteq 1..(e.next - 1) /\ e.next <= job.size + 1
      /\ \A j \in 1..MaxElements : told[j] # Missing <=> j < e.next /\ j \notin op
  BY <1>3 DEF EachTypeOK
<1>5. \A j \in 1..job.size : j \in 1..MaxElements
  BY <1>1
<1>6. Series => op = {i} /\ i = e.next - 1
  <2>1. Series => op \subseteq {e.next - 1}
    <3>1. Series => Limited
      BY DEF Series, Limited
    <3> QED
      BY <1>3, <3>1 DEF LoopRight
  <2> QED
    BY <1>3, <2>1
<1>7. e2.left /\ job.consumer # "detect" => \A j \in 1..job.size : td[j] # "error"
  <2> SUFFICES ASSUME e2.left, job.consumer # "detect", NEW j \in 1..job.size PROVE td[j] # "error"
    OBVIOUS
  <2>1. told[j] # "error" /\ r # "error" /\ heard = r
    BY <1>2, <1>3 DEF GatheredRight
  <2> QED
    BY <1>2, <1>5, <2>1
<1>8. job.consumer = "detect" /\ o.cb => \A j \in 1..job.size : td[j] \in {Missing, "no"}
  <2> SUFFICES ASSUME job.consumer = "detect", o.cb, NEW j \in 1..job.size
               PROVE  td[j] \in {Missing, "no"}
    OBVIOUS
  <2>1. out.cb /\ r = "no" /\ heard = "no"
    BY <1>2
  <2>2. told[j] \in {Missing, "no"}
    BY <1>3, <2>1 DEF GatheredRight
  <2> QED
    BY <1>2, <1>5, <2>1, <2>2
<1>9. job.consumer \in {"map", "filterArray"} => o.at = td
  <2> SUFFICES ASSUME job.consumer \in {"map", "filterArray"} PROVE o.at = td
    OBVIOUS
  <2>1. o = [out EXCEPT !.at[i] = r] /\ r = heard
    BY <1>2, <1>3 DEF Consumed, Place
  <2>2. o.at = [out.at EXCEPT ![i] = r]
    BY <1>4, <2>1
  <2>3. out.at = told
    BY <1>3 DEF GatheredRight
  <2> QED
    BY <1>3, <2>1, <2>2, <2>3
<1>10. job.consumer \in {"filterGeneric", "concat"} =>
          /\ IsInjective(o.list) /\ ToSet(o.list) = YesOf(td)
          /\ Series => Increasing(o.list)
  <2> SUFFICES ASSUME job.consumer \in {"filterGeneric", "concat"}
               PROVE  /\ IsInjective(o.list) /\ ToSet(o.list) = YesOf(td)
                      /\ Series => Increasing(o.list)
    OBVIOUS
  <2>1. PICK s \in Seq(1..MaxElements) : s = out.list
    BY <1>4
  <2>2. IsInjective(s) /\ ToSet(s) = YesOf(told) /\ (Series => Increasing(s))
    BY <1>3, <2>1 DEF GatheredRight
  <2>3. o = (IF r = "yes" THEN [out EXCEPT !.list = Append(@, i)] ELSE out) /\ r = heard
    BY <1>2, <1>3 DEF Consumed
  <2>4. i \notin YesOf(told)
    BY <1>2 DEF YesOf, Missing
  <2>5. CASE r # "yes"
    <3>1. o.list = s
      BY <2>1, <2>3, <2>5
    <3>2. YesOf(td) = YesOf(told)
      BY <1>2, <1>5, <2>3, <2>4, <2>5 DEF YesOf
    <3> QED
      BY <2>2, <3>1, <3>2
  <2>6. CASE r = "yes"
    <3>1. o.list = Append(s, i)
      BY <1>4, <2>1, <2>3, <2>6
    <3>2. YesOf(td) = YesOf(told) \cup {i}
      BY <1>2, <1>5, <2>3, <2>4, <2>6 DEF YesOf
    <3>3. PICK n \in Nat : n = Len(s)
      OBVIOUS
    <3>4. PICK t : t = Append(s, i)
      OBVIOUS
    <3>5. /\ DOMAIN s = 1..n /\ DOMAIN t = 1..(n + 1) /\ t[n + 1] = i
          /\ \A k \in 1..n : t[k] = s[k] /\ s[k] \in YesOf(told)
          /\ \A x \in YesOf(told) : \E k \in 1..n : s[k] = x
      <4>1. DOMAIN s = 1..n /\ DOMAIN t = 1..(n + 1) /\ t[n + 1] = i /\ \A k \in 1..n : t[k] = s[k]
        BY <3>3, <3>4
      <4> QED
        BY <2>2, <4>1 DEF ToSet
    <3>6. ToSet(t) = YesOf(td)
      <4>1. \A k \in 1..(n + 1) : t[k] \in YesOf(td)
        BY <3>2, <3>5
      <4>2. \A x \in YesOf(td) : \E k \in 1..(n + 1) : t[k] = x
        <5> SUFFICES ASSUME NEW x \in YesOf(td) PROVE \E k \in 1..(n + 1) : t[k] = x
          OBVIOUS
        <5>1. CASE x = i
          BY <3>5, <5>1
        <5>2. CASE x # i
          <6>1. PICK k \in 1..n : s[k] = x
            BY <3>2, <3>5, <5>2
          <6> QED
            BY <3>5, <6>1
        <5> QED
          BY <5>1, <5>2
      <4>3. ToSet(t) = {t[k] : k \in 1..(n + 1)}
        BY <3>5 DEF ToSet
      <4>4. \A x \in ToSet(t) : x \in YesOf(td)
        BY <4>1, <4>3
      <4>5. \A x \in YesOf(td) : x \in ToSet(t)
        BY <4>2, <4>3
      <4> QED
        BY <4>4, <4>5
    <3>7. IsInjective(t)
      <4> SUFFICES ASSUME NEW j \in 1..(n + 1), NEW k \in 1..(n + 1), t[j] = t[k] PROVE j = k
        BY <3>5 DEF IsInjective
      <4>1. \A l \in 1..n : t[l] # i
        BY <2>4, <3>5
      <4>2. \A l \in 1..(n + 1) : l \in 1..n \/ l = n + 1
        OBVIOUS
      <4>3. \A l, g \in 1..n : s[l] = s[g] => l = g
        BY <2>2, <3>5 DEF IsInjective
      <4>4. CASE j \in 1..n /\ k \in 1..n
        BY <3>5, <4>3, <4>4
      <4>5. CASE j = n + 1 \/ k = n + 1
        <5>1. t[j] = i /\ t[k] = i
          BY <3>5, <4>5
        <5> QED
          BY <4>1, <4>2, <5>1
      <4> QED
        BY <4>2, <4>4, <4>5
    <3>8. Series => Increasing(t)
      <4> SUFFICES ASSUME Series, NEW j \in 1..(n + 1), NEW k \in 1..(n + 1), j < k PROVE t[j] < t[k]
        BY <3>5 DEF Increasing
      <4>1. j \in 1..n
        OBVIOUS
      <4>2. CASE k \in 1..n
        BY <2>2, <3>5, <4>1, <4>2 DEF Increasing
      <4>3. CASE k = n + 1
        <5>1. t[k] = i /\ t[j] \in YesOf(told)
          BY <3>5, <4>1, <4>3
        <5>2. t[j] \in 1..MaxElements /\ told[t[j]] # Missing
          BY <1>5, <5>1 DEF YesOf, Missing
        <5>3. t[j] < e.next /\ t[j] # i /\ t[j] \in Nat
          BY <1>2, <1>4, <5>2
        <5> QED
          BY <1>2, <1>4, <1>6, <5>1, <5>3
      <4> QED
        BY <4>2, <4>3
    <3> QED
      BY <3>1, <3>4, <3>6, <3>7, <3>8
  <2> QED
    BY <2>5, <2>6
<1>11. job.consumer = "reduce" /\ e2.left =>
          o.memo = [k \in 1..(e2.next - (IF op \ {i} = {} THEN 1 ELSE 2)) |-> k]
  <2> SUFFICES ASSUME job.consumer = "reduce", e2.left
               PROVE  o.memo = [k \in 1..(e2.next - (IF op \ {i} = {} THEN 1 ELSE 2)) |-> k]
    OBVIOUS
  <2>1. e.left /\ r # "error" /\ op = {i} /\ i = e.next - 1 /\ op \ {i} = {}
    BY <1>1, <1>6
  <2>2. out.memo = [k \in 1..(e.next - 2) |-> k]
    BY <1>3, <2>1 DEF GatheredRight
  <2>3. o.memo = Append(out.memo, i)
    BY <1>3, <1>4, <2>1 DEF Consumed, Error
  <2>4. PICK n \in Nat : n = e.next - 2 /\ i = n + 1
    <3>1. i \in Nat /\ i >= 1 /\ e.next \in Nat /\ i = e.next - 1
      BY <1>2, <1>4, <2>1
    <3>2. e.next - 2 \in Nat /\ i = (e.next - 2) + 1
      BY <3>1
    <3> QED
      BY <3>2
  <2>5. [k \in 1..n |-> k] \in Seq(Nat)
    OBVIOUS
  <2>6. Append([k \in 1..n |-> k], n + 1) = [k \in 1..(n + 1) |-> k]
    BY <2>5
  <2>7. e2.next - 1 = n + 1
    BY <1>4, <2>4
  <2> QED
    BY <2>1, <2>2, <2>3, <2>4, <2>6, <2>7
<1> QED
  BY <1>7, <1>8, <1>9, <1>10, <1>11 DEF GatheredRight

(* ... and how the loop goes on.                                             *)
LoopAfter(e, r, c, e2) ==
    /\ e2 \in LoopStates
    /\ c.err \in BOOLEAN /\ e2.next = e.next /\ (e2.left <=> e.left /\ ~c.calls) /\ (c.err <=> r = "error")
    /\ ~Limited =>
          /\ e2.running = e.running /\ e2.looping = e.looping
          /\ r = "error" => c.calls
          /\ r # "error" => /\ e2.completed = e.completed + 1
                            /\ c.calls <=> e2.completed = job.size
    /\ Limited =>
          /\ e2.running = e.running - 1
          /\ e2.done <=> e.done \/ Stops(r)
          /\ e2.looping <=> e.looping \/ (~Stops(r) /\ ~e.done)
          /\ c.calls <=> Stops(r) \/ (e.done /\ e.running = 1)

LEMMA LoopCalled ==
    ASSUME NEW e \in LoopStates,
           NEW r \in Results, Limited => e.running > 0,
           NEW c, c = LoopCalls(e, r), NEW e2, e2 = AfterCall(c)
    PROVE  LoopAfter(e, r, c, e2)
<1>1. CASE job.eachfn = "arrayLike"
  <2>1. ~Limited
    BY <1>1 DEF Limited
  <2>2. PICK n \in Nat : n = IF r = "error" THEN e.completed ELSE e.completed + 1
    OBVIOUS
  <2>3. PICK e1 : e1 = IF Error(r) THEN e ELSE [e EXCEPT !.completed = @ + 1]
    OBVIOUS
  <2>4. e1 = [next |-> e.next, running |-> e.running, completed |-> n, done |-> e.done,
              looping |-> e.looping, left |-> e.left]
    BY <2>2, <2>3 DEF Error
  <2>5. c = [e |-> e1, calls |-> Error(r) \/ e1.completed = job.size, err |-> Error(r)]
    BY <1>1, <2>3 DEF ArrayCallback, LoopCalls
  <2>6. c.e = e1 /\ (c.calls <=> r = "error" \/ n = job.size) /\ (c.err <=> r = "error") /\ c.err \in BOOLEAN
    <3>1. PICK u, v : u = (Error(r) \/ e1.completed = job.size) /\ v = Error(r)
      OBVIOUS
    <3>2. c = [e |-> e1, calls |-> u, err |-> v]
      BY <2>5, <3>1
    <3>3. c.e = e1 /\ c.calls = u /\ c.err = v
      BY <3>2
    <3>4. e1.completed = n
      BY <2>4
    <3>5. u <=> r = "error" \/ n = job.size
      BY <3>1, <3>4, Zenon DEF Error
    <3>6. v <=> r = "error"
      BY <3>1, Zenon DEF Error
    <3>7. v \in BOOLEAN
      BY <3>1, Zenon DEF Error
    <3> QED
      BY <3>3, <3>5, <3>6, <3>7, Zenon
  <2>7. PICK l \in BOOLEAN : l <=> e.left /\ ~c.calls
    OBVIOUS
  <2>8. e2 = [next |-> e.next, running |-> e.running, completed |-> n, done |-> e.done,
              looping |-> e.looping, left |-> l]
    BY <2>4, <2>6, <2>7 DEF AfterCall
  <2> QED
    BY <2>1, <2>2, <2>6, <2>7, <2>8 DEF LoopAfter
<1>2. CASE job.eachfn # "arrayLike"
  <2>1. Limited
    BY <1>2 DEF Limited
  <2>2. PICK n \in Nat : n = e.running - 1
    BY <2>1
  <2>3. PICK d \in BOOLEAN : d <=> e.done \/ Stops(r)
    OBVIOUS
  <2>4. PICK g \in BOOLEAN : g <=> e.looping \/ (~Stops(r) /\ ~e.done)
    OBVIOUS
  <2>5. PICK e1 : e1 = [e EXCEPT !.running = @ - 1]
    OBVIOUS
  <2>6. e1 = [next |-> e.next, running |-> n, completed |-> e.completed, done |-> e.done,
              looping |-> e.looping, left |-> e.left]
    BY <2>2, <2>5
  <2>7. c = [ e |-> [e1 EXCEPT !.done = @ \/ (Error(r) \/ Breaks(r)),
                               !.looping = @ \/ (~(Error(r) \/ Breaks(r)) /\ ~e1.done)],
              calls |-> (Error(r) \/ Breaks(r)) \/ (e1.done /\ e1.running <= 0), err |-> Error(r) ]
    BY <1>2, <2>5 DEF LimitCallback, LoopCalls
  <2>8. (Error(r) \/ Breaks(r) <=> Stops(r)) /\ (Error(r) <=> r = "error")
    BY DEF Stops, Error
  <2>9. PICK e3 : e3 = [e1 EXCEPT !.done = @ \/ (Error(r) \/ Breaks(r)),
                                  !.looping = @ \/ (~(Error(r) \/ Breaks(r)) /\ ~e1.done)]
    OBVIOUS
  <2>10. PICK d1, g1 : /\ d1 = (e1.done \/ (Error(r) \/ Breaks(r)))
                       /\ g1 = (e1.looping \/ (~(Error(r) \/ Breaks(r)) /\ ~e1.done))
    OBVIOUS
  <2>11. e1.done = e.done /\ e1.looping = e.looping /\ e1.running = n /\ e1.left = e.left
    BY <2>6
  <2>12. d1 = d /\ g1 = g
    BY <2>3, <2>4, <2>8, <2>10, <2>11, Zenon
  <2>13. e3 = [next |-> e.next, running |-> n, completed |-> e.completed, done |-> d1,
               looping |-> g1, left |-> e.left]
    BY <2>6, <2>9, <2>10
  <2>14. c.e = e3 /\ (c.calls <=> Stops(r) \/ (e.done /\ n <= 0)) /\ (c.err <=> r = "error") /\ c.err \in BOOLEAN
    <3>1. PICK u, v : /\ u = ((Error(r) \/ Breaks(r)) \/ (e1.done /\ e1.running <= 0))
                      /\ v = Error(r)
      OBVIOUS
    <3>2. c = [e |-> e3, calls |-> u, err |-> v]
      BY <2>7, <2>9, <3>1
    <3>3. c.e = e3 /\ c.calls = u /\ c.err = v
      BY <3>2
    <3>4. u <=> Stops(r) \/ (e.done /\ n <= 0)
      BY <2>8, <2>11, <3>1, Zenon
    <3>5. v <=> r = "error"
      BY <2>8, <3>1, Zenon
    <3>6. v \in BOOLEAN
      BY <3>1, Zenon DEF Error
    <3> QED
      BY <3>3, <3>4, <3>5, <3>6, Zenon
  <2>15. PICK l \in BOOLEAN : l <=> e.left /\ ~c.calls
    OBVIOUS
  <2>16. PICK l1 : l1 = (e.left /\ ~c.calls)
    OBVIOUS
  <2>17. l1 = l
    BY <2>15, <2>16, Zenon
  <2>18. e2 = [e3 EXCEPT !.left = @ /\ ~c.calls]
    BY <2>14 DEF AfterCall
  <2>19. e2 = [next |-> e.next, running |-> n, completed |-> e.completed, done |-> d,
               looping |-> g, left |-> l]
    BY <2>12, <2>13, <2>16, <2>17, <2>18
  <2>20. n <= 0 <=> e.running = 1
    BY <2>2
  <2> QED
    BY <2>1, <2>2, <2>3, <2>4, <2>14, <2>15, <2>19, <2>20 DEF LoopAfter
<1> QED
  BY <1>1, <1>2

(* The loop's state is right again ...                                       *)
CallDone(e, op, i, r, o, td, c, e2) ==
    /\ EachTypeOK(e2, op \ {i}, o, td) /\ LoopRight(e2, op \ {i}, o, td)
    /\ e2.next = e.next /\ (e2.left <=> e.left /\ ~c.calls)
    /\ (c.err <=> r = "error") /\ c.err \in BOOLEAN
    /\ r = "error" => c.calls
    /\ e.left /\ c.calls /\ ~Stops(r) => op \ {i} = {} /\ e.next = job.size + 1

LEMMA CallLoops ==
    ASSUME NEW e, NEW op, NEW an, NEW i, NEW heard, NEW r, NEW o, NEW td,
           Called(e, op, an, i, heard, r, o, td),
           NEW c, c = LoopCalls(e, r), NEW e2, e2 = AfterCall(c)
    PROVE  CallDone(e, op, i, r, o, td, c, e2)
<1>1. /\ job.size \in Nat /\ job.size <= MaxElements /\ job.consumer \in Consumers
      /\ MaxElements \in Nat
  BY JobIs DEF Called
<1>2. /\ i \in 1..job.size /\ i \in 1..MaxElements /\ i < e.next /\ i \in Nat
      /\ told[i] = Missing /\ td[i] = heard
      /\ \A j \in 1..MaxElements : j # i => td[j] = told[j]
      /\ td \in [1..MaxElements -> Results \cup {Missing}]
      /\ r \in Results /\ (job.consumer # "detect" => r = heard) /\ (out.cb => r = heard)
      /\ o \in OutStates
      /\ o.cb <=> (job.consumer = "detect" => out.cb /\ r = "no")
  BY CallTells
<1>3. /\ EachTypeOK(e, op, out, told) /\ LoopRight(e, op, out, told)
      /\ i \in op /\ heard \in Results
  BY DEF Called, EachOK
<1>4. /\ e \in LoopStates
      /\ told \in [1..MaxElements -> Results \cup {Missing}]
      /\ 1 <= e.next /\ e.next <= job.size + 1 /\ op \subseteq 1..(e.next - 1)
      /\ \A j \in 1..MaxElements : told[j] # Missing <=> j < e.next /\ j \notin op
  BY <1>3 DEF EachTypeOK
<1>5. PICK op2 : op2 = op \ {i}
  OBVIOUS
<1>6. /\ IsFiniteSet(op) /\ Cardinality(op) \in Nat /\ Cardinality(op) > 0
      /\ IsFiniteSet(op2) /\ Cardinality(op2) = Cardinality(op) - 1
      /\ (Cardinality(op) = 1 <=> op2 = {})
  <2>1. IsFiniteSet(op) /\ Cardinality(op) \in Nat
    <3>1. e.next - 1 \in Nat
      BY <1>4
    <3> QED
      BY <1>4, <3>1, Ranks
  <2>2. IsFiniteSet(op2) /\ Cardinality(op2) = Cardinality(op) - 1 /\ Cardinality(op2) \in Nat
    BY <1>3, <1>5, <2>1, FS_RemoveElement, FS_CardinalityType
  <2>3. Cardinality(op2) = 0 <=> op2 = {}
    BY <2>2, FS_EmptySet
  <2> QED
    BY <2>1, <2>2, <2>3
<1>7. /\ IsFiniteSet(ToldOf(told)) /\ Cardinality(ToldOf(told)) \in Nat
      /\ Cardinality(ToldOf(td)) = Cardinality(ToldOf(told)) + 1
      /\ Cardinality(ToldOf(td)) = job.size =>
            \A j \in 1..job.size : td[j] # Missing
  <2>1. ToldOf(told) \subseteq 1..job.size /\ ToldOf(td) \subseteq 1..job.size
    BY DEF ToldOf
  <2>2. ToldOf(td) = ToldOf(told) \cup {i} /\ i \notin ToldOf(told)
    <3>1. \A j \in 1..job.size : j \in 1..MaxElements
      BY <1>1
    <3>2. heard # Missing
      BY <1>3 DEF Results, Missing
    <3> QED
      BY <1>2, <3>1, <3>2 DEF ToldOf
  <2>3. IsFiniteSet(ToldOf(told)) /\ Cardinality(ToldOf(told)) \in Nat
    BY <1>1, <2>1, Ranks
  <2>4. Cardinality(ToldOf(td)) = Cardinality(ToldOf(told)) + 1
    BY <2>2, <2>3, FS_AddElement
  <2>5. IsFiniteSet(1..job.size) /\ Cardinality(1..job.size) = job.size
    <3>1. PICK n \in Nat : n = job.size
      BY <1>1
    <3>2. IsFiniteSet(1..n) /\ Cardinality(1..n) = n
      BY FS_Interval
    <3> QED
      BY <3>1, <3>2
  <2>6. Cardinality(ToldOf(td)) = job.size => ToldOf(td) = 1..job.size
    BY <2>1, <2>5, FS_Subset
  <2> QED
    BY <2>3, <2>4, <2>6 DEF ToldOf
<1>8. Limited => e.running = Cardinality(op) /\ e.running > 0
  BY <1>3, <1>6 DEF LoopRight
<1>9. /\ e2 \in LoopStates
      /\ c.err \in BOOLEAN /\ e2.next = e.next /\ (e2.left <=> e.left /\ ~c.calls) /\ (c.err <=> r = "error")
      /\ ~Limited =>
            /\ e2.running = e.running /\ e2.looping = e.looping
            /\ r = "error" => c.calls
            /\ r # "error" => /\ e2.completed = e.completed + 1
                              /\ c.calls <=> e2.completed = job.size
      /\ Limited =>
            /\ e2.running = e.running - 1
            /\ e2.done <=> e.done \/ Stops(r)
            /\ e2.looping <=> e.looping \/ (~Stops(r) /\ ~e.done)
            /\ c.calls <=> Stops(r) \/ (e.done /\ e.running = 1)
  <2>1. e \in LoopStates /\ r \in Results /\ (Limited => e.running > 0)
    BY <1>2, <1>4, <1>8
  <2>2. LoopAfter(e, r, c, e2)
    BY <2>1, LoopCalled
  <2> QED
    BY <2>2 DEF LoopAfter
<1>10. EachTypeOK(e2, op2, o, td)
  <2>1. op2 \subseteq 1..(e2.next - 1) /\ 1 <= e2.next /\ e2.next <= job.size + 1
    BY <1>4, <1>5, <1>9
  <2>2. \A j \in 1..MaxElements : td[j] # Missing <=> j < e2.next /\ j \notin op2
    <3> SUFFICES ASSUME NEW j \in 1..MaxElements
                 PROVE  td[j] # Missing <=> j < e2.next /\ j \notin op2
      OBVIOUS
    <3>1. CASE j = i
      <4>1. td[j] # Missing
        BY <1>2, <1>3, <3>1 DEF Results, Missing
      <4> QED
        BY <1>2, <1>5, <1>9, <3>1, <4>1
    <3>2. CASE j # i
      BY <1>2, <1>4, <1>5, <1>9, <3>2
    <3> QED
      BY <3>1, <3>2
  <2>3. job.consumer # "detect" => o.cb
    BY <1>2
  <2> QED
    BY <1>2, <1>9, <2>1, <2>2, <2>3 DEF EachTypeOK
<1>11. r = "error" => c.calls
  BY <1>9 DEF Stops
<1>12. e.left /\ c.calls /\ ~Stops(r) => op2 = {} /\ e.next = job.size + 1
  <2> SUFFICES ASSUME e.left, c.calls, ~Stops(r) PROVE op2 = {} /\ e.next = job.size + 1
    OBVIOUS
  <2>1. CASE Limited
    <3>1. e.done /\ e.running = 1
      BY <1>9, <2>1
    <3> QED
      BY <1>3, <1>6, <1>8, <2>1, <3>1 DEF LoopRight
  <2>2. CASE ~Limited
    <3>1. e2.completed = job.size /\ e2.completed = e.completed + 1
      BY <1>9, <2>2 DEF Stops
    <3>2. e.completed = Cardinality(ToldOf(told))
      BY <1>3, <2>2 DEF LoopRight
    <3>3. \A j \in 1..job.size : td[j] # Missing
      BY <1>7, <3>1, <3>2
    <3>4. \A j \in 1..job.size : j < e.next /\ j \notin op2
      BY <1>1, <1>9, <1>10, <3>3 DEF EachTypeOK
    <3>5. e.next = job.size + 1
      <4>1. ~(e.next <= job.size)
        BY <1>1, <1>4, <3>4
      <4> QED
        BY <1>1, <1>4, <4>1
    <3>6. op2 \subseteq 1..job.size
      <4>1. e.next - 1 = job.size
        BY <1>1, <1>4, <3>5
      <4> QED
        BY <1>4, <1>5, <4>1
    <3> QED
      BY <3>4, <3>5, <3>6
  <2> QED
    BY <2>1, <2>2
<1>13. LoopRight(e2, op2, o, td)
  <2>1. ASSUME Limited
        PROVE  /\ e2.running = Cardinality(op2) /\ e2.running <= job.limit
               /\ e2.left /\ e2.looping => ~e2.done
               /\ e2.left /\ e2.done => e2.next = job.size + 1
               /\ e2.left /\ ~e2.looping => IF e2.done THEN op2 # {} ELSE e2.running >= job.limit
               /\ ~o.cb => ~e2.left
               /\ Series => op2 \subseteq {e2.next - 1}
    <3>1. /\ e.left /\ e.looping => ~e.done
          /\ e.left /\ e.done => e.next = job.size + 1
          /\ ~out.cb => ~e.left
          /\ Series => op \subseteq {e.next - 1}
      BY <1>3, <2>1 DEF LoopRight
    <3>2. e2.running = Cardinality(op2) /\ e2.running <= job.limit
      <4>1. e.running <= job.limit /\ job.limit \in Nat
        BY <1>3, <2>1, JobIs DEF LoopRight, Called
      <4>2. PICK m \in Nat : m = e.running
        BY <1>4
      <4> QED
        BY <1>6, <1>8, <1>9, <2>1, <4>1, <4>2
    <3>3. e2.left /\ e2.looping => ~e2.done
      BY <1>9, <2>1, <3>1
    <3>4. e2.left /\ e2.done => e2.next = job.size + 1
      BY <1>9, <2>1, <3>1
    <3>5. e2.left /\ ~e2.looping => e2.done /\ op2 # {}
      BY <1>6, <1>8, <1>9, <2>1, <3>1
    <3>6. ~o.cb => ~e2.left
      <4>1. ~o.cb /\ out.cb => Stops(r)
        BY <1>2 DEF Stops, Breaks, Results
      <4> QED
        BY <1>9, <2>1, <3>1, <4>1
    <3>7. Series => op2 \subseteq {e2.next - 1}
      BY <1>5, <1>9, <3>1
    <3> QED
      BY <3>2, <3>3, <3>4, <3>5, <3>6, <3>7
  <2>2. ASSUME ~Limited
        PROVE  /\ e2.left => /\ e2.completed = Cardinality(ToldOf(td))
                             /\ e2.completed < job.size \/ (job.size = 0 /\ e2.looping)
               /\ ~e2.looping => e2.next = job.size + 1
    <3>1. /\ e.left => /\ e.completed = Cardinality(ToldOf(told))
                       /\ e.completed < job.size \/ (job.size = 0 /\ e.looping)
          /\ ~e.looping => e.next = job.size + 1
      BY <1>3, <2>2 DEF LoopRight
    <3>2. e2.left => /\ e2.completed = Cardinality(ToldOf(td))
                     /\ e2.completed < job.size
      <4> SUFFICES ASSUME e2.left
                   PROVE  e2.completed = Cardinality(ToldOf(td)) /\ e2.completed < job.size
        OBVIOUS
      <4>1. e.left /\ ~c.calls /\ r # "error"
        BY <1>9, <2>2
      <4>2. e2.completed = e.completed + 1 /\ e2.completed # job.size
        BY <1>9, <2>2, <4>1
      <4>3. job.size > 0 /\ e.completed < job.size
        BY <1>1, <1>2, <3>1, <4>1
      <4> QED
        BY <1>1, <1>4, <1>7, <3>1, <4>1, <4>2, <4>3
    <3> QED
      BY <1>9, <2>2, <3>1, <3>2
  <2>3. job.consumer = "detect" /\ ~e2.left /\ o.cb => op2 = {} /\ e2.next = job.size + 1
    <3> SUFFICES ASSUME job.consumer = "detect", ~e2.left, o.cb
                 PROVE  op2 = {} /\ e2.next = job.size + 1
      OBVIOUS
    <3>1. out.cb /\ r = "no"
      BY <1>2
    <3>2. e.left
      BY <1>3, <3>1 DEF LoopRight
    <3>3. ~Stops(r)
      BY <3>1 DEF Stops, Breaks
    <3> QED
      BY <1>9, <1>12, <3>2, <3>3
  <2> QED
    BY <2>1, <2>2, <2>3 DEF LoopRight
<1> QED
  BY <1>5, <1>9, <1>10, <1>11, <1>12, <1>13 DEF CallDone

(* When every element is told and none is an error, the outcome is right.    *)
LEMMA OutcomeIsRight ==
    ASSUME job \in Jobs, NEW e, NEW o \in OutStates, NEW td, GatheredRight(e, {}, o, td),
           e.left, e.next = job.size + 1, o.cb, td \in [1..MaxElements -> Results \cup {Missing}],
           \A i \in 1..job.size : td[i] # Missing,
           NEW a, a = [error |-> FALSE, value |-> Outcome(o)]
    PROVE  RightAnswer(td, a)
<1>1. /\ job.size \in Nat /\ job.size <= MaxElements /\ job.consumer \in Consumers
      /\ MaxElements \in Nat /\ (job.consumer = "reduce" => Series)
      /\ (job.named => job.consumer = "filterGeneric")
  BY JobIs
<1>2. PICK v : v = Outcome(o)
  OBVIOUS
<1>3. a.error = FALSE /\ a.value = v
  BY <1>2
<1>4. \A i \in 1..job.size : td[i] \in Results
  BY <1>1
<1>5. job.consumer # "detect" => \A i \in 1..job.size : td[i] \in {"yes", "no"}
  BY <1>4 DEF GatheredRight, Results
<1>6. job.consumer = "map" => v = [i \in 1..job.size |-> td[i]]
  <2> SUFFICES ASSUME job.consumer = "map" PROVE v = [i \in 1..job.size |-> td[i]]
    OBVIOUS
  <2>1. v = [i \in 1..job.size |-> o.at[i]]
    BY <1>2 DEF Outcome
  <2>2. o.at = td
    BY DEF GatheredRight
  <2> QED
    BY <2>1, <2>2
<1>7. YesOf(td) \subseteq 1..MaxElements /\ IsFiniteSet(YesOf(td))
  <2>1. YesOf(td) \subseteq 1..job.size
    BY DEF YesOf
  <2>2. YesOf(td) \subseteq 1..MaxElements
    BY <1>1, <2>1
  <2> QED
    BY <1>1, <2>2, Ranks
<1>8. job.consumer \in {"filterArray", "filterGeneric", "concat"} =>
          /\ IsInjective(v) /\ ToSet(v) = YesOf(td)
          /\ Series \/ (job.consumer # "concat" /\ ~job.named) => Increasing(v)
  <2>1. CASE job.consumer = "filterArray"
    <3>1. v = Ascending(SetToSeq({i \in 1..job.size : o.at[i] = "yes"}))
      BY <1>2, <2>1 DEF Outcome
    <3>2. {i \in 1..job.size : o.at[i] = "yes"} = YesOf(td)
      BY <2>1 DEF GatheredRight, YesOf
    <3>3. PICK s : s = SetToSeq(YesOf(td))
      OBVIOUS
    <3>4. s \in Seq(1..MaxElements) /\ IsInjective(s) /\ ToSet(s) = YesOf(td)
      BY <1>7, <3>3, InSomeOrder
    <3>5. v = Ascending(s)
      BY <3>1, <3>2, <3>3
    <3> QED
      BY <1>1, <3>4, <3>5, Sorts
  <2>2. CASE job.consumer \in {"filterGeneric", "concat"}
    <3>1. PICK s \in Seq(1..MaxElements) : s = o.list
      OBVIOUS
    <3>2. IsInjective(s) /\ ToSet(s) = YesOf(td) /\ (Series => Increasing(s))
      BY <2>2, <3>1 DEF GatheredRight
    <3>3. CASE job.consumer = "concat" \/ job.named
      <4>1. v = s
        BY <1>1, <1>2, <3>1, <3>3 DEF Outcome
      <4> QED
        BY <3>2, <3>3, <4>1
    <3>4. CASE ~(job.consumer = "concat" \/ job.named)
      <4>1. v = Ascending(s)
        BY <1>2, <2>2, <3>1, <3>4 DEF Outcome
      <4> QED
        BY <1>1, <3>2, <4>1, Sorts
    <3> QED
      BY <3>3, <3>4
  <2> QED
    BY <2>1, <2>2
<1>9. job.consumer = "reduce" => v = [i \in 1..job.size |-> i]
  <2> SUFFICES ASSUME job.consumer = "reduce" PROVE v = [i \in 1..job.size |-> i]
    OBVIOUS
  <2>1. v = o.memo
    BY <1>2 DEF Outcome
  <2>2. o.memo = [k \in 1..(e.next - 1) |-> k]
    BY DEF GatheredRight
  <2>3. e.next - 1 = job.size
    BY <1>1
  <2> QED
    BY <2>1, <2>2, <2>3
<1>10. job.consumer = "detect" => v = <<>> /\ \A i \in 1..job.size : td[i] = "no"
  <2> SUFFICES ASSUME job.consumer = "detect"
               PROVE  v = <<>> /\ \A i \in 1..job.size : td[i] = "no"
    OBVIOUS
  <2>1. v = <<>>
    BY <1>2 DEF Outcome
  <2>2. \A i \in 1..job.size : td[i] \in {Missing, "no"}
    BY DEF GatheredRight
  <2> QED
    BY <2>1, <2>2
<1> QED
  BY <1>3, <1>5, <1>6, <1>8, <1>9, <1>10 DEF RightAnswer

(* An answer stays right whatever is told later, ...                         *)
LEMMA AnswerStays ==
    ASSUME NEW e, NEW op, NEW an, NEW i, NEW heard, NEW r, NEW o, NEW td,
           Called(e, op, an, i, heard, r, o, td), NEW a, RightAnswer(told, a)
    PROVE  RightAnswer(td, a)
<1>1. /\ job.size \in Nat /\ job.size <= MaxElements /\ MaxElements \in Nat
  BY JobIs DEF Called
<1>2. /\ i \in 1..job.size /\ told[i] = Missing
      /\ \A j \in 1..MaxElements : j # i => td[j] = told[j]
  BY CallTells
<1>3. \A j \in 1..job.size : j \in 1..MaxElements
  BY <1>1
<1>4. \A j \in 1..job.size : told[j] # Missing => td[j] = told[j]
  BY <1>2, <1>3
<1>5. CASE a.error
  BY <1>4, <1>5 DEF RightAnswer, Missing
<1>6. CASE ~a.error
  <2>1. job.consumer = "detect"
    BY <1>2, <1>6 DEF RightAnswer, Missing
  <2>2. PICK k \in 1..job.size : /\ a.value = <<k>> /\ told[k] = "yes"
                                 /\ Series => \A j \in 1..(k - 1) : told[j] = "no"
    BY <1>2, <1>6, <2>1 DEF RightAnswer, Missing
  <2>3. td[k] = "yes"
    BY <1>4, <2>2 DEF Missing
  <2>4. \A j \in 1..(k - 1) : j \in 1..job.size
    BY <1>1
  <2>5. Series => \A j \in 1..(k - 1) : td[j] = "no"
    BY <1>4, <2>2, <2>4 DEF Missing
  <2> QED
    BY <1>6, <2>1, <2>2, <2>3, <2>5 DEF RightAnswer
<1> QED
  BY <1>5, <1>6

LEMMA OneAnswer ==
    ASSUME NEW a
    PROVE  /\ <<a>> \o (<<>> \o <<>>) = <<a>> /\ <<>> \o (<<a>> \o <<>>) = <<a>>
           /\ <<>> \o (<<>> \o <<a>>) = <<a>> /\ <<a>>[1] = a
           /\ <<>> \o <<a>> = <<a>>
<1>1. <<a>> \in Seq({a}) /\ <<>> \in Seq({a})
  OBVIOUS
<1> QED
  BY <1>1, ConcatEmptySeq

(* ... and what the callback of an iteratee makes the consumer answer is.    *)
LEMMA CallAnswers ==
    ASSUME NEW e, NEW op, NEW an, NEW i, NEW heard, NEW r, NEW o, NEW td,
           Called(e, op, an, i, heard, r, o, td),
           NEW c, c = LoopCalls(e, r), NEW e2, e2 = AfterCall(c),
           NEW an2, an2 = an \o (Found(i, r)
                                  \o (IF c.calls /\ e.left THEN Answered(o, c.err) ELSE <<>>))
    PROVE  AnswersRight(e2, o, td, an2)
<1>1. /\ job.size \in Nat /\ job.size <= MaxElements /\ job.consumer \in Consumers
      /\ MaxElements \in Nat /\ job \in Jobs
  BY JobIs DEF Called
<1>2. /\ i \in 1..job.size /\ i \in 1..MaxElements /\ i < e.next /\ i \in Nat
      /\ told[i] = Missing /\ td[i] = heard
      /\ \A j \in 1..MaxElements : j # i => td[j] = told[j]
      /\ td \in [1..MaxElements -> Results \cup {Missing}]
      /\ r \in Results /\ (job.consumer # "detect" => r = heard) /\ (out.cb => r = heard)
      /\ o \in OutStates
      /\ o.cb <=> (job.consumer = "detect" => out.cb /\ r = "no")
  BY CallTells
<1>3. /\ EachTypeOK(e, op, out, told) /\ LoopRight(e, op, out, told) /\ GatheredRight(e, op, out, told)
      /\ AnswersRight(e, out, told, an) /\ i \in op /\ heard \in Results
      /\ job.consumer = "detect" /\ ~out.cb => r = "no"
  BY DEF Called, EachOK, Passed
<1>4. /\ EachTypeOK(e2, op \ {i}, o, td)
      /\ e2.next = e.next /\ (e2.left <=> e.left /\ ~c.calls) /\ (c.err <=> r = "error")
      /\ c.err \in BOOLEAN
      /\ r = "error" => c.calls
      /\ e.left /\ c.calls /\ ~Stops(r) => op \ {i} = {} /\ e.next = job.size + 1
  <2>1. CallDone(e, op, i, r, o, td, c, e2)
    BY CallLoops
  <2> QED
    BY <2>1 DEF CallDone
<1>5. PICK found, last : found = Found(i, r)
                         /\ last = IF c.calls /\ e.left THEN Answered(o, c.err) ELSE <<>>
  OBVIOUS
<1>6. an2 = an \o (found \o last)
  BY <1>5
<1>7. CASE ~(e.left /\ out.cb)
  <2>1. ~(e2.left /\ o.cb)
    BY <1>2, <1>3, <1>4, <1>7 DEF EachTypeOK
  <2>2. an = <<an[1]>> /\ RightAnswer(told, an[1])
    BY <1>3, <1>7 DEF AnswersRight
  <2>3. ~(job.consumer = "detect" /\ out.cb)
    BY <1>3, <1>7 DEF LoopRight
  <2>4. found = <<>>
    BY <1>5, <2>3 DEF Found
  <2>5. last = <<>>
    <3>1. CASE ~e.left
      BY <1>5, <3>1
    <3>2. CASE e.left
      <4>1. ~out.cb /\ job.consumer = "detect"
        BY <1>3, <1>7, <3>2 DEF EachTypeOK
      <4>2. ~o.cb
        BY <1>2, <4>1
      <4> QED
        BY <1>5, <4>1, <4>2 DEF Answered
    <3> QED
      BY <3>1, <3>2
  <2>6. PICK a : a = an[1]
    OBVIOUS
  <2>7. an = <<a>> /\ RightAnswer(td, a)
    BY <2>2, <2>6, AnswerStays
  <2>8. an2 = <<a>> /\ an2[1] = a
    BY <1>6, <2>4, <2>5, <2>7, OneAnswer
  <2> QED
    BY <2>1, <2>7, <2>8 DEF AnswersRight
<1>8. CASE e.left /\ out.cb /\ job.consumer = "detect" /\ r # "no"
  <2>1. an = <<>> /\ ~o.cb /\ heard = r
    BY <1>2, <1>3, <1>8 DEF AnswersRight
  <2>2. PICK a : a = [error |-> Error(r), value |-> IF Error(r) THEN <<>> ELSE <<i>>]
    OBVIOUS
  <2>3. found = <<a>>
    BY <1>5, <1>8, <2>2 DEF Found
  <2>4. last = <<>>
    BY <1>5, <1>8, <2>1 DEF Answered
  <2>5. an2 = <<a>> /\ an2[1] = a
    BY <1>6, <2>1, <2>3, <2>4, OneAnswer
  <2>6. RightAnswer(td, a)
    <3>1. CASE r = "error"
      <4>1. a.error
        BY <2>2, <3>1 DEF Error
      <4> QED
        BY <1>2, <2>1, <3>1, <4>1 DEF RightAnswer
    <3>2. CASE r # "error"
      <4>1. ~a.error /\ a.value = <<i>> /\ td[i] = "yes"
        BY <1>2, <1>8, <2>1, <2>2, <3>2 DEF Error, Results
      <4>2. Series => \A j \in 1..(i - 1) : td[j] = "no"
        <5> SUFFICES ASSUME Series, NEW j \in 1..(i - 1) PROVE td[j] = "no"
          OBVIOUS
        <5>1. j \in 1..job.size /\ j \in 1..MaxElements /\ j < i /\ j # i
          BY <1>1, <1>2
        <5>2. op \subseteq {e.next - 1}
          <6>1. Limited
            BY DEF Series, Limited
          <6> QED
            BY <1>3, <6>1 DEF LoopRight
        <5>3. i = e.next - 1 /\ e.next \in Nat
          BY <1>3, <5>2 DEF EachTypeOK
        <5>4. j < e.next /\ j \notin op
          BY <1>2, <5>1, <5>2, <5>3
        <5>5. told[j] # Missing /\ told[j] \in {Missing, "no"}
          BY <1>3, <1>8, <5>1, <5>4 DEF EachTypeOK, GatheredRight
        <5> QED
          BY <1>2, <5>1, <5>5
      <4> QED
        BY <1>2, <1>8, <4>1, <4>2 DEF RightAnswer
    <3> QED
      BY <3>1, <3>2
  <2> QED
    BY <2>1, <2>5, <2>6 DEF AnswersRight
<1>9. CASE e.left /\ out.cb /\ ~(job.consumer = "detect" /\ r # "no")
  <2>1. an = <<>> /\ o.cb /\ heard = r
    BY <1>2, <1>3, <1>9 DEF AnswersRight
  <2>2. found = <<>>
    BY <1>5, <1>9 DEF Found
  <2>3. CASE ~c.calls
    <3>1. last = <<>> /\ e2.left
      BY <1>4, <1>5, <1>9, <2>3
    <3>2. an2 = <<>>
      BY <1>6, <2>1, <2>2, <3>1
    <3> QED
      BY <2>1, <3>1, <3>2 DEF AnswersRight
  <2>4. CASE c.calls
    <3>1. PICK a : a = [error |-> c.err, value |-> IF c.err THEN <<>> ELSE Outcome(o)]
      OBVIOUS
    <3>2. last = <<a>>
      BY <1>5, <1>9, <2>1, <2>4, <3>1 DEF Answered
    <3>3. an2 = <<a>> /\ an2[1] = a
      BY <1>6, <2>1, <2>2, <3>2, OneAnswer
    <3>4. RightAnswer(td, a)
      <4>1. CASE r = "error"
        <5>1. a.error
          BY <1>4, <3>1, <4>1
        <5> QED
          BY <1>2, <2>1, <4>1, <5>1 DEF RightAnswer
      <4>2. CASE r # "error"
        <5>1. ~Stops(r)
          BY <1>9, <4>2 DEF Stops, Breaks
        <5>2. op \ {i} = {} /\ e.next = job.size + 1
          BY <1>4, <1>9, <2>4, <5>1
        <5>3. GatheredRight(e, op \ {i}, o, td)
          BY <4>2, CallGathers
        <5>4. GatheredRight(e, {}, o, td)
          BY <5>2, <5>3
        <5>5. \A j \in 1..job.size : td[j] # Missing
          <6> SUFFICES ASSUME NEW j \in 1..job.size PROVE td[j] # Missing
            OBVIOUS
          <6>1. j \in 1..MaxElements /\ j < e2.next /\ j \notin op \ {i}
            BY <1>1, <1>4, <5>2
          <6> QED
            BY <1>4, <6>1 DEF EachTypeOK
        <5>6. a = [error |-> FALSE, value |-> Outcome(o)]
          <6>1. c.err = FALSE
            <7>1. ~c.err
              BY <1>4, <4>2
            <7> QED
              BY <1>4, <7>1
          <6> QED
            BY <3>1, <6>1
        <5> QED
          BY <1>1, <1>2, <1>9, <2>1, <5>2, <5>4, <5>5, <5>6, OutcomeIsRight
      <4> QED
        BY <4>1, <4>2
    <3> QED
      BY <1>4, <2>4, <3>3, <3>4 DEF AnswersRight
  <2> QED
    BY <2>3, <2>4
<1> QED
  BY <1>7, <1>8, <1>9

(* An iteratee that was under way calls back.                                *)
LEMMA CallIsRight ==
    ASSUME NEW e, NEW op, NEW an, NEW i, NEW heard, NEW r, NEW o, NEW td,
           Called(e, op, an, i, heard, r, o, td),
           NEW c, c = LoopCalls(e, r), NEW e2, e2 = AfterCall(c),
           NEW an2, an2 = an \o (Found(i, r)
                                  \o (IF c.calls /\ e.left THEN Answered(o, c.err) ELSE <<>>))
    PROVE  EachOK(e2, op \ {i}, o, td, an2)
<1>1. /\ EachTypeOK(e2, op \ {i}, o, td) /\ LoopRight(e2, op \ {i}, o, td)
      /\ e2.next = e.next /\ (e2.left <=> e.left /\ ~c.calls)
      /\ r = "error" => c.calls
  <2>1. CallDone(e, op, i, r, o, td, c, e2)
    BY CallLoops
  <2> QED
    BY <2>1 DEF CallDone
<1>2. GatheredRight(e2, op \ {i}, o, td)
  <2>1. e2.left => e.left /\ r # "error"
    BY <1>1
  <2> QED
    BY <1>1, <2>1, CallGathers
<1>3. AnswersRight(e2, o, td, an2)
  BY CallAnswers
<1> QED
  BY <1>1, <1>2, <1>3 DEF EachOK

(* The job is never changed.                                                 *)
LEMMA JobStays ==
    ASSUME job \in Jobs, job' = job, NEW e, NEW op, NEW o, NEW td, NEW an,
           EachOK(e, op, o, td, an),
           each' = e, open' = op, out' = o, told' = td, answers' = an
    PROVE  EachInv'
<1>1. job' \in Jobs
  BY DEF Jobs, JobOK
<1>2. EachTypeOK(e, op, o, td)'
  BY DEF EachOK, EachTypeOK
<1>3. LoopRight(e, op, o, td)'
  BY DEF EachOK, LoopRight, Limited, Series, ToldOf
<1>4. GatheredRight(e, op, o, td)'
  BY DEF EachOK, GatheredRight, YesOf, Series
<1>5. AnswersRight(e, o, td, an)'
  <2>1. \A a : RightAnswer(td, a) => RightAnswer(td, a)'
    BY DEF RightAnswer, YesOf, Series
  <2> QED
    BY <2>1 DEF EachOK, AnswersRight
<1> QED
  BY <1>1, <1>2, <1>3, <1>4, <1>5 DEF EachInv, EachOK

LEMMA CallStep ==
    ASSUME job \in Jobs, NEW e, NEW op, EachOK(e, op, out, told, answers), NEW i \in op,
           NEW heard \in Results, CalledBack(e, i, heard), job' = job, open' = op \ {i}
    PROVE  EachInv'
<1>1. PICK r, o, td : r = Passed(heard) /\ o = Consumed(i, r) /\ td = [told EXCEPT ![i] = heard]
  OBVIOUS
<1>2. PICK c : c = LoopCalls(e, r)
  OBVIOUS
<1>3. PICK e2 : e2 = AfterCall(c)
  OBVIOUS
<1>4. PICK an, an2 : an = answers
                     /\ an2 = an \o (Found(i, r)
                                     \o (IF c.calls /\ e.left THEN Answered(o, c.err) ELSE <<>>))
  OBVIOUS
<1>5. out' = o /\ each' = e2 /\ answers' = an2 /\ told' = td
  BY <1>1, <1>2, <1>3, <1>4 DEF CalledBack, LoopCalls, AfterCall
<1>6. Called(e, op, an, i, heard, r, o, td)
  BY <1>1, <1>4 DEF Called
<1>7. EachOK(e2, op \ {i}, o, td, an2)
  BY <1>2, <1>3, <1>4, <1>6, CallIsRight
<1> QED
  BY <1>5, <1>7, JobStays

(* The loop starts another iteratee.                                         *)
LEMMA StartIsRight ==
    ASSUME job \in Jobs, NEW e, NEW op, NEW an, EachOK(e, op, out, told, an),
           e.looping, e.next <= job.size, Limited => e.running < job.limit /\ ~e.done,
           NEW i, i = e.next, NEW e2, e2 = [e EXCEPT !.next = @ + 1, !.running = @ + 1]
    PROVE  EachOK(e2, op \cup {i}, out, told, an) /\ i \notin op
<1>1. /\ job.size \in Nat /\ job.size <= MaxElements /\ job.consumer \in Consumers
      /\ MaxElements \in Nat /\ (job.consumer = "reduce" => Series)
  BY JobIs
<1>2. /\ EachTypeOK(e, op, out, told) /\ LoopRight(e, op, out, told)
      /\ GatheredRight(e, op, out, told) /\ AnswersRight(e, out, told, an)
  BY DEF EachOK
<1>3. e \in LoopStates /\ 1 <= e.next /\ op \subseteq 1..(e.next - 1)
  BY <1>2 DEF EachTypeOK
<1>4. PICK n \in Nat, m \in Nat : n = e.next /\ m = e.running
  BY <1>3
<1>5. e2 = [next |-> n + 1, running |-> m + 1, completed |-> e.completed, done |-> e.done,
            looping |-> e.looping, left |-> e.left]
  BY <1>3, <1>4
<1>6. /\ e2 \in LoopStates /\ e2.next = n + 1 /\ e2.running = m + 1 /\ e2.completed = e.completed
      /\ e2.done = e.done /\ e2.looping = e.looping /\ e2.left = e.left
  <2>1. PICK n1 \in Nat, m1 \in Nat : n1 = n + 1 /\ m1 = m + 1
    OBVIOUS
  <2>0. PICK k \in Nat, d \in BOOLEAN, g \in BOOLEAN, l \in BOOLEAN :
            k = e.completed /\ d = e.done /\ g = e.looping /\ l = e.left
    BY <1>3
  <2>5. e2 = [next |-> n1, running |-> m1, completed |-> k, done |-> d, looping |-> g, left |-> l]
    BY <1>5, <2>0, <2>1
  <2>2. e2 \in LoopStates
    BY ONLY <2>5, n1 \in Nat, m1 \in Nat, k \in Nat, d \in BOOLEAN, g \in BOOLEAN,
            l \in BOOLEAN DEF LoopStates
  <2>6. e2.next = n1 /\ e2.running = m1 /\ e2.completed = k
    BY ONLY <2>5
  <2>3. e2.next = n + 1 /\ e2.running = m + 1 /\ e2.completed = e.completed
    BY <2>0, <2>1, <2>6
  <2>4. e2.done = e.done /\ e2.looping = e.looping /\ e2.left = e.left
    BY <1>5
  <2> QED
    BY <2>2, <2>3, <2>4
<1>7. /\ n \in 1..job.size /\ n \in 1..MaxElements /\ i = n /\ i \notin op
      /\ op \subseteq 1..(n - 1) /\ n + 1 <= job.size + 1
  BY <1>1, <1>3, <1>4
<1>8. IsFiniteSet(op) /\ Cardinality(op) \in Nat /\ Cardinality(op \cup {i}) = Cardinality(op) + 1
  <2>1. n - 1 \in Nat
    BY <1>7
  <2>2. IsFiniteSet(op) /\ Cardinality(op) \in Nat
    BY <1>7, <2>1, Ranks
  <2> QED
    BY <1>7, <2>2, FS_AddElement
<1>9. Series => op = {}
  <2> SUFFICES ASSUME Series PROVE op = {}
    OBVIOUS
  <2>1. Limited /\ job.limit = 1
    BY DEF Series, Limited
  <2>2. Cardinality(op) = 0
    BY <1>2, <1>4, <1>8, <2>1 DEF LoopRight
  <2> QED
    BY <1>8, <2>2, FS_EmptySet
<1>10. EachTypeOK(e2, op \cup {i}, out, told)
  <2>1. op \cup {i} \subseteq 1..(e2.next - 1)
    BY <1>6, <1>7
  <2>2. \A j \in 1..MaxElements : told[j] # Missing <=> j < e2.next /\ j \notin op \cup {i}
    <3> SUFFICES ASSUME NEW j \in 1..MaxElements
                 PROVE  told[j] # Missing <=> j < e2.next /\ j \notin op \cup {i}
      OBVIOUS
    <3>1. told[j] # Missing <=> j < n /\ j \notin op
      BY <1>2, <1>4 DEF EachTypeOK
    <3>2. j < n + 1 <=> j < n \/ j = n
      OBVIOUS
    <3> QED
      BY <1>6, <1>7, <3>1, <3>2
  <2>3. 1 <= e2.next /\ e2.next <= job.size + 1
    BY <1>6, <1>7
  <2> QED
    BY <1>2, <1>6, <2>1, <2>2, <2>3 DEF EachTypeOK
<1>11. LoopRight(e2, op \cup {i}, out, told)
  <2>1. ASSUME Limited
        PROVE  /\ e2.running = Cardinality(op \cup {i}) /\ e2.running <= job.limit
               /\ e2.left /\ e2.looping => ~e2.done
               /\ e2.left /\ e2.done => e2.next = job.size + 1
               /\ e2.left /\ ~e2.looping => IF e2.done THEN op \cup {i} # {}
                                            ELSE e2.running >= job.limit
               /\ ~out.cb => ~e2.left
               /\ Series => op \cup {i} \subseteq {e2.next - 1}
    <3>1. /\ e.running = Cardinality(op)
          /\ ~out.cb => ~e.left
      BY <1>2, <2>1 DEF LoopRight
    <3>2. Series => op \cup {i} \subseteq {e2.next - 1}
      <4>1. e2.next - 1 = n
        BY <1>6
      <4> QED
        BY <1>7, <1>9, <4>1
    <3>3. e2.running = Cardinality(op \cup {i}) /\ e2.running <= job.limit
      <4>1. job.limit \in Nat /\ m < job.limit
        BY <1>4, <2>1, JobIs
      <4> QED
        BY <1>4, <1>6, <1>8, <3>1, <4>1
    <3> QED
      BY <1>6, <2>1, <3>1, <3>2, <3>3
  <2>2. ASSUME ~Limited
        PROVE  /\ e2.left => /\ e2.completed = Cardinality(ToldOf(told))
                             /\ e2.completed < job.size \/ (job.size = 0 /\ e2.looping)
               /\ ~e2.looping => e2.next = job.size + 1
    BY <1>2, <1>6, <2>2 DEF LoopRight
  <2>3. ~(job.consumer = "detect" /\ ~e2.left /\ out.cb)
    <3>1. e.next # job.size + 1
      BY <1>4, <1>7
    <3> QED
      BY <1>2, <1>6, <3>1 DEF LoopRight
  <2> QED
    BY <2>1, <2>2, <2>3 DEF LoopRight
<1>12. GatheredRight(e2, op \cup {i}, out, told)
  <2>1. job.consumer = "reduce" /\ e2.left =>
          out.memo = [k \in 1..(e2.next - (IF op \cup {i} = {} THEN 1 ELSE 2)) |-> k]
    <3> SUFFICES ASSUME job.consumer = "reduce", e2.left
                 PROVE  out.memo = [k \in 1..(e2.next - (IF op \cup {i} = {} THEN 1 ELSE 2)) |-> k]
      OBVIOUS
    <3>1. out.memo = [k \in 1..(n - 1) |-> k]
      BY <1>1, <1>2, <1>4, <1>6, <1>9 DEF GatheredRight
    <3>2. op \cup {i} # {} /\ e2.next - 2 = n - 1
      BY <1>6
    <3> QED
      BY <3>1, <3>2
  <2> QED
    BY <1>2, <1>6, <2>1 DEF GatheredRight
<1>13. AnswersRight(e2, out, told, an)
  BY <1>2, <1>6 DEF AnswersRight
<1> QED
  BY <1>7, <1>10, <1>11, <1>12, <1>13 DEF EachOK

LEMMA IterateStep == ASSUME EachInv, Iterate PROVE EachInv'
<1>1. job \in Jobs /\ EachOK(each, open, out, told, answers)
  BY DEF EachInv
<1>2. PICK e, op, an, i : e = each /\ op = open /\ an = answers /\ i = e.next
  OBVIOUS
<1>3. PICK e1 : e1 = [e EXCEPT !.next = @ + 1, !.running = @ + 1]
  OBVIOUS
<1>4. PICK o, td : o = out /\ td = told
  OBVIOUS
<1>5. /\ e.looping /\ e.next <= job.size /\ (Limited => e.running < job.limit /\ ~e.done)
      /\ job' = job
  BY <1>2 DEF Iterate, MayStart, Limited
<1>6. EachOK(e1, op \cup {i}, out, told, an) /\ i \notin op
  BY <1>1, <1>2, <1>3, <1>5, StartIsRight
<1>7. \/ each' = e1 /\ open' = op \cup {i} /\ UNCHANGED <<out, told, answers>>
      \/ \E r \in Results : CalledBack(e1, i, r) /\ open' = open
  <2>1. "no" \in Results
    BY DEF Results
  <2> QED
    BY <1>2, <1>3, <2>1 DEF Iterate
<1>8. CASE each' = e1 /\ open' = op \cup {i} /\ UNCHANGED <<out, told, answers>>
  BY <1>1, <1>2, <1>4, <1>5, <1>6, <1>8, JobStays
<1>9. ASSUME NEW r \in Results, CalledBack(e1, i, r), open' = open PROVE EachInv'
  <2>1. (op \cup {i}) \ {i} = op
    BY <1>6
  <2>2. open' = (op \cup {i}) \ {i} /\ i \in op \cup {i}
    BY <1>2, <1>9, <2>1
  <2>3. EachOK(e1, op \cup {i}, out, told, answers)
    BY <1>2, <1>6
  <2> QED
    BY <1>1, <1>5, <1>9, <2>2, <2>3, CallStep
<1> QED
  BY <1>7, <1>8, <1>9

LEMMA CallbackStep == ASSUME EachInv, NEW i \in 1..MaxElements, Callback(i) PROVE EachInv'
<1>1. job \in Jobs /\ EachOK(each, open, out, told, answers)
  BY DEF EachInv
<1>2. PICK e, op : e = each /\ op = open
  OBVIOUS
<1>3. PICK r \in Results : CalledBack(e, i, r)
  BY <1>2 DEF Callback
<1>4. i \in op /\ open' = op \ {i} /\ job' = job
  BY <1>2 DEF Callback, OnlyOnce
<1> QED
  BY <1>1, <1>2, <1>3, <1>4, CallStep

(* The loop has nothing to take: what becomes of its state.                  *)
EndOf(c) == [c.e EXCEPT !.looping = FALSE, !.left = @ /\ ~c.calls]

LoopEnded(e, c, e2) ==
    /\ e2 \in LoopStates /\ e2.next = e.next /\ e2.running = e.running
    /\ e2.completed = e.completed /\ e2.looping = FALSE
    /\ (e2.left <=> e.left /\ ~c.calls)
    /\ ~Limited => (c.calls <=> job.size = 0)
    /\ Limited =>
          /\ e2.done <=> e.done \/ e.running < job.limit
          /\ c.calls <=> e.running < job.limit /\ ~e.done /\ e.running <= 0

LEMMA EndsAre ==
    ASSUME NEW e \in LoopStates, NEW c, c = Ends(e),
           NEW e2, e2 = EndOf(c)
    PROVE  LoopEnded(e, c, e2)
<1>1. PICK d, l : /\ d = IF Limited THEN e.done \/ (e.running < job.limit /\ ~e.done) ELSE e.done
                  /\ l = (e.left /\ ~c.calls)
  OBVIOUS
<1>2. d \in BOOLEAN /\ l \in BOOLEAN /\ (l <=> e.left /\ ~c.calls)
      /\ (Limited => (d <=> e.done \/ e.running < job.limit))
  <2>1. e.done \in BOOLEAN
    OBVIOUS
  <2>2. d \in BOOLEAN
    BY <1>1, <2>1, Zenon
  <2>3. l \in BOOLEAN /\ (l <=> e.left /\ ~c.calls)
    BY <1>1, Zenon
  <2>4. Limited => (d <=> e.done \/ e.running < job.limit)
    BY <1>1, <2>1, Zenon
  <2> QED
    BY <2>2, <2>3, <2>4
<1>3. PICK e1 : e1 = [next |-> e.next, running |-> e.running, completed |-> e.completed, done |-> d,
                      looping |-> e.looping, left |-> e.left]
  OBVIOUS
<1>4. /\ c.e = e1
      /\ ~Limited => (c.calls <=> job.size = 0)
      /\ Limited => (c.calls <=> e.running < job.limit /\ ~e.done /\ e.running <= 0)
  <2>1. CASE job.eachfn = "arrayLike"
    <3>1. ~Limited
      BY <2>1 DEF Limited
    <3>2. PICK u : u = (job.size = 0)
      OBVIOUS
    <3>3. c = [e |-> e, calls |-> u]
      BY <2>1, <3>2 DEF Ends
    <3>4. e = e1
      BY <1>1, <1>3, <3>1
    <3>5. c.e = e1 /\ c.calls = u
      BY <3>3, <3>4
    <3> QED
      BY <3>1, <3>2, <3>5, Zenon
  <2>2. CASE job.eachfn # "arrayLike"
    <3>1. Limited
      BY <2>2 DEF Limited
    <3>2. PICK u, t : /\ u = ((e.running < job.limit /\ ~e.done) /\ e.running <= 0)
                      /\ t = [e EXCEPT !.done = @ \/ (e.running < job.limit /\ ~e.done)]
      OBVIOUS
    <3>3. c = [e |-> t, calls |-> u]
      BY <2>2, <3>2 DEF Ends
    <3>4. t = e1
      BY <1>1, <1>3, <3>1, <3>2
    <3>5. c.e = e1 /\ c.calls = u
      BY <3>3, <3>4
    <3> QED
      BY <3>1, <3>2, <3>5, Zenon
  <2> QED
    BY <2>1, <2>2
<1>5. e2 = [next |-> e.next, running |-> e.running, completed |-> e.completed, done |-> d,
            looping |-> FALSE, left |-> l]
  <2>1. e2 = [e1 EXCEPT !.looping = FALSE, !.left = @ /\ ~c.calls]
    BY <1>4 DEF EndOf
  <2>2. l = (e1.left /\ ~c.calls)
    <3>1. e1.left = e.left
      BY <1>3
    <3> QED
      BY <1>1, <3>1
  <2>3. e2 = [e1 EXCEPT !.looping = FALSE, !.left = l]
    BY <2>1, <2>2
  <2> QED
    BY <1>3, <2>3
<1>6. /\ e2 \in LoopStates /\ e2.next = e.next /\ e2.running = e.running
      /\ e2.completed = e.completed /\ e2.looping = FALSE /\ e2.left = l /\ e2.done = d
  <2>1. e2 \in LoopStates
    BY <1>2, <1>5
  <2>2. e2.next = e.next /\ e2.running = e.running /\ e2.completed = e.completed
    BY <1>5
  <2>3. e2.looping = FALSE /\ e2.left = l /\ e2.done = d
    BY <1>5
  <2> QED
    BY <2>1, <2>2, <2>3
<1>7. Limited => (e2.done <=> e.done \/ e.running < job.limit)
  BY <1>2, <1>6, Zenon
<1>8. e2.left <=> e.left /\ ~c.calls
  BY <1>2, <1>6, Zenon
<1> QED
  BY <1>4, <1>6, <1>7, <1>8 DEF LoopEnded

LEMMA LoopEndsStep == ASSUME EachInv, LoopEnds PROVE EachInv'
<1>1. /\ job \in Jobs /\ EachOK(each, open, out, told, answers)
      /\ job' = job /\ open' = open /\ out' = out /\ told' = told
  BY DEF EachInv, LoopEnds
<1>2. PICK e, op, o, td, an : e = each /\ op = open /\ o = out /\ td = told /\ an = answers
  OBVIOUS
<1>3. PICK c : c = Ends(e)
  OBVIOUS
<1>4. PICK e2 : e2 = EndOf(c)
  OBVIOUS
<1>5. PICK last : last = IF c.calls /\ e.left THEN Answered(o, FALSE) ELSE <<>>
  OBVIOUS
<1>6. PICK an2 : an2 = an \o last
  OBVIOUS
<1>7. each' = e2 /\ answers' = an2
  BY <1>2, <1>3, <1>4, <1>5, <1>6 DEF LoopEnds, EndOf
<1>8. /\ job.size \in Nat /\ job.size <= MaxElements /\ job.consumer \in Consumers
      /\ MaxElements \in Nat /\ job.limit \in Nat \ {0}
  BY <1>1, JobIs
<1>9. /\ EachTypeOK(e, op, o, td) /\ LoopRight(e, op, o, td)
      /\ GatheredRight(e, op, o, td) /\ AnswersRight(e, o, td, an)
  BY <1>1, <1>2 DEF EachOK
<1>10. /\ e \in LoopStates /\ o \in OutStates /\ 1 <= e.next /\ e.next <= job.size + 1
       /\ op \subseteq 1..(e.next - 1)
       /\ td \in [1..MaxElements -> Results \cup {Missing}]
       /\ \A i \in 1..MaxElements : td[i] # Missing <=> i < e.next /\ i \notin op
       /\ job.consumer # "detect" => o.cb
  BY <1>9 DEF EachTypeOK
<1>11. PICK n \in Nat, m \in Nat : n = e.next /\ m = e.running
  BY <1>10
<1>12. /\ e.looping
       /\ ~Limited => n = job.size + 1
       /\ Limited /\ m < job.limit /\ ~e.done => n = job.size + 1
  <2>1. e.looping /\ ~(e.next <= job.size /\ (~Limited \/ (e.running < job.limit /\ ~e.done)))
    BY <1>2 DEF LoopEnds, MayStart, Limited
  <2>2. ~(n <= job.size) => n = job.size + 1
    BY <1>8, <1>10, <1>11
  <2> QED
    BY <1>11, <2>1, <2>2
<1>13. /\ e2 \in LoopStates /\ e2.next = e.next /\ e2.running = e.running
       /\ e2.completed = e.completed /\ e2.looping = FALSE
       /\ (e2.left <=> e.left /\ ~c.calls)
       /\ ~Limited => (c.calls <=> job.size = 0)
       /\ Limited =>
             /\ e2.done <=> e.done \/ e.running < job.limit
             /\ c.calls <=> e.running < job.limit /\ ~e.done /\ e.running <= 0
  <2>1. LoopEnded(e, c, e2)
    BY <1>3, <1>4, <1>10, EndsAre
  <2> QED
    BY <2>1 DEF LoopEnded
<1>14. IsFiniteSet(op) /\ Cardinality(op) \in Nat /\ (Cardinality(op) = 0 <=> op = {})
  <2>1. n - 1 \in Nat /\ op \subseteq 1..(n - 1)
    BY <1>10, <1>11
  <2> QED
    BY <2>1, Ranks, FS_EmptySet
<1>15. c.calls => op = {} /\ e.next = job.size + 1
  <2>1. CASE Limited
    <3>1. c.calls => m = 0 /\ n = job.size + 1
      BY <1>11, <1>12, <1>13, <2>1
    <3>2. m = Cardinality(op)
      BY <1>9, <1>11, <2>1 DEF LoopRight
    <3> QED
      BY <1>11, <1>14, <3>1, <3>2
  <2>2. CASE ~Limited
    <3>1. n = job.size + 1 /\ (c.calls => job.size = 0)
      BY <1>12, <1>13, <2>2
    <3>2. c.calls => n - 1 = 0 /\ op \subseteq 1..(n - 1)
      BY <1>10, <1>11, <3>1
    <3> QED
      BY <1>11, <3>1, <3>2
  <2> QED
    BY <2>1, <2>2
<1>16. EachTypeOK(e2, op, o, td)
  BY <1>9, <1>13 DEF EachTypeOK
<1>17. LoopRight(e2, op, o, td)
  <2>1. ASSUME Limited
        PROVE  /\ e2.running = Cardinality(op) /\ e2.running <= job.limit
               /\ e2.left /\ e2.looping => ~e2.done
               /\ e2.left /\ e2.done => e2.next = job.size + 1
               /\ e2.left /\ ~e2.looping => IF e2.done THEN op # {} ELSE e2.running >= job.limit
               /\ ~o.cb => ~e2.left
               /\ Series => op \subseteq {e2.next - 1}
    <3>1. /\ m = Cardinality(op) /\ m <= job.limit /\ (e.left => ~e.done) /\ (~o.cb => ~e.left)
          /\ Series => op \subseteq {e.next - 1}
      BY <1>9, <1>11, <1>12, <2>1 DEF LoopRight
    <3>2. e2.left /\ e2.done => e2.next = job.size + 1
      BY <1>11, <1>12, <1>13, <2>1, <3>1
    <3>3. e2.left /\ e2.done => op # {}
      <4>1. e2.left /\ e2.done => ~(m <= 0)
        BY <1>11, <1>13, <2>1, <3>1
      <4> QED
        BY <1>14, <3>1, <4>1
    <3>4. ~e2.done => e2.running >= job.limit
      <4>1. ~e2.done => ~(m < job.limit)
        BY <1>11, <1>13, <2>1
      <4> QED
        BY <1>8, <1>11, <1>13, <4>1
    <3> QED
      BY <1>11, <1>13, <3>1, <3>2, <3>3, <3>4
  <2>2. ASSUME ~Limited
        PROVE  /\ e2.left => /\ e2.completed = Cardinality(ToldOf(td))
                             /\ e2.completed < job.size \/ (job.size = 0 /\ e2.looping)
               /\ ~e2.looping => e2.next = job.size + 1
    <3>1. e.left => /\ e.completed = Cardinality(ToldOf(td))
                    /\ e.completed < job.size \/ (job.size = 0 /\ e.looping)
      BY <1>9, <2>2 DEF LoopRight
    <3> QED
      BY <1>11, <1>12, <1>13, <2>2, <3>1
  <2>3. job.consumer = "detect" /\ ~e2.left /\ o.cb => op = {} /\ e2.next = job.size + 1
    BY <1>9, <1>13, <1>15 DEF LoopRight
  <2> QED
    BY <2>1, <2>2, <2>3 DEF LoopRight
<1>18. GatheredRight(e2, op, o, td)
  BY <1>9, <1>13 DEF GatheredRight
<1>19. AnswersRight(e2, o, td, an2)
  <2>1. CASE ~(e.left /\ o.cb)
    <3>1. last = <<>>
      BY <1>5, <1>10, <2>1 DEF Answered
    <3>2. PICK a : a = an[1]
      OBVIOUS
    <3>3. an = <<a>> /\ RightAnswer(td, a)
      BY <1>9, <2>1, <3>2 DEF AnswersRight
    <3>4. <<a>> \o <<>> = <<a>> /\ <<a>>[1] = a
      <4>1. <<a>> \in Seq({a})
        OBVIOUS
      <4> QED
        BY <4>1, ConcatEmptySeq
    <3>5. an2 = <<a>> /\ an2[1] = a
      BY <1>6, <3>1, <3>3, <3>4
    <3> QED
      BY <1>13, <2>1, <3>3, <3>5 DEF AnswersRight
  <2>2. CASE e.left /\ o.cb /\ ~c.calls
    <3>1. an = <<>> /\ last = <<>>
      BY <1>5, <1>9, <2>2 DEF AnswersRight
    <3>2. an2 = <<>>
      BY <1>6, <3>1
    <3> QED
      BY <1>13, <2>2, <3>2 DEF AnswersRight
  <2>3. CASE e.left /\ o.cb /\ c.calls
    <3>1. PICK a : a = [error |-> FALSE, value |-> Outcome(o)]
      OBVIOUS
    <3>2. an = <<>> /\ last = <<a>>
      BY <1>5, <1>9, <2>3, <3>1 DEF AnswersRight, Answered
    <3>3. an2 = <<a>> /\ an2[1] = a
      BY <1>6, <3>2, OneAnswer
    <3>4. GatheredRight(e, {}, o, td) /\ e.next = job.size + 1
      BY <1>9, <1>15, <2>3
    <3>5. \A i \in 1..job.size : td[i] # Missing
      <4> SUFFICES ASSUME NEW i \in 1..job.size PROVE td[i] # Missing
        OBVIOUS
      <4>1. i \in 1..MaxElements /\ i < e.next /\ i \notin op
        BY <1>8, <1>15, <2>3
      <4> QED
        BY <1>10, <4>1
    <3>6. RightAnswer(td, a)
      BY <1>1, <1>10, <2>3, <3>1, <3>4, <3>5, OutcomeIsRight
    <3> QED
      BY <1>13, <2>3, <3>3, <3>6 DEF AnswersRight
  <2> QED
    BY <2>1, <2>2, <2>3
<1>20. EachOK(e2, op, o, td, an2)
  BY <1>16, <1>17, <1>18, <1>19 DEF EachOK
<1> QED
  BY <1>1, <1>2, <1>7, <1>20, JobStays

LEMMA InitEach == EachInit => EachInv
<1> SUFFICES ASSUME EachInit PROVE EachInv
  OBVIOUS
<1>1. PICK e, o, td : e = each /\ o = out /\ td = told
  OBVIOUS
<1>2. /\ job \in Jobs /\ open = {} /\ answers = <<>>
      /\ e = [next |-> 1, running |-> 0, completed |-> 0, done |-> FALSE, looping |-> TRUE,
              left |-> TRUE]
      /\ o = [at |-> [i \in 1..MaxElements |-> Missing], list |-> <<>>, memo |-> <<>>, cb |-> TRUE]
      /\ td = [i \in 1..MaxElements |-> Missing]
  BY <1>1 DEF EachInit
<1>3. /\ job.size \in Nat /\ job.size <= MaxElements /\ job.consumer \in Consumers
      /\ MaxElements \in Nat /\ job.limit \in Nat \ {0}
  BY <1>2, JobIs
<1>4. /\ e \in LoopStates /\ e.next = 1 /\ e.running = 0 /\ e.completed = 0 /\ e.done = FALSE
      /\ e.looping = TRUE /\ e.left = TRUE
  BY <1>2
<1>5. o \in OutStates /\ o.cb = TRUE /\ o.list = <<>> /\ o.memo = <<>> /\ o.at = td
  BY <1>2
<1>6. /\ td \in [1..MaxElements -> Results \cup {Missing}]
      /\ \A i \in 1..MaxElements : td[i] = Missing
      /\ \A i \in 1..job.size : td[i] = Missing
  BY <1>2, <1>3
<1>7. EachTypeOK(e, {}, o, td)
  <2>1. \A i \in 1..MaxElements : td[i] # Missing <=> i < e.next /\ i \notin {}
    BY <1>4, <1>6
  <2> QED
    BY <1>3, <1>4, <1>5, <1>6, <2>1 DEF EachTypeOK
<1>8. ToldOf(td) = {} /\ YesOf(td) = {}
  BY <1>6 DEF ToldOf, YesOf, Missing
<1>9. Cardinality({}) = 0
  BY FS_EmptySet
<1>10. LoopRight(e, {}, o, td)
  BY <1>3, <1>4, <1>5, <1>8, <1>9 DEF LoopRight
<1>11. GatheredRight(e, {}, o, td)
  <2>1. IsInjective(o.list) /\ ToSet(o.list) = {} /\ Increasing(o.list)
    <3>1. DOMAIN <<>> = {}
      OBVIOUS
    <3> QED
      BY <1>5, <3>1 DEF IsInjective, ToSet, Increasing
  <2>2. \A i \in 1..job.size : td[i] # "error" /\ td[i] \in {Missing, "no"}
    BY <1>6 DEF Missing
  <2>3. o.memo = [k \in 1..(e.next - (IF {} = {} THEN 1 ELSE 2)) |-> k]
    <3>1. [k \in 1..0 |-> k] \in Seq(Nat) /\ Len([k \in 1..0 |-> k]) = 0
      OBVIOUS
    <3>2. [k \in 1..0 |-> k] = <<>>
      BY <3>1, EmptySeq
    <3>3. e.next - (IF {} = {} THEN 1 ELSE 2) = 0
      BY <1>4
    <3> QED
      BY <1>5, <3>2, <3>3
  <2> QED
    BY <1>5, <1>8, <2>1, <2>2, <2>3 DEF GatheredRight
<1>12. AnswersRight(e, o, td, <<>>)
  BY <1>4, <1>5 DEF AnswersRight
<1> QED
  BY <1>1, <1>2, <1>7, <1>10, <1>11, <1>12 DEF EachInv, EachOK

LEMMA NextEach == EachInv /\ [EachNext]_eachVars => EachInv'
<1> SUFFICES ASSUME EachInv, [EachNext]_eachVars PROVE EachInv'
  OBVIOUS
<1>1. CASE Iterate
  BY <1>1, IterateStep
<1>2. CASE LoopEnds
  BY <1>2, LoopEndsStep
<1>3. CASE \E i \in 1..MaxElements : Callback(i)
  BY <1>3, CallbackStep
<1>4. CASE UNCHANGED eachVars
  <2>1. PICK e, op, o, td, an :
            e = each /\ op = open /\ o = out /\ td = told /\ an = answers
    OBVIOUS
  <2> QED
    BY <1>4, <2>1, JobStays DEF EachInv, eachVars
<1> QED
  BY <1>1, <1>2, <1>3, <1>4 DEF EachNext

LEMMA EachInvGives == EachInv => EachIsRight
<1> SUFFICES ASSUME EachInv PROVE EachIsRight
  OBVIOUS
<1>1. /\ EachTypeOK(each, open, out, told) /\ LoopRight(each, open, out, told)
      /\ AnswersRight(each, out, told, answers) /\ job \in Jobs
  BY DEF EachInv, EachOK
<1>2. /\ job.size \in Nat /\ job.size <= MaxElements /\ job.consumer \in Consumers
      /\ MaxElements \in Nat /\ job.limit \in Nat \ {0} /\ (~Limited => job.limit = MaxElements + 1)
  BY <1>1, JobIs
<1>3. PICK n \in Nat : n = each.next
  BY <1>1 DEF EachTypeOK
<1>4. n >= 1 /\ n <= job.size + 1 /\ open \subseteq 1..(n - 1)
  BY <1>1, <1>3 DEF EachTypeOK
<1>5. IsFiniteSet(open) /\ Cardinality(open) \in Nat /\ Cardinality(open) <= job.size
  <2>1. PICK m \in Nat : m = n - 1 /\ open \subseteq 1..m /\ m <= job.size
    BY <1>2, <1>3, <1>4
  <2>2. IsFiniteSet(1..m) /\ Cardinality(1..m) = m
    BY FS_Interval
  <2>3. Cardinality(open) <= m
    <3>1. open \in SUBSET (1..m)
      BY <2>1
    <3>2. Cardinality(open) <= Cardinality(1..m)
      BY <2>2, <3>1, FS_Subset
    <3> QED
      BY <2>2, <3>2
  <2>4. IsFiniteSet(open) /\ Cardinality(open) \in Nat
    BY <2>1, Ranks
  <2> QED
    BY <1>2, <2>1, <2>3, <2>4
<1>6. Cardinality(open) <= job.limit
  <2>1. CASE Limited
    BY <1>1, <2>1 DEF LoopRight
  <2>2. CASE ~Limited
    BY <1>2, <1>5, <2>2
  <2> QED
    BY <2>1, <2>2
<1>7. CASE each.left /\ out.cb
  <2>1. answers = <<>>
    BY <1>1, <1>7 DEF AnswersRight
  <2>2. ~(open = {} /\ ~each.looping)
    <3> SUFFICES ASSUME open = {}, ~each.looping PROVE FALSE
      OBVIOUS
    <3>1. Cardinality(open) = 0
      BY FS_EmptySet
    <3>2. CASE Limited
      <4>1. each.running = 0 /\ each.running >= job.limit
        BY <1>1, <1>7, <3>1, <3>2 DEF LoopRight
      <4> QED
        BY <1>2, <4>1
    <3>3. CASE ~Limited
      <4>1. n = job.size + 1 /\ each.completed = Cardinality(ToldOf(told)) /\ each.completed < job.size
        BY <1>1, <1>3, <1>7, <3>3 DEF LoopRight
      <4>2. ToldOf(told) = 1..job.size
        <5>1. ASSUME NEW i \in 1..job.size PROVE told[i] # Missing
          <6>1. i \in 1..MaxElements /\ i < each.next /\ i \notin open
            BY <1>2, <1>3, <4>1
          <6> QED
            BY <1>1, <6>1 DEF EachTypeOK
        <5> QED
          BY <5>1 DEF ToldOf
      <4>3. PICK s \in Nat : s = job.size
        BY <1>2
      <4>4. Cardinality(1..s) = s
        BY FS_Interval
      <4> QED
        BY <4>1, <4>2, <4>3, <4>4
    <3> QED
      BY <3>2, <3>3
  <2>3. Len(answers) = 0 /\ DOMAIN answers = {}
    BY <2>1
  <2> QED
    BY <1>6, <2>2, <2>3 DEF EachIsRight
<1>8. CASE ~(each.left /\ out.cb)
  <2>1. PICK a : a = answers[1]
    OBVIOUS
  <2>2. answers = <<a>> /\ RightAnswer(told, a)
    BY <1>1, <1>8, <2>1 DEF AnswersRight
  <2>3. Len(answers) = 1 /\ DOMAIN answers = {1} /\ answers[1] = a
    BY <2>2
  <2>4. a.error => \E i \in 1..job.size : told[i] = "error"
    BY <2>2 DEF RightAnswer
  <2>5. ~a.error => Right(a.value)
    <3> SUFFICES ASSUME ~a.error PROVE Right(a.value)
      OBVIOUS
    <3>1. PICK v : v = a.value
      OBVIOUS
    <3>2. /\ job.consumer # "detect" => AllTold
          /\ job.consumer = "map" => v = [i \in 1..job.size |-> told[i]]
          /\ job.consumer \in {"filterArray", "filterGeneric", "concat"} =>
                /\ IsInjective(v) /\ ToSet(v) = YesOf(told)
                /\ Series \/ (job.consumer # "concat" /\ ~job.named) => Increasing(v)
          /\ job.consumer = "reduce" => v = [i \in 1..job.size |-> i]
          /\ job.consumer = "detect" =>
                \/ v = <<>> /\ \A i \in 1..job.size : told[i] = "no"
                \/ \E i \in 1..job.size : /\ v = <<i>> /\ told[i] = "yes"
                                          /\ Series => \A j \in 1..(i - 1) : told[j] = "no"
      BY <2>2, <3>1 DEF RightAnswer, AllTold
    <3>3. YesOf(told) = Chosen
      BY DEF YesOf, Chosen
    <3>4. CASE job.consumer = "detect"
      <4>1. CASE v = <<>> /\ \A i \in 1..job.size : told[i] = "no"
        <5>1. AllTold /\ Chosen = {}
          BY <4>1 DEF AllTold, Chosen
        <5> QED
          BY <3>1, <3>4, <4>1, <5>1 DEF Right
      <4>2. ASSUME NEW i \in 1..job.size, v = <<i>>, told[i] = "yes",
                   Series => \A j \in 1..(i - 1) : told[j] = "no"
            PROVE  Right(v)
        <5>1. v[1] = i /\ v # <<>> /\ i \in Chosen
          <6>1. Len(<<i>>) = 1 /\ Len(<<>>) = 0
            OBVIOUS
          <6> QED
            BY <4>2, <6>1 DEF Chosen
        <5>2. Series => \A j \in Chosen : i <= j
          <6> SUFFICES ASSUME Series, NEW j \in Chosen, ~(i <= j) PROVE FALSE
            OBVIOUS
          <6>1. j \in 1..job.size /\ told[j] = "yes"
            BY DEF Chosen
          <6>2. j \in 1..(i - 1)
            BY <1>2, <6>1
          <6> QED
            BY <4>2, <6>1, <6>2
        <5> QED
          BY <3>4, <5>1, <5>2 DEF Right
      <4> QED
        BY <3>1, <3>2, <3>4, <4>1, <4>2
    <3>5. CASE job.consumer # "detect"
      <4>1. CASE job.consumer = "map"
        BY <3>1, <3>2, <4>1 DEF Right
      <4>2. CASE job.consumer = "reduce"
        BY <3>1, <3>2, <4>2 DEF Right
      <4>3. CASE job.consumer \in {"filterArray", "filterGeneric", "concat"}
        BY <3>1, <3>2, <3>3, <4>3 DEF Right
      <4> QED
        BY <1>2, <3>5, <4>1, <4>2, <4>3 DEF Consumers
    <3> QED
      BY <3>4, <3>5
  <2> QED
    BY <1>6, <2>3, <2>4, <2>5 DEF EachIsRight
<1> QED
  BY <1>7, <1>8

(* The iterators of async give their final callback, once, what a loop       *)
(* without callbacks would give, however their iteratees interleave          *)
(* (aidos.js 5389-5440, 5606-5660, 7777-7830).                               *)
THEOREM IteratorsAnswerOnce == EachSpec => []EachIsRight
<1>1. EachSpec => []EachInv
  BY InitEach, NextEach, PTL DEF EachSpec
<1> QED
  BY <1>1, EachInvGives, PTL
=============================================================================
