----------------------------- MODULE NodeProofs -----------------------------
(* The parts of Node.js in the bundle, however many functions, listeners and *)
(* types of events there are and however deep the calls nest.                *)
(*                                                                           *)
(* EventEmitter.  An emit owes what was registered when it began, is still   *)
(* registered and has not been called; what it owes is in its copy, ahead.   *)
(* The list a removal of all empties is the emitter's for the type, or one   *)
(* dropped as it was, or empty; and of two removals for a type the later one *)
(* has the emitter's list if the earlier one has: when the later one ends    *)
(* and takes the type's list away, the earlier one's is not that list.       *)
(*                                                                           *)
(* nextTick is a fifo.  Functions are numbered as they come.  Those that ran *)
(* are the first Len(ran); the one that runs next is at queueIndex + 1 of    *)
(* currentQueue, and the rest of currentQueue, then queue, hold the later    *)
(* ones without a gap.  No flag or timer has a part in this but one: while   *)
(* nothing is draining, currentQueue is empty.                               *)
EXTENDS Ticks, Events, SequenceTheorems, FiniteSetTheorems, WellFoundedInduction, TLAPS

(* EventEmitter.                                                             *)
Function == [listener : Listeners, once : Nat]
Kinds == {"body", "emit", "add", "once", "clear", "all"}
Frames == [ kind : Kinds, type : EventTypes \cup {"none"}, fns : Seq(Function), list : Nat,
            kept : SUBSET Function, called : SUBSET Function, pos : Nat \ {0},
            types : Seq(EventTypes) ]

(* A list is one type's, and is not empty while it is.                       *)
EmitterOK(em) ==
    /\ em \in [events : [EventTypes -> Nat], heap : Seq(Seq(Function)), dropped : SUBSET Nat]
    /\ \A t \in EventTypes : em.events[t] # 0 =>
          em.events[t] <= Len(em.heap) /\ em.heap[em.events[t]] # <<>>
    /\ \A t, u \in EventTypes : em.events[t] # 0 /\ em.events[t] = em.events[u] => t = u

(* An emit still has to call what it has not called and is registered since  *)
(* its start.  Who empties a list has the emitter's, one that was dropped as *)
(* it was, or an empty one.                                                  *)
Owes(f) == \A fn \in f.kept : fn \in f.called \/ \E j \in DOMAIN f.fns : f.pos <= j /\ f.fns[j] = fn

Empties(em, f) ==
    f.list # 0 => /\ f.list <= Len(em.heap)
                  /\ \/ em.events[f.type] = f.list
                     \/ f.list \in em.dropped
                     \/ em.heap[f.list] = <<>>

FrameOK(em, f) ==
    /\ f \in Frames
    /\ f.kind \in {"emit", "add", "once", "clear"} => f.type \in EventTypes
    /\ f.kind \in {"add", "once"} => f.fns # <<>>
    /\ f.kind = "emit" => Owes(f)
    /\ f.kind = "clear" => Empties(em, f)

(* Of two that empty lists of a type, the upper one, which came later, has   *)
(* the emitter's list if the lower one has.                                  *)
InTurn(em, lower, upper) ==
    lower.kind = "clear" /\ upper.kind = "clear" /\ lower.type = upper.type /\ lower.list # 0
       /\ em.events[lower.type] = lower.list => upper.list = lower.list

StackOK(em, stk) ==
    /\ stk \in Seq(Frames)
    /\ \A k \in 1..Len(stk) : FrameOK(em, stk[k]) /\ (k = 1 => stk[k].kind = "body")
    /\ \A j, k \in 1..Len(stk) : j < k => InTurn(em, stk[j], stk[k])

HistoryRight ==
    /\ history \in [calls : Nat, runs : Seq(Nat), missed : {FALSE}, spinning : BOOLEAN]
    /\ \A k \in DOMAIN history.runs : history.runs[k] = 0 \/ (history.runs[k] = 1 /\ k \in fired)
    /\ history.spinning => Top.kind = "clear" /\ Top.list \in emitter.dropped

EventsInv == EmitterOK(emitter) /\ StackOK(emitter, stack) /\ stack # <<>> /\ HistoryRight

-----------------------------------------------------------------------------
(* Numbers up to a bound have a greatest one among them.                     *)
LEMMA Greatest ==
    ASSUME NEW n \in Nat, NEW T, T \subseteq 1..n, T # {}
    PROVE  \E x \in T : \A y \in T : y <= x
<1> DEFINE Less == OpToRel(<, Nat)
           Above == {n - x : x \in T}
<1>1. IsWellFoundedOn(Less, Nat)
  BY NatLessThanWellFounded
<1>2. \A x, y \in Nat : x < y => <<x, y>> \in Less
  BY DEF OpToRel
<1>3. Above \subseteq Nat /\ Above # {}
  <2>1. \A x \in T : n - x \in Nat
    OBVIOUS
  <2>2. PICK x \in T : TRUE
    OBVIOUS
  <2> QED
    BY <2>1, <2>2
<1> HIDE DEF Less, Above
<1>4. PICK m \in Above : \A k \in Above : ~ (<<k, m>> \in Less)
  BY <1>1, <1>3, WFMin
<1>5. PICK x \in T : m = n - x
  BY <1>4 DEF Above
<1>6. ASSUME NEW y \in T PROVE y <= x
  <2>1. n - y \in Above /\ n - y \in Nat /\ m \in Nat /\ x \in Nat /\ y \in Nat
    BY <1>3, <1>4 DEF Above
  <2>2. ~ (n - y < m)
    BY <1>2, <1>4, <2>1
  <2> QED
    BY <1>5, <2>1, <2>2
<1> QED
  BY <1>6

LEMMA WithoutOne ==
    ASSUME NEW S, NEW s \in Seq(S), NEW k \in 1..Len(s)
    PROVE  RemoveAt(s, k) \in Seq(S) /\ Len(RemoveAt(s, k)) = Len(s) - 1
<1>1. Len(s) \in Nat
  BY LenProperties
<1>2. PICK m \in Int : m = k - 1
  BY <1>1
<1>3. PICK n \in Int : n = k + 1
  BY <1>1
<1>4. PICK z \in Nat : z = Len(s)
  BY <1>1
<1>5. \A j \in 1..Len(s) : s[j] \in S
  BY ElementOfSeq
<1>6. PICK u : u = SubSeq(s, 1, m)
  OBVIOUS
<1>7. PICK w : w = SubSeq(s, n, z)
  OBVIOUS
<1>8. u \in Seq(S) /\ Len(u) = k - 1
  <2>1. \A j \in 1..m : s[j] \in S
    BY <1>1, <1>2, <1>5
  <2>2. u \in Seq(S) /\ Len(u) = IF 1 <= m THEN m - 1 + 1 ELSE 0
    BY <1>6, <2>1, SubSeqProperties
  <2> QED
    BY <1>1, <1>2, <2>2
<1>9. w \in Seq(S) /\ Len(w) = z - k
  <2>1. \A j \in n..z : s[j] \in S
    BY <1>1, <1>3, <1>4, <1>5
  <2>2. w \in Seq(S) /\ Len(w) = IF n <= z THEN z - n + 1 ELSE 0
    BY <1>7, <2>1, SubSeqProperties
  <2> QED
    BY <1>1, <1>3, <1>4, <2>2
<1>10. RemoveAt(s, k) = u \o w
  BY <1>2, <1>3, <1>4, <1>6, <1>7 DEF RemoveAt
<1>11. u \o w \in Seq(S) /\ Len(u \o w) = Len(u) + Len(w)
  BY <1>8, <1>9, ConcatProperties
<1> QED
  BY <1>1, <1>4, <1>8, <1>9, <1>10, <1>11

-----------------------------------------------------------------------------
(* The stack.                                                                *)
LEMMA StackAppend ==
    ASSUME NEW em, NEW stk, StackOK(em, stk), stk # <<>>, NEW f, FrameOK(em, f),
           f.kind = "clear" => f.list = em.events[f.type]
    PROVE  StackOK(em, Append(stk, f)) /\ Append(stk, f) # <<>>
<1>1. stk \in Seq(Frames) /\ f \in Frames /\ Len(stk) \in Nat /\ Len(stk) # 0
  BY EmptySeq, LenProperties DEF StackOK, FrameOK
<1>2. PICK t : t = Append(stk, f)
  OBVIOUS
<1>3. /\ t \in Seq(Frames) /\ t # <<>> /\ Len(t) = Len(stk) + 1
      /\ \A k \in 1..Len(stk) : t[k] = stk[k]
      /\ t[Len(stk) + 1] = f
  BY <1>1, <1>2, AppendProperties
<1>4. \A k \in 1..Len(t) : k \in 1..Len(stk) \/ (k = Len(stk) + 1 /\ k # 1)
  BY <1>1, <1>3
<1>5. \A j, k \in 1..Len(t) : j < k => j \in 1..Len(stk)
  BY <1>1, <1>3
<1>6. ASSUME NEW k \in 1..Len(t) PROVE FrameOK(em, t[k]) /\ (k = 1 => t[k].kind = "body")
  <2>1. CASE k \in 1..Len(stk)
    BY <1>3, <2>1 DEF StackOK
  <2>2. CASE k = Len(stk) + 1 /\ k # 1
    BY <1>3, <2>2
  <2> QED
    BY <1>4, <2>1, <2>2
<1>7. ASSUME NEW j \in 1..Len(t), NEW k \in 1..Len(t), j < k PROVE InTurn(em, t[j], t[k])
  <2>1. CASE k \in 1..Len(stk)
    BY <1>3, <1>5, <1>7, <2>1 DEF StackOK
  <2>2. CASE k = Len(stk) + 1
    BY <1>3, <2>2 DEF InTurn
  <2> QED
    BY <1>4, <2>1, <2>2
<1> QED
  BY <1>2, <1>3, <1>6, <1>7 DEF StackOK

LEMMA StackFront ==
    ASSUME NEW em, NEW stk, StackOK(em, stk), stk # <<>>
    PROVE  /\ StackOK(em, Front(stk)) /\ FrameOK(em, Last(stk))
           /\ Last(stk).kind # "body" => Front(stk) # <<>>
           /\ \A k \in 1..Len(Front(stk)) :
                 FrameOK(em, Front(stk)[k]) /\ InTurn(em, Front(stk)[k], Last(stk))
<1>1. stk \in Seq(Frames) /\ Len(stk) \in Nat /\ Len(stk) # 0
  BY EmptySeq, LenProperties DEF StackOK
<1>2. PICK n \in Nat : n = Len(stk) - 1
  BY <1>1
<1>3. PICK t : t = SubSeq(stk, 1, n)
  OBVIOUS
<1>4. /\ t \in Seq(Frames) /\ Len(t) = n
      /\ \A k \in 1..n : t[k] = stk[k]
  <2>1. \A k \in 1..n : stk[k] \in Frames
    BY <1>1, <1>2, ElementOfSeq
  <2>2. /\ t \in Seq(Frames) /\ Len(t) = IF 1 <= n THEN n - 1 + 1 ELSE 0
        /\ \A k \in 1..(n - 1 + 1) : t[k] = stk[1 + k - 1]
    BY <1>3, <2>1, SubSeqProperties
  <2> QED
    BY <1>2, <2>2
<1>5. t = Front(stk)
  BY <1>2, <1>3 DEF Front
<1>6. /\ \A k \in 1..n : k \in 1..Len(stk) /\ k < n + 1
      /\ n + 1 \in 1..Len(stk) /\ n + 1 = Len(stk)
  BY <1>1, <1>2
<1>7. Last(stk) = stk[n + 1]
  BY <1>6 DEF Last
<1>8. \A k \in 1..n : FrameOK(em, t[k]) /\ (k = 1 => t[k].kind = "body") /\ InTurn(em, t[k], stk[n + 1])
  BY <1>4, <1>6 DEF StackOK
<1>9. \A j, k \in 1..n : j < k => InTurn(em, t[j], t[k])
  BY <1>4, <1>6 DEF StackOK
<1>10. FrameOK(em, stk[n + 1]) /\ (n = 0 => stk[n + 1].kind = "body")
  BY <1>6 DEF StackOK
<1>11. n # 0 => t # <<>>
  BY <1>4, EmptySeq
<1> QED
  BY <1>4, <1>5, <1>7, <1>8, <1>9, <1>10, <1>11 DEF StackOK

(* What the emitter may do while others hold its lists.                      *)
Moves(em, em2) ==
    /\ Len(em.heap) <= Len(em2.heap) /\ em.dropped \subseteq em2.dropped
    /\ \A t \in EventTypes :
          /\ em2.events[t] \in {0, em.events[t]} \/ em2.events[t] > Len(em.heap)
          /\ em.events[t] # 0 => \/ em2.events[t] = em.events[t]
                                 \/ em.events[t] \in em2.dropped
                                 \/ em2.heap[em.events[t]] = <<>>
    /\ \A l \in 1..Len(em.heap) : em.heap[l] = <<>> => em2.heap[l] = <<>>

LEMMA StackMoves ==
    ASSUME NEW em, NEW em2, EmitterOK(em), EmitterOK(em2), Moves(em, em2),
           NEW stk, StackOK(em, stk)
    PROVE  StackOK(em2, stk)
<1>1. Len(em.heap) \in Nat /\ Len(em2.heap) \in Nat
  BY LenProperties DEF EmitterOK
<1>2. ASSUME NEW k \in 1..Len(stk), stk[k].kind = "clear" PROVE Empties(em2, stk[k])
  <2>1. /\ stk[k] \in Frames /\ stk[k].list \in Nat /\ stk[k].type \in EventTypes
        /\ Empties(em, stk[k])
    BY <1>2 DEF StackOK, FrameOK, Frames
  <2> SUFFICES ASSUME stk[k].list # 0
               PROVE  /\ stk[k].list <= Len(em2.heap)
                      /\ \/ em2.events[stk[k].type] = stk[k].list
                         \/ stk[k].list \in em2.dropped
                         \/ em2.heap[stk[k].list] = <<>>
    BY DEF Empties
  <2>2. stk[k].list \in 1..Len(em.heap)
    BY <1>1, <2>1 DEF Empties
  <2>3. stk[k].list <= Len(em2.heap)
    BY <1>1, <2>1, <2>2 DEF Moves
  <2> QED
    BY <2>1, <2>2, <2>3 DEF Empties, Moves
<1>3. ASSUME NEW j \in 1..Len(stk), NEW k \in 1..Len(stk), j < k
      PROVE  InTurn(em2, stk[j], stk[k])
  <2> SUFFICES ASSUME stk[j].kind = "clear", stk[k].kind = "clear", stk[j].type = stk[k].type,
                      stk[j].list # 0, em2.events[stk[j].type] = stk[j].list
               PROVE  stk[k].list = stk[j].list
    BY DEF InTurn
  <2>1. /\ stk[j] \in Frames /\ stk[j].list \in Nat /\ stk[j].type \in EventTypes
        /\ Empties(em, stk[j])
    BY DEF StackOK, FrameOK, Frames
  <2>2. ~ (stk[j].list > Len(em.heap))
    BY <1>1, <2>1 DEF Empties
  <2>3. em.events[stk[j].type] = stk[j].list
    BY <2>1, <2>2 DEF Moves
  <2> QED
    BY <1>3, <2>3 DEF StackOK, InTurn
<1> QED
  BY <1>2, <1>3 DEF StackOK, FrameOK

(* Emits that owe less.                                                      *)
LEMMA StackLighter ==
    ASSUME NEW em, NEW stk, StackOK(em, stk), NEW t, DOMAIN t = 1..Len(stk),
           t = [k \in 1..Len(stk) |-> t[k]],
           \A k \in 1..Len(stk) : \E kept \in SUBSET stk[k].kept : t[k] = [stk[k] EXCEPT !.kept = kept]
    PROVE  StackOK(em, t) /\ (stk # <<>> => t # <<>>)
<1>1. Len(stk) \in Nat /\ stk \in Seq(Frames)
  BY LenProperties DEF StackOK
<1>2. ASSUME NEW k \in 1..Len(stk)
      PROVE  /\ t[k] \in Frames /\ t[k].kind = stk[k].kind /\ t[k].type = stk[k].type
             /\ t[k].list = stk[k].list /\ FrameOK(em, t[k])
  <2>1. stk[k] \in Frames /\ FrameOK(em, stk[k])
    BY DEF StackOK, FrameOK
  <2>2. PICK kept \in SUBSET stk[k].kept : t[k] = [stk[k] EXCEPT !.kept = kept]
    OBVIOUS
  <2>3. /\ t[k] \in Frames /\ t[k].kind = stk[k].kind /\ t[k].type = stk[k].type
        /\ t[k].list = stk[k].list /\ t[k].fns = stk[k].fns /\ t[k].kept \subseteq stk[k].kept
        /\ t[k].called = stk[k].called /\ t[k].pos = stk[k].pos
    BY <2>1, <2>2 DEF Frames
  <2>4. FrameOK(em, t[k])
    BY <2>1, <2>3 DEF FrameOK, Owes, Empties
  <2> QED
    BY <2>3, <2>4
<1>3. t \in Seq(Frames) /\ Len(t) = Len(stk)
  <2>1. t \in Seq(Frames)
    BY <1>1, <1>2
  <2>2. 1..Len(t) = 1..Len(stk) /\ Len(t) \in Nat
    BY <2>1, LenProperties
  <2> QED
    BY <1>1, <2>1, <2>2
<1>4. \A j, k \in 1..Len(stk) : j < k => InTurn(em, t[j], t[k])
  BY <1>2 DEF StackOK, InTurn
<1>5. \A k \in 1..Len(stk) : FrameOK(em, t[k]) /\ (k = 1 => t[k].kind = "body")
  BY <1>2 DEF StackOK
<1>6. stk # <<>> => t # <<>>
  BY <1>1, <1>3, EmptySeq
<1> QED
  BY <1>3, <1>4, <1>5, <1>6 DEF StackOK

LEMMA EmptyStack == ASSUME NEW em PROVE StackOK(em, <<>>)
  BY EmptySeq DEF StackOK

LEMMA NewFrame ==
    ASSUME NEW kind, NEW type, NEW fns, NEW list
    PROVE  Frame(kind, type, fns, list) =
              [kind |-> kind, type |-> type, fns |-> fns, list |-> list, kept |-> {},
               called |-> {}, pos |-> 1, types |-> <<>>]
<1>1. PICK f : f = [Body EXCEPT !.kind = kind]
  OBVIOUS
<1>2. f = [kind |-> kind, type |-> "none", fns |-> <<>>, list |-> 0, kept |-> {},
           called |-> {}, pos |-> 1, types |-> <<>>]
  BY <1>1 DEF Body
<1>3. PICK g : g = [f EXCEPT !.type = type]
  OBVIOUS
<1>4. g = [kind |-> kind, type |-> type, fns |-> <<>>, list |-> 0, kept |-> {},
           called |-> {}, pos |-> 1, types |-> <<>>]
  BY <1>2, <1>3
<1>5. PICK h : h = [g EXCEPT !.fns = fns]
  OBVIOUS
<1>6. h = [kind |-> kind, type |-> type, fns |-> fns, list |-> 0, kept |-> {},
           called |-> {}, pos |-> 1, types |-> <<>>]
  BY <1>4, <1>5
<1>7. Frame(kind, type, fns, list) = [h EXCEPT !.list = list]
  BY <1>1, <1>3, <1>5, Zenon DEF Frame
<1> QED
  BY <1>6, <1>7

LEMMA BodyOK == ASSUME NEW em PROVE FrameOK(em, Body) /\ Body.kind = "body"
  BY EmptySeq DEF FrameOK, Body, Frames, Kinds

LEMMA OnlyBody == ASSUME NEW em PROVE StackOK(em, <<Body>>) /\ <<Body>> # <<>>
<1>1. FrameOK(em, Body) /\ Body.kind = "body" /\ Body \in Frames
  BY BodyOK DEF FrameOK
<1>2. /\ <<Body>> \in Seq(Frames) /\ Len(<<Body>>) = 1 /\ <<Body>>[1] = Body
      /\ <<Body>> # <<>>
  BY <1>1
<1>3. PICK t : t = <<Body>>
  OBVIOUS
<1>4. \A k \in 1..Len(t) : k = 1
  BY <1>2, <1>3
<1>5. \A k \in 1..Len(t) : FrameOK(em, t[k]) /\ (k = 1 => t[k].kind = "body")
  BY <1>1, <1>2, <1>3, <1>4
<1>6. \A j, k \in 1..Len(t) : ~ (j < k)
  BY <1>4
<1> QED
  BY <1>2, <1>3, <1>5, <1>6 DEF StackOK

-----------------------------------------------------------------------------
(* The emitter and its lists.                                                *)
LEMMA KeptIsASeq ==
    ASSUME NEW em, EmitterOK(em), NEW type \in EventTypes
    PROVE  /\ Kept(em, type) \in Seq(Function) /\ em.events[type] \in Nat /\ Len(em.heap) \in Nat
           /\ em.events[type] # 0 => /\ em.events[type] \in 1..Len(em.heap)
                                     /\ Kept(em, type) = em.heap[em.events[type]]
                                     /\ Kept(em, type) # <<>>
           /\ em.events[type] = 0 => Kept(em, type) = <<>>
<1>1. /\ em.events[type] \in Nat /\ Len(em.heap) \in Nat /\ em.heap \in Seq(Seq(Function))
      /\ em.events[type] # 0 => em.events[type] <= Len(em.heap) /\ em.heap[em.events[type]] # <<>>
  BY LenProperties DEF EmitterOK
<1>2. em.events[type] # 0 => em.events[type] \in 1..Len(em.heap)
  BY <1>1
<1>3. \A l \in 1..Len(em.heap) : em.heap[l] \in Seq(Function)
  BY <1>1, ElementOfSeq
<1> QED
  BY <1>1, <1>2, <1>3, EmptySeq DEF Kept

LEMMA SetAt ==
    ASSUME NEW S, NEW s \in Seq(S), NEW i \in 1..Len(s), NEW e \in S, NEW t,
           t = [s EXCEPT ![i] = e]
    PROVE  /\ t \in Seq(S) /\ Len(t) = Len(s) /\ t[i] = e
           /\ \A j \in 1..Len(t) : j # i => t[j] = s[j]
<1>1. /\ t \in Seq(S) /\ Len(t) = Len(s)
      /\ \A j \in 1..Len(s) : t[j] = IF j = i THEN e ELSE s[j]
  BY ExceptSeq
<1> QED
  BY <1>1

LEMMA AddedOK ==
    ASSUME NEW em, EmitterOK(em), NEW type \in EventTypes, NEW fn \in Function
    PROVE  EmitterOK(Added(em, type, fn)) /\ Moves(em, Added(em, type, fn))
<1>1. /\ em.events \in [EventTypes -> Nat] /\ em.heap \in Seq(Seq(Function))
      /\ em.dropped \in SUBSET Nat /\ Len(em.heap) \in Nat
      /\ em = [events |-> em.events, heap |-> em.heap, dropped |-> em.dropped]
  BY LenProperties DEF EmitterOK
<1>2. CASE em.events[type] # 0
  <2>1. PICK l : l = em.events[type]
    OBVIOUS
  <2>2. l \in 1..Len(em.heap) /\ em.heap[l] # <<>> /\ em.heap[l] \in Seq(Function)
    BY <1>2, <2>1, KeptIsASeq
  <2>3. PICK s : s = Append(em.heap[l], fn)
    OBVIOUS
  <2>4. s \in Seq(Function) /\ s # <<>>
    BY <2>2, <2>3, AppendProperties
  <2>5. PICK heap : heap = [em.heap EXCEPT ![l] = s]
    OBVIOUS
  <2>6. /\ heap \in Seq(Seq(Function)) /\ Len(heap) = Len(em.heap) /\ heap[l] = s
        /\ \A j \in 1..Len(heap) : j # l => heap[j] = em.heap[j]
    BY <1>1, <2>2, <2>4, <2>5, SetAt
  <2>7. Added(em, type, fn) = [events |-> em.events, heap |-> heap, dropped |-> em.dropped]
    BY <1>1, <1>2, <2>1, <2>3, <2>5 DEF Added
  <2>8. \A t \in EventTypes : em.events[t] # 0 => em.events[t] \in 1..Len(em.heap)
    BY KeptIsASeq
  <2>9. \A t \in EventTypes : em.events[t] # 0 =>
           em.events[t] <= Len(heap) /\ heap[em.events[t]] # <<>>
    BY <1>1, <2>4, <2>6, <2>8 DEF EmitterOK
  <2>10. \A t, u \in EventTypes : em.events[t] # 0 /\ em.events[t] = em.events[u] => t = u
    BY DEF EmitterOK
  <2>11. EmitterOK(Added(em, type, fn))
    BY <1>1, <2>6, <2>7, <2>9, <2>10 DEF EmitterOK
  <2>12. \A j \in 1..Len(em.heap) : em.heap[j] = <<>> => heap[j] = <<>>
    BY <2>2, <2>6
  <2>13. Moves(em, Added(em, type, fn))
    BY <1>1, <2>6, <2>7, <2>12 DEF Moves
  <2> QED
    BY <2>11, <2>13
<1>3. CASE em.events[type] = 0
  <2>1. <<fn>> \in Seq(Function) /\ <<fn>> # <<>>
    OBVIOUS
  <2>2. PICK heap : heap = Append(em.heap, <<fn>>)
    OBVIOUS
  <2>3. PICK n \in Nat : n = Len(em.heap) + 1
    BY <1>1
  <2>4. /\ heap \in Seq(Seq(Function)) /\ Len(heap) = n /\ heap[n] = <<fn>>
        /\ \A j \in 1..Len(em.heap) : heap[j] = em.heap[j]
    BY <1>1, <2>1, <2>2, <2>3, AppendProperties
  <2>5. PICK events : events = [em.events EXCEPT ![type] = n]
    OBVIOUS
  <2>6. /\ events \in [EventTypes -> Nat] /\ events[type] = n
        /\ \A t \in EventTypes : t # type => events[t] = em.events[t]
    BY <1>1, <2>5
  <2>7. Added(em, type, fn) = [events |-> events, heap |-> heap, dropped |-> em.dropped]
    BY <1>1, <1>3, <2>2, <2>3, <2>5 DEF Added
  <2>8. \A t \in EventTypes : em.events[t] # 0 => em.events[t] \in 1..Len(em.heap)
    BY KeptIsASeq
  <2>9. \A t \in EventTypes : events[t] # 0 => events[t] <= n /\ heap[events[t]] # <<>>
    <3> TAKE t \in EventTypes
    <3>1. CASE t = type
      <4>1. events[t] = n /\ heap[n] # <<>>
        BY <2>1, <2>4, <2>6, <3>1, Zenon
      <4> QED
        BY <4>1
    <3>2. CASE t # type
      <4>1. events[t] = em.events[t]
        BY <2>6, <3>2
      <4>2. events[t] # 0 => events[t] \in 1..Len(em.heap) /\ em.heap[events[t]] # <<>>
        BY <2>8, <4>1 DEF EmitterOK
      <4>3. events[t] # 0 => heap[events[t]] # <<>>
        BY <2>4, <4>2
      <4> QED
        BY <1>1, <2>3, <4>2, <4>3
    <3> QED
      BY <3>1, <3>2
  <2>10. \A t, u \in EventTypes : events[t] # 0 /\ events[t] = events[u] => t = u
    BY <1>1, <2>3, <2>6, <2>8 DEF EmitterOK
  <2>11. EmitterOK(Added(em, type, fn))
    BY <1>1, <2>4, <2>6, <2>7, <2>9, <2>10 DEF EmitterOK
  <2>12. Moves(em, Added(em, type, fn))
    BY <1>1, <1>3, <2>3, <2>4, <2>6, <2>7 DEF Moves
  <2> QED
    BY <2>11, <2>12
<1> QED
  BY <1>2, <1>3

LEMMA ShortenedOK ==
    ASSUME NEW em, EmitterOK(em), NEW type \in EventTypes, NEW k \in 1..Len(Kept(em, type))
    PROVE  /\ EmitterOK(Shortened(em, type, k)) /\ Moves(em, Shortened(em, type, k))
           /\ Shortened(em, type, k) # em
<1>1. /\ em.events \in [EventTypes -> Nat] /\ em.heap \in Seq(Seq(Function))
      /\ em.dropped \in SUBSET Nat /\ Len(em.heap) \in Nat
      /\ em = [events |-> em.events, heap |-> em.heap, dropped |-> em.dropped]
  BY LenProperties DEF EmitterOK
<1>2. PICK l : l = em.events[type]
  OBVIOUS
<1>3. /\ l \in 1..Len(em.heap) /\ em.heap[l] # <<>> /\ em.heap[l] \in Seq(Function)
      /\ Kept(em, type) = em.heap[l] /\ l # 0
  BY <1>2, KeptIsASeq, EmptySeq
<1>4. PICK s : s = RemoveAt(em.heap[l], k)
  OBVIOUS
<1>5. s \in Seq(Function) /\ s # em.heap[l]
  <2>1. s \in Seq(Function) /\ Len(s) = Len(em.heap[l]) - 1
    BY <1>3, <1>4, WithoutOne
  <2>2. Len(em.heap[l]) \in Nat
    BY <1>3, LenProperties
  <2> QED
    BY <2>1, <2>2
<1>6. PICK heap : heap = [em.heap EXCEPT ![l] = s]
  OBVIOUS
<1>7. /\ heap \in Seq(Seq(Function)) /\ Len(heap) = Len(em.heap) /\ heap[l] = s
      /\ \A j \in 1..Len(heap) : j # l => heap[j] = em.heap[j]
  BY <1>1, <1>3, <1>5, <1>6, SetAt
<1>8. PICK events : events = IF s = <<>> THEN [em.events EXCEPT ![type] = 0] ELSE em.events
  OBVIOUS
<1>9. /\ events \in [EventTypes -> Nat]
      /\ events[type] = IF s = <<>> THEN 0 ELSE l
      /\ \A t \in EventTypes : t # type => events[t] = em.events[t]
  BY <1>1, <1>2, <1>8
<1>10. Shortened(em, type, k) = [events |-> events, heap |-> heap, dropped |-> em.dropped]
  BY <1>1, <1>2, <1>3, <1>4, <1>6, <1>8 DEF Shortened
<1>11. \A t \in EventTypes : em.events[t] # 0 => em.events[t] \in 1..Len(em.heap)
  BY KeptIsASeq
<1>12. \A t \in EventTypes : t # type => em.events[t] # l
  BY <1>2, <1>3 DEF EmitterOK
<1>13. \A t \in EventTypes : events[t] # 0 => events[t] <= Len(heap) /\ heap[events[t]] # <<>>
  <2> TAKE t \in EventTypes
  <2>1. CASE t = type
    BY <1>1, <1>3, <1>7, <1>9, <2>1
  <2>2. CASE t # type
    BY <1>1, <1>7, <1>9, <1>11, <1>12, <2>2 DEF EmitterOK
  <2> QED
    BY <2>1, <2>2
<1>14. \A t, u \in EventTypes : events[t] # 0 /\ events[t] = events[u] => t = u
  <2>1. \A t \in EventTypes : events[t] # 0 => events[t] = em.events[t]
    BY <1>2, <1>9
  <2> QED
    BY <2>1 DEF EmitterOK
<1>15. EmitterOK(Shortened(em, type, k))
  BY <1>1, <1>7, <1>9, <1>10, <1>13, <1>14 DEF EmitterOK
<1>16. Moves(em, Shortened(em, type, k))
  <2>1. \A t \in EventTypes : /\ events[t] \in {0, em.events[t]}
                              /\ em.events[t] # 0 => \/ events[t] = em.events[t]
                                                     \/ heap[em.events[t]] = <<>>
    BY <1>2, <1>7, <1>9
  <2>2. \A j \in 1..Len(em.heap) : em.heap[j] = <<>> => heap[j] = <<>>
    BY <1>3, <1>7
  <2> QED
    BY <1>1, <1>7, <1>10, <2>1, <2>2 DEF Moves
<1>17. heap # em.heap
  BY <1>5, <1>7
<1> QED
  BY <1>10, <1>15, <1>16, <1>17

-----------------------------------------------------------------------------
(* The calls.                                                                *)
LEMMA InList ==
    ASSUME NEW S, NEW s \in Seq(S), NEW x
    PROVE  x \in ToSet(s) <=> \E j \in 1..Len(s) : s[j] = x
<1>1. DOMAIN s = 1..Len(s)
  BY LenProperties
<1> QED
  BY <1>1 DEF ToSet

LEMMA EmitOK ==
    ASSUME NEW em, EmitterOK(em), NEW stk, StackOK(em, stk), stk # <<>>,
           NEW type \in EventTypes
    PROVE  StackOK(em, EmitOn(em, stk, type))
<1>1. CASE Kept(em, type) = <<>>
  BY <1>1, EmptyStack DEF EmitOn
<1>2. CASE Kept(em, type) # <<>>
  <2>1. PICK s : s = Kept(em, type)
    OBVIOUS
  <2>2. PICK l : l = em.events[type]
    OBVIOUS
  <2>3. s \in Seq(Function) /\ l \in Nat /\ Len(s) \in Nat /\ DOMAIN s = 1..Len(s)
    BY <2>1, <2>2, KeptIsASeq, LenProperties
  <2>4. PICK kept : kept = ToSet(s)
    OBVIOUS
  <2>5. \A fn \in kept : \E j \in DOMAIN s : 1 <= j /\ s[j] = fn
    BY <2>3, <2>4, InList
  <2>6. kept \in SUBSET Function
    BY <2>3, <2>5, ElementOfSeq
  <2>7. PICK f : f = [Frame("emit", type, s, l) EXCEPT !.kept = kept]
    OBVIOUS
  <2>8. f = [kind |-> "emit", type |-> type, fns |-> s, list |-> l, kept |-> kept,
             called |-> {}, pos |-> 1, types |-> <<>>]
    BY <2>7, NewFrame
  <2>9. f \in Frames
    BY <2>3, <2>6, <2>8, EmptySeq DEF Frames, Kinds
  <2>10. Owes(f)
    BY <2>5, <2>8 DEF Owes
  <2>11. FrameOK(em, f) /\ f.kind # "clear"
    BY <2>8, <2>9, <2>10 DEF FrameOK
  <2>12. EmitOn(em, stk, type) = Append(stk, f)
    BY <1>2, <2>1, <2>2, <2>4, <2>7 DEF EmitOn, PushFrame
  <2> QED
    BY <2>11, <2>12, StackAppend
<1> QED
  BY <1>1, <1>2

(* A frame that is neither an emit nor a removal of all is pushed.           *)
LEMMA PushOK ==
    ASSUME NEW em, NEW stk, StackOK(em, stk), stk # <<>>,
           NEW kind \in {"add", "once"}, NEW type \in EventTypes, NEW fn \in Function
    PROVE  /\ StackOK(em, PushFrame(stk, Frame(kind, type, <<fn>>, 0)))
           /\ PushFrame(stk, Frame(kind, type, <<fn>>, 0)) # <<>>
<1>1. <<fn>> \in Seq(Function) /\ <<fn>> # <<>>
  OBVIOUS
<1>2. PICK f : f = Frame(kind, type, <<fn>>, 0)
  OBVIOUS
<1>3. PICK s : s = <<fn>>
  OBVIOUS
<1>4. f = [kind |-> kind, type |-> type, fns |-> s, list |-> 0, kept |-> {},
           called |-> {}, pos |-> 1, types |-> <<>>]
  BY <1>2, <1>3, NewFrame
<1>5. f \in Frames /\ f.fns # <<>> /\ f.kind = kind /\ f.type = type
  BY <1>1, <1>3, <1>4, EmptySeq DEF Frames, Kinds
<1>6. FrameOK(em, f) /\ f.kind # "clear"
  BY <1>5 DEF FrameOK
<1> QED
  BY <1>2, <1>6, StackAppend DEF PushFrame

LEMMA AddOK ==
    ASSUME NEW em, EmitterOK(em), NEW stk, StackOK(em, stk), stk # <<>>,
           NEW type \in EventTypes, NEW fn \in Function
    PROVE  LET r == AddOn(em, stk, type, fn) IN EmitterOK(r.em) /\ StackOK(r.em, r.stk)
<1>1. CASE "newListener" \in EventTypes /\ Kept(em, "newListener") # <<>>
  <2>1. PICK t : t = PushFrame(stk, Frame("add", type, <<fn>>, 0))
    OBVIOUS
  <2>2. StackOK(em, t) /\ t # <<>>
    BY <2>1, PushOK
  <2>3. StackOK(em, EmitOn(em, t, "newListener"))
    BY <1>1, <2>2, EmitOK
  <2>4. AddOn(em, stk, type, fn) = [em |-> em, stk |-> EmitOn(em, t, "newListener")]
    BY <1>1, <2>1 DEF AddOn
  <2> QED
    BY <2>3, <2>4
<1>2. CASE ~ ("newListener" \in EventTypes /\ Kept(em, "newListener") # <<>>)
  <2>1. AddOn(em, stk, type, fn) = [em |-> Added(em, type, fn), stk |-> stk]
    BY <1>2 DEF AddOn
  <2>2. EmitterOK(Added(em, type, fn)) /\ Moves(em, Added(em, type, fn))
    BY AddedOK
  <2>3. StackOK(Added(em, type, fn), stk)
    BY <2>2, StackMoves
  <2> QED
    BY <2>1, <2>2, <2>3
<1> QED
  BY <1>1, <1>2

LEMMA PositionIsRight ==
    ASSUME NEW s \in Seq(Function), NEW wanted
    PROVE  /\ PositionOf(s, wanted) \in 0..Len(s)
           /\ PositionOf(s, wanted) = 0 => \A k \in 1..Len(s) : ~ Is(s[k], wanted)
<1>1. Len(s) \in Nat /\ DOMAIN s = 1..Len(s)
  BY LenProperties
<1>2. PICK found : found = {k \in DOMAIN s : Is(s[k], wanted)}
  OBVIOUS
<1>3. PositionOf(s, wanted) =
         IF found = {} THEN 0 ELSE CHOOSE k \in found : \A n \in found : n <= k
  BY <1>2 DEF PositionOf
<1>4. CASE found = {}
  BY <1>1, <1>2, <1>3, <1>4
<1>5. CASE found # {}
  <2>1. found \subseteq 1..Len(s)
    BY <1>1, <1>2
  <2>2. \E k \in found : \A n \in found : n <= k
    BY <1>1, <1>5, <2>1, Greatest
  <2>3. PICK k : k = PositionOf(s, wanted)
    OBVIOUS
  <2>4. k \in found
    BY <1>3, <1>5, <2>2, <2>3
  <2>5. k \in 0..Len(s) /\ k # 0
    BY <1>1, <2>1, <2>4
  <2> QED
    BY <2>3, <2>5
<1> QED
  BY <1>4, <1>5

LEMMA ForgetOK ==
    ASSUME NEW em, NEW stk, StackOK(em, stk), stk # <<>>, NEW type, NEW fn
    PROVE  StackOK(em, Forget(stk, type, fn)) /\ Forget(stk, type, fn) # <<>>
<1>1. stk \in Seq(Frames) /\ DOMAIN stk = 1..Len(stk) /\ \A k \in 1..Len(stk) : stk[k] \in Frames
  BY LenProperties, ElementOfSeq DEF StackOK
<1>2. PICK t : t = Forget(stk, type, fn)
  OBVIOUS
<1>3. t = [k \in 1..Len(stk) |-> IF stk[k].kind = "emit" /\ stk[k].type = type
                                 THEN [stk[k] EXCEPT !.kept = @ \ {fn}] ELSE stk[k]]
  BY <1>1, <1>2 DEF Forget
<1>4. ASSUME NEW k \in 1..Len(stk)
      PROVE  \E kept \in SUBSET stk[k].kept : t[k] = [stk[k] EXCEPT !.kept = kept]
  <2>1. CASE stk[k].kind = "emit" /\ stk[k].type = type
    <3>1. t[k] = [stk[k] EXCEPT !.kept = stk[k].kept \ {fn}]
      BY <1>3, <2>1
    <3> QED
      BY <3>1
  <2>2. CASE ~ (stk[k].kind = "emit" /\ stk[k].type = type)
    <3>1. t[k] = stk[k] /\ stk[k] = [stk[k] EXCEPT !.kept = stk[k].kept]
      BY <1>1, <1>3, <2>2 DEF Frames
    <3> QED
      BY <3>1
  <2> QED
    BY <2>1, <2>2
<1>5. DOMAIN t = 1..Len(stk) /\ t = [k \in 1..Len(stk) |-> t[k]]
  BY <1>3
<1> QED
  BY <1>2, <1>4, <1>5, StackLighter

LEMMA ForgetAllOK ==
    ASSUME NEW em, NEW stk, StackOK(em, stk), stk # <<>>, NEW type
    PROVE  StackOK(em, ForgetAll(stk, type)) /\ ForgetAll(stk, type) # <<>>
<1>1. stk \in Seq(Frames) /\ DOMAIN stk = 1..Len(stk) /\ \A k \in 1..Len(stk) : stk[k] \in Frames
  BY LenProperties, ElementOfSeq DEF StackOK
<1>2. PICK t : t = ForgetAll(stk, type)
  OBVIOUS
<1>3. t = [k \in 1..Len(stk) |-> IF stk[k].kind = "emit" /\ stk[k].type = type
                                 THEN [stk[k] EXCEPT !.kept = {}] ELSE stk[k]]
  BY <1>1, <1>2 DEF ForgetAll
<1>4. ASSUME NEW k \in 1..Len(stk)
      PROVE  \E kept \in SUBSET stk[k].kept : t[k] = [stk[k] EXCEPT !.kept = kept]
  <2>1. CASE stk[k].kind = "emit" /\ stk[k].type = type
    <3>1. t[k] = [stk[k] EXCEPT !.kept = {}]
      BY <1>3, <2>1
    <3> QED
      BY <3>1
  <2>2. CASE ~ (stk[k].kind = "emit" /\ stk[k].type = type)
    <3>1. t[k] = stk[k] /\ stk[k] = [stk[k] EXCEPT !.kept = stk[k].kept]
      BY <1>1, <1>3, <2>2 DEF Frames
    <3> QED
      BY <3>1
  <2> QED
    BY <2>1, <2>2
<1>5. DOMAIN t = 1..Len(stk) /\ t = [k \in 1..Len(stk) |-> t[k]]
  BY <1>3
<1> QED
  BY <1>2, <1>4, <1>5, StackLighter

LEMMA RemoveOK ==
    ASSUME NEW em, EmitterOK(em), NEW stk, StackOK(em, stk), stk # <<>>,
           NEW type \in EventTypes, NEW wanted
    PROVE  LET r == RemoveOn(em, stk, type, wanted)
           IN  /\ EmitterOK(r.em) /\ StackOK(r.em, r.stk)
               /\ r.em = em => /\ r.stk = stk
                               /\ \A k \in 1..Len(Kept(em, type)) : ~ Is(Kept(em, type)[k], wanted)
<1>1. PICK s : s = Kept(em, type)
  OBVIOUS
<1>2. s \in Seq(Function) /\ Len(s) \in Nat
  BY <1>1, KeptIsASeq, LenProperties
<1>3. PICK k : k = PositionOf(s, wanted)
  OBVIOUS
<1>4. /\ k \in 0..Len(s)
      /\ k = 0 => \A j \in 1..Len(s) : ~ Is(s[j], wanted)
  BY <1>2, <1>3, PositionIsRight
<1>5. CASE k = 0
  <2>1. RemoveOn(em, stk, type, wanted) = [em |-> em, stk |-> stk]
    BY <1>1, <1>3, <1>5 DEF RemoveOn
  <2> QED
    BY <1>1, <1>4, <1>5, <2>1
<1>6. CASE k # 0
  <2>1. k \in 1..Len(s)
    BY <1>2, <1>4, <1>6
  <2>2. PICK em1 : em1 = Shortened(em, type, k)
    OBVIOUS
  <2>3. EmitterOK(em1) /\ Moves(em, em1) /\ em1 # em
    BY <1>1, <2>1, <2>2, ShortenedOK
  <2>4. PICK t : t = Forget(stk, type, s[k])
    OBVIOUS
  <2>5. StackOK(em, t) /\ t # <<>>
    BY <2>4, ForgetOK
  <2>6. StackOK(em1, t)
    BY <2>3, <2>5, StackMoves
  <2>7. StackOK(em1, EmitOn(em1, t, "removeListener"))
    BY <2>3, <2>5, <2>6, EmitOK, EventsAssumption
  <2>8. RemoveOn(em, stk, type, wanted) = [em |-> em1, stk |-> EmitOn(em1, t, "removeListener")]
    BY <1>1, <1>3, <1>6, <2>2, <2>4 DEF RemoveOn
  <2> QED
    BY <2>3, <2>7, <2>8
<1> QED
  BY <1>5, <1>6

LEMMA OtherEvents ==
    ASSUME NEW em, em = [events |-> em.events, heap |-> em.heap, dropped |-> em.dropped],
           NEW e2, NEW d2
    PROVE  [em EXCEPT !.events = e2, !.dropped = d2] =
              [events |-> e2, heap |-> em.heap, dropped |-> d2]
<1>1. PICK h : h = em.heap
  OBVIOUS
<1>2. PICK f : f = [em EXCEPT !.events = e2]
  OBVIOUS
<1>3. f = [events |-> e2, heap |-> h, dropped |-> em.dropped]
  BY <1>1, <1>2
<1>4. [f EXCEPT !.dropped = d2] = [events |-> e2, heap |-> h, dropped |-> d2]
  BY <1>3
<1>5. [em EXCEPT !.events = e2, !.dropped = d2] = [f EXCEPT !.dropped = d2]
  BY <1>2, Zenon
<1> QED
  BY <1>1, <1>4, <1>5, Zenon

LEMMA EventForgotten ==
    ASSUME NEW em, em = [events |-> em.events, heap |-> em.heap, dropped |-> em.dropped],
           NEW t, NEW d2
    PROVE  /\ [em EXCEPT !.events[t] = 0] =
                 [events |-> [em.events EXCEPT ![t] = 0], heap |-> em.heap, dropped |-> em.dropped]
           /\ [em EXCEPT !.events[t] = 0, !.dropped = d2] =
                 [events |-> [em.events EXCEPT ![t] = 0], heap |-> em.heap, dropped |-> d2]
<1>1. PICK e, h, d : e = em.events /\ h = em.heap /\ d = em.dropped
  OBVIOUS
<1>2. em = [events |-> e, heap |-> h, dropped |-> d]
  BY <1>1
<1>3. PICK g : g = [em EXCEPT !.events[t] = 0]
  OBVIOUS
<1>4. g = [events |-> [e EXCEPT ![t] = 0], heap |-> h, dropped |-> d]
  BY <1>2, <1>3
<1>5. [g EXCEPT !.dropped = d2] = [events |-> [e EXCEPT ![t] = 0], heap |-> h, dropped |-> d2]
  BY <1>4
<1>6. [em EXCEPT !.events[t] = 0, !.dropped = d2] = [g EXCEPT !.dropped = d2]
  BY <1>3, Zenon
<1> QED
  BY <1>1, <1>3, <1>4, <1>5, <1>6, Zenon

LEMMA RemoveAllOK ==
    ASSUME NEW em, EmitterOK(em), NEW stk, StackOK(em, stk), stk # <<>>,
           NEW type \in EventTypes
    PROVE  LET r == RemoveAllOn(em, stk, type) IN EmitterOK(r.em) /\ StackOK(r.em, r.stk)
<1>1. /\ em.events \in [EventTypes -> Nat] /\ em.heap \in Seq(Seq(Function))
      /\ em.dropped \in SUBSET Nat /\ Len(em.heap) \in Nat
      /\ em = [events |-> em.events, heap |-> em.heap, dropped |-> em.dropped]
  BY LenProperties DEF EmitterOK
<1>2. PICK l : l = em.events[type]
  OBVIOUS
<1>3. l \in Nat
  BY <1>1, <1>2
<1>4. CASE Kept(em, "removeListener") = <<>>
  <2>1. PICK events : events = [em.events EXCEPT ![type] = 0]
    OBVIOUS
  <2>2. /\ events \in [EventTypes -> Nat] /\ events[type] = 0
        /\ \A t \in EventTypes : t # type => events[t] = em.events[t]
    BY <1>1, <2>1
  <2>3. PICK em1 : em1 = [events |-> events, heap |-> em.heap, dropped |-> em.dropped \cup {l}]
    OBVIOUS
  <2>4. EmitterOK(em1)
    <3>1. \A t \in EventTypes : events[t] # 0 => events[t] = em.events[t]
      BY <2>2
    <3> QED
      BY <1>1, <1>3, <2>2, <2>3, <3>1 DEF EmitterOK
  <2>5. Moves(em, em1)
    BY <1>1, <1>2, <2>2, <2>3 DEF Moves
  <2>6. StackOK(em, ForgetAll(stk, type))
    BY ForgetAllOK
  <2>7. StackOK(em1, ForgetAll(stk, type))
    BY <2>4, <2>5, <2>6, StackMoves
  <2>8. RemoveAllOn(em, stk, type) = [em |-> em1, stk |-> ForgetAll(stk, type)]
    <3>1. [em EXCEPT !.events[type] = 0, !.dropped = @ \cup {em.events[type]}] = em1
      BY <1>1, <1>2, <2>1, <2>3, EventForgotten, Zenon
    <3> QED
      BY <1>4, <3>1 DEF RemoveAllOn
  <2> QED
    BY <2>4, <2>7, <2>8
<1>5. CASE Kept(em, "removeListener") # <<>>
  <2>1. PICK f : f = Frame("clear", type, <<>>, l)
    OBVIOUS
  <2>2. f = [kind |-> "clear", type |-> type, fns |-> <<>>, list |-> l, kept |-> {},
             called |-> {}, pos |-> 1, types |-> <<>>]
    BY <2>1, NewFrame
  <2>3. f \in Frames
    BY <1>3, <2>2, EmptySeq DEF Frames, Kinds
  <2>4. Empties(em, f)
    BY <1>1, <1>2, <2>2 DEF Empties, EmitterOK
  <2>5. FrameOK(em, f) /\ f.list = em.events[f.type]
    BY <1>2, <2>2, <2>3, <2>4 DEF FrameOK
  <2>6. StackOK(em, Append(stk, f))
    BY <2>5, StackAppend
  <2>7. RemoveAllOn(em, stk, type) = [em |-> em, stk |-> Append(stk, f)]
    BY <1>2, <1>5, <2>1 DEF RemoveAllOn, PushFrame
  <2> QED
    BY <2>6, <2>7
<1> QED
  BY <1>4, <1>5

LEMMA DropAllOK ==
    ASSUME NEW em, EmitterOK(em), NEW stk, StackOK(em, stk), stk # <<>>
    PROVE  LET r == DropAll(em, stk) IN EmitterOK(r.em) /\ StackOK(r.em, r.stk)
<1>1. /\ em.events \in [EventTypes -> Nat] /\ em.heap \in Seq(Seq(Function))
      /\ em.dropped \in SUBSET Nat /\ Len(em.heap) \in Nat
      /\ em = [events |-> em.events, heap |-> em.heap, dropped |-> em.dropped]
  BY LenProperties DEF EmitterOK
<1>2. PICK range : range = Range(em.events)
  OBVIOUS
<1>3. range \subseteq Nat /\ \A t \in EventTypes : em.events[t] \in range
  BY <1>1, <1>2 DEF Range
<1>4. PICK none : none = [t \in EventTypes |-> 0]
  OBVIOUS
<1>5. PICK em1 : em1 = [events |-> none, heap |-> em.heap, dropped |-> em.dropped \cup range]
  OBVIOUS
<1>6. EmitterOK(em1)
  <2>1. none \in [EventTypes -> Nat] /\ \A t \in EventTypes : none[t] = 0
    BY <1>4
  <2> QED
    BY <1>1, <1>3, <1>5, <2>1 DEF EmitterOK
<1>7. Moves(em, em1)
  <2>1. \A t \in EventTypes : none[t] = 0
    BY <1>4
  <2> QED
    BY <1>1, <1>3, <1>5, <2>1 DEF Moves
<1>8. PICK t : t = [k \in DOMAIN stk |-> [stk[k] EXCEPT !.kept = {}]]
  OBVIOUS
<1>9. StackOK(em, t)
  <2>1. DOMAIN stk = 1..Len(stk)
    BY LenProperties DEF StackOK
  <2>2. t = [k \in 1..Len(stk) |-> [stk[k] EXCEPT !.kept = {}]]
    BY <1>8, <2>1
  <2>3. \A k \in 1..Len(stk) : t[k] = [stk[k] EXCEPT !.kept = {}]
    BY <2>2
  <2>4. \A k \in 1..Len(stk) : \E kept \in SUBSET stk[k].kept : t[k] = [stk[k] EXCEPT !.kept = kept]
    BY <2>3
  <2>5. DOMAIN t = 1..Len(stk) /\ t = [k \in 1..Len(stk) |-> t[k]]
    BY <2>2
  <2> QED
    BY <2>4, <2>5, StackLighter
<1>10. StackOK(em1, t)
  BY <1>6, <1>7, <1>9, StackMoves
<1>11. DropAll(em, stk) = [em |-> em1, stk |-> t]
  <2>1. [em EXCEPT !.events = none, !.dropped = @ \cup range] = em1
    <3>1. PICK d2 : d2 = em.dropped \cup range
      OBVIOUS
    <3>2. [em EXCEPT !.events = none, !.dropped = d2] =
             [events |-> none, heap |-> em.heap, dropped |-> d2]
      BY <1>1, OtherEvents, Zenon
    <3> QED
      BY <1>5, <3>1, <3>2, Zenon
  <2> QED
    BY <1>2, <1>4, <1>8, <2>1, Zenon DEF DropAll
<1> QED
  BY <1>6, <1>10, <1>11

(* What is empty is emptied: the emitter has this list no longer.            *)
LEMMA ClearedOK ==
    ASSUME NEW em, EmitterOK(em), NEW type \in EventTypes, NEW stk, StackOK(em, stk),
           NEW top, top.kind = "clear", top.type = type,
           top.list # 0 => em.heap[top.list] = <<>>,
           \A k \in 1..Len(stk) : InTurn(em, stk[k], top)
    PROVE  /\ EmitterOK([em EXCEPT !.events[type] = 0])
           /\ StackOK([em EXCEPT !.events[type] = 0], stk)
<1>1. /\ em.events \in [EventTypes -> Nat] /\ em.heap \in Seq(Seq(Function))
      /\ em.dropped \in SUBSET Nat
      /\ em = [events |-> em.events, heap |-> em.heap, dropped |-> em.dropped]
  BY DEF EmitterOK
<1>2. PICK events : events = [em.events EXCEPT ![type] = 0]
  OBVIOUS
<1>3. /\ events \in [EventTypes -> Nat] /\ events[type] = 0
      /\ \A t \in EventTypes : t # type => events[t] = em.events[t]
  BY <1>1, <1>2
<1>4. PICK em1 : em1 = [events |-> events, heap |-> em.heap, dropped |-> em.dropped]
  OBVIOUS
<1>5. [em EXCEPT !.events[type] = 0] = em1
  BY <1>1, <1>2, <1>4, EventForgotten, Zenon
<1>6. \A t \in EventTypes : events[t] # 0 => events[t] = em.events[t]
  BY <1>3
<1>7. EmitterOK(em1)
  BY <1>1, <1>3, <1>4, <1>6 DEF EmitterOK
<1>8. ASSUME NEW k \in 1..Len(stk), stk[k].kind = "clear" PROVE Empties(em1, stk[k])
  <2>1. Empties(em, stk[k]) /\ stk[k].type \in EventTypes /\ InTurn(em, stk[k], top)
    BY <1>8 DEF StackOK, FrameOK
  <2>2. CASE stk[k].type = type /\ stk[k].list # 0 /\ em.events[type] = stk[k].list
    <3>1. top.list = stk[k].list
      BY <1>8, <2>1, <2>2 DEF InTurn
    <3>2. em.heap[em.events[type]] = <<>>
      BY <2>2, <3>1
    <3> QED
      BY <2>2, <3>2 DEF EmitterOK
  <2>3. CASE ~ (stk[k].type = type /\ stk[k].list # 0 /\ em.events[type] = stk[k].list)
    BY <1>3, <1>4, <2>1, <2>3 DEF Empties
  <2> QED
    BY <2>2, <2>3
<1>9. ASSUME NEW j \in 1..Len(stk), NEW k \in 1..Len(stk), j < k
      PROVE  InTurn(em1, stk[j], stk[k])
  <2>1. InTurn(em, stk[j], stk[k])
    BY <1>9 DEF StackOK
  <2>2. stk[j].kind = "clear" => stk[j].type \in EventTypes
    BY DEF StackOK, FrameOK
  <2> QED
    BY <1>4, <1>6, <2>1, <2>2 DEF InTurn
<1>10. StackOK(em1, stk)
  BY <1>8, <1>9 DEF StackOK, FrameOK
<1> QED
  BY <1>5, <1>7, <1>10

-----------------------------------------------------------------------------
(* The steps.                                                                *)
LEMMA BecomesRight ==
    ASSUME NEW r, Becomes(r), EmitterOK(r.em), StackOK(r.em, r.stk)
    PROVE  EmitterOK(emitter)' /\ StackOK(emitter, stack)' /\ stack' # <<>>
<1>1. emitter' = r.em
  BY DEF Becomes
<1>2. EmitterOK(emitter')
  BY <1>1
<1>3. CASE r.stk = <<>>
  <2>1. stack' = <<Body>>
    BY <1>3 DEF Becomes
  <2>2. StackOK(emitter', <<Body>>) /\ <<Body>> # <<>>
    BY OnlyBody
  <2> QED
    BY <1>2, <2>1, <2>2, Zenon
<1>4. CASE r.stk # <<>>
  <2>1. stack' = r.stk
    BY <1>4 DEF Becomes
  <2> QED
    BY <1>1, <1>2, <1>4, <2>1, Zenon
<1> QED
  BY <1>3, <1>4

(* What has been counted stays, whether or not a call was added.             *)
LEMMA SameHistory ==
    ASSUME HistoryRight, history.spinning = FALSE, fired' = fired,
           history' = history \/ history' = [history EXCEPT !.calls = @ + 1]
    PROVE  HistoryRight'
<1>1. PICK c \in Nat, n \in Seq(Nat) :
         history = [calls |-> c, runs |-> n, missed |-> FALSE, spinning |-> FALSE]
  BY DEF HistoryRight
<1>2. PICK c2 \in Nat :
         history' = [calls |-> c2, runs |-> n, missed |-> FALSE, spinning |-> FALSE]
  BY <1>1
<1>3. \A k \in DOMAIN n : n[k] = 0 \/ (n[k] = 1 /\ k \in fired)
  BY <1>1 DEF HistoryRight
<1>4. history'.runs = n /\ history'.spinning = FALSE
  BY <1>2
<1>5. history' \in [calls : Nat, runs : Seq(Nat), missed : {FALSE}, spinning : BOOLEAN]
  BY <1>2
<1> QED
  BY <1>3, <1>4, <1>5, Zenon DEF HistoryRight

LEMMA NotClear ==
    ASSUME HistoryRight, Top.kind # "clear"
    PROVE  history.spinning = FALSE
  BY DEF HistoryRight

LEMMA AddListenerStep == EventsInv /\ AddListener => EventsInv'
<1> SUFFICES ASSUME EventsInv, AddListener PROVE EventsInv'
  OBVIOUS
<1>1. PICK type \in EventTypes, l \in Listeners : Becomes(AddOn(emitter, stack, type, Fn(l, 0)))
  BY DEF AddListener
<1>2. PICK r : r = AddOn(emitter, stack, type, Fn(l, 0))
  OBVIOUS
<1>3. Fn(l, 0) \in Function
  BY DEF Fn, Function
<1>4. EmitterOK(r.em) /\ StackOK(r.em, r.stk)
  BY <1>2, <1>3, AddOK DEF EventsInv
<1>5. EmitterOK(emitter)' /\ StackOK(emitter, stack)' /\ stack' # <<>>
  BY <1>1, <1>2, <1>4, BecomesRight
<1>6. HistoryRight'
  BY NotClear, SameHistory DEF EventsInv, AddListener, May, Counted
<1> QED
  BY <1>5, <1>6 DEF EventsInv

LEMMA OtherRuns ==
    ASSUME NEW M, NEW S, NEW h \in [calls : Nat, runs : Seq(Nat), missed : M, spinning : S],
           NEW n \in Seq(Nat), NEW g, g = [h EXCEPT !.runs = n]
    PROVE  /\ g \in [calls : Nat, runs : Seq(Nat), missed : M, spinning : S]
           /\ g.runs = n /\ g.spinning = h.spinning
  OBVIOUS

LEMMA OnceStep == EventsInv /\ Once => EventsInv'
<1> SUFFICES ASSUME EventsInv, Once PROVE EventsInv'
  OBVIOUS
<1>1. /\ history' = [history EXCEPT !.calls = @ + 1, !.runs = Append(@, 0)]
      /\ fired' = fired /\ history.spinning = FALSE
  BY NotClear DEF EventsInv, Once, May
<1>2. PICK c \in Nat, n \in Seq(Nat) :
         history = [calls |-> c, runs |-> n, missed |-> FALSE, spinning |-> FALSE]
  BY <1>1 DEF EventsInv, HistoryRight
<1>3. PICK m : m = Len(n) + 1
  OBVIOUS
<1>4. Len(n) \in Nat /\ m \in Nat /\ Len(history.runs) + 1 = m
  BY <1>2, <1>3, LenProperties
<1>5. PICK type \in EventTypes, l \in Listeners : Becomes(AddOn(emitter, stack, type, Fn(l, m)))
  BY <1>4 DEF Once
<1>6. PICK r : r = AddOn(emitter, stack, type, Fn(l, m))
  OBVIOUS
<1>7. Fn(l, m) \in Function
  BY <1>4 DEF Fn, Function
<1>8. EmitterOK(r.em) /\ StackOK(r.em, r.stk)
  BY <1>6, <1>7, AddOK DEF EventsInv
<1>9. EmitterOK(emitter)' /\ StackOK(emitter, stack)' /\ stack' # <<>>
  BY <1>5, <1>6, <1>8, BecomesRight
<1>10. HistoryRight'
  <2>1. PICK n2 : n2 = Append(n, 0)
    OBVIOUS
  <2>2. /\ n2 \in Seq(Nat) /\ DOMAIN n2 = 1..(Len(n) + 1) /\ DOMAIN n = 1..Len(n)
        /\ \A k \in 1..Len(n) : n2[k] = n[k]
        /\ n2[Len(n) + 1] = 0
    BY <2>1, AppendProperties, LenProperties
  <2>3. PICK c2 \in Nat : c2 = c + 1
    OBVIOUS
  <2>4. PICK h : h = [history EXCEPT !.calls = c2]
    OBVIOUS
  <2>5. /\ h \in [calls : Nat, runs : Seq(Nat), missed : {FALSE}, spinning : BOOLEAN]
        /\ h.spinning = FALSE
    BY <1>2, <2>4
  <2>6. PICK g : g = [h EXCEPT !.runs = n2]
    OBVIOUS
  <2>7. history.calls = c /\ history.runs = n
    BY <1>2
  <2>8. history' = [history EXCEPT !.calls = c2, !.runs = n2]
    BY <1>1, <2>1, <2>3, <2>7, Zenon
  <2>9. history' = g
    BY <2>4, <2>6, <2>8, Zenon
  <2>10. \A k \in DOMAIN n : n[k] = 0 \/ (n[k] = 1 /\ k \in fired)
    BY <2>7 DEF EventsInv, HistoryRight
  <2>11. \A k \in DOMAIN n2 : n2[k] = 0 \/ (n2[k] = 1 /\ k \in fired)
    BY <1>4, <2>2, <2>10
  <2>12. /\ history'.runs = n2 /\ history'.spinning = FALSE
         /\ history' \in [calls : Nat, runs : Seq(Nat), missed : {FALSE}, spinning : BOOLEAN]
    <3>1. /\ g \in [calls : Nat, runs : Seq(Nat), missed : {FALSE}, spinning : BOOLEAN]
          /\ g.runs = n2 /\ g.spinning = h.spinning
      BY <2>2, <2>5, <2>6, OtherRuns
    <3> QED
      BY <2>5, <2>9, <3>1, Zenon
  <2> QED
    BY <1>1, <2>11, <2>12, Zenon DEF HistoryRight
<1> QED
  BY <1>9, <1>10 DEF EventsInv

LEMMA EmitStep == EventsInv /\ Emit => EventsInv'
<1> SUFFICES ASSUME EventsInv, Emit PROVE EventsInv'
  OBVIOUS
<1>1. PICK type \in EventTypes : Becomes([em |-> emitter, stk |-> EmitOn(emitter, stack, type)])
  BY DEF Emit
<1>2. PICK t : t = EmitOn(emitter, stack, type)
  OBVIOUS
<1>3. StackOK(emitter, t)
  BY <1>2, EmitOK DEF EventsInv
<1>4. PICK r : r = [em |-> emitter, stk |-> t]
  OBVIOUS
<1>5. r.em = emitter /\ r.stk = t
  BY <1>4
<1>6. EmitterOK(emitter)' /\ StackOK(emitter, stack)' /\ stack' # <<>>
  BY <1>1, <1>2, <1>3, <1>4, <1>5, BecomesRight DEF EventsInv
<1>7. HistoryRight'
  BY NotClear, SameHistory DEF EventsInv, Emit, May, Counted
<1> QED
  BY <1>6, <1>7 DEF EventsInv

LEMMA RemoveListenerStep == EventsInv /\ RemoveListener => EventsInv'
<1> SUFFICES ASSUME EventsInv, RemoveListener PROVE EventsInv'
  OBVIOUS
<1>1. PICK type \in EventTypes, l \in Listeners :
         Becomes(RemoveOn(emitter, stack, type, Fn(l, 0)))
  BY DEF RemoveListener
<1>2. PICK r : r = RemoveOn(emitter, stack, type, Fn(l, 0))
  OBVIOUS
<1>3. EmitterOK(r.em) /\ StackOK(r.em, r.stk)
  BY <1>2, RemoveOK DEF EventsInv
<1>4. EmitterOK(emitter)' /\ StackOK(emitter, stack)' /\ stack' # <<>>
  BY <1>1, <1>2, <1>3, BecomesRight
<1>5. HistoryRight'
  BY NotClear, SameHistory DEF EventsInv, RemoveListener, May, Counted
<1> QED
  BY <1>4, <1>5 DEF EventsInv

LEMMA RemoveAllListenersStep == EventsInv /\ RemoveAllListeners => EventsInv'
<1> SUFFICES ASSUME EventsInv, RemoveAllListeners PROVE EventsInv'
  OBVIOUS
<1>1. PICK type \in EventTypes : Becomes(RemoveAllOn(emitter, stack, type))
  BY DEF RemoveAllListeners
<1>2. PICK r : r = RemoveAllOn(emitter, stack, type)
  OBVIOUS
<1>3. EmitterOK(r.em) /\ StackOK(r.em, r.stk)
  BY <1>2, RemoveAllOK DEF EventsInv
<1>4. EmitterOK(emitter)' /\ StackOK(emitter, stack)' /\ stack' # <<>>
  BY <1>1, <1>2, <1>3, BecomesRight
<1>5. HistoryRight'
  BY NotClear, SameHistory DEF EventsInv, RemoveAllListeners, May, Counted
<1> QED
  BY <1>4, <1>5 DEF EventsInv

(* The types, one after another.                                             *)
LEMMA TypesInOrder == AllTypes \in Seq(EventTypes)
<1>1. PICK others : others = EventTypes \ {"removeListener"}
  OBVIOUS
<1>2. IsFiniteSet(others)
  BY <1>1, EventsAssumption, FS_Subset
<1>3. PICK n : n = Cardinality(others)
  OBVIOUS
<1>4. n \in Nat /\ \E f \in [1..n -> others] : IsInjective(f)
  <2>1. n \in Nat /\ ExistsBijection(1..n, others)
    BY <1>2, <1>3, FS_CardinalityType
  <2> QED
    BY <2>1 DEF ExistsBijection, Bijection, Injection, IsInjective
<1>5. PICK s : s = SetToSeq(others)
  OBVIOUS
<1>6. s \in [1..n -> others]
  BY <1>3, <1>4, <1>5 DEF SetToSeq
<1>7. s \in Seq(EventTypes)
  <2>1. s = [k \in 1..n |-> s[k]] /\ \A k \in 1..n : s[k] \in EventTypes
    BY <1>1, <1>6
  <2> QED
    BY <1>4, <2>1
<1> QED
  BY <1>1, <1>5, <1>7, EventsAssumption, AppendProperties DEF AllTypes

LEMMA RemoveEverythingStep == EventsInv /\ RemoveEverything => EventsInv'
<1> SUFFICES ASSUME EventsInv, RemoveEverything PROVE EventsInv'
  OBVIOUS
<1>1. EmitterOK(emitter)' /\ StackOK(emitter, stack)' /\ stack' # <<>>
  <2>1. CASE Kept(emitter, "removeListener") = <<>>
    <3>1. Becomes(DropAll(emitter, stack))
      BY <2>1 DEF RemoveEverything
    <3>2. PICK r : r = DropAll(emitter, stack)
      OBVIOUS
    <3>3. EmitterOK(r.em) /\ StackOK(r.em, r.stk)
      BY <3>2, DropAllOK DEF EventsInv
    <3> QED
      BY <3>1, <3>2, <3>3, BecomesRight
  <2>2. CASE Kept(emitter, "removeListener") # <<>>
    <3>1. PICK all : all = AllTypes
      OBVIOUS
    <3>2. PICK g : g = [Body EXCEPT !.kind = "all"]
      OBVIOUS
    <3>3. PICK f : f = [g EXCEPT !.types = all]
      OBVIOUS
    <3>4. g = [kind |-> "all", type |-> "none", fns |-> <<>>, list |-> 0, kept |-> {},
               called |-> {}, pos |-> 1, types |-> <<>>]
      BY <3>2 DEF Body
    <3>5. f = [kind |-> "all", type |-> "none", fns |-> <<>>, list |-> 0, kept |-> {},
               called |-> {}, pos |-> 1, types |-> all]
      BY <3>3, <3>4
    <3>6. f \in Frames /\ f.kind = "all"
      BY <3>1, <3>5, EmptySeq, TypesInOrder DEF Frames, Kinds
    <3>7. FrameOK(emitter, f)
      BY <3>6 DEF FrameOK
    <3>8. PICK t : t = Append(stack, f)
      OBVIOUS
    <3>9. StackOK(emitter, t)
      BY <3>6, <3>7, <3>8, StackAppend DEF EventsInv
    <3>10. [Body EXCEPT !.kind = "all", !.types = AllTypes] = f
      BY <3>1, <3>2, <3>3, Zenon
    <3>11. PICK r : r = [em |-> emitter, stk |-> t]
      OBVIOUS
    <3>12. Becomes(r)
      BY <2>2, <3>8, <3>10, <3>11, Zenon DEF RemoveEverything, PushFrame
    <3>13. r.em = emitter /\ r.stk = t
      BY <3>11
    <3> QED
      BY <3>9, <3>12, <3>13, BecomesRight DEF EventsInv
  <2> QED
    BY <2>1, <2>2
<1>2. HistoryRight'
  BY NotClear, SameHistory DEF EventsInv, RemoveEverything, May, Counted
<1> QED
  BY <1>1, <1>2 DEF EventsInv

LEMMA ReturnStep == EventsInv /\ Return => EventsInv'
<1> SUFFICES ASSUME EventsInv, Return PROVE EventsInv'
  OBVIOUS
<1>1. EmitterOK(emitter)' /\ emitter' = emitter
  BY DEF EventsInv, Return
<1>2. StackOK(emitter', stack') /\ stack' # <<>>
  <2>1. CASE stack' = Below
    <3>1. StackOK(emitter, Below) /\ Below # <<>>
      BY StackFront DEF EventsInv, Return, Below
    <3> QED
      BY <1>1, <2>1, <3>1, Zenon
  <2>2. CASE stack' = <<Body>>
    BY <2>2, OnlyBody, Zenon
  <2> QED
    BY <2>1, <2>2 DEF Return
<1>3. HistoryRight'
  BY NotClear, SameHistory DEF EventsInv, Return
<1> QED
  BY <1>1, <1>2, <1>3 DEF EventsInv

(* What is left of the list an emit goes through.                            *)
LEMMA LeftToCall ==
    ASSUME NEW f \in Frames
    PROVE  /\ Remaining(emitter, f) = <<>> => f.pos > Len(f.fns)
           /\ Remaining(emitter, f) # <<>> =>
                 /\ f.pos \in 1..Len(f.fns) /\ Head(Remaining(emitter, f)) = f.fns[f.pos]
                 /\ f.fns[f.pos] \in Function
<1>1. /\ f.fns \in Seq(Function) /\ f.pos \in Nat \ {0} /\ Len(f.fns) \in Nat
      /\ \A j \in 1..Len(f.fns) : f.fns[j] \in Function
  <2>1. f.fns \in Seq(Function) /\ f.pos \in Nat \ {0}
    BY DEF Frames
  <2> QED
    BY <2>1, LenProperties, ElementOfSeq
<1>2. PICK s \in Seq(Function) : s = f.fns
  BY <1>1
<1>3. PICK p \in Nat : p = f.pos /\ p # 0
  BY <1>1
<1>4. PICK n \in Nat : n = Len(s)
  BY <1>1, <1>2
<1>5. PICK t : t = SubSeq(s, p, n)
  OBVIOUS
<1>6. \A j \in p..n : s[j] \in Function
  BY <1>1, <1>2, <1>3, <1>4
<1>7. /\ t \in Seq(Function) /\ Len(t) = IF p <= n THEN n - p + 1 ELSE 0
      /\ \A j \in 1..(n - p + 1) : t[j] = s[p + j - 1]
  BY <1>5, <1>6, SubSeqProperties
<1>8. t = Remaining(emitter, f)
  BY <1>2, <1>3, <1>4, <1>5 DEF Remaining, Iterated
<1>9. ASSUME t = <<>> PROVE p > n
  BY <1>7, <1>9, EmptySeq
<1>10. ASSUME t # <<>> PROVE p <= n /\ Head(t) = s[p] /\ s[p] \in Function
  <2>1. Len(t) # 0
    BY <1>7, <1>10, EmptySeq
  <2>2. p <= n
    BY <1>7, <2>1
  <2>3. t[1] = s[p]
    <3>1. 1 \in 1..(n - p + 1) /\ p + 1 - 1 = p
      BY <2>2
    <3> QED
      BY <1>7, <3>1
  <2>4. Head(t) = t[1]
    BY <1>7, <1>10, HeadTailProperties
  <2> QED
    BY <1>6, <2>2, <2>3, <2>4
<1> QED
  BY <1>2, <1>3, <1>4, <1>8, <1>9, <1>10

(* An emit that has called its next listener.                                *)
LEMMA CalledOneMore ==
    ASSUME NEW em, NEW f, FrameOK(em, f), f.kind = "emit", f.pos \in 1..Len(f.fns),
           NEW fn \in Function, fn = f.fns[f.pos],
           NEW g, g = [f EXCEPT !.pos = @ + 1, !.called = @ \cup {fn}]
    PROVE  FrameOK(em, g) /\ g.kind = "emit"
<1>1. f \in Frames /\ Owes(f) /\ f.type \in EventTypes
  BY DEF FrameOK
<1>2. PICK type, fns, list, kept, called, pos, types :
         f = [kind |-> "emit", type |-> type, fns |-> fns, list |-> list, kept |-> kept,
              called |-> called, pos |-> pos, types |-> types]
  BY <1>1 DEF Frames
<1>3. PICK pos2, called2 : pos2 = pos + 1 /\ called2 = called \cup {fn}
  OBVIOUS
<1>4. PICK h : h = [f EXCEPT !.pos = pos2]
  OBVIOUS
<1>5. h = [kind |-> "emit", type |-> type, fns |-> fns, list |-> list, kept |-> kept,
           called |-> called, pos |-> pos2, types |-> types]
  BY <1>2, <1>4
<1>6. PICK q : q = [h EXCEPT !.called = called2]
  OBVIOUS
<1>7. q = [kind |-> "emit", type |-> type, fns |-> fns, list |-> list, kept |-> kept,
           called |-> called2, pos |-> pos2, types |-> types]
  BY <1>5, <1>6
<1>8. f.pos = pos /\ f.called = called
  BY <1>2
<1>9. g = q
  BY <1>3, <1>4, <1>6, <1>8, Zenon
<1>10. /\ f.type = type /\ f.fns = fns /\ f.list = list /\ f.kept = kept /\ f.types = types
       /\ q.kind = "emit" /\ q.type = type /\ q.fns = fns /\ q.list = list /\ q.kept = kept
       /\ q.called = called2 /\ q.pos = pos2 /\ q.types = types
  <2>1. f.type = type /\ f.fns = fns /\ f.list = list /\ f.kept = kept /\ f.types = types
    BY <1>2
  <2>2. q.kind = "emit" /\ q.type = type /\ q.fns = fns /\ q.list = list /\ q.kept = kept
    BY <1>7
  <2>3. q.called = called2 /\ q.pos = pos2 /\ q.types = types
    BY <1>7
  <2> QED
    BY <2>1, <2>2, <2>3
<1>11. pos \in Nat /\ pos2 \in Nat \ {0} /\ called \in SUBSET Function /\ called2 \in SUBSET Function
  BY <1>1, <1>2, <1>3 DEF Frames
<1>12. q \in Frames
  BY <1>1, <1>7, <1>10, <1>11 DEF Frames, Kinds
<1>13. Owes(q)
  <2> SUFFICES ASSUME NEW x \in kept
               PROVE  x \in called2 \/ \E j \in DOMAIN fns : pos2 <= j /\ fns[j] = x
    BY <1>10 DEF Owes
  <2>1. x \in called \/ \E j \in DOMAIN fns : pos <= j /\ fns[j] = x
    BY <1>1, <1>8, <1>10 DEF Owes
  <2>2. ASSUME NEW j \in DOMAIN fns, pos <= j, fns[j] = x, j # pos PROVE pos2 <= j
    <3>1. j \in Nat
      <4>1. fns \in Seq(Function)
        BY <1>1, <1>10 DEF Frames
      <4> QED
        BY <4>1, LenProperties
    <3> QED
      BY <1>3, <1>11, <2>2, <3>1
  <2>3. fns[pos] = fn
    BY <1>8, <1>10
  <2> QED
    BY <1>3, <2>1, <2>2, <2>3
<1> QED
  BY <1>1, <1>9, <1>10, <1>12, <1>13 DEF FrameOK

LEMMA CallNextStep == EventsInv /\ CallNext => EventsInv'
<1> SUFFICES ASSUME EventsInv, CallNext PROVE EventsInv'
  OBVIOUS
<1>1. PICK f : f = Top
  OBVIOUS
<1>2. /\ StackOK(emitter, Below) /\ FrameOK(emitter, f) /\ Below # <<>>
      /\ f.kind = "emit" /\ f \in Frames /\ f.type \in EventTypes
  <2>1. f.kind = "emit"
    BY <1>1 DEF CallNext
  <2>2. StackOK(emitter, Below) /\ FrameOK(emitter, f) /\ Below # <<>>
    BY <1>1, <2>1, StackFront DEF EventsInv, Top, Below
  <2> QED
    BY <2>1, <2>2 DEF FrameOK
<1>3. history.spinning = FALSE /\ fired' = fired
  BY DEF CallNext, EventsInv, HistoryRight
<1>4. PICK left : left = Remaining(emitter, f)
  OBVIOUS
<1>5. CASE left = <<>>
  <2>1. /\ stack' = Below /\ emitter' = emitter
        /\ history' = [history EXCEPT !.missed = @ \/ ~(f.kept \subseteq f.called)]
    BY <1>1, <1>4, <1>5 DEF CallNext
  <2>2. f.kept \subseteq f.called
    <3>1. f.pos > Len(f.fns)
      BY <1>2, <1>4, <1>5, LeftToCall
    <3>2. DOMAIN f.fns = 1..Len(f.fns) /\ Len(f.fns) \in Nat /\ f.pos \in Nat
      <4>1. f.fns \in Seq(Function) /\ f.pos \in Nat
        BY <1>2 DEF Frames
      <4> QED
        BY <4>1, LenProperties
    <3>3. \A j \in DOMAIN f.fns : ~ (f.pos <= j)
      BY <3>1, <3>2
    <3> QED
      BY <1>2, <3>3 DEF FrameOK, Owes
  <2>3. history' = history
    <3>1. history' = [history EXCEPT !.missed = history.missed]
      <4>1. history.missed = FALSE
        BY DEF EventsInv, HistoryRight
      <4>2. PICK b : b = (history.missed \/ ~ (f.kept \subseteq f.called))
        OBVIOUS
      <4>3. b = FALSE
        BY <2>2, <4>1, <4>2
      <4>4. history' = [history EXCEPT !.missed = b]
        BY <2>1, <4>2, Zenon
      <4> QED
        BY <4>1, <4>3, <4>4, Zenon
    <3>2. history \in [calls : Nat, runs : Seq(Nat), missed : {FALSE}, spinning : BOOLEAN]
      BY DEF EventsInv, HistoryRight
    <3>3. \A h \in [calls : Nat, runs : Seq(Nat), missed : {FALSE}, spinning : BOOLEAN] :
             [h EXCEPT !.missed = h.missed] = h
      OBVIOUS
    <3> QED
      BY <3>1, <3>2, <3>3
  <2>4. HistoryRight'
    BY <1>3, <2>3, SameHistory DEF EventsInv
  <2>5. EmitterOK(emitter') /\ StackOK(emitter', stack') /\ stack' # <<>>
    BY <1>2, <2>1, Zenon DEF EventsInv
  <2> QED
    BY <2>4, <2>5 DEF EventsInv
<1>6. CASE left # <<>>
  <2>1. PICK fn \in Function : fn = Head(left) /\ fn = f.fns[f.pos] /\ f.pos \in 1..Len(f.fns)
    BY <1>2, <1>4, <1>6, LeftToCall
  <2>2. PICK g : g = [f EXCEPT !.pos = @ + 1, !.called = @ \cup {fn}]
    OBVIOUS
  <2>3. FrameOK(emitter, g) /\ g.kind = "emit"
    BY <1>2, <2>1, <2>2, CalledOneMore
  <2>4. PICK rest : rest = Append(Below, g)
    OBVIOUS
  <2>5. StackOK(emitter, rest) /\ rest # <<>>
    BY <1>2, <2>3, <2>4, StackAppend
  <2>6. /\ history' = history
        /\ IF fn.once = 0
           THEN stack' = PushFrame(rest, Body) /\ emitter' = emitter
           ELSE Becomes(RemoveOn(emitter, PushFrame(rest, Frame("once", f.type, <<fn>>, 0)), f.type, fn))
    BY <1>1, <1>4, <1>6, <2>1, <2>2, <2>4, Zenon DEF CallNext
  <2>7. HistoryRight'
    BY <1>3, <2>6, SameHistory DEF EventsInv
  <2>8. EmitterOK(emitter') /\ StackOK(emitter', stack') /\ stack' # <<>>
    <3>1. CASE fn.once = 0
      <4>1. stack' = Append(rest, Body) /\ emitter' = emitter
        BY <2>6, <3>1 DEF PushFrame
      <4>2. FrameOK(emitter, Body) /\ Body.kind # "clear"
        BY BodyOK
      <4>3. StackOK(emitter, Append(rest, Body)) /\ Append(rest, Body) # <<>>
        BY <2>5, <4>2, StackAppend
      <4> QED
        BY <4>1, <4>3, Zenon DEF EventsInv
    <3>2. CASE fn.once # 0
      <4>1. PICK t : t = PushFrame(rest, Frame("once", f.type, <<fn>>, 0))
        OBVIOUS
      <4>2. StackOK(emitter, t) /\ t # <<>>
        BY <1>2, <2>5, <4>1, PushOK
      <4>3. PICK r : r = RemoveOn(emitter, t, f.type, fn)
        OBVIOUS
      <4>4. EmitterOK(r.em) /\ StackOK(r.em, r.stk)
        BY <1>2, <4>2, <4>3, RemoveOK DEF EventsInv
      <4>5. Becomes(r)
        BY <2>6, <3>2, <4>1, <4>3
      <4> QED
        BY <4>4, <4>5, BecomesRight
    <3> QED
      BY <3>1, <3>2
  <2> QED
    BY <2>7, <2>8 DEF EventsInv
<1> QED
  BY <1>5, <1>6

LEMMA CallOnceStep == EventsInv /\ CallOnce => EventsInv'
<1> SUFFICES ASSUME EventsInv, CallOnce PROVE EventsInv'
  OBVIOUS
<1>1. PICK f : f = Top
  OBVIOUS
<1>2. StackOK(emitter, Below) /\ Below # <<>> /\ f.kind = "once"
  <2>1. f.kind = "once"
    BY <1>1 DEF CallOnce
  <2> QED
    BY <1>1, <2>1, StackFront DEF EventsInv, Top, Below
<1>3. history.spinning = FALSE /\ emitter' = emitter
  BY <1>1, <1>2, NotClear DEF CallOnce, EventsInv
<1>4. PICK k : k = Head(f.fns).once
  OBVIOUS
<1>5. CASE Fires(k)
  <2>1. /\ stack' = Append(Below, Body) /\ fired' = fired \cup {k}
        /\ history' = [history EXCEPT !.runs[k] = @ + 1]
    BY <1>1, <1>4, <1>5 DEF CallOnce, PushFrame
  <2>2. FrameOK(emitter, Body) /\ Body.kind # "clear"
    BY BodyOK
  <2>3. StackOK(emitter, Append(Below, Body)) /\ Append(Below, Body) # <<>>
    BY <1>2, <2>2, StackAppend
  <2>4. EmitterOK(emitter') /\ StackOK(emitter', stack') /\ stack' # <<>>
    BY <1>3, <2>1, <2>3, Zenon DEF EventsInv
  <2>5. PICK n : n = history.runs
    OBVIOUS
  <2>6. /\ n \in Seq(Nat) /\ DOMAIN n = 1..Len(n) /\ \A j \in DOMAIN n : n[j] \in Nat
        /\ \A j \in DOMAIN n : n[j] = 0 \/ (n[j] = 1 /\ j \in fired)
        /\ history \in [calls : Nat, runs : Seq(Nat), missed : {FALSE}, spinning : BOOLEAN]
    <3>1. /\ history \in [calls : Nat, runs : Seq(Nat), missed : {FALSE}, spinning : BOOLEAN]
          /\ \A j \in DOMAIN n : n[j] = 0 \/ (n[j] = 1 /\ j \in fired)
      BY <2>5 DEF EventsInv, HistoryRight
    <3>2. n \in Seq(Nat)
      BY <2>5, <3>1
    <3>3. DOMAIN n = 1..Len(n)
      BY <3>2, LenProperties
    <3>4. \A j \in DOMAIN n : n[j] \in Nat
      BY <3>2, <3>3, ElementOfSeq
    <3> QED
      BY <3>1, <3>2, <3>3, <3>4
  <2>7. PICK n2 : n2 = [n EXCEPT ![k] = n[k] + 1]
    OBVIOUS
  <2>8. n2 \in Seq(Nat) /\ \A j \in DOMAIN n2 : n2[j] = 0 \/ (n2[j] = 1 /\ j \in fired')
    <3>1. CASE k \in DOMAIN n
      <4>1. n[k] = 0
        BY <1>5, <2>6, <3>1 DEF Fires
      <4>2. n2 = [n EXCEPT ![k] = 1]
        BY <2>7, <4>1
      <4>3. /\ n2 \in Seq(Nat) /\ DOMAIN n2 = DOMAIN n
            /\ \A j \in DOMAIN n : n2[j] = IF j = k THEN 1 ELSE n[j]
        BY <2>6, <3>1, <4>2, ExceptSeq
      <4> QED
        BY <2>1, <2>6, <4>3
    <3>2. CASE k \notin DOMAIN n
      <4>1. n2 = n
        BY <2>6, <2>7, <3>2
      <4> QED
        BY <2>1, <2>6, <4>1
    <3> QED
      BY <3>1, <3>2
  <2>9. history' = [history EXCEPT !.runs = n2]
    <3>1. [history EXCEPT !.runs[k] = history.runs[k] + 1] =
             [history EXCEPT !.runs = [history.runs EXCEPT ![k] = history.runs[k] + 1]]
      BY <2>6
    <3> QED
      BY <2>1, <2>5, <2>7, <3>1, Zenon
  <2>10. /\ history' \in [calls : Nat, runs : Seq(Nat), missed : {FALSE}, spinning : BOOLEAN]
         /\ history'.runs = n2 /\ history'.spinning = history.spinning
    BY <2>6, <2>8, <2>9, OtherRuns
  <2>11. HistoryRight'
    BY <1>3, <2>8, <2>10, Zenon DEF HistoryRight
  <2> QED
    BY <2>4, <2>11 DEF EventsInv
<1>6. CASE ~ Fires(k)
  <2>1. stack' = Below /\ history' = history /\ fired' = fired
    BY <1>1, <1>4, <1>6 DEF CallOnce
  <2>2. EmitterOK(emitter') /\ StackOK(emitter', stack') /\ stack' # <<>>
    BY <1>2, <1>3, <2>1, Zenon DEF EventsInv
  <2>3. HistoryRight'
    BY <1>3, <2>1, SameHistory DEF EventsInv
  <2> QED
    BY <2>2, <2>3 DEF EventsInv
<1> QED
  BY <1>5, <1>6

LEMMA AddAfterEmitStep == EventsInv /\ AddAfterEmit => EventsInv'
<1> SUFFICES ASSUME EventsInv, AddAfterEmit PROVE EventsInv'
  OBVIOUS
<1>1. PICK f : f = Top
  OBVIOUS
<1>2. StackOK(emitter, Below) /\ FrameOK(emitter, f) /\ Below # <<>> /\ f.kind = "add"
  <2>1. f.kind = "add"
    BY <1>1 DEF AddAfterEmit
  <2> QED
    BY <1>1, <2>1, StackFront DEF EventsInv, Top, Below
<1>3. PICK fn : fn = Head(f.fns)
  OBVIOUS
<1>4. f.type \in EventTypes /\ fn \in Function
  <2>1. f.type \in EventTypes /\ f.fns \in Seq(Function) /\ f.fns # <<>>
    BY <1>2 DEF FrameOK, Frames
  <2> QED
    BY <1>3, <2>1, HeadTailProperties
<1>5. PICK em : em = Added(emitter, f.type, fn)
  OBVIOUS
<1>6. EmitterOK(em) /\ Moves(emitter, em)
  BY <1>4, <1>5, AddedOK DEF EventsInv
<1>7. StackOK(em, Below)
  BY <1>2, <1>6, StackMoves DEF EventsInv
<1>8. emitter' = em /\ stack' = Below
  BY <1>1, <1>3, <1>5 DEF AddAfterEmit
<1>9. EmitterOK(emitter') /\ StackOK(emitter', stack') /\ stack' # <<>>
  BY <1>2, <1>6, <1>7, <1>8, Zenon
<1>10. HistoryRight'
  BY NotClear, SameHistory DEF EventsInv, AddAfterEmit
<1> QED
  BY <1>9, <1>10 DEF EventsInv

LEMMA ClearNextStep == EventsInv /\ ClearNext => EventsInv'
<1> SUFFICES ASSUME EventsInv, ClearNext PROVE EventsInv'
  OBVIOUS
<1>1. PICK f : f = Top
  OBVIOUS
<1>2. StackOK(emitter, Below) /\ FrameOK(emitter, f) /\ Below # <<>> /\ f.kind = "all"
  <2>1. f.kind = "all"
    BY <1>1 DEF ClearNext
  <2> QED
    BY <1>1, <2>1, StackFront DEF EventsInv, Top, Below
<1>3. HistoryRight'
  BY NotClear, SameHistory DEF EventsInv, ClearNext
<1>4. CASE f.types = <<>>
  <2>1. PICK r : r = DropAll(emitter, Below)
    OBVIOUS
  <2>2. Becomes(r)
    BY <1>1, <1>4, <2>1 DEF ClearNext
  <2>3. EmitterOK(r.em) /\ StackOK(r.em, r.stk)
    BY <1>2, <2>1, DropAllOK DEF EventsInv
  <2> QED
    BY <1>3, <2>2, <2>3, BecomesRight DEF EventsInv
<1>5. CASE f.types # <<>>
  <2>1. PICK type, types : type = Head(f.types) /\ types = Tail(f.types)
    OBVIOUS
  <2>2. f.types \in Seq(EventTypes) /\ f \in Frames
    BY <1>2 DEF FrameOK, Frames
  <2>3. type \in EventTypes /\ types \in Seq(EventTypes)
    BY <1>5, <2>1, <2>2, HeadTailProperties
  <2>4. PICK g : g = [f EXCEPT !.types = types]
    OBVIOUS
  <2>5. g \in Frames /\ g.kind = "all"
    BY <1>2, <2>2, <2>3, <2>4 DEF Frames
  <2>6. FrameOK(emitter, g)
    BY <2>5 DEF FrameOK
  <2>7. PICK t : t = Append(Below, g)
    OBVIOUS
  <2>8. StackOK(emitter, t) /\ t # <<>>
    BY <1>2, <2>5, <2>6, <2>7, StackAppend
  <2>9. PICK r : r = RemoveAllOn(emitter, t, type)
    OBVIOUS
  <2>10. EmitterOK(r.em) /\ StackOK(r.em, r.stk)
    BY <2>3, <2>8, <2>9, RemoveAllOK DEF EventsInv
  <2>11. Becomes(r)
    BY <1>1, <1>5, <2>1, <2>4, <2>7, <2>9, Zenon DEF ClearNext
  <2> QED
    BY <1>3, <2>10, <2>11, BecomesRight DEF EventsInv
<1> QED
  BY <1>4, <1>5

LEMMA ClearStep == EventsInv /\ Clear => EventsInv'
<1> SUFFICES ASSUME EventsInv, Clear PROVE EventsInv'
  OBVIOUS
<1>1. PICK f : f = Top
  OBVIOUS
<1>2. /\ StackOK(emitter, Below) /\ FrameOK(emitter, f) /\ Below # <<>> /\ f.kind = "clear"
      /\ \A k \in 1..Len(Below) : InTurn(emitter, Below[k], f)
      /\ f.type \in EventTypes /\ f.list \in Nat /\ Empties(emitter, f)
  <2>1. f.kind = "clear"
    BY <1>1 DEF Clear
  <2>2. /\ StackOK(emitter, Below) /\ FrameOK(emitter, f) /\ Below # <<>>
        /\ \A k \in 1..Len(Below) : InTurn(emitter, Below[k], f)
    BY <1>1, <2>1, StackFront DEF EventsInv, Top, Below
  <2> QED
    BY <2>1, <2>2 DEF FrameOK, Frames
<1>3. history.spinning = FALSE /\ fired' = fired
  BY DEF Clear, EventsInv, HistoryRight
<1>4. PICK list : list = IF f.list = 0 THEN <<>> ELSE emitter.heap[f.list]
  OBVIOUS
<1>5. CASE list = <<>>
  <2>1. PICK em : em = [emitter EXCEPT !.events[f.type] = 0]
    OBVIOUS
  <2>2. emitter' = em /\ stack' = ForgetAll(Below, f.type) /\ history' = history
    BY <1>1, <1>4, <1>5, <2>1, Zenon DEF Clear
  <2>3. f.list # 0 => emitter.heap[f.list] = <<>>
    BY <1>4, <1>5
  <2>4. EmitterOK(em) /\ StackOK(em, Below)
    BY <1>2, <2>1, <2>3, ClearedOK DEF EventsInv
  <2>5. StackOK(em, ForgetAll(Below, f.type)) /\ ForgetAll(Below, f.type) # <<>>
    BY <1>2, <2>4, ForgetAllOK
  <2>6. EmitterOK(emitter') /\ StackOK(emitter', stack') /\ stack' # <<>>
    BY <2>2, <2>4, <2>5, Zenon
  <2>7. HistoryRight'
    BY <1>3, <2>2, SameHistory DEF EventsInv
  <2> QED
    BY <2>6, <2>7 DEF EventsInv
<1>6. CASE list # <<>>
  <2>1. list = emitter.heap[f.list] /\ f.list \in 1..Len(emitter.heap)
    <3>1. f.list # 0 /\ f.list <= Len(emitter.heap)
      BY <1>2, <1>4, <1>6 DEF Empties
    <3> QED
      BY <1>2, <1>4, <1>6, <3>1
  <2>2. list \in Seq(Function)
    <3>1. emitter.heap \in Seq(Seq(Function))
      BY DEF EventsInv, EmitterOK
    <3> QED
      BY <2>1, <3>1, ElementOfSeq
  <2>3. Len(list) \in 1..Len(list) /\ Last(list) = list[Len(list)]
    BY <1>6, <2>2, EmptySeq, LenProperties DEF Last
  <2>4. PICK r : r = RemoveOn(emitter, stack, f.type, Last(list))
    OBVIOUS
  <2>5. Becomes(r) /\ history' = [history EXCEPT !.spinning = (r.em = emitter)]
    BY <1>1, <1>4, <1>6, <2>4, Zenon DEF Clear
  <2>6. /\ EmitterOK(r.em) /\ StackOK(r.em, r.stk)
        /\ r.em = emitter =>
              /\ r.stk = stack
              /\ \A k \in 1..Len(Kept(emitter, f.type)) :
                    ~ Is(Kept(emitter, f.type)[k], Last(list))
    BY <1>2, <2>4, RemoveOK DEF EventsInv
  <2>7. EmitterOK(emitter)' /\ StackOK(emitter, stack)' /\ stack' # <<>>
    BY <2>5, <2>6, BecomesRight
  <2>8. ASSUME r.em = emitter
        PROVE  stack' = stack /\ emitter' = emitter /\ f.list \in emitter.dropped
    <3>1. stack' = stack /\ emitter' = emitter
      BY <2>5, <2>6, <2>8 DEF Becomes, EventsInv
    <3>2. emitter.events[f.type] # f.list
      <4> SUFFICES ASSUME emitter.events[f.type] = f.list PROVE FALSE
        OBVIOUS
      <4>1. Kept(emitter, f.type) = list
        BY <2>1 DEF Kept
      <4>2. Is(list[Len(list)], Last(list))
        BY <2>3 DEF Is
      <4> QED
        BY <2>3, <2>6, <2>8, <4>1, <4>2
    <3>3. f.list # 0
      BY <2>1
    <3> QED
      BY <1>2, <1>6, <2>1, <3>1, <3>2, <3>3 DEF Empties
  <2>9. PICK b \in BOOLEAN : b = (r.em = emitter)
    OBVIOUS
  <2>10. history' = [history EXCEPT !.spinning = b]
    BY <2>5, <2>9, Zenon
  <2>11. history \in [calls : Nat, runs : Seq(Nat), missed : {FALSE}, spinning : BOOLEAN]
    BY DEF EventsInv, HistoryRight
  <2>12. /\ history' \in [calls : Nat, runs : Seq(Nat), missed : {FALSE}, spinning : BOOLEAN]
         /\ history'.runs = history.runs /\ history'.spinning = b
    BY <2>10, <2>11
  <2>13. b => Top'.kind = "clear" /\ Top'.list \in emitter'.dropped
    <3>1. b => stack' = stack /\ emitter' = emitter /\ f.list \in emitter.dropped
      BY <2>8, <2>9
    <3>2. b => Top' = f
      BY <1>1, <3>1 DEF Top
    <3> QED
      BY <1>2, <3>1, <3>2, Zenon
  <2>14. HistoryRight'
    <3>1. \A k \in DOMAIN history.runs : history.runs[k] = 0 \/ (history.runs[k] = 1 /\ k \in fired)
      BY DEF EventsInv, HistoryRight
    <3> QED
      BY <1>3, <2>12, <2>13, <3>1, Zenon DEF HistoryRight
  <2> QED
    BY <2>7, <2>14 DEF EventsInv
<1> QED
  BY <1>5, <1>6

LEMMA InitEvents == EventsInit => EventsInv
<1> SUFFICES ASSUME EventsInit PROVE EventsInv
  OBVIOUS
<1>1. EmitterOK(emitter)
  <2>1. PICK none : none = [t \in EventTypes |-> 0]
    OBVIOUS
  <2>2. none \in [EventTypes -> Nat] /\ \A t \in EventTypes : none[t] = 0
    BY <2>1
  <2>3. emitter = [events |-> none, heap |-> <<>>, dropped |-> {}]
    BY <2>1 DEF EventsInit
  <2> QED
    BY <2>2, <2>3, EmptySeq DEF EmitterOK
<1>2. StackOK(emitter, stack) /\ stack # <<>>
  BY OnlyBody, Zenon DEF EventsInit
<1>3. HistoryRight
  <2>1. history = [calls |-> 0, runs |-> <<>>, missed |-> FALSE, spinning |-> FALSE]
    BY DEF EventsInit
  <2>2. DOMAIN <<>> = {}
    OBVIOUS
  <2> QED
    BY <2>1, <2>2, EmptySeq DEF HistoryRight
<1> QED
  BY <1>1, <1>2, <1>3 DEF EventsInv

LEMMA NextEvents == EventsInv /\ [EventsNext]_eventVars => EventsInv'
<1> SUFFICES ASSUME EventsInv, [EventsNext]_eventVars PROVE EventsInv'
  OBVIOUS
<1>1. CASE UNCHANGED eventVars
  <2>1. EmitterOK(emitter') /\ StackOK(emitter', stack') /\ stack' # <<>>
    BY <1>1 DEF EventsInv, eventVars
  <2>2. HistoryRight'
    BY <1>1 DEF EventsInv, HistoryRight, Top, eventVars
  <2> QED
    BY <2>1, <2>2 DEF EventsInv
<1>2. CASE EventsNext
  BY <1>2, AddListenerStep, OnceStep, EmitStep, RemoveListenerStep, RemoveAllListenersStep,
     RemoveEverythingStep, ClearNextStep, ReturnStep, CallNextStep, CallOnceStep,
     AddAfterEmitStep, ClearStep DEF EventsNext
<1> QED
  BY <1>1, <1>2

LEMMA EventsInvGives == EventsInv => ListenersAreCalled
<1> SUFFICES ASSUME EventsInv PROVE ListenersAreCalled
  OBVIOUS
<1>1. history.missed = FALSE
  BY DEF EventsInv, HistoryRight
<1>2. \A k \in DOMAIN history.runs : history.runs[k] = 0 \/ history.runs[k] = 1
  BY DEF EventsInv, HistoryRight
<1>3. \A k \in DOMAIN history.runs : history.runs[k] <= 1
  BY <1>2
<1>4. history.spinning => Top.kind = "clear" /\ Top.list \in emitter.dropped
  BY DEF EventsInv, HistoryRight
<1> QED
  BY <1>1, <1>3, <1>4, Zenon DEF ListenersAreCalled

(* An emit that returns has called every listener that was registered from   *)
(* its start to its end, the listener of a once() runs once, and a removal   *)
(* of all only loops for ever on a list that another one dropped, whatever   *)
(* listeners and types there are and however deep the calls nest             *)
(* (aidos.js 12307-12608).                                                   *)
THEOREM EveryListenerIsCalled == EventsSpec => []ListenersAreCalled
<1>1. EventsInit => EventsInv
  BY InitEvents
<1>2. EventsInv /\ [EventsNext]_eventVars => EventsInv'
  BY NextEvents
<1>3. EventsInv => ListenersAreCalled
  BY EventsInvGives
<1> QED
  BY <1>1, <1>2, <1>3, PTL DEF EventsSpec

-----------------------------------------------------------------------------
(* nextTick.                                                                 *)
(* s holds the numbers after n, in order.                                    *)
After(s, n) == \A k \in 1..Len(s) : s[k] = n + k

Started == Len(ran) - queueIndex

InStep ==
    /\ asked \in Seq(Nat) /\ ran \in Seq(Nat)
    /\ currentQueue \in Seq(Nat) /\ queue \in Seq(Nat)
    /\ queueIndex \in 0..Len(currentQueue)
    /\ Len(asked) <= MaxTicks
    /\ After(asked, 0) /\ After(ran, 0)
    /\ After(currentQueue, Started) /\ After(queue, Started + Len(currentQueue))
    /\ Started + Len(currentQueue) + Len(queue) = Len(asked)

NotDraining == ~draining => currentQueue = <<>> /\ ~looping

TicksInv == InStep /\ NotDraining

USE TicksAssumption

LEMMA InitTicks == TicksInit => TicksInv
  BY EmptySeq DEF TicksInit, TicksInv, InStep, NotDraining, After, Started

(* What every case below needs to know of the lengths.                       *)
LEMMA Lengths ==
    ASSUME InStep
    PROVE  /\ Len(asked) \in Nat /\ Len(ran) \in Nat /\ Len(queue) \in Nat
           /\ Len(currentQueue) \in Nat /\ queueIndex \in Nat
           /\ queueIndex <= Len(currentQueue) /\ Started \in Int
           /\ Len(ran) <= Len(asked)
  BY LenProperties DEF InStep, Started

(* A number that comes next may be appended.                                 *)
LEMMA AppendAfter ==
    ASSUME NEW s \in Seq(Nat), NEW n \in Int, After(s, n), NEW x \in Nat, x = n + Len(s) + 1
    PROVE  /\ Append(s, x) \in Seq(Nat) /\ Len(Append(s, x)) = Len(s) + 1
           /\ After(Append(s, x), n)
<1>1. /\ Len(s) \in Nat /\ Append(s, x) \in Seq(Nat) /\ Len(Append(s, x)) = Len(s) + 1
      /\ \A k \in 1..Len(s) : Append(s, x)[k] = s[k]
      /\ Append(s, x)[Len(s) + 1] = x
  BY AppendProperties, LenProperties
<1>2. ASSUME NEW k \in 1..(Len(s) + 1) PROVE Append(s, x)[k] = n + k
  <2>1. CASE k = Len(s) + 1
    BY <1>1, <2>1
  <2>2. CASE k \in 1..Len(s)
    BY <1>1, <2>2 DEF After
  <2> QED
    BY <1>1, <2>1, <2>2
<1> QED
  BY <1>1, <1>2 DEF After

(* Two sequences that continue each other may be put together.               *)
LEMMA ConcatAfter ==
    ASSUME NEW s \in Seq(Nat), NEW t \in Seq(Nat), NEW n \in Int,
           After(s, n), After(t, n + Len(s))
    PROVE  /\ s \o t \in Seq(Nat) /\ Len(s \o t) = Len(s) + Len(t)
           /\ After(s \o t, n)
<1>1. /\ Len(s) \in Nat /\ Len(t) \in Nat
      /\ s \o t \in Seq(Nat) /\ Len(s \o t) = Len(s) + Len(t)
      /\ \A k \in 1..(Len(s) + Len(t)) :
            (s \o t)[k] = IF k <= Len(s) THEN s[k] ELSE t[k - Len(s)]
  BY ConcatProperties, LenProperties
<1>2. ASSUME NEW k \in 1..(Len(s) + Len(t)) PROVE (s \o t)[k] = n + k
  <2>1. CASE k <= Len(s)
    BY <1>1, <2>1 DEF After
  <2>2. CASE k > Len(s)
    <3>1. k - Len(s) \in 1..Len(t) /\ (s \o t)[k] = t[k - Len(s)]
      BY <1>1, <2>2
    <3>2. t[k - Len(s)] = n + Len(s) + (k - Len(s))
      BY <3>1 DEF After
    <3> QED
      BY <1>1, <3>1, <3>2
  <2> QED
    BY <1>1, <2>1, <2>2
<1> QED
  BY <1>1, <1>2 DEF After

LEMMA NextTicks == TicksInv /\ [TicksNext]_tickVars => TicksInv'
<1> SUFFICES ASSUME TicksInv, [TicksNext]_tickVars PROVE TicksInv'
  OBVIOUS
<1> USE DEF TicksInv
<1>l. /\ Len(asked) \in Nat /\ Len(ran) \in Nat /\ Len(queue) \in Nat
      /\ Len(currentQueue) \in Nat /\ queueIndex \in Nat
      /\ queueIndex <= Len(currentQueue) /\ Started \in Int
  BY Lengths
<1>e. <<>> \in Seq(Nat) /\ Len(<<>>) = 0 /\ (\A n : After(<<>>, n))
  BY EmptySeq DEF After
<1>1. CASE NextTick
  <2>1. /\ Len(asked) < MaxTicks
        /\ asked' = Append(asked, Len(asked) + 1) /\ queue' = Append(queue, Len(asked) + 1)
        /\ UNCHANGED <<currentQueue, queueIndex, draining, looping, ran>>
    BY <1>1 DEF NextTick
  <2>2. asked' \in Seq(Nat) /\ Len(asked') = Len(asked) + 1 /\ After(asked', 0)
    <3>1. asked \in Seq(Nat) /\ After(asked, 0) /\ Len(asked) + 1 = 0 + Len(asked) + 1
      BY <1>l DEF InStep
    <3> QED
      BY <2>1, <3>1, <1>l, AppendAfter
  <2>3. /\ queue' \in Seq(Nat) /\ Len(queue') = Len(queue) + 1
        /\ After(queue', Started + Len(currentQueue))
    <3>1. /\ queue \in Seq(Nat) /\ After(queue, Started + Len(currentQueue))
          /\ Len(asked) + 1 = (Started + Len(currentQueue)) + Len(queue) + 1
      BY <1>l DEF InStep
    <3>2. Started + Len(currentQueue) \in Int /\ Len(asked) + 1 \in Nat
      BY <1>l
    <3> QED
      BY <2>1, <3>1, <3>2, AppendAfter
  <2>4. Started' = Started
    BY <2>1 DEF Started
  <2>5. InStep'
    <3>1. Started' + Len(currentQueue') + Len(queue') = Len(asked') /\ Len(asked') <= MaxTicks
      BY <2>1, <2>2, <2>3, <2>4, <1>l DEF InStep
    <3> QED
      BY <2>1, <2>2, <2>3, <2>4, <3>1 DEF InStep
  <2>6. NotDraining'
    BY <2>1 DEF NotDraining
  <2> QED
    BY <2>5, <2>6
<1>2. CASE DrainTimer
  <2>1. CASE draining
    BY <2>1, <1>2 DEF DrainTimer, InStep, NotDraining, Started, After
  <2>2. CASE ~draining
    <3>1. currentQueue = <<>> /\ queueIndex = 0
      BY <2>2, <1>l, <1>e DEF NotDraining
    <3>2. /\ currentQueue' = queue /\ queue' = <<>> /\ draining'
          /\ UNCHANGED <<queueIndex, asked, ran>>
      BY <2>2, <1>2 DEF DrainTimer, DrainQueue
    <3> QED
      BY <3>1, <3>2, <1>l, <1>e DEF InStep, NotDraining, Started
  <2> QED
    BY <2>1, <2>2
<1>3. CASE Run
  <2>1. /\ looping /\ queueIndex < Len(currentQueue) /\ queueIndex' = queueIndex + 1
        /\ ran' = Append(ran, currentQueue[queueIndex + 1])
        /\ UNCHANGED <<queue, currentQueue, draining, asked>>
    BY <1>3 DEF Run
  <2>2. currentQueue[queueIndex + 1] = Len(ran) + 1
    <3>1. /\ After(currentQueue, Started) /\ queueIndex + 1 \in 1..Len(currentQueue)
      BY <2>1, <1>l DEF InStep
    <3>2. currentQueue[queueIndex + 1] = Started + (queueIndex + 1)
      BY <3>1 DEF After
    <3> QED
      BY <3>2, <1>l DEF Started
  <2>3. ran' \in Seq(Nat) /\ Len(ran') = Len(ran) + 1 /\ After(ran', 0)
    <3>1. ran \in Seq(Nat) /\ After(ran, 0) /\ Len(ran) + 1 = 0 + Len(ran) + 1
      BY <1>l DEF InStep
    <3> QED
      BY <2>1, <2>2, <3>1, <1>l, AppendAfter
  <2>4. Started' = Started
    BY <2>1, <2>3, <1>l DEF Started
  <2>5. InStep'
    <3>1. queueIndex' \in 0..Len(currentQueue')
      BY <2>1, <1>l
    <3> QED
      BY <2>1, <2>3, <2>4, <3>1 DEF InStep
  <2>6. NotDraining'
    BY <2>1 DEF NotDraining
  <2> QED
    BY <2>5, <2>6
<1>4. CASE TakesMore
  <2>1. /\ looping /\ queueIndex = Len(currentQueue) /\ queueIndex' = 0
        /\ currentQueue' = queue /\ queue' = <<>>
        /\ UNCHANGED <<asked, ran>>
    BY <1>4 DEF TakesMore
  <2>2. NotDraining'
    BY <1>4, <2>1 DEF TakesMore, NotDraining
  <2>3. Started' = Started + Len(currentQueue)
    BY <2>1, <1>l DEF Started
  <2> QED
    BY <2>1, <2>2, <2>3, <1>l, <1>e DEF InStep
<1>5. CASE CleanUpNextTick
  <2>1. /\ currentQueue' = currentQueue \o queue /\ queue' = <<>> /\ draining'
        /\ UNCHANGED <<queueIndex, asked, ran>>
    BY <1>5 DEF CleanUpNextTick, DrainQueue
  <2>2. /\ currentQueue' \in Seq(Nat) /\ Len(currentQueue') = Len(currentQueue) + Len(queue)
        /\ After(currentQueue', Started)
    BY <2>1, <1>l, ConcatAfter DEF InStep
  <2> QED
    BY <2>1, <2>2, <1>l, <1>e DEF InStep, NotDraining, Started
<1>6. CASE UNCHANGED tickVars
  BY <1>6 DEF tickVars, InStep, NotDraining, Started, After
<1> QED
  BY <1>1, <1>2, <1>3, <1>4, <1>5, <1>6 DEF TicksNext

(* Of two sequences of the first numbers, the shorter is a prefix.           *)
LEMMA PrefixOfNumbers ==
    ASSUME NEW s \in Seq(Nat), NEW t \in Seq(Nat), After(s, 0), After(t, 0), Len(s) <= Len(t)
    PROVE  SubSeq(s, 1, Len(s)) = SubSeq(t, 1, Len(s))
<1>1. Len(s) \in Nat /\ Len(t) \in Nat
  BY LenProperties
<1>2. \A k \in 1..Len(s) : s[k] = k /\ t[k] = k
  BY <1>1 DEF After
<1>3. /\ SubSeq(s, 1, Len(s)) \in Seq(Nat) /\ Len(SubSeq(s, 1, Len(s))) = Len(s)
      /\ \A k \in 1..Len(s) : SubSeq(s, 1, Len(s))[k] = k
  BY <1>1, <1>2, SubSeqProperties
<1>4. /\ SubSeq(t, 1, Len(s)) \in Seq(Nat) /\ Len(SubSeq(t, 1, Len(s))) = Len(s)
      /\ \A k \in 1..Len(s) : SubSeq(t, 1, Len(s))[k] = k
  BY <1>1, <1>2, SubSeqProperties
<1> QED
  BY <1>1, <1>3, <1>4, SeqEqual

(* All functions that may ever come, in their order.                         *)
Numbers == [k \in 1..MaxTicks |-> k]

LEMMA NumbersInOrder == Numbers \in Seq(Nat) /\ Len(Numbers) = MaxTicks /\ After(Numbers, 0)
  BY IsASeq, LenProperties DEF Numbers, After

(* A step that only adds to what was asked for and to what ran is a step of  *)
(* the fifo.                                                                 *)
LEMMA StepImplements ==
    ASSUME TicksInv, TicksInv', [TicksNext]_tickVars
    PROVE  [Abstract!Move]_<<asked, [d \in {"loop"} |-> ran], {"loop"}>>
<1>1. /\ Len(asked) \in Nat /\ Len(asked) <= Len(asked')
      /\ Len(ran) \in Nat /\ Len(ran) <= Len(ran')
  <2>1. CASE NextTick
    BY <2>1, Lengths, AppendProperties DEF NextTick, TicksInv, InStep
  <2>2. CASE Run
    <3>1. currentQueue[queueIndex + 1] \in Nat
      BY <2>2, Lengths, ElementOfSeq DEF Run, TicksInv, InStep
    <3> QED
      BY <2>2, <3>1, Lengths, AppendProperties DEF Run, TicksInv, InStep
  <2>3. CASE UNCHANGED <<asked, ran>>
    BY <2>3, Lengths DEF TicksInv
  <2> QED
    BY <2>1, <2>2, <2>3 DEF TicksNext, tickVars, DrainTimer, TakesMore, CleanUpNextTick
<1>2. Len(asked') <= MaxTicks /\ Len(ran') <= Len(asked') /\ Len(ran') \in Nat /\ Len(asked') \in Nat
  <2>1. /\ Len(asked') \in Nat /\ Len(ran') \in Nat /\ Len(queue') \in Nat
        /\ Len(currentQueue') \in Nat
    BY LenProperties DEF TicksInv, InStep
  <2>2. /\ queueIndex' \in 0..Len(currentQueue') /\ Len(asked') <= MaxTicks
        /\ Len(ran') - queueIndex' + Len(currentQueue') + Len(queue') = Len(asked')
    BY DEF TicksInv, InStep, Started
  <2> QED
    BY <2>1, <2>2
<1>3. /\ SubSeq(asked, 1, Len(asked)) = SubSeq(asked', 1, Len(asked))
      /\ SubSeq(ran, 1, Len(ran)) = SubSeq(ran', 1, Len(ran))
      /\ SubSeq(ran', 1, Len(ran')) = SubSeq(asked', 1, Len(ran'))
      /\ SubSeq(asked', 1, Len(asked')) = SubSeq(Numbers, 1, Len(asked'))
  <2>1. /\ asked \in Seq(Nat) /\ After(asked, 0) /\ ran \in Seq(Nat) /\ After(ran, 0)
        /\ asked' \in Seq(Nat) /\ After(asked', 0) /\ ran' \in Seq(Nat) /\ After(ran', 0)
    BY DEF TicksInv, InStep
  <2> QED
    BY <1>1, <1>2, <2>1, PrefixOfNumbers, NumbersInOrder
<1>4. Abstract!InOrder(ran')
  <2>1. \A k \in 1..Len(ran') : ran'[k] = k
    BY <1>2 DEF TicksInv, InStep, After
  <2> QED
    BY <1>2, <2>1 DEF Abstract!InOrder
<1>5. Abstract!ToSet(ran') \subseteq Abstract!ToSet(asked')
  <2>1. /\ \A k \in 1..Len(ran') : ran'[k] = k
        /\ \A k \in 1..Len(asked') : asked'[k] = k
        /\ DOMAIN ran' = 1..Len(ran') /\ DOMAIN asked' = 1..Len(asked')
    BY <1>2, LenProperties DEF TicksInv, InStep, After
  <2> QED
    BY <1>2, <2>1 DEF Abstract!ToSet
<1> QED
  BY <1>1, <1>2, <1>3, <1>4, <1>5, NumbersInOrder DEF Abstract!Move, Abstract!IsPrefix, Numbers

(* process.nextTick runs each function once, in the order they were passed,  *)
(* whichever of them throw and whenever a timer fires.                       *)
THEOREM TicksImplementFifo == TicksSpec => TicksAreFifo
<1>1. TicksInit => Abstract!FifoInit
  BY DEF TicksInit, Abstract!FifoInit
<1> QED
  BY <1>1, InitTicks, NextTicks, StepImplements, PTL DEF TicksSpec, TicksAreFifo, Abstract!FifoSpec
=============================================================================
