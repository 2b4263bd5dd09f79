------------------------------- MODULE Events -------------------------------
(* EventEmitter of the bundle.  Everything is synchronous: listeners run on  *)
(* the stack of the emit that calls them, and may themselves add, remove and *)
(* emit, or throw, which unwinds the stack.  A list of listeners is an       *)
(* object: who holds one may find it changed, or no longer the emitter's.    *)
EXTENDS Integers, Sequences, SequencesExt, FiniteSets

CONSTANTS Listeners,    \* the functions users register
          EventTypes,   \* types of events, "error" and "removeListener" among them
          MaxCalls,     \* bound: calls made by the users of the emitter
          MaxDepth      \* bound: frames on the stack

ASSUME EventsAssumption ==
    {"error", "removeListener"} \subseteq EventTypes /\ IsFiniteSet(EventTypes)

VARIABLES emitter,      \* [events : type -> index of a list or 0, heap : its lists,
                        \*  dropped : those removeAllListeners dropped as they were]
          stack,        \* frames, the running one last
          fired,        \* the once-wrappers whose listener was called
          history       \* [calls, runs : wrapper -> times, missed, spinning]

eventVars == <<emitter, stack, fired, history>>

(* A listener as it is registered; `once' numbers the wrappers of once().    *)
Fn(listener, once) == [listener |-> listener, once |-> once]
Body == [kind |-> "body", type |-> "none", fns |-> <<>>, list |-> 0, kept |-> {}, called |-> {},
         pos |-> 1, types |-> <<>>]

Kept(em, type) == IF em.events[type] = 0 THEN <<>> ELSE em.heap[em.events[type]]

PushFrame(stk, frame) == Append(stk, frame)
Frame(kind, type, fns, list) ==
    [Body EXCEPT !.kind = kind, !.type = type, !.fns = fns, !.list = list]

-----------------------------------------------------------------------------
(* emit calls a copy of the list (12403), one listener after another.        *)
EmitOn(em, stk, type) ==
    IF Kept(em, type) = <<>> THEN (IF type = "error" THEN <<>> ELSE stk)
    ELSE PushFrame(stk, [Frame("emit", type, Kept(em, type), em.events[type])
                    EXCEPT !.kept = ToSet(Kept(em, type))])

(* A slip: the list itself and not a copy.                                   *)
IteratedInPlace(em, frame) == em.heap[frame.list]

Iterated(em, frame) == frame.fns
Remaining(em, frame) == SubSeq(Iterated(em, frame), frame.pos, Len(Iterated(em, frame)))

(* addListener: a list that is there grows, otherwise there is a new one.    *)
Added(em, type, fn) ==
    IF em.events[type] # 0
    THEN [em EXCEPT !.heap[em.events[type]] = Append(@, fn)]
    ELSE [em EXCEPT !.heap = Append(@, <<fn>>), !.events[type] = Len(em.heap) + 1]

AddOn(em, stk, type, fn) ==
    IF "newListener" \in EventTypes /\ Kept(em, "newListener") # <<>>
    THEN [em |-> em, stk |-> EmitOn(em, PushFrame(stk, Frame("add", type, <<fn>>, 0)), "newListener")]
    ELSE [em |-> Added(em, type, fn), stk |-> stk]

(* removeListener: the last that is the function, or wraps it; the removal   *)
(* is announced.  A list that becomes empty is emptied and dropped.          *)
Is(fn, wanted) == fn = wanted \/ (wanted.once = 0 /\ fn.listener = wanted.listener)

PositionOf(list, wanted) ==
    LET found == {k \in DOMAIN list : Is(list[k], wanted)}
    IN  IF found = {} THEN 0 ELSE CHOOSE k \in found : \A n \in found : n <= k

Shortened(em, type, k) ==
    LET left == RemoveAt(Kept(em, type), k)
        em1 == [em EXCEPT !.heap[em.events[type]] = left]
    IN  IF left = <<>> THEN [em1 EXCEPT !.events[type] = 0] ELSE em1

Forget(stk, type, fn) ==
    [k \in DOMAIN stk |-> IF stk[k].kind = "emit" /\ stk[k].type = type
                          THEN [stk[k] EXCEPT !.kept = @ \ {fn}] ELSE stk[k]]

RemoveOn(em, stk, type, wanted) ==
    LET k == PositionOf(Kept(em, type), wanted)
        em1 == Shortened(em, type, k)
    IN  IF k = 0 THEN [em |-> em, stk |-> stk]
        ELSE [ em |-> em1,
               stk |-> EmitOn(em1, Forget(stk, type, Kept(em, type)[k]), "removeListener") ]

(* removeAllListeners: without a listener for removals the list is dropped   *)
(* as it is; with one, its listeners are removed from the last to the first. *)
ForgetAll(stk, type) ==
    [k \in DOMAIN stk |-> IF stk[k].kind = "emit" /\ stk[k].type = type
                          THEN [stk[k] EXCEPT !.kept = {}] ELSE stk[k]]

RemoveAllOn(em, stk, type) ==
    IF Kept(em, "removeListener") = <<>>
    THEN [ em |-> [em EXCEPT !.events[type] = 0, !.dropped = @ \cup {em.events[type]}],
           stk |-> ForgetAll(stk, type) ]
    ELSE [em |-> em, stk |-> PushFrame(stk, Frame("clear", type, <<>>, em.events[type]))]

(* Without a type: one type after another, "removeListener" as the last.     *)
DropAll(em, stk) ==
    [ em |-> [em EXCEPT !.events = [t \in EventTypes |-> 0], !.dropped = @ \cup Range(em.events)],
      stk |-> [k \in DOMAIN stk |-> [stk[k] EXCEPT !.kept = {}]] ]

AllTypes == Append(SetToSeq(EventTypes \ {"removeListener"}), "removeListener")

-----------------------------------------------------------------------------
EventsInit ==
    /\ emitter = [events |-> [t \in EventTypes |-> 0], heap |-> <<>>, dropped |-> {}]
    /\ stack = <<Body>>
    /\ fired = {}
    /\ history = [calls |-> 0, runs |-> <<>>, missed |-> FALSE, spinning |-> FALSE]

Top == Last(stack)
Below == Front(stack)
Becomes(r) == emitter' = r.em /\ stack' = (IF r.stk = <<>> THEN <<Body>> ELSE r.stk)

(* What a running function may do, the program's main one or a listener.     *)
May ==
    /\ Top.kind = "body"
    /\ history.calls < MaxCalls /\ Len(stack) < MaxDepth
    /\ UNCHANGED fired

Counted == history' = [history EXCEPT !.calls = @ + 1]

AddListener == May /\ Counted /\
    \E type \in EventTypes, l \in Listeners : Becomes(AddOn(emitter, stack, type, Fn(l, 0)))

Once ==
    /\ May
    /\ \E type \in EventTypes, l \in Listeners :
          Becomes(AddOn(emitter, stack, type, Fn(l, Len(history.runs) + 1)))
    /\ history' = [history EXCEPT !.calls = @ + 1, !.runs = Append(@, 0)]

Emit == May /\ Counted /\
    \E type \in EventTypes : Becomes([em |-> emitter, stk |-> EmitOn(emitter, stack, type)])

RemoveListener == May /\ Counted /\
    \E type \in EventTypes, l \in Listeners : Becomes(RemoveOn(emitter, stack, type, Fn(l, 0)))

RemoveAllListeners == May /\ Counted /\
    \E type \in EventTypes : Becomes(RemoveAllOn(emitter, stack, type))

RemoveEverything == May /\ Counted /\
    IF Kept(emitter, "removeListener") = <<>> THEN Becomes(DropAll(emitter, stack))
    ELSE Becomes([em |-> emitter, stk |-> PushFrame(stack, [Body EXCEPT !.kind = "all", !.types = AllTypes])])

(* A listener returns, or throws what nobody catches.                        *)
Return ==
    /\ Top.kind = "body" /\ Below # <<>>
    /\ stack' \in {Below, <<Body>>}
    /\ UNCHANGED <<emitter, fired, history>>

(* The frame of an emit: the next listener, if any is left.                  *)
CallNext ==
    LET left == Remaining(emitter, Top)
        fn == Head(left)
        rest == Append(Below, [Top EXCEPT !.pos = @ + 1, !.called = @ \cup {fn}])
    IN  /\ Top.kind = "emit" /\ ~history.spinning
        /\ IF left = <<>>
           THEN /\ stack' = Below
                /\ history' = [history EXCEPT !.missed = @ \/ ~(Top.kept \subseteq Top.called)]
                /\ UNCHANGED emitter
           ELSE /\ UNCHANGED history
                /\ IF fn.once = 0
                   THEN stack' = PushFrame(rest, Body) /\ UNCHANGED emitter
                   ELSE Becomes(RemoveOn(emitter, PushFrame(rest, Frame("once", Top.type, <<fn>>, 0)),
                                         Top.type, fn))
        /\ UNCHANGED fired

(* The wrapper of once(), after it has removed itself.                       *)
Fires(k) == k \notin fired

CallOnce ==
    LET k == Head(Top.fns).once
    IN  /\ Top.kind = "once" /\ UNCHANGED emitter
        /\ IF Fires(k)
           THEN /\ stack' = PushFrame(Below, Body) /\ fired' = fired \cup {k}
                /\ history' = [history EXCEPT !.runs[k] = @ + 1]
           ELSE stack' = Below /\ UNCHANGED <<fired, history>>

(* addListener, after newListener was emitted.                               *)
AddAfterEmit ==
    /\ Top.kind = "add"
    /\ emitter' = Added(emitter, Top.type, Head(Top.fns))
    /\ stack' = Below
    /\ UNCHANGED <<fired, history>>

(* The loop of removeAllListeners, as long as the list it holds has any.  It *)
(* never ends if that list is the emitter's no longer.                       *)
Clear ==
    LET list == IF Top.list = 0 THEN <<>> ELSE emitter.heap[Top.list]
        r == RemoveOn(emitter, stack, Top.type, Last(list))
    IN  /\ Top.kind = "clear" /\ ~history.spinning
        /\ IF list = <<>>
           THEN /\ emitter' = [emitter EXCEPT !.events[Top.type] = 0]
                /\ stack' = ForgetAll(Below, Top.type)
                /\ UNCHANGED history
           ELSE /\ Becomes(r)
                /\ history' = [history EXCEPT !.spinning = r.em = emitter]
        /\ UNCHANGED fired

ClearNext ==
    /\ Top.kind = "all"
    /\ IF Top.types = <<>> THEN Becomes(DropAll(emitter, Below))
       ELSE Becomes(RemoveAllOn(emitter, Append(Below, [Top EXCEPT !.types = Tail(@)]),
                                Head(Top.types)))
    /\ UNCHANGED <<fired, history>>

EventsNext ==
    \/ AddListener \/ Once \/ Emit \/ RemoveListener \/ RemoveAllListeners
    \/ RemoveEverything \/ ClearNext
    \/ Return \/ CallNext \/ CallOnce \/ AddAfterEmit \/ Clear

EventsSpec == EventsInit /\ [][EventsNext]_eventVars

-----------------------------------------------------------------------------
(* An emit that returns has called every listener that was registered from   *)
(* its start to its end, whatever the others added and removed (12403); and  *)
(* the listener of a once() runs once, though emits under way hold copies of *)
(* lists it has left, and its removal is announced to listeners that may     *)
(* emit the same event before `fired' is tested (12471-12478).  A removal of *)
(* all only loops for ever (12562) when the list it empties was dropped by   *)
(* another, called while a removal was announced and after the last listener *)
(* for removals had gone.                                                    *)
ListenersAreCalled ==
    /\ ~history.missed
    /\ \A k \in DOMAIN history.runs : history.runs[k] <= 1
    /\ history.spinning => Top.kind = "clear" /\ Top.list \in emitter.dropped
=============================================================================
