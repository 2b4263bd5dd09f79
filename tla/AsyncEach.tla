------------------------------ MODULE AsyncEach ------------------------------
(* The iterators of async: eachOfArrayLike starts all its elements at once,  *)
(* eachOfLimit some at a time (one at a time: the series), and map, filter,  *)
(* detect, reduce and concat are built on either.  An iteratee may call back *)
(* before it returns or at any time later, in any order.                     *)
EXTENDS Integers, Sequences, SequencesExt, FiniteSets

CONSTANTS MaxElements,  \* bound: elements of a collection
          Limits        \* limits of eachOfLimit tried

ASSUME EachAssumption == MaxElements \in Nat /\ Limits \subseteq Nat \ {0}

VARIABLES job,          \* [eachfn, consumer, size, limit, named]
          each,         \* [next, running, completed, done, looping, left : the callback is]
          open,         \* the elements whose iteratee has not called back
          out,          \* what the consumer has got: [at, list, memo, cb]
          told,         \* history: element -> what its iteratee called back
          answers       \* history: calls of the final callback

eachVars == <<job, each, open, out, told, answers>>

Consumers == {"map", "filterArray", "filterGeneric", "detect", "reduce", "concat"}
Results == {"error", "yes", "no"}
Missing == "none"

(* filterGeneric is for what is not like an array: an iterator, whose keys   *)
(* are numbers, or an object, whose are names.  reduce is a series, and of   *)
(* a collection that is not like an array eachOf makes an unlimited loop.    *)
JobOK(j) ==
    /\ j.consumer = "filterArray" => j.eachfn # "generic"
    /\ j.consumer = "filterGeneric" => j.eachfn # "arrayLike"
    /\ j.consumer = "reduce" => j.eachfn = "limit" /\ j.limit = 1
    /\ j.eachfn # "limit" => j.limit = MaxElements + 1
    /\ j.named => j.consumer = "filterGeneric"

Jobs == {j \in [ eachfn : {"arrayLike", "limit", "generic"}, consumer : Consumers,
                 size : 0..MaxElements, limit : Limits \cup {MaxElements + 1}, named : BOOLEAN ] :
            JobOK(j)}

Error(outcome) == outcome = "error"

-----------------------------------------------------------------------------
(* The numbers of a sequence in ascending order.                             *)
Ascending(s) ==
    LET p == CHOOSE p \in Injection(DOMAIN s, DOMAIN s) :
                \A j, k \in DOMAIN s : j < k => s[p[j]] <= s[p[k]]
    IN  [k \in DOMAIN s |-> s[p[k]]]

(* What the final callback of the consumer is given.  Names have no          *)
(* difference to sort by.                                                    *)
Outcome(o) ==
    CASE job.consumer = "map" -> [i \in 1..job.size |-> o.at[i]]
      [] job.consumer = "filterArray" ->
            Ascending(SetToSeq({i \in 1..job.size : o.at[i] = "yes"}))
      [] job.consumer = "filterGeneric" -> IF job.named THEN o.list ELSE Ascending(o.list)
      [] job.consumer = "concat" -> o.list
      [] job.consumer = "reduce" -> o.memo
      [] job.consumer = "detect" -> <<>>

(* A tester that has answered has no callback any more.                      *)
Answered(o, err) ==
    IF job.consumer = "detect" /\ ~o.cb THEN <<>>
    ELSE << [error |-> err, value |-> IF err THEN <<>> ELSE Outcome(o)] >>

(* A slip: the place in the order of the callbacks.                          *)
PlaceOfCallback(i) == Cardinality({k \in DOMAIN told : told[k] # Missing}) + 1

(* The wrapper each consumer puts around the iteratee's callback.            *)
Place(i) == i

Consumed(i, r) ==
    CASE job.consumer \in {"map", "filterArray"} -> [out EXCEPT !.at[Place(i)] = r]
      [] job.consumer \in {"filterGeneric", "concat"} ->
            IF r = "yes" THEN [out EXCEPT !.list = Append(@, i)] ELSE out
      [] job.consumer = "reduce" -> [out EXCEPT !.memo = IF Error(r) THEN <<>> ELSE Append(@, i)]
      [] job.consumer = "detect" -> IF r = "no" THEN out ELSE [out EXCEPT !.cb = FALSE]

Found(i, r) ==
    IF job.consumer = "detect" /\ out.cb /\ r # "no"
    THEN << [error |-> Error(r), value |-> IF Error(r) THEN <<>> ELSE <<i>>] >> ELSE <<>>

Breaks(r) == job.consumer = "detect" /\ r = "yes" /\ out.cb

-----------------------------------------------------------------------------
(* iteratorCallback and iterateeCallback: the loop's state, and whether the  *)
(* callback, which is only called once, is called.                           *)
ArrayCallback(e, r) ==
    LET e1 == IF Error(r) THEN e ELSE [e EXCEPT !.completed = @ + 1]
    IN  [e |-> e1, calls |-> Error(r) \/ e1.completed = job.size, err |-> Error(r)]

LimitCallback(e, r) ==
    LET e1 == [e EXCEPT !.running = @ - 1]
        stops == Error(r) \/ Breaks(r)
    IN  [ e |-> [e1 EXCEPT !.done = @ \/ stops, !.looping = @ \/ (~stops /\ ~e1.done)],
          calls |-> stops \/ (e1.done /\ e1.running <= 0), err |-> Error(r) ]

Passed(r) == IF job.consumer = "detect" /\ ~out.cb THEN "no" ELSE r

CalledBack(e, i, heard) ==
    LET r == Passed(heard)
        o == Consumed(i, r)
        c == IF job.eachfn = "arrayLike" THEN ArrayCallback(e, r) ELSE LimitCallback(e, r)
        now == Found(i, r)
                \o (IF c.calls /\ e.left THEN Answered(o, c.err) ELSE <<>>)
    IN  /\ out' = o
        /\ each' = [c.e EXCEPT !.left = @ /\ ~c.calls]
        /\ answers' = answers \o now
        /\ told' = [told EXCEPT ![i] = heard]

-----------------------------------------------------------------------------
EachInit ==
    /\ job \in Jobs
    /\ each = [next |-> 1, running |-> 0, completed |-> 0, done |-> FALSE, looping |-> TRUE,
               left |-> TRUE]
    /\ open = {}
    /\ out = [at |-> [i \in 1..MaxElements |-> Missing], list |-> <<>>, memo |-> <<>>, cb |-> TRUE]
    /\ told = [i \in 1..MaxElements |-> Missing]
    /\ answers = <<>>

MayStart ==
    IF job.eachfn = "arrayLike" THEN TRUE ELSE each.running < job.limit /\ ~each.done

(* The loop takes the next element; a tester that has answered lets it pass. *)
Iterate ==
    /\ each.looping /\ each.next <= job.size /\ MayStart
    /\ LET i == each.next
           e == [each EXCEPT !.next = @ + 1, !.running = @ + 1]
       IN  \/ /\ job.consumer = "detect" => out.cb
              /\ each' = e /\ open' = open \cup {i}
              /\ UNCHANGED <<out, told, answers>>
           \/ /\ \E r \in IF job.consumer = "detect" /\ ~out.cb THEN {"no"} ELSE Results :
                    CalledBack(e, i, r)
              /\ UNCHANGED open
    /\ UNCHANGED job

(* Nothing to take: a limited loop notes that the collection is at its end.  *)
Ends(e) ==
    IF job.eachfn = "arrayLike" THEN [e |-> e, calls |-> job.size = 0]
    ELSE LET atEnd == e.running < job.limit /\ ~e.done
         IN  [e |-> [e EXCEPT !.done = @ \/ atEnd], calls |-> atEnd /\ e.running <= 0]

LoopEnds ==
    /\ each.looping /\ ~(each.next <= job.size /\ MayStart)
    /\ LET c == Ends(each)
       IN  /\ each' = [c.e EXCEPT !.looping = FALSE, !.left = @ /\ ~c.calls]
           /\ answers' = answers \o IF c.calls /\ each.left THEN Answered(out, FALSE) ELSE <<>>
    /\ UNCHANGED <<job, open, out, told>>

(* An iteratee calls back later; onlyOnce throws if it has before.           *)
OnlyOnce(i) == i \in open

Callback(i) ==
    /\ ~each.looping /\ i < each.next /\ OnlyOnce(i)
    /\ \E r \in Results : CalledBack(each, i, r)
    /\ open' = open \ {i}
    /\ UNCHANGED job

EachNext == Iterate \/ LoopEnds \/ \E i \in 1..MaxElements : Callback(i)
EachSpec == EachInit /\ [][EachNext]_eachVars

-----------------------------------------------------------------------------
Series == job.eachfn = "limit" /\ job.limit = 1
Chosen == {i \in 1..job.size : told[i] = "yes"}
AllTold == \A i \in 1..job.size : told[i] \in {"yes", "no"}
Increasing(s) == \A j, k \in DOMAIN s : j < k => s[j] < s[k]

Right(value) ==
    CASE job.consumer = "map" -> AllTold /\ value = [i \in 1..job.size |-> told[i]]
      [] job.consumer \in {"filterArray", "filterGeneric", "concat"} ->
            /\ AllTold /\ IsInjective(value) /\ ToSet(value) = Chosen
            /\ Series \/ (job.consumer # "concat" /\ ~job.named) => Increasing(value)
      [] job.consumer = "reduce" -> AllTold /\ value = [i \in 1..job.size |-> i]
      [] job.consumer = "detect" ->
            IF value = <<>> THEN AllTold /\ Chosen = {}
            ELSE value[1] \in Chosen /\ (Series => \A i \in Chosen : value[1] <= i)

(* However the iteratees interleave, the final callback is called once: at   *)
(* most, and for certain when nothing is under way any more.  An answer      *)
(* without an error is the one a loop without callbacks would give, in the   *)
(* order of the elements and not in that of the callbacks (5396, 7810);      *)
(* concat gives the order of the callbacks, unless it is a series, and so    *)
(* does filter of an object, whose names cannot be subtracted (7811).  No    *)
(* more than `limit' iteratees are under way.                                *)
EachIsRight ==
    /\ Len(answers) <= 1
    /\ open = {} /\ ~each.looping => Len(answers) = 1
    /\ Cardinality(open) <= job.limit
    /\ \A k \in DOMAIN answers :
        IF answers[k].error THEN \E i \in 1..job.size : told[i] = "error"
        ELSE Right(answers[k].value)
=============================================================================
