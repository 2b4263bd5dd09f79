------------------------------ MODULE AsyncFlow ------------------------------
(* The flows of async that run one task after another (waterfall, the        *)
(* loops, retry) and race, which starts all; and the two wrappers that keep  *)
(* something between their calls, memoize and timeout.                       *)
EXTENDS Integers, Sequences, SequencesExt, FiniteSets

CONSTANTS FlowTasks,    \* tasks of a waterfall or a race, turns of a loop, times of a retry
          Callers       \* those who call a wrapped function, each once

ASSUME FlowAssumption == FlowTasks \in Nat \ {0}

VARIABLES flow,         \* [kind, started : tasks or turns, waiting : timers of retry]
          pending,      \* the tasks that have not called back
          outcomes,     \* history: what the tasks called back, in order: [task, error, more]
          flowAnswers,  \* history: calls of the final callback
          memo,         \* [memo : key -> result, queues : key -> callers, calls : key -> of fn]
          limit,        \* timeout: [original, timers, timedOut, and as history
                        \*  overlapped : called while a call was not answered,
                        \*  inTime : callers whose fn called back before their timer,
                        \*  stale : callers that came after a timer had fired]
          caller        \* caller -> [key, state, got : answers, heard : what its fn called back]

flowVars == <<flow, pending, outcomes, flowAnswers, memo, limit, caller>>

Flows == {"waterfall", "whilst", "doWhilst", "during", "doDuring", "forever", "retry", "race"}
Wrappers == {"memoize", "timeout"}
Loops == {"whilst", "doWhilst", "during", "doDuring", "forever"}
Keys == {1, 2}

Shared == UNCHANGED <<memo, limit, caller>>
FlowFixed == UNCHANGED <<pending, outcomes, flowAnswers>>

-----------------------------------------------------------------------------
(* whilst and during ask their test before the first turn; until is whilst   *)
(* with the test negated.                                                    *)
TestsFirst(kind) == kind \in {"whilst", "during"}

FlowInit ==
    /\ flow \in [kind : Flows \cup Wrappers, started : {0}, waiting : {FALSE}]
    /\ pending = {} /\ outcomes = <<>> /\ flowAnswers = <<>>
    /\ memo = [memo |-> [k \in Keys |-> 0], queues |-> [k \in Keys |-> <<>>],
               calls |-> [k \in Keys |-> 0]]
    /\ limit = [original |-> 0, timers |-> {}, timedOut |-> FALSE,
                overlapped |-> FALSE, inTime |-> {}, stale |-> {}]
    /\ caller \in [Callers -> [key : Keys, state : {"new"}, got : {<<>>}, heard : {FALSE}]]
    /\ flow.kind # "memoize" => \A c \in Callers : caller[c].key = 1

Final(error) == flowAnswers' = Append(flowAnswers, [error |-> error])

Start(n) ==
    /\ flow' = [flow EXCEPT !.started = n, !.waiting = FALSE]
    /\ pending' = pending \cup {n}

(* The first task, all of a race, or no turn at all.                         *)
Begin ==
    /\ flow.kind \in Flows /\ flow.started = 0 /\ flowAnswers = <<>>
    /\ \/ /\ TestsFirst(flow.kind) /\ Final(FALSE)
          /\ UNCHANGED <<flow, pending>>
       \/ /\ flow.kind # "race" /\ Start(1) /\ UNCHANGED flowAnswers
       \/ /\ flow.kind = "race"
          /\ flow' = [flow EXCEPT !.started = FlowTasks] /\ pending' = 1..FlowTasks
          /\ UNCHANGED flowAnswers
    /\ UNCHANGED outcomes /\ Shared

(* once: a race hears its first.                                             *)
RaceOver == flowAnswers # <<>>

(* A slip: one time more.                                                    *)
TriesOnceMore(attempt, more) == attempt <= FlowTasks /\ more

(* retry tries again after an interval, `times' in all, unless the filter    *)
(* (`more') refuses the error.                                               *)
TriesAgain(attempt, more) == attempt < FlowTasks /\ more

(* Whether the flow goes on after a task: a waterfall while it has tasks, a  *)
(* loop while its test says so.                                              *)
GoesOn(n, more) ==
    \/ flow.kind = "waterfall" /\ n < FlowTasks
    \/ flow.kind \in Loops /\ (more \/ flow.kind = "forever")

(* A task calls back; `more' is what the loop's test says then.  (Turns of   *)
(* a loop are bounded by FlowTasks: the last one ends or fails.)             *)
TaskAnswers(n, error, more) ==
    /\ n \in pending
    /\ flow.kind \in Loops /\ n = FlowTasks => ~more
    /\ flow.kind = "forever" /\ n = FlowTasks => error
    /\ outcomes' = Append(outcomes, [task |-> n, error |-> error, more |-> more])
    /\ \/ /\ flow.kind = "race"
          /\ IF RaceOver THEN UNCHANGED flowAnswers ELSE Final(error)
          /\ pending' = pending \ {n} /\ UNCHANGED flow
       \/ /\ flow.kind = "retry"
          /\ pending' = pending \ {n}
          /\ IF error /\ TriesAgain(n, more)
             THEN flow' = [flow EXCEPT !.waiting = TRUE] /\ UNCHANGED flowAnswers
             ELSE Final(error) /\ UNCHANGED flow
       \/ /\ flow.kind \notin {"race", "retry"}
          /\ IF ~error /\ GoesOn(n, more)
             THEN /\ flow' = [flow EXCEPT !.started = n + 1]
                  /\ pending' = (pending \ {n}) \cup {n + 1}
                  /\ UNCHANGED flowAnswers
             ELSE /\ Final(error)
                  /\ pending' = pending \ {n} /\ UNCHANGED flow
    /\ Shared

FlowCallback == \E n \in pending, error, more \in BOOLEAN : TaskAnswers(n, error, more)

RetryTimer ==
    /\ flow.waiting /\ Start(flow.started + 1)
    /\ UNCHANGED <<outcomes, flowAnswers>> /\ Shared

-----------------------------------------------------------------------------
(* memoize: the first caller with a key has the function called, those that  *)
(* come before its answer are queued, those after get the memo by            *)
(* setImmediate.  What is kept is the answer, an error as well.              *)
MemoKnows(key) == memo.memo[key] # 0

CallMemoized(c) ==
    LET key == caller[c].key IN
    /\ flow.kind = "memoize" /\ caller[c].state = "new"
    /\ caller' = [caller EXCEPT ![c].state = IF MemoKnows(key) THEN "immediate" ELSE "queued"]
    /\ memo' = IF MemoKnows(key) THEN memo
               ELSE [memo EXCEPT !.queues[key] = Append(@, c),
                                 !.calls[key] = IF memo.queues[key] = <<>> THEN @ + 1 ELSE @]
    /\ UNCHANGED <<flow, limit>> /\ FlowFixed

MemoAnswers(key, result) ==
    /\ memo.calls[key] > 0 /\ memo.queues[key] # <<>>
    /\ memo' = [memo EXCEPT !.memo[key] = result, !.queues[key] = <<>>]
    /\ caller' = [c \in Callers |->
                    IF c \in ToSet(memo.queues[key])
                    THEN [caller[c] EXCEPT !.state = "done", !.got = Append(@, result)]
                    ELSE caller[c]]
    /\ UNCHANGED <<flow, limit>> /\ FlowFixed

MemoImmediate(c) ==
    /\ caller[c].state = "immediate"
    /\ caller' = [caller EXCEPT ![c].state = "done", ![c].got = Append(@, memo.memo[caller[c].key])]
    /\ UNCHANGED <<flow, limit, memo>> /\ FlowFixed

-----------------------------------------------------------------------------
(* timeout: the wrapper keeps one callback, the last caller's, and one       *)
(* timer; once it has timed out it stays so.                                 *)
TimedOut == "timed out"
Ok == "ok"

CallTimed(c) ==
    /\ flow.kind = "timeout" /\ caller[c].state = "new"
    /\ caller' = [caller EXCEPT ![c].state = "called"]
    /\ limit' = [limit EXCEPT !.original = c, !.timers = @ \cup {c},
                              !.overlapped = @ \/ limit.timers # {},
                              !.stale = IF limit.timedOut THEN @ \cup {c} ELSE @]
    /\ UNCHANGED <<flow, memo>> /\ FlowFixed

(* injectedCallback; it clears the timer of the last call.                   *)
Injects == ~limit.timedOut

TimedAnswers(c) ==
    /\ flow.kind = "timeout" /\ caller[c].state = "called" /\ ~caller[c].heard
    /\ LET heard == [caller EXCEPT ![c].heard = TRUE]
           timely == limit.inTime \cup ({c} \cap limit.timers)
       IN  IF Injects
           THEN /\ caller' = [heard EXCEPT ![limit.original].got = Append(@, Ok)]
                /\ limit' = [limit EXCEPT !.timers = @ \ {limit.original}, !.inTime = timely]
           ELSE caller' = heard /\ limit' = [limit EXCEPT !.inTime = timely]
    /\ UNCHANGED <<flow, memo>> /\ FlowFixed

TimerFires(c) ==
    /\ c \in limit.timers
    /\ limit' = [limit EXCEPT !.timers = @ \ {c}, !.timedOut = TRUE]
    /\ caller' = [caller EXCEPT ![limit.original].got = Append(@, TimedOut)]
    /\ UNCHANGED <<flow, memo>> /\ FlowFixed

FlowNext ==
    \/ Begin \/ FlowCallback \/ RetryTimer
    \/ \E key \in Keys, result \in {1, 2} : MemoAnswers(key, result)
    \/ \E c \in Callers : CallMemoized(c) \/ MemoImmediate(c)
    \/ \E c \in Callers : CallTimed(c) \/ TimedAnswers(c) \/ TimerFires(c)

FlowSpec == FlowInit /\ [][FlowNext]_flowVars

-----------------------------------------------------------------------------
CallerRight(c) ==
    /\ memo.calls[caller[c].key] <= 1
    /\ Len(caller[c].got) <= 1 \/ limit.overlapped
    /\ caller[c].state = "done" => caller[c].got = <<memo.memo[caller[c].key]>>
    /\ caller[c].state = "queued" => c \in ToSet(memo.queues[caller[c].key])
    /\ caller[c].state = "called" /\ c \notin limit.timers /\ ~limit.overlapped
            => caller[c].got = <<IF c \in limit.inTime \ limit.stale THEN Ok ELSE TimedOut>>

AllFine == \A k \in DOMAIN outcomes : ~outcomes[k].error

FlowRight(error) ==
    IF outcomes = <<>> THEN ~error /\ TestsFirst(flow.kind)
    ELSE CASE flow.kind = "race" -> error = outcomes[1].error
           [] flow.kind = "waterfall" ->
                error = ~AllFine /\ (AllFine => Len(outcomes) = FlowTasks)
           [] flow.kind = "retry" ->
                /\ error = Last(outcomes).error
                /\ \A k \in 1..(Len(outcomes) - 1) : outcomes[k].error /\ outcomes[k].more
                /\ Len(outcomes) <= FlowTasks
                /\ error => Len(outcomes) = FlowTasks \/ ~Last(outcomes).more
           [] OTHER ->
                /\ error = ~AllFine
                /\ \A k \in 1..(Len(outcomes) - 1) :
                      outcomes[k].more \/ flow.kind = "forever"
                /\ AllFine => ~Last(outcomes).more /\ flow.kind # "forever"

(* A flow is answered once, and rightly: a waterfall, which ran its tasks in *)
(* order, with the error of the first that fails; a loop when its test ends  *)
(* it or a turn fails; a retry with a success, or with the error its filter  *)
(* refused or that of its last attempt; a race with what came first.  Who    *)
(* calls a memoized function gets one answer, that of the one call made for  *)
(* its key; who calls a function with a timeout gets one: its answer if that *)
(* came before the timer and no call before it timed out, else the timeout   *)
(* error.  Two promises of the docs that the code does not keep are left out *)
(* and stated below: what a call after a timeout is owed, and what one is    *)
(* that is under way when the wrapper is called again.                       *)
FlowIsRight ==
    /\ Len(flowAnswers) <= 1
    /\ flow.started > 0 /\ pending = {} /\ ~flow.waiting => Len(flowAnswers) = 1
    /\ \A k \in DOMAIN flowAnswers : FlowRight(flowAnswers[k].error)
    /\ flow.kind # "race" => \A k \in DOMAIN outcomes : outcomes[k].task = k
    /\ \A c \in Callers : CallerRight(c)

(* Not so in the code: the doc of timeout says that a function that answers  *)
(* in time has its caller get the answer.  timedOut is never reset, so after *)
(* one timeout every later call gets the error, however quick its answer.    *)
InTimeIsAnswered ==
    ~limit.overlapped => \A c \in limit.inTime : caller[c].got = <<Ok>>

(* Not so in the code: the doc of timeout says that the wrapper is called as *)
(* the function it wraps, so who calls it gets the answer of its own call.   *)
(* The callback of a second call takes the place of that of the first.       *)
OwnAnswer ==
    ~limit.timedOut => \A c \in Callers : caller[c].heard => caller[c].got = <<Ok>>
=============================================================================
