----------------------------- MODULE AsyncQueue -----------------------------
(* queue of async, with its variants cargo (tasks by the load) and           *)
(* priorityQueue.  A task is the number of its push; process runs by         *)
(* setImmediate, after a worker has called back, or from one that calls back *)
(* before it returns.                                                        *)
EXTENDS Integers, Sequences, SequencesExt, FiniteSets

CONSTANTS MaxTasks,     \* bound: tasks pushed
          MaxSwitches,  \* bound: calls of pause, resume, kill and empty pushes
          QueueKinds    \* the queues tried: [kind, concurrency, payload]

ASSUME QueueAssumption ==
    /\ MaxTasks \in Nat /\ MaxSwitches \in Nat
    /\ \A k \in QueueKinds : k.concurrency \in Nat \ {0} /\ k.payload \in Nat \ {0}

VARIABLES q,            \* [kind, concurrency, payload, paused, killed]
          tasks,        \* the doubly linked list: [id, priority]
          workers,      \* the counter
          given,        \* loads of tasks whose worker has not called back
          workersList,
          immediates,   \* [process, drain] set by setImmediate: how many
          phase,        \* "idle" (the event loop), "process" (its loop), "next" (in _next)
          work          \* history: [pushed : priorities, taken, called : sequences of tasks,
                        \*  drained : the tasks not called yet at each drain, switches, emptyPushes]

queueVars == <<q, tasks, workers, given, workersList, immediates, phase, work>>

Priorities == {1, 2}

-----------------------------------------------------------------------------
QueueInit ==
    /\ \E k \in QueueKinds : q = [ kind |-> k.kind, concurrency |-> k.concurrency,
                                   payload |-> k.payload, paused |-> FALSE, killed |-> FALSE ]
    /\ tasks = <<>> /\ workers = 0 /\ given = {} /\ workersList = <<>>
    /\ immediates = [process |-> 0, drain |-> 0]
    /\ phase = "idle"
    /\ work = [ pushed |-> <<>>, taken |-> <<>>, called |-> <<>>, drained |-> <<>>,
                switches |-> 0, emptyPushes |-> 0 ]

Idle == Len(tasks) + workers = 0

(* Behind those of the same priority, before those of a higher number.       *)
NextNode(priority) ==
    LET later == {k \in DOMAIN tasks : ~(priority >= tasks[k].priority)}
    IN  IF later = {} THEN Len(tasks) + 1 ELSE CHOOSE k \in later : \A n \in later : k <= n

(* push, unshift and the push of a priority queue, of one task.  The caller  *)
(* may be any code, that of a worker or of a hook as well.                   *)
Insert(at, priority) ==
    /\ Len(work.pushed) < MaxTasks
    /\ tasks' = InsertAt(tasks, at, [id |-> Len(work.pushed) + 1, priority |-> priority])
    /\ immediates' = [immediates EXCEPT !.process = @ + 1]
    /\ work' = [work EXCEPT !.pushed = Append(@, priority)]
    /\ UNCHANGED <<q, workers, given, workersList, phase>>

QueuePush ==
    IF q.kind = "priority" THEN \E p \in Priorities : Insert(NextNode(p), p)
    ELSE Insert(Len(tasks) + 1, 1)

QueueUnshift == q.kind # "priority" /\ Insert(1, 1)

(* A push of nothing: drain is called, by a priority queue whether it is     *)
(* idle or not.                                                              *)
PushNothing ==
    /\ work.switches < MaxSwitches
    /\ work' = [work EXCEPT !.switches = @ + 1, !.emptyPushes = @ + 1]
    /\ immediates' = IF Idle \/ q.kind = "priority" THEN [immediates EXCEPT !.drain = @ + 1]
                     ELSE [immediates EXCEPT !.process = @ + 1]
    /\ UNCHANGED <<q, tasks, workers, given, workersList, phase>>

Switched == work.switches < MaxSwitches /\ work' = [work EXCEPT !.switches = @ + 1]

QueuePause ==
    /\ Switched
    /\ q' = [q EXCEPT !.paused = TRUE]
    /\ UNCHANGED <<tasks, workers, given, workersList, immediates, phase>>

(* A slip: one process for all.                                              *)
ResumeFree == q.concurrency - 1

ResumeCount == IF Len(tasks) < q.concurrency THEN Len(tasks) ELSE q.concurrency

QueueResume ==
    /\ Switched /\ q.paused
    /\ q' = [q EXCEPT !.paused = FALSE]
    /\ immediates' = [immediates EXCEPT !.process = @ + ResumeCount]
    /\ UNCHANGED <<tasks, workers, given, workersList, phase>>

QueueKill ==
    /\ Switched
    /\ q' = [q EXCEPT !.killed = TRUE]
    /\ tasks' = <<>>
    /\ UNCHANGED <<workers, given, workersList, immediates, phase>>

-----------------------------------------------------------------------------
RunsImmediate ==
    /\ phase = "idle"
    /\ \/ /\ immediates.process > 0
          /\ immediates' = [immediates EXCEPT !.process = @ - 1]
          /\ phase' = "process"
          /\ UNCHANGED work
       \/ /\ immediates.drain > 0
          /\ immediates' = [immediates EXCEPT !.drain = @ - 1]
          /\ work' = IF q.killed THEN work
                     ELSE [work EXCEPT !.drained = Append(@, Len(tasks) + workers)]
          /\ UNCHANGED phase
    /\ UNCHANGED <<q, tasks, workers, given, workersList>>

MayTake == ~q.paused /\ workers < q.concurrency /\ tasks # <<>>

Load == LET l == IF Len(tasks) < q.payload THEN Len(tasks) ELSE q.payload
        IN  [k \in 1..l |-> tasks[k].id]

(* splice(index) takes away all from the index on, not the one.              *)
Unlisted(list, load) ==
    LET found == {k \in DOMAIN list : \E n \in DOMAIN load : list[k] = load[n]}
    IN  IF found = {} THEN list ELSE SubSeq(list, 1, (CHOOSE k \in found : \A n \in found : k <= n) - 1)

(* The head of _next, with the callbacks of the tasks.                       *)
CallTasks(load, list) ==
    /\ workersList' = Unlisted(list, load)
    /\ phase' = "next"

(* One round of process; the worker may call back before it returns.         *)
Take ==
    /\ phase = "process" /\ MayTake
    /\ tasks' = SubSeq(tasks, Len(Load) + 1, Len(tasks))
    /\ LET list == Append(workersList, Load[1])
           taken == [work EXCEPT !.taken = @ \o Load]
       IN  \/ /\ workers' = workers + 1 /\ given' = given \cup {Load}
              /\ workersList' = list /\ work' = taken
              /\ UNCHANGED phase
           \/ /\ CallTasks(Load, list)
              /\ work' = [taken EXCEPT !.called = @ \o Load]
              /\ UNCHANGED <<workers, given>>
    /\ UNCHANGED <<q, immediates>>

ProcessEnds ==
    /\ phase = "process" /\ ~MayTake
    /\ phase' = "idle"
    /\ UNCHANGED <<q, tasks, workers, given, workersList, immediates, work>>

WorkerCallsBack ==
    /\ phase = "idle"
    /\ \E load \in given :
          /\ given' = given \ {load} /\ workers' = workers - 1
          /\ CallTasks(load, workersList)
          /\ work' = [work EXCEPT !.called = @ \o load]
    /\ UNCHANGED <<q, tasks, immediates>>

(* The rest of _next.                                                        *)
NextEnds ==
    /\ phase = "next"
    /\ phase' = "process"
    /\ work' = IF Idle /\ ~q.killed THEN [work EXCEPT !.drained = Append(@, 0)] ELSE work
    /\ UNCHANGED <<q, tasks, workers, given, workersList, immediates>>

QueueNext ==
    \/ QueuePush \/ QueueUnshift \/ PushNothing \/ QueuePause \/ QueueResume \/ QueueKill
    \/ RunsImmediate \/ Take \/ ProcessEnds \/ WorkerCallsBack \/ NextEnds

QueueSpec == QueueInit /\ [][QueueNext]_queueVars

-----------------------------------------------------------------------------
Ids(loads) == UNION {ToSet(l) : l \in loads}

(* Tasks of a priority wait in the order they came, before those of a higher *)
(* number; those of equal priority are not reordered by those between.       *)
InOrderOfPriority ==
    \A k, n \in DOMAIN tasks : k < n =>
        \/ tasks[k].priority < tasks[n].priority
        \/ tasks[k].priority = tasks[n].priority /\ tasks[k].id < tasks[n].id

(* Every task is given to one worker at most, is called back only after, and *)
(* once; what is neither waiting nor given was called back, or killed.  No   *)
(* task is forgotten: when nothing runs and a worker is free, a waiting task *)
(* has a process to come, whatever was paused, resumed or pushed from within *)
(* a callback (6670, 6698, 6779).  drain is called when the last task has    *)
(* been called back, unless nothing was pushed: then one may be waiting or   *)
(* running (6651, 8426).                                                     *)
TasksRunOnce ==
    /\ IsInjective(work.taken) /\ IsInjective(work.called)
    /\ ToSet(work.taken) = ToSet(work.called) \cup Ids(given)
    /\ ToSet(work.called) \cap Ids(given) = {}
    /\ workers = Cardinality(given) /\ workers <= q.concurrency
    /\ ~q.killed => DOMAIN work.pushed \ ToSet(work.taken) = {tasks[k].id : k \in DOMAIN tasks}
    /\ q.kind = "priority" => InOrderOfPriority
    /\ phase = "idle" /\ MayTake => immediates.process > 0
    /\ \A k \in DOMAIN work.drained : work.drained[k] > 0 => work.emptyPushes > 0
=============================================================================
