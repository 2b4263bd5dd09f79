------------------------------ MODULE AsyncAuto ------------------------------
(* auto of async: tasks that name the tasks they depend on, some at a time.  *)
EXTENDS Integers, Sequences, SequencesExt, FiniteSets

CONSTANTS Graphs,           \* the task objects tried: task -> sequence of dependencies
          Concurrencies     \* the bounds on running tasks tried

(* auto refuses a dependency that is no task (5937), and takes 0 for no      *)
(* bound (5902).                                                             *)
ASSUME AutoAssumption ==
    /\ \A g \in Graphs : /\ IsFiniteSet(DOMAIN g)
                         /\ \A t \in DOMAIN g : g[t] \in Seq(DOMAIN g)
    /\ Concurrencies \subseteq Nat \ {0}

VARIABLES graph, concurrency,
          readyToCheck,     \* stack of the tasks found to be reachable
          uncheckedDependencies, \* task -> dependencies not reached yet
          counter,          \* tasks reached
          readyTasks,       \* queue of the tasks that may run
          remaining,        \* task -> dependencies its listeners still wait for
          autoRunning,      \* tasks whose callback was not called
          results,          \* tasks that have called back without an error
          hasError,
          autoPhase,        \* "checking", checkForDeadlocks' loop; "looping", that of
                            \* processQueue; "waiting", for a task to call back
          autoAnswers       \* history: calls of the callback, or what was thrown

checkVars == <<readyToCheck, uncheckedDependencies, counter>>
autoVars == <<graph, concurrency, checkVars, readyTasks, remaining, autoRunning, results,
              hasError, autoPhase, autoAnswers>>

Tasks == DOMAIN graph
DependsOn(g, t) == ToSet(g[t])

-----------------------------------------------------------------------------
Dependents(t) == {d \in Tasks : t \in DependsOn(graph, d)}
Dependencies == [t \in Tasks |-> Len(graph[t])]
Free == {t \in Tasks : graph[t] = <<>>}

(* Everything up to checkForDeadlocks.                                       *)
AutoInit ==
    /\ graph \in Graphs /\ concurrency \in Concurrencies
    /\ readyTasks = SetToSeq(Free) /\ remaining = Dependencies
    /\ readyToCheck = SetToSeq(Free) /\ uncheckedDependencies = Dependencies /\ counter = 0
    /\ autoRunning = {} /\ results = {} /\ hasError = FALSE
    /\ IF Tasks = {} THEN autoPhase = "waiting" /\ autoAnswers = <<"done">>
                     ELSE autoPhase = "checking" /\ autoAnswers = <<>>

-----------------------------------------------------------------------------
(* checkForDeadlocks: from the tasks that depend on nothing, follow those    *)
(* whose dependencies have all been reached.  A task counts each of its      *)
(* dependencies as often as it names it, but is told of each once.           *)
CheckTask ==
    /\ autoPhase = "checking" /\ readyToCheck # <<>>
    /\ LET t == Last(readyToCheck)
           left == [d \in Tasks |-> uncheckedDependencies[d] -
                                    IF d \in Dependents(t) THEN 1 ELSE 0]
       IN  /\ uncheckedDependencies' = left
           /\ readyToCheck' = Front(readyToCheck)
                                  \o SetToSeq({d \in Dependents(t) : left[d] = 0})
    /\ counter' = counter + 1
    /\ UNCHANGED <<graph, concurrency, readyTasks, remaining, autoRunning, results, hasError,
                   autoPhase, autoAnswers>>

(* It throws when some were not reached, and processQueue follows.           *)
CheckEnds ==
    /\ autoPhase = "checking" /\ readyToCheck = <<>>
    /\ IF counter = Cardinality(Tasks)
       THEN autoPhase' = "looping" /\ UNCHANGED autoAnswers
       ELSE autoPhase' = "waiting" /\ autoAnswers' = <<"thrown">>
    /\ UNCHANGED <<graph, concurrency, checkVars, readyTasks, remaining, autoRunning, results,
                   hasError>>

-----------------------------------------------------------------------------
(* A slip: without once.                                                     *)
AnswerAgain(a) == Append(autoAnswers, a)

AnswerOnce(a) == IF autoAnswers = <<>> THEN <<a>> ELSE autoAnswers

(* taskComplete tells those that wait, then processQueue looks whether all   *)
(* is done, and loops.  After an error there are no listeners.               *)
Informed(t) == IF hasError THEN {} ELSE Dependents(t)

TaskComplete(t, ready, others) ==
    LET left == [d \in Tasks |-> remaining[d]
                    - IF d \in Informed(t)
                      THEN Cardinality({k \in DOMAIN graph[d] : graph[d][k] = t}) ELSE 0]
        freed == SetToSeq({d \in Informed(t) : left[d] = 0})
    IN  /\ remaining' = left
        /\ readyTasks' = ready \o freed
        /\ results' = results \cup {t}
        /\ autoAnswers' = IF ready \o freed = <<>> /\ others = {} THEN AnswerOnce("done")
                          ELSE autoAnswers
        /\ autoPhase' = "looping"
        /\ UNCHANGED hasError

TaskFails(ready) ==
    /\ hasError' = TRUE
    /\ autoAnswers' = AnswerOnce("error")
    /\ readyTasks' = ready
    /\ UNCHANGED <<remaining, results>>

MayRun == readyTasks # <<>> /\ Cardinality(autoRunning) < concurrency

(* runTask of the first that is ready: it does nothing after an error; the   *)
(* task may call back before it returns.                                     *)
RunTask ==
    /\ autoPhase = "looping" /\ MayRun
    /\ LET t == Head(readyTasks) ready == Tail(readyTasks)
       IN  IF hasError
           THEN readyTasks' = ready
                /\ UNCHANGED <<remaining, autoRunning, results, hasError, autoPhase, autoAnswers>>
           ELSE \/ /\ autoRunning' = autoRunning \cup {t} /\ readyTasks' = ready
                   /\ UNCHANGED <<remaining, results, hasError, autoPhase, autoAnswers>>
                \/ TaskComplete(t, ready, autoRunning) /\ UNCHANGED autoRunning
                \/ TaskFails(ready) /\ UNCHANGED <<autoRunning, autoPhase>>
    /\ UNCHANGED <<graph, concurrency, checkVars>>

AutoLoopEnds ==
    /\ autoPhase = "looping" /\ ~MayRun
    /\ autoPhase' = "waiting"
    /\ UNCHANGED <<graph, concurrency, checkVars, readyTasks, remaining, autoRunning, results,
                   hasError, autoAnswers>>

TaskCallsBack ==
    /\ autoPhase = "waiting"
    /\ \E t \in autoRunning :
          /\ autoRunning' = autoRunning \ {t}
          /\ \/ TaskComplete(t, readyTasks, autoRunning \ {t})
             \/ TaskFails(readyTasks) /\ UNCHANGED autoPhase
    /\ UNCHANGED <<graph, concurrency, checkVars>>

AutoNext == CheckTask \/ CheckEnds \/ RunTask \/ AutoLoopEnds \/ TaskCallsBack
AutoSpec == AutoInit /\ [][AutoNext]_autoVars

-----------------------------------------------------------------------------
(* Tasks each of which depends on one of them.                               *)
WaitForEachOther(S) == S # {} /\ \A t \in S : DependsOn(graph, t) \cap S # {}

(* A task is only started when the tasks it depends on have called back      *)
(* without an error, and no more than `concurrency' run.  auto refuses       *)
(* exactly the tasks that could not all be run: those that wait for each     *)
(* other, and (for it counts them twice, 6034) those that name one twice.    *)
(* All others come to one answer: all tasks were run, or one has failed.     *)
AutoIsRight ==
    /\ \A t \in autoRunning \cup results : DependsOn(graph, t) \subseteq results
    /\ Cardinality(autoRunning) <= concurrency
    /\ Len(autoAnswers) <= 1
    /\ autoPhase # "checking" =>
          (autoAnswers = <<"thrown">> <=>
              \/ \E S \in SUBSET Tasks : WaitForEachOther(S)
              \/ \E t \in Tasks : ~IsInjective(graph[t]))
    /\ autoAnswers = <<"done">> => results = Tasks
    /\ autoPhase = "waiting" /\ autoRunning = {} => autoAnswers # <<>>
=============================================================================
