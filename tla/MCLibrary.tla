----------------------------- MODULE MCLibrary -----------------------------
(* The libraries of the bundle: streams in pipes, EventEmitter and async.    *)
(* Each is explored by itself while the others rest in an initial state.     *)
EXTENDS Pipes, Events, AsyncEach, AsyncQueue, AsyncAuto, AsyncFlow

VARIABLE part

MCChunks == << <<1>>, <<2, 3>>, <<4>> >>
SinkKinds == {"sync", "async", "writev"}
MCSetups == [ topology : {"direct", "both", "through"}, source : {"sync", "async", "eager"},
              sinks : {[d \in Sinks |-> IF d = FirstSink THEN k ELSE "async"] : k \in SinkKinds} ]
MCMaxOps == [direct |-> 2, both |-> 1, through |-> 1]

MCListeners == {"f", "g"}
MCEventTypes == {"data", "error", "removeListener", "newListener"}
MCQueueKinds == { [kind |-> "queue", concurrency |-> 2, payload |-> 1],
                  [kind |-> "cargo", concurrency |-> 1, payload |-> 2],
                  [kind |-> "priority", concurrency |-> 1, payload |-> 1] }
MCDependencies == {<<>>} \cup [1..1 -> 1..3] \cup [1..2 -> 1..3]
MCGraphs == {<<>>} \cup [1..2 -> {<<>>, <<1>>, <<2>>}] \cup [1..3 -> MCDependencies]

(* What is chosen at the start, for the part that is explored only.          *)
MCInit ==
    /\ part \in {"pipes", "events", "each", "queue", "auto", "flow"}
    /\ PipesInit
    /\ part # "pipes" =>
          /\ topology = "direct"
          /\ world.sourceMode = "sync" /\ world.sinkMode[FirstSink] = "async"
    /\ EventsInit
    /\ \/ part = "each"
       \/ /\ part # "each"
          /\ job = CHOOSE j \in Jobs : j.size = 1
    /\ EachInit
    /\ QueueInit /\ (part # "queue" => q.kind = "queue")
    /\ \/ part = "auto"
       \/ /\ part # "auto"
          /\ graph = <<>> /\ concurrency = 1
    /\ AutoInit
    /\ \/ part = "flow"
       \/ /\ part # "flow" /\ caller = [c \in Callers |-> [key |-> 1, state |-> "new", got |-> <<>>,
                                                           heard |-> FALSE]]
          /\ flow = [kind |-> "race", started |-> 0, waiting |-> FALSE]
    /\ FlowInit

(* Listeners are alike: the first that is registered may be any of them.     *)
FirstIsF ==
    emitter.heap = <<>> => \A k \in DOMAIN emitter'.heap : emitter'.heap[k][1].listener = "f"

MCNext ==
    /\ UNCHANGED part
    /\ IF part = "pipes" THEN PipesNext ELSE UNCHANGED pipeVars
    /\ IF part = "events" THEN EventsNext /\ FirstIsF ELSE UNCHANGED eventVars
    /\ IF part = "each" THEN EachNext ELSE UNCHANGED eachVars
    /\ IF part = "queue" THEN QueueNext ELSE UNCHANGED queueVars
    /\ IF part = "auto" THEN AutoNext ELSE UNCHANGED autoVars
    /\ IF part = "flow" THEN FlowNext ELSE UNCHANGED flowVars

MCSpec ==
    MCInit /\ [][MCNext]_<<part, pipeVars, eventVars, eachVars, queueVars, autoVars, flowVars>>
=============================================================================
