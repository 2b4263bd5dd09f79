-------------------------------- MODULE Ticks --------------------------------
(* process.nextTick of the bundle: functions wait in a queue that a timer    *)
(* drains; one that throws ends the loop, and a second timer, set when the   *)
(* loop began, goes on after it.  (Streams.tla drains the same queue, of     *)
(* functions that do not throw, in one step.)                                *)
EXTENDS Integers, Sequences, SequencesExt

CONSTANTS MaxTicks      \* bound: functions passed to nextTick

ASSUME TicksAssumption == MaxTicks \in Nat

VARIABLES queue,        \* functions waiting; they are numbered as they come
          currentQueue, \* those the loop took, <<>> for null
          queueIndex,   \* how many of these have been started
          draining,     \* the flag
          looping,      \* drainQueue's loop is on the stack
          timers,       \* those set: "drainQueue", "cleanUpNextTick"
          asked, ran    \* history: functions passed, functions started

tickVars == <<queue, currentQueue, queueIndex, draining, looping, timers, asked, ran>>

TicksInit ==
    /\ queue = <<>> /\ currentQueue = <<>> /\ queueIndex = 0
    /\ draining = FALSE /\ looping = FALSE
    /\ timers = {}
    /\ asked = <<>> /\ ran = <<>>

(* Any code calls nextTick, that of a function being run as well.            *)
NextTick ==
    /\ Len(asked) < MaxTicks
    /\ asked' = Append(asked, Len(asked) + 1)
    /\ queue' = Append(queue, Len(asked) + 1)
    /\ timers' = IF queue = <<>> /\ ~draining THEN timers \cup {"drainQueue"} ELSE timers
    /\ UNCHANGED <<currentQueue, queueIndex, draining, looping, ran>>

(* A slip: without the second timer.                                         *)
DrainWithoutTimer(waiting, left) ==
    /\ waiting # <<>>
    /\ currentQueue' = waiting /\ queue' = <<>>
    /\ draining' = TRUE /\ looping' = TRUE
    /\ timers' = left

(* The head of drainQueue, when `waiting' is the queue and `left' the timers *)
(* that are still set.                                                       *)
DrainQueue(waiting, left) ==
    /\ waiting # <<>>
    /\ currentQueue' = waiting /\ queue' = <<>>
    /\ draining' = TRUE /\ looping' = TRUE
    /\ timers' = left \cup {"cleanUpNextTick"}

DrainTimer ==
    /\ ~looping /\ "drainQueue" \in timers
    /\ \/ draining /\ timers' = timers \ {"drainQueue"}
          /\ UNCHANGED <<queue, currentQueue, draining, looping>>
       \/ ~draining /\ DrainQueue(queue, timers \ {"drainQueue"})
    /\ UNCHANGED <<queueIndex, asked, ran>>

(* The loop runs the next function; if it throws, only its flags are left.   *)
Run ==
    /\ looping /\ queueIndex < Len(currentQueue)
    /\ queueIndex' = queueIndex + 1
    /\ ran' = Append(ran, currentQueue[queueIndex + 1])
    /\ looping' \in BOOLEAN
    /\ UNCHANGED <<queue, currentQueue, draining, timers, asked>>

(* What was taken has been run: the loop takes what has come since, or ends. *)
TakesMore ==
    /\ looping /\ queueIndex = Len(currentQueue)
    /\ queueIndex' = 0
    /\ currentQueue' = queue /\ queue' = <<>>
    /\ IF queue # <<>> THEN UNCHANGED <<draining, looping, timers>>
       ELSE /\ draining' = FALSE /\ looping' = FALSE
            /\ timers' = timers \ {"cleanUpNextTick"}
    /\ UNCHANGED <<asked, ran>>

(* A slip: what was taken is run from its start.                             *)
CleanUpFromStart ==
    /\ ~looping /\ "cleanUpNextTick" \in timers
    /\ draining /\ currentQueue # <<>>
    /\ DrainQueue(currentQueue \o queue, timers \ {"cleanUpNextTick"})
    /\ queueIndex' = 0
    /\ UNCHANGED <<asked, ran>>

(* The second timer: what was taken comes before what has come since, and    *)
(* queueIndex still says how much of it was run.                             *)
CleanUpNextTick ==
    /\ ~looping /\ "cleanUpNextTick" \in timers
    /\ draining /\ currentQueue # <<>>
    /\ DrainQueue(currentQueue \o queue, timers \ {"cleanUpNextTick"})
    /\ UNCHANGED <<queueIndex, asked, ran>>

TicksNext == NextTick \/ DrainTimer \/ Run \/ TakesMore \/ CleanUpNextTick

(* Timers fire, and a loop that runs goes on.                                *)
TicksSpec ==
    /\ TicksInit /\ [][TicksNext]_tickVars
    /\ WF_tickVars(DrainTimer) /\ WF_tickVars(CleanUpNextTick)
    /\ WF_tickVars(Run) /\ WF_tickVars(TakesMore)

-----------------------------------------------------------------------------
(* nextTick is a fifo with one reader who never leaves: each function is run *)
(* once, in the order they were passed, whichever throw (12974).             *)
Abstract == INSTANCE Fifo WITH
    Readers <- {"loop"}, Bytes <- [k \in 1..MaxTicks |-> k],
    sent <- asked, taken <- [d \in {"loop"} |-> ran], whole <- {"loop"}

TicksAreFifo == Abstract!FifoSpec

(* Every function passed to nextTick is run, though others throw: some timer *)
(* is always set for it, or the loop is on its way to it (13016, 12988).     *)
EveryTickRuns == \A n \in 1..MaxTicks : Len(asked) >= n ~> Len(ran) >= n
=============================================================================
