------------------------------- MODULE Pipes -------------------------------
(* A source piped into one sink, into two, or through a PassThrough into     *)
(* one (Streams.tla), with sinks and sources that answer at once or later,   *)
(* and a user who pauses, resumes, unpipes, corks and reads meanwhile.       *)
EXTENDS Streams

CONSTANTS Sinks,        \* the sinks
          Chunks,       \* what the source has: a sequence of chunks
          SourceHWM, ThroughHWM, SinkHWM,   \* the highWaterMarks
          Setups,       \* [topology, source, sinks]: "direct", "both" or "through";
                        \* how _read answers: "sync", "async", "eager"; and how each
                        \* sink's _write does: "sync", "async", "writev"
          MaxOps,       \* bound: topology -> what the user does meanwhile
          MaxErrors     \* bound: writes that fail

ASSUME PipesAssumption ==
    /\ {SourceHWM, ThroughHWM, SinkHWM} \subseteq Nat \ {0}
    /\ \A s \in Setups : s.sinks \in [Sinks -> {"sync", "async", "writev"}] /\ MaxOps[s.topology] \in Nat
    /\ MaxErrors \in Nat

VARIABLES world,    \* the streams (Streams.tla)
          topology,
          ops,      \* what the user has done: a sequence of names
          failed    \* writes that failed

pipeVars == <<world, topology, ops, failed>>

FirstSink == CHOOSE d \in Sinks : TRUE
AllBytes == FlattenSeq(Chunks)
Writables == Sinks \cup {Through}

World(sourceMode, sinkMode) ==
    [ r |-> [id \in {Source, Through} |-> IF id = Source THEN ReadableState(SourceHWM)
                                                         ELSE TransformReadable(ThroughHWM)],
      w |-> [d \in Writables |-> WritableState(IF d = Through THEN ThroughHWM ELSE SinkHWM)],
      t |-> TransformState, ticks |-> <<>>, left |-> Chunks, heard |-> <<>>, errors |-> <<>>,
      ret |-> None, ok |-> TRUE, late |-> FALSE, order |-> <<Source, Through>>,
      sourceMode |-> sourceMode, sinkMode |-> sinkMode ]

Piped(z, how) ==
    CASE how = "direct" -> PipeTo(z, Source, FirstSink)
      [] how = "both" -> FoldLeft(LAMBDA y, d : PipeTo(y, Source, d), z, SetToSeq(Sinks))
      [] how = "through" -> PipeTo(PipeTo(z, Source, Through), Through, FirstSink)

PipesInit ==
    /\ \E s \in Setups :
          /\ topology = s.topology
          /\ world = Piped(World(s.source, s.sinks), s.topology)
    /\ ops = <<>>
    /\ failed = 0

(* drainQueue: what was put off is run in its order, and what is put off     *)
(* meanwhile after it, before another event.                                 *)
RECURSIVE DrainQueue(_)
DrainQueue(z) ==
    IF z.ticks = <<>> THEN z
    ELSE DrainQueue(Do([z EXCEPT !.ticks = Tail(@)], Head(z.ticks)))

Tick ==
    /\ world.ticks # <<>>
    /\ world' = DrainQueue(world)
    /\ UNCHANGED <<topology, ops, failed>>

(* The source pushes what it was asked for, or, when it is eager, what it    *)
(* has; after the last chunk it pushes null.                                 *)
Asked ==
    /\ world.sourceMode # "sync"
    /\ ~world.r[Source].ended
    /\ world.sourceMode = "async" => world.r[Source].reading

Supply ==
    /\ Asked
    /\ world' = IF world.left = <<>> THEN Do(world, [fn |-> "pushEnd", id |-> Source])
                ELSE Push([world EXCEPT !.left = Tail(@)], Source, Head(world.left))
    /\ UNCHANGED <<topology, ops, failed>>

Writing(d) == world.w[d].writing

Complete(d) ==
    /\ Writing(d)
    /\ world' = OnWrite(world, d, FALSE)
    /\ UNCHANGED <<topology, ops, failed>>

WriteFails(d) ==
    /\ Writing(d)
    /\ failed < MaxErrors
    /\ world' = OnWrite(world, d, TRUE)
    /\ failed' = failed + 1
    /\ UNCHANGED <<topology, ops>>

(* The user.                                                                 *)
Op(name, z) ==
    /\ Len(ops) < MaxOps[topology]
    /\ ops' = Append(ops, name)
    /\ world' = z
    /\ UNCHANGED <<topology, failed>>

Waiting == world.r[Source].awaitDrain > 0    \* for a sink to drain
UserPauses == Op("pause", Pause(world, Source))
UserResumes == Op(IF Waiting THEN "hurry" ELSE "resume", Resume(world, Source))
UserUnpipes(d) ==
    /\ Contains(world.r[Source].pipes, d)
    /\ Op("unpipe", Do(world, [fn |-> "unpipe", id |-> Source, sink |-> d]))
UserPipes(d) ==
    /\ SourcesOf(world, d) = <<>>
    /\ ~world.w[d].ending /\ ~world.w[d].errorEmitted
    /\ Op(IF Waiting \/ world.w[d].needDrain THEN "hurry" ELSE "pipe", PipeTo(world, Source, d))
UserCorks(d) == Op("cork", Cork(world, d))
UserUncorks(d) == world.w[d].corked > 0 /\ Op("uncork", Do(world, [fn |-> "uncork", id |-> d]))

(* read(n) by a user who has no pipe, and unshift of what was read last.     *)
UserReads(n) ==
    /\ world.r[Source].pipes = <<>>
    /\ Op("read", Read(world, Source, n))
UserUnshifts ==
    /\ world.r[Source].pipes = <<>>
    /\ ops # <<>> /\ Last(ops) = "read"
    /\ world.ret # None /\ ~world.r[Source].endEmitted
    /\ Op("unshift", Do([world EXCEPT !.heard = SubSeq(@, 1, Len(@) - Len(world.ret))],
                        [fn |-> "unshift", id |-> Source, chunk |-> world.ret]))

User ==
    \/ UserPauses \/ UserResumes \/ UserUnshifts
    \/ \E d \in Sinks : UserUnpipes(d) \/ UserPipes(d) \/ UserCorks(d) \/ UserUncorks(d)
    \/ \E n \in {All, 1, SourceHWM + 1} : UserReads(n)

PipesNext ==
    \/ Tick \/ Supply \/ User
    \/ \E d \in Sinks : Complete(d) \/ WriteFails(d)

PipesSpec == PipesInit /\ [][PipesNext]_pipeVars

-----------------------------------------------------------------------------
Did(name) == Contains(ops, name)
Piping(d) == topology = "both" \/ d = FirstSink

(* A sink that was never unpiped, nor piped to after the start, and no byte  *)
(* went past because the user resumed a source without a pipe.               *)
Steady == {d \in Sinks : Piping(d) /\ ~Did("unpipe") /\ failed = 0}

Produced == SubSeq(AllBytes, 1, Len(AllBytes) - Len(FlattenSeq(world.left)))

(* A byte that left the source's buffer went to the sinks piped to then, or  *)
(* to the user: those read are in order even across unpipe, pipe and unshift.*)
Rising(bytes) == \A k \in 1..(Len(bytes) - 1) : bytes[k] < bytes[k + 1]

GivenOutOnce ==
    /\ Rising(world.heard)
    /\ topology = "direct" =>
          \A d \in Sinks : ToSet(world.w[d].got) \cap ToSet(world.heard) = {}

(* The pipe implements Fifo over its buffers, a transform, pauses, and       *)
(* writes that are put together: a sink gets the bytes in order, none twice, *)
(* and, as long as it stays piped, all of them (Fifo.tla).                   *)
Abstract == INSTANCE Fifo WITH Readers <- Sinks, Bytes <- AllBytes, sent <- Produced,
                               whole <- Steady, taken <- [d \in Sinks |-> world.w[d].got]
PipeIsFifo == Abstract!FifoSpec

(* `finish' comes last: after it nothing is buffered or waits for its        *)
(* callback, every callback was called in the order of the writes, and a     *)
(* sink that stayed piped has got every byte.  No stream is driven against   *)
(* its protocol: nothing is pushed after the end, nothing written after      *)
(* end(), and a transform ends when it has nothing left (errors).  And what  *)
(* a user reads besides the pipes was given to no sink.                      *)
FinishIsLast ==
    /\ world.errors = <<>>
    /\ GivenOutOnce
    /\ \A d \in Writables :
        LET w == world.w[d] IN
        /\ \A k \in 1..(Len(w.called) - 1) : w.called[k] < w.called[k + 1]
        /\ w.finished =>
              /\ w.pendingcb = 0 /\ w.length = 0 /\ ~w.writing /\ w.buffered = <<>>
              /\ Len(w.called) = w.written
              /\ d \in Steady => w.got = AllBytes

(* A sink that is slow holds its source up: it is never given more than its  *)
(* highWaterMark and the chunk that went over it, unless the user hurries    *)
(* the source (as above), or pipes it into a sink that is full.              *)
Hurried == world.late \/ Did("hurry")
LargestChunk == CHOOSE n \in {Len(Chunks[k]) : k \in DOMAIN Chunks} :
                    \A k \in DOMAIN Chunks : Len(Chunks[k]) <= n
Backpressure ==
    ~Hurried =>
        \A d \in Sinks : world.w[d].length < SinkHWM + LargestChunk

(* Nothing stalls: when no task is put off, the source is not asked and no   *)
(* sink writes, a source that nobody paused has no pipe left, each having    *)
(* been ended or unpiped, whatever drained, left, failed or was corked       *)
(* before.  Not so when the last sink behind a transform has left, nor when  *)
(* the user resumes or pipes a source that is to wait for a sink: resume_,   *)
(* run later, forgets whom it waits for (14766).                             *)
AtRest ==
    /\ world.ticks = <<>> /\ ~Asked
    /\ \A d \in Sinks : ~Writing(d) /\ world.w[d].corked = 0

Abandoned == topology = "through" /\ failed > 0

NothingStalls ==
    AtRest /\ ~Did("pause") /\ ~Hurried /\ ~Abandoned =>
        /\ world.r[Source].pipes = <<>>
        /\ \A d \in Steady : world.w[d].finished
=============================================================================
