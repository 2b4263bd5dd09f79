------------------------------ MODULE Streams ------------------------------
(* The streams of aidos.js (readable-stream): what Readable, Writable and    *)
(* Transform do between two turns of the event loop.  A stream's functions   *)
(* call each other to any depth (a push may flow into a pipe, whose write    *)
(* may push into the next stream), so each is an operator from a world to    *)
(* the world after it, and Do, which performs one call, is what recurs; only *)
(* what is put off with process.nextTick, or waits for the source or a sink, *)
(* is left for a later step.                                                 *)
(*                                                                           *)
(* A chunk is a sequence of bytes and a byte is its number in the source.    *)
(* Encodings, object mode and the `readable' event's listeners are left out. *)
EXTENDS Integers, Sequences, SequencesExt

Source == "source"      \* a Readable with a _read of its user's
Through == "through"    \* a PassThrough
None == <<-1>>          \* no chunk
All == -1               \* read() without an argument

(* ReadableState; what it says of its pipes is kept with it.                 *)
ReadableState(hwm) ==
    [ buffer |-> <<>>, hwm |-> hwm, flowing |-> "null", ended |-> FALSE,
      endEmitted |-> FALSE, reading |-> FALSE, sync |-> TRUE, needReadable |-> FALSE,
      emittedReadable |-> FALSE, resumeScheduled |-> FALSE, readingMore |-> FALSE,
      awaitDrain |-> 0, pipes |-> <<>> ]

(* WritableState.  A request is a chunk and its callback; `called` is which  *)
(* callbacks were called, `got` which chunks _write was given (history).     *)
WritableState(hwm) ==
    [ length |-> 0, hwm |-> hwm, needDrain |-> FALSE, ending |-> FALSE, ended |-> FALSE,
      finished |-> FALSE, writing |-> FALSE, corked |-> 0, sync |-> TRUE,
      bufferProcessing |-> FALSE, writecb |-> <<>>, writelen |-> 0, buffered |-> <<>>,
      pendingcb |-> 0, prefinished |-> FALSE, errorEmitted |-> FALSE,
      written |-> 0, called |-> <<>>, got |-> <<>> ]

TransformState == [needTransform |-> FALSE, transforming |-> FALSE, chunk |-> None]

(* A Transform's readable side starts as if a read were wanted.              *)
TransformReadable(hwm) == [ReadableState(hwm) EXCEPT !.needReadable = TRUE, !.sync = FALSE]

Length(r) == Len(FlattenSeq(r.buffer))
Later(z, fn, id) == [z EXCEPT !.ticks = Append(@, [fn |-> fn, id |-> id])]
SourcesOf(z, d) == SelectSeq(z.order, LAMBDA id : Contains(z.r[id].pipes, d))
EmitError(z, what) == [z EXCEPT !.errors = Append(@, what)]

(* The calls through which the streams reach each other.                     *)
RECURSIVE Do(_, _)
Read(z, id, n) == Do(z, [fn |-> "read", id |-> id, n |-> n])
Push(z, id, chunk) == Do(z, [fn |-> "push", id |-> id, chunk |-> chunk])
DoWrite(z, d, chunks, cbs) == Do(z, [fn |-> "doWrite", id |-> d, chunks |-> chunks, cbs |-> cbs])
OnWrite(z, d, failed) == Do(z, [fn |-> "onwrite", id |-> d, failed |-> failed])
FinishMaybe(z, d) == Do(z, [fn |-> "finishMaybe", id |-> d])
TransformRead(z) == Do(z, [fn |-> "_read"])

Pause(z, id) == [z EXCEPT !.r[id].flowing = "no"]

RECURSIVE Flow(_, _)
Flow(z, id) ==
    IF z.r[id].flowing # "yes" THEN z
    ELSE LET z1 == Read(z, id, All) IN IF z1.ret = None THEN z1 ELSE Flow(z1, id)

-----------------------------------------------------------------------------
(* Readable.                                                                 *)
EndReadable(z, id) ==
    IF z.r[id].endEmitted THEN z
    ELSE Later([z EXCEPT !.r[id].ended = TRUE], "endReadable", id)

EmitReadable(z, id) ==
    LET z1 == [z EXCEPT !.r[id].needReadable = FALSE, !.r[id].emittedReadable = TRUE]
    IN  IF z.r[id].emittedReadable THEN [z EXCEPT !.r[id].needReadable = FALSE]
        ELSE IF z.r[id].sync THEN Later(z1, "emitReadable", id) ELSE Flow(z1, id)

MaybeReadMore(z, id) ==
    IF z.r[id].readingMore THEN z
    ELSE Later([z EXCEPT !.r[id].readingMore = TRUE], "maybeReadMore", id)

RECURSIVE MaybeReadMoreNT(_, _)
MaybeReadMoreNT(z, id) ==
    LET r == z.r[id]
        z1 == Read(z, id, 0)
    IN  IF r.reading \/ r.flowing = "yes" \/ r.ended \/ Length(r) >= r.hwm
        THEN [z EXCEPT !.r[id].readingMore = FALSE]
        ELSE IF Length(z1.r[id]) = Length(r) THEN [z1 EXCEPT !.r[id].readingMore = FALSE]
        ELSE MaybeReadMoreNT(z1, id)

(* write: `ok` is what it returns.                                           *)
Write(z, d, chunk) ==
    LET n == z.w[d].written + 1
        z1 == [z EXCEPT !.w[d].pendingcb = @ + 1, !.w[d].length = @ + Len(chunk), !.w[d].written = n]
        ret == z1.w[d].length < z1.w[d].hwm
        z2 == [z1 EXCEPT !.w[d].needDrain = @ \/ ~ret]
        z3 == IF z2.w[d].writing \/ z2.w[d].corked > 0
              THEN [z2 EXCEPT !.w[d].buffered = Append(@, [chunk |-> chunk, cb |-> n])]
              ELSE DoWrite(z2, d, <<chunk>>, <<n>>)
    IN  IF z.w[d].ended THEN [EmitError(z, "write after end") EXCEPT !.ok = FALSE]
                        ELSE [z3 EXCEPT !.ok = ret]

(* A slip: the full sink is counted, but the source goes on.                 *)
OnDataUnpaused(z, id, d, chunk) ==
    LET z1 == Write(z, d, chunk)
    IN  IF z1.ok THEN z1 ELSE [z1 EXCEPT !.r[id].awaitDrain = @ + 1]

(* The listeners of a pipe (data, end, drain, unpipe) are there from pipe to *)
(* cleanup, which is as long as the destination is in `pipes`.  A sink does  *)
(* not make its source push while it is written to, so increasedAwaitDrain   *)
(* is always false when write returns.                                       *)
OnData(z, id, d, chunk) ==
    LET z1 == Write(z, d, chunk)
        waits == Contains(z1.r[id].pipes, d)
    IN  IF z1.ok THEN z1
        ELSE Pause([z1 EXCEPT !.r[id].awaitDrain = IF waits THEN @ + 1 ELSE @], id)

(* What nobody listens to is gone.                                           *)
EmitData(z, id, chunk) ==
    IF z.r[id].pipes = <<>> THEN [z EXCEPT !.heard = @ \o chunk]
    ELSE FoldLeft(LAMBDA y, d : OnData(y, id, d, chunk), z, z.r[id].pipes)

(* push: readableAddChunk at the end of the buffer.  Transform's own push    *)
(* first says that it needs no transform.                                    *)
Pushes(z, id) == IF id = Through THEN [z EXCEPT !.t.needTransform = FALSE] ELSE z

AddChunk(z, id, chunk) ==
    IF z.r[id].flowing = "yes" /\ Length(z.r[id]) = 0 /\ ~z.r[id].sync
    THEN Read(EmitData(z, id, chunk), id, 0)
    ELSE IF z.r[id].needReadable THEN EmitReadable([z EXCEPT !.r[id].buffer = Append(@, chunk)], id)
    ELSE [z EXCEPT !.r[id].buffer = Append(@, chunk)]

PushNow(z, id, chunk) ==
    IF z.r[id].ended THEN EmitError(Pushes(z, id), "stream.push() after EOF")
    ELSE MaybeReadMore(AddChunk([Pushes(z, id) EXCEPT !.r[id].reading = FALSE], id, chunk), id)

(* push(null): onEofChunk.                                                   *)
PushEnd(z0, id) ==
    LET z == [Pushes(z0, id) EXCEPT !.r[id].reading = FALSE]
    IN  IF z.r[id].ended THEN z ELSE EmitReadable([z EXCEPT !.r[id].ended = TRUE], id)

Unshift(z, id, chunk) ==
    IF z.r[id].endEmitted THEN EmitError(z, "stream.unshift() after end event")
    ELSE LET added == [z EXCEPT !.r[id].buffer = <<chunk>> \o @]
             z1 == IF z.r[id].flowing = "yes" /\ Length(z.r[id]) = 0 /\ ~z.r[id].sync
                   THEN Read(EmitData(z, id, chunk), id, 0)
                   ELSE IF z.r[id].needReadable THEN EmitReadable(added, id) ELSE added
         IN  MaybeReadMore(z1, id)

(* computeNewHighWaterMark: the next power of two.                           *)
NewHighWaterMark(n) == CHOOSE p \in {2^k : k \in 0..23} : p >= n /\ \A q \in {2^k : k \in 0..23} : q >= n => p <= q

(* howMuchToRead, and what it changes.                                       *)
HowMuch(r, n) ==
    IF n = 0 \/ (Length(r) = 0 /\ r.ended) THEN 0
    ELSE IF n = All THEN IF r.flowing = "yes" /\ Length(r) > 0 THEN Len(Head(r.buffer)) ELSE Length(r)
    ELSE IF n <= Length(r) THEN n
    ELSE IF r.ended THEN Length(r) ELSE 0

Wanting(z, id, n) ==
    LET r == z.r[id]
        raised == IF n > r.hwm THEN [z EXCEPT !.r[id].hwm = NewHighWaterMark(n)] ELSE z
    IN  IF n = 0 \/ n = All \/ (Length(r) = 0 /\ r.ended) THEN z
        ELSE IF n > Length(r) /\ ~r.ended THEN [raised EXCEPT !.r[id].needReadable = TRUE]
        ELSE raised

(* fromList: the first n bytes, whole chunks as far as they go.              *)
RECURSIVE Drop(_, _)
Drop(buffer, n) ==
    IF n = 0 THEN buffer
    ELSE IF Len(Head(buffer)) <= n THEN Drop(Tail(buffer), n - Len(Head(buffer)))
    ELSE <<SubSeq(Head(buffer), n + 1, Len(Head(buffer)))>> \o Tail(buffer)

(* _read of the source: at once, or some time later (Pipes.tla).             *)
ReadSource(z, id) ==
    IF id = Through THEN TransformRead(z)
    ELSE IF z.sourceMode # "sync" THEN z
    ELSE IF z.left = <<>> THEN PushEnd(z, id)
    ELSE Push([z EXCEPT !.left = Tail(@)], id, Head(z.left))

Give(z, id, chunk) == [EmitData(z, id, chunk) EXCEPT !.ret = chunk]

WhenEmpty(z, id, n, m) ==
    IF Length(z.r[id]) > 0 THEN z
    ELSE IF ~z.r[id].ended THEN [z EXCEPT !.r[id].needReadable = TRUE]
    ELSE IF n # m THEN EndReadable(z, id) ELSE z

TakeChunk(z, id, n, m) ==
    IF m > 0 /\ Length(z.r[id]) > 0
    THEN Give(WhenEmpty([z EXCEPT !.r[id].buffer = Drop(@, m)], id, n, m), id,
              SubSeq(FlattenSeq(z.r[id].buffer), 1, m))
    ELSE [WhenEmpty([z EXCEPT !.r[id].needReadable = TRUE], id, n, 0) EXCEPT !.ret = None]

AskSource(z, id) ==
    [ReadSource([z EXCEPT !.r[id].reading = TRUE, !.r[id].sync = TRUE,
                          !.r[id].needReadable = @ \/ Length(z.r[id]) = 0], id)
        EXCEPT !.r[id].sync = FALSE]

AfterAsking(z, id, n, m) ==
    IF z.r[id].reading THEN TakeChunk(z, id, n, m)
    ELSE TakeChunk(Wanting(z, id, n), id, n, HowMuch(z.r[id], n))

ReadOn(z, id, n, m) ==
    LET r == z.r[id] IN
    IF m = 0 /\ r.ended
    THEN [(IF Length(r) = 0 THEN EndReadable(z, id) ELSE z) EXCEPT !.ret = None]
    ELSE IF ~r.ended /\ ~r.reading /\ (r.needReadable \/ Length(r) = 0 \/ Length(r) - m < r.hwm)
    THEN AfterAsking(AskSource(z, id), id, n, m)
    ELSE TakeChunk(z, id, n, m)

(* read(n), up to its first test; ReadOn goes on where the source may be     *)
(* asked, and TakeChunk where one is taken from the buffer.                  *)
ReadNow(z, id, n) ==
    LET r == z.r[id] IN
    IF n = 0 /\ r.needReadable /\ (Length(r) >= r.hwm \/ r.ended)
    THEN [(IF Length(r) = 0 /\ r.ended THEN EndReadable(z, id) ELSE EmitReadable(z, id))
            EXCEPT !.ret = None]
    ELSE ReadOn(Wanting([z EXCEPT !.r[id].emittedReadable = @ /\ n = 0], id, n), id, n, HowMuch(r, n))

Resume(z, id) ==
    LET z1 == [z EXCEPT !.r[id].flowing = "yes"]
    IN  IF z.r[id].flowing = "yes" THEN z
        ELSE IF z.r[id].resumeScheduled THEN z1
        ELSE Later([z1 EXCEPT !.r[id].resumeScheduled = TRUE], "resume", id)

(* resume_; `late' says that it forgot sinks that are waited for (history).  *)
ResumeNT(z, id) ==
    LET z1 == IF z.r[id].reading THEN z ELSE Read(z, id, 0)
        z2 == Flow([z1 EXCEPT !.r[id].resumeScheduled = FALSE, !.r[id].awaitDrain = 0,
                              !.late = @ \/ z1.r[id].awaitDrain > 0], id)
    IN  IF z2.r[id].flowing = "yes" /\ ~z2.r[id].reading THEN Read(z2, id, 0) ELSE z2

-----------------------------------------------------------------------------
(* pipe, unpipe, and what drain does for a pipe.                             *)
PipeTo(z, id, d) ==
    LET z1 == [z EXCEPT !.r[id].pipes = Append(@, d)]
    IN  Resume(IF z.r[id].endEmitted THEN Later(z1, "end", d) ELSE z1, id)

PipeOnDrain(z, id) ==
    LET z1 == [z EXCEPT !.r[id].awaitDrain = IF @ > 0 THEN @ - 1 ELSE 0]
    IN  IF z1.r[id].awaitDrain = 0 /\ z1.r[id].pipes # <<>>
        THEN Flow([z1 EXCEPT !.r[id].flowing = "yes"], id) ELSE z1

(* A slip: a sink that leaves is waited for.                                 *)
UnpipeWaiting(z, id, d) ==
    LET z1 == [z EXCEPT !.r[id].pipes = SelectSeq(@, LAMBDA x : x # d)]
    IN  IF z1.r[id].pipes = <<>> THEN Pause(z1, id) ELSE z1

Unpipe(z, id, d) ==
    LET z1 == [z EXCEPT !.r[id].pipes = SelectSeq(@, LAMBDA x : x # d)]
        z2 == IF z1.r[id].pipes = <<>> THEN Pause(z1, id) ELSE z1
    IN  IF ~Contains(z.r[id].pipes, d) THEN z
        ELSE IF z2.r[id].awaitDrain > 0 /\ z2.w[d].needDrain THEN PipeOnDrain(z2, id) ELSE z2

-----------------------------------------------------------------------------
(* Writable.                                                                 *)
NeedFinish(w) == w.ending /\ w.length = 0 /\ w.buffered = <<>> /\ ~w.finished /\ ~w.writing

(* prefinish, where a Transform has flushed and ends its readable side.      *)
Prefinish(z, d) ==
    IF z.w[d].prefinished THEN z
    ELSE LET z1 == [z EXCEPT !.w[d].prefinished = TRUE]
         IN  IF d # Through THEN z1
             ELSE IF z1.w[d].length > 0 \/ z1.t.transforming
             THEN EmitError(z1, "transform done too early")
             ELSE PushEnd(z1, d)

FinishMaybeNow(z, d) ==
    IF ~NeedFinish(z.w[d]) THEN z
    ELSE IF z.w[d].pendingcb > 0 THEN Prefinish(z, d)
    ELSE FoldLeft(LAMBDA y, id : Unpipe(y, id, d),
                  [Prefinish(z, d) EXCEPT !.w[d].finished = TRUE], SourcesOf(z, d))

OnWriteDrain(z, d) ==
    IF z.w[d].length = 0 /\ z.w[d].needDrain
    THEN FoldLeft(PipeOnDrain, [z EXCEPT !.w[d].needDrain = FALSE], SourcesOf(z, d))
    ELSE z

(* The callbacks of one _write or _writev; a corked request's holder counts  *)
(* as one more.                                                              *)
Called(z, d, cbs) ==
    [z EXCEPT !.w[d].called = @ \o cbs,
              !.w[d].pendingcb = @ - Len(cbs) - (IF Len(cbs) > 1 THEN 1 ELSE 0)]

AfterWrite(z, d, finished, cbs) ==
    FinishMaybe(Called(IF finished THEN z ELSE OnWriteDrain(z, d), d, cbs), d)

(* _write of a sink: at once, or some time later; of a PassThrough: into the *)
(* transform, when its readable side has room.                               *)
TransformWrite(z, chunk) ==
    LET r == z.r[Through]
        z1 == [z EXCEPT !.t.chunk = chunk]
    IN  IF ~z.t.transforming /\ (z.t.needTransform \/ r.needReadable \/ Length(r) < r.hwm)
        THEN TransformRead(z1) ELSE z1

DoWriteNow(z, d, chunks, cbs) ==
    LET bytes == FlattenSeq(chunks)
        z1 == [z EXCEPT !.w[d].writelen = Len(bytes), !.w[d].writecb = cbs,
                        !.w[d].writing = TRUE, !.w[d].sync = TRUE, !.w[d].got = @ \o bytes]
        z2 == IF d = Through THEN TransformWrite(z1, bytes)
              ELSE IF z.sinkMode[d] = "sync" THEN OnWrite(z1, d, FALSE) ELSE z1
    IN  [z2 EXCEPT !.w[d].sync = FALSE]

(* The buffered requests, one by one until one is not written at once; a     *)
(* sink with _writev gets them together.  They stay in the buffer meanwhile. *)
RECURSIVE WriteFrom(_, _, _)
(* A slip: the request that is being written stays in the buffer.            *)
WriteFromAgain(z, d, k) ==
    IF k > Len(z.w[d].buffered) THEN [z EXCEPT !.w[d].buffered = <<>>]
    ELSE LET z1 == DoWrite(z, d, <<z.w[d].buffered[k].chunk>>, <<z.w[d].buffered[k].cb>>)
         IN  IF z1.w[d].writing
             THEN [z1 EXCEPT !.w[d].buffered = SubSeq(@, k, Len(@))]
             ELSE WriteFrom(z1, d, k + 1)

WriteFrom(z, d, k) ==
    IF k > Len(z.w[d].buffered) THEN [z EXCEPT !.w[d].buffered = <<>>]
    ELSE LET z1 == DoWrite(z, d, <<z.w[d].buffered[k].chunk>>, <<z.w[d].buffered[k].cb>>)
         IN  IF z1.w[d].writing
             THEN [z1 EXCEPT !.w[d].buffered = SubSeq(@, k + 1, Len(@))]
             ELSE WriteFrom(z1, d, k + 1)

ClearBuffer(z, d) ==
    LET requests == z.w[d].buffered
        z1 == [z EXCEPT !.w[d].bufferProcessing = TRUE]
        all == DoWrite(z1, d, [k \in DOMAIN requests |-> requests[k].chunk],
                       [k \in DOMAIN requests |-> requests[k].cb])
        z2 == IF d # Through /\ z.sinkMode[d] = "writev" /\ Len(requests) > 1
              THEN [all EXCEPT !.w[d].pendingcb = @ + 1, !.w[d].buffered = <<>>]
              ELSE WriteFrom(z1, d, 1)
    IN  [z2 EXCEPT !.w[d].bufferProcessing = FALSE]

(* onwrite.  After an error what is buffered stays where it is.              *)
OnWriteError(z, d, cbs) ==
    FoldLeft(LAMBDA y, id : Unpipe(y, id, d),
             [Called(z, d, cbs) EXCEPT !.w[d].errorEmitted = TRUE], SourcesOf(z, d))

OnWriteNow(z, d, failed) ==
    LET w == z.w[d]
        z1 == [z EXCEPT !.w[d].writing = FALSE, !.w[d].writecb = <<>>,
                        !.w[d].length = @ - w.writelen, !.w[d].writelen = 0]
        finished == NeedFinish(z1.w[d])
        z2 == IF ~finished /\ w.corked = 0 /\ ~w.bufferProcessing /\ w.buffered # <<>>
              THEN ClearBuffer(z1, d) ELSE z1
    IN  IF failed THEN OnWriteError(z1, d, w.writecb)
        ELSE IF w.sync
        THEN [z2 EXCEPT !.ticks = Append(@, [fn |-> "afterWrite", id |-> d,
                                             finished |-> finished, cbs |-> w.writecb])]
        ELSE AfterWrite(z2, d, finished, w.writecb)

Cork(z, d) == [z EXCEPT !.w[d].corked = @ + 1]

Uncork(z, d) ==
    LET z1 == [z EXCEPT !.w[d].corked = @ - 1]
        w == z1.w[d]
    IN  IF z.w[d].corked = 0 THEN z
        ELSE IF ~w.writing /\ w.corked = 0 /\ ~w.finished /\ ~w.bufferProcessing /\ w.buffered # <<>>
        THEN ClearBuffer(z1, d) ELSE z1

End(z, d) ==
    LET z1 == IF z.w[d].corked > 0 THEN Uncork([z EXCEPT !.w[d].corked = 1], d) ELSE z
    IN  IF z1.w[d].ending \/ z1.w[d].finished THEN z1
        ELSE [FinishMaybe([z1 EXCEPT !.w[d].ending = TRUE], d) EXCEPT !.w[d].ended = TRUE]

EndReadableNT(z, id) ==
    IF z.r[id].endEmitted \/ Length(z.r[id]) > 0 THEN z
    ELSE FoldLeft(End, [z EXCEPT !.r[id].endEmitted = TRUE], z.r[id].pipes)

-----------------------------------------------------------------------------
(* Transform, for a PassThrough.                                             *)
AfterTransform(z, chunk) ==
    LET z1 == [z EXCEPT !.t.transforming = FALSE, !.t.chunk = None]
        z2 == OnWrite(Push(z1, Through, chunk), Through, FALSE)
        z3 == [z2 EXCEPT !.r[Through].reading = FALSE]
        r == z3.r[Through]
    IN  IF r.needReadable \/ Length(r) < r.hwm THEN TransformRead(z3) ELSE z3

TransformReadNow(z) ==
    IF z.t.chunk # None /\ ~z.t.transforming
    THEN AfterTransform([z EXCEPT !.t.transforming = TRUE], z.t.chunk)
    ELSE [z EXCEPT !.t.needTransform = TRUE]

-----------------------------------------------------------------------------
Do(z, call) ==
    CASE call.fn = "read" -> ReadNow(z, call.id, call.n)
      [] call.fn = "push" -> PushNow(z, call.id, call.chunk)
      [] call.fn = "pushEnd" -> PushEnd(z, call.id)
      [] call.fn = "unshift" -> Unshift(z, call.id, call.chunk)
      [] call.fn = "unpipe" -> Unpipe(z, call.id, call.sink)
      [] call.fn = "doWrite" -> DoWriteNow(z, call.id, call.chunks, call.cbs)
      [] call.fn = "onwrite" -> OnWriteNow(z, call.id, call.failed)
      [] call.fn = "uncork" -> Uncork(z, call.id)
      [] call.fn = "finishMaybe" -> FinishMaybeNow(z, call.id)
      [] call.fn = "_read" -> TransformReadNow(z)
      \* What process.nextTick runs.
      [] call.fn = "endReadable" -> EndReadableNT(z, call.id)
      [] call.fn = "emitReadable" -> Flow(z, call.id)
      [] call.fn = "maybeReadMore" -> MaybeReadMoreNT(z, call.id)
      [] call.fn = "resume" -> ResumeNT(z, call.id)
      [] call.fn = "end" -> End(z, call.id)
      [] call.fn = "afterWrite" -> AfterWrite(z, call.id, call.finished, call.cbs)
=============================================================================
