-------------------------------- MODULE Http --------------------------------
(* One command on its way to a node: makeRequest, the XMLHttpRequest of the  *)
(* bundle, its ClientRequest and IncomingMessage (stream-http), and the      *)
(* browser beneath (external).  A body is a sequence of pieces; what is      *)
(* pushed into the response reaches its listeners later, in order            *)
(* (Pipes.tla shows that of streams).  Headers are left out.                 *)
EXTENDS Integers, Sequences, SequencesExt

CONSTANTS Nodes,        \* the nodes changeNode may choose
          Unsupported,  \* those among them whose url has no http(s) protocol
          MaxPieces     \* bound: pieces of a body

ASSUME HttpAssumption == Unsupported \subseteq Nodes /\ MaxPieces \in Nat

VARIABLES provider,     \* the node that is asked from now on
          capability,   \* what the browser can do
          answer,       \* what the node will answer: [status, kind, size]
          request,      \* ClientRequest: [phase, node, connected]
          native,       \* the browser's request: [phase, got]
          response,     \* IncomingMessage: [mode, queue, ended, listening, pos, reader]
          xhr           \* XMLHttpRequest, and what came of it:
                        \* [readyState, sendFlag, errorFlag, status, text, calls, thrown]

httpVars == <<provider, capability, answer, request, native, response, xhr>>

UNSENT == 0
OPENED == 1
HEADERS_RECEIVED == 2
LOADING == 3
DONE == 4

AnswerKinds == {"object", "error", "exception", "null", "garbage"}
Redirects == {301, 302, 303, 307}
Stack == <<0>>      \* the text of an error
Whole == [k \in 1..answer.size |-> k]

-----------------------------------------------------------------------------
(* Which mode the response is read in.                                       *)
Capabilities == [fetch : BOOLEAN, msstream : BOOLEAN, mozchunked : BOOLEAN,
                 arraybuffer : BOOLEAN, vbArray : BOOLEAN]

CapabilityOK(c) == c.fetch => ~c.msstream /\ ~c.mozchunked

DecideMode(preferBinary, useFetch) ==
    CASE capability.fetch /\ useFetch -> "fetch"
      [] ~capability.fetch /\ capability.mozchunked -> "moz-chunked-arraybuffer"
      [] ~capability.fetch /\ ~capability.mozchunked /\ capability.msstream -> "ms-stream"
      [] OTHER -> IF capability.arraybuffer /\ preferBinary THEN "arraybuffer"
                  ELSE IF capability.vbArray /\ preferBinary THEN "text:vbarray" ELSE "text"

(* ClientRequest: the default is to use fetch and to prefer binary.          *)
Mode == DecideMode(TRUE, TRUE)

-----------------------------------------------------------------------------
(* makeRequest.  A text that is not all of a JSON value does not parse; of   *)
(* null there is no `error' to read.                                         *)
CallBack(x, error) == [x EXCEPT !.calls = Append(@, [error |-> error, node |-> request.node])]

Parsed(text) == IF text = Whole /\ answer.size > 0 THEN answer.kind ELSE "garbage"

PrepareResult(x) ==
    CASE Parsed(x.text) = "garbage" -> CallBack(x, "Invalid Response")
      [] Parsed(x.text) = "null" -> [x EXCEPT !.thrown = TRUE]
      [] Parsed(x.text) \in {"error", "exception"} -> CallBack(x, "Request Error")
      [] Parsed(x.text) = "object" -> CallBack(x, "none")

(* The listener of makeRequest.send; no one listens to other events.         *)
DispatchReadyStateChange(x) == IF x.readyState = DONE THEN PrepareResult(x) ELSE x

SetState(x, state) ==
    IF state = LOADING \/ x.readyState # state
    THEN DispatchReadyStateChange([x EXCEPT !.readyState = state]) ELSE x

(* A slip: the error is noted, and nobody told.                              *)
NoteError(x) == [x EXCEPT !.status = 0, !.text = Stack, !.errorFlag = TRUE]

HandleError(x) ==
    SetState([x EXCEPT !.status = 0, !.text = Stack, !.errorFlag = TRUE], DONE)

(* What the XMLHttpRequest does with its response.  A browser follows        *)
(* redirects by itself: one that is seen has no location to parse.           *)
ResponseHandler(x) ==
    IF answer.status \in Redirects THEN [x EXCEPT !.thrown = TRUE]
    ELSE [SetState(x, HEADERS_RECEIVED) EXCEPT !.status = answer.status]

OnData(x, piece) ==
    LET x1 == [x EXCEPT !.text = Append(@, piece)]
    IN  IF x.sendFlag THEN SetState(x1, LOADING) ELSE x1

OnEnd(x) ==
    LET x1 == SetState(x, DONE)
    IN  IF ~x.sendFlag THEN x
        ELSE IF x1.thrown THEN x1 ELSE [x1 EXCEPT !.sendFlag = FALSE]

XMLHttpRequest ==
    [ readyState |-> UNSENT, sendFlag |-> FALSE, errorFlag |-> FALSE, status |-> -1,
      text |-> <<>>, calls |-> <<>>, thrown |-> FALSE ]

(* abort: nothing is under way in a new one.                                 *)
Abort(x) == [x EXCEPT !.status = 0, !.text = <<>>, !.errorFlag = TRUE, !.readyState = UNSENT]

Opened(x) == SetState([Abort(x) EXCEPT !.errorFlag = FALSE], OPENED)

-----------------------------------------------------------------------------
(* The response is made when it is first heard of.                           *)
IncomingMessage ==
    [mode |-> Mode, queue |-> <<>>, ended |-> FALSE, listening |-> FALSE, endEmitted |-> FALSE,
     pos |-> 0, reader |-> FALSE]

Connect ==
    /\ request' = [request EXCEPT !.connected = TRUE]
    /\ xhr' = ResponseHandler(xhr)

Listening(r) == [r EXCEPT !.listening = answer.status \notin Redirects]

(* A slip: what was pushed is not noted.                                     *)
PushAgain(r, got) == [r EXCEPT !.queue = @ \o [k \in 1..(got - r.pos) |-> r.pos + k]]

(* _onXHRProgress of the response: what there is to push when the browser's  *)
(* request has `got' pieces, the last one of them new.  Reading responseText *)
(* throws before the end where there is a VBArray.                           *)
PushUpTo(r, got) == [r EXCEPT !.queue = @ \o [k \in 1..(got - r.pos) |-> r.pos + k], !.pos = got]

Pushed(r, ready, got) ==
    CASE r.mode = "text:vbarray" -> IF ready = DONE THEN PushUpTo(r, got) ELSE r
      [] r.mode = "text" -> IF capability.vbArray /\ ready # DONE
                            THEN [r EXCEPT !.mode = "text:vbarray"] ELSE PushUpTo(r, got)
      [] r.mode = "arraybuffer" -> IF ready = DONE THEN PushUpTo(r, got) ELSE r
      [] r.mode = "moz-chunked-arraybuffer" ->
            IF ready = LOADING THEN [r EXCEPT !.queue = Append(@, got)] ELSE r
      [] r.mode = "ms-stream" -> IF ready = LOADING THEN [r EXCEPT !.reader = TRUE] ELSE r

ResponseProgress(r, ready, got) ==
    LET r1 == Pushed(r, ready, got)
    IN  [r1 EXCEPT !.ended = @ \/ (ready = DONE /\ r1.mode # "ms-stream")]

(* _onXHRProgress of the request, for a status that is not 0.  An exception  *)
(* of the response's handler leaves nothing to be pushed yet.                *)
XHRProgress(ready, got) ==
    IF request.connected
    THEN response' = ResponseProgress(response, ready, got) /\ UNCHANGED <<request, xhr>>
    ELSE /\ Connect
         /\ response' = IF answer.status \in Redirects THEN IncomingMessage
                        ELSE ResponseProgress(Listening(IncomingMessage), ready, got)

-----------------------------------------------------------------------------
HttpInit ==
    /\ provider \in Nodes
    /\ capability \in {c \in Capabilities : CapabilityOK(c)}
    /\ answer \in [status : {200, 301}, kind : AnswerKinds, size : 0..MaxPieces]
    /\ request = [phase |-> "none", node |-> provider, connected |-> FALSE]
    /\ native = [phase |-> "idle", got |-> 0]
    /\ response = IncomingMessage
    /\ xhr = XMLHttpRequest

(* changeNode of the library.                                                *)
ChangeNode ==
    /\ provider' \in Nodes \ {provider}
    /\ UNCHANGED <<capability, answer, request, native, response, xhr>>

(* makeRequest.send.  An url that is not supported throws, which is taken    *)
(* for a node that is not there.                                             *)
Send ==
    /\ request.phase = "none"
    /\ request' = [request EXCEPT !.phase = IF provider \in Unsupported THEN "thrown" ELSE "ended",
                                  !.node = provider]
    /\ xhr' = LET x == Opened(xhr)
              IN  IF provider \in Unsupported
                  THEN [x EXCEPT !.calls = <<[error |-> "No connection", node |-> provider]>>]
                  ELSE DispatchReadyStateChange([x EXCEPT !.errorFlag = FALSE, !.sendFlag = TRUE])
    /\ UNCHANGED <<provider, capability, answer, native, response>>

(* _onFinish, when the body was written: the browser's open or send may      *)
(* throw, which is emitted on the next tick.                                 *)
Finish ==
    /\ request.phase = "ended"
    /\ \/ /\ native' = [native EXCEPT !.phase = "waiting"]
          /\ request' = [request EXCEPT !.phase = "sent"]
       \/ /\ Mode # "fetch"
          /\ request' = [request EXCEPT !.phase = "refused"]
          /\ UNCHANGED native
    /\ UNCHANGED <<provider, capability, answer, response, xhr>>

EmitError ==
    /\ request.phase = "refused"
    /\ request' = [request EXCEPT !.phase = "sent"]
    /\ xhr' = HandleError(xhr)
    /\ UNCHANGED <<provider, capability, answer, native, response>>

(* The browser: the headers (which fetch tells), a piece of the body, its    *)
(* end, or an error of the network.                                          *)
HeadersArrive ==
    /\ native.phase = "waiting"
    /\ native' = [native EXCEPT !.phase = "loading"]
    /\ IF Mode = "fetch"
       THEN Connect /\ response' = Listening(IncomingMessage)
       ELSE UNCHANGED <<request, response, xhr>>
    /\ UNCHANGED <<provider, capability, answer>>

PieceArrives ==
    /\ native.phase = "loading" /\ native.got < answer.size
    /\ native' = [native EXCEPT !.got = @ + 1]
    /\ IF Mode = "fetch"
       THEN response' = PushUpTo(response, native'.got) /\ UNCHANGED <<request, xhr>>
       ELSE XHRProgress(LOADING, native'.got)
    /\ UNCHANGED <<provider, capability, answer>>

BodyEnds ==
    /\ native.phase = "loading" /\ native.got = answer.size
    /\ native' = [native EXCEPT !.phase = "done"]
    /\ IF Mode = "fetch"
       THEN response' = [response EXCEPT !.ended = TRUE] /\ UNCHANGED <<request, xhr>>
       ELSE XHRProgress(DONE, native.got)
    /\ UNCHANGED <<provider, capability, answer>>

(* Nobody looks at a read of the body that fails: fetch's promise has no     *)
(* handler for it, and the stream's reader no onerror.                       *)
UnheardOf == request.connected /\ (Mode = "fetch" \/ response.reader)

NetworkBreaks ==
    /\ native.phase \in {"waiting", "loading"}
    /\ native' = [native EXCEPT !.phase = "failed"]
    /\ xhr' = IF UnheardOf THEN xhr ELSE HandleError(xhr)
    /\ UNCHANGED <<provider, capability, answer, request, response>>

(* The reader of an ms-stream.                                               *)
ReaderProgress ==
    /\ response.reader /\ ~response.ended
    /\ response' = IF response.pos < native.got THEN PushUpTo(response, native.got)
                   ELSE [response EXCEPT !.ended = TRUE]
    /\ response.pos = native.got => native.phase = "done"
    /\ UNCHANGED <<provider, capability, answer, request, native, xhr>>

(* The response's data and end reach their listeners.                        *)
Deliver ==
    /\ response.listening
    /\ \/ /\ response.queue # <<>>
          /\ response' = [response EXCEPT !.queue = Tail(@)]
          /\ xhr' = OnData(xhr, Head(response.queue))
       \/ /\ response.queue = <<>> /\ response.ended /\ ~response.endEmitted
          /\ response' = [response EXCEPT !.endEmitted = TRUE]
          /\ xhr' = OnEnd(xhr)
    /\ UNCHANGED <<provider, capability, answer, request, native>>

Network == HeadersArrive \/ PieceArrives \/ BodyEnds \/ NetworkBreaks
Progress == Finish \/ EmitError \/ Network \/ ReaderProgress \/ Deliver

HttpNext == Send \/ ChangeNode \/ Progress

(* The network answers or fails, and the event loop goes on.                 *)
HttpSpec == HttpInit /\ [][HttpNext]_httpVars /\ WF_httpVars(Progress)

-----------------------------------------------------------------------------
(* makeRequest.send calls back once: errors, late pieces and the end of the  *)
(* response each may set the state to 4, in any order (18313-18340, 18432).  *)
(* What it calls back with is all of what the node that was asked has        *)
(* answered, in every mode of reading, whatever broke or changed meanwhile:  *)
(* pieces are neither lost nor taken twice (16583-16661), and a body that is *)
(* cut off is no result.                                                     *)
ResultIsWhole ==
    /\ Len(xhr.calls) <= 1
    /\ \A k \in DOMAIN xhr.calls :
        LET call == xhr.calls[k] IN
        /\ call.node = request.node
        /\ call.error = "none" =>
              answer.kind = "object" /\ native.phase = "done" /\ xhr.text = Whole
        /\ call.error = "Invalid Response" =>
              answer.kind = "garbage" \/ answer.size = 0 \/ xhr.errorFlag
        /\ call.error = "No connection" <=> request.node \in Unsupported

(* A command is called back, unless the body broke where nobody looks, or    *)
(* the answer is null, a redirect without a location, or a stream without a  *)
(* piece.                                                                    *)
NeverAnswered ==
    \/ answer.status \in Redirects \/ answer.kind = "null"
    \/ Mode = "ms-stream" /\ answer.size = 0
    \/ native.phase = "failed" /\ UnheardOf

CommandIsAnswered == request.phase # "none" ~> xhr.calls # <<>> \/ NeverAnswered
=============================================================================
