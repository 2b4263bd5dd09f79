----------------------------- MODULE HttpProofs -----------------------------
(* What a command is called back with, for any number of nodes and pieces.   *)
(*                                                                           *)
(* A response goes through three hands, and what each has is a stretch of    *)
(* the numbers of the pieces: the text has the first ones, the queue those   *)
(* after them, up to what was pushed (`pos', or what came in where every     *)
(* piece is pushed by itself), and the browser the rest.  So once the end is *)
(* heard, after the last piece, the text is whole.  The end is heard once;   *)
(* an error of the network is heard only while the end has not come, and     *)
(* keeps it from coming.                                                     *)
EXTENDS Http, SequenceTheorems, TLAPS

USE HttpAssumption

Modes == {"fetch", "moz-chunked-arraybuffer", "ms-stream", "arraybuffer", "text:vbarray", "text"}
Phases == {"none", "thrown", "ended", "refused", "sent"}
Errors == {"none", "Invalid Response", "Request Error", "No connection"}
Call == [error : Errors, node : Nodes]

Answers == [status : {200, 301}, kind : AnswerKinds, size : 0..MaxPieces]

Requests == [phase : Phases, node : Nodes, connected : BOOLEAN]

Natives == [phase : {"idle", "waiting", "loading", "done", "failed"}, got : Nat]

Responses == [mode : Modes, queue : Seq(Nat), ended : BOOLEAN, listening : BOOLEAN,
              endEmitted : BOOLEAN, pos : Nat, reader : BOOLEAN]

XHRs == [readyState : 0..4, sendFlag : BOOLEAN, errorFlag : BOOLEAN, status : Int,
         text : Seq(Nat), calls : Seq(Call), thrown : BOOLEAN]

HttpTypeOK ==
    /\ provider \in Nodes
    /\ answer \in Answers
    /\ request \in Requests
    /\ native \in Natives
    /\ response \in Responses
    /\ xhr \in XHRs

-----------------------------------------------------------------------------
(* The XMLHttpRequest.  What calls back is its state becoming DONE.          *)
MayCall(x, y) ==
    \/ y.calls = x.calls
    \/ \E c \in Call : /\ y.calls = Append(x.calls, c) /\ c.node = request.node
                       /\ c.error # "No connection"
                       /\ c.error = "Invalid Response" => Parsed(x.text) = "garbage"
                       /\ c.error = "none" => Parsed(x.text) = "object"

(* y is x but for what calling back changes.                                 *)
SameBut(x, y) ==
    /\ y.readyState = x.readyState /\ y.sendFlag = x.sendFlag /\ y.errorFlag = x.errorFlag
    /\ y.text = x.text

LEMMA PrepareResultIs ==
    ASSUME request \in Requests, answer \in Answers, NEW x \in XHRs,
           NEW y, y = PrepareResult(x)
    PROVE  y \in XHRs /\ MayCall(x, y) /\ SameBut(x, y)
<1>1. /\ x.calls \in Seq(Call) /\ x.thrown \in BOOLEAN
      /\ x = [readyState |-> x.readyState, sendFlag |-> x.sendFlag, errorFlag |-> x.errorFlag,
              status |-> x.status, text |-> x.text, calls |-> x.calls, thrown |-> x.thrown]
  BY DEF XHRs
<1>2. ASSUME NEW e \in Errors, y = CallBack(x, e)
      PROVE  /\ y \in XHRs /\ SameBut(x, y)
             /\ \E c \in Call : y.calls = Append(x.calls, c) /\ c.node = request.node /\ c.error = e
  <2>1. PICK c \in Call : c = [error |-> e, node |-> request.node]
    BY DEF Call, Requests
  <2>2. Append(x.calls, c) \in Seq(Call)
    BY <1>1, AppendProperties
  <2>3. y = [x EXCEPT !.calls = Append(x.calls, c)]
    BY <1>2, <2>1 DEF CallBack
  <2>4. y \in XHRs /\ SameBut(x, y) /\ y.calls = Append(x.calls, c)
    BY <1>1, <2>2, <2>3 DEF XHRs, SameBut
  <2> QED
    BY <2>1, <2>4
<1>3. Parsed(x.text) \in AnswerKinds
  BY DEF Parsed, Answers, AnswerKinds
<1>4. CASE Parsed(x.text) = "garbage"
  <2>1. y = CallBack(x, "Invalid Response") /\ "Invalid Response" \in Errors
    BY <1>4 DEF PrepareResult, Errors
  <2> QED
    BY <1>2, <1>4, <2>1 DEF MayCall
<1>5. CASE Parsed(x.text) = "null"
  <2>1. y = [x EXCEPT !.thrown = TRUE]
    BY <1>5 DEF PrepareResult
  <2> QED
    BY <1>1, <2>1 DEF MayCall, SameBut, XHRs
<1>6. CASE Parsed(x.text) \in {"error", "exception"}
  <2>1. y = CallBack(x, "Request Error") /\ "Request Error" \in Errors
    BY <1>6 DEF PrepareResult, Errors
  <2> QED
    BY <1>2, <2>1 DEF MayCall
<1>7. CASE Parsed(x.text) = "object"
  <2>1. y = CallBack(x, "none") /\ "none" \in Errors
    BY <1>7 DEF PrepareResult, Errors
  <2> QED
    BY <1>2, <1>7, <2>1 DEF MayCall
<1> QED
  BY <1>3, <1>4, <1>5, <1>6, <1>7 DEF AnswerKinds

LEMMA SetStateIs ==
    ASSUME request \in Requests, answer \in Answers, NEW x \in XHRs, NEW s \in 0..4,
           NEW y, y = SetState(x, s)
    PROVE  /\ y \in XHRs /\ y.readyState = s
           /\ y.sendFlag = x.sendFlag /\ y.errorFlag = x.errorFlag /\ y.text = x.text
           /\ IF s = DONE /\ x.readyState # DONE THEN MayCall(x, y) ELSE y.calls = x.calls
<1>1. CASE ~(s = LOADING \/ x.readyState # s)
  BY <1>1 DEF SetState
<1>2. CASE s = LOADING \/ x.readyState # s
  <2>1. PICK z : z = [x EXCEPT !.readyState = s]
    OBVIOUS
  <2>2. /\ z \in XHRs /\ z.readyState = s /\ z.sendFlag = x.sendFlag
        /\ z.errorFlag = x.errorFlag /\ z.text = x.text /\ z.calls = x.calls
    BY <2>1 DEF XHRs
  <2>3. /\ y = DispatchReadyStateChange(z)
        /\ s = LOADING \/ x.readyState # s
    BY <1>2, <2>1 DEF SetState
  <2>4. CASE s = DONE
    <3>1. y = PrepareResult(z) /\ x.readyState # DONE
      BY <2>2, <2>3, <2>4 DEF DispatchReadyStateChange, LOADING, DONE
    <3>2. y \in XHRs /\ MayCall(z, y) /\ SameBut(z, y)
      BY <2>2, <3>1, PrepareResultIs
    <3> QED
      BY <2>2, <2>4, <3>1, <3>2 DEF MayCall, SameBut
  <2>5. CASE s # DONE
    <3>1. y = z
      BY <2>2, <2>3, <2>5 DEF DispatchReadyStateChange
    <3> QED
      BY <2>2, <2>5, <3>1
  <2> QED
    BY <2>4, <2>5
<1> QED
  BY <1>1, <1>2

(* The text of an error is no answer.                                        *)
LEMMA StackIsNoAnswer == ASSUME answer \in Answers PROVE Parsed(Stack) = "garbage"
<1>1. answer.size \in Nat
  BY DEF Answers
<1>2. answer.size > 0 => Whole[1] = 1
  BY <1>1 DEF Whole
<1>3. Stack[1] = 0
  BY DEF Stack
<1> QED
  BY <1>2, <1>3 DEF Parsed

LEMMA HandleErrorIs ==
    ASSUME request \in Requests, answer \in Answers, NEW x \in XHRs, NEW y, y = HandleError(x)
    PROVE  /\ y \in XHRs /\ y.errorFlag
           /\ \/ y.calls = x.calls
              \/ \E c \in Call : /\ x.readyState # DONE /\ y.calls = Append(x.calls, c)
                                 /\ c.node = request.node
                                 /\ c.error \notin {"none", "No connection"}
<1>1. PICK z : z = [x EXCEPT !.status = 0, !.text = Stack, !.errorFlag = TRUE]
  OBVIOUS
<1>2. Stack \in Seq(Nat)
  BY DEF Stack
<1>3. /\ z \in XHRs /\ z.errorFlag /\ z.text = Stack /\ z.calls = x.calls
      /\ z.readyState = x.readyState
  <2>1. z = [readyState |-> x.readyState, sendFlag |-> x.sendFlag, errorFlag |-> TRUE,
             status |-> 0, text |-> Stack, calls |-> x.calls, thrown |-> x.thrown]
    BY <1>1 DEF XHRs
  <2> QED
    BY <1>2, <2>1 DEF XHRs
<1>4. y = SetState(z, DONE) /\ DONE \in 0..4
  BY <1>1 DEF HandleError, DONE
<1>5. /\ y \in XHRs /\ y.errorFlag = z.errorFlag
      /\ IF z.readyState # DONE THEN MayCall(z, y) ELSE y.calls = z.calls
  BY <1>3, <1>4, SetStateIs
<1>6. Parsed(z.text) = "garbage"
  BY <1>3, StackIsNoAnswer
<1> QED
  BY <1>3, <1>5, <1>6 DEF MayCall

LEMMA ResponseHandlerIs ==
    ASSUME request \in Requests, answer \in Answers, NEW x \in XHRs, NEW y, y = ResponseHandler(x)
    PROVE  /\ y \in XHRs /\ y.calls = x.calls /\ y.text = x.text
           /\ y.sendFlag = x.sendFlag /\ y.errorFlag = x.errorFlag
           /\ x.readyState # DONE => y.readyState # DONE
<1>1. CASE answer.status \in Redirects
  <2>1. y = [x EXCEPT !.thrown = TRUE]
    BY <1>1 DEF ResponseHandler
  <2> QED
    BY <2>1 DEF XHRs
<1>2. CASE answer.status \notin Redirects
  <2>1. PICK z : z = SetState(x, HEADERS_RECEIVED)
    OBVIOUS
  <2>2. /\ z \in XHRs /\ z.readyState = HEADERS_RECEIVED /\ z.calls = x.calls
        /\ z.text = x.text /\ z.sendFlag = x.sendFlag /\ z.errorFlag = x.errorFlag
    BY <2>1, SetStateIs DEF HEADERS_RECEIVED, DONE
  <2>3. y = [z EXCEPT !.status = answer.status] /\ answer.status \in Int
    BY <1>2, <2>1 DEF ResponseHandler, Answers
  <2>4. /\ y \in XHRs /\ y.readyState = z.readyState /\ y.calls = z.calls
        /\ y.text = z.text /\ y.sendFlag = z.sendFlag /\ y.errorFlag = z.errorFlag
    BY <2>2, <2>3 DEF XHRs
  <2> QED
    BY <2>2, <2>4 DEF HEADERS_RECEIVED, DONE
<1> QED
  BY <1>1, <1>2

LEMMA OnDataIs ==
    ASSUME request \in Requests, answer \in Answers, NEW x \in XHRs, NEW p \in Nat,
           NEW y, y = OnData(x, p)
    PROVE  /\ y \in XHRs /\ y.calls = x.calls /\ y.text = Append(x.text, p)
           /\ y.sendFlag = x.sendFlag /\ y.errorFlag = x.errorFlag
           /\ x.readyState # DONE => y.readyState # DONE
<1>1. PICK z : z = [x EXCEPT !.text = Append(@, p)]
  OBVIOUS
<1>2. Append(x.text, p) \in Seq(Nat)
  BY AppendProperties DEF XHRs
<1>3. /\ z \in XHRs /\ z.calls = x.calls /\ z.text = Append(x.text, p)
      /\ z.sendFlag = x.sendFlag /\ z.errorFlag = x.errorFlag /\ z.readyState = x.readyState
  BY <1>1, <1>2 DEF XHRs
<1>4. y = IF x.sendFlag THEN SetState(z, LOADING) ELSE z
  BY <1>1 DEF OnData
<1>5. CASE y = z
  BY <1>3, <1>5
<1>6. CASE y = SetState(z, LOADING)
  <2>1. LOADING \in 0..4 /\ LOADING # DONE
    BY DEF LOADING, DONE
  <2>2. /\ y \in XHRs /\ y.readyState = LOADING /\ y.calls = z.calls
        /\ y.sendFlag = z.sendFlag /\ y.errorFlag = z.errorFlag /\ y.text = z.text
    BY <1>3, <1>6, <2>1, SetStateIs
  <2> QED
    BY <1>3, <2>1, <2>2
<1> QED
  BY <1>4, <1>5, <1>6

LEMMA OnEndIs ==
    ASSUME request \in Requests, answer \in Answers, NEW x \in XHRs, NEW y, y = OnEnd(x)
    PROVE  /\ y \in XHRs /\ y.text = x.text /\ y.errorFlag = x.errorFlag
           /\ IF x.readyState # DONE THEN MayCall(x, y) ELSE y.calls = x.calls
<1>1. PICK z : z = SetState(x, DONE)
  OBVIOUS
<1>2. /\ z \in XHRs /\ z.text = x.text /\ z.errorFlag = x.errorFlag
      /\ IF x.readyState # DONE THEN MayCall(x, z) ELSE z.calls = x.calls
  BY <1>1, SetStateIs DEF DONE
<1>3. y \in {x, z, [z EXCEPT !.sendFlag = FALSE]}
  BY <1>1 DEF OnEnd
<1>4. CASE y = x
  BY <1>4 DEF MayCall
<1>5. CASE y = z
  BY <1>2, <1>5
<1>6. CASE y = [z EXCEPT !.sendFlag = FALSE]
  <2>1. y \in XHRs /\ y.text = z.text /\ y.errorFlag = z.errorFlag /\ y.calls = z.calls
    BY <1>2, <1>6 DEF XHRs
  <2> QED
    BY <1>2, <2>1 DEF MayCall
<1> QED
  BY <1>3, <1>4, <1>5, <1>6

-----------------------------------------------------------------------------
(* Stretches of pieces.                                                      *)
After(s, n) == \A k \in 1..Len(s) : s[k] = n + k

(* The first n pieces are in the text and, after those, in the queue.        *)
Stretch(text, queue, n) ==
    /\ text \in Seq(Nat) /\ queue \in Seq(Nat)
    /\ Len(text) + Len(queue) = n
    /\ After(text, 0) /\ After(queue, Len(text))

LEMMA StretchPush ==
    ASSUME NEW t, NEW q, NEW n \in Nat, NEW m \in Nat, n <= m, Stretch(t, q, n),
           NEW new, new = q \o [k \in 1..(m - n) |-> n + k]
    PROVE  Stretch(t, new, m)
<1>1. PICK l, more : l = m - n /\ more = [k \in 1..l |-> n + k]
  OBVIOUS
<1>2. /\ more \in [1..l -> Nat] /\ l \in Nat
      /\ \A k \in 1..l : more[k] = n + k
  BY <1>1
<1>3. more \in Seq(Nat) /\ Len(more) = m - n
  <2>1. more \in Seq(Nat) /\ Len(more) = l
    BY <1>2
  <2> QED
    BY <1>1, <2>1
<1>4. /\ q \in Seq(Nat) /\ t \in Seq(Nat) /\ Len(t) \in Nat /\ Len(q) \in Nat
  BY LenProperties DEF Stretch
<1>n. n = Len(t) + Len(q)
  BY <1>4 DEF Stretch
<1>5. /\ new \in Seq(Nat) /\ Len(new) = Len(q) + (m - n)
      /\ \A k \in 1..(Len(q) + (m - n)) :
            new[k] = IF k <= Len(q) THEN q[k] ELSE more[k - Len(q)]
  BY <1>1, <1>3, <1>4, ConcatProperties
<1>6. ASSUME NEW k \in 1..Len(new) PROVE new[k] = Len(t) + k
  <2>1. CASE k <= Len(q)
    <3>1. k \in 1..Len(q) /\ new[k] = q[k]
      BY <1>4, <1>5, <1>6, <2>1
    <3>2. After(q, Len(t))
      BY DEF Stretch
    <3> QED
      BY <1>4, <3>1, <3>2 DEF After
  <2>2. CASE ~(k <= Len(q))
    <3>1. k - Len(q) \in 1..(m - n) /\ new[k] = more[k - Len(q)]
      BY <1>4, <1>5, <1>6, <2>2
    <3>2. new[k] = n + (k - Len(q))
      BY <1>2, <3>1
    <3> QED
      BY <1>4, <1>n, <3>1, <3>2
  <2> QED
    BY <2>1, <2>2
<1> QED
  <2>1. After(t, 0) /\ After(new, Len(t))
    BY <1>6 DEF Stretch, After
  <2>2. Len(t) + Len(new) = m
    BY <1>4, <1>5, <1>n
  <2> QED
    BY <1>4, <1>5, <2>1, <2>2 DEF Stretch

LEMMA StretchOne ==
    ASSUME NEW t, NEW q, NEW n \in Nat, Stretch(t, q, n), NEW new, new = Append(q, n + 1)
    PROVE  Stretch(t, new, n + 1)
<1>1. /\ q \in Seq(Nat) /\ t \in Seq(Nat) /\ Len(t) \in Nat /\ Len(q) \in Nat
      /\ n = Len(t) + Len(q)
  BY LenProperties DEF Stretch
<1>2. /\ new \in Seq(Nat) /\ Len(new) = Len(q) + 1 /\ new[Len(q) + 1] = n + 1
      /\ \A k \in 1..Len(q) : new[k] = q[k]
  BY <1>1, AppendProperties
<1>3. ASSUME NEW k \in 1..Len(new) PROVE new[k] = Len(t) + k
  <2>0. After(q, Len(t))
    BY DEF Stretch
  <2>1. CASE k \in 1..Len(q)
    BY <1>1, <1>2, <2>0, <2>1 DEF After
  <2>2. CASE k = Len(q) + 1
    BY <1>1, <1>2, <2>2
  <2> QED
    BY <1>1, <1>2, <2>1, <2>2
<1> QED
  BY <1>1, <1>2, <1>3 DEF Stretch, After

LEMMA StretchTake ==
    ASSUME NEW t, NEW q, NEW n \in Nat, Stretch(t, q, n), q # <<>>,
           NEW text, text = Append(t, Head(q)), NEW queue, queue = Tail(q)
    PROVE  Stretch(text, queue, n)
<1>1. /\ q \in Seq(Nat) /\ t \in Seq(Nat) /\ Len(t) \in Nat /\ Len(q) \in Nat
      /\ n = Len(t) + Len(q)
  BY LenProperties DEF Stretch
<1>2. /\ Head(q) \in Nat /\ queue \in Seq(Nat) /\ Len(queue) = Len(q) - 1
      /\ Len(q) \in Nat \ {0} /\ Head(q) = q[1]
      /\ \A k \in 1..Len(queue) : queue[k] = q[k + 1]
  BY <1>1, HeadTailProperties, EmptySeq
<1>3. /\ text \in Seq(Nat) /\ Len(text) = Len(t) + 1 /\ text[Len(t) + 1] = Head(q)
      /\ \A k \in 1..Len(t) : text[k] = t[k]
  BY <1>1, <1>2, AppendProperties
<1>4. Head(q) = Len(t) + 1
  BY <1>1, <1>2 DEF Stretch, After
<1>5. ASSUME NEW k \in 1..Len(text) PROVE text[k] = 0 + k
  <2>1. CASE k \in 1..Len(t)
    BY <1>3, <2>1 DEF Stretch, After
  <2>2. CASE k = Len(t) + 1
    BY <1>3, <1>4, <2>2
  <2> QED
    BY <1>1, <1>3, <2>1, <2>2
<1>6. ASSUME NEW k \in 1..Len(queue) PROVE queue[k] = Len(text) + k
  <2>1. k + 1 \in 1..Len(q) /\ queue[k] = q[k + 1]
    BY <1>1, <1>2, <1>6
  <2>2. q[k + 1] = Len(t) + (k + 1)
    BY <2>1 DEF Stretch, After
  <2> QED
    BY <1>1, <1>3, <2>1, <2>2
<1>7. After(text, 0) /\ After(queue, Len(text))
  BY <1>5, <1>6 DEF After
<1>8. Len(text) + Len(queue) = n
  BY <1>1, <1>2, <1>3
<1> QED
  BY <1>2, <1>3, <1>7, <1>8 DEF Stretch

(* A text that has all of them is the answer.                                *)
LEMMA StretchWhole ==
    ASSUME answer \in Answers, NEW t, Stretch(t, <<>>, answer.size)
    PROVE  t = Whole
<1>1. answer.size \in Nat /\ t \in Seq(Nat) /\ Len(t) = answer.size
  BY EmptySeq, LenProperties DEF Answers, Stretch
<1>2. \A k \in 1..answer.size : t[k] = k
  BY <1>1 DEF Stretch, After
<1>3. t = [k \in 1..Len(t) |-> t[k]]
  BY <1>1, LenProperties
<1> QED
  BY <1>1, <1>2, <1>3 DEF Whole

-----------------------------------------------------------------------------
(* The response.                                                             *)
Moz == "moz-chunked-arraybuffer"

(* How many pieces were pushed, when the browser's request has got so many.  *)
Heard(r, got) == IF r.mode = Moz THEN got ELSE r.pos

LEMMA PushUpToIs ==
    ASSUME NEW r \in Responses, NEW got \in Nat, r.pos <= got, NEW y, y = PushUpTo(r, got)
    PROVE  /\ r.queue \in Seq(Nat) => y \in Responses
           /\ y.mode = r.mode /\ y.ended = r.ended /\ y.listening = r.listening
           /\ y.endEmitted = r.endEmitted /\ y.reader = r.reader /\ y.pos = got
           /\ \A t : Stretch(t, r.queue, r.pos) => Stretch(t, y.queue, got)
<1>1. PICK q : q = r.queue \o [k \in 1..(got - r.pos) |-> r.pos + k]
  OBVIOUS
<1>2. r.pos \in Nat /\ r.queue \in Seq(Nat)
  BY DEF Responses
<1>3. q \in Seq(Nat)
  <2>1. PICK l, more : l = got - r.pos /\ more = [k \in 1..l |-> r.pos + k]
    OBVIOUS
  <2>2. l \in Nat /\ more \in [1..l -> Nat]
    BY <1>2, <2>1
  <2>3. more \in Seq(Nat)
    BY <2>2
  <2> QED
    BY <1>1, <1>2, <2>1, <2>3, ConcatProperties
<1>4. y = [r EXCEPT !.queue = q, !.pos = got]
  BY <1>1 DEF PushUpTo
<1>5. /\ y \in Responses /\ y.queue = q
      /\ y.mode = r.mode /\ y.ended = r.ended /\ y.listening = r.listening
      /\ y.endEmitted = r.endEmitted /\ y.reader = r.reader /\ y.pos = got
  BY <1>3, <1>4 DEF Responses
<1>6. \A t : Stretch(t, r.queue, r.pos) => Stretch(t, q, got)
  BY <1>1, <1>2, StretchPush
<1> QED
  BY <1>5, <1>6

(* A piece has come (the state is LOADING), or the end (DONE).               *)
LEMMA PushedIs ==
    ASSUME NEW r \in Responses, NEW before \in Nat, NEW got \in Nat, NEW ready,
           (ready = LOADING /\ got = before + 1) \/ (ready = DONE /\ got = before),
           r.mode # "fetch", r.pos <= before, NEW y, y = Pushed(r, ready, got)
    PROVE  /\ y \in Responses /\ y.listening = r.listening /\ y.endEmitted = r.endEmitted
           /\ y.ended = r.ended
           /\ y.mode # "fetch" /\ (y.mode = Moz <=> r.mode = Moz)
           /\ y.mode = "ms-stream" <=> r.mode = "ms-stream"
           /\ y.pos <= got /\ (y.reader => r.reader \/ y.mode = "ms-stream")
           /\ ready = DONE /\ y.mode # "ms-stream" => Heard(y, got) = got
           /\ \A t : Stretch(t, r.queue, Heard(r, before)) => Stretch(t, y.queue, Heard(y, got))
<1>0. LOADING # DONE /\ before <= got
  BY DEF LOADING, DONE
<1>1. r.pos \in Nat /\ r.pos <= got /\ r.mode \in Modes /\ r.queue \in Seq(Nat)
  BY <1>0 DEF Responses
<1>2. CASE y = PushUpTo(r, got) /\ r.mode # Moz
  <2>1. /\ y \in Responses /\ y.mode = r.mode /\ y.ended = r.ended /\ y.listening = r.listening
        /\ y.endEmitted = r.endEmitted /\ y.reader = r.reader /\ y.pos = got
        /\ \A t : Stretch(t, r.queue, r.pos) => Stretch(t, y.queue, got)
    BY <1>1, <1>2, PushUpToIs
  <2>2. Heard(r, before) = r.pos /\ Heard(y, got) = got
    BY <1>2, <2>1 DEF Heard
  <2> QED
    BY <1>0, <1>2, <2>1, <2>2
<1>3. CASE y = r /\ r.mode # Moz /\ (ready # DONE \/ r.mode = "ms-stream")
  BY <1>0, <1>1, <1>3 DEF Heard
<1>4. CASE y = [r EXCEPT !.mode = "text:vbarray"] /\ r.mode = "text" /\ ready # DONE
  <2>1. /\ y \in Responses /\ y.mode = "text:vbarray" /\ y.pos = r.pos /\ y.queue = r.queue
        /\ y.listening = r.listening /\ y.endEmitted = r.endEmitted /\ y.ended = r.ended
        /\ y.reader = r.reader
    BY <1>4 DEF Responses, Modes
  <2> QED
    BY <1>0, <1>1, <1>4, <2>1 DEF Heard, Moz
<1>5. CASE r.mode = Moz
  <2>1. CASE ready = DONE
    <3>1. y = r
      BY <1>0, <1>5, <2>1 DEF Pushed, Moz
    <3> QED
      BY <1>0, <1>1, <1>5, <2>1, <3>1 DEF Heard, Moz
  <2>2. CASE ready = LOADING
    <3>1. y = [r EXCEPT !.queue = Append(@, got)]
      BY <1>5, <2>2 DEF Pushed, Moz
    <3>2. Append(r.queue, got) \in Seq(Nat) /\ got = before + 1
      BY <1>0, <1>1, <2>2, AppendProperties
    <3>3. /\ y \in Responses /\ y.mode = r.mode /\ y.pos = r.pos
          /\ y.queue = Append(r.queue, got)
          /\ y.listening = r.listening /\ y.endEmitted = r.endEmitted /\ y.ended = r.ended
          /\ y.reader = r.reader
      BY <3>1, <3>2 DEF Responses
    <3>4. \A t : Stretch(t, r.queue, before) => Stretch(t, y.queue, got)
      BY <3>2, <3>3, StretchOne
    <3> QED
      BY <1>0, <1>1, <1>5, <2>2, <3>3, <3>4 DEF Heard, Moz
  <2> QED
    BY <2>1, <2>2
<1>6. CASE y = [r EXCEPT !.reader = TRUE] /\ r.mode = "ms-stream"
  <2>1. /\ y \in Responses /\ y.mode = "ms-stream" /\ y.pos = r.pos /\ y.queue = r.queue
        /\ y.listening = r.listening /\ y.endEmitted = r.endEmitted /\ y.ended = r.ended
    BY <1>6 DEF Responses
  <2> QED
    BY <1>0, <1>1, <1>6, <2>1 DEF Heard, Moz
<1>7. r.mode # Moz =>
         \/ y = PushUpTo(r, got)
         \/ y = r /\ (ready # DONE \/ r.mode = "ms-stream")
         \/ y = [r EXCEPT !.mode = "text:vbarray"] /\ r.mode = "text" /\ ready # DONE
         \/ y = [r EXCEPT !.reader = TRUE] /\ r.mode = "ms-stream"
  <2>1. CASE r.mode = "text:vbarray"
    BY <2>1 DEF Pushed
  <2>2. CASE r.mode = "text"
    BY <2>2 DEF Pushed
  <2>3. CASE r.mode = "arraybuffer"
    BY <2>3 DEF Pushed
  <2>4. CASE r.mode = "ms-stream"
    BY <2>4 DEF Pushed
  <2> QED
    BY <1>1, <2>1, <2>2, <2>3, <2>4 DEF Modes, Moz
<1> QED
  BY <1>2, <1>3, <1>4, <1>5, <1>6, <1>7

LEMMA ResponseProgressIs ==
    ASSUME NEW r \in Responses, NEW before \in Nat, NEW got \in Nat, NEW ready,
           (ready = LOADING /\ got = before + 1) \/ (ready = DONE /\ got = before),
           r.mode # "fetch", r.pos <= before, NEW y, y = ResponseProgress(r, ready, got)
    PROVE  /\ y \in Responses /\ y.listening = r.listening /\ y.endEmitted = r.endEmitted
           /\ r.ended => y.ended
           /\ y.ended => r.ended \/ (ready = DONE /\ Heard(y, got) = got)
           /\ y.mode # "fetch" /\ (y.mode = Moz <=> r.mode = Moz)
           /\ y.pos <= got /\ (y.reader => r.reader \/ y.mode = "ms-stream")
           /\ y.mode = "ms-stream" <=> r.mode = "ms-stream"
           /\ \A t : Stretch(t, r.queue, Heard(r, before)) => Stretch(t, y.queue, Heard(y, got))
<1>1. PICK z : z = Pushed(r, ready, got)
  OBVIOUS
<1>2. /\ z \in Responses /\ z.listening = r.listening /\ z.endEmitted = r.endEmitted
      /\ z.ended = r.ended
      /\ z.mode # "fetch" /\ (z.mode = Moz <=> r.mode = Moz)
      /\ z.mode = "ms-stream" <=> r.mode = "ms-stream"
      /\ z.pos <= got /\ (z.reader => r.reader \/ z.mode = "ms-stream")
      /\ ready = DONE /\ z.mode # "ms-stream" => Heard(z, got) = got
      /\ \A t : Stretch(t, r.queue, Heard(r, before)) => Stretch(t, z.queue, Heard(z, got))
  BY <1>1, PushedIs
<1>3. y = [z EXCEPT !.ended = z.ended \/ (ready = DONE /\ z.mode # "ms-stream")]
  BY <1>1 DEF ResponseProgress
<1>4. /\ y \in Responses /\ y.mode = z.mode /\ y.queue = z.queue /\ y.listening = z.listening
      /\ y.endEmitted = z.endEmitted /\ y.pos = z.pos /\ y.reader = z.reader
      /\ y.ended = (z.ended \/ (ready = DONE /\ z.mode # "ms-stream"))
  BY <1>2, <1>3 DEF Responses
<1>5. Heard(y, got) = Heard(z, got)
  BY <1>4 DEF Heard
<1> QED
  BY <1>2, <1>4, <1>5

-----------------------------------------------------------------------------
(* The inductive invariant.                                                  *)

(* The browser's request runs after the ClientRequest was finished, and the  *)
(* response is there from the first piece at the latest.                     *)
NativeRight ==
    /\ request.phase # "sent" => native.phase = "idle"
    /\ native.phase \in {"idle", "waiting"} => native.got = 0 /\ ~request.connected
    /\ native.got > 0 \/ native.phase = "done" => request.connected
    /\ native.got <= answer.size
    /\ native.phase = "done" => native.got = answer.size

(* A response has ended when all that came was pushed.                       *)
ResponseRight ==
    /\ response.mode = "fetch" <=> Mode = "fetch"
    /\ Mode = "fetch" /\ native.phase \in {"loading", "done"} =>
          request.connected /\ response.pos = native.got
    /\ ~request.connected => response = IncomingMessage
    /\ response.pos <= native.got
    /\ response.reader => response.mode = "ms-stream"
    /\ response.ended => native.phase = "done" /\ Heard(response, native.got) = native.got
    /\ response.endEmitted => response.ended /\ response.queue = <<>>
    /\ response.listening <=> request.connected /\ answer.status \notin Redirects

(* Where no error has overwritten it, the text goes on in the queue.         *)
TextRight ==
    ~xhr.errorFlag =>
        IF response.listening
        THEN Stretch(xhr.text, response.queue, Heard(response, native.got))
        ELSE xhr.text = <<>>

RightCall(c) ==
    /\ c.node = request.node
    /\ c.error = "none" => answer.kind = "object" /\ response.endEmitted /\ xhr.text = Whole
    /\ c.error = "Invalid Response" =>
          answer.kind = "garbage" \/ answer.size = 0 \/ xhr.errorFlag
    /\ c.error = "No connection" <=> request.node \in Unsupported

(* An error and the end keep each other out; only they call back.            *)
CallsRight ==
    /\ xhr.errorFlag => native.phase \in {"idle", "failed"} /\ request.phase = "sent"
    /\ request.phase # "none" => (request.phase = "thrown" <=> request.node \in Unsupported)
    /\ ~xhr.errorFlag /\ ~response.endEmitted /\ request.phase # "thrown" => xhr.calls = <<>>
    /\ xhr.calls = <<>> \/ \E c \in Call : xhr.calls = <<c>> /\ RightCall(c)

HttpInv == HttpTypeOK /\ NativeRight /\ ResponseRight /\ TextRight /\ CallsRight

-----------------------------------------------------------------------------
(* What the steps have in common.                                            *)
LEMMA ConstantsStay ==
    ASSUME capability' = capability, answer' = answer
    PROVE  Mode' = Mode /\ IncomingMessage' = IncomingMessage /\ Whole' = Whole
BY DEF Mode, DecideMode, IncomingMessage, Whole

LEMMA ModeIsKnown == Mode \in Modes
BY DEF Mode, DecideMode, Modes

(* A response that has begun, and one that is listened to.                   *)
LEMMA IncomingMessageIs ==
    ASSUME NEW r, r \in {IncomingMessage, Listening(IncomingMessage)}
    PROVE  /\ r \in Responses /\ r.mode = Mode /\ r.queue = <<>> /\ r.pos = 0
           /\ ~r.ended /\ ~r.endEmitted /\ ~r.reader
           /\ r.listening <=> r = Listening(IncomingMessage) /\ answer.status \notin Redirects
<1>0. <<>> \in Seq(Nat)
  BY EmptySeq
<1>1. PICK m : m = IncomingMessage
  OBVIOUS
<1>2. /\ m = [mode |-> Mode, queue |-> <<>>, ended |-> FALSE, listening |-> FALSE,
              endEmitted |-> FALSE, pos |-> 0, reader |-> FALSE]
      /\ m \in Responses /\ m.mode = Mode /\ m.queue = <<>> /\ m.pos = 0
      /\ ~m.ended /\ ~m.endEmitted /\ ~m.reader /\ m.listening = FALSE
  BY <1>0, <1>1, ModeIsKnown DEF IncomingMessage, Responses
<1>3. PICK z : z = Listening(m)
  OBVIOUS
<1>4. /\ z \in Responses /\ z.mode = Mode /\ z.queue = <<>> /\ z.pos = 0
      /\ ~z.ended /\ ~z.endEmitted /\ ~z.reader
      /\ z.listening = (answer.status \notin Redirects)
  BY <1>2, <1>3 DEF Listening, Responses
<1>5. CASE r = m
  <2>1. answer.status \notin Redirects => m # z
    BY <1>2, <1>4
  <2> QED
    BY <1>1, <1>2, <1>3, <1>5, <2>1
<1>6. CASE r = z
  BY <1>1, <1>3, <1>4, <1>6
<1> QED
  BY <1>1, <1>3, <1>5, <1>6

LEMMA NothingYet == Stretch(<<>>, <<>>, 0)
BY EmptySeq DEF Stretch, After

(* What was called back stays right.                                         *)
LEMMA CallsKept ==
    ASSUME CallsRight, capability' = capability, answer' = answer,
           xhr'.calls = xhr.calls, request'.node = request.node,
           xhr.errorFlag => xhr'.errorFlag,
           response.endEmitted => response'.endEmitted /\ xhr'.text = xhr.text
    PROVE  xhr'.calls = <<>> \/ \E c \in Call : xhr'.calls = <<c>> /\ RightCall(c)'
<1>1. CASE xhr.calls = <<>>
  BY <1>1
<1>2. ASSUME NEW c \in Call, xhr.calls = <<c>>, RightCall(c)
      PROVE  xhr'.calls = <<c>> /\ RightCall(c)'
  BY <1>2, ConstantsStay DEF RightCall
<1> QED
  BY <1>1, <1>2 DEF CallsRight

LEMMA InvInit == HttpInit => HttpInv
<1> SUFFICES ASSUME HttpInit PROVE HttpInv
  OBVIOUS
<1>1. /\ request = [phase |-> "none", node |-> provider, connected |-> FALSE]
      /\ native = [phase |-> "idle", got |-> 0]
      /\ response = IncomingMessage
      /\ xhr = XMLHttpRequest
      /\ provider \in Nodes /\ answer \in Answers
  BY DEF HttpInit, Answers
<1>2. /\ response \in Responses /\ response.mode = Mode /\ response.queue = <<>>
      /\ response.pos = 0 /\ ~response.ended /\ ~response.endEmitted /\ ~response.reader
  BY <1>1, IncomingMessageIs
<1>3. response.listening = FALSE
  BY <1>1 DEF IncomingMessage
<1>4. /\ request \in Requests /\ request.phase = "none" /\ ~request.connected
      /\ native \in Natives /\ native.phase = "idle" /\ native.got = 0
  BY <1>1 DEF Requests, Phases, Natives
<1>5. /\ xhr \in XHRs /\ xhr.calls = <<>> /\ ~xhr.errorFlag /\ xhr.text = <<>>
  <2>1. <<>> \in Seq(Nat) /\ <<>> \in Seq(Call)
    BY EmptySeq
  <2> QED
    BY <1>1, <2>1 DEF XMLHttpRequest, XHRs, UNSENT
<1>6. HttpTypeOK
  BY <1>1, <1>2, <1>4, <1>5 DEF HttpTypeOK
<1>7. NativeRight
  BY <1>1, <1>4 DEF NativeRight, Answers
<1>8. ResponseRight
  BY <1>1, <1>2, <1>3, <1>4 DEF ResponseRight
<1>9. TextRight
  BY <1>3, <1>5 DEF TextRight
<1>10. CallsRight
  BY <1>4, <1>5 DEF CallsRight
<1> QED
  BY <1>6, <1>7, <1>8, <1>9, <1>10 DEF HttpInv

-----------------------------------------------------------------------------
(* The steps.                                                                *)
LEMMA ChangeNodeKeeps == ASSUME HttpInv, ChangeNode PROVE HttpInv'
<1>1. /\ provider' \in Nodes /\ capability' = capability /\ answer' = answer
      /\ request' = request /\ native' = native /\ response' = response /\ xhr' = xhr
  BY DEF ChangeNode
<1>2. Mode' = Mode /\ IncomingMessage' = IncomingMessage
  BY <1>1, ConstantsStay
<1>3. HttpTypeOK'
  BY <1>1 DEF HttpInv, HttpTypeOK
<1>4. NativeRight'
  BY <1>1 DEF HttpInv, NativeRight
<1>5. ResponseRight'
  BY <1>1, <1>2 DEF HttpInv, ResponseRight
<1>6. TextRight'
  BY <1>1 DEF HttpInv, TextRight
<1>7. CallsRight'
  BY <1>1, CallsKept DEF HttpInv, CallsRight
<1> QED
  BY <1>3, <1>4, <1>5, <1>6, <1>7 DEF HttpInv

(* The request is sent before anything else has happened to it.              *)
LEMMA SendKeeps == ASSUME HttpInv, Send PROVE HttpInv'
<1>1. /\ request.phase = "none" /\ provider' = provider /\ capability' = capability
      /\ answer' = answer /\ native' = native /\ response' = response
  BY DEF Send
<1>2. /\ native.phase = "idle" /\ ~request.connected /\ response = IncomingMessage
      /\ ~xhr.errorFlag /\ ~response.endEmitted /\ xhr.calls = <<>>
      /\ request \in Requests /\ xhr \in XHRs /\ provider \in Nodes /\ answer \in Answers
  <2>1. native.phase = "idle" /\ ~request.connected
    BY <1>1 DEF HttpInv, NativeRight
  <2>2. response = IncomingMessage /\ ~response.ended
    BY <2>1 DEF HttpInv, ResponseRight
  <2> QED
    BY <1>1, <2>1, <2>2 DEF HttpInv, HttpTypeOK, ResponseRight, CallsRight
<1>3. /\ request' \in Requests /\ request'.node = provider /\ ~request'.connected
      /\ request'.phase = (IF provider \in Unsupported THEN "thrown" ELSE "ended")
  BY <1>2 DEF Send, Requests, Phases
<1>4. PICK x : x = Opened(xhr)
  OBVIOUS
<1>5. /\ x \in XHRs /\ x.readyState = OPENED /\ x.calls = <<>> /\ x.text = <<>>
      /\ ~x.errorFlag
  <2>1. PICK z : z = [Abort(xhr) EXCEPT !.errorFlag = FALSE]
    OBVIOUS
  <2>2. <<>> \in Seq(Nat) /\ OPENED \in 0..4 /\ OPENED # DONE
    BY EmptySeq DEF OPENED, DONE
  <2>3. z \in XHRs /\ z.calls = <<>> /\ z.text = <<>> /\ z.errorFlag = FALSE
    <3>1. z = [readyState |-> 0, sendFlag |-> xhr.sendFlag, errorFlag |-> FALSE, status |-> 0,
               text |-> <<>>, calls |-> <<>>, thrown |-> xhr.thrown]
      BY <1>2, <2>1 DEF Abort, XHRs, UNSENT
    <3> QED
      BY <1>2, <2>2, <3>1 DEF XHRs
  <2>4. x = SetState(z, OPENED)
    BY <1>4, <2>1 DEF Opened
  <2> QED
    BY <1>2, <2>2, <2>3, <2>4, SetStateIs
<1> DEFINE Called == xhr'.calls = <<>> \/ \E c \in Call : xhr'.calls = <<c>> /\ RightCall(c)'
<1>6. ASSUME provider \in Unsupported
      PROVE  xhr' \in XHRs /\ ~xhr'.errorFlag /\ xhr'.text = <<>> /\ Called
  <2>1. PICK c \in Call : c = [error |-> "No connection", node |-> provider]
    BY <1>2 DEF Call, Errors
  <2>2. xhr' = [x EXCEPT !.calls = <<c>>]
    BY <1>4, <1>6, <2>1 DEF Send
  <2>5. <<c>> \in Seq(Call)
    OBVIOUS
  <2>3. xhr' \in XHRs /\ xhr'.calls = <<c>> /\ xhr'.text = <<>> /\ xhr'.errorFlag = FALSE
    BY <1>5, <2>2, <2>5 DEF XHRs
  <2>4. RightCall(c)'
    BY <1>3, <1>6, <2>1 DEF RightCall
  <2> QED
    BY <2>3, <2>4
<1>7. ASSUME provider \notin Unsupported
      PROVE  xhr' \in XHRs /\ ~xhr'.errorFlag /\ xhr'.text = <<>> /\ xhr'.calls = <<>>
  <2>1. PICK z : z = [x EXCEPT !.errorFlag = FALSE, !.sendFlag = TRUE]
    OBVIOUS
  <2>2. z \in XHRs /\ z.calls = <<>> /\ z.text = <<>> /\ z.errorFlag = FALSE /\ z.readyState = OPENED
    BY <1>5, <2>1 DEF XHRs
  <2>3. xhr' = z
    BY <1>4, <1>7, <2>1, <2>2 DEF Send, DispatchReadyStateChange, OPENED, DONE
  <2> QED
    BY <2>2, <2>3
<1>8. xhr' \in XHRs /\ ~xhr'.errorFlag /\ xhr'.text = <<>> /\ Called
      /\ (request'.phase # "thrown" => xhr'.calls = <<>>)
  <2>1. CASE provider \in Unsupported
    <3>1. request'.phase = "thrown"
      BY <1>3, <2>1
    <3> QED
      BY <1>6, <2>1, <3>1
  <2>2. CASE provider \notin Unsupported
    BY <1>7, <2>2
  <2> QED
    BY <2>1, <2>2
<1>9. Mode' = Mode /\ IncomingMessage' = IncomingMessage
  BY <1>1, ConstantsStay
<1>10. HttpTypeOK'
  BY <1>1, <1>3, <1>8 DEF HttpInv, HttpTypeOK
<1>11. NativeRight'
  BY <1>1, <1>2, <1>3 DEF HttpInv, NativeRight
<1>12. ResponseRight'
  BY <1>1, <1>2, <1>3, <1>9 DEF HttpInv, ResponseRight
<1>13. TextRight'
  <2>1. ~response'.listening
    BY <1>1, <1>2 DEF HttpInv, ResponseRight
  <2> QED
    BY <1>8, <2>1 DEF TextRight
<1>14. CallsRight'
  BY <1>3, <1>8 DEF CallsRight
<1> QED
  BY <1>10, <1>11, <1>12, <1>13, <1>14 DEF HttpInv

LEMMA FinishKeeps == ASSUME HttpInv, Finish PROVE HttpInv'
<1>1. /\ request.phase = "ended" /\ provider' = provider /\ capability' = capability
      /\ answer' = answer /\ response' = response /\ xhr' = xhr
  BY DEF Finish
<1>2. /\ native.phase = "idle" /\ native.got = 0 /\ ~request.connected
      /\ ~xhr.errorFlag /\ request \in Requests /\ native \in Natives
  BY <1>1 DEF HttpInv, HttpTypeOK, NativeRight, CallsRight
<1>3. /\ request' \in Requests /\ request'.node = request.node /\ ~request'.connected
      /\ request'.phase \in {"sent", "refused"}
      /\ native' \in Natives /\ native'.got = 0
      /\ IF request'.phase = "sent" THEN native'.phase = "waiting" ELSE native'.phase = "idle"
  <2>1. CASE /\ native' = [native EXCEPT !.phase = "waiting"]
             /\ request' = [request EXCEPT !.phase = "sent"]
    BY <1>2, <2>1 DEF Requests, Phases, Natives
  <2>2. CASE request' = [request EXCEPT !.phase = "refused"] /\ native' = native
    BY <1>2, <2>2 DEF Requests, Phases, Natives
  <2> QED
    BY <2>1, <2>2 DEF Finish
<1>4. Mode' = Mode /\ IncomingMessage' = IncomingMessage
  BY <1>1, ConstantsStay
<1>5. HttpTypeOK'
  BY <1>1, <1>3 DEF HttpInv, HttpTypeOK
<1>6. NativeRight'
  BY <1>1, <1>2, <1>3 DEF HttpInv, NativeRight
<1>7. ResponseRight'
  BY <1>1, <1>2, <1>3, <1>4 DEF HttpInv, ResponseRight
<1>8. TextRight'
  <2>1. ~response.listening
    BY <1>2 DEF HttpInv, ResponseRight
  <2> QED
    BY <1>1, <2>1 DEF HttpInv, TextRight
<1>9. CallsRight'
  <2>1. xhr'.calls = <<>> \/ \E c \in Call : xhr'.calls = <<c>> /\ RightCall(c)'
    BY <1>1, <1>3, CallsKept DEF HttpInv
  <2> QED
    BY <1>1, <1>2, <1>3, <2>1 DEF HttpInv, CallsRight
<1> QED
  BY <1>5, <1>6, <1>7, <1>8, <1>9 DEF HttpInv

(* An error is heard before the end: it is the first to call back.           *)
LEMMA ErrorCallsOnce ==
    ASSUME HttpInv, request.phase \in {"refused", "sent"}, ~response.ended,
           request'.node = request.node, response'.endEmitted = response.endEmitted,
           xhr' = HandleError(xhr), capability' = capability, answer' = answer,
           ~xhr.errorFlag
    PROVE  /\ xhr' \in XHRs /\ xhr'.errorFlag
           /\ xhr'.calls = <<>> \/ \E c \in Call : xhr'.calls = <<c>> /\ RightCall(c)'
<1>1. /\ xhr.calls = <<>> /\ request.node \notin Unsupported
      /\ request \in Requests /\ answer \in Answers /\ xhr \in XHRs
  BY DEF HttpInv, HttpTypeOK, ResponseRight, CallsRight
<1>2. /\ xhr' \in XHRs /\ xhr'.errorFlag
      /\ \/ xhr'.calls = xhr.calls
         \/ \E c \in Call : /\ xhr.readyState # DONE /\ xhr'.calls = Append(xhr.calls, c)
                            /\ c.node = request.node
                            /\ c.error \notin {"none", "No connection"}
  BY <1>1, HandleErrorIs
<1>3. ASSUME NEW c \in Call, xhr'.calls = Append(xhr.calls, c), c.node = request.node,
             c.error \notin {"none", "No connection"}
      PROVE  xhr'.calls = <<c>> /\ RightCall(c)'
  <2>1. Append(xhr.calls, c) = <<c>>
    BY <1>1
  <2>2. RightCall(c)'
    BY <1>1, <1>2, <1>3 DEF RightCall
  <2> QED
    BY <1>3, <2>1, <2>2
<1> QED
  BY <1>1, <1>2, <1>3

LEMMA EmitErrorKeeps == ASSUME HttpInv, EmitError PROVE HttpInv'
<1>1. /\ request.phase = "refused" /\ provider' = provider /\ capability' = capability
      /\ answer' = answer /\ response' = response /\ native' = native
      /\ request' = [request EXCEPT !.phase = "sent"]
      /\ xhr' = HandleError(xhr)
  BY DEF EmitError
<1>2. /\ native.phase = "idle" /\ native.got = 0 /\ ~request.connected /\ ~response.ended
      /\ ~xhr.errorFlag /\ request \in Requests
  BY <1>1 DEF HttpInv, HttpTypeOK, NativeRight, ResponseRight, CallsRight
<1>3. /\ request' \in Requests /\ request'.node = request.node /\ ~request'.connected
      /\ request'.phase = "sent"
  BY <1>1, <1>2 DEF Requests, Phases
<1>4. /\ xhr' \in XHRs /\ xhr'.errorFlag
      /\ xhr'.calls = <<>> \/ \E c \in Call : xhr'.calls = <<c>> /\ RightCall(c)'
  BY <1>1, <1>2, <1>3, ErrorCallsOnce
<1>5. Mode' = Mode /\ IncomingMessage' = IncomingMessage
  BY <1>1, ConstantsStay
<1>6. HttpTypeOK'
  BY <1>1, <1>3, <1>4 DEF HttpInv, HttpTypeOK
<1>7. NativeRight'
  BY <1>1, <1>2, <1>3 DEF HttpInv, NativeRight
<1>8. ResponseRight'
  BY <1>1, <1>2, <1>3, <1>5 DEF HttpInv, ResponseRight
<1>9. TextRight'
  BY <1>4 DEF TextRight
<1>10. CallsRight'
  BY <1>1, <1>2, <1>3, <1>4 DEF HttpInv, CallsRight
<1> QED
  BY <1>6, <1>7, <1>8, <1>9, <1>10 DEF HttpInv

LEMMA NetworkBreaksKeeps == ASSUME HttpInv, NetworkBreaks PROVE HttpInv'
<1>1. /\ native.phase \in {"waiting", "loading"} /\ provider' = provider
      /\ capability' = capability /\ answer' = answer /\ response' = response
      /\ request' = request /\ native' = [native EXCEPT !.phase = "failed"]
  BY DEF NetworkBreaks
<1>2. /\ request.phase = "sent" /\ ~response.ended /\ ~xhr.errorFlag /\ native \in Natives
      /\ xhr \in XHRs
  BY <1>1 DEF HttpInv, HttpTypeOK, NativeRight, ResponseRight, CallsRight
<1>3. native' \in Natives /\ native'.phase = "failed" /\ native'.got = native.got
  BY <1>1, <1>2 DEF Natives
<1>4. ASSUME xhr' = xhr PROVE xhr' \in XHRs /\ TextRight' /\ CallsRight'
  <2>1. xhr'.calls = <<>> \/ \E c \in Call : xhr'.calls = <<c>> /\ RightCall(c)'
    BY <1>1, <1>4, CallsKept DEF HttpInv
  <2>2. TextRight'
    BY <1>1, <1>3, <1>4 DEF HttpInv, TextRight
  <2>3. CallsRight'
    BY <1>1, <1>2, <1>4, <2>1 DEF HttpInv, CallsRight
  <2> QED
    BY <1>2, <1>4, <2>2, <2>3
<1>5. ASSUME xhr' = HandleError(xhr) PROVE xhr' \in XHRs /\ TextRight' /\ CallsRight'
  <2>1. /\ xhr' \in XHRs /\ xhr'.errorFlag
        /\ xhr'.calls = <<>> \/ \E c \in Call : xhr'.calls = <<c>> /\ RightCall(c)'
    BY <1>1, <1>2, <1>5, ErrorCallsOnce
  <2>2. TextRight'
    BY <2>1 DEF TextRight
  <2>3. CallsRight'
    BY <1>1, <1>2, <1>3, <2>1 DEF HttpInv, CallsRight
  <2> QED
    BY <2>1, <2>2, <2>3
<1>6. xhr' \in XHRs /\ TextRight' /\ CallsRight'
  BY <1>4, <1>5 DEF NetworkBreaks
<1>7. Mode' = Mode /\ IncomingMessage' = IncomingMessage
  BY <1>1, ConstantsStay
<1>8. HttpTypeOK'
  BY <1>1, <1>3, <1>6 DEF HttpInv, HttpTypeOK
<1>9. NativeRight'
  BY <1>1, <1>2, <1>3 DEF HttpInv, NativeRight
<1>10. ResponseRight'
  BY <1>1, <1>2, <1>3, <1>7 DEF HttpInv, ResponseRight
<1> QED
  BY <1>6, <1>8, <1>9, <1>10 DEF HttpInv

(* The response is heard of: the listeners of the XMLHttpRequest are there   *)
(* from now on, unless it throws.                                            *)
LEMMA ConnectIs ==
    ASSUME HttpInv, Connect
    PROVE  /\ request' \in Requests /\ request'.connected
           /\ request'.phase = request.phase /\ request'.node = request.node
           /\ xhr' \in XHRs /\ xhr'.calls = xhr.calls /\ xhr'.text = xhr.text
           /\ xhr'.errorFlag = xhr.errorFlag
<1>1. request \in Requests /\ answer \in Answers /\ xhr \in XHRs
  BY DEF HttpInv, HttpTypeOK
<1>2. request' = [request EXCEPT !.connected = TRUE] /\ xhr' = ResponseHandler(xhr)
  BY DEF Connect
<1>3. /\ request' \in Requests /\ request'.connected
      /\ request'.phase = request.phase /\ request'.node = request.node
  BY <1>1, <1>2 DEF Requests
<1>4. /\ xhr' \in XHRs /\ xhr'.calls = xhr.calls /\ xhr'.text = xhr.text
      /\ xhr'.errorFlag = xhr.errorFlag
  BY <1>1, <1>2, ResponseHandlerIs
<1> QED
  BY <1>3, <1>4

(* While the body comes in, no error was heard and nothing has ended.        *)
LEMMA WhileLoading ==
    ASSUME HttpInv, native.phase \in {"waiting", "loading"}
    PROVE  /\ request.phase = "sent" /\ ~xhr.errorFlag
           /\ ~response.ended /\ ~response.endEmitted /\ xhr.calls = <<>>
           /\ native \in Natives /\ response \in Responses /\ answer \in Answers
           /\ ~request.connected => xhr.text = <<>> /\ native.got = 0
<1>1. request.phase = "sent" /\ ~xhr.errorFlag /\ ~response.ended
  BY DEF HttpInv, NativeRight, ResponseRight, CallsRight
<1>2. ~response.endEmitted /\ xhr.calls = <<>>
  BY <1>1 DEF HttpInv, ResponseRight, CallsRight
<1>3. ~request.connected => xhr.text = <<>> /\ native.got = 0
  <2>1. SUFFICES ASSUME ~request.connected PROVE xhr.text = <<>> /\ native.got = 0
    OBVIOUS
  <2>2. ~response.listening /\ ~(native.got > 0)
    BY <2>1 DEF HttpInv, NativeRight, ResponseRight
  <2>3. native.got \in Nat
    BY DEF HttpInv, HttpTypeOK, Natives
  <2> QED
    BY <1>1, <2>2, <2>3 DEF HttpInv, TextRight
<1> QED
  BY <1>1, <1>2, <1>3 DEF HttpInv, HttpTypeOK

LEMMA HeadersArriveKeeps == ASSUME HttpInv, HeadersArrive PROVE HttpInv'
<1>1. /\ native.phase = "waiting" /\ provider' = provider /\ capability' = capability
      /\ answer' = answer /\ native' = [native EXCEPT !.phase = "loading"]
  BY DEF HeadersArrive
<1>2. /\ request.phase = "sent" /\ ~xhr.errorFlag
      /\ ~response.ended /\ ~response.endEmitted /\ xhr.calls = <<>>
      /\ native \in Natives /\ response \in Responses /\ answer \in Answers
      /\ native.got = 0 /\ ~request.connected /\ xhr.text = <<>>
  BY <1>1, WhileLoading DEF HttpInv, NativeRight
<1>3. native' \in Natives /\ native'.phase = "loading" /\ native'.got = 0
  BY <1>1, <1>2 DEF Natives
<1>4. Mode' = Mode /\ IncomingMessage' = IncomingMessage
  BY <1>1, ConstantsStay
<1>5. CASE Mode = "fetch"
  <2>1. Connect /\ response' = Listening(IncomingMessage)
    BY <1>5 DEF HeadersArrive
  <2>2. /\ request' \in Requests /\ request'.connected
        /\ request'.phase = "sent" /\ request'.node = request.node
        /\ xhr' \in XHRs /\ xhr'.calls = <<>> /\ xhr'.text = <<>> /\ ~xhr'.errorFlag
    BY <1>2, <2>1, ConnectIs
  <2>3. PICK r : r = Listening(IncomingMessage)
    OBVIOUS
  <2>4. /\ r \in Responses /\ r.mode = Mode /\ r.queue = <<>> /\ r.pos = 0
        /\ ~r.ended /\ ~r.endEmitted /\ ~r.reader
        /\ r.listening <=> answer.status \notin Redirects
    BY <2>3, IncomingMessageIs
  <2>5. HttpTypeOK'
    BY <1>1, <1>3, <2>1, <2>2, <2>3, <2>4 DEF HttpInv, HttpTypeOK
  <2>6. NativeRight'
    BY <1>1, <1>2, <1>3, <2>2 DEF HttpInv, NativeRight
  <2>7. ResponseRight'
    BY <1>1, <1>3, <1>4, <1>5, <2>1, <2>2, <2>3, <2>4 DEF ResponseRight
  <2>8. TextRight'
    <3>1. Heard(r, 0) = 0
      BY <2>4 DEF Heard
    <3> QED
      BY <1>3, <2>1, <2>2, <2>3, <2>4, <3>1, NothingYet DEF TextRight
  <2>9. CallsRight'
    BY <1>2, <2>2 DEF HttpInv, CallsRight
  <2> QED
    BY <2>5, <2>6, <2>7, <2>8, <2>9 DEF HttpInv
<1>6. CASE Mode # "fetch"
  <2>1. request' = request /\ response' = response /\ xhr' = xhr
    BY <1>6 DEF HeadersArrive
  <2>2. HttpTypeOK'
    BY <1>1, <1>3, <2>1 DEF HttpInv, HttpTypeOK
  <2>3. NativeRight'
    BY <1>1, <1>2, <1>3, <2>1 DEF HttpInv, NativeRight
  <2>4. ResponseRight'
    BY <1>1, <1>2, <1>3, <1>4, <1>6, <2>1 DEF HttpInv, ResponseRight
  <2>5. TextRight'
    BY <1>2, <1>3, <2>1 DEF HttpInv, TextRight
  <2>6. CallsRight'
    BY <1>2, <2>1 DEF HttpInv, CallsRight
  <2> QED
    BY <2>2, <2>3, <2>4, <2>5, <2>6 DEF HttpInv
<1> QED
  BY <1>5, <1>6

(* The reader pushes what has come, or, at the end of it, the end.           *)
LEMMA ReaderProgressKeeps == ASSUME HttpInv, ReaderProgress PROVE HttpInv'
<1>1. /\ response.reader /\ ~response.ended /\ provider' = provider
      /\ capability' = capability /\ answer' = answer /\ request' = request
      /\ native' = native /\ xhr' = xhr
      /\ response.pos = native.got => native.phase = "done"
  BY DEF ReaderProgress
<1>2. /\ response \in Responses /\ native \in Natives /\ native.got \in Nat
      /\ response.pos \in Nat /\ response.queue \in Seq(Nat) /\ response.pos <= native.got
      /\ response.mode = "ms-stream" /\ request.connected /\ Mode # "fetch"
      /\ ~response.endEmitted
  <2>1. request.connected
    <3>1. ~IncomingMessage.reader
      BY DEF IncomingMessage
    <3> QED
      BY <1>1, <3>1 DEF HttpInv, ResponseRight
  <2> QED
    BY <1>1, <2>1 DEF HttpInv, HttpTypeOK, ResponseRight, Responses, Natives
<1>3. /\ response' \in Responses /\ response'.mode = response.mode
      /\ response'.listening = response.listening /\ response'.reader = response.reader
      /\ response'.endEmitted = response.endEmitted /\ response'.pos = native.got
      /\ response'.ended => native.phase = "done"
      /\ \A t : Stretch(t, response.queue, response.pos) =>
                Stretch(t, response'.queue, native.got)
  <2>1. CASE response.pos < native.got
    <3>1. PICK got \in Nat : got = native.got
      BY <1>2
    <3>2. PICK y : y = PushUpTo(response, got)
      OBVIOUS
    <3>3. response.pos <= got
      BY <1>2, <3>1
    <3>4. /\ y \in Responses /\ y.mode = response.mode /\ y.ended = response.ended
          /\ y.listening = response.listening /\ y.reader = response.reader
          /\ y.endEmitted = response.endEmitted /\ y.pos = got
          /\ \A t : Stretch(t, response.queue, response.pos) => Stretch(t, y.queue, got)
      BY <1>2, <3>2, <3>3, PushUpToIs
    <3>5. response' = y
      BY <2>1, <3>1, <3>2 DEF ReaderProgress
    <3> QED
      BY <1>1, <3>1, <3>4, <3>5
  <2>2. CASE ~(response.pos < native.got)
    <3>1. response' = [response EXCEPT !.ended = TRUE]
      BY <2>2 DEF ReaderProgress
    <3>2. /\ response' \in Responses /\ response'.mode = response.mode
          /\ response'.listening = response.listening /\ response'.reader = response.reader
          /\ response'.endEmitted = response.endEmitted /\ response'.pos = response.pos
          /\ response'.queue = response.queue
      BY <1>2, <3>1 DEF Responses
    <3>3. response.pos = native.got
      BY <1>2, <2>2
    <3> QED
      BY <1>1, <3>2, <3>3
  <2> QED
    BY <2>1, <2>2
<1>4. /\ Heard(response, native.got) = response.pos
      /\ Heard(response', native.got) = native.got
  BY <1>2, <1>3 DEF Heard, Moz
<1>5. Mode' = Mode
  BY <1>1, ConstantsStay
<1>6. HttpTypeOK'
  BY <1>1, <1>3 DEF HttpInv, HttpTypeOK
<1>7. NativeRight'
  BY <1>1 DEF HttpInv, NativeRight
<1>8. ResponseRight'
  BY <1>1, <1>2, <1>3, <1>4, <1>5 DEF HttpInv, ResponseRight
<1>9. TextRight'
  BY <1>1, <1>3, <1>4 DEF HttpInv, TextRight
<1>10. CallsRight'
  <2>1. xhr'.calls = <<>> \/ \E c \in Call : xhr'.calls = <<c>> /\ RightCall(c)'
    BY <1>1, <1>2, CallsKept DEF HttpInv
  <2> QED
    BY <1>1, <1>3, <2>1 DEF HttpInv, CallsRight
<1> QED
  BY <1>6, <1>7, <1>8, <1>9, <1>10 DEF HttpInv

(* A piece reaches the text.                                                 *)
LEMMA DeliverPieceKeeps ==
    ASSUME HttpInv, response.listening, response.queue # <<>>,
           response' = [response EXCEPT !.queue = Tail(@)],
           xhr' = OnData(xhr, Head(response.queue)),
           provider' = provider, capability' = capability, answer' = answer,
           request' = request, native' = native
    PROVE  HttpInv'
<1>1. /\ response \in Responses /\ response.queue \in Seq(Nat) /\ xhr \in XHRs
      /\ request \in Requests /\ answer \in Answers
      /\ ~response.endEmitted /\ request.connected
  BY DEF HttpInv, HttpTypeOK, ResponseRight, Responses
<1>2. PICK p \in Nat, queue \in Seq(Nat) : p = Head(response.queue) /\ queue = Tail(response.queue)
  BY <1>1, HeadTailProperties
<1>3. /\ response' \in Responses /\ response'.mode = response.mode
      /\ response'.listening = response.listening /\ response'.reader = response.reader
      /\ response'.endEmitted = response.endEmitted /\ response'.pos = response.pos
      /\ response'.ended = response.ended /\ response'.queue = queue
  BY <1>1, <1>2 DEF Responses
<1>4. /\ xhr' \in XHRs /\ xhr'.calls = xhr.calls /\ xhr'.text = Append(xhr.text, p)
      /\ xhr'.errorFlag = xhr.errorFlag
  BY <1>1, <1>2, OnDataIs
<1>5. Heard(response', native.got) = Heard(response, native.got)
  BY <1>3 DEF Heard
<1>6. Mode' = Mode
  BY ConstantsStay
<1>7. HttpTypeOK'
  BY <1>3, <1>4 DEF HttpInv, HttpTypeOK
<1>8. NativeRight'
  BY DEF HttpInv, NativeRight
<1>9. ResponseRight'
  BY <1>1, <1>3, <1>5, <1>6 DEF HttpInv, ResponseRight
<1>10. TextRight'
  <2> SUFFICES ASSUME ~xhr.errorFlag PROVE Stretch(xhr'.text, queue, Heard(response, native.got))
    BY <1>3, <1>4, <1>5 DEF TextRight
  <2>1. Stretch(xhr.text, response.queue, Heard(response, native.got))
    BY DEF HttpInv, TextRight
  <2>2. Heard(response, native.got) \in Nat
    BY DEF HttpInv, HttpTypeOK, Heard, Responses, Natives
  <2> QED
    BY <1>2, <1>4, <2>1, <2>2, StretchTake
<1>11. CallsRight'
  <2>1. xhr'.calls = <<>> \/ \E c \in Call : xhr'.calls = <<c>> /\ RightCall(c)'
    BY <1>1, <1>4, CallsKept DEF HttpInv
  <2> QED
    BY <1>3, <1>4, <2>1 DEF HttpInv, CallsRight
<1> QED
  BY <1>7, <1>8, <1>9, <1>10, <1>11 DEF HttpInv

(* The end calls back, with the whole of the answer.                         *)
LEMMA DeliverEndKeeps ==
    ASSUME HttpInv, response.listening, response.queue = <<>>, response.ended,
           ~response.endEmitted,
           response' = [response EXCEPT !.endEmitted = TRUE], xhr' = OnEnd(xhr),
           provider' = provider, capability' = capability, answer' = answer,
           request' = request, native' = native
    PROVE  HttpInv'
<1>1. /\ response \in Responses /\ xhr \in XHRs /\ request \in Requests /\ answer \in Answers
      /\ native.phase = "done" /\ native.got = answer.size /\ request.connected
      /\ Heard(response, native.got) = native.got
  BY DEF HttpInv, HttpTypeOK, ResponseRight, NativeRight
<1>2. request.phase = "sent" /\ ~xhr.errorFlag /\ xhr.calls = <<>> /\ request.node \notin Unsupported
  BY <1>1 DEF HttpInv, NativeRight, CallsRight
<1>3. xhr.text = Whole
  BY <1>1, <1>2, StretchWhole DEF HttpInv, TextRight
<1>4. /\ response' \in Responses /\ response'.mode = response.mode
      /\ response'.listening = response.listening /\ response'.reader = response.reader
      /\ response'.endEmitted /\ response'.pos = response.pos
      /\ response'.ended = response.ended /\ response'.queue = <<>>
  BY <1>1 DEF Responses
<1>5. /\ xhr' \in XHRs /\ xhr'.text = Whole /\ ~xhr'.errorFlag
      /\ MayCall(xhr, xhr') \/ xhr'.calls = <<>>
  BY <1>1, <1>2, <1>3, OnEndIs
<1>6. Heard(response', native.got) = Heard(response, native.got)
  BY <1>4 DEF Heard
<1>7. Mode' = Mode /\ Whole' = Whole
  BY ConstantsStay
<1>8. HttpTypeOK'
  BY <1>4, <1>5 DEF HttpInv, HttpTypeOK
<1>9. NativeRight'
  BY DEF HttpInv, NativeRight
<1>10. ResponseRight'
  BY <1>1, <1>4, <1>6, <1>7 DEF HttpInv, ResponseRight
<1>11. TextRight'
  BY <1>2, <1>3, <1>4, <1>5, <1>6 DEF HttpInv, TextRight
<1>12. ASSUME NEW c \in Call, xhr'.calls = Append(xhr.calls, c), c.node = request.node,
              c.error # "No connection",
              c.error = "Invalid Response" => Parsed(xhr.text) = "garbage",
              c.error = "none" => Parsed(xhr.text) = "object"
       PROVE  xhr'.calls = <<c>> /\ RightCall(c)'
  <2>1. xhr'.calls = <<c>>
    <3>1. Append(xhr.calls, c) = <<c>>
      BY <1>2
    <3> QED
      BY <1>12, <3>1
  <2>2. c.error = "Invalid Response" => answer.kind = "garbage" \/ answer.size = 0
    <3>1. answer.size \in Nat
      BY <1>1 DEF Answers
    <3>2. answer.size > 0 => Parsed(xhr.text) = answer.kind
      BY <1>3 DEF Parsed
    <3>3. c.error = "Invalid Response" => Parsed(xhr.text) = "garbage"
      BY <1>12
    <3>4. answer.size = 0 \/ answer.size > 0
      BY <3>1
    <3> QED
      BY <3>2, <3>3, <3>4
  <2>3. c.error = "none" => answer.kind = "object"
    BY <1>12 DEF Parsed
  <2>4. RightCall(c)'
    BY <1>2, <1>4, <1>5, <1>7, <1>12, <2>2, <2>3 DEF RightCall
  <2> QED
    BY <2>1, <2>4
<1>13. xhr'.calls = <<>> \/ \E c \in Call : xhr'.calls = <<c>> /\ RightCall(c)'
  BY <1>2, <1>5, <1>12 DEF MayCall
<1>14. CallsRight'
  BY <1>2, <1>4, <1>5, <1>13 DEF HttpInv, CallsRight
<1> QED
  BY <1>8, <1>9, <1>10, <1>11, <1>14 DEF HttpInv

(* A piece or the end is told to the response, which is made first where it  *)
(* was not heard of before.                                                  *)
LEMMA XHRProgressIs ==
    ASSUME HttpInv, native.phase = "loading", Mode # "fetch",
           NEW ready, NEW got \in Nat,
           (ready = LOADING /\ got = native.got + 1) \/ (ready = DONE /\ got = native.got),
           XHRProgress(ready, got)
    PROVE  /\ request' \in Requests /\ request'.connected /\ request'.phase = "sent"
           /\ request'.node = request.node
           /\ response' \in Responses /\ response'.mode # "fetch" /\ ~response'.endEmitted
           /\ response'.pos <= got /\ (response'.reader => response'.mode = "ms-stream")
           /\ response'.ended => ready = DONE /\ Heard(response', got) = got
           /\ response'.listening <=> answer.status \notin Redirects
           /\ xhr' \in XHRs /\ xhr'.calls = <<>> /\ ~xhr'.errorFlag
           /\ IF response'.listening THEN Stretch(xhr'.text, response'.queue, Heard(response', got))
              ELSE xhr'.text = <<>>
<1>1. /\ request.phase = "sent" /\ ~xhr.errorFlag
      /\ ~response.ended /\ ~response.endEmitted /\ xhr.calls = <<>>
      /\ native \in Natives /\ response \in Responses /\ answer \in Answers
      /\ ~request.connected => xhr.text = <<>> /\ native.got = 0
  BY WhileLoading
<1>2. /\ native.got \in Nat /\ request \in Requests /\ xhr \in XHRs
      /\ response.mode # "fetch" /\ response.pos <= native.got
      /\ response.reader => response.mode = "ms-stream"
      /\ response.listening <=> request.connected /\ answer.status \notin Redirects
      /\ IF response.listening
         THEN Stretch(xhr.text, response.queue, Heard(response, native.got))
         ELSE xhr.text = <<>>
  BY <1>1 DEF HttpInv, HttpTypeOK, ResponseRight, TextRight, Natives
<1>3. ASSUME NEW r \in Responses, r.mode # "fetch", r.pos <= native.got, ~r.ended, ~r.endEmitted,
             r.reader => r.mode = "ms-stream",
             response' = ResponseProgress(r, ready, got),
             NEW text, r.listening => Stretch(text, r.queue, Heard(r, native.got)),
             r.listening <=> answer.status \notin Redirects
      PROVE  /\ response' \in Responses /\ response'.mode # "fetch" /\ ~response'.endEmitted
             /\ response'.pos <= got /\ (response'.reader => response'.mode = "ms-stream")
             /\ response'.ended => ready = DONE /\ Heard(response', got) = got
             /\ response'.listening <=> answer.status \notin Redirects
             /\ response'.listening => Stretch(text, response'.queue, Heard(response', got))
  <2>1. PICK y : y = ResponseProgress(r, ready, got)
    OBVIOUS
  <2>2. PICK before \in Nat : before = native.got
    BY <1>2
  <2>3. (ready = LOADING /\ got = before + 1) \/ (ready = DONE /\ got = before)
    BY <2>2
  <2>4. /\ y \in Responses /\ y.listening = r.listening /\ y.endEmitted = r.endEmitted
        /\ y.ended => r.ended \/ (ready = DONE /\ Heard(y, got) = got)
        /\ y.mode # "fetch" /\ y.pos <= got /\ (y.reader => r.reader \/ y.mode = "ms-stream")
        /\ y.mode = "ms-stream" <=> r.mode = "ms-stream"
        /\ \A t : Stretch(t, r.queue, Heard(r, before)) => Stretch(t, y.queue, Heard(y, got))
    <3>1. r.pos <= before
      BY <1>3, <2>2
    <3> QED
      BY <1>3, <2>1, <2>3, <3>1, ResponseProgressIs
  <2> QED
    BY <1>3, <2>1, <2>2, <2>4
<1>4. CASE request.connected
  <2>1. /\ response' = ResponseProgress(response, ready, got) /\ request' = request /\ xhr' = xhr
    BY <1>4 DEF XHRProgress
  <2>2. /\ response' \in Responses /\ response'.mode # "fetch" /\ ~response'.endEmitted
        /\ response'.pos <= got /\ (response'.reader => response'.mode = "ms-stream")
        /\ response'.ended => ready = DONE /\ Heard(response', got) = got
        /\ response'.listening <=> answer.status \notin Redirects
        /\ response'.listening => Stretch(xhr.text, response'.queue, Heard(response', got))
    BY <1>1, <1>2, <1>3, <1>4, <2>1
  <2> QED
    BY <1>1, <1>2, <1>4, <2>1, <2>2
<1>5. CASE ~request.connected
  <2>1. /\ Connect
        /\ response' = IF answer.status \in Redirects THEN IncomingMessage
                       ELSE ResponseProgress(Listening(IncomingMessage), ready, got)
    BY <1>5 DEF XHRProgress
  <2>2. /\ request' \in Requests /\ request'.connected
        /\ request'.phase = "sent" /\ request'.node = request.node
        /\ xhr' \in XHRs /\ xhr'.calls = <<>> /\ xhr'.text = <<>> /\ ~xhr'.errorFlag
    BY <1>1, <1>5, <2>1, ConnectIs
  <2>3. CASE answer.status \in Redirects
    <3>1. PICK r : r = IncomingMessage
      OBVIOUS
    <3>2. r \in Responses /\ r.mode = Mode /\ r.pos = 0 /\ ~r.ended /\ ~r.endEmitted /\ ~r.reader
      BY <3>1, IncomingMessageIs
    <3>3. r.listening = FALSE
      BY <3>1 DEF IncomingMessage
    <3>4. response' = r
      BY <2>1, <2>3, <3>1
    <3> QED
      BY <2>2, <2>3, <3>2, <3>3, <3>4
  <2>4. CASE answer.status \notin Redirects
    <3>1. PICK r : r = Listening(IncomingMessage)
      OBVIOUS
    <3>2. /\ r \in Responses /\ r.mode = Mode /\ r.queue = <<>> /\ r.pos = 0
          /\ ~r.ended /\ ~r.endEmitted /\ ~r.reader /\ r.listening
      BY <2>4, <3>1, IncomingMessageIs
    <3>3. native.got = 0 /\ Heard(r, native.got) = 0
      BY <1>1, <1>5, <3>2 DEF Heard
    <3>4. response' = ResponseProgress(r, ready, got)
      BY <2>1, <2>4, <3>1
    <3>5. Stretch(<<>>, r.queue, Heard(r, native.got))
      BY <3>2, <3>3, NothingYet
    <3>6. /\ response' \in Responses /\ response'.mode # "fetch" /\ ~response'.endEmitted
          /\ response'.pos <= got /\ (response'.reader => response'.mode = "ms-stream")
          /\ response'.ended => ready = DONE /\ Heard(response', got) = got
          /\ response'.listening <=> answer.status \notin Redirects
          /\ response'.listening => Stretch(<<>>, response'.queue, Heard(response', got))
      BY <1>3, <2>4, <3>2, <3>3, <3>4, <3>5
    <3> QED
      BY <2>2, <2>4, <3>6
  <2> QED
    BY <2>3, <2>4
<1> QED
  BY <1>4, <1>5

LEMMA PieceArrivesKeeps == ASSUME HttpInv, PieceArrives PROVE HttpInv'
<1>1. /\ native.phase = "loading" /\ native.got < answer.size /\ provider' = provider
      /\ capability' = capability /\ answer' = answer
      /\ native' = [native EXCEPT !.got = @ + 1]
  BY DEF PieceArrives
<1>2. /\ request.phase = "sent" /\ ~xhr.errorFlag
      /\ ~response.ended /\ ~response.endEmitted /\ xhr.calls = <<>>
      /\ native \in Natives /\ response \in Responses /\ answer \in Answers
  BY <1>1, WhileLoading
<1>3. PICK got \in Nat : got = native.got + 1
  BY <1>2 DEF Natives
<1>4. native' \in Natives /\ native'.phase = "loading" /\ native'.got = got
  BY <1>1, <1>2, <1>3 DEF Natives
<1>5. got <= answer.size /\ got > 0
  BY <1>1, <1>2, <1>3 DEF Natives, Answers
<1>6. Mode' = Mode
  BY <1>1, ConstantsStay
<1>7. CASE Mode = "fetch"
  <2>1. PICK y : y = PushUpTo(response, got)
    OBVIOUS
  <2>2. response' = y /\ request' = request /\ xhr' = xhr
    BY <1>4, <1>7, <2>1 DEF PieceArrives
  <2>3. /\ request.connected /\ response.pos = native.got /\ response.mode = "fetch"
        /\ response.pos <= got /\ ~response.reader
    BY <1>1, <1>2, <1>3, <1>7 DEF HttpInv, ResponseRight, Natives
  <2>4. /\ y \in Responses /\ y.mode = response.mode /\ y.ended = response.ended
        /\ y.listening = response.listening /\ y.reader = response.reader
        /\ y.endEmitted = response.endEmitted /\ y.pos = got
        /\ \A t : Stretch(t, response.queue, response.pos) => Stretch(t, y.queue, got)
    <3>1. response.queue \in Seq(Nat)
      BY <1>2 DEF Responses
    <3> QED
      BY <1>2, <2>1, <2>3, <3>1, PushUpToIs
  <2>5. Heard(response, native.got) = response.pos /\ Heard(y, got) = got
    BY <2>3, <2>4 DEF Heard, Moz
  <2>6. HttpTypeOK'
    BY <1>1, <1>4, <2>2, <2>4 DEF HttpInv, HttpTypeOK
  <2>7. NativeRight'
    BY <1>1, <1>2, <1>4, <1>5, <2>2, <2>3 DEF NativeRight
  <2>8. ResponseRight'
    BY <1>1, <1>2, <1>4, <1>6, <1>7, <2>2, <2>3, <2>4 DEF HttpInv, ResponseRight
  <2>9. TextRight'
    BY <1>2, <1>4, <2>2, <2>4, <2>5 DEF HttpInv, TextRight
  <2>10. CallsRight'
    BY <1>2, <2>2 DEF HttpInv, CallsRight
  <2> QED
    BY <2>6, <2>7, <2>8, <2>9, <2>10 DEF HttpInv
<1>8. CASE Mode # "fetch"
  <2>1. XHRProgress(LOADING, got)
    BY <1>4, <1>8 DEF PieceArrives
  <2>2. /\ request' \in Requests /\ request'.connected /\ request'.phase = "sent"
        /\ request'.node = request.node
        /\ response' \in Responses /\ response'.mode # "fetch" /\ ~response'.endEmitted
        /\ response'.pos <= got /\ (response'.reader => response'.mode = "ms-stream")
        /\ response'.ended => LOADING = DONE
        /\ response'.listening <=> answer.status \notin Redirects
        /\ xhr' \in XHRs /\ xhr'.calls = <<>> /\ ~xhr'.errorFlag
        /\ IF response'.listening THEN Stretch(xhr'.text, response'.queue, Heard(response', got))
           ELSE xhr'.text = <<>>
    BY <1>1, <1>3, <1>8, <2>1, XHRProgressIs
  <2>3. ~response'.ended
    BY <2>2 DEF LOADING, DONE
  <2>4. HttpTypeOK'
    BY <1>1, <1>4, <2>2 DEF HttpInv, HttpTypeOK
  <2>5. NativeRight'
    BY <1>1, <1>2, <1>4, <1>5, <2>2 DEF NativeRight
  <2>6. ResponseRight'
    BY <1>1, <1>4, <1>6, <1>8, <2>2, <2>3 DEF ResponseRight
  <2>7. TextRight'
    BY <1>4, <2>2 DEF TextRight
  <2>8. CallsRight'
    BY <1>2, <2>2 DEF HttpInv, CallsRight
  <2> QED
    BY <2>4, <2>5, <2>6, <2>7, <2>8 DEF HttpInv
<1> QED
  BY <1>7, <1>8

LEMMA BodyEndsKeeps == ASSUME HttpInv, BodyEnds PROVE HttpInv'
<1>1. /\ native.phase = "loading" /\ native.got = answer.size /\ provider' = provider
      /\ capability' = capability /\ answer' = answer
      /\ native' = [native EXCEPT !.phase = "done"]
  BY DEF BodyEnds
<1>2. /\ request.phase = "sent" /\ ~xhr.errorFlag
      /\ ~response.ended /\ ~response.endEmitted /\ xhr.calls = <<>>
      /\ native \in Natives /\ response \in Responses /\ answer \in Answers
  BY <1>1, WhileLoading
<1>3. PICK got \in Nat : got = native.got
  BY <1>2 DEF Natives
<1>4. native' \in Natives /\ native'.phase = "done" /\ native'.got = got /\ got = answer.size
  BY <1>1, <1>2, <1>3 DEF Natives
<1>5. Mode' = Mode
  BY <1>1, ConstantsStay
<1>6. CASE Mode = "fetch"
  <2>1. response' = [response EXCEPT !.ended = TRUE] /\ request' = request /\ xhr' = xhr
    BY <1>6 DEF BodyEnds
  <2>2. request.connected /\ response.pos = got /\ response.mode = "fetch" /\ ~response.reader
    BY <1>1, <1>2, <1>3, <1>6 DEF HttpInv, ResponseRight
  <2>3. /\ response' \in Responses /\ response'.mode = response.mode /\ response'.ended
        /\ response'.listening = response.listening /\ response'.reader = response.reader
        /\ response'.endEmitted = response.endEmitted /\ response'.pos = response.pos
        /\ response'.queue = response.queue
    BY <1>2, <2>1 DEF Responses
  <2>4. Heard(response, got) = got /\ Heard(response', got) = got
    BY <2>2, <2>3 DEF Heard, Moz
  <2>5. HttpTypeOK'
    BY <1>1, <1>4, <2>1, <2>3 DEF HttpInv, HttpTypeOK
  <2>6. NativeRight'
    BY <1>1, <1>2, <1>3, <1>4, <2>1, <2>2 DEF NativeRight
  <2>7. ResponseRight'
    BY <1>1, <1>2, <1>3, <1>4, <1>5, <1>6, <2>1, <2>2, <2>3, <2>4 DEF HttpInv, ResponseRight
  <2>8. TextRight'
    BY <1>2, <1>3, <1>4, <2>1, <2>3, <2>4 DEF HttpInv, TextRight
  <2>9. CallsRight'
    BY <1>2, <2>1, <2>3 DEF HttpInv, CallsRight
  <2> QED
    BY <2>5, <2>6, <2>7, <2>8, <2>9 DEF HttpInv
<1>7. CASE Mode # "fetch"
  <2>1. XHRProgress(DONE, got)
    BY <1>3, <1>7 DEF BodyEnds
  <2>2. /\ request' \in Requests /\ request'.connected /\ request'.phase = "sent"
        /\ request'.node = request.node
        /\ response' \in Responses /\ response'.mode # "fetch" /\ ~response'.endEmitted
        /\ response'.pos <= got /\ (response'.reader => response'.mode = "ms-stream")
        /\ response'.ended => Heard(response', got) = got
        /\ response'.listening <=> answer.status \notin Redirects
        /\ xhr' \in XHRs /\ xhr'.calls = <<>> /\ ~xhr'.errorFlag
        /\ IF response'.listening THEN Stretch(xhr'.text, response'.queue, Heard(response', got))
           ELSE xhr'.text = <<>>
    BY <1>1, <1>3, <1>7, <2>1, XHRProgressIs
  <2>3. HttpTypeOK'
    BY <1>1, <1>4, <2>2 DEF HttpInv, HttpTypeOK
  <2>4. NativeRight'
    BY <1>1, <1>2, <1>3, <1>4, <2>2 DEF NativeRight
  <2>5. ResponseRight'
    BY <1>1, <1>4, <1>5, <1>7, <2>2 DEF ResponseRight
  <2>6. TextRight'
    BY <1>4, <2>2 DEF TextRight
  <2>7. CallsRight'
    BY <1>2, <2>2 DEF HttpInv, CallsRight
  <2> QED
    BY <2>3, <2>4, <2>5, <2>6, <2>7 DEF HttpInv
<1> QED
  BY <1>6, <1>7

-----------------------------------------------------------------------------
LEMMA StutterKeeps == ASSUME HttpInv, UNCHANGED httpVars PROVE HttpInv'
<1>1. /\ provider' = provider /\ capability' = capability /\ answer' = answer
      /\ request' = request /\ native' = native /\ response' = response /\ xhr' = xhr
  BY DEF httpVars
<1>2. Mode' = Mode /\ IncomingMessage' = IncomingMessage
  BY <1>1, ConstantsStay
<1>3. HttpTypeOK' /\ NativeRight' /\ TextRight'
  BY <1>1 DEF HttpInv, HttpTypeOK, NativeRight, TextRight
<1>4. ResponseRight'
  BY <1>1, <1>2 DEF HttpInv, ResponseRight
<1>5. CallsRight'
  BY <1>1, CallsKept DEF HttpInv, CallsRight
<1> QED
  BY <1>3, <1>4, <1>5 DEF HttpInv

LEMMA DeliverKeeps == ASSUME HttpInv, Deliver PROVE HttpInv'
BY DeliverPieceKeeps, DeliverEndKeeps DEF Deliver

LEMMA InvStep == HttpInv /\ [HttpNext]_httpVars => HttpInv'
<1> SUFFICES ASSUME HttpInv, [HttpNext]_httpVars PROVE HttpInv'
  OBVIOUS
<1>1. CASE Send
  BY <1>1, SendKeeps
<1>2. CASE ChangeNode
  BY <1>2, ChangeNodeKeeps
<1>3. CASE Finish
  BY <1>3, FinishKeeps
<1>4. CASE EmitError
  BY <1>4, EmitErrorKeeps
<1>5. CASE HeadersArrive
  BY <1>5, HeadersArriveKeeps
<1>6. CASE PieceArrives
  BY <1>6, PieceArrivesKeeps
<1>7. CASE BodyEnds
  BY <1>7, BodyEndsKeeps
<1>8. CASE NetworkBreaks
  BY <1>8, NetworkBreaksKeeps
<1>9. CASE ReaderProgress
  BY <1>9, ReaderProgressKeeps
<1>10. CASE Deliver
  BY <1>10, DeliverKeeps
<1>11. CASE UNCHANGED httpVars
  BY <1>11, StutterKeeps
<1> QED
  BY <1>1, <1>2, <1>3, <1>4, <1>5, <1>6, <1>7, <1>8, <1>9, <1>10, <1>11
     DEF HttpNext, Progress, Network

LEMMA InvSafe == HttpInv => ResultIsWhole
<1> SUFFICES ASSUME HttpInv PROVE ResultIsWhole
  OBVIOUS
<1>1. CASE xhr.calls = <<>>
  BY <1>1 DEF ResultIsWhole
<1>2. ASSUME NEW c \in Call, xhr.calls = <<c>>, RightCall(c)
      PROVE  ResultIsWhole
  <2>1. Len(xhr.calls) = 1 /\ DOMAIN xhr.calls = {1} /\ xhr.calls[1] = c
    BY <1>2
  <2>2. response.endEmitted => native.phase = "done"
    BY DEF HttpInv, ResponseRight
  <2>3. /\ c.node = request.node
        /\ c.error = "none" =>
              answer.kind = "object" /\ native.phase = "done" /\ xhr.text = Whole
        /\ c.error = "Invalid Response" =>
              answer.kind = "garbage" \/ answer.size = 0 \/ xhr.errorFlag
        /\ c.error = "No connection" <=> request.node \in Unsupported
    BY <1>2, <2>2 DEF RightCall
  <2>4. Len(xhr.calls) <= 1
    BY <2>1
  <2>5. ASSUME NEW k \in DOMAIN xhr.calls PROVE xhr.calls[k] = c
    BY <2>1
  <2> QED
    BY <2>3, <2>4, <2>5 DEF ResultIsWhole
<1> QED
  BY <1>1, <1>2 DEF HttpInv, CallsRight

(* makeRequest.send calls back at most once, with an error or with all of    *)
(* what the node that was asked has answered: in every way of reading the    *)
(* body, for a body of any number of pieces, with any number of nodes,       *)
(* whatever breaks and however often the node is changed meanwhile           *)
(* (16583-16661, 18313-18340, 18432).                                        *)
THEOREM CommandGetsTheWhole == HttpSpec => []ResultIsWhole
<1>1. HttpSpec => HttpInit /\ [][HttpNext]_httpVars
  BY PTL DEF HttpSpec
<1> QED
  BY <1>1, InvInit, InvStep, InvSafe, PTL
=============================================================================
