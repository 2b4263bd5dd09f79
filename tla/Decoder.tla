------------------------------ MODULE Decoder ------------------------------
(* string_decoder of aidos.js: a stream's bytes come in chunks, the stream   *)
(* gives them on as text, and the decoder between them keeps the bytes of a  *)
(* character that a chunk ends in until the next chunk.                      *)
EXTENDS Text

VARIABLES source,   \* what the stream carries: encoding, chars, and their bytes
          place,    \* how many of the bytes have been written
          decoder,  \* the StringDecoder
          output,   \* what the calls of write have returned, together
          garbled   \* history: whether a chunk has ended as LeavesLead says

decoderVars == <<source, place, decoder, output, garbled>>

(* The decoder: `charReceived` bytes of a character of `charLength` (0 when  *)
(* none is incomplete) are in charBuffer.                                    *)
SurrogateSize(encoding) == IF encoding = "utf16le" THEN 2 ELSE 3
StringDecoder == [charLength |-> 0, charReceived |-> 0, charBuffer |-> [k \in 1..6 |-> 0]]

EndsInLead(text) == text # <<>> /\ IsLead(Last(text))

(* detectIncompleteChar: the first of the last three bytes that announces    *)
(* more bytes than there are; for the other encodings, what is over.         *)
Announced(byte) ==
    IF byte \div 32 = 6 THEN 2 ELSE IF byte \div 16 = 14 THEN 3
    ELSE IF byte \div 8 = 30 THEN 4 ELSE 0

DetectUtf8(d, bytes) ==
    LET n == Len(bytes)
        cut == {k \in 1..Min({3, n}) : Announced(bytes[n - k + 1]) > k}
    IN  IF cut = {} THEN [d EXCEPT !.charReceived = 0]
        ELSE [d EXCEPT !.charReceived = Max(cut),
                       !.charLength = Announced(bytes[n - Max(cut) + 1])]

DetectMultiple(d, bytes, size) ==
    LET over == Len(bytes) % size
    IN  [d EXCEPT !.charReceived = over, !.charLength = IF over = 0 THEN 0 ELSE size]

DetectIncompleteChar(encoding, d, bytes) ==
    CASE encoding = "utf8" -> DetectUtf8(d, bytes)
      [] encoding = "utf16le" -> DetectMultiple(d, bytes, 2)
      [] encoding = "base64" -> DetectMultiple(d, bytes, 3)

(* The loop of write: bytes are added to the incomplete character until it   *)
(* is whole; a lead surrogate is incomplete too.                             *)
RECURSIVE Completed(_, _, _)
Completed(encoding, d, bytes) ==
    LET available == Min({Len(bytes), d.charLength - d.charReceived})
        filled == [d EXCEPT !.charBuffer = CopyTo(@, d.charReceived, SubSeq(bytes, 1, available)),
                            !.charReceived = @ + available]
        rest == SubSeq(bytes, available + 1, Len(bytes))
        char == ToText(encoding, SubSeq(filled.charBuffer, 1, d.charLength))
    IN  IF d.charLength = 0
        THEN [d |-> d, text |-> <<>>, rest |-> bytes, returns |-> FALSE]
        ELSE IF filled.charReceived < d.charLength
        THEN [d |-> filled, text |-> <<>>, rest |-> <<>>, returns |-> TRUE]
        ELSE IF EndsInLead(char)
        THEN Completed(encoding, [filled EXCEPT !.charLength = @ + SurrogateSize(encoding)], rest)
        ELSE [d |-> [filled EXCEPT !.charLength = 0, !.charReceived = 0],
              text |-> char, rest |-> rest, returns |-> rest = <<>>]

(* A lead surrogate at the end is kept: room is made for it in charBuffer,   *)
(* and the first bytes of what was written are copied there, which are the   *)
(* surrogate's when nothing is before it.                                    *)
KeepSurrogate(d, bytes, size) ==
    [charLength |-> d.charLength + size, charReceived |-> d.charReceived + size,
     charBuffer |-> CopyTo(CopyTo(d.charBuffer, size, SubSeq(d.charBuffer, 1, size)),
                           0, SubSeq(bytes, 1, size))]

Write(encoding, d, bytes) ==
    LET c == Completed(encoding, d, bytes)
        found == DetectIncompleteChar(encoding, c.d, c.rest)
        kept == IF found.charLength = 0 THEN 0 ELSE found.charReceived
        end == Len(c.rest) - kept
        split == [found EXCEPT !.charBuffer =
                     CopyTo(@, 0, SubSeq(c.rest, end + 1, Len(c.rest)))]
        text == c.text \o ToText(encoding, SubSeq(c.rest, 1, end))
    IN  IF c.returns THEN [d |-> c.d, text |-> c.text]
        ELSE IF EndsInLead(text)
        THEN [d |-> KeepSurrogate(split, c.rest, SurrogateSize(encoding)), text |-> Front(text)]
        ELSE [d |-> split, text |-> text]

(* end(): what is incomplete is converted as it is.                          *)
EndText(encoding, d) ==
    IF d.charReceived = 0 THEN <<>>
    ELSE ToText(encoding, SubSeq(d.charBuffer, 1, d.charReceived))

-----------------------------------------------------------------------------
(* In UTF-16, a chunk that has a whole character and, after it, a lead       *)
(* surrogate without the other half: KeepSurrogate keeps other bytes.        *)
LeavesLead(chars, from, to) ==
    LET start(n) == 2 * Len(FlattenSeq(SubSeq(chars, 1, n - 1))) IN
    \E n \in DOMAIN chars : /\ Len(chars[n]) = 2
                            /\ to - start(n) \in {2, 3}
                            /\ \E m \in 1..(n - 1) : start(m) >= from

DecoderIdle ==
    /\ source = <<>> /\ place = 0 /\ decoder = StringDecoder /\ output = <<>>
    /\ garbled = FALSE

DecoderInit(sources) ==
    /\ source \in sources /\ place = 0 /\ decoder = StringDecoder /\ output = <<>>
    /\ garbled = FALSE

(* A chunk of any size.                                                      *)
DecodeChunk ==
    \E to \in (place + 1)..Len(source.bytes) :
        LET w == Write(source.encoding, decoder, SubSeq(source.bytes, place + 1, to)) IN
        /\ place' = to
        /\ decoder' = w.d
        /\ output' = output \o w.text
        /\ garbled' = (garbled \/ (source.encoding = "utf16le"
                                      /\ LeavesLead(source.chars, place, to)))
        /\ UNCHANGED source
=============================================================================
