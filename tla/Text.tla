------------------------------- MODULE Text -------------------------------
(* Bytes and text in aidos.js: the conversions of buffer and base64.  A text *)
(* is a sequence of 16-bit code units, a base64 text a sequence of digits    *)
(* 0..63 and Pad64 for its "=".                                              *)
EXTENDS Integers, Sequences, SequencesExt, FiniteSetsExt

CONSTANT MaxChunkLength     \* bytes that fromByteArray encodes at a time (16383)

ASSUME TextAssumption == MaxChunkLength \in Nat \ {0} /\ MaxChunkLength % 3 = 0

Replacement == 65533
IsLead(unit) == unit \in 55296..56319
IsTrail(unit) == unit \in 56320..57343
Byte8(n) == n % 256

-----------------------------------------------------------------------------
(* UTF-8.  Sequences of 1 to 4 bytes: what the first one announces, the      *)
(* least code point it may carry, and the first byte's own bits.             *)
SequenceLength(first) ==
    IF first > 239 THEN 4 ELSE IF first > 223 THEN 3 ELSE IF first > 191 THEN 2 ELSE 1
LeastOf == <<0, 128, 2048, 65536>>
Bits == <<128, 32, 16, 16>>

CodePoint(sequence) ==
    FoldLeft(LAMBDA c, b : c * 64 + (b % 64),
             sequence[1] % Bits[Len(sequence)], Tail(sequence))

IsSequence(s) ==
    LET code == CodePoint(s) IN
    /\ Len(s) = 1 => s[1] < 128
    /\ \A k \in 2..Len(s) : s[k] \in 128..191
    /\ code >= LeastOf[Len(s)] /\ code < 1114112
    /\ ~ (IsLead(code) \/ IsTrail(code))

Units(code) ==
    IF code > 65535
    THEN <<55296 + ((code - 65536) \div 1024), 56320 + (code % 1024)>> ELSE <<code>>

(* What is no sequence gives a replacement, and one byte is passed.          *)
RECURSIVE Utf8Slice(_)
Utf8Slice(bytes) ==
    IF bytes = <<>> THEN <<>>
    ELSE LET n == SequenceLength(bytes[1])
             s == SubSeq(bytes, 1, n)
         IN  IF n <= Len(bytes) /\ IsSequence(s)
             THEN Units(CodePoint(s)) \o Utf8Slice(SubSeq(bytes, n + 1, Len(bytes)))
             ELSE <<Replacement>> \o Utf8Slice(Tail(bytes))

Utf8Sequence(code) ==
    IF code < 128 THEN <<code>>
    ELSE IF code < 2048 THEN <<code \div 64 + 192, (code % 64) + 128>>
    ELSE IF code < 65536 THEN <<code \div 4096 + 224, ((code \div 64) % 64) + 128, (code % 64) + 128>>
    ELSE <<code \div 262144 + 240, ((code \div 4096) % 64) + 128,
           ((code \div 64) % 64) + 128, (code % 64) + 128>>

(* One unit of the text; `lead` is a lead surrogate that waits for its       *)
(* other half, 0 if none does.                                               *)
EncodeUnit(text, acc, i) ==
    LET unit == text[i]
        waits == acc.lead # 0
        lost == Utf8Sequence(Replacement)
        pair == (acc.lead - 55296) * 1024 + unit - 56320 + 65536
    IN  IF ~ waits /\ (IsTrail(unit) \/ (IsLead(unit) /\ i = Len(text)))
        THEN [acc EXCEPT !.bytes = @ \o lost]
        ELSE IF IsLead(unit)
        THEN [lead |-> unit, bytes |-> acc.bytes \o (IF waits THEN lost ELSE <<>>)]
        ELSE [lead |-> 0,
              bytes |-> acc.bytes \o
                  (IF IsTrail(unit) THEN Utf8Sequence(pair)
                   ELSE (IF waits THEN lost ELSE <<>>) \o Utf8Sequence(unit))]

Utf8ToBytes(text) ==
    FoldLeftDomain(LAMBDA acc, i : EncodeUnit(text, acc, i),
                   [lead |-> 0, bytes |-> <<>>], text).bytes

-----------------------------------------------------------------------------
(* UTF-16.  An odd byte at the end has no partner: its unit is not a number, *)
(* and fromCharCode makes 0 of it.                                           *)
Utf16leSlice(bytes) ==
    [k \in 1..((Len(bytes) + 1) \div 2) |->
        IF 2 * k > Len(bytes) THEN 0 ELSE bytes[2 * k - 1] + 256 * bytes[2 * k]]

Utf16leToBytes(text) ==
    FlattenSeq([k \in DOMAIN text |-> <<text[k] % 256, text[k] \div 256>>])

-----------------------------------------------------------------------------
(* base64.                                                                   *)
Pad64 == 64

TripletToBase64(n) == <<n \div 262144, (n \div 4096) % 64, (n \div 64) % 64, n % 64>>

EncodeChunk(bytes, start, end) ==
    FlattenSeq([k \in 1..((end - start + 2) \div 3) |->
        LET at == start + 3 * (k - 1)
        IN  TripletToBase64(bytes[at + 1] * 65536 + bytes[at + 2] * 256 + bytes[at + 3])])

FromByteArray(bytes) ==
    LET extra == Len(bytes) % 3
        whole == Len(bytes) - extra
        chunk(p) == (p - 1) * MaxChunkLength
        last == bytes[Len(bytes)]
        two == bytes[Len(bytes) - 1] * 256 + last
    IN  FlattenSeq([p \in 1..((whole + MaxChunkLength - 1) \div MaxChunkLength) |->
            EncodeChunk(bytes, chunk(p), Min({chunk(p + 1), whole}))])
        \o (CASE extra = 0 -> <<>>
              [] extra = 1 -> <<last \div 4, (last * 16) % 64, Pad64, Pad64>>
              [] extra = 2 -> <<two \div 1024, (two \div 16) % 64, (two * 4) % 64, Pad64>>)

PlaceHoldersCount(b64) ==
    IF Len(b64) > 1 /\ b64[Len(b64) - 1] = Pad64 THEN 2
    ELSE IF b64 # <<>> /\ Last(b64) = Pad64 THEN 1 ELSE 0

(* The text's length is a multiple of four, as base64clean makes it.         *)
ToByteArray(b64) ==
    LET holders == PlaceHoldersCount(b64)
        quads == (IF holders > 0 THEN Len(b64) - 4 ELSE Len(b64)) \div 4
        digit(q, k) == b64[4 * q + k]
        number(q) == ((digit(q, 1) * 64 + digit(q, 2)) * 64 + digit(q, 3)) * 64 + digit(q, 4)
    IN  FlattenSeq([q \in 1..quads |->
            LET n == number(q - 1) IN <<Byte8(n \div 65536), Byte8(n \div 256), Byte8(n)>>])
        \o (CASE holders = 0 -> <<>>
              [] holders = 2 -> <<Byte8(digit(quads, 1) * 4 + digit(quads, 2) \div 16)>>
              [] holders = 1 ->
                 LET n == digit(quads, 1) * 1024 + digit(quads, 2) * 16 + digit(quads, 3) \div 4
                 IN  <<Byte8(n \div 256), Byte8(n)>>)

(* A text of one digit is none; the others are padded.                       *)
Base64Clean(digits) ==
    IF Len(digits) < 2 THEN <<>>
    ELSE digits \o [k \in 1..((4 - (Len(digits) % 4)) % 4) |-> Pad64]

-----------------------------------------------------------------------------
ToText(encoding, bytes) ==
    CASE encoding = "utf8" -> Utf8Slice(bytes)
      [] encoding = "utf16le" -> Utf16leSlice(bytes)
      [] encoding = "base64" -> FromByteArray(bytes)

(* buffer.copy: what does not fit into the target is not copied.             *)
CopyTo(target, at, bytes) ==
    [k \in DOMAIN target |-> IF k - at \in DOMAIN bytes THEN bytes[k - at] ELSE target[k]]
=============================================================================
