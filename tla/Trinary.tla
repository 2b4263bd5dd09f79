------------------------------ MODULE Trinary ------------------------------
(* The trinary codec of aidos.js (crypto/converter, utils/asciiToTrytes):    *)
(* integers, trits and trytes.  A letter of the alphabet 9ABC..Z is written  *)
(* as the value of its three trits, -13..13, so the table trytesTrits is     *)
(* TritsOfLetter and a string of trytes is a sequence of such values.        *)
EXTENDS Integers, Sequences, SequencesExt

Trit == -1..1
Letter == -13..13

Zeros(n) == [k \in 1..n |-> 0]

(* The loops `while (trits.length < n) trits[trits.length] = 0`: a longer    *)
(* list is left as it is.                                                    *)
Pad(t, n) == t \o Zeros(n - Len(t))

(* The balanced digits of a natural number, least significant first.         *)
Digits[n \in Nat] ==
    IF n = 0 THEN <<>>
    ELSE IF n % 3 = 2 THEN <<-1>> \o Digits[n \div 3 + 1]
                      ELSE <<n % 3>> \o Digits[n \div 3]

TritsOfInt(n) ==
    IF n >= 0 THEN Digits[n] ELSE [k \in DOMAIN Digits[-n] |-> -Digits[-n][k]]

Value(trits) ==
    LET after[k \in 0..Len(trits)] ==
            IF k = 0 THEN 0 ELSE after[k - 1] * 3 + trits[Len(trits) - k + 1]
    IN  after[Len(trits)]

TritsOfLetter(x) == Pad(TritsOfInt(x), 3)

TritsOfTrytes(trytes) == FlattenSeq([k \in DOMAIN trytes |-> TritsOfLetter(trytes[k])])

(* Trits that are left over at the end match no row of the table, and give   *)
(* no letter.                                                                *)
TrytesOf(trits) ==
    [k \in 1..(Len(trits) \div 3) |-> Value(SubSeq(trits, 3 * k - 2, 3 * k))]

(* A number in a field of n trits, as the callers of trits() pad it.         *)
Field(n, width) == TrytesOf(Pad(TritsOfInt(n), width))

(* The place of a letter in the alphabet, and the letter at a place.         *)
PlaceOf(letter) == letter % 27
LetterAt(place) == IF place <= 13 THEN place ELSE place - 27

(* A slip: without the test, a larger code gives a place past the alphabet.  *)
AnyCode(code) == code

(* Text: a sequence of character codes.  A character that is no byte becomes *)
(* a space.                                                                  *)
Byte(code) == IF code > 255 THEN 32 ELSE code

AsciiToTrytes(text) ==
    FlattenSeq([k \in DOMAIN text |->
        <<LetterAt(Byte(text[k]) % 27), LetterAt(Byte(text[k]) \div 27)>>])

(* A last letter without a partner is paired with the second character of    *)
(* "undefined", which is no letter (place -1); a code wraps to 16 bits.      *)
TrytesToAscii(trytes) ==
    LET Second(k) == IF k < Len(trytes) THEN PlaceOf(trytes[k + 1]) ELSE -1
    IN  [k \in 1..((Len(trytes) + 1) \div 2) |->
            (PlaceOf(trytes[2 * k - 1]) + 27 * Second(2 * k - 1)) % 65536]
=============================================================================
