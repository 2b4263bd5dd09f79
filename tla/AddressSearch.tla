--------------------------- MODULE AddressSearch ---------------------------
(* The search of getNewAddress (api/api) for an address nobody has used: the *)
(* node is asked about one index after the other.  It strides up until an    *)
(* index is unused, then halves the distance to the last used one.           *)
EXTENDS Integers, Sequences, SequencesExt

CONSTANT Stride     \* how far the search strides (30)

ASSUME SearchAssumption == Stride \in Nat \ {0}

(* The variables of the search; `end` is the index asked about.              *)
SearchFrom(index) ==
    [index |-> index, plus |-> Stride, end |-> index, min |-> index, max |-> -1,
     found |-> FALSE]

(* The body of the loop: the next index to ask about.                        *)
NextProbe(s) == [s EXCEPT !.end = @ + s.plus]

(* The test of the loop, after the answer.                                   *)
Unused(s) ==
    LET low == IF s.found THEN s.min ELSE s.end - s.plus
    IN  [s EXCEPT !.found = TRUE, !.min = low, !.max = s.end,
                  !.plus = IF s.end = 1 THEN -1 ELSE -((s.end - low) \div 2)]

(* A slip: the last step up is forgotten.                                    *)
UsedInPlace(s) ==
    [s EXCEPT !.min = IF s.found THEN s.end ELSE @,
              !.plus = IF s.found THEN (s.max - s.end) \div 2 ELSE s.plus]

Used(s) ==
    LET plus == IF s.found THEN (s.max - s.end) \div 2 ELSE s.plus
    IN  [s EXCEPT !.min = IF s.found THEN s.end ELSE @, !.plus = plus,
                  !.end = IF plus = 0 THEN @ + 1 ELSE @]

AfterAnswer(s, used) == IF used THEN Used(s) ELSE Unused(s)
Goes(s) == s.plus # 0

(* What is given to the caller.                                              *)
Found(s, returnAll) ==
    IF returnAll THEN [k \in 1..(s.end - s.index + 1) |-> s.index + k - 1] ELSE s.end

(* The addresses of `total` indexes, without asking.                         *)
Total(index, total) == [k \in 1..total |-> index + k - 1]
=============================================================================
