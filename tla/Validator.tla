----------------------------- MODULE Validator -----------------------------
(* What utils/inputValidator accepts.  Of a string only its length, whether  *)
(* all its characters are letters of the tryte alphabet, and whether its     *)
(* last 243 are all 9 are told apart; of a number whether it is written with *)
(* digits only; and an array is a sequence.                                  *)
EXTENDS TxObject

Text(length, trytes, nines) ==
    [type |-> "string", length |-> length, trytes |-> trytes, nines |-> nines]
Number(n) == [type |-> "number", length |-> 0, digits |-> n >= 0]

IsString(x) == x.type = "string"
IsInt(x) == x.type = "number"

IsTrytes(x, lengths) == IsString(x) /\ x.trytes /\ x.length \in lengths
AnyLength == Nat

IsAddress(x) == IF x.length = 90 THEN IsTrytes(x, {90}) ELSE IsTrytes(x, {81})
IsHash(x) == IsTrytes(x, {81})
IsValue(x) == IsInt(x) /\ x.digits

IsTransfersArray(transfers) ==
    \A k \in DOMAIN transfers :
        /\ IsAddress(transfers[k].address)
        /\ IsValue(transfers[k].value)
        /\ IsTrytes(transfers[k].message, AnyLength)
        /\ IsTrytes(transfers[k].tag, 0..27)

IsArrayOfHashes(hashes) ==
    \A k \in DOMAIN hashes :
        IF hashes[k].length = 90 THEN IsTrytes(hashes[k], {90}) ELSE IsTrytes(hashes[k], {81})

IsArrayOfTrytes(trytes) == \A k \in DOMAIN trytes : IsTrytes(trytes[k], {2673})

(* A slip: without the test of the last letters.                             *)
IsArrayOfAnyTrytes(trytes) == \A k \in DOMAIN trytes : IsTrytes(trytes[k], {2673})

IsArrayOfAttachedTrytes(trytes) ==
    \A k \in DOMAIN trytes : IsTrytes(trytes[k], {2673}) /\ ~trytes[k].nines

(* The outcome of isInputs.  It reads `address`, which no scope declares,    *)
(* unless it refuses before or there is no input.                            *)
IsInputs(inputs) ==
    IF inputs = <<>> THEN "accepted"
    ELSE IF inputs[1].keyIndex /\ inputs[1].address THEN "throws" ELSE "refused"

(* A transaction of transactionTrytes as the checks see it: the text ends    *)
(* with trunk, branch and nonce, and has its length when every number fits   *)
(* its field.                                                                *)
AsText(trytes) ==
    Text(IF Len(trytes) = AfterField(3) + 3 THEN 2673 ELSE Len(trytes), TRUE,
         \A k \in (Len(trytes) - 2)..Len(trytes) : trytes[k] = 0)
=============================================================================
