------------------------------ MODULE TxObject ------------------------------
(* A transaction as text: transactionTrytes and transactionObject of         *)
(* utils/utils.  Every opaque field (signature, address, tag, hashes) is one *)
(* letter here, whatever its length in the code; the numeric fields keep     *)
(* their widths as constants.                                                *)
EXTENDS Trinary

CONSTANTS WideTrits,    \* trits a value is written in (81)
          ValueTrits,   \* trits of them that are read back (33)
          FieldTrits    \* trits of a timestamp or an index (27)

ASSUME TxObjectAssumption ==
    /\ {WideTrits, ValueTrits, FieldTrits} \subseteq {3 * n : n \in 1..27}
    /\ ValueTrits <= WideTrits

TransactionTrytes(tx) ==
    <<tx.signatureMessageFragment, tx.address>>
    \o Field(tx.value, WideTrits) \o <<tx.tag>>
    \o Field(tx.timestamp, FieldTrits) \o Field(tx.currentIndex, FieldTrits)
    \o Field(tx.lastIndex, FieldTrits)
    \o <<tx.bundle, tx.trunkTransaction, tx.branchTransaction, tx.nonce>>

(* Where the fields begin.                                                   *)
AfterValue == 3 + WideTrits \div 3
AfterField(n) == AfterValue + 1 + n * (FieldTrits \div 3)

Read(trytes, from, width) ==
    Value(TritsOfTrytes(SubSeq(trytes, from, from + width \div 3 - 1)))

(* The letters of the value that are not read must be 9s (0 here).           *)
WellFormed(trytes) ==
    \A k \in (3 + ValueTrits \div 3)..(AfterValue - 1) : trytes[k] = 0

NoObject == [value |-> "null"]

TransactionObject(trytes) ==
    IF ~WellFormed(trytes) THEN NoObject ELSE
    [ signatureMessageFragment |-> trytes[1],
      address |-> trytes[2],
      value |-> Read(trytes, 3, ValueTrits),
      tag |-> trytes[AfterValue],
      timestamp |-> Read(trytes, AfterField(0), FieldTrits),
      currentIndex |-> Read(trytes, AfterField(1), FieldTrits),
      lastIndex |-> Read(trytes, AfterField(2), FieldTrits),
      bundle |-> trytes[AfterField(3)],
      trunkTransaction |-> trytes[AfterField(3) + 1],
      branchTransaction |-> trytes[AfterField(3) + 2],
      nonce |-> trytes[AfterField(3) + 3] ]
=============================================================================
