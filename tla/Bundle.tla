------------------------------- MODULE Bundle -------------------------------
(* Bundles (crypto/bundle), as prepareTransfers and initiateTransfer fill    *)
(* them and getBundle judges them.  Curl is a function without collisions:   *)
(* the hash of a bundle is the list of what it absorbs.  Tags, nonces and    *)
(* the branch are left out: nothing here tells them apart.                   *)
EXTENDS Integers, Sequences, SequencesExt

CONSTANT FragmentSize   \* trytes of a message that one transaction carries (2187)

ASSUME BundleAssumption == FragmentSize \in Nat \ {0}

(* addEntry: the value is in the first of the entries.                       *)
AddEntry(bundle, length, address, value, timestamp) ==
    bundle \o [k \in 1..length |-> [address |-> address,
                                    value |-> IF k = 1 THEN value ELSE 0,
                                    timestamp |-> timestamp]]

(* A message of n trytes: the entries that are made for it, and the          *)
(* fragments it is cut into.                                                 *)
MessageEntries(n) == IF n > FragmentSize THEN 1 + n \div FragmentSize ELSE 1
MessageFragments(n) ==
    IF n > FragmentSize THEN (n + FragmentSize - 1) \div FragmentSize ELSE 1

(* What an entry carries: nothing, a fragment of a transfer's message, or a  *)
(* half of the signature made with the key of an address.                    *)
Empty == <<"empty", 0, 0>>
Message(transfer, n) == <<"message", transfer, n>>
Signature(key, half) == <<"signature", key, half>>

(* The loop over the transfers: their entries, and signatureFragments.       *)
Outputs(transfers, timestamp) ==
    FoldLeft(LAMBDA b, t : AddEntry(b, MessageEntries(t.message), t.address, t.value, timestamp),
             <<>>, transfers)
SignatureFragments(transfers) ==
    FlattenSeq([t \in DOMAIN transfers |->
        [n \in 1..MessageFragments(transfers[t].message) |-> Message(t, n)]])

TransfersValue(transfers) == FoldLeft(LAMBDA s, t : s + t.value, 0, transfers)

(* finalize: the indexes, and the hash over all the entries.                 *)
Essence(tx) == <<tx.address, tx.value, tx.timestamp, tx.currentIndex, tx.lastIndex>>

Finalize(bundle) ==
    LET indexed == [k \in DOMAIN bundle |->
                       [address |-> bundle[k].address, value |-> bundle[k].value,
                        timestamp |-> bundle[k].timestamp,
                        currentIndex |-> k - 1, lastIndex |-> Len(bundle) - 1]]
        hash == [k \in DOMAIN indexed |-> Essence(indexed[k])]
    IN  [k \in DOMAIN indexed |->
            [address |-> indexed[k].address, value |-> indexed[k].value,
             timestamp |-> indexed[k].timestamp, currentIndex |-> indexed[k].currentIndex,
             lastIndex |-> indexed[k].lastIndex, bundle |-> hash, fragment |-> Empty,
             hash |-> 0, trunk |-> 0]]

(* addTrytes: the fragments, in order; then "999..." and no trunk.           *)
AddTrytes(bundle, fragments) ==
    [k \in DOMAIN bundle |->
        [bundle[k] EXCEPT !.fragment = IF k \in DOMAIN fragments THEN fragments[k] ELSE Empty]]

(* A slip: the key of the first input for all.                               *)
FirstKey(address, inputs) == inputs[1].keyIndex

(* signInputsAndReturn: the entry of an input gets the first half of the     *)
(* signature, and every entry of no value of the same address the second;    *)
(* the key is the one of the first input with the address.                   *)
KeyOf(address, inputs) ==
    inputs[SelectInSeq(inputs, LAMBDA x : x.address = address)].keyIndex

Signed(bundle, inputs) ==
    LET spent == {bundle[k].address : k \in {n \in DOMAIN bundle : bundle[n].value < 0}}
        Half(tx) == IF tx.address \notin spent \/ tx.value > 0 THEN tx.fragment
                    ELSE Signature(KeyOf(tx.address, inputs), IF tx.value < 0 THEN 1 ELSE 2)
    IN  [k \in DOMAIN bundle |-> [bundle[k] EXCEPT !.fragment = Half(bundle[k])]]

(* What getBundle checks.  A transaction at another place than its index     *)
(* says is not hashed.                                                       *)
Misplaced(bundle) == {k \in DOMAIN bundle : bundle[k].currentIndex # k - 1}

SumOf(bundle) == FoldLeft(LAMBDA s, tx : s + tx.value, 0, bundle)

HashOf(bundle) ==
    LET placed == SelectSeq([k \in DOMAIN bundle |-> k],
                            LAMBDA k : k \notin Misplaced(bundle))
    IN  [n \in DOMAIN placed |-> Essence(bundle[placed[n]])]

(* The signature of the input at k: its fragment and those of the later      *)
(* entries of no value of its address.  Signing.validateSignatures accepts   *)
(* the two halves made with the key of the address (Signing.tla).            *)
SignatureAt(bundle, k) ==
    LET later == SelectSeq(SubSeq(bundle, k + 1, Len(bundle)),
                           LAMBDA tx : tx.address = bundle[k].address /\ tx.value = 0)
    IN  <<bundle[k].fragment>> \o [n \in DOMAIN later |-> later[n].fragment]

ValidSignatures(bundle) ==
    \A k \in DOMAIN bundle : bundle[k].value < 0 =>
        SignatureAt(bundle, k) = <<Signature(bundle[k].address, 1), Signature(bundle[k].address, 2)>>

Complete(bundle) == bundle[Len(bundle)].currentIndex = bundle[Len(bundle)].lastIndex

(* The verdict that comes after the loop over the transactions.              *)
Verdict(bundle) ==
    CASE SumOf(bundle) # 0                -> "Invalid Bundle Sum"
      [] HashOf(bundle) # bundle[1].bundle -> "Invalid Bundle Hash"
      [] ~Complete(bundle)                -> "Invalid Bundle"
      [] ~ValidSignatures(bundle)         -> "Invalid Signatures!"
      [] OTHER                            -> "valid"

(* categorizeTransfers, for one bundle: what is done with it at each entry   *)
(* of an own address.  A bundle once in sent goes nowhere else.              *)
IsRemainder(tx) == tx.currentIndex = tx.lastIndex /\ tx.lastIndex # 0

(* A slip: an entry is looked at without those before it.                    *)
CategorizeEntries(bundle, own) ==
    LET At(lists, tx) ==
            IF tx.address \notin own \/ IsRemainder(tx) THEN lists
            ELSE Append(lists, IF tx.value < 0 THEN "sent" ELSE "received")
    IN  FoldLeft(At, <<>>, bundle)

Categorize(bundle, own) ==
    LET At(lists, tx) ==
            IF tx.address \notin own \/ Contains(lists, "sent") \/ IsRemainder(tx) THEN lists
            ELSE Append(lists, IF tx.value < 0 THEN "sent" ELSE "received")
    IN  FoldLeft(At, <<>>, bundle)
=============================================================================
