---------------------------- MODULE MCAlgorithms ----------------------------
(* The algorithms, side by side: PrepareTransfers' loops (Transfer), the     *)
(* cosigners' work (Multisig), and the pure functions of aidos.js, each over *)
(* a set of inputs.  `part` says which one a behaviour is about, `input` is  *)
(* the input of a pure function.                                             *)
EXTENDS Transfer, Multisig, HashChains, Validator, SearchSteps, Decoder

VARIABLES part, input

allVars == <<vars, multisigVars, chainVars, searchVars, decoderVars, part, input>>

MCValues == -1..3
MCChanges == {0, 2}
MCTotals == -1..7

MCCosigners == {"A", "B"}
MCSeeds == [c \in MCCosigners |-> IF c = "A" THEN <<1, 0>> ELSE <<-1, 1>>]
MCHashLetters == <<13, 13, -2, 5, -13, -13, 0, 1, 2>>
MCTransfers == [value : {0, 1, 2}, message : {0, 5}, balance : {0, 1, 2}]

MCBundleLetters == {-13, -7, 0, 2, 13}

NoInput == [fn |-> "none"]

ChainIdle == signed = [j \in 1..FragmentLen |-> 0] /\ shown = SignatureOf[signed]

TransferIdle ==
    /\ before = <<>> /\ balances = <<>> /\ asked = 0 /\ total = 0 /\ net = 0 /\ i = 1
    /\ sum = <<0>> /\ pc = "unsigned"

(* The inputs of the pure functions.                                         *)
Texts == UNION {[1..n -> {0, 26, 27, 90, 255, 256, 1000}] : n \in 0..3}
NumberInputs == [fn : {"number"}, n : -400..400] \cup [fn : {"text"}, text : Texts]

(* Values that the trits of the value field hold, and values they do not.    *)
TxInputs ==
    [fn : {"transaction"}, value : -40..40, timestamp : {-13, -5, 0, 1, 13},
     index : {0, 1, 13}, trunk : {0, 7}]

UsedIndexes == {0..(n - 1) : n \in 0..70} \cup {0..a \cup b..c : a \in {0, 29, 30}, b \in 31..33, c \in {33, 59, 60, 61}}

Lengths == 0..(2 * FragmentSize + 1)
MessageInputs == [fn : {"messages"}, lengths : Lengths \X Lengths \X {0, 1}]

(* Bundles as prepareTransfers makes them: outputs, then inputs of two       *)
(* entries, then a remainder.  0 and 1 are own addresses, -1 is not.         *)
Ours == {0, 1}
Entries(outputs, inputs, remainder) ==
    LET paid == FoldLeft(LAMBDA b, a : AddEntry(b, 1, a, 1, 0), <<>>, outputs)
        spent == FoldLeft(LAMBDA b, a : AddEntry(b, 2, a, -1, 0), paid, inputs)
    IN  Finalize(IF remainder = -1 THEN spent ELSE AddEntry(spent, 1, remainder, 1, 0))
BundleInputs ==
    [fn : {"bundle"}, outputs : {<<a>> : a \in -1..1} \cup {<<a, b>> : a, b \in -1..1},
     inputs : {<<>>, <<0>>, <<-1>>, <<0, 1>>, <<0, 0>>}, remainder : -1..1]

(* Texts of up to four characters, of one to four bytes in UTF-8 and of two  *)
(* or four in UTF-16; base64 has no characters, every three bytes are one.   *)
Characters == [ utf8 |-> {<<65>>, <<233>>, <<8364>>, <<55357, 56832>>},
                utf16le |-> {<<65>>, <<55357, 56832>>} ]
EncodedBy(encoding, text) ==
    IF encoding = "utf8" THEN Utf8ToBytes(text) ELSE Utf16leToBytes(text)
Bytes == [k \in 1..12 |-> (k * 97) % 256]
Sources ==
    UNION {{[encoding |-> e, chars |-> chars, bytes |-> EncodedBy(e, FlattenSeq(chars))] :
               chars \in UNION {[1..n -> Characters[e]] : n \in 1..4}} : e \in DOMAIN Characters}
    \cup {[encoding |-> "base64", chars |-> <<>>, bytes |-> SubSeq(Bytes, 1, n)] : n \in DOMAIN Bytes}

Inputs_ == NumberInputs \cup TxInputs \cup MessageInputs \cup BundleInputs

MCInit ==
    \/ /\ part = "transfer" /\ input = NoInput
       /\ Init /\ MultisigInit /\ ChainIdle /\ SearchIdle /\ DecoderIdle
    \/ /\ part = "multisig" /\ input = NoInput
       /\ TransferIdle /\ MultisigInit /\ ChainIdle /\ SearchIdle /\ DecoderIdle
    \/ /\ part = "chains" /\ input = NoInput
       /\ TransferIdle /\ MultisigInit /\ ChainInit /\ SearchIdle /\ DecoderIdle
    \/ /\ part = "search" /\ input = NoInput
       /\ TransferIdle /\ MultisigInit /\ ChainIdle /\ SearchInit(UsedIndexes, {0, 1, 30, 31}) /\ DecoderIdle
    \/ /\ part = "chunks" /\ input = NoInput
       /\ TransferIdle /\ MultisigInit /\ ChainIdle /\ SearchIdle /\ DecoderInit(Sources)
    \/ /\ part = "function" /\ input \in Inputs_
       /\ TransferIdle /\ MultisigInit /\ ChainIdle /\ SearchIdle /\ DecoderIdle

(* A payment that has its outcome does nothing more, nor does a search that  *)
(* is over, nor a text that has been read, nor a function.                   *)
Done == \/ part = "function"
        \/ part = "transfer" /\ pc \in Outcomes
        \/ part = "search" /\ ~ Goes(search)
        \/ part = "chunks" /\ place = Len(source.bytes)
Finished == Done /\ UNCHANGED allVars

MCNext ==
    \/ part = "transfer" /\ Next /\ UNCHANGED <<multisigVars, chainVars, searchVars, decoderVars, part, input>>
    \/ part = "multisig" /\ MultisigNext /\ UNCHANGED <<vars, chainVars, searchVars, decoderVars, part, input>>
    \/ part = "chains" /\ ChainNext /\ UNCHANGED <<vars, multisigVars, searchVars, decoderVars, part, input>>
    \/ part = "search" /\ SearchStep /\ UNCHANGED <<vars, multisigVars, chainVars, decoderVars, part, input>>
    \/ part = "chunks" /\ DecodeChunk /\ UNCHANGED <<vars, multisigVars, chainVars, searchVars, part, input>>
    \/ Finished

MCSpec == MCInit /\ [][MCNext]_allVars

-----------------------------------------------------------------------------
NumbersReturn ==
    LET t == TritsOfInt(input.n) IN
    /\ \A k \in DOMAIN t : t[k] \in Trit
    /\ Value(t) = input.n
    /\ t # <<>> => t[Len(t)] # 0
    /\ TritsOfTrytes(Field(input.n, 9)) = Pad(t, 9)

TextReturns ==
    TrytesToAscii(AsciiToTrytes(input.text)) = [k \in DOMAIN input.text |-> Byte(input.text[k])]

Tx == [ signatureMessageFragment |-> 1, address |-> 2, value |-> input.value, tag |-> 3,
        timestamp |-> input.timestamp, currentIndex |-> input.index, lastIndex |-> 13,
        bundle |-> 4, trunkTransaction |-> input.trunk, branchTransaction |-> input.trunk,
        nonce |-> input.trunk ]

TransactionReturns ==
    TransactionObject(TransactionTrytes(Tx)) =
        IF Len(TritsOfInt(input.value)) <= ValueTrits THEN Tx ELSE NoObject

OnlyAttachedIsBroadcast ==
    LET text == <<AsText(TransactionTrytes(Tx))>> IN
    IsArrayOfTrytes(text) /\ (IsArrayOfAttachedTrytes(text) <=> input.trunk # 0)

(* The text of the characters that are whole among the first `place` bytes.  *)
WholeSoFar ==
    LET e == source.encoding
        first(n) == FlattenSeq(SubSeq(source.chars, 1, n))
        whole == {n \in 0..Len(source.chars) : Len(EncodedBy(e, first(n))) <= place}
    IN  IF e = "base64" THEN FromByteArray(SubSeq(source.bytes, 1, place - (place % 3)))
        ELSE first(Max(whole))

Stripped(digits) == SelectSeq(digits, LAMBDA digit : digit # Pad64)

ChunksReadAsWhole ==
    LET e == source.encoding IN
    /\ garbled \/ output = WholeSoFar
    /\ garbled \/ place < Len(source.bytes)
          \/ output \o EndText(e, decoder) = ToText(e, source.bytes)
    /\ e = "base64" => ToByteArray(Base64Clean(Stripped(ToText(e, source.bytes)))) = source.bytes

(* The codecs lose nothing.  A number comes back from its trits, and has no  *)
(* more of them than it needs; text comes back from its trytes, except that  *)
(* a character that is no byte comes back as a space; a transaction that is  *)
(* written and read again is the same, and a value that does not fit into    *)
(* the trits that are read is never read as another value (2435-2514, 3434,  *)
(* 4110-4196).  What is written is accepted by attachToMesh, and only what   *)
(* has a trunk by broadcastTransactions (3687).  Text that comes in chunks,  *)
(* cut anywhere, is read character by character as the whole would be, each  *)
(* as soon as its last byte is there (16735-16911); excepted is UTF-16 after *)
(* a chunk that has a character before a lead surrogate it ends in, whose    *)
(* bytes are not the ones that are kept (16855).                             *)
CodecsInvert ==
    CASE part = "chunks" -> ChunksReadAsWhole
      [] input.fn = "number" -> NumbersReturn
      [] input.fn = "text" -> TextReturns
      [] input.fn = "transaction" -> TransactionReturns /\ OnlyAttachedIsBroadcast
      [] OTHER -> TRUE

MessageTransfers == [t \in 1..3 |-> [address |-> t, value |-> 0, message |-> input.lengths[t]]]
Multiples == {n \in Lengths : n >= 2 * FragmentSize /\ n % FragmentSize = 0}

MessageStays(t) ==
    LET whole == AddTrytes(Finalize(Outputs(MessageTransfers, 0)), SignatureFragments(MessageTransfers))
    IN  \A n \in 1..MessageFragments(input.lengths[t]) :
            \E k \in DOMAIN whole : whole[k].address = t /\ whole[k].fragment = Message(t, n)

MessagesStay ==
    \A t \in 1..3 :
        (\A u \in 1..(t - 1) : input.lengths[u] \notin Multiples) => MessageStays(t)

SentWhenSpent ==
    LET bundle_ == Entries(input.outputs, input.inputs, input.remainder)
        lists == Categorize(bundle_, Ours)
    IN  Len(SelectSeq(lists, LAMBDA l : l = "sent")) =
            IF ToSet(input.inputs) \cap Ours = {} THEN 0 ELSE 1

(* What a bundle is made of stays where it belongs.  Every transfer has its  *)
(* message in its own entries, whatever messages come before it; excepted    *)
(* are messages before it whose length is a multiple of the fragment's       *)
(* (twice or more): an entry more is made for them than they have fragments  *)
(* (1203-1205), and the fragments after them are misplaced.  And             *)
(* categorizeTransfers lists a bundle as sent exactly when it spends from an *)
(* own address, and then once, however many inputs and own outputs it has    *)
(* (4208-4255).                                                              *)
PartsStay ==
    CASE input.fn = "messages" -> MessagesStay
      [] input.fn = "bundle" -> SentWhenSpent
      [] OTHER -> TRUE

(* Not so in the code: "If message longer than 2187 trytes, increase         *)
(* signatureMessageLength (add 2nd transaction)" (1203-1204).  A length that *)
(* is a multiple gets an entry too many, and a message after it moves.       *)
MessagesAlwaysStay ==
    input.fn = "messages" => \A t \in 1..3 : input.lengths[t] > 0 => MessageStays(t)
=============================================================================
