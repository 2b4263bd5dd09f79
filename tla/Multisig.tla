------------------------------ MODULE Multisig ------------------------------
(* Addresses and transfers of several cosigners (multisig/multisig): each    *)
(* absorbs the digest of its key into the state of a sponge it was handed,   *)
(* one finalizes the address and initiates the transfer, and each puts its   *)
(* two signature fragments at the place it believes to be its own.           *)
EXTENDS Signing, Bundle

CONSTANTS Cosigners,    \* the cosigners, each with a seed
          SeedOf,       \* cosigner -> its seed
          MaxCosigners, \* bound: digests of an address
          MaxSignings,  \* bound: signatures given to a bundle
          HashLetters,  \* the letters of the bundle's hash
          Transfers     \* what may be asked: value, message length and balance

ASSUME MultisigAssumption ==
    /\ SeedOf \in [Cosigners -> [1..SeedTrits -> Trit]]
    /\ \A c, d \in Cosigners : SeedOf[c] = SeedOf[d] => c = d
    /\ "nobody" \notin Cosigners
    /\ {MaxCosigners, MaxSignings} \subseteq Nat
    /\ HashLetters \in [1..(3 * FragmentLen) -> Letter]
    /\ Transfers \subseteq [value : Nat, message : Nat, balance : Int]

VARIABLES curlState,    \* the state that is handed on
          order,        \* the cosigners whose digests it has absorbed (history)
          multisig,     \* the address, or NotFinal
          bundle,       \* the bundle that is handed on; <<>> before
          refused,      \* initiateTransfer has thrown
          signedBy,     \* cosignerIndex -> who signed there last (history)
          signings

multisigVars == <<curlState, order, multisig, bundle, refused, signedBy, signings>>

NotFinal == "not final"
Nobody == "nobody"

MultisigInit ==
    /\ curlState = Initialized
    /\ order = <<>>
    /\ multisig = NotFinal
    /\ bundle = <<>>
    /\ refused = FALSE
    /\ signedBy = <<>>
    /\ signings = 0

GetKey(c) == Key(SeedOf[c], 0, 2)
GetDigest(c) == Digests(GetKey(c))

AddAddressDigest(c) ==
    /\ multisig = NotFinal
    /\ Len(order) < MaxCosigners
    /\ curlState' = Absorb(curlState, GetDigest(c))
    /\ order' = Append(order, c)
    /\ UNCHANGED <<multisig, bundle, refused, signedBy, signings>>

FinalizeAddress ==
    /\ multisig = NotFinal
    /\ order # <<>>
    /\ multisig' = Squeezed(curlState)
    /\ UNCHANGED <<curlState, order, bundle, refused, signedBy, signings>>

ValidateAddress(address, digests) ==
    LET absorbed[n \in 0..Len(digests)] ==
            IF n = 0 THEN Initialized ELSE Absorb(absorbed[n - 1], digests[n])
    IN  Squeezed(absorbed[Len(digests)]) = address

(* The whole balance of the one input is spent.  That it covers the payment  *)
(* is not looked at: less than the payment leaves no remainder.              *)
InputEntries(b, address, balance, numCosigners) ==
    LET with[n \in 0..numCosigners] ==
            IF n = 0 THEN b
            ELSE AddEntry(with[n - 1], 2, address, IF n = 1 THEN -balance ELSE 0, 0)
    IN  with[numCosigners]

Initiated(t, numCosigners) ==
    LET transfers == <<[address |-> "payee", value |-> t.value, message |-> t.message]>>
        spent == InputEntries(Outputs(transfers, 0), multisig, t.balance, numCosigners)
        whole == IF t.balance > t.value
                 THEN AddEntry(spent, 1, "remainder", t.balance - t.value, 0) ELSE spent
    IN  AddTrytes(Finalize(whole), SignatureFragments(transfers))

InitiateTransfer(t) ==
    /\ multisig # NotFinal
    /\ bundle = <<>> /\ ~refused
    /\ IF t.value = 0 \/ t.balance <= 0
       THEN refused' = TRUE /\ UNCHANGED <<bundle, signedBy>>
       ELSE /\ bundle' = Initiated(t, Len(order))
            /\ signedBy' = [n \in DOMAIN order |-> Nobody]
            /\ UNCHANGED refused
    /\ UNCHANGED <<curlState, order, multisig, signings>>

InputPlace(b) == SelectInSeq(b, LAMBDA tx : tx.value < 0 /\ tx.address = multisig)

(* A slip: always the first fragment.                                        *)
FirstFragment(n) == NormalizedBundle(HashLetters)[1]

(* The fragments of the hash are taken by turns of three.                    *)
HashFragment(n) == NormalizedBundle(HashLetters)[(n % 3) + 1]

(* What an entry carries when it is signed (see Empty and Message).          *)
Chains(links) == <<"chains", links, 0>>

HalfSignature(c, cosignerIndex, n) ==
    Chains(SignatureFragment(HashFragment(cosignerIndex * 2 + n - 1), Fragment(GetKey(c), n)))

(* addSignature with the cosigner's place counted from 0, and its key.       *)
AddSignature(c, cosignerIndex) ==
    LET entry == InputPlace(bundle) + cosignerIndex * 2
    IN  /\ bundle # <<>>
        /\ signings < MaxSignings
        /\ bundle' = [bundle EXCEPT ![entry].fragment = HalfSignature(c, cosignerIndex, 1),
                                    ![entry + 1].fragment = HalfSignature(c, cosignerIndex, 2)]
        /\ signedBy' = [signedBy EXCEPT ![cosignerIndex + 1] = c]
        /\ signings' = signings + 1
        /\ UNCHANGED <<curlState, order, multisig, refused>>

(* A place after the last cosigner's: addSignature throws, for there is no   *)
(* entry, or none after the remainder, which by then is signed over.         *)
AddSignatureBeyond(c, cosignerIndex) ==
    LET entry == InputPlace(bundle) + cosignerIndex * 2
    IN  /\ bundle # <<>>
        /\ signings < MaxSignings
        /\ bundle' = IF entry \notin DOMAIN bundle THEN bundle
                     ELSE [bundle EXCEPT ![entry].fragment = HalfSignature(c, cosignerIndex, 1)]
        /\ signings' = signings + 1
        /\ UNCHANGED <<curlState, order, multisig, refused, signedBy>>

(* validateSignatures; a fragment that is no signature has no chains.        *)
IsSignature(fragment) == fragment[1] = "chains"

ValidateMultisig(b, numCosigners) ==
    LET fragments == [j \in 1..(numCosigners * 2) |-> b[InputPlace(b) + j - 1].fragment]
    IN  /\ \A j \in DOMAIN fragments : IsSignature(fragments[j])
        /\ ValidateSignatures(multisig, [j \in DOMAIN fragments |-> fragments[j][2]], HashLetters)

MultisigNext ==
    \/ \E c \in Cosigners : AddAddressDigest(c)
    \/ FinalizeAddress
    \/ \E t \in Transfers : InitiateTransfer(t)
    \/ \E c \in Cosigners, n \in 0..(Len(order) - 1) : AddSignature(c, n)
    \/ \E c \in Cosigners, n \in Len(order)..MaxCosigners : AddSignatureBeyond(c, n)

MultisigSpec == MultisigInit /\ [][MultisigNext]_multisigVars

-----------------------------------------------------------------------------
AddressOfItsOrder ==
    \A cosigners \in UNION {[1..n -> Cosigners] : n \in 0..MaxCosigners} :
        ValidateAddress(multisig, [n \in DOMAIN cosigners |-> GetDigest(cosigners[n])])
            <=> cosigners = order

(* A transfer can be spent just when every cosigner has signed at the place  *)
(* at which its digest went into the address, in whatever order they did and *)
(* whoever signed there before, or after the last place (addSignature        *)
(* 3271-3333, validateSignatures 3363-3384); and the address is that of the  *)
(* digests in the order they were added and of no other list of them         *)
(* (2976-3050).                                                              *)
SpendableWhenAllSigned ==
    /\ bundle # <<>> => (ValidateMultisig(bundle, Len(order)) <=> signedBy = order)
    /\ multisig # NotFinal => AddressOfItsOrder
=============================================================================
