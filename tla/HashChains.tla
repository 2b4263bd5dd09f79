----------------------------- MODULE HashChains -----------------------------
(* What follows from one fragment of a signature.  A block of it is a link   *)
(* of a hash chain, as many hashes above the key's block as the signed letter*)
(* is below 13; whoever has it can hash on, as digest does.                  *)
EXTENDS Signing

CONSTANT BundleLetters  \* the letters that hashes of bundles are made of

ASSUME ChainAssumption == BundleLetters \subseteq Letter

VARIABLES signed,       \* the fragment, normalized, that was signed
          shown         \* the highest link that is known of each chain

chainVars == <<signed, shown>>

NormalizedFragments == {Normalized(f) : f \in [1..FragmentLen -> BundleLetters]}

KeyFragment == Fragment(Key(Zeros(SeedTrits), 0, 1), 1)

(* The signature of each fragment with that part of a key.                   *)
SignatureOf == [g \in NormalizedFragments |-> SignatureFragment(g, KeyFragment)]

(* The top of a chain, from which the digest is made.                        *)
Top == 26

ChainInit ==
    /\ signed \in NormalizedFragments
    /\ shown = SignatureOf[signed]

HashOn(j) ==
    /\ shown[j].height < Top
    /\ shown' = [shown EXCEPT ![j] = Higher(@, 1)]
    /\ UNCHANGED signed

ChainNext == \E j \in 1..FragmentLen : HashOn(j)

ChainSpec == ChainInit /\ [][ChainNext]_chainVars

(* Hashing on what one signature shows never gives the signature of another  *)
(* hash: the normalized letters are letters still, and sum to zero, so of    *)
(* two different hashes each has a letter that is larger than the other's    *)
(* (normalizedBundle 2344-2376, signatureFragment 2744-2771).  Without the   *)
(* sum of zero a larger hash would follow.                                   *)
NoSignatureFollows ==
    /\ signed \in [1..FragmentLen -> Letter]
    /\ \A g \in NormalizedFragments : shown = SignatureOf[g] => g = signed
=============================================================================
