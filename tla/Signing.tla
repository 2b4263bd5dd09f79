------------------------------ MODULE Signing ------------------------------
(* One-time signatures (crypto/curl, crypto/signing, and normalizedBundle of *)
(* crypto/bundle).  Curl is taken as a function without collisions: its      *)
(* state is what it has absorbed and how often it was squeezed, in order,    *)
(* and a hash is that state.  A block of a key hashed n times over is a Link *)
(* of height n: what a hash chain makes easy is to add to the height, and    *)
(* nothing lowers it.                                                        *)
EXTENDS Trinary, FiniteSets

CONSTANTS FragmentLen,  \* trytes of a bundle hash that one fragment signs (27)
          SeedTrits     \* trits of a seed (243)

ASSUME SigningAssumption == FragmentLen \in Nat \ {0} /\ SeedTrits \in Nat \ {0}

(* The sponge.                                                               *)
Initialized == <<>>
Absorb(state, data) == state \o data
Squeezed(state) == Append(state, "squeezed")

(* The seed as a number of SeedTrits trits, incremented `index` times: the   *)
(* carry runs from the first trit on, and the largest wraps to the smallest. *)
Increment(seed) ==
    LET carries == {j \in 1..SeedTrits : \A k \in 1..j : seed[k] = 1}
        stop == Cardinality(carries) + 1
    IN  [j \in 1..SeedTrits |-> IF j < stop THEN -1
                                ELSE IF j = stop THEN seed[j] + 1 ELSE seed[j]]

Subseed(seed, index) ==
    LET after[n \in 0..index] == IF n = 0 THEN seed ELSE Increment(after[n - 1])
    IN  after[index]

Link(subseed, place, height) == [of |-> subseed, place |-> place, height |-> height]
Higher(link, n) == [link EXCEPT !.height = @ + n]

(* key(): every block of the key is one more squeeze of the sponge.          *)
Key(seed, index, length) ==
    [p \in 1..(length * FragmentLen) |-> Link(Subseed(seed, index), p, 0)]

Fragment(key, n) == SubSeq(key, (n - 1) * FragmentLen + 1, n * FragmentLen)

Fragments(key) == [i \in 1..(Len(key) \div FragmentLen) |-> Fragment(key, i)]

(* digests(): every block hashed 26 times; the digest of a fragment is the   *)
(* hash of its blocks.                                                       *)
Digests(key) ==
    [i \in DOMAIN Fragments(key) |->
        [j \in 1..FragmentLen |-> Higher(Fragments(key)[i][j], 26)]]

Address(digests) == Squeezed(Absorb(Initialized, digests))

(* normalizedBundle: the letters of each fragment of the hash are moved, the *)
(* first that can move, until they sum to zero.                              *)
Lowered(f) == LET j == CHOOSE j \in DOMAIN f : f[j] > -13 /\ \A k \in 1..(j - 1) : f[k] = -13
              IN  [f EXCEPT ![j] = @ - 1]
Raised(f) == LET j == CHOOSE j \in DOMAIN f : f[j] < 13 /\ \A k \in 1..(j - 1) : f[k] = 13
             IN  [f EXCEPT ![j] = @ + 1]

(* A slip: the letters are signed as they are.                               *)
NotNormalized(f) == f

Normalized(f) ==
    LET weight == MapThenSumSet(LAMBDA k : f[k], DOMAIN f)
        moved[n \in Nat] == IF n = 0 THEN f
                            ELSE IF weight >= 0 THEN Lowered(moved[n - 1])
                                                ELSE Raised(moved[n - 1])
    IN  moved[IF weight >= 0 THEN weight ELSE -weight]

NormalizedBundle(hash) == [n \in 1..3 |-> Normalized(Fragment(hash, n))]

(* signatureFragment(): each block is hashed 13 - n times, n the letter it   *)
(* signs; digest() hashes it n + 13 times more.                              *)
SignatureFragment(letters, fragment) ==
    [j \in 1..FragmentLen |-> Higher(fragment[j], 13 - letters[j])]

Digest(letters, signature) ==
    [j \in 1..FragmentLen |-> Higher(signature[j], letters[j] + 13)]

ValidateSignatures(address, signatures, hash) ==
    Address([i \in DOMAIN signatures |->
        Digest(NormalizedBundle(hash)[((i - 1) % 3) + 1], signatures[i])]) = address
=============================================================================
