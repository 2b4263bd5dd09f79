--------------------------- MODULE SpendingProofs ---------------------------
(* What the proofs of Transfer and of Wallet need to know of sums over finite*)
(* sets (the community modules' SumFunctionOnSet) and of Spending's closed   *)
(* form of a payment, for every list of values.                              *)
(*                                                                           *)
(* Induction is done on sets rather than on a formula: the elements for      *)
(* which the claim fails would have a least one (LeastElement).  A sum is a  *)
(* function on the subsets of its set, chosen to satisfy the fold's          *)
(* equation, so that it has to be shown first that one does.                 *)
EXTENDS Spending, FiniteSetTheorems, WellFoundedInduction, SequenceTheorems, TLAPS

(* A set of naturals that has an element has a least one.                    *)
LEMMA LeastElement ==
    ASSUME NEW T, T \subseteq Nat, T # {}
    PROVE  \E x \in T : \A y \in T : x <= y
<1> DEFINE Less == OpToRel(<, Nat)
<1>1. IsWellFoundedOn(Less, Nat)
  BY NatLessThanWellFounded
<1>2. \A x, y \in Nat : x < y => <<x, y>> \in Less
  BY DEF OpToRel
<1> HIDE DEF Less
<1>3. PICK x \in T : \A y \in T : ~ (<<y, x>> \in Less)
  BY <1>1, WFMin
<1>4. ASSUME NEW y \in T PROVE x <= y
  <2>1. x \in Nat /\ y \in Nat
    OBVIOUS
  <2>2. ~ (y < x)
    BY <1>2, <1>3, <2>1
  <2> QED
    BY <2>1, <2>2
<1> QED
  BY <1>4

(* Induction over the naturals, for the members of a set.                    *)
LEMMA NatSetInduction ==
    ASSUME NEW T, 0 \in T, \A n \in Nat : n \in T => n + 1 \in T
    PROVE  Nat \subseteq T
<1> SUFFICES ASSUME Nat \ T # {} PROVE FALSE
  OBVIOUS
<1>1. PICK x \in Nat \ T : \A y \in Nat \ T : x <= y
  BY LeastElement
<1> QED
  BY <1>1

(* Induction over the subsets of a finite set, each after its own subsets.   *)
LEMMA SubsetInduction ==
    ASSUME NEW S, IsFiniteSet(S), NEW T,
           \A A \in SUBSET S : (\A B \in SUBSET A : B # A => B \in T) => A \in T
    PROVE  S \in T
<1> DEFINE Failing == {A \in SUBSET S : A \notin T}
           Sizes == {Cardinality(A) : A \in Failing}
<1> SUFFICES ASSUME S \notin T PROVE FALSE
  OBVIOUS
<1>1. \A A \in SUBSET S : IsFiniteSet(A) /\ Cardinality(A) \in Nat
  BY FS_Subset, FS_CardinalityType
<1>2. Sizes \subseteq Nat /\ Sizes # {}
  BY <1>1
<1>3. PICK least \in Sizes : \A y \in Sizes : least <= y
  <2> HIDE DEF Sizes
  <2> QED
    BY <1>2, LeastElement
<1>4. PICK A \in Failing : least = Cardinality(A)
  OBVIOUS
<1>5. ASSUME NEW B \in SUBSET A, B # A PROVE B \in T
  <2>1. Cardinality(B) <= Cardinality(A) /\ Cardinality(B) # Cardinality(A)
    BY <1>1, <1>5, FS_Subset
  <2>2. Cardinality(B) \in Nat /\ Cardinality(A) \in Nat
    BY <1>1
  <2>3. Cardinality(B) \notin Sizes
    BY <1>3, <1>4, <2>1, <2>2
  <2> QED
    BY <2>3
<1> QED
  BY <1>4, <1>5

-----------------------------------------------------------------------------
(* The equation of the fold, and the function chosen to satisfy it.          *)
Taken(s) == CHOOSE x \in s : TRUE
SumBody(v, f, s) == IF s = {} THEN 0 ELSE v[Taken(s)] + f[s \ {Taken(s)}]
Solves(v, f, S) == f = [s \in SUBSET S |-> SumBody(v, f, s)]

LEMMA TakenIsIn == ASSUME NEW s, s # {} PROVE Taken(s) \in s
  BY DEF Taken

LEMMA SumIsChosen ==
    ASSUME NEW v, NEW S
    PROVE  SumFunctionOnSet(v, S) = (CHOOSE f : Solves(v, f, S))[S]
  BY DEF SumFunctionOnSet, FoldFunctionOnSet, MapThenFoldSet, Solves, SumBody, Taken

(* Two solutions agree wherever both are defined.                            *)
LEMMA SolutionsAgree ==
    ASSUME NEW v, NEW S, IsFiniteSet(S), NEW A \in SUBSET S,
           NEW f, Solves(v, f, A), NEW g, Solves(v, g, S)
    PROVE  f[A] = g[A]
<1> DEFINE T == {B \in SUBSET A : f[B] = g[B]}
<1>1. ASSUME NEW B \in SUBSET A, \A C \in SUBSET B : C # B => C \in T
      PROVE  B \in T
  <2>1. f[B] = SumBody(v, f, B) /\ g[B] = SumBody(v, g, B)
    BY DEF Solves
  <2>2. B # {} => f[B \ {Taken(B)}] = g[B \ {Taken(B)}]
    BY <1>1, TakenIsIn
  <2> QED
    BY <2>1, <2>2 DEF SumBody
<1>2. IsFiniteSet(A)
  BY FS_Subset
<1> HIDE DEF T
<1>3. A \in T
  BY <1>1, <1>2, SubsetInduction
<1> QED
  BY <1>3 DEF T

(* Every finite set has a solution.                                          *)
LEMMA SolutionExists ==
    ASSUME NEW v, NEW S, IsFiniteSet(S)
    PROVE  \E f : Solves(v, f, S)
<1> DEFINE T == {A \in SUBSET S : \E f : Solves(v, f, A)}
<1>1. ASSUME NEW A \in SUBSET S, \A B \in SUBSET A : B # A => B \in T
      PROVE  A \in T
  <2> DEFINE Sol(B) == CHOOSE f : Solves(v, f, B)
             At(B) == Sol(B)[B]
             h == [B \in SUBSET A |-> IF B = {} THEN 0
                                      ELSE v[Taken(B)] + At(B \ {Taken(B)})]
  <2>1. ASSUME NEW B \in SUBSET A, B # A PROVE Solves(v, Sol(B), B)
    BY <1>1, <2>1
  <2>2. ASSUME NEW B \in SUBSET A, B # A PROVE h[B] = At(B)
    <3>1. At(B) = SumBody(v, Sol(B), B)
      <4> HIDE DEF Sol
      <4> QED
        BY <2>1, <2>2 DEF Solves
    <3>2. ASSUME B # {} PROVE Sol(B)[B \ {Taken(B)}] = At(B \ {Taken(B)})
      <4> DEFINE C == B \ {Taken(B)}
      <4>1. C \in SUBSET B /\ C \in SUBSET A /\ C # A
        BY <2>2, <3>2, TakenIsIn
      <4>2. Solves(v, Sol(B), B) /\ Solves(v, Sol(C), C)
        BY <2>1, <2>2, <4>1
      <4>3. IsFiniteSet(B)
        BY FS_Subset
      <4> HIDE DEF Sol, C
      <4>4. Sol(C)[C] = Sol(B)[C]
        BY <4>1, <4>2, <4>3, SolutionsAgree
      <4> QED
        BY <4>4 DEF C
    <3> HIDE DEF At, Sol
    <3> QED
      BY <3>1, <3>2 DEF SumBody
  <2>3. ASSUME NEW B \in SUBSET A PROVE h[B] = SumBody(v, h, B)
    <3>1. CASE B = {}
      BY <3>1 DEF SumBody
    <3>2. CASE B # {}
      <4>1. B \ {Taken(B)} \in SUBSET A /\ B \ {Taken(B)} # A
        BY <3>2, TakenIsIn
      <4>2. h[B \ {Taken(B)}] = At(B \ {Taken(B)})
        BY <2>2, <4>1
      <4> HIDE DEF At
      <4> QED
        BY <3>2, <4>2 DEF SumBody
    <3> QED
      BY <3>1, <3>2
  <2>4. h = [B \in SUBSET A |-> h[B]]
    OBVIOUS
  <2> HIDE DEF h
  <2>5. Solves(v, h, A)
    BY <2>3, <2>4 DEF Solves
  <2> QED
    BY <2>5
<1> HIDE DEF T
<1>2. S \in T
  BY <1>1, SubsetInduction
<1> QED
  BY <1>2 DEF T

LEMMA SumSolves ==
    ASSUME NEW v, NEW S, IsFiniteSet(S), NEW f, Solves(v, f, S)
    PROVE  /\ SumFunctionOnSet(v, S) = f[S]
           /\ \A A \in SUBSET S : SumFunctionOnSet(v, A) = f[A]
<1>1. ASSUME NEW A \in SUBSET S PROVE SumFunctionOnSet(v, A) = f[A]
  <2>1. IsFiniteSet(A)
    BY FS_Subset
  <2>2. PICK g : g = CHOOSE h : Solves(v, h, A)
    OBVIOUS
  <2>3. Solves(v, g, A)
    BY <2>1, <2>2, SolutionExists
  <2>4. g[A] = f[A]
    BY <2>3, SolutionsAgree
  <2> QED
    BY <2>2, <2>4, SumIsChosen
<1> QED
  BY <1>1

-----------------------------------------------------------------------------
(* The equation, for the sum itself.                                         *)
LEMMA SumEmpty == ASSUME NEW v PROVE SumFunctionOnSet(v, {}) = 0
<1>1. IsFiniteSet({})
  BY FS_EmptySet
<1>2. PICK f : Solves(v, f, {})
  BY <1>1, SolutionExists
<1>3. f[{}] = SumBody(v, f, {})
  BY <1>2 DEF Solves
<1>4. SumFunctionOnSet(v, {}) = f[{}]
  BY <1>1, <1>2, SumSolves
<1> QED
  BY <1>3, <1>4 DEF SumBody

LEMMA SumTaken ==
    ASSUME NEW v, NEW S, IsFiniteSet(S), S # {}
    PROVE  /\ Taken(S) \in S
           /\ SumFunctionOnSet(v, S) =
                 v[Taken(S)] + SumFunctionOnSet(v, S \ {Taken(S)})
<1>1. PICK f : Solves(v, f, S)
  BY SolutionExists
<1>2. f[S] = SumBody(v, f, S)
  BY <1>1 DEF Solves
<1>3. /\ SumFunctionOnSet(v, S) = f[S]
      /\ SumFunctionOnSet(v, S \ {Taken(S)}) = f[S \ {Taken(S)}]
  BY <1>1, SumSolves
<1> QED
  BY <1>2, <1>3, TakenIsIn DEF SumBody

(* The sum of integers is one.                                               *)
LEMMA SumType ==
    ASSUME NEW v, NEW S, IsFiniteSet(S), \A x \in S : v[x] \in Int
    PROVE  SumFunctionOnSet(v, S) \in Int
<1> DEFINE T == {A \in SUBSET S : SumFunctionOnSet(v, A) \in Int}
<1>1. ASSUME NEW A \in SUBSET S, \A B \in SUBSET A : B # A => B \in T
      PROVE  A \in T
  <2>1. CASE A = {}
    BY <2>1, SumEmpty
  <2>2. CASE A # {}
    <3>1. IsFiniteSet(A)
      BY FS_Subset
    <3>2. /\ Taken(A) \in A
          /\ SumFunctionOnSet(v, A) = v[Taken(A)] + SumFunctionOnSet(v, A \ {Taken(A)})
      BY <2>2, <3>1, SumTaken
    <3>3. SumFunctionOnSet(v, A \ {Taken(A)}) \in Int
      BY <1>1, <3>2
    <3>4. v[Taken(A)] \in Int
      BY <3>2
    <3> QED
      BY <3>2, <3>3, <3>4
  <2> QED
    BY <2>1, <2>2
<1> HIDE DEF T
<1>2. S \in T
  BY <1>1, SubsetInduction
<1> QED
  BY <1>2 DEF T

(* Any element can be taken out first.                                       *)
LEMMA SumRemove ==
    ASSUME NEW v, NEW S, IsFiniteSet(S), \A x \in S : v[x] \in Int, NEW c \in S
    PROVE  SumFunctionOnSet(v, S) = v[c] + SumFunctionOnSet(v, S \ {c})
<1> DEFINE T == {A \in SUBSET S : \A x \in A :
                    SumFunctionOnSet(v, A) = v[x] + SumFunctionOnSet(v, A \ {x})}
<1>1. ASSUME NEW A \in SUBSET S, \A B \in SUBSET A : B # A => B \in T
      PROVE  A \in T
  <2> SUFFICES ASSUME NEW x \in A
               PROVE  SumFunctionOnSet(v, A) = v[x] + SumFunctionOnSet(v, A \ {x})
    OBVIOUS
  <2> DEFINE t == Taken(A)
  <2>1. IsFiniteSet(A) /\ IsFiniteSet(A \ {t}) /\ IsFiniteSet((A \ {t}) \ {x})
    BY FS_Subset, FS_RemoveElement
  <2>2. t \in A /\ SumFunctionOnSet(v, A) = v[t] + SumFunctionOnSet(v, A \ {t})
    BY <2>1, SumTaken
  <2>3. CASE x = t
    BY <2>2, <2>3
  <2>4. CASE x # t
    <3> HIDE DEF t
    <3>1. A \ {t} \in T /\ A \ {x} \in T
      BY <1>1, <2>2
    <3>2. SumFunctionOnSet(v, A \ {t}) = v[x] + SumFunctionOnSet(v, (A \ {t}) \ {x})
      BY <2>4, <3>1
    <3>3. SumFunctionOnSet(v, A \ {x}) = v[t] + SumFunctionOnSet(v, (A \ {x}) \ {t})
      BY <2>2, <2>4, <3>1
    <3>4. (A \ {t}) \ {x} = (A \ {x}) \ {t}
      OBVIOUS
    <3>5. PICK rest \in Int : rest = SumFunctionOnSet(v, (A \ {t}) \ {x})
      BY <2>1, SumType
    <3>6. /\ SumFunctionOnSet(v, A) = v[t] + (v[x] + rest)
          /\ SumFunctionOnSet(v, A \ {x}) = v[t] + rest
      BY <2>2, <3>2, <3>3, <3>4, <3>5
    <3>7. v[x] \in Int /\ v[t] \in Int
      BY <2>2
    <3> QED
      BY <3>6, <3>7
  <2> QED
    BY <2>3, <2>4
<1> HIDE DEF T
<1>2. S \in T
  BY <1>1, SubsetInduction
<1> QED
  BY <1>2 DEF T

(* So can a new one be added.                                                *)
LEMMA SumAdd ==
    ASSUME NEW v, NEW S, IsFiniteSet(S), NEW c, c \notin S,
           \A x \in S \cup {c} : v[x] \in Int
    PROVE  SumFunctionOnSet(v, S \cup {c}) = v[c] + SumFunctionOnSet(v, S)
<1>1. IsFiniteSet(S \cup {c}) /\ (S \cup {c}) \ {c} = S
  BY FS_AddElement
<1> QED
  BY <1>1, SumRemove

(* If every element adds no less, so does the sum.                           *)
LEMMA SumMonotone ==
    ASSUME NEW v, NEW w, NEW S, IsFiniteSet(S),
           \A x \in S : v[x] \in Int /\ w[x] \in Int /\ v[x] <= w[x]
    PROVE  SumFunctionOnSet(v, S) <= SumFunctionOnSet(w, S)
<1> DEFINE T == {A \in SUBSET S : SumFunctionOnSet(v, A) <= SumFunctionOnSet(w, A)}
<1>1. ASSUME NEW A \in SUBSET S, \A B \in SUBSET A : B # A => B \in T
      PROVE  A \in T
  <2>1. CASE A = {}
    BY <2>1, SumEmpty
  <2>2. CASE A # {}
    <3> DEFINE t == Taken(A)
               R == A \ {t}
    <3>1. IsFiniteSet(A) /\ IsFiniteSet(R)
      BY FS_Subset, FS_RemoveElement
    <3>2. /\ t \in A
          /\ SumFunctionOnSet(v, A) = v[t] + SumFunctionOnSet(v, R)
          /\ SumFunctionOnSet(w, A) = w[t] + SumFunctionOnSet(w, R)
      BY <2>2, <3>1, SumTaken
    <3> HIDE DEF t
    <3>3. SumFunctionOnSet(v, R) <= SumFunctionOnSet(w, R)
      BY <1>1, <3>2
    <3>4. SumFunctionOnSet(v, R) \in Int /\ SumFunctionOnSet(w, R) \in Int
      BY <3>1, SumType
    <3>5. v[t] \in Int /\ w[t] \in Int /\ v[t] <= w[t]
      BY <3>2
    <3> HIDE DEF R
    <3> QED
      BY <3>2, <3>3, <3>4, <3>5
  <2> QED
    BY <2>1, <2>2
<1> HIDE DEF T
<1>2. S \in T
  BY <1>1, SubsetInduction
<1> QED
  BY <1>2 DEF T

(* Only the values at the elements matter.                                   *)
LEMMA SumEqual ==
    ASSUME NEW v, NEW w, NEW S, IsFiniteSet(S), \A x \in S : v[x] = w[x]
    PROVE  SumFunctionOnSet(v, S) = SumFunctionOnSet(w, S)
<1> DEFINE T == {A \in SUBSET S : SumFunctionOnSet(v, A) = SumFunctionOnSet(w, A)}
<1>1. ASSUME NEW A \in SUBSET S, \A B \in SUBSET A : B # A => B \in T
      PROVE  A \in T
  <2>1. CASE A = {}
    BY <2>1, SumEmpty
  <2>2. CASE A # {}
    <3>1. IsFiniteSet(A)
      BY FS_Subset
    <3>2. /\ Taken(A) \in A
          /\ SumFunctionOnSet(v, A) = v[Taken(A)] + SumFunctionOnSet(v, A \ {Taken(A)})
          /\ SumFunctionOnSet(w, A) = w[Taken(A)] + SumFunctionOnSet(w, A \ {Taken(A)})
      BY <2>2, <3>1, SumTaken
    <3>3. A \ {Taken(A)} \in T /\ v[Taken(A)] = w[Taken(A)]
      BY <1>1, <3>2
    <3> QED
      BY <3>2, <3>3
  <2> QED
    BY <2>1, <2>2
<1> HIDE DEF T
<1>2. S \in T
  BY <1>1, SubsetInduction
<1> QED
  BY <1>2 DEF T

(* Changing one element's value changes the sum by as much.                  *)
LEMMA SumUpdate ==
    ASSUME NEW v, NEW w, NEW S, IsFiniteSet(S), NEW c \in S,
           \A x \in S : v[x] \in Int /\ w[x] \in Int,
           \A x \in S : x # c => v[x] = w[x]
    PROVE  SumFunctionOnSet(w, S) = SumFunctionOnSet(v, S) + w[c] - v[c]
<1>1. IsFiniteSet(S \ {c})
  BY FS_RemoveElement
<1>2. SumFunctionOnSet(v, S \ {c}) = SumFunctionOnSet(w, S \ {c})
  BY <1>1, SumEqual
<1>3. /\ SumFunctionOnSet(v, S) = v[c] + SumFunctionOnSet(v, S \ {c})
      /\ SumFunctionOnSet(w, S) = w[c] + SumFunctionOnSet(w, S \ {c})
  BY SumRemove
<1>4. SumFunctionOnSet(v, S \ {c}) \in Int /\ v[c] \in Int /\ w[c] \in Int
  BY <1>1, SumType
<1> QED
  BY <1>2, <1>3, <1>4

(* A sum in which every element adds nothing.                                *)
LEMMA SumZero ==
    ASSUME NEW v, NEW S, IsFiniteSet(S), \A x \in S : v[x] = 0
    PROVE  SumFunctionOnSet(v, S) = 0
<1> DEFINE T == {A \in SUBSET S : SumFunctionOnSet(v, A) = 0}
<1>1. ASSUME NEW A \in SUBSET S, \A B \in SUBSET A : B # A => B \in T
      PROVE  A \in T
  <2>1. CASE A = {}
    BY <2>1, SumEmpty
  <2>2. CASE A # {}
    <3>1. IsFiniteSet(A)
      BY FS_Subset
    <3>2. /\ Taken(A) \in A
          /\ SumFunctionOnSet(v, A) = v[Taken(A)] + SumFunctionOnSet(v, A \ {Taken(A)})
      BY <2>2, <3>1, SumTaken
    <3>3. A \ {Taken(A)} \in T /\ v[Taken(A)] = 0
      BY <1>1, <3>2
    <3> QED
      BY <3>2, <3>3
  <2> QED
    BY <2>1, <2>2
<1> HIDE DEF T
<1>2. S \in T
  BY <1>1, SubsetInduction
<1> QED
  BY <1>2 DEF T

(* A sum over part of a set is one over the set in which the rest add 0.     *)
LEMMA SumPart ==
    ASSUME NEW v, NEW w, NEW S, IsFiniteSet(S), NEW P \in SUBSET S,
           \A x \in P : v[x] \in Int,
           \A x \in S : w[x] = IF x \in P THEN v[x] ELSE 0
    PROVE  SumFunctionOnSet(w, S) = SumFunctionOnSet(v, P)
<1> DEFINE T == {A \in SUBSET S : SumFunctionOnSet(w, A) = SumFunctionOnSet(v, A \cap P)}
<1>1. ASSUME NEW A \in SUBSET S, \A B \in SUBSET A : B # A => B \in T
      PROVE  A \in T
  <2>1. CASE A = {}
    <3>1. A \cap P = {}
      BY <2>1
    <3> QED
      BY <2>1, <3>1, SumEmpty
  <2>2. CASE A # {}
    <3>1. IsFiniteSet(A) /\ IsFiniteSet(A \cap P)
      BY FS_Subset
    <3>2. PICK t : /\ t \in A
                   /\ SumFunctionOnSet(w, A) = w[t] + SumFunctionOnSet(w, A \ {t})
      BY <2>2, <3>1, SumTaken
    <3>3. SumFunctionOnSet(w, A \ {t}) = SumFunctionOnSet(v, (A \ {t}) \cap P)
      BY <1>1, <3>2
    <3>4. CASE t \in P
      <4>1. (A \ {t}) \cap P = (A \cap P) \ {t}
        OBVIOUS
      <4>2. SumFunctionOnSet(v, A \cap P) = v[t] + SumFunctionOnSet(v, (A \cap P) \ {t})
        BY <3>1, <3>2, <3>4, SumRemove
      <4>3. w[t] = v[t]
        BY <3>2, <3>4
      <4>4. SumFunctionOnSet(w, A) = SumFunctionOnSet(v, A \cap P)
        BY <3>2, <3>3, <4>1, <4>2, <4>3
      <4> QED
        BY <4>4
    <3>5. CASE t \notin P
      <4>1. (A \ {t}) \cap P = A \cap P /\ IsFiniteSet(A \cap P) /\ w[t] = 0
        BY <3>1, <3>2, <3>5
      <4>2. SumFunctionOnSet(v, A \cap P) \in Int
        BY <4>1, SumType
      <4>3. SumFunctionOnSet(w, A \ {t}) = SumFunctionOnSet(v, A \cap P)
        BY <3>3, <4>1
      <4>4. SumFunctionOnSet(w, A) = SumFunctionOnSet(v, A \cap P)
        BY <3>2, <4>1, <4>2, <4>3
      <4> QED
        BY <4>4
    <3> QED
      BY <3>4, <3>5
  <2> QED
    BY <2>1, <2>2
<1> HIDE DEF T
<1>2. S \in T
  BY <1>1, SubsetInduction
<1>3. S \cap P = P
  OBVIOUS
<1> QED
  BY <1>2, <1>3 DEF T

(* The sum of two functions' values is the sum of their sums.                *)
LEMMA SumPlus ==
    ASSUME NEW v, NEW w, NEW u, NEW S, IsFiniteSet(S),
           \A x \in S : v[x] \in Int /\ w[x] \in Int /\ u[x] = v[x] + w[x]
    PROVE  SumFunctionOnSet(u, S) = SumFunctionOnSet(v, S) + SumFunctionOnSet(w, S)
<1> DEFINE T == {A \in SUBSET S : SumFunctionOnSet(u, A) =
                    SumFunctionOnSet(v, A) + SumFunctionOnSet(w, A)}
<1>1. ASSUME NEW A \in SUBSET S, \A B \in SUBSET A : B # A => B \in T
      PROVE  A \in T
  <2>1. CASE A = {}
    BY <2>1, SumEmpty
  <2>2. CASE A # {}
    <3> DEFINE t == Taken(A)
               R == A \ {t}
    <3>1. IsFiniteSet(A) /\ IsFiniteSet(R)
      BY FS_Subset, FS_RemoveElement
    <3>2. /\ t \in A
          /\ SumFunctionOnSet(v, A) = v[t] + SumFunctionOnSet(v, R)
          /\ SumFunctionOnSet(w, A) = w[t] + SumFunctionOnSet(w, R)
          /\ SumFunctionOnSet(u, A) = u[t] + SumFunctionOnSet(u, R)
      BY <2>2, <3>1, SumTaken
    <3> HIDE DEF t
    <3>3. SumFunctionOnSet(u, R) = SumFunctionOnSet(v, R) + SumFunctionOnSet(w, R)
      BY <1>1, <3>2
    <3>4. SumFunctionOnSet(v, R) \in Int /\ SumFunctionOnSet(w, R) \in Int
      BY <3>1, SumType
    <3>5. v[t] \in Int /\ w[t] \in Int /\ u[t] = v[t] + w[t]
      BY <3>2
    <3> HIDE DEF R
    <3> QED
      BY <3>2, <3>3, <3>4, <3>5
  <2> QED
    BY <2>1, <2>2
<1> HIDE DEF T
<1>2. S \in T
  BY <1>1, SubsetInduction
<1> QED
  BY <1>2 DEF T

-----------------------------------------------------------------------------
(* SumFirst, one balance after the other.                                    *)
LEMMA SumFirstSteps ==
    ASSUME NEW vals \in Seq(Int)
    PROVE  /\ SumFirst(vals, 0) = 0
           /\ \A k \in 0..Len(vals) : SumFirst(vals, k) \in Int
           /\ \A k \in 1..Len(vals) :
                 SumFirst(vals, k) = SumFirst(vals, k - 1) + Spendable(vals[k])
<1> DEFINE s == [j \in DOMAIN vals |-> Spendable(vals[j])]
<1>1. Len(vals) \in Nat /\ DOMAIN vals = 1..Len(vals)
  BY LenProperties
<1>2. \A j \in 1..Len(vals) : s[j] = Spendable(vals[j]) /\ s[j] \in Int
  <2> SUFFICES ASSUME NEW j \in 1..Len(vals)
               PROVE  s[j] = Spendable(vals[j]) /\ s[j] \in Int
    OBVIOUS
  <2>1. vals[j] \in Int
    BY <1>1, ElementOfSeq
  <2> QED
    BY <1>1, <2>1 DEF Spendable
<1>3. \A k : SumFirst(vals, k) = SumFunctionOnSet(s, 1..k)
  BY DEF SumFirst
<1> HIDE DEF s
<1>4. SumFirst(vals, 0) = 0
  <2>1. 1..0 = {}
    OBVIOUS
  <2> QED
    BY <1>3, <2>1, SumEmpty
<1>5. ASSUME NEW k \in 0..Len(vals) PROVE SumFirst(vals, k) \in Int
  <2>1. k \in Int /\ 1..k \subseteq 1..Len(vals)
    BY <1>1
  <2>2. IsFiniteSet(1..k) /\ \A j \in 1..k : s[j] \in Int
    BY <1>2, <2>1, FS_Interval
  <2> QED
    BY <1>3, <2>2, SumType
<1>6. ASSUME NEW k \in 1..Len(vals)
      PROVE  SumFirst(vals, k) = SumFirst(vals, k - 1) + Spendable(vals[k])
  <2>1. k \in Int /\ 1..k \subseteq 1..Len(vals) /\ k \in 1..k /\ (1..k) \ {k} = 1..(k - 1)
    BY <1>1
  <2>2. IsFiniteSet(1..k) /\ \A j \in 1..k : s[j] \in Int
    BY <1>2, <2>1, FS_Interval
  <2>3. SumFunctionOnSet(s, 1..k) = s[k] + SumFunctionOnSet(s, 1..(k - 1))
    <3>1. PICK R, c : R = 1..k /\ c = k
      OBVIOUS
    <3>2. IsFiniteSet(R) /\ (\A j \in R : s[j] \in Int) /\ c \in R
      BY <2>1, <2>2, <3>1
    <3>3. SumFunctionOnSet(s, R) = s[c] + SumFunctionOnSet(s, R \ {c})
      BY <3>2, SumRemove
    <3> QED
      BY <2>1, <3>1, <3>3
  <2>4. SumFirst(vals, k - 1) \in Int
    BY <1>1, <1>5
  <2> QED
    BY <1>2, <1>3, <2>3, <2>4
<1> QED
  BY <1>4, <1>5, <1>6

(* The walk stops at the first balance that covers the payment.              *)
LEMMA LastInputCovers ==
    ASSUME NEW vals \in Seq(Int), NEW total \in Int,
           Len(vals) > 0, total <= TotalValue(vals)
    PROVE  /\ LastInput(vals, total) \in 1..Len(vals)
           /\ SumFirst(vals, LastInput(vals, total)) >= total
           /\ Remainder(vals, total) \in Nat
<1> DEFINE Covering == {k \in 1..Len(vals) : SumFirst(vals, k) >= total}
<1>1. Len(vals) \in Nat
  BY LenProperties
<1>2. Len(vals) \in Covering /\ Covering \subseteq Nat
  BY <1>1, SumFirstSteps DEF TotalValue
<1>3. LastInput(vals, total) = CHOOSE x \in Covering : \A y \in Covering : x <= y
  BY DEF LastInput, Min
<1>4. \E x \in Covering : \A y \in Covering : x <= y
  <2> HIDE DEF Covering
  <2> QED
    BY <1>2, LeastElement
<1>5. LastInput(vals, total) \in Covering
  <2> HIDE DEF Covering
  <2> QED
    BY <1>3, <1>4
<1>6. Remainder(vals, total) \in Nat
  <2>1. SumFirst(vals, LastInput(vals, total)) \in Int
    BY <1>1, <1>5, SumFirstSteps
  <2> QED
    BY <1>5, <2>1 DEF Remainder
<1> QED
  BY <1>5, <1>6

(* It is the only one before which the payment is not yet covered.           *)
LEMMA LastInputUnique ==
    ASSUME NEW vals \in Seq(Int), NEW total \in Int, NEW k \in 1..Len(vals),
           SumFirst(vals, k - 1) < total, SumFirst(vals, k) >= total
    PROVE  LastInput(vals, total) = k
<1> DEFINE Covering == {j \in 1..Len(vals) : SumFirst(vals, j) >= total}
<1>1. Len(vals) \in Nat
  BY LenProperties
<1>2. \A j \in 1..Len(vals) : SumFirst(vals, j) >= SumFirst(vals, j - 1)
  <2> SUFFICES ASSUME NEW j \in 1..Len(vals)
               PROVE  SumFirst(vals, j) >= SumFirst(vals, j - 1)
    OBVIOUS
  <2>1. vals[j] \in Int
    BY <1>1, ElementOfSeq
  <2>2. Spendable(vals[j]) \in Nat
    BY <2>1 DEF Spendable
  <2>3. SumFirst(vals, j - 1) \in Int /\ SumFirst(vals, j) = SumFirst(vals, j - 1) + Spendable(vals[j])
    BY <1>1, SumFirstSteps
  <2> QED
    BY <2>2, <2>3
<1>3. \A j \in 0..Len(vals) : SumFirst(vals, j) \in Int
  BY SumFirstSteps
<1>4. \A j \in 1..(k - 1) : SumFirst(vals, j) < total
  <2> DEFINE Short == {n \in Nat : k - 1 - n >= 1 => SumFirst(vals, k - 1 - n) < total}
  <2>1. 0 \in Short
    OBVIOUS
  <2>2. ASSUME NEW n \in Nat, n \in Short PROVE n + 1 \in Short
    <3> SUFFICES ASSUME k - 1 - (n + 1) >= 1
                 PROVE  SumFirst(vals, k - 1 - (n + 1)) < total
      OBVIOUS
    <3> DEFINE m == k - 1 - n
    <3>1. m \in 1..Len(vals) /\ m - 1 = k - 1 - (n + 1) /\ m - 1 \in 0..Len(vals)
      BY <1>1
    <3>2. SumFirst(vals, m) < total
      BY <2>2
    <3>3. SumFirst(vals, m) \in Int /\ SumFirst(vals, m - 1) \in Int
          /\ SumFirst(vals, m) >= SumFirst(vals, m - 1)
      BY <1>1, <1>2, <1>3, <3>1
    <3>4. SumFirst(vals, m - 1) < total
      BY <3>2, <3>3
    <3> QED
      BY <3>1, <3>4
  <2> HIDE DEF Short
  <2>3. Nat \subseteq Short
    BY <2>1, <2>2, NatSetInduction
  <2> USE DEF Short
  <2> SUFFICES ASSUME NEW j \in 1..(k - 1) PROVE SumFirst(vals, j) < total
    OBVIOUS
  <2>4. k - 1 - j \in Nat /\ k - 1 - (k - 1 - j) = j
    OBVIOUS
  <2>5. k - 1 - j \in Short
    BY <2>3, <2>4
  <2> QED
    BY <2>4, <2>5
<1>5. k \in Covering /\ \A j \in Covering : k <= j
  <2>1. ASSUME NEW j \in Covering, j < k PROVE FALSE
    <3>1. j \in 1..(k - 1) /\ SumFirst(vals, j) \in Int
      BY <1>1, <1>3, <2>1
    <3> QED
      BY <1>4, <2>1, <3>1
  <2> QED
    BY <1>1, <2>1
<1>6. LastInput(vals, total) = CHOOSE x \in Covering : \A y \in Covering : x <= y
  BY DEF LastInput, Min
<1>7. Covering \subseteq Nat
  BY <1>1
<1> HIDE DEF Covering
<1>8. \A x \in Covering : (\A y \in Covering : x <= y) => x = k
  BY <1>5, <1>7
<1> QED
  BY <1>5, <1>6, <1>8
=============================================================================
