--------------------------- MODULE AlgorithmProofs ---------------------------
(* What the algorithms promise for inputs of any size: PrepareTransfers,     *)
(* then getNewAddress, the chains of a signature, several cosigners, and the *)
(* codecs of numbers, text and transactions.                                 *)
(*                                                                           *)
(* For the first: totalValueWithChange leaves in sum[j] the spendable value  *)
(* of the first j balances, and addRemainder, which walks the same balances, *)
(* has at position i taken exactly sum[i-1] of the payment.  So the bundle's *)
(* value and what is still to be covered go down together, and the payment,  *)
(* being no more than the last sum, is covered before the balances end.      *)
EXTENDS Transfer, SearchSteps, HashChains, Multisig, TxObject, SpendingProofs

(* The first loop's bookkeeping: sum is right up to position k.              *)
SumsRight(k) ==
    /\ sum[0] = 0
    /\ \A j \in 1..k : sum[j] = sum[j-1] + Spendable(before[j].value)

Adding ==
    pc = "total" =>
        /\ balances = before
        /\ i <= Len(before) + 1
        /\ SumsRight(i - 1)
        /\ net = total /\ total = asked

Walking ==
    pc = "inputs" =>
        /\ Len(balances) = Len(before)
        /\ i <= Len(before) + 1
        /\ SumsRight(Len(before))
        /\ asked <= sum[Len(before)]
        /\ net = total /\ total > 0
        /\ total = asked - sum[i-1]
        /\ \A j \in i..Len(before) : balances[j] = before[j]
        /\ \A j \in 1..(i-1) : balances[j] # before[j] <=> before[j].value > 0

IInv == /\ TypeOK
        /\ Adding
        /\ Walking
        /\ SignedIsBalanced
        /\ NeverRunsOut
        /\ OnlyDrains
        /\ LoopMatchesClosedForm

USE TransferAssumption

(* What totalValueWithChange has added up is Spending's SumFirst.            *)
LEMMA SumsAreClosedForm ==
    ASSUME TypeOK, SumsRight(Len(before))
    PROVE  /\ ValuesOf(before) \in Seq(Int)
           /\ Len(ValuesOf(before)) = Len(before)
           /\ \A k \in 0..Len(before) : SumFirst(ValuesOf(before), k) = sum[k]
<1> DEFINE vals == ValuesOf(before)
           Right == {k \in Nat : k <= Len(before) => SumFirst(vals, k) = sum[k]}
<1>1. /\ before \in Seq(Balance(Int, Int)) /\ Len(before) \in Nat
      /\ DOMAIN before = 1..Len(before)
  BY LenProperties DEF TypeOK
<1>2. \A j \in 1..Len(before) : before[j].value \in Int
  <2> SUFFICES ASSUME NEW j \in 1..Len(before) PROVE before[j].value \in Int
    OBVIOUS
  <2>1. before[j] \in Balance(Int, Int)
    BY <1>1, ElementOfSeq
  <2> QED
    BY <2>1 DEF Balance
<1>3. vals = [j \in 1..Len(before) |-> before[j].value]
  BY <1>1 DEF ValuesOf
<1>4. vals \in [1..Len(before) -> Int] /\ \A j \in 1..Len(before) : vals[j] = before[j].value
  BY <1>2, <1>3
<1> HIDE DEF vals
<1>5. vals \in Seq(Int) /\ Len(vals) = Len(before)
  BY <1>1, <1>4, IsASeq
<1>6. 0 \in Right
  BY <1>1, <1>5, SumFirstSteps DEF SumsRight
<1>7. ASSUME NEW k \in Nat, k \in Right PROVE k + 1 \in Right
  <2> SUFFICES ASSUME k + 1 <= Len(before) PROVE SumFirst(vals, k + 1) = sum[k + 1]
    OBVIOUS
  <2>1. k + 1 \in 1..Len(before) /\ (k + 1) - 1 = k
    BY <1>1
  <2>2. SumFirst(vals, k + 1) = SumFirst(vals, k) + Spendable(before[k + 1].value)
    BY <1>4, <1>5, <2>1, SumFirstSteps
  <2>3. sum[k + 1] = sum[k] + Spendable(before[k + 1].value)
    BY <2>1 DEF SumsRight
  <2>4. SumFirst(vals, k) = sum[k]
    BY <1>1, <1>7, <2>1
  <2> QED
    BY <2>2, <2>3, <2>4
<1> HIDE DEF Right
<1>8. Nat \subseteq Right
  BY <1>6, <1>7, NatSetInduction
<1>9. \A k \in 0..Len(before) : SumFirst(vals, k) = sum[k]
  BY <1>1, <1>8 DEF Right
<1> QED
  BY <1>5, <1>9 DEF vals

(* The initial state: nothing added up, nothing taken.                       *)
LEMMA InitIInv == Init => IInv
<1> SUFFICES ASSUME Init PROVE IInv
  OBVIOUS
<1> USE DEF Init
<1>1. before \in Seq(Balance(Int, Int))
  <2>1. PICK n \in 0..MaxLen : before \in [1..n -> Balance(Values, Changes)]
    OBVIOUS
  <2>2. before \in [1..n -> Balance(Int, Int)]
    BY <2>1 DEF Balance
  <2> QED
    BY <2>2, IsASeq
<1>2. TypeOK
  BY <1>1, LenProperties DEF TypeOK
<1>3. OnlyDrains
  BY <1>1, LenProperties DEF OnlyDrains, NewAddresses
<1> QED
  BY <1>1, <1>2, <1>3, LenProperties
     DEF IInv, Adding, Walking, SumsRight, SignedIsBalanced, NeverRunsOut,
         LoopMatchesClosedForm

(* Every iteration of either loop keeps the bookkeeping.                     *)
LEMMA NextIInv == IInv /\ [Next]_vars => IInv'
<1> SUFFICES ASSUME IInv, [Next]_vars PROVE IInv'
  OBVIOUS
<1> USE DEF IInv
<1>t. /\ before \in Seq(Balance(Int, Int)) /\ balances \in Seq(Balance(Int, Int))
      /\ asked \in Int /\ total \in Int /\ net \in Int /\ i \in Nat \ {0}
      /\ Len(before) \in Nat /\ Len(balances) \in Nat
      /\ DOMAIN before = 1..Len(before)
      /\ sum \in [0..Len(before) -> Int]
  BY LenProperties DEF TypeOK
<1>1. CASE NoInputNeeded
  BY <1>1, <1>t DEF NoInputNeeded, TypeOK, Outcomes, Adding, Walking, SignedIsBalanced,
                    NeverRunsOut, OnlyDrains, NewAddresses, LoopMatchesClosedForm
<1>2. CASE AddUp
  <2> USE <1>2 DEF AddUp
  <2>1. i \in 1..Len(before) /\ balances = before
    BY <1>t DEF Adding
  <2>2. Counted(balances[i]) = Spendable(before[i].value) /\ Counted(balances[i]) \in Int
    <3>1. before[i] \in Balance(Int, Int)
      BY <2>1, <1>t, ElementOfSeq
    <3> QED
      BY <3>1, <2>1 DEF Counted, Spendable, Balance
  <2>3. /\ sum' \in [0..Len(before) -> Int]
        /\ sum'[i] = sum[i-1] + Spendable(before[i].value)
        /\ \A j \in 0..(i-1) : sum'[j] = sum[j]
    BY <2>1, <2>2, <1>t
  <2>4. TypeOK'
    BY <2>3, <1>t DEF TypeOK
  <2>5. Adding'
    BY <2>1, <2>3, <1>t DEF Adding, SumsRight
  <2>6. Walking' /\ SignedIsBalanced' /\ NeverRunsOut' /\ OnlyDrains' /\ LoopMatchesClosedForm'
    BY <1>t DEF Walking, SignedIsBalanced, NeverRunsOut, OnlyDrains, NewAddresses,
                LoopMatchesClosedForm
  <2> QED
    BY <2>4, <2>5, <2>6
<1>3. CASE CompareTotal
  <2> USE <1>3 DEF CompareTotal
  <2>1. balances = before /\ i = Len(before) + 1 /\ SumsRight(Len(before))
    BY <1>t DEF Adding
  <2>2. TypeOK'
    BY <1>t DEF TypeOK, Outcomes
  <2>3. Walking'
    BY <2>1, <1>t DEF Walking, Adding, SumsRight
  <2> QED
    BY <2>1, <2>2, <2>3, <1>t
       DEF Adding, SignedIsBalanced, NeverRunsOut, OnlyDrains, NewAddresses,
           LoopMatchesClosedForm
<1>4. CASE PassOver
  <2> USE <1>4 DEF PassOver
  <2>1. i \in 1..Len(before)
    BY <1>t DEF Walking
  <2>2. before[i] \in Balance(Int, Int) /\ balances[i] = before[i] /\ before[i].value \in Int
    <3>1. before[i] \in Balance(Int, Int)
      BY <2>1, <1>t, ElementOfSeq
    <3>2. balances[i] = before[i]
      <4>1. \A j \in i..Len(before) : balances[j] = before[j]
        BY DEF Walking
      <4> QED
        BY <2>1, <4>1, <1>t
    <3> QED
      BY <3>1, <3>2 DEF Balance
  <2>3. sum[i] = sum[i-1]
    <3>1. sum[i] = sum[i-1] + Spendable(before[i].value) /\ sum[i-1] \in Int
      BY <2>1, <1>t DEF Walking, SumsRight
    <3>2. NothingToSpend(before[i].value)
      BY <2>1, <2>2, <1>t DEF Walking
    <3> QED
      BY <3>1, <3>2, <2>2 DEF NothingToSpend, Spendable
  <2>4. i' = i + 1 /\ UNCHANGED <<pc, balances>>
    BY <2>1, <1>t DEF Walking
  <2>5. \A j \in 1..(i'-1) : balances'[j] # before'[j] <=> before'[j].value > 0
    <3>0. NothingToSpend(before[i].value)
      BY <2>1, <2>2, <1>t DEF Walking
    <3>1. before[i].value <= 0
      BY <2>2, <3>0 DEF NothingToSpend
    <3>2. \A j \in 1..(i-1) : balances[j] # before[j] <=> before[j].value > 0
      BY DEF Walking
    <3>3. ASSUME NEW j \in 1..i PROVE balances[j] # before[j] <=> before[j].value > 0
      <4>1. j \in 1..(i-1) \/ j = i
        BY <1>t
      <4> QED
        BY <2>2, <3>1, <3>2, <4>1
    <3>4. i' - 1 = i /\ balances' = balances /\ before' = before
      BY <2>4, <1>t
    <3> QED
      BY <3>3, <3>4
  <2>6. Walking'
    BY <2>1, <2>3, <2>4, <2>5, <1>t DEF Walking, SumsRight
  <2> QED
    BY <2>4, <2>6, <1>t
       DEF TypeOK, Adding, SignedIsBalanced, NeverRunsOut, OnlyDrains, NewAddresses,
           LoopMatchesClosedForm
<1>5. CASE TakeInput
  <2>0. PICK value, drained, surplus :
           /\ value = balances[i].value
           /\ drained = [balances EXCEPT ![i].value = 0]
           /\ surplus = Surplus
    OBVIOUS
  <2>a. /\ pc = "inputs" /\ i' = i + 1
        /\ before' = before /\ asked' = asked /\ sum' = sum
        /\ i <= Len(balances) /\ ~NothingToSpend(value)
    BY <1>5, <2>0 DEF TakeInput
  <2>b. /\ Len(balances) = Len(before)
        /\ SumsRight(Len(before))
        /\ \A j \in i..Len(before) : balances[j] = before[j]
        /\ asked <= sum[Len(before)]
        /\ net = total /\ total = asked - sum[i-1]
    BY <2>a, <1>t DEF Walking
  <2>q. total > 0 /\ \A j \in 1..(i-1) : balances[j] # before[j] <=> before[j].value > 0
    BY <2>a DEF Walking
  <2>1. /\ IF surplus > 0
           THEN /\ balances' = Append(drained, [value |-> 0, change |-> surplus])
                /\ net' = net - value + surplus
                /\ pc' = "signed" /\ total' = total
           ELSE /\ balances' = drained
                /\ net' = net - value /\ total' = total - value
                /\ pc' = IF total' = 0 THEN "signed" ELSE "inputs"
    BY <1>5, <2>0 DEF TakeInput
  <2>2. /\ i \in 1..Len(before) /\ Len(balances) = Len(before)
        /\ balances[i] = before[i]
        /\ net = total /\ total = asked - sum[i-1]
    BY <2>a, <2>b, <1>t
  <2>3. balances[i] \in Balance(Int, Int) /\ value \in Int /\ value > 0
    <3>1. balances[i] \in Balance(Int, Int)
      BY <2>2, <1>t, ElementOfSeq
    <3>2. value \in Int
      BY <3>1, <2>0 DEF Balance
    <3> QED
      BY <3>1, <3>2, <2>a DEF NothingToSpend
  <2>4. surplus = value - total /\ surplus \in Int
    BY <2>0, <2>3, <1>t DEF Surplus
  <2>5. sum[i] = sum[i-1] + value /\ sum[i-1] \in Int /\ sum[i] \in Int
    <3>1. sum[i] = sum[i-1] + Spendable(before[i].value) /\ sum[i-1] \in Int
      BY <2>b, <2>2, <1>t DEF SumsRight
    <3>2. Spendable(before[i].value) = value
      BY <2>0, <2>2, <2>3 DEF Spendable
    <3> QED
      BY <3>1, <3>2, <2>3
  <2>6. /\ drained \in Seq(Balance(Int, Int))
        /\ Len(drained) = Len(before)
        /\ drained[i] = [before[i] EXCEPT !.value = 0]
        /\ \A j \in 1..Len(before) : j # i => drained[j] = balances[j]
    <3>1. [balances[i] EXCEPT !.value = 0] \in Balance(Int, Int)
      BY <2>3 DEF Balance
    <3>2. drained = [balances EXCEPT ![i] = [balances[i] EXCEPT !.value = 0]]
      BY <2>0
    <3> QED
      BY <3>1, <3>2, <2>2, <1>t, ExceptSeq
  <2>7. \A j \in 1..Len(before) :
           \/ drained[j] = before[j]
           \/ before[j].value > 0 /\ drained[j] = [before[j] EXCEPT !.value = 0]
    BY <2>0, <2>2, <2>3, <2>6, <1>t DEF OnlyDrains
  (* The walk has passed the balances before i and drained those it could. *)
  <2>p. \A j \in 1..i : drained[j] # before[j] <=> before[j].value > 0
    <3> SUFFICES ASSUME NEW j \in 1..i
                 PROVE  drained[j] # before[j] <=> before[j].value > 0
      OBVIOUS
    <3>1. CASE j = i
      <4>1. drained[i].value = 0
        BY <2>2, <2>3, <2>6 DEF Balance
      <4>2. before[i].value = value /\ value > 0 /\ value # 0
        BY <2>0, <2>2, <2>3
      <4> QED
        BY <3>1, <4>1, <4>2
    <3>2. CASE j # i
      <4>1. j \in 1..(i-1) /\ j \in 1..Len(before)
        BY <2>2, <3>2, <1>t
      <4>2. drained[j] = balances[j]
        BY <2>6, <3>2, <4>1
      <4> QED
        BY <2>q, <4>1, <4>2
    <3> QED
      BY <3>1, <3>2
  (* If it ends here, it ends where the closed form says.                  *)
  <2>c. ASSUME surplus >= 0
        PROVE  LET vals == ValuesOf(before)
               IN  /\ Inputs(vals, asked) = {j \in DOMAIN before : drained[j] # before[j]}
                   /\ Remainder(vals, asked) = surplus
    <3> DEFINE vals == ValuesOf(before)
    <3>1. /\ vals \in Seq(Int) /\ Len(vals) = Len(before)
          /\ \A k \in 0..Len(before) : SumFirst(vals, k) = sum[k]
      BY <2>b, <1>t, SumsAreClosedForm
    <3>2. /\ SumFirst(vals, i - 1) < asked /\ SumFirst(vals, i) >= asked
          /\ SumFirst(vals, i) - asked = surplus
      <4>1. SumFirst(vals, i - 1) = sum[i-1] /\ SumFirst(vals, i) = sum[i]
        BY <2>2, <3>1, <1>t
      <4>2. total > 0
        BY <2>q
      <4>3. sum[i-1] = asked - total /\ sum[i] = (asked - total) + value
        BY <2>2, <2>5, <1>t
      <4> QED
        BY <2>3, <2>4, <2>c, <4>1, <4>2, <4>3, <1>t
    <3>3. \A j \in DOMAIN before : vals[j] = before[j].value
      BY DEF ValuesOf
    <3> HIDE DEF vals
    <3>4. LastInput(vals, asked) = i
      BY <2>2, <3>1, <3>2, <1>t, LastInputUnique
    <3>5. Inputs(vals, asked) = {j \in 1..i : before[j].value > 0}
      <4>1. \A j \in 1..i : vals[j] = before[j].value
        BY <2>2, <3>3, <1>t
      <4> QED
        BY <3>4, <4>1 DEF Inputs
    <3>6. \A j \in (i+1)..Len(before) : drained[j] = before[j]
      BY <2>b, <2>2, <2>6, <1>t
    <3>7. \A j \in DOMAIN before : j \in 1..i \/ j \in (i+1)..Len(before)
      BY <2>2, <1>t
    <3>8. 1..i \subseteq DOMAIN before
      BY <2>2, <1>t
    <3>9. Inputs(vals, asked) = {j \in DOMAIN before : drained[j] # before[j]}
      <4>1. ASSUME NEW j \in DOMAIN before
            PROVE  j \in 1..i /\ before[j].value > 0 <=> drained[j] # before[j]
        BY <2>p, <3>6, <3>7, <2>2, <1>t
      <4> QED
        BY <3>5, <3>8, <4>1
    <3> QED
      BY <3>2, <3>4, <3>9 DEF Remainder, vals
  <2>8. CASE surplus > 0
    <3>1. PICK new : new = [value |-> 0, change |-> surplus]
      OBVIOUS
    <3>2. new \in Balance(Int, Int)
      BY <3>1, <2>4 DEF Balance
    <3>3. balances' = Append(drained, new) /\ pc' = "signed" /\ total' = total
      BY <2>1, <2>8, <3>1
    <3>4. /\ balances' \in Seq(Balance(Int, Int))
          /\ Len(balances') = Len(before) + 1
          /\ \A j \in 1..Len(before) : balances'[j] = drained[j]
      BY <3>2, <3>3, <2>6, AppendProperties
    <3>5. net' = 0
      BY <2>1, <2>2, <2>3, <2>4, <2>8, <1>t
    <3>6. OnlyDrains'
      BY <2>a, <3>4, <2>7, <1>t DEF OnlyDrains, NewAddresses
    <3>7. TypeOK'
      BY <2>a, <3>3, <3>4, <3>5, <1>t DEF TypeOK, Outcomes
    <3>8. LoopMatchesClosedForm'
      <4>1. \A j \in DOMAIN before : balances'[j] = drained[j]
        BY <3>4, <1>t
      <4>2. {j \in DOMAIN before : balances'[j] # before[j]} = Inputs(ValuesOf(before), asked)
        BY <2>c, <2>8, <2>4, <4>1
      <4>3. NewAddresses' = 1
        BY <2>a, <3>4, <1>t DEF NewAddresses
      <4>4. balances'[Len(before) + 1] = new
        BY <3>2, <3>3, <2>6, AppendProperties
      <4>5. NewChange' = surplus
        BY <3>1, <3>4, <4>3, <4>4 DEF NewChange
      <4>6. Remainder(ValuesOf(before), asked) = surplus
        BY <2>c, <2>4, <2>8
      <4> QED
        BY <2>a, <2>4, <2>8, <4>2, <4>3, <4>5, <4>6 DEF LoopMatchesClosedForm, ValuesOf
    <3> QED
      BY <3>3, <3>5, <3>6, <3>7, <3>8 DEF Adding, Walking, SignedIsBalanced, NeverRunsOut
  <2>9. CASE ~(surplus > 0)
    <3>1. /\ balances' = drained
          /\ net' = net - value /\ total' = total - value
          /\ pc' = IF total' = 0 THEN "signed" ELSE "inputs"
      BY <2>1, <2>9
    <3>2. net' = total' /\ total' \in Int /\ total' >= 0
      BY <3>1, <2>2, <2>3, <2>4, <2>9, <1>t
    <3>3. total' = asked - sum[i]
      BY <3>1, <2>2, <2>3, <2>5, <1>t
    <3>4. TypeOK'
      BY <2>a, <3>1, <3>2, <2>6, <1>t DEF TypeOK, Outcomes
    <3>5. OnlyDrains'
      BY <2>a, <3>1, <2>6, <2>7, <1>t DEF OnlyDrains, NewAddresses
    <3>6. Walking'
      <4>1. \A j \in (i+1)..Len(before) : drained[j] = before[j]
        <5> SUFFICES ASSUME NEW j \in (i+1)..Len(before) PROVE drained[j] = before[j]
          OBVIOUS
        <5> QED
          BY <2>b, <2>2, <2>6, <1>t
      <4>2. SumsRight(Len(before))'
        BY <2>a, <2>b DEF SumsRight
      <4>3. /\ Len(balances') = Len(before') /\ i' <= Len(before') + 1
            /\ net' = total' /\ (pc' = "inputs" => total' > 0)
        BY <2>a, <2>2, <2>6, <3>1, <3>2, <1>t
      <4>4. asked' <= sum'[Len(before')] /\ total' = asked' - sum'[i' - 1]
        BY <2>a, <2>b, <3>3, <1>t
      <4>5. \A j \in i'..Len(before') : balances'[j] = before'[j]
        BY <2>a, <3>1, <4>1
      <4>6. \A j \in 1..(i'-1) : balances'[j] # before'[j] <=> before'[j].value > 0
        BY <2>a, <2>p, <3>1, <1>t
      <4> QED
        BY <2>a, <4>2, <4>3, <4>4, <4>5, <4>6 DEF Walking
    <3>7. LoopMatchesClosedForm'
      <4> SUFFICES ASSUME pc' = "signed" PROVE LoopMatchesClosedForm'
        BY DEF LoopMatchesClosedForm
      <4>1. surplus = 0
        BY <2>4, <2>2, <2>3, <3>1, <1>t
      <4>2. {j \in DOMAIN before : balances'[j] # before[j]} = Inputs(ValuesOf(before), asked)
        BY <2>c, <3>1, <4>1
      <4>3. NewAddresses' = 0
        BY <2>a, <2>6, <3>1, <1>t DEF NewAddresses
      <4>4. Remainder(ValuesOf(before), asked) = 0
        BY <2>c, <4>1
      <4> QED
        BY <2>a, <4>2, <4>3, <4>4 DEF LoopMatchesClosedForm, ValuesOf, NewChange
    <3> QED
      BY <3>1, <3>2, <3>4, <3>5, <3>6, <3>7 DEF Adding, SignedIsBalanced, NeverRunsOut
  <2> QED
    BY <2>8, <2>9
<1>6. CASE UNCHANGED vars
  BY <1>6 DEF vars, TypeOK, Adding, Walking, SumsRight, SignedIsBalanced, NeverRunsOut,
              OnlyDrains, NewAddresses, LoopMatchesClosedForm, NewChange, ValuesOf
<1> QED
  BY <1>1, <1>2, <1>3, <1>4, <1>5, <1>6 DEF Next

(* The bookkeeping holds throughout.                                         *)
THEOREM Inductive == Spec => []IInv
  BY InitIInv, NextIInv, PTL DEF Spec

(* A signed bundle adds up to zero, for any account and any payment.         *)
THEOREM BundleBalanced == Spec => []SignedIsBalanced
  BY Inductive, PTL DEF IInv

(* The check against totalValueWithChange is enough: once it has passed, the *)
(* walk covers the payment, and "insufficient balance" is never returned.    *)
THEOREM CheckSuffices == Spec => []NeverRunsOut
  BY Inductive, PTL DEF IInv

(* The walk drains whole addresses and leaves every other as it was.         *)
THEOREM WalkDrains == Spec => []OnlyDrains
  BY Inductive, PTL DEF IInv

(* The closed form Wallet uses for a payment is what the loops compute.      *)
THEOREM ClosedFormIsRight == Spec => []LoopMatchesClosedForm
  BY Inductive, PTL DEF IInv

-----------------------------------------------------------------------------
(* The other loop of numbers is getNewAddress's.  While it strides up, the   *)
(* index asked about last is used, or is the first.  Once an unused one is   *)
(* known, the search is between min, the highest used one known, and max,    *)
(* the lowest unused one known: it has just come down to max or up to min,   *)
(* and halves what is between; or it is over, at max, next to min.           *)
Striding ==
    /\ search.plus = Stride
    /\ search.end >= search.index
    /\ search.end = search.index \/ search.end \in used

MinIsUsed ==
    /\ search.min >= search.index
    /\ search.min = search.index \/ search.min \in used

CameDown ==
    /\ search.end = search.max /\ search.min < search.max
    /\ search.plus = IF search.max = 1 THEN -1 ELSE -((search.max - search.min) \div 2)
    /\ search.plus # 0

CameUp ==
    /\ search.end = search.min /\ search.min < search.max
    /\ search.plus = (search.max - search.min) \div 2
    /\ search.plus # 0

(* It ends next to a used index, or to the one it was given, if that is not  *)
(* 0; or at 0 itself.                                                        *)
AtTheEnd ==
    /\ search.plus = 0 /\ search.end = search.max
    /\ \/ search.max = search.min + 1 /\ (search.min \in used \/ search.index # 0)
       \/ search.max = 0 /\ search.min = 0 /\ search.index = 0

Halving ==
    /\ search.max \in Nat /\ search.max \notin used
    /\ MinIsUsed
    /\ CameDown \/ CameUp \/ AtTheEnd

Searches == [index : Nat, plus : Int, end : Nat, min : Nat, max : Int, found : BOOLEAN]

SearchTypes == used \subseteq Nat /\ search \in Searches

SearchInv ==
    /\ SearchTypes
    /\ IF search.found THEN Halving ELSE Striding

LEMMA SearchInitInv == SearchInit(SUBSET Nat, Nat) => SearchInv
<1> SUFFICES ASSUME used \in SUBSET Nat, NEW index \in Nat, search = SearchFrom(index)
             PROVE SearchInv
  BY DEF SearchInit
<1>1. search = [index |-> index, plus |-> Stride, end |-> index, min |-> index,
                max |-> -1, found |-> FALSE]
  BY DEF SearchFrom
<1>2. search \in Searches
  BY <1>1, SearchAssumption DEF Searches
<1> QED BY <1>1, <1>2 DEF SearchInv, SearchTypes, Striding

(* What an answer makes of the search: the variables that are assigned to.   *)
LEMMA UsedTells ==
    ASSUME NEW s, NEW index, NEW plus, NEW end, NEW min, NEW max, NEW found,
           s = [index |-> index, plus |-> plus, end |-> end, min |-> min, max |-> max,
                found |-> found]
    PROVE  LET next == IF found THEN (max - end) \div 2 ELSE plus
           IN  Used(s) = [index |-> index, plus |-> next,
                          end |-> IF next = 0 THEN end + 1 ELSE end,
                          min |-> IF found THEN end ELSE min, max |-> max, found |-> found]
<1> DEFINE next == IF found THEN (max - end) \div 2 ELSE plus
<1>1. (IF s.found THEN (s.max - s.end) \div 2 ELSE s.plus) = next
  OBVIOUS
<1> HIDE DEF next
<1>2. Used(s) = [s EXCEPT !.min = IF s.found THEN s.end ELSE @, !.plus = next,
                  !.end = IF next = 0 THEN @ + 1 ELSE @]
  BY <1>1 DEF Used
<1>3. Used(s) = [index |-> index, plus |-> next,
                 end |-> IF next = 0 THEN end + 1 ELSE end,
                 min |-> IF found THEN end ELSE min, max |-> max, found |-> found]
  BY <1>2
<1> QED BY <1>3 DEF next

LEMMA UnusedTells ==
    ASSUME NEW s, NEW index, NEW plus, NEW end, NEW min, NEW max, NEW found,
           s = [index |-> index, plus |-> plus, end |-> end, min |-> min, max |-> max,
                found |-> found]
    PROVE  LET low == IF found THEN min ELSE end - plus
           IN  Unused(s) = [index |-> index,
                            plus |-> IF end = 1 THEN -1 ELSE -((end - low) \div 2),
                            end |-> end, min |-> low, max |-> end, found |-> TRUE]
<1> DEFINE low == IF found THEN min ELSE end - plus
<1>1. (IF s.found THEN s.min ELSE s.end - s.plus) = low
  OBVIOUS
<1> HIDE DEF low
<1>2. Unused(s) = [s EXCEPT !.found = TRUE, !.min = low, !.max = s.end,
                    !.plus = IF s.end = 1 THEN -1 ELSE -((s.end - low) \div 2)]
  BY <1>1 DEF Unused
<1>3. Unused(s) = [index |-> index,
                   plus |-> IF end = 1 THEN -1 ELSE -((end - low) \div 2),
                   end |-> end, min |-> low, max |-> end, found |-> TRUE]
  BY <1>2
<1> QED BY <1>3 DEF low

LEMMA SearchStepInv == SearchInv /\ SearchStep => SearchInv' /\ Narrows
<1> SUFFICES ASSUME SearchInv, SearchStep PROVE SearchInv' /\ Narrows
  OBVIOUS
<1> DEFINE s == search
           probe == s.end + s.plus
<1>0. /\ used \subseteq Nat /\ used' = used
      /\ s \in Searches
      /\ s.index \in Nat /\ s.plus \in Int /\ s.end \in Nat /\ s.min \in Nat /\ s.max \in Int
      /\ s.found \in BOOLEAN
      /\ Stride \in Nat /\ Stride > 0
      /\ s.plus # 0
  BY SearchAssumption DEF SearchInv, SearchTypes, SearchStep, Goes, Searches
<1>1. NextProbe(s) = [index |-> s.index, plus |-> s.plus, end |-> probe,
                      min |-> s.min, max |-> s.max, found |-> s.found]
  BY <1>0 DEF NextProbe, Searches
<1>u. probe \in used => search' = Used(NextProbe(s))
  BY <1>1 DEF SearchStep, AfterAnswer
<1>n. probe \notin used => search' = Unused(NextProbe(s))
  BY <1>1 DEF SearchStep, AfterAnswer
<1>2. CASE ~ s.found
  <2>1. Striding /\ probe = s.end + Stride /\ probe \in Nat
    BY <1>0, <1>2 DEF SearchInv, Striding
  <2>2. CASE probe \in used
    <3>1. search' = NextProbe(s)
      BY <1>0, <1>1, <1>2, <1>u, <2>2, UsedTells
    <3> QED
      BY <1>0, <1>1, <1>2, <2>1, <2>2, <3>1
         DEF SearchInv, SearchTypes, Searches, Striding, Narrows
  <2>3. CASE probe \notin used
    <3> DEFINE plus == IF probe = 1 THEN -1 ELSE -((probe - s.end) \div 2)
    <3>1. search' = [index |-> s.index, plus |-> plus, end |-> probe,
                     min |-> s.end, max |-> probe, found |-> TRUE]
      <4> DEFINE p == NextProbe(s)
                 low == IF s.found THEN s.min ELSE p.end - p.plus
      <4>1. Unused(p) =
                [index |-> s.index, plus |-> IF p.end = 1 THEN -1 ELSE -((p.end - low) \div 2),
                 end |-> p.end, min |-> low, max |-> p.end, found |-> TRUE]
        <5>1. p = [index |-> s.index, plus |-> p.plus, end |-> p.end,
                   min |-> s.min, max |-> s.max, found |-> s.found]
          BY <1>1
        <5> HIDE DEF p
        <5> QED BY <5>1, UnusedTells
      <4>2. p.end = probe /\ low = s.end
        BY <1>0, <1>1, <1>2
      <4> HIDE DEF low, p
      <4> QED BY <1>n, <2>3, <4>1, <4>2 DEF p
    <3>2. plus \in Int
      BY <1>0, <2>1
    <3>3. plus = 0 => s.end + 1 = probe /\ (s.end \in used \/ s.index # 0)
      BY <1>0, <2>1 DEF Striding
    <3>4. SearchTypes'
      BY <1>0, <2>1, <3>1, <3>2 DEF SearchTypes, Searches
    <3>5. MinIsUsed'
      BY <1>0, <2>1, <3>1 DEF Striding, MinIsUsed
    <3>6. CameDown' \/ AtTheEnd'
      BY <1>0, <2>1, <3>1, <3>2, <3>3 DEF CameDown, AtTheEnd
    <3> QED
      BY <1>0, <1>2, <2>1, <2>3, <3>1, <3>4, <3>5, <3>6
         DEF SearchInv, Halving, Narrows
  <2> QED BY <2>2, <2>3
<1>3. CASE s.found
  <2>1. Halving /\ ~ AtTheEnd
    BY <1>0, <1>3 DEF SearchInv, AtTheEnd
  <2>2. /\ s.max \in Nat /\ s.max \notin used /\ s.min < s.max
        /\ MinIsUsed
        /\ CameDown \/ CameUp
    BY <2>1 DEF Halving, CameDown, CameUp
  <2>3. \/ s.min < probe /\ probe < s.max
        \/ s.max = 1 /\ s.min = 0 /\ probe = 0 /\ s.end = 1
    BY <1>0, <2>2 DEF CameDown, CameUp
  <2>4. probe \in Nat
    BY <1>0, <2>3
  <2>5. CASE probe \in used
    <3> DEFINE plus == (s.max - probe) \div 2
               end == IF plus = 0 THEN probe + 1 ELSE probe
    <3>1. search' = [index |-> s.index, plus |-> plus, end |-> end,
                     min |-> probe, max |-> s.max, found |-> TRUE]
      BY <1>0, <1>1, <1>3, <1>u, <2>4, <2>5, UsedTells
    <3>2. plus \in Nat /\ end \in Nat /\ (plus = 0 => end = s.max)
      BY <1>0, <2>2, <2>3
    <3>3. SearchTypes'
      BY <1>0, <2>4, <3>1, <3>2 DEF SearchTypes, Searches
    <3>4. MinIsUsed'
      BY <1>0, <2>2, <2>3, <2>5, <3>1 DEF MinIsUsed
    <3>5. CameUp' \/ AtTheEnd'
      BY <1>0, <2>2, <2>3, <2>5, <3>1, <3>2 DEF CameUp, AtTheEnd
    <3>6. Narrows
      BY <1>0, <1>3, <2>2, <2>3, <3>1, <3>2 DEF Narrows, Goes
    <3> QED
      BY <1>0, <2>2, <3>1, <3>3, <3>4, <3>5, <3>6 DEF SearchInv, Halving
  <2>6. CASE probe \notin used
    <3> DEFINE plus == IF probe = 1 THEN -1 ELSE -((probe - s.min) \div 2)
    <3>1. search' = [index |-> s.index, plus |-> plus, end |-> probe,
                     min |-> s.min, max |-> probe, found |-> TRUE]
      BY <1>0, <1>1, <1>3, <1>n, <2>4, <2>6, UnusedTells
    <3>2. plus \in Int
      BY <1>0, <2>4
    <3>3. SearchTypes'
      BY <1>0, <2>4, <3>1, <3>2 DEF SearchTypes, Searches
    <3>4. MinIsUsed'
      BY <1>0, <2>2, <3>1 DEF MinIsUsed
    <3>5. CameDown' \/ AtTheEnd'
      <4>1. CASE probe = 0
        <5>1. s.min = 0 /\ s.index = 0
          BY <1>0, <2>2, <2>3, <4>1 DEF MinIsUsed
        <5>2. plus = 0
          BY <4>1, <5>1
        <5> HIDE DEF plus
        <5> QED BY <3>1, <4>1, <5>1, <5>2 DEF AtTheEnd
      <4>2. CASE probe # 0 /\ plus # 0
        BY <1>0, <2>2, <2>3, <3>1, <3>2, <4>2 DEF CameDown
      <4>3. CASE probe # 0 /\ plus = 0
        <5>1. probe = s.min + 1 /\ probe # 1
          BY <1>0, <2>2, <2>3, <2>4, <4>3
        <5>2. s.min \in used \/ s.index # 0
          BY <1>0, <2>2, <5>1 DEF MinIsUsed
        <5> QED BY <1>0, <3>1, <4>3, <5>1, <5>2 DEF AtTheEnd
      <4> QED BY <4>1, <4>2, <4>3
    <3>6. Narrows
      BY <1>0, <1>3, <2>2, <2>3, <3>1, <3>2 DEF Narrows, Goes
    <3> QED
      BY <1>0, <2>4, <2>6, <3>1, <3>3, <3>4, <3>5, <3>6 DEF SearchInv, Halving
  <2> QED BY <2>5, <2>6
<1> QED BY <1>2, <1>3

LEMMA SearchInvSuffices == SearchInv => SearchFindsFirst
<1> SUFFICES ASSUME SearchInv, ~ Goes(search) PROVE SearchFindsFirst
  BY DEF SearchFindsFirst
<1>1. search.plus = 0 /\ Stride # 0
  BY SearchAssumption DEF Goes
<1>2. search.found /\ Halving /\ AtTheEnd
  BY <1>1 DEF SearchInv, Striding, Halving, CameDown, CameUp
<1>3. SearchTypes /\ MinIsUsed /\ search.end = search.max /\ search.max \notin used
  BY <1>2 DEF SearchInv, Halving, AtTheEnd
<1>4. ASSUME Consecutive, search.index \in used \cup {0}, NEW n \in 0..(search.end - 1)
      PROVE  n \in used
  <2>1. search.index \in Nat /\ search.min \in Nat /\ search.max \in Int
    BY <1>3 DEF SearchTypes, Searches
  <2>2. search.max = search.min + 1 /\ (search.min \in used \/ search.index # 0)
    BY <1>2, <1>3, <1>4, <2>1 DEF AtTheEnd
  <2>3. search.min \in used
    BY <1>3, <1>4, <2>1, <2>2 DEF MinIsUsed
  <2>4. n \in 0..search.min
    BY <1>3, <1>4, <2>1, <2>2
  <2> QED BY <1>4, <2>3, <2>4 DEF Consecutive
<1> QED BY <1>3, <1>4 DEF SearchFindsFirst

LEMMA SearchInductive == SearchSpec => []SearchInv
<1>1. SearchInv /\ UNCHANGED searchVars => SearchInv'
  BY DEF SearchInv, SearchTypes, Striding, Halving, MinIsUsed, CameDown, CameUp,
         AtTheEnd, searchVars
<1> QED BY <1>1, SearchInitInv, SearchStepInv, PTL DEF SearchSpec

(* getNewAddress ends at an unused address, the first one when those in use  *)
(* follow each other and the index it is given is 0 or one of them (api/api, *)
(* 934-1000).                                                                *)
THEOREM NewAddressIsUnused == SearchSpec => []SearchFindsFirst
  BY SearchInductive, SearchInvSuffices, PTL

(* Each of its questions brings it nearer to its end (956-980): it asks at   *)
(* most as often as it strides and halves.                                   *)
THEOREM SearchNarrows == SearchSpec => NarrowsAlways
  BY SearchInductive, SearchStepInv, PTL DEF SearchSpec, NarrowsAlways
-----------------------------------------------------------------------------
(* normalizedBundle, and what a signature shows.  The loop of normalizedBundle*)
(* is a recursive function that CHOOSE has picked, as sums are: there is one *)
(* to pick because its first n values determine the next.                    *)
Places == 1..FragmentLen
Weight(f) == SumFunctionOnSet(f, Places)
LetterFragments == [Places -> Letter]

MoveBy(w, g) == IF w >= 0 THEN Lowered(g) ELSE Raised(g)
MoveBody(f, w, m, n) == IF n = 0 THEN f ELSE MoveBy(w, m[n - 1])
Moves(f, w, m) == m = [n \in Nat |-> MoveBody(f, w, m, n)]
MovesUpto(f, w, n, m) == m = [k \in 0..n |-> MoveBody(f, w, m, k)]

LEMMA NormalizedIsChosen ==
    ASSUME NEW f, DOMAIN f = Places
    PROVE  Normalized(f) = (CHOOSE m : Moves(f, Weight(f), m))
                               [IF Weight(f) >= 0 THEN Weight(f) ELSE -Weight(f)]
<1>1. MapThenSumSet(LAMBDA k : f[k], DOMAIN f) = Weight(f)
  BY DEF MapThenSumSet, SumFunctionOnSet, FoldFunctionOnSet, Weight
<1> QED BY <1>1 DEF Normalized, Moves, MoveBody, MoveBy

LEMMA MovesAgree ==
    ASSUME NEW f, NEW w, NEW p \in Nat, NEW q \in Nat,
           NEW m, MovesUpto(f, w, p, m), NEW g, MovesUpto(f, w, q, g)
    PROVE  \A k \in Nat : k <= p /\ k <= q => m[k] = g[k]
<1> DEFINE T == {k \in Nat : k <= p /\ k <= q => m[k] = g[k]}
<1>1. /\ \A k \in 0..p : m[k] = MoveBody(f, w, m, k)
      /\ \A k \in 0..q : g[k] = MoveBody(f, w, g, k)
  BY DEF MovesUpto
<1>2. 0 \in T
  BY <1>1 DEF MoveBody
<1>3. ASSUME NEW n \in Nat, n \in T PROVE n + 1 \in T
  <2> SUFFICES ASSUME n + 1 <= p, n + 1 <= q PROVE m[n + 1] = g[n + 1]
    OBVIOUS
  <2>1. n + 1 \in 0..p /\ n + 1 \in 0..q /\ (n + 1) - 1 = n /\ n + 1 # 0
    OBVIOUS
  <2>2. m[n] = g[n]
    BY <1>3
  <2>3. m[n + 1] = MoveBy(w, m[n]) /\ g[n + 1] = MoveBy(w, g[n])
    BY <1>1, <2>1 DEF MoveBody
  <2> QED BY <2>2, <2>3
<1> HIDE DEF T
<1>4. Nat \subseteq T
  BY <1>2, <1>3, NatSetInduction
<1> QED BY <1>4 DEF T

LEMMA MovesExistUpto ==
    ASSUME NEW f, NEW w
    PROVE  \A n \in Nat : \E m : MovesUpto(f, w, n, m)
<1> DEFINE T == {n \in Nat : \E m : MovesUpto(f, w, n, m)}
<1>1. 0 \in T
  <2>1. PICK m : m = [k \in 0..0 |-> f]
    OBVIOUS
  <2>2. m = [k \in 0..0 |-> MoveBody(f, w, m, k)]
    BY <2>1 DEF MoveBody
  <2> QED BY <2>2 DEF MovesUpto
<1>2. ASSUME NEW n \in Nat, n \in T PROVE n + 1 \in T
  <2>1. PICK m : MovesUpto(f, w, n, m)
    BY <1>2
  <2>2. PICK g : g = [k \in 0..(n + 1) |-> IF k <= n THEN m[k] ELSE MoveBy(w, m[n])]
    OBVIOUS
  <2>3. ASSUME NEW k \in 0..(n + 1) PROVE g[k] = MoveBody(f, w, g, k)
    <3>1. CASE k = 0
      BY <2>1, <2>2, <3>1 DEF MovesUpto, MoveBody
    <3>2. CASE k \in 1..n
      <4>1. k - 1 \in 0..n /\ k \in 0..n /\ k # 0
        BY <3>2
      <4>2. m[k] = MoveBy(w, m[k - 1])
        BY <2>1, <4>1 DEF MovesUpto, MoveBody
      <4>3. g[k] = m[k] /\ g[k - 1] = m[k - 1]
        BY <2>2, <4>1
      <4> QED BY <4>1, <4>2, <4>3 DEF MoveBody
    <3>3. CASE k = n + 1
      <4>1. g[k] = MoveBy(w, m[n]) /\ g[k - 1] = m[n] /\ k # 0
        BY <2>2, <3>3
      <4> QED BY <4>1 DEF MoveBody
    <3> QED BY <3>1, <3>2, <3>3
  <2>4. g = [k \in 0..(n + 1) |-> MoveBody(f, w, g, k)]
    <3>1. g = [k \in 0..(n + 1) |-> g[k]]
      BY <2>2
    <3> QED BY <2>3, <3>1
  <2> QED BY <2>4 DEF MovesUpto
<1> HIDE DEF T
<1>3. Nat \subseteq T
  BY <1>1, <1>2, NatSetInduction
<1> QED BY <1>3 DEF T

LEMMA MovesExist ==
    ASSUME NEW f, NEW w
    PROVE  \E m : Moves(f, w, m)
<1>1. PICK sol : sol = [n \in Nat |-> CHOOSE m : MovesUpto(f, w, n, m)]
  OBVIOUS
<1>2. \A n \in Nat : MovesUpto(f, w, n, sol[n])
  BY <1>1, MovesExistUpto
<1>3. PICK h : h = [n \in Nat |-> sol[n][n]]
  OBVIOUS
<1>4. ASSUME NEW n \in Nat PROVE h[n] = MoveBody(f, w, h, n)
  <2>1. sol[n][n] = MoveBody(f, w, sol[n], n)
    <3>1. PICK a : a = sol[n]
      OBVIOUS
    <3>2. MovesUpto(f, w, n, a) /\ n \in 0..n
      BY <1>2, <3>1
    <3>3. a[n] = MoveBody(f, w, a, n)
      BY <3>2 DEF MovesUpto
    <3> QED BY <3>1, <3>3
  <2>2. CASE n = 0
    BY <1>3, <2>1, <2>2 DEF MoveBody
  <2>3. CASE n # 0
    <3>1. n - 1 \in Nat /\ n - 1 <= n
      BY <2>3
    <3>2. PICK a : a = sol[n]
      OBVIOUS
    <3>3. PICK b : b = sol[n - 1]
      OBVIOUS
    <3>4. MovesUpto(f, w, n, a) /\ MovesUpto(f, w, n - 1, b)
      BY <1>2, <3>1, <3>2, <3>3
    <3>5. a[n - 1] = b[n - 1]
      BY <3>1, <3>4, MovesAgree
    <3>6. h[n] = MoveBy(w, a[n - 1]) /\ h[n - 1] = b[n - 1]
      BY <1>3, <2>1, <2>3, <3>1, <3>2, <3>3 DEF MoveBody
    <3> QED BY <2>3, <3>5, <3>6 DEF MoveBody
  <2> QED BY <2>2, <2>3
<1>5. h = [n \in Nat |-> MoveBody(f, w, h, n)]
  <2>1. h = [n \in Nat |-> h[n]]
    BY <1>3
  <2> QED BY <1>4, <2>1
<1> QED BY <1>5 DEF Moves

LEMMA PlacesFinite == IsFiniteSet(Places) /\ FragmentLen \in Nat
  BY SigningAssumption, FS_Interval DEF Places

LEMMA WeightType == ASSUME NEW f \in LetterFragments PROVE Weight(f) \in Int
<1>1. \A x \in Places : f[x] \in Int
  BY DEF LetterFragments, Letter
<1> QED BY <1>1, PlacesFinite, SumType DEF Weight

(* While the sum is not zero there is a letter that can be moved.            *)
LEMMA LoweredStep ==
    ASSUME NEW f \in LetterFragments, Weight(f) > 0
    PROVE  Lowered(f) \in LetterFragments /\ Weight(Lowered(f)) = Weight(f) - 1
<1> DEFINE Can == {j \in Places : f[j] > -13}
<1>1. \A x \in Places : f[x] \in Letter /\ f[x] \in Int
  BY DEF LetterFragments, Letter
<1>2. Can # {}
  <2> SUFFICES ASSUME \A x \in Places : f[x] <= 0 PROVE FALSE
    BY <1>1
  <2>1. PICK z : z = [x \in Places |-> 0]
    OBVIOUS
  <2>2. Weight(f) <= Weight(z)
    BY <1>1, <2>1, PlacesFinite, SumMonotone DEF Weight
  <2>3. Weight(z) = 0
    BY <2>1, PlacesFinite, SumZero DEF Weight
  <2> QED BY <2>2, <2>3, WeightType
<1>3. Can \subseteq Nat
  BY DEF Places
<1>4. PICK c \in Can : \A j \in Can : c <= j
  <2> HIDE DEF Can
  <2> QED BY <1>2, <1>3, LeastElement
<1>5. c \in DOMAIN f /\ f[c] > -13 /\ \A k \in 1..(c - 1) : f[k] = -13
  <2>1. c \in Places /\ DOMAIN f = Places
    BY DEF LetterFragments
  <2>2. ASSUME NEW k \in 1..(c - 1) PROVE f[k] = -13
    <3>1. k \in Places /\ k \notin Can
      BY <1>4, <2>1, PlacesFinite DEF Places
    <3> QED BY <1>1, <3>1 DEF Letter
  <2> QED BY <2>1, <2>2
<1>6. PICK j \in DOMAIN f :
          /\ f[j] > -13
          /\ Lowered(f) = [f EXCEPT ![j] = @ - 1]
  BY <1>5 DEF Lowered
<1>7. j \in Places /\ f[j] - 1 \in Letter /\ f[j] \in Int
  BY <1>1, <1>6 DEF LetterFragments, Letter
<1>8. PICK g : g = Lowered(f)
  OBVIOUS
<1>9. g \in LetterFragments
  BY <1>6, <1>7, <1>8 DEF LetterFragments
<1>10. \A x \in Places : g[x] \in Int
  BY <1>9 DEF LetterFragments, Letter
<1>11. g[j] = f[j] - 1 /\ \A x \in Places : x # j => f[x] = g[x]
  BY <1>6, <1>7, <1>8 DEF LetterFragments
<1>12. Weight(g) = Weight(f) + g[j] - f[j]
  BY <1>1, <1>7, <1>10, <1>11, PlacesFinite, SumUpdate DEF Weight
<1> QED BY <1>7, <1>8, <1>9, <1>11, <1>12, WeightType

LEMMA RaisedStep ==
    ASSUME NEW f \in LetterFragments, Weight(f) < 0
    PROVE  Raised(f) \in LetterFragments /\ Weight(Raised(f)) = Weight(f) + 1
<1> DEFINE Can == {j \in Places : f[j] < 13}
<1>1. \A x \in Places : f[x] \in Letter /\ f[x] \in Int
  BY DEF LetterFragments, Letter
<1>2. Can # {}
  <2> SUFFICES ASSUME \A x \in Places : f[x] >= 0 PROVE FALSE
    BY <1>1
  <2>1. PICK z : z = [x \in Places |-> 0]
    OBVIOUS
  <2>2. Weight(z) <= Weight(f)
    BY <1>1, <2>1, PlacesFinite, SumMonotone DEF Weight
  <2>3. Weight(z) = 0
    BY <2>1, PlacesFinite, SumZero DEF Weight
  <2> QED BY <2>2, <2>3, WeightType
<1>3. Can \subseteq Nat
  BY DEF Places
<1>4. PICK c \in Can : \A j \in Can : c <= j
  <2> HIDE DEF Can
  <2> QED BY <1>2, <1>3, LeastElement
<1>5. c \in DOMAIN f /\ f[c] < 13 /\ \A k \in 1..(c - 1) : f[k] = 13
  <2>1. c \in Places /\ DOMAIN f = Places
    BY DEF LetterFragments
  <2>2. ASSUME NEW k \in 1..(c - 1) PROVE f[k] = 13
    <3>1. k \in Places /\ k \notin Can
      BY <1>4, <2>1, PlacesFinite DEF Places
    <3> QED BY <1>1, <3>1 DEF Letter
  <2> QED BY <2>1, <2>2
<1>6. PICK j \in DOMAIN f :
          /\ f[j] < 13
          /\ Raised(f) = [f EXCEPT ![j] = @ + 1]
  BY <1>5 DEF Raised
<1>7. j \in Places /\ f[j] + 1 \in Letter /\ f[j] \in Int
  BY <1>1, <1>6 DEF LetterFragments, Letter
<1>8. PICK g : g = Raised(f)
  OBVIOUS
<1>9. g \in LetterFragments
  BY <1>6, <1>7, <1>8 DEF LetterFragments
<1>10. \A x \in Places : g[x] \in Int
  BY <1>9 DEF LetterFragments, Letter
<1>11. g[j] = f[j] + 1 /\ \A x \in Places : x # j => f[x] = g[x]
  BY <1>6, <1>7, <1>8 DEF LetterFragments
<1>12. Weight(g) = Weight(f) + g[j] - f[j]
  BY <1>1, <1>7, <1>10, <1>11, PlacesFinite, SumUpdate DEF Weight
<1> QED BY <1>7, <1>8, <1>9, <1>11, <1>12, WeightType

(* So after as many steps as the sum says, it is zero.                       *)
LEMMA NormalizedSumsToZero ==
    ASSUME NEW f \in LetterFragments
    PROVE  Normalized(f) \in LetterFragments /\ Weight(Normalized(f)) = 0
<1>1. PICK w \in Int : w = Weight(f)
  BY WeightType
<1>2. PICK m : m = CHOOSE g : Moves(f, w, g)
  OBVIOUS
<1>3. Moves(f, w, m)
  BY <1>2, MovesExist
<1>4. PICK far \in Nat : far = IF w >= 0 THEN w ELSE -w
  OBVIOUS
<1>5. Normalized(f) = m[far]
  BY <1>1, <1>2, <1>4, NormalizedIsChosen DEF LetterFragments
<1> DEFINE T == {n \in Nat : n <= far =>
                    /\ m[n] \in LetterFragments
                    /\ Weight(m[n]) = IF w >= 0 THEN w - n ELSE w + n}
<1>6. 0 \in T
  <2>1. m[0] = f
    BY <1>3 DEF Moves, MoveBody
  <2> QED BY <1>1, <2>1
<1>7. ASSUME NEW n \in Nat, n \in T PROVE n + 1 \in T
  <2> SUFFICES ASSUME n + 1 <= far
               PROVE  /\ m[n + 1] \in LetterFragments
                      /\ Weight(m[n + 1]) = IF w >= 0 THEN w - (n + 1) ELSE w + (n + 1)
    OBVIOUS
  <2>1. PICK g : g = m[n]
    OBVIOUS
  <2>2. g \in LetterFragments /\ Weight(g) = IF w >= 0 THEN w - n ELSE w + n
    BY <1>7, <2>1
  <2>3. m[n + 1] = MoveBy(w, g)
    <3>1. n + 1 \in Nat /\ n + 1 # 0 /\ (n + 1) - 1 = n
      OBVIOUS
    <3> QED BY <1>3, <2>1, <3>1 DEF Moves, MoveBody
  <2>4. CASE w >= 0
    <3>1. m[n + 1] = Lowered(g) /\ Weight(g) = w - n /\ Weight(g) > 0
      BY <1>4, <2>2, <2>3, <2>4 DEF MoveBy
    <3>2. Lowered(g) \in LetterFragments /\ Weight(Lowered(g)) = Weight(g) - 1
      BY <2>2, <3>1, LoweredStep
    <3> QED BY <2>4, <3>1, <3>2
  <2>5. CASE w < 0
    <3>1. m[n + 1] = Raised(g) /\ Weight(g) = w + n /\ Weight(g) < 0
      BY <1>4, <2>2, <2>3, <2>5 DEF MoveBy
    <3>2. Raised(g) \in LetterFragments /\ Weight(Raised(g)) = Weight(g) + 1
      BY <2>2, <3>1, RaisedStep
    <3> QED BY <2>5, <3>1, <3>2
  <2> QED BY <2>4, <2>5
<1> HIDE DEF T
<1>8. far \in T
  BY <1>6, <1>7, NatSetInduction
<1>9. m[far] \in LetterFragments /\ Weight(m[far]) = IF w >= 0 THEN w - far ELSE w + far
  BY <1>8 DEF T
<1> QED BY <1>4, <1>5, <1>9

(* Of fragments with the same sum, none has only larger letters.             *)
LEMMA SameSumIsSame ==
    ASSUME NEW f \in LetterFragments, NEW g \in LetterFragments,
           Weight(f) = Weight(g), \A x \in Places : g[x] <= f[x]
    PROVE  g = f
<1>1. \A x \in Places : f[x] \in Int /\ g[x] \in Int
  BY DEF LetterFragments, Letter
<1>2. ASSUME NEW c \in Places PROVE g[c] = f[c]
  <2> DEFINE R == Places \ {c}
  <2>1. IsFiniteSet(R)
    BY PlacesFinite, FS_RemoveElement
  <2>2. /\ Weight(f) = f[c] + SumFunctionOnSet(f, R)
        /\ Weight(g) = g[c] + SumFunctionOnSet(g, R)
    BY <1>1, PlacesFinite, SumRemove DEF Weight
  <2> HIDE DEF R
  <2>3. \A x \in R : f[x] \in Int /\ g[x] \in Int /\ g[x] <= f[x]
    BY <1>1 DEF R
  <2>4. SumFunctionOnSet(g, R) <= SumFunctionOnSet(f, R)
    BY <2>1, <2>3, SumMonotone
  <2>5. PICK a \in Int, b \in Int : a = SumFunctionOnSet(f, R) /\ b = SumFunctionOnSet(g, R)
    BY <2>1, <2>3, SumType
  <2>6. g[c] \in Int /\ f[c] \in Int /\ g[c] <= f[c]
    BY <1>1
  <2>7. f[c] + a = g[c] + b /\ b <= a
    BY <2>2, <2>4, <2>5
  <2> QED BY <2>5, <2>6, <2>7
<1> QED BY <1>2 DEF LetterFragments

LEMMA NormalizedAreLetters ==
    ASSUME NEW g \in NormalizedFragments
    PROVE  g \in LetterFragments /\ Weight(g) = 0
<1>1. PICK f \in [1..FragmentLen -> BundleLetters] : g = Normalized(f)
  BY DEF NormalizedFragments
<1>2. f \in LetterFragments
  BY <1>1, ChainAssumption DEF LetterFragments, Places
<1> QED BY <1>1, <1>2, NormalizedSumsToZero

(* What is known of each chain: no link below the one the signature shows.   *)
Owner == Subseed(Zeros(SeedTrits), 0)
Links == [of : {Owner}, place : Places, height : Int]

ChainInv ==
    /\ signed \in NormalizedFragments
    /\ shown \in [Places -> Links]
    /\ \A j \in Places : shown[j].height >= 13 - signed[j]

LEMMA KeyFragmentType ==
    /\ KeyFragment \in [Places -> Links]
    /\ \A j \in Places : KeyFragment[j].height = 0
<1>1. PICK key : key = [p \in 1..FragmentLen |-> Link(Owner, p, 0)]
  OBVIOUS
<1>2. Key(Zeros(SeedTrits), 0, 1) = key
  BY <1>1, PlacesFinite DEF Key, Owner
<1>3. \A j \in 1..FragmentLen : key[j] \in Links /\ key[j].height = 0
  BY <1>1 DEF Link, Links, Places
<1>4. KeyFragment = SubSeq(key, 1, FragmentLen)
  BY <1>2, PlacesFinite DEF KeyFragment, Fragment
<1>5. /\ SubSeq(key, 1, FragmentLen) \in Seq(Links)
      /\ Len(SubSeq(key, 1, FragmentLen)) = FragmentLen
      /\ \A j \in 1..FragmentLen : SubSeq(key, 1, FragmentLen)[j] = key[j]
  <2>1. PICK t : t = SubSeq(key, 1, FragmentLen)
    OBVIOUS
  <2>2. /\ t \in Seq(Links)
        /\ Len(t) = IF 1 <= FragmentLen THEN FragmentLen - 1 + 1 ELSE 0
        /\ \A j \in 1..(FragmentLen - 1 + 1) : t[j] = key[1 + j - 1]
    BY <1>3, <2>1, PlacesFinite, SubSeqProperties
  <2>3. FragmentLen >= 1
    BY SigningAssumption
  <2> QED BY <2>1, <2>2, <2>3, PlacesFinite
<1>6. PICK t : t = KeyFragment
  OBVIOUS
<1>7. /\ t \in Seq(Links) /\ Len(t) = FragmentLen
      /\ \A j \in 1..FragmentLen : t[j] = key[j]
  BY <1>4, <1>5, <1>6
<1>8. t \in [1..FragmentLen -> Links]
  BY <1>7, LenProperties
<1> QED BY <1>3, <1>6, <1>7, <1>8 DEF Places

LEMMA HigherLink ==
    ASSUME NEW l \in Links, NEW n \in Int
    PROVE  Higher(l, n) \in Links /\ Higher(l, n).height = l.height + n
  BY DEF Higher, Links

LEMMA SignatureHeights ==
    ASSUME NEW g \in NormalizedFragments
    PROVE  /\ SignatureOf[g] \in [Places -> Links]
           /\ \A j \in Places : SignatureOf[g][j].height = 13 - g[j]
<1>1. PICK s : s = SignatureOf[g]
  OBVIOUS
<1>2. s = [j \in Places |-> Higher(KeyFragment[j], 13 - g[j])]
  BY <1>1 DEF SignatureOf, SignatureFragment, Places
<1>3. \A j \in Places : 13 - g[j] \in Int
  BY NormalizedAreLetters DEF LetterFragments, Letter
<1>4. \A j \in Places : s[j] \in Links /\ s[j].height = 13 - g[j]
  <2> TAKE j \in Places
  <2>1. PICK l : l = KeyFragment[j]
    OBVIOUS
  <2>2. l \in Links /\ l.height = 0 /\ 13 - g[j] \in Int
    BY <1>3, <2>1, KeyFragmentType
  <2>3. s[j] = Higher(l, 13 - g[j])
    BY <1>2, <2>1
  <2> QED BY <2>2, <2>3, HigherLink
<1> QED BY <1>1, <1>2, <1>4

LEMMA ChainInitInv == ChainInit => ChainInv
<1> SUFFICES ASSUME ChainInit PROVE ChainInv
  OBVIOUS
<1>1. signed \in NormalizedFragments /\ shown = SignatureOf[signed]
  BY DEF ChainInit
<1>2. PICK g \in NormalizedFragments : g = signed
  BY <1>1
<1>3. \A j \in Places : g[j] \in Int
  BY NormalizedAreLetters DEF LetterFragments, Letter
<1>4. /\ shown \in [Places -> Links]
      /\ \A j \in Places : shown[j].height = 13 - g[j]
  BY <1>1, <1>2, SignatureHeights
<1> QED BY <1>1, <1>2, <1>3, <1>4 DEF ChainInv

LEMMA ChainNextInv == ChainInv /\ [ChainNext]_chainVars => ChainInv'
<1> SUFFICES ASSUME ChainInv, [ChainNext]_chainVars PROVE ChainInv'
  OBVIOUS
<1>1. CASE UNCHANGED chainVars
  BY <1>1 DEF chainVars, ChainInv
<1>2. ASSUME NEW c \in 1..FragmentLen, HashOn(c) PROVE ChainInv'
  <2>1. c \in Places /\ signed' = signed
        /\ shown' = [shown EXCEPT ![c] = Higher(shown[c], 1)]
    BY <1>2 DEF HashOn, Places
  <2>2. PICK l : l = shown[c]
    OBVIOUS
  <2>3. l \in Links /\ Higher(l, 1) \in Links /\ Higher(l, 1).height = l.height + 1
    BY <2>1, <2>2, HigherLink DEF ChainInv
  <2>4. l.height \in Int
    BY <2>3 DEF Links
  <2>5. PICK k : k = Higher(l, 1)
    OBVIOUS
  <2>6. shown' = [shown EXCEPT ![c] = k] /\ k \in Links /\ k.height = l.height + 1
    BY <2>1, <2>2, <2>3, <2>5
  <2>7. shown' \in [Places -> Links]
    BY <2>6 DEF ChainInv
  <2>8. ASSUME NEW j \in Places PROVE shown'[j].height >= 13 - signed[j]
    <3>1. shown[j].height >= 13 - signed[j]
      BY DEF ChainInv
    <3>2. CASE j # c
      <4>1. shown'[j] = shown[j]
        BY <2>6, <3>2 DEF ChainInv
      <4> QED BY <3>1, <4>1
    <3>3. CASE j = c
      <4>1. shown'[j] = k
        BY <2>6, <3>3 DEF ChainInv
      <4>2. signed[j] \in Int
        BY NormalizedAreLetters DEF ChainInv, LetterFragments, Letter
      <4> QED BY <2>2, <2>4, <2>6, <3>1, <3>3, <4>1, <4>2
    <3> QED BY <3>2, <3>3
  <2> QED BY <2>1, <2>7, <2>8 DEF ChainInv
<1> QED BY <1>1, <1>2 DEF ChainNext

LEMMA ChainInvSuffices == ChainInv => NoSignatureFollows
<1> SUFFICES ASSUME ChainInv PROVE NoSignatureFollows
  OBVIOUS
<1>1. PICK f : f = signed
  OBVIOUS
<1>2. f \in NormalizedFragments /\ f \in LetterFragments /\ Weight(f) = 0
  BY <1>1, NormalizedAreLetters DEF ChainInv
<1>3. ASSUME NEW g \in NormalizedFragments, shown = SignatureOf[g] PROVE g = f
  <2>1. g \in LetterFragments /\ Weight(g) = 0
    BY NormalizedAreLetters
  <2>2. \A j \in Places : shown[j].height = 13 - g[j]
    BY <1>3, SignatureHeights
  <2>3. ASSUME NEW j \in Places PROVE g[j] <= f[j]
    <3>1. g[j] \in Int /\ f[j] \in Int
      BY <1>2, <2>1 DEF LetterFragments, Letter
    <3>2. 13 - g[j] >= 13 - f[j]
      BY <1>1, <2>2 DEF ChainInv
    <3> QED BY <3>1, <3>2
  <2> QED BY <1>2, <2>1, <2>3, SameSumIsSame
<1>4. f \in [1..FragmentLen -> Letter]
  BY <1>2 DEF LetterFragments, Places
<1> QED BY <1>1, <1>3, <1>4 DEF NoSignatureFollows

(* Hashing on what one signature shows never gives another hash's signature: *)
(* normalizedBundle leaves letters that sum to zero (2344-2376), for hashes  *)
(* of any letters and fragments of any length.                               *)
THEOREM SignaturesAreIncomparable == ChainSpec => []NoSignatureFollows
<1>1. ChainInit => ChainInv
  BY ChainInitInv
<1>2. ChainInv /\ [ChainNext]_chainVars => ChainInv'
  BY ChainNextInv
<1>3. ChainInv => NoSignatureFollows
  BY ChainInvSuffices
<1> QED BY <1>1, <1>2, <1>3, PTL DEF ChainSpec

-----------------------------------------------------------------------------
(* Several cosigners.  A digest has two halves; the state of the sponge is   *)
(* the halves of those who were added, in order, and so is what a verifier   *)
(* gets from signatures of the right cosigners at the right places, because  *)
(* signing and verifying hash every block as often together, whatever the    *)
(* letter.                                                                   *)
HalfDigest(c, half) ==
    [j \in Places |-> Link(SeedOf[c], (half - 1) * FragmentLen + j, 26)]
HalfDigests == {HalfDigest(c, half) : c \in Cosigners, half \in 1..2}

Cosigner(cs, j) == cs[((j - 1) \div 2) + 1]
HalfOf(j) == ((j - 1) % 2) + 1
Halves(cs) == [j \in 1..(2 * Len(cs)) |-> HalfDigest(Cosigner(cs, j), HalfOf(j))]

LEMMA SubseedOfNone == ASSUME NEW seed PROVE Subseed(seed, 0) = seed
<1> DEFINE Solution(m) == m = [n \in 0..0 |-> IF n = 0 THEN seed ELSE Increment(m[n - 1])]
<1>1. PICK g : g = [n \in 0..0 |-> seed]
  OBVIOUS
<1>2. g = [n \in 0..0 |-> IF n = 0 THEN seed ELSE Increment(g[n - 1])]
  BY <1>1
<1>3. PICK m : m = CHOOSE a : Solution(a)
  OBVIOUS
<1>4. Solution(m)
  BY <1>2, <1>3
<1>5. m[0] = seed
  BY <1>4
<1>6. Subseed(seed, 0) = m[0]
  BY <1>3 DEF Subseed
<1> QED BY <1>5, <1>6

(* A fragment of a cosigner's key.                                           *)
KeyPart(c, half) == [j \in Places |-> Link(SeedOf[c], (half - 1) * FragmentLen + j, 0)]

LEMMA KeyParts ==
    ASSUME NEW c \in Cosigners, NEW half \in 1..2
    PROVE  /\ Fragment(GetKey(c), half) = KeyPart(c, half)
           /\ DOMAIN Fragments(GetKey(c)) = 1..2
<1>1. PICK s : s = SeedOf[c]
  OBVIOUS
<1>2. PICK key : key = [p \in 1..(2 * FragmentLen) |-> Link(s, p, 0)]
  OBVIOUS
<1>3. GetKey(c) = key
  BY <1>1, <1>2, SubseedOfNone DEF GetKey, Key
<1> DEFINE R == {Link(s, p, 0) : p \in 1..(2 * FragmentLen)}
<1>4. FragmentLen \in Nat /\ FragmentLen > 0
  BY SigningAssumption
<1>5. key \in [1..(2 * FragmentLen) -> R]
  BY <1>2
<1> HIDE DEF R
<1>6. Len(key) = 2 * FragmentLen
  BY <1>4, <1>5
<1>7. (2 * FragmentLen) \div FragmentLen = 2
  BY <1>4
<1>8. PICK from \in Nat, to \in Nat :
          /\ from = (half - 1) * FragmentLen + 1 /\ to = half * FragmentLen
          /\ to - from + 1 = FragmentLen /\ from >= 1 /\ to <= 2 * FragmentLen /\ from <= to
  <2>1. CASE half = 1
    BY <1>4, <2>1
  <2>2. CASE half = 2
    BY <1>4, <2>2
  <2> QED BY <2>1, <2>2
<1>9. PICK t : t = SubSeq(key, from, to)
  OBVIOUS
<1>10. /\ t \in Seq(R) /\ Len(t) = FragmentLen
       /\ \A j \in 1..FragmentLen : t[j] = key[from + j - 1]
  <2>1. \A j \in from..to : key[j] \in R
    BY <1>4, <1>5, <1>8
  <2> QED BY <1>4, <1>8, <1>9, <2>1, SubSeqProperties
<1>11. t = [j \in Places |-> key[from + j - 1]]
  <2>1. t \in [1..FragmentLen -> R]
    BY <1>10
  <2> QED BY <1>10, <2>1 DEF Places
<1>12. \A j \in Places : from + j - 1 = (half - 1) * FragmentLen + j /\ from + j - 1 \in 1..(2 * FragmentLen)
  BY <1>4, <1>8 DEF Places
<1>13. t = KeyPart(c, half)
  BY <1>1, <1>2, <1>11, <1>12 DEF KeyPart
<1>14. Fragment(GetKey(c), half) = t
  BY <1>3, <1>8, <1>9 DEF Fragment
<1>15. DOMAIN Fragments(GetKey(c)) = 1..2
  BY <1>3, <1>6, <1>7 DEF Fragments
<1> QED BY <1>13, <1>14, <1>15

LEMMA HigherIs ==
    ASSUME NEW o, NEW p, NEW h, NEW n
    PROVE  Higher(Link(o, p, h), n) = Link(o, p, h + n)
  BY DEF Higher, Link

LEMMA DigestHalves ==
    ASSUME NEW c \in Cosigners
    PROVE  GetDigest(c) = [half \in 1..2 |-> HalfDigest(c, half)]
<1>1. ASSUME NEW half \in 1..2
      PROVE  [j \in 1..FragmentLen |-> Higher(Fragments(GetKey(c))[half][j], 26)] = HalfDigest(c, half)
  <2>1. Fragments(GetKey(c))[half] = KeyPart(c, half)
    <3>1. half \in 1..(Len(GetKey(c)) \div FragmentLen)
      BY KeyParts DEF Fragments
    <3>2. Fragments(GetKey(c))[half] = Fragment(GetKey(c), half)
      BY <3>1 DEF Fragments
    <3> QED BY <3>2, KeyParts
  <2>2. \A j \in Places : Higher(KeyPart(c, half)[j], 26) = HalfDigest(c, half)[j]
    <3> TAKE j \in Places
    <3>1. KeyPart(c, half)[j] = Link(SeedOf[c], (half - 1) * FragmentLen + j, 0)
      BY DEF KeyPart
    <3>2. Higher(KeyPart(c, half)[j], 26) = Link(SeedOf[c], (half - 1) * FragmentLen + j, 0 + 26)
      BY <3>1, HigherIs
    <3> QED BY <3>2 DEF HalfDigest
  <2> QED BY <2>1, <2>2 DEF HalfDigest, Places
<1>2. DOMAIN Fragments(GetKey(c)) = 1..2
  BY KeyParts
<1> QED BY <1>1, <1>2 DEF GetDigest, Digests

(* The letters of the bundle's hash are integers, normalized.                *)
LEMMA NormalizedLetters ==
    ASSUME NEW n \in 1..3
    PROVE  NormalizedBundle(HashLetters)[n] \in LetterFragments
<1>1. FragmentLen \in Nat /\ FragmentLen > 0
  BY SigningAssumption
<1>2. PICK from \in Nat, to \in Nat :
          /\ from = (n - 1) * FragmentLen + 1 /\ to = n * FragmentLen
          /\ to - from + 1 = FragmentLen /\ from >= 1 /\ to <= 3 * FragmentLen /\ from <= to
  <2>1. CASE n = 1
    BY <1>1, <2>1
  <2>2. CASE n = 2
    BY <1>1, <2>2
  <2>3. CASE n = 3
    BY <1>1, <2>3
  <2> QED BY <2>1, <2>2, <2>3
<1>3. PICK t : t = SubSeq(HashLetters, from, to)
  OBVIOUS
<1>4. t \in Seq(Letter) /\ Len(t) = FragmentLen
  <2>1. \A j \in from..to : HashLetters[j] \in Letter
    BY <1>1, <1>2, MultisigAssumption
  <2> QED BY <1>1, <1>2, <1>3, <2>1, SubSeqProperties
<1>5. t \in LetterFragments
  BY <1>4 DEF LetterFragments, Places
<1>6. Fragment(HashLetters, n) = t
  BY <1>2, <1>3 DEF Fragment
<1> QED BY <1>5, <1>6, NormalizedSumsToZero DEF NormalizedBundle

LEMMA SignedHalf ==
    ASSUME NEW c \in Cosigners, NEW half \in 1..2, NEW f \in LetterFragments
    PROVE  Digest(f, SignatureFragment(f, Fragment(GetKey(c), half))) = HalfDigest(c, half)
<1>1. ASSUME NEW j \in Places
      PROVE  Higher(Higher(KeyPart(c, half)[j], 13 - f[j]), f[j] + 13) = HalfDigest(c, half)[j]
  <2>1. PICK x \in Int : x = f[j]
    BY DEF LetterFragments, Letter
  <2>2. PICK p : p = (half - 1) * FragmentLen + j
    OBVIOUS
  <2>3. KeyPart(c, half)[j] = Link(SeedOf[c], p, 0)
    BY <2>2 DEF KeyPart
  <2>4. Higher(Link(SeedOf[c], p, 0), 13 - x) = Link(SeedOf[c], p, 0 + (13 - x))
    BY HigherIs
  <2>5. Higher(Link(SeedOf[c], p, 0 + (13 - x)), x + 13) = Link(SeedOf[c], p, (0 + (13 - x)) + (x + 13))
    BY HigherIs
  <2>6. (0 + (13 - x)) + (x + 13) = 26
    OBVIOUS
  <2>7. HalfDigest(c, half)[j] = Link(SeedOf[c], p, 26)
    BY <2>2 DEF HalfDigest
  <2> QED BY <2>1, <2>3, <2>4, <2>5, <2>6, <2>7
<1>2. PICK k : k = KeyPart(c, half)
  OBVIOUS
<1>3. SignatureFragment(f, k) = [j \in Places |-> Higher(k[j], 13 - f[j])]
  BY DEF SignatureFragment, Places
<1>4. Digest(f, SignatureFragment(f, k)) = [j \in Places |-> Higher(Higher(k[j], 13 - f[j]), f[j] + 13)]
  BY <1>3 DEF Digest, Places
<1>5. Digest(f, SignatureFragment(f, k)) = HalfDigest(c, half)
  BY <1>1, <1>2, <1>4 DEF HalfDigest
<1> QED BY <1>2, <1>5, KeyParts

LEMMA PlaceOfJ ==
    ASSUME NEW n \in Nat, NEW j \in 1..(2 * n)
    PROVE  /\ ((j - 1) \div 2) + 1 \in 1..n /\ HalfOf(j) \in 1..2
           /\ j = ((j - 1) \div 2) * 2 + HalfOf(j)
  BY DEF HalfOf

(* Who was absorbed can be read off the state, and the order too.            *)
LEMMA HalvesTell ==
    ASSUME NEW cs \in Seq(Cosigners), NEW ds \in Seq(Cosigners), Halves(cs) = Halves(ds)
    PROVE  cs = ds
<1>1. Len(cs) \in Nat /\ Len(ds) \in Nat
  OBVIOUS
<1>2. DOMAIN Halves(cs) = 1..(2 * Len(cs)) /\ DOMAIN Halves(ds) = 1..(2 * Len(ds))
  BY DEF Halves
<1>3. 1..(2 * Len(cs)) = 1..(2 * Len(ds))
  BY <1>2
<1>4. Len(cs) = Len(ds)
  <2>1. PICK a \in Nat, b \in Nat : a = Len(cs) /\ b = Len(ds)
    BY <1>1
  <2>2. a > 0 => 2 * a \in 1..(2 * b)
    BY <1>3, <2>1
  <2>3. b > 0 => 2 * b \in 1..(2 * a)
    BY <1>3, <2>1
  <2> QED BY <2>1, <2>2, <2>3
<1>5. ASSUME NEW u \in 1..Len(cs) PROVE cs[u] = ds[u]
  <2>1. PICK j \in Nat : j = 2 * u - 1
    BY <1>1
  <2>2. j \in 1..(2 * Len(cs)) /\ j \in 1..(2 * Len(ds)) /\ ((j - 1) \div 2) + 1 = u /\ HalfOf(j) = 1
    BY <1>1, <1>4, <2>1 DEF HalfOf
  <2>3. HalfDigest(cs[u], 1) = HalfDigest(ds[u], 1)
    <3>1. Halves(cs)[j] = HalfDigest(cs[u], 1)
      BY <2>2 DEF Halves, Cosigner
    <3>2. Halves(ds)[j] = HalfDigest(ds[u], 1)
      BY <2>2 DEF Halves, Cosigner
    <3> QED BY <3>1, <3>2
  <2>4. 1 \in Places
    BY SigningAssumption DEF Places
  <2>5. HalfDigest(cs[u], 1)[1].of = SeedOf[cs[u]] /\ HalfDigest(ds[u], 1)[1].of = SeedOf[ds[u]]
    BY <2>4 DEF HalfDigest, Link
  <2>6. cs[u] \in Cosigners /\ ds[u] \in Cosigners
    BY <1>4
  <2> QED BY <2>3, <2>5, <2>6, MultisigAssumption
<1> QED BY <1>4, <1>5

LEMMA HalvesType ==
    ASSUME NEW cs \in Seq(Cosigners)
    PROVE  Halves(cs) \in Seq(HalfDigests) /\ Len(Halves(cs)) = 2 * Len(cs)
<1>1. Len(cs) \in Nat
  OBVIOUS
<1>2. ASSUME NEW j \in 1..(2 * Len(cs)) PROVE HalfDigest(Cosigner(cs, j), HalfOf(j)) \in HalfDigests
  <2>1. ((j - 1) \div 2) + 1 \in 1..Len(cs) /\ HalfOf(j) \in 1..2
    BY <1>1, PlaceOfJ
  <2>2. Cosigner(cs, j) \in Cosigners
    BY <2>1 DEF Cosigner
  <2> QED BY <2>1, <2>2 DEF HalfDigests
<1>3. Halves(cs) \in [1..(2 * Len(cs)) -> HalfDigests]
  BY <1>2 DEF Halves
<1> QED BY <1>1, <1>3

LEMMA AbsorbedNext ==
    ASSUME NEW cs \in Seq(Cosigners), NEW c \in Cosigners
    PROVE  Absorb(Halves(cs), GetDigest(c)) = Halves(Append(cs, c))
<1>1. PICK n \in Nat : n = Len(cs)
  OBVIOUS
<1>2. PICK ds : ds = Append(cs, c)
  OBVIOUS
<1>3. ds \in Seq(Cosigners) /\ Len(ds) = n + 1 /\ ds[n + 1] = c /\ \A u \in 1..n : ds[u] = cs[u]
  BY <1>1, <1>2
<1>4. PICK a : a = Halves(cs)
  OBVIOUS
<1>5. a \in Seq(HalfDigests) /\ Len(a) = 2 * n
  BY <1>1, <1>4, HalvesType
<1>6. PICK b : b = GetDigest(c)
  OBVIOUS
<1>7. b = [half \in 1..2 |-> HalfDigest(c, half)]
  BY <1>6, DigestHalves
<1>8. b \in Seq(HalfDigests) /\ Len(b) = 2
  <2>1. \A half \in 1..2 : HalfDigest(c, half) \in HalfDigests
    BY DEF HalfDigests
  <2>2. b \in [1..2 -> HalfDigests]
    BY <1>7, <2>1
  <2>3. PICK two \in Nat : two = 2
    OBVIOUS
  <2>4. b \in [1..two -> HalfDigests]
    BY <2>2, <2>3
  <2>5. b \in Seq(HalfDigests) /\ Len(b) = two
    BY <2>4
  <2> QED BY <2>3, <2>5
<1>9. PICK d : d = Halves(ds)
  OBVIOUS
<1>10. d \in Seq(HalfDigests) /\ Len(d) = 2 * n + 2
  BY <1>3, <1>9, HalvesType
<1>11. PICK e : e = a \o b
  OBVIOUS
<1>12. /\ e \in Seq(HalfDigests) /\ Len(e) = 2 * n + 2
       /\ \A j \in 1..(2 * n) : e[j] = a[j]
       /\ \A j \in 1..2 : e[2 * n + j] = b[j]
  <2>1. n \in Nat
    BY <1>1
  <2>2. /\ e \in Seq(HalfDigests) /\ Len(e) = 2 * n + 2
        /\ \A j \in 1..(2 * n + 2) : e[j] = IF j <= 2 * n THEN a[j] ELSE b[j - 2 * n]
    <3>1. /\ e \in Seq(HalfDigests) /\ Len(e) = Len(a) + Len(b)
          /\ \A j \in 1..(Len(a) + Len(b)) : e[j] = IF j <= Len(a) THEN a[j] ELSE b[j - Len(a)]
      BY <1>5, <1>8, <1>11, ConcatProperties
    <3> QED BY <1>5, <1>8, <2>1, <3>1
  <2>3. ASSUME NEW j \in 1..(2 * n) PROVE e[j] = a[j]
    BY <2>1, <2>2
  <2>4. ASSUME NEW j \in 1..2 PROVE e[2 * n + j] = b[j]
    <3>1. PICK k \in 1..(2 * n + 2) : k = 2 * n + j /\ k > 2 * n /\ k - 2 * n = j
      BY <2>1
    <3>2. e[k] = b[k - 2 * n]
      <4>1. ~(k <= 2 * n)
        BY <2>1, <3>1
      <4> QED BY <2>2, <4>1
    <3> QED BY <3>1, <3>2
  <2> QED BY <2>2, <2>3, <2>4
<1>13. ASSUME NEW j \in 1..(2 * n + 2) PROVE e[j] = d[j]
  <2>1. d[j] = HalfDigest(ds[((j - 1) \div 2) + 1], HalfOf(j))
    BY <1>1, <1>3, <1>9 DEF Halves, Cosigner
  <2>2. CASE j <= 2 * n
    <3>1. j \in 1..(2 * n) /\ ((j - 1) \div 2) + 1 \in 1..n
      BY <2>2, PlaceOfJ
    <3>2. a[j] = HalfDigest(cs[((j - 1) \div 2) + 1], HalfOf(j))
      BY <1>1, <1>4, <3>1 DEF Halves, Cosigner
    <3> QED BY <1>3, <1>12, <2>1, <3>1, <3>2
  <2>3. CASE j > 2 * n
    <3>1. PICK half \in 1..2 : j = 2 * n + half
      <4>1. j - 2 * n \in 1..2 /\ j = 2 * n + (j - 2 * n)
        BY <2>3
      <4> QED BY <4>1
    <3>2. ((j - 1) \div 2) + 1 = n + 1 /\ HalfOf(j) = half
      BY <3>1 DEF HalfOf
    <3> QED BY <1>3, <1>7, <1>12, <2>1, <3>1, <3>2
  <2> QED BY <2>2, <2>3
<1>14. e = d
  BY <1>10, <1>12, <1>13
<1> QED BY <1>2, <1>4, <1>6, <1>9, <1>11, <1>14 DEF Absorb

LEMMA StepsAgree ==
    ASSUME NEW n \in Nat, NEW f, NEW g, f[0] = g[0],
           \A k \in 0..(n - 1) : f[k] = g[k] => f[k + 1] = g[k + 1]
    PROVE  f[n] = g[n]
<1> DEFINE T == {k \in Nat : k <= n => f[k] = g[k]}
<1>1. 0 \in T
  OBVIOUS
<1>2. ASSUME NEW k \in Nat, k \in T PROVE k + 1 \in T
  <2>1. SUFFICES ASSUME k + 1 <= n PROVE f[k + 1] = g[k + 1]
    OBVIOUS
  <2>2. k \in 0..(n - 1) /\ f[k] = g[k]
    BY <1>2, <2>1
  <2> QED BY <2>2
<1> HIDE DEF T
<1>3. n \in T
  BY <1>1, <1>2, NatSetInduction
<1> QED BY <1>3 DEF T

(* What a verifier absorbs: the digests of a list of cosigners.              *)
DigestsOf(cs) == [n \in DOMAIN cs |-> GetDigest(cs[n])]
TheFirst(cs, n) == [j \in 1..n |-> cs[j]]

LEMMA TheFirstOf ==
    ASSUME NEW cs \in Seq(Cosigners), NEW n \in Nat, n <= Len(cs)
    PROVE  TheFirst(cs, n) \in Seq(Cosigners) /\ Len(TheFirst(cs, n)) = n
<1>1. \A j \in 1..n : cs[j] \in Cosigners
  OBVIOUS
<1>2. TheFirst(cs, n) \in [1..n -> Cosigners]
  BY <1>1 DEF TheFirst
<1> QED BY <1>2

LEMMA TheFirstNext ==
    ASSUME NEW cs \in Seq(Cosigners), NEW n \in Nat, n < Len(cs)
    PROVE  TheFirst(cs, n + 1) = Append(TheFirst(cs, n), cs[n + 1])
<1>1. PICK a : a = TheFirst(cs, n)
  OBVIOUS
<1>2. a \in Seq(Cosigners) /\ Len(a) = n /\ \A j \in 1..n : a[j] = cs[j]
  BY <1>1, TheFirstOf DEF TheFirst
<1>3. n + 1 \in Nat /\ n + 1 <= Len(cs) /\ cs[n + 1] \in Cosigners
  OBVIOUS
<1>4. PICK b : b = TheFirst(cs, n + 1)
  OBVIOUS
<1>5. b \in Seq(Cosigners) /\ Len(b) = n + 1
  BY <1>3, <1>4, TheFirstOf
<1>6. \A j \in 1..(n + 1) : b[j] = cs[j]
  BY <1>4 DEF TheFirst
<1>7. PICK d : d = Append(a, cs[n + 1])
  OBVIOUS
<1>8. d \in Seq(Cosigners) /\ Len(d) = n + 1 /\ (\A j \in 1..n : d[j] = a[j]) /\ d[n + 1] = cs[n + 1]
  BY <1>2, <1>3, <1>7, AppendProperties
<1>9. \A j \in 1..(n + 1) : b[j] = d[j]
  BY <1>2, <1>6, <1>8
<1>10. b = d
  BY <1>5, <1>8, <1>9, SeqEqual
<1> QED BY <1>1, <1>4, <1>7, <1>10

LEMMA TheFirstAll == ASSUME NEW cs \in Seq(Cosigners) PROVE TheFirst(cs, Len(cs)) = cs
<1>1. cs = [j \in 1..Len(cs) |-> cs[j]]
  OBVIOUS
<1> QED BY <1>1 DEF TheFirst

LEMMA HalvesOfNone == ASSUME NEW cs \in Seq(Cosigners), Len(cs) = 0 PROVE Halves(cs) = <<>>
<1>1. PICK a : a = Halves(cs)
  OBVIOUS
<1>2. a \in Seq(HalfDigests) /\ Len(a) = 0
  <2>1. Halves(cs) \in Seq(HalfDigests) /\ Len(Halves(cs)) = 2 * Len(cs)
    BY HalvesType
  <2> QED BY <1>1, <2>1
<1>3. a = <<>>
  BY <1>2, EmptySeq
<1> QED BY <1>1, <1>3

LEMMA ValidatesHalves ==
    ASSUME NEW cs \in Seq(Cosigners), NEW address
    PROVE  ValidateAddress(address, DigestsOf(cs)) <=> Append(Halves(cs), "squeezed") = address
<1>1. PICK n \in Nat : n = Len(cs) /\ DOMAIN cs = 1..n
  OBVIOUS
<1>2. PICK ds : ds = DigestsOf(cs)
  OBVIOUS
<1>3. ds = [k \in 1..n |-> GetDigest(cs[k])]
  BY <1>1, <1>2 DEF DigestsOf
<1>4. Len(ds) = n
  BY <1>3
<1> DEFINE Solution(m) ==
             m = [k \in 0..n |-> IF k = 0 THEN Initialized ELSE Absorb(m[k - 1], ds[k])]
<1>5. PICK g : g = [k \in 0..n |-> Halves(TheFirst(cs, k))]
  OBVIOUS
<1>6. g[0] = Initialized
  BY <1>1, <1>5, TheFirstOf, HalvesOfNone DEF Initialized
<1>7. ASSUME NEW k \in 1..n PROVE g[k] = Absorb(g[k - 1], ds[k])
  <2>1. PICK h \in Nat : h = k - 1 /\ h < n /\ h + 1 = k
    BY <1>1
  <2>2. TheFirst(cs, h + 1) = Append(TheFirst(cs, h), cs[h + 1]) /\ TheFirst(cs, h) \in Seq(Cosigners)
    BY <1>1, <2>1, TheFirstNext, TheFirstOf
  <2>3. cs[k] \in Cosigners
    BY <1>1
  <2>4. Absorb(Halves(TheFirst(cs, h)), GetDigest(cs[k])) = Halves(TheFirst(cs, k))
    BY <2>1, <2>2, <2>3, AbsorbedNext
  <2>5. h \in 0..n /\ k \in 0..n
    BY <2>1
  <2> QED BY <1>3, <1>5, <2>1, <2>4, <2>5
<1>8. Solution(g)
  <2>1. ASSUME NEW k \in 0..n
        PROVE  Halves(TheFirst(cs, k)) = IF k = 0 THEN Initialized ELSE Absorb(g[k - 1], ds[k])
    <3>1. g[k] = Halves(TheFirst(cs, k))
      BY <1>5
    <3>2. CASE k = 0
      BY <1>6, <3>1, <3>2
    <3>3. CASE k # 0
      <4>1. k \in 1..n
        BY <1>1, <3>3
      <4> QED BY <1>7, <3>1, <3>3, <4>1
    <3> QED BY <3>2, <3>3
  <2> QED BY <1>5, <2>1
<1>9. PICK m : m = CHOOSE a : Solution(a)
  OBVIOUS
<1>10. Solution(m)
  BY <1>8, <1>9
<1>11. m[0] = g[0]
  BY <1>1, <1>6, <1>10
<1>12. ASSUME NEW k \in 0..(n - 1), m[k] = g[k] PROVE m[k + 1] = g[k + 1]
  <2>1. k + 1 \in 1..n /\ k + 1 # 0 /\ (k + 1) - 1 = k /\ k + 1 \in 0..n
    BY <1>1
  <2>2. m[k + 1] = Absorb(m[k], ds[k + 1])
    BY <1>10, <2>1
  <2>3. g[k + 1] = Absorb(g[k], ds[k + 1])
    BY <1>7, <2>1
  <2> QED BY <1>12, <2>2, <2>3
<1> HIDE DEF Solution
<1>13. m[n] = g[n]
  BY <1>11, <1>12, StepsAgree
<1>14. g[n] = Halves(cs)
  BY <1>1, <1>5, TheFirstAll
<1>15. ValidateAddress(address, ds) <=> Squeezed(m[n]) = address
  BY <1>4, <1>9 DEF ValidateAddress, Solution
<1> QED BY <1>2, <1>13, <1>14, <1>15 DEF Squeezed

LEMMA SqueezedTells ==
    ASSUME NEW cs \in Seq(Cosigners), NEW ds \in Seq(Cosigners)
    PROVE  Append(Halves(cs), "squeezed") = Append(Halves(ds), "squeezed") <=> cs = ds
<1> DEFINE S == HalfDigests \cup {"squeezed"}
<1>1. Halves(cs) \in Seq(S) /\ Halves(ds) \in Seq(S) /\ "squeezed" \in S
  BY HalvesType, SeqMonotonic
<1> HIDE DEF S
<1>2. Append(Halves(cs), "squeezed") = Append(Halves(ds), "squeezed") <=> Halves(cs) = Halves(ds)
  BY <1>1, AppendInjective
<1> QED BY <1>2, HalvesTell

LEMMA AddressTells ==
    ASSUME order \in Seq(Cosigners), multisig = Squeezed(Halves(order))
    PROVE  AddressOfItsOrder
<1> SUFFICES ASSUME NEW n \in 0..MaxCosigners, NEW cs \in [1..n -> Cosigners]
             PROVE  ValidateAddress(multisig, DigestsOf(cs)) <=> cs = order
  BY DEF AddressOfItsOrder, DigestsOf
<1>1. n \in Nat
  BY MultisigAssumption
<1>2. cs \in Seq(Cosigners)
  BY <1>1
<1> QED BY <1>2, ValidatesHalves, SqueezedTells DEF Squeezed


(* The bundle of a transfer.                                                 *)
Entry(address, value) == [address |-> address, value |-> value, timestamp |-> 0]

Extends(e, S, b, length, address, value) ==
    /\ e \in Seq(S) /\ Len(e) = Len(b) + length
    /\ \A k \in 1..Len(b) : e[k] = b[k]
    /\ \A k \in 1..length : e[Len(b) + k] = Entry(address, IF k = 1 THEN value ELSE 0)

LEMMA AddedEntries ==
    ASSUME NEW S, NEW b \in Seq(S), NEW length \in Nat, NEW address, NEW value,
           Entry(address, value) \in S, Entry(address, 0) \in S
    PROVE  Extends(AddEntry(b, length, address, value, 0), S, b, length, address, value)
<1>1. PICK n \in Nat : n = Len(b)
  OBVIOUS
<1>2. PICK a : a = [k \in 1..length |-> [address |-> address,
                                         value |-> IF k = 1 THEN value ELSE 0,
                                         timestamp |-> 0]]
  OBVIOUS
<1>3. \A k \in 1..length : a[k] = Entry(address, IF k = 1 THEN value ELSE 0) /\ a[k] \in S
  BY <1>2 DEF Entry
<1>4. a \in [1..length -> S]
  BY <1>2, <1>3
<1>5. a \in Seq(S) /\ Len(a) = length
  BY <1>4
<1>6. PICK e : e = b \o a
  OBVIOUS
<1>7. /\ e \in Seq(S) /\ Len(e) = n + length
      /\ \A u \in 1..(n + length) : e[u] = IF u <= n THEN b[u] ELSE a[u - n]
  BY <1>1, <1>5, <1>6, ConcatProperties
<1>8. ASSUME NEW k \in 1..length PROVE e[n + k] = a[k]
  <2>1. PICK u \in 1..(n + length) : u = n + k /\ u > n /\ u - n = k
    BY <1>1
  <2> QED BY <1>7, <2>1
<1>9. \A k \in 1..n : e[k] = b[k]
  BY <1>7
<1>10. AddEntry(b, length, address, value, 0) = e
  BY <1>2, <1>6 DEF AddEntry
<1>11. Extends(e, S, b, length, address, value)
  BY <1>1, <1>3, <1>7, <1>8, <1>9 DEF Extends
<1> QED BY <1>10, <1>11

(* With one transfer the folds take one step.                                *)
LEMMA OneTransfer ==
    ASSUME NEW t
    PROVE  Outputs(<<t>>, 0) = AddEntry(<<>>, MessageEntries(t.message), t.address, t.value, 0)
<1> DEFINE Step(b) == AddEntry(b, MessageEntries(t.message), t.address, t.value, 0)
           Solution(m) ==
             m = [s \in SUBSET {1} |->
                    IF s = {} THEN <<>>
                    ELSE AddEntry(m[s \ {Max(s)}], MessageEntries(<<t>>[Max(s)].message),
                                  <<t>>[Max(s)].address, <<t>>[Max(s)].value, 0)]
<1>1. PICK g : g = [s \in SUBSET {1} |-> IF s = {} THEN <<>> ELSE Step(<<>>)]
  OBVIOUS
<1>2. Max({1}) = 1
  BY DEF Max
<1>3. \A s \in SUBSET {1} : s # {} => s = {1} /\ s \ {Max(s)} = {}
  BY <1>2
<1>4. <<t>>[1] = t
  OBVIOUS
<1>5. Solution(g)
  <2>1. g[{}] = <<>>
    BY <1>1
  <2>2. ASSUME NEW s \in SUBSET {1}, s # {}
        PROVE  AddEntry(g[s \ {Max(s)}], MessageEntries(<<t>>[Max(s)].message),
                        <<t>>[Max(s)].address, <<t>>[Max(s)].value, 0) = Step(<<>>)
    BY <1>2, <1>3, <1>4, <2>1, <2>2
  <2> HIDE DEF Step
  <2> QED BY <1>1, <2>2
<1>6. PICK m : m = CHOOSE a : Solution(a)
  OBVIOUS
<1>7. Solution(m)
  BY <1>5, <1>6
<1>8. m[{}] = <<>>
  BY <1>7
<1>9. m[{1}] = Step(<<>>)
  <2>1. {1} \in SUBSET {1} /\ {1} # {} /\ {1} \ {Max({1})} = {}
    BY <1>2
  <2>2. m[{1}] = AddEntry(m[{1} \ {Max({1})}], MessageEntries(<<t>>[Max({1})].message),
                          <<t>>[Max({1})].address, <<t>>[Max({1})].value, 0)
    BY <1>7, <2>1
  <2>3. m[{1}] = AddEntry(<<>>, MessageEntries(<<t>>[1].message), <<t>>[1].address, <<t>>[1].value, 0)
    BY <1>2, <1>8, <2>1, <2>2
  <2> QED BY <1>4, <2>3
<1>10. Outputs(<<t>>, 0) = m[DOMAIN <<t>>]
  BY <1>6 DEF Outputs, FoldLeft, MapThenFoldSet
<1>11. DOMAIN <<t>> = {1}
  OBVIOUS
<1> QED BY <1>9, <1>10, <1>11

LEMMA OneMessage ==
    ASSUME NEW t
    PROVE  DOMAIN SignatureFragments(<<t>>) = 1..MessageFragments(t.message)
<1>1. PICK a : a = [n \in 1..MessageFragments(t.message) |-> Message(1, n)]
  OBVIOUS
<1>2. PICK s : s = [x \in DOMAIN <<t>> |->
                      [n \in 1..MessageFragments(<<t>>[x].message) |-> Message(x, n)]]
  OBVIOUS
<1>3. DOMAIN <<t>> = 1..1 /\ <<t>>[1] = t
  OBVIOUS
<1>4. Len(s) = 1 /\ s[1] = a
  BY <1>1, <1>2, <1>3
<1> DEFINE Solution(m) == m = [u \in 1..1 |-> IF u = 1 THEN s[u] ELSE m[u - 1] \o s[u]]
<1>5. PICK g : g = [u \in 1..1 |-> s[u]]
  OBVIOUS
<1>6. Solution(g)
  BY <1>5
<1>7. PICK m : m = CHOOSE x : Solution(x)
  OBVIOUS
<1>8. Solution(m)
  BY <1>6, <1>7
<1>9. m[1] = a
  BY <1>4, <1>8
<1>10. FlattenSeq(s) = m[1]
  BY <1>4, <1>7 DEF FlattenSeq
<1>11. SignatureFragments(<<t>>) = a
  BY <1>2, <1>9, <1>10 DEF SignatureFragments
<1> QED BY <1>1, <1>11

LEMMA FragmentsFit ==
    ASSUME NEW n \in Nat
    PROVE  /\ MessageEntries(n) \in Nat \ {0} /\ MessageFragments(n) \in Nat
           /\ MessageFragments(n) <= MessageEntries(n)
<1>1. FragmentSize \in Nat /\ FragmentSize > 0
  BY BundleAssumption
<1>2. CASE n > FragmentSize
  <2>1. PICK q \in Nat, r \in Nat : q = n \div FragmentSize /\ r = n % FragmentSize
                                    /\ n = FragmentSize * q + r /\ r < FragmentSize
    BY <1>1
  <2>2. PICK x \in Nat, y \in Nat : x = (n + FragmentSize - 1) \div FragmentSize
                                    /\ y = (n + FragmentSize - 1) % FragmentSize
                                    /\ n + FragmentSize - 1 = FragmentSize * x + y
    BY <1>1
  <2>3. x <= 1 + q
    <3>1. SUFFICES ASSUME x >= q + 2 PROVE FALSE
      OBVIOUS
    <3>2. PICK d \in Nat : x = q + 2 + d
      <4>1. x - (q + 2) \in Nat /\ x = q + 2 + (x - (q + 2))
        BY <3>1
      <4> QED BY <4>1
    <3>3. FragmentSize * x = FragmentSize * q + FragmentSize + FragmentSize + FragmentSize * d
      BY <1>1, <3>2
    <3>4. FragmentSize * d \in Nat /\ FragmentSize * q \in Nat
      BY <1>1
    <3> QED BY <1>1, <2>1, <2>2, <3>3, <3>4
  <2>4. MessageEntries(n) = 1 + q /\ MessageFragments(n) = x
    BY <1>2, <2>1, <2>2 DEF MessageEntries, MessageFragments
  <2> QED BY <2>3, <2>4
<1>3. CASE ~(n > FragmentSize)
  BY <1>3 DEF MessageEntries, MessageFragments
<1> QED BY <1>2, <1>3

Spends(e, S, b, address, balance, n) ==
    /\ e \in Seq(S) /\ Len(e) = Len(b) + 2 * n
    /\ \A k \in 1..Len(b) : e[k] = b[k]
    /\ e[Len(b) + 1] = Entry(address, -balance)

LEMMA InputEntriesAre ==
    ASSUME NEW S, NEW b \in Seq(S), NEW address, NEW balance, NEW n \in Nat \ {0},
           Entry(address, -balance) \in S, Entry(address, 0) \in S
    PROVE  Spends(InputEntries(b, address, balance, n), S, b, address, balance, n)
<1> DEFINE Spent(k) == IF k = 1 THEN -balance ELSE 0
           EntryOf(l, k) == IF k <= l THEN b[k]
                            ELSE IF k = l + 1 THEN Entry(address, -balance) ELSE Entry(address, 0)
           Solution(m) == m = [k \in 0..n |-> IF k = 0 THEN b
                                              ELSE AddEntry(m[k - 1], 2, address, IF k = 1 THEN -balance ELSE 0, 0)]
<1>1. PICK l \in Nat : l = Len(b) /\ b = [k \in 1..l |-> b[k]] /\ \A k \in 1..l : b[k] \in S
  <2>1. Len(b) \in Nat /\ b = [k \in 1..Len(b) |-> b[k]]
    OBVIOUS
  <2> QED BY <2>1
<1>2. PICK g : g = [k \in 0..n |-> [u \in 1..(l + 2 * k) |-> EntryOf(l, u)]]
  OBVIOUS
<1>3. g[0] = b
  <2>1. g[0] = [u \in 1..l |-> EntryOf(l, u)]
    <3>1. 0 \in 0..n /\ l + 2 * 0 = l
      BY <1>1
    <3> QED BY <1>2, <3>1
  <2>2. \A u \in 1..l : EntryOf(l, u) = b[u]
    BY <1>1
  <2> QED BY <1>1, <2>1, <2>2
<1>4. ASSUME NEW k \in 0..n
      PROVE  g[k] \in Seq(S) /\ Len(g[k]) = l + 2 * k /\ \A u \in 1..(l + 2 * k) : g[k][u] = EntryOf(l, u)
  <2>1. PICK h \in Nat : h = l + 2 * k
    BY <1>1
  <2>2. g[k] = [u \in 1..h |-> EntryOf(l, u)]
    BY <1>2, <2>1
  <2>3. \A u \in 1..h : EntryOf(l, u) \in S
    <3> TAKE u \in 1..h
    <3> QED BY <1>1
  <2>4. g[k] \in [1..h -> S]
    BY <2>2, <2>3
  <2> HIDE DEF EntryOf
  <2>5. g[k] \in Seq(S) /\ Len(g[k]) = h
    <3>1. PICK r : r = g[k]
      OBVIOUS
    <3>2. r \in [1..h -> S]
      BY <2>4, <3>1
    <3>3. r \in Seq(S) /\ Len(r) = h
      BY <2>1, <3>2
    <3> QED BY <3>1, <3>3
  <2> QED BY <2>1, <2>2, <2>5
<1>5. ASSUME NEW k \in 1..n
      PROVE  g[k] = AddEntry(g[k - 1], 2, address, IF k = 1 THEN -balance ELSE 0, 0)
  <2>1. PICK h \in 0..n : h = k - 1 /\ h + 1 = k /\ (k = 1 <=> h = 0)
    <3>1. k - 1 \in 0..n /\ (k - 1) + 1 = k
      OBVIOUS
    <3> QED BY <3>1
  <2>2. PICK a : a = g[h]
    OBVIOUS
  <2>3. a \in Seq(S) /\ Len(a) = l + 2 * h /\ \A u \in 1..(l + 2 * h) : a[u] = EntryOf(l, u)
    BY <1>4, <2>2
  <2>4. PICK v : v = IF k = 1 THEN -balance ELSE 0
    OBVIOUS
  <2>5. Entry(address, v) \in S
    BY <2>4
  <2>6. PICK e : e = AddEntry(a, 2, address, v, 0)
    OBVIOUS
  <2>7. /\ e \in Seq(S) /\ Len(e) = Len(a) + 2
        /\ \A u \in 1..Len(a) : e[u] = a[u]
        /\ \A u \in 1..2 : e[Len(a) + u] = Entry(address, IF u = 1 THEN v ELSE 0)
    <3>1. PICK two \in Nat : two = 2
      OBVIOUS
    <3>2. Extends(AddEntry(a, two, address, v, 0), S, a, two, address, v)
      BY <2>3, <2>5, AddedEntries
    <3>3. Extends(e, S, a, 2, address, v)
      BY <2>6, <3>1, <3>2
    <3> QED BY <3>3 DEF Extends
  <2>8. PICK top \in Nat : top = l + 2 * h /\ top + 2 = l + 2 * k /\ (h = 0 <=> top = l) /\ top >= l
    BY <1>1, <2>1
  <2>9. Len(e) = top + 2 /\ Len(a) = top
    BY <2>3, <2>7, <2>8
  <2>10. e[top + 1] = Entry(address, v) /\ e[top + 2] = Entry(address, 0)
    BY <2>7, <2>9
  <2>11. EntryOf(l, top + 1) = Entry(address, v) /\ EntryOf(l, top + 2) = Entry(address, 0)
    <3>1. ~(top + 1 <= l) /\ ~(top + 2 <= l) /\ top + 2 # l + 1 /\ (top + 1 = l + 1 <=> k = 1)
      <4>1. top + 1 = l + 1 <=> top = l
        OBVIOUS
      <4>2. ~(top + 1 <= l) /\ ~(top + 2 <= l) /\ top + 2 # l + 1
        BY <2>8
      <4> QED BY <2>1, <2>8, <4>1, <4>2
    <3> QED BY <2>4, <3>1
  <2>12. ASSUME NEW u \in 1..(top + 2) PROVE e[u] = g[k][u]
    <3>1. g[k][u] = EntryOf(l, u)
      BY <1>4, <2>8
    <3>2. CASE u <= top
      <4> HIDE DEF EntryOf
      <4> QED BY <2>3, <2>7, <2>8, <2>9, <3>1, <3>2
    <3>3. CASE u = top + 1 \/ u = top + 2
      <4> HIDE DEF EntryOf
      <4> QED BY <2>10, <2>11, <3>1, <3>3
    <3>4. u <= top \/ u = top + 1 \/ u = top + 2
      BY <2>8
    <3> QED BY <3>2, <3>3, <3>4
  <2>13. g[k] \in Seq(S) /\ Len(g[k]) = top + 2
    <3>1. k \in 0..n
      OBVIOUS
    <3> QED BY <1>4, <2>8, <3>1
  <2>14. e = g[k]
    BY <2>7, <2>9, <2>12, <2>13, SeqEqual
  <2> QED BY <2>1, <2>2, <2>4, <2>6, <2>14
<1> HIDE DEF EntryOf
<1>6. Solution(g)
  <2>1. ASSUME NEW k \in 0..n
        PROVE  g[k] = IF k = 0 THEN b
                      ELSE AddEntry(g[k - 1], 2, address, IF k = 1 THEN -balance ELSE 0, 0)
    <3>1. CASE k = 0
      BY <1>3, <3>1
    <3>2. CASE k # 0
      <4>1. k \in 1..n
        BY <3>2
      <4> QED BY <1>5, <3>2, <4>1
    <3> QED BY <3>1, <3>2
  <2>2. g = [k \in 0..n |-> g[k]]
    BY <1>2
  <2> QED BY <2>1, <2>2
<1>7. PICK m : m = CHOOSE a : Solution(a)
  OBVIOUS
<1>8. Solution(m)
  BY <1>6, <1>7
<1>9. m[0] = g[0]
  BY <1>3, <1>8
<1>10. ASSUME NEW k \in 0..(n - 1), m[k] = g[k] PROVE m[k + 1] = g[k + 1]
  <2>1. k + 1 \in 1..n /\ k + 1 # 0 /\ (k + 1) - 1 = k /\ k + 1 \in 0..n
    OBVIOUS
  <2>2. m[k + 1] = AddEntry(m[k], 2, address, IF k + 1 = 1 THEN -balance ELSE 0, 0)
    BY <1>8, <2>1
  <2>3. g[k + 1] = AddEntry(g[k], 2, address, IF k + 1 = 1 THEN -balance ELSE 0, 0)
    BY <1>5, <2>1
  <2> QED BY <1>10, <2>2, <2>3
<1>11. InputEntries(b, address, balance, n) = m[n]
  BY <1>7 DEF InputEntries
<1> HIDE DEF Solution
<1>12. m[n] = g[n]
  BY <1>9, <1>10, StepsAgree
<1>13. n \in 0..n /\ l + 1 \in 1..(l + 2 * n)
  BY <1>1
<1>14. \A k \in 1..l : EntryOf(l, k) = b[k] /\ k \in 1..(l + 2 * n)
  BY <1>1 DEF EntryOf
<1>15. EntryOf(l, l + 1) = Entry(address, -balance)
  BY <1>1 DEF EntryOf
<1>16. PICK e : e = g[n]
  OBVIOUS
<1>17. e \in Seq(S) /\ Len(e) = l + 2 * n /\ \A u \in 1..(l + 2 * n) : e[u] = EntryOf(l, u)
  BY <1>4, <1>13, <1>16
<1>18. Spends(e, S, b, address, balance, n)
  BY <1>1, <1>13, <1>14, <1>15, <1>17 DEF Spends
<1> QED BY <1>11, <1>12, <1>16, <1>18


(* A finished transaction, and one whose fragment is replaced.               *)
Tx(a, v, ts, ci, li, h, f) ==
    [address |-> a, value |-> v, timestamp |-> ts, currentIndex |-> ci, lastIndex |-> li,
     bundle |-> h, fragment |-> f, hash |-> 0, trunk |-> 0]
IsTx(e) == \E a, v, ts, ci, li, h, f : e = Tx(a, v, ts, ci, li, h, f)

LEMMA TxParts ==
    ASSUME NEW a, NEW v, NEW ts, NEW ci, NEW li, NEW h, NEW f, NEW g
    PROVE  /\ Tx(a, v, ts, ci, li, h, f).address = a
           /\ Tx(a, v, ts, ci, li, h, f).value = v
           /\ Tx(a, v, ts, ci, li, h, f).fragment = f
           /\ [Tx(a, v, ts, ci, li, h, f) EXCEPT !.fragment = g] = Tx(a, v, ts, ci, li, h, g)
  BY DEF Tx

LEMMA FinalizedIs ==
    ASSUME NEW S, NEW w \in Seq(S)
    PROVE  \E h : Finalize(w) = [k \in 1..Len(w) |->
                     Tx(w[k].address, w[k].value, w[k].timestamp, k - 1, Len(w) - 1, h, Empty)]
<1>1. PICK n : n = Len(w)
  OBVIOUS
<1>2. DOMAIN w = 1..n
  BY <1>1
<1>3. PICK indexed : indexed = [k \in DOMAIN w |->
                       [address |-> w[k].address, value |-> w[k].value,
                        timestamp |-> w[k].timestamp,
                        currentIndex |-> k - 1, lastIndex |-> Len(w) - 1]]
  OBVIOUS
<1>4. PICK h : h = [k \in DOMAIN indexed |-> Essence(indexed[k])]
  OBVIOUS
<1>5. Finalize(w) = [k \in DOMAIN indexed |->
            [address |-> indexed[k].address, value |-> indexed[k].value,
             timestamp |-> indexed[k].timestamp, currentIndex |-> indexed[k].currentIndex,
             lastIndex |-> indexed[k].lastIndex, bundle |-> h, fragment |-> Empty,
             hash |-> 0, trunk |-> 0]]
  BY <1>3, <1>4 DEF Finalize
<1>6. DOMAIN indexed = 1..n
  BY <1>2, <1>3
<1>7. \A k \in 1..n : /\ indexed[k].address = w[k].address /\ indexed[k].value = w[k].value
                      /\ indexed[k].timestamp = w[k].timestamp
                      /\ indexed[k].currentIndex = k - 1 /\ indexed[k].lastIndex = n - 1
  BY <1>1, <1>2, <1>3
<1>8. Finalize(w) = [k \in 1..n |-> Tx(w[k].address, w[k].value, w[k].timestamp, k - 1, n - 1, h, Empty)]
  BY <1>5, <1>6, <1>7 DEF Tx
<1> QED BY <1>1, <1>8

(* The entries of the one input are from place p on, 2n of them.             *)
InputOf(b, p, n, address) ==
    /\ p \in Nat \ {0}
    /\ \E m \in Nat : m >= p + 2 * n - 1 /\ b = [k \in 1..m |-> b[k]]
    /\ \A k \in DOMAIN b : IsTx(b[k])
    /\ \A k \in 1..(p - 1) : ~(b[k].value < 0)
    /\ b[p].value < 0 /\ b[p].address = address

IsWhole(w, l, n, entry) ==
    /\ \E S : w \in Seq(S)
    /\ Len(w) \in Nat /\ Len(w) >= l + 2 * n
    /\ \A k \in 1..l : ~(w[k].value < 0)
    /\ w[l + 1] = entry

LEMMA WholeIs ==
    ASSUME NEW v \in Nat, NEW balance \in Int, balance > 0, NEW l \in Nat \ {0}, NEW n \in Nat \ {0},
           NEW address, NEW spent, NEW w,
           spent = InputEntries(AddEntry(<<>>, l, "payee", v, 0), address, balance, n),
           w = IF balance > v THEN AddEntry(spent, 1, "remainder", balance - v, 0) ELSE spent
    PROVE  IsWhole(w, l, n, Entry(address, -balance))
<1> DEFINE S == {Entry("payee", v), Entry("payee", 0), Entry(address, -balance), Entry(address, 0),
                 Entry("remainder", balance - v), Entry("remainder", 0)}
<1>1. /\ Entry("payee", v) \in S /\ Entry("payee", 0) \in S /\ Entry(address, -balance) \in S
      /\ Entry(address, 0) \in S /\ Entry("remainder", balance - v) \in S /\ Entry("remainder", 0) \in S
  OBVIOUS
<1> HIDE DEF S
<1>2. <<>> \in Seq(S) /\ Len(<<>>) = 0
  OBVIOUS
<1>3. PICK out : out = AddEntry(<<>>, l, "payee", v, 0)
  OBVIOUS
<1>4. Extends(out, S, <<>>, l, "payee", v)
  BY <1>1, <1>2, <1>3, AddedEntries
<1>5. out \in Seq(S) /\ Len(out) = l /\ \A k \in 1..l : out[k] = Entry("payee", IF k = 1 THEN v ELSE 0)
  <2>1. \A k \in 1..l : 0 + k = k
    OBVIOUS
  <2> QED BY <1>2, <1>4, <2>1 DEF Extends
<1>6. \A k \in 1..l : ~(out[k].value < 0)
  <2> TAKE k \in 1..l
  <2>1. out[k].value = IF k = 1 THEN v ELSE 0
    BY <1>5 DEF Entry
  <2> QED BY <2>1
<1>7. spent = InputEntries(out, address, balance, n)
  BY <1>3
<1>8. /\ spent \in Seq(S) /\ Len(spent) = l + 2 * n
      /\ \A k \in 1..l : spent[k] = out[k]
      /\ spent[l + 1] = Entry(address, -balance)
  <2>1. Spends(spent, S, out, address, balance, n)
    BY <1>1, <1>5, <1>7, InputEntriesAre
  <2> QED BY <1>5, <2>1 DEF Spends
<1>9. w = IF balance > v THEN AddEntry(spent, 1, "remainder", balance - v, 0) ELSE spent
  OBVIOUS
<1>10. /\ w \in Seq(S) /\ Len(w) \in Nat /\ Len(w) >= l + 2 * n
       /\ \A k \in 1..(l + 1) : w[k] = spent[k]
  <2>1. CASE ~(balance > v)
    BY <1>8, <1>9, <2>1
  <2>2. CASE balance > v
    <3>1. w = AddEntry(spent, 1, "remainder", balance - v, 0)
      BY <1>9, <2>2
    <3>2. Extends(w, S, spent, 1, "remainder", balance - v)
      BY <1>1, <1>8, <3>1, AddedEntries
    <3>3. w \in Seq(S) /\ Len(w) = l + 2 * n + 1 /\ \A k \in 1..(l + 2 * n) : w[k] = spent[k]
      BY <1>8, <3>2 DEF Extends
    <3>4. \A k \in 1..(l + 1) : k \in 1..(l + 2 * n)
      OBVIOUS
    <3> QED BY <3>3, <3>4
  <2> QED BY <2>1, <2>2
<1>11. \A k \in 1..l : k \in 1..(l + 1)
  OBVIOUS
<1>12. \A k \in 1..l : ~(w[k].value < 0)
  BY <1>6, <1>8, <1>10, <1>11
<1>13. w[l + 1] = Entry(address, -balance)
  BY <1>8, <1>10
<1> QED BY <1>10, <1>12, <1>13 DEF IsWhole

LEMMA InitiatedIs ==
    ASSUME NEW t \in Transfers, NEW n \in Nat \ {0}, t.balance > 0
    PROVE  \E p \in Nat : /\ InputOf(Initiated(t, n), p, n, multisig)
                          /\ \A j \in 1..(2 * n) : Initiated(t, n)[p + j - 1].fragment = Empty
<1>1. PICK v \in Nat, message \in Nat, balance \in Int :
          v = t.value /\ message = t.message /\ balance = t.balance /\ balance > 0
  BY MultisigAssumption
<1>2. PICK tr : tr = [address |-> "payee", value |-> v, message |-> message]
  OBVIOUS
<1>3. tr.address = "payee" /\ tr.value = v /\ tr.message = message
  BY <1>2
<1>4. PICK l \in Nat \ {0}, q \in Nat : l = MessageEntries(message) /\ q = MessageFragments(message) /\ q <= l
  BY FragmentsFit
<1>5. PICK frags : frags = SignatureFragments(<<tr>>)
  OBVIOUS
<1>6. DOMAIN frags = 1..q
  BY <1>3, <1>4, <1>5, OneMessage
<1>7. Outputs(<<tr>>, 0) = AddEntry(<<>>, l, "payee", v, 0)
  BY <1>3, <1>4, OneTransfer
<1>8. PICK spent : spent = InputEntries(AddEntry(<<>>, l, "payee", v, 0), multisig, balance, n)
  OBVIOUS
<1>9. PICK w : w = IF balance > v THEN AddEntry(spent, 1, "remainder", balance - v, 0) ELSE spent
  OBVIOUS
<1>10. /\ \E S : w \in Seq(S)
       /\ Len(w) \in Nat /\ Len(w) >= l + 2 * n
       /\ \A k \in 1..l : ~(w[k].value < 0)
       /\ w[l + 1] = Entry(multisig, -balance)
  <2>1. IsWhole(w, l, n, Entry(multisig, -balance))
    BY <1>1, <1>8, <1>9, WholeIs
  <2> QED BY <2>1 DEF IsWhole
<1>11. PICK m \in Nat : m = Len(w) /\ m >= l + 2 * n
  BY <1>10
<1>12. PICK h : Finalize(w) = [k \in 1..m |->
                  Tx(w[k].address, w[k].value, w[k].timestamp, k - 1, m - 1, h, Empty)]
  <2>1. PICK S : w \in Seq(S)
    BY <1>10
  <2>2. \E h : Finalize(w) = [k \in 1..Len(w) |->
                  Tx(w[k].address, w[k].value, w[k].timestamp, k - 1, Len(w) - 1, h, Empty)]
    BY <2>1, FinalizedIs
  <2> QED BY <1>11, <2>2
<1>13. PICK fin : fin = Finalize(w)
  OBVIOUS
<1>14. PICK b : b = AddTrytes(fin, frags)
  OBVIOUS
<1>15. Initiated(t, n) = b
  BY <1>1, <1>2, <1>5, <1>7, <1>8, <1>9, <1>13, <1>14 DEF Initiated
<1> DEFINE Carry(k) == IF k \in DOMAIN frags THEN frags[k] ELSE Empty
           Done(k) == Tx(w[k].address, w[k].value, w[k].timestamp, k - 1, m - 1, h, Carry(k))
<1>16. DOMAIN fin = 1..m
  BY <1>12, <1>13
<1>17. b = [k \in 1..m |-> [fin[k] EXCEPT !.fragment = Carry(k)]]
  BY <1>14, <1>16 DEF AddTrytes
<1>18. ASSUME NEW k \in 1..m PROVE b[k] = Done(k)
  <2>1. fin[k] = Tx(w[k].address, w[k].value, w[k].timestamp, k - 1, m - 1, h, Empty)
    BY <1>12, <1>13
  <2>2. PICK f : f = Carry(k)
    OBVIOUS
  <2>3. b[k] = [fin[k] EXCEPT !.fragment = f]
    BY <1>17, <2>2
  <2> HIDE DEF Carry
  <2> QED BY <2>1, <2>2, <2>3, TxParts
<1>19. b = [k \in 1..m |-> b[k]]
  BY <1>17
<1>20. \A k \in 1..m : b[k].value = w[k].value /\ b[k].address = w[k].address /\ b[k].fragment = Carry(k)
  <2> HIDE DEF Carry
  <2> QED BY <1>18, TxParts
<1>21. \A k \in 1..m : IsTx(b[k])
  <2> HIDE DEF Carry
  <2> QED BY <1>18 DEF IsTx
<1>22. PICK p \in Nat \ {0} : p = l + 1 /\ p - 1 = l /\ p \in 1..m
  BY <1>11
<1>23. \A k \in 1..l : ~(b[k].value < 0)
  <2>1. \A k \in 1..l : k \in 1..m
    BY <1>11
  <2> QED BY <1>10, <1>20, <2>1
<1>24. b[p].value < 0 /\ b[p].address = multisig
  <2>1. Entry(multisig, -balance).value = -balance /\ Entry(multisig, -balance).address = multisig
    BY DEF Entry
  <2>2. -balance < 0
    BY <1>1
  <2> QED BY <1>10, <1>20, <1>22, <2>1, <2>2
<1>25. m >= p + 2 * n - 1
  BY <1>11, <1>22
<1>26. DOMAIN b = 1..m
  BY <1>17
<1>27. InputOf(b, p, n, multisig)
  BY <1>19, <1>21, <1>22, <1>23, <1>24, <1>25, <1>26 DEF InputOf
<1>28. ASSUME NEW j \in 1..(2 * n) PROVE b[p + j - 1].fragment = Empty
  <2>1. PICK k \in 1..m : k = p + j - 1 /\ k > l
    <3>1. p + j - 1 \in 1..m /\ p + j - 1 > l
      BY <1>11, <1>22
    <3> QED BY <3>1
  <2>2. k \notin DOMAIN frags
    BY <1>4, <1>6, <2>1
  <2>3. Carry(k) = Empty
    BY <2>2
  <2> HIDE DEF Carry
  <2> QED BY <1>20, <2>1, <2>3
<1> QED BY <1>15, <1>22, <1>27, <1>28

WithFragment(b, place, f) == [b EXCEPT ![place].fragment = f]

OnlyThere(d, b, place, f) ==
    /\ DOMAIN d = DOMAIN b
    /\ d[place].fragment = f /\ \A u \in DOMAIN b : u # place => d[u] = b[u]

LEMMA SignedOnce ==
    ASSUME NEW b, NEW p, NEW n \in Nat \ {0}, NEW address, InputOf(b, p, n, address),
           NEW place \in DOMAIN b, NEW f
    PROVE  /\ InputOf(WithFragment(b, place, f), p, n, address)
           /\ OnlyThere(WithFragment(b, place, f), b, place, f)
<1>0. PICK d : d = [b EXCEPT ![place].fragment = f]
  OBVIOUS
<1>1. PICK m \in Nat : m >= p + 2 * n - 1 /\ b = [k \in 1..m |-> b[k]]
  BY DEF InputOf
<1>2. DOMAIN b = 1..m
  BY <1>1
<1>3. PICK a, v, ts, ci, li, h, g : b[place] = Tx(a, v, ts, ci, li, h, g)
  BY DEF InputOf, IsTx
<1>4. PICK e : e = [b[place] EXCEPT !.fragment = f]
  OBVIOUS
<1>5. e = Tx(a, v, ts, ci, li, h, f)
  BY <1>3, <1>4, TxParts
<1>6. IsTx(e) /\ e.address = b[place].address /\ e.value = b[place].value /\ e.fragment = f
  <2>1. IsTx(e)
    BY <1>5 DEF IsTx
  <2> QED BY <1>3, <1>5, <2>1, TxParts
<1>7. d = [k \in 1..m |-> IF k = place THEN e ELSE b[k]]
  BY <1>0, <1>2, <1>4
<1>8. DOMAIN d = 1..m /\ d[place] = e /\ (\A u \in DOMAIN b : u # place => d[u] = b[u])
      /\ d = [k \in 1..m |-> d[k]]
  BY <1>2, <1>7
<1>9. \A k \in 1..m : IsTx(d[k]) /\ d[k].value = b[k].value /\ d[k].address = b[k].address
  BY <1>2, <1>6, <1>8 DEF InputOf
<1>10. p \in Nat \ {0} /\ p \in 1..m /\ \A k \in 1..(p - 1) : k \in 1..m
  <2>1. p \in Nat \ {0}
    BY DEF InputOf
  <2> QED BY <1>1, <2>1
<1>11. InputOf(d, p, n, address)
  BY <1>1, <1>2, <1>8, <1>9, <1>10 DEF InputOf
<1>12. OnlyThere(d, b, place, f)
  BY <1>2, <1>6, <1>8 DEF OnlyThere
<1> QED BY <1>0, <1>11, <1>12 DEF WithFragment


(* What the entries of the input carry: nothing, or the fragment that the    *)
(* cosigner who signed there last put in.                                    *)
SignedAt(c, j) ==
    Chains(SignatureFragment(HashFragment(j - 1), Fragment(GetKey(c), HalfOf(j))))
Carried(c, j) == IF c = Nobody THEN Empty ELSE SignedAt(c, j)
CarriesAll(b, p, who, n) == \A j \in 1..(2 * n) : b[p + j - 1].fragment = Carried(Cosigner(who, j), j)

BundleRight(b, who, n, address) ==
    /\ who \in [1..n -> Cosigners \cup {Nobody}]
    /\ \E p \in Nat : InputOf(b, p, n, address) /\ CarriesAll(b, p, who, n)

(* The inductive invariant: the sponge has absorbed who is in order, and so  *)
(* has the address; each entry carries what its last signer signed.          *)
MultisigInv ==
    /\ order \in Seq(Cosigners)
    /\ curlState = Halves(order)
    /\ multisig # NotFinal => order # <<>> /\ multisig = Squeezed(Halves(order))
    /\ bundle # <<>> => multisig # NotFinal /\ BundleRight(bundle, signedBy, Len(order), multisig)

LEMMA InputPlaceIs ==
    ASSUME NEW b, NEW p, NEW n \in Nat \ {0}, InputOf(b, p, n, multisig)
    PROVE  InputPlace(b) = p
<1>1. PICK m \in Nat : m >= p + 2 * n - 1 /\ b = [k \in 1..m |-> b[k]]
  BY DEF InputOf
<1>2. PICK R : R = {b[k] : k \in 1..m}
  OBVIOUS
<1>3. b \in [1..m -> R]
  BY <1>1, <1>2
<1>4. Len(b) = m
  BY <1>3
<1>5. PICK I : I = {u \in 1..Len(b) : b[u].value < 0 /\ b[u].address = multisig}
  OBVIOUS
<1>6. p \in Nat \ {0} /\ p \in 1..m
  <2>1. p \in Nat \ {0}
    BY DEF InputOf
  <2> QED BY <1>1, <2>1
<1>7. p \in I
  BY <1>4, <1>5, <1>6 DEF InputOf
<1>8. ASSUME NEW u \in I PROVE p <= u
  <2>1. u \in 1..m /\ b[u].value < 0
    BY <1>4, <1>5
  <2>2. ~(u \in 1..(p - 1))
    BY <2>1 DEF InputOf
  <2> QED BY <1>6, <2>1, <2>2
<1>9. I \subseteq Nat
  BY <1>4, <1>5
<1>10. Min(I) = p
  <2>1. \A u \in I : (\A k \in I : u <= k) => u = p
    BY <1>6, <1>7, <1>8, <1>9
  <2> QED BY <1>7, <1>8, <2>1 DEF Min
<1>11. InputPlace(b) = IF I # {} THEN Min(I) ELSE 0
  BY <1>5 DEF InputPlace, SelectInSeq
<1> QED BY <1>7, <1>10, <1>11

LEMMA HashFragmentType == ASSUME NEW j \in Nat PROVE HashFragment(j) \in LetterFragments
<1>1. (j % 3) + 1 \in 1..3
  OBVIOUS
<1> QED BY <1>1, NormalizedLetters DEF HashFragment

(* Signatures by cosigners cs are verified to the digests of these.          *)
LEMMA VerifiesTo ==
    ASSUME NEW cs \in Seq(Cosigners), NEW address, NEW sigs,
           sigs = [j \in 1..(2 * Len(cs)) |->
                      SignatureFragment(HashFragment(j - 1), Fragment(GetKey(Cosigner(cs, j)), HalfOf(j)))]
    PROVE  ValidateSignatures(address, sigs, HashLetters)
               <=> Append(Halves(cs), "squeezed") = address
<1>1. PICK n \in Nat : n = Len(cs) /\ \A u \in 1..n : cs[u] \in Cosigners
  <2>1. Len(cs) \in Nat /\ \A u \in 1..Len(cs) : cs[u] \in Cosigners
    OBVIOUS
  <2> QED BY <2>1
<1>2. ASSUME NEW j \in 1..(2 * n)
      PROVE  Digest(NormalizedBundle(HashLetters)[((j - 1) % 3) + 1], sigs[j]) = Halves(cs)[j]
  <2>1. PICK c \in Cosigners, half \in 1..2 : c = Cosigner(cs, j) /\ half = HalfOf(j)
    <3>1. ((j - 1) \div 2) + 1 \in 1..n /\ HalfOf(j) \in 1..2
      BY PlaceOfJ
    <3>2. Cosigner(cs, j) \in Cosigners
      BY <1>1, <3>1 DEF Cosigner
    <3> QED BY <3>1, <3>2
  <2>2. PICK f \in LetterFragments : f = HashFragment(j - 1)
    <3>1. j - 1 \in Nat
      OBVIOUS
    <3> QED BY <3>1, HashFragmentType
  <2>3. f = NormalizedBundle(HashLetters)[((j - 1) % 3) + 1]
    BY <2>2 DEF HashFragment
  <2>4. sigs[j] = SignatureFragment(f, Fragment(GetKey(c), half))
    BY <1>1, <2>1, <2>2
  <2>5. Digest(f, sigs[j]) = HalfDigest(c, half)
    BY <2>1, <2>4, SignedHalf
  <2>6. Halves(cs)[j] = HalfDigest(c, half)
    BY <1>1, <2>1 DEF Halves
  <2> QED BY <2>3, <2>5, <2>6
<1>3. DOMAIN sigs = 1..(2 * n)
  BY <1>1
<1>4. PICK d : d = [j \in DOMAIN sigs |-> Digest(NormalizedBundle(HashLetters)[((j - 1) % 3) + 1], sigs[j])]
  OBVIOUS
<1>5. d = Halves(cs)
  <2>1. d = [j \in 1..(2 * n) |-> Halves(cs)[j]]
    BY <1>2, <1>3, <1>4
  <2>2. Halves(cs) = [j \in 1..(2 * n) |-> Halves(cs)[j]]
    BY <1>1 DEF Halves
  <2> QED BY <2>1, <2>2
<1>6. ValidateSignatures(address, sigs, HashLetters) <=> Append(<<>> \o d, "squeezed") = address
  BY <1>4 DEF ValidateSignatures, Address, Squeezed, Absorb, Initialized
<1>7. <<>> \o d = d
  BY <1>5, HalvesType, ConcatEmptySeq
<1> QED BY <1>5, <1>6, <1>7

LEMMA SpendableTells ==
    ASSUME order \in Seq(Cosigners), order # <<>>, multisig = Squeezed(Halves(order)),
           BundleRight(bundle, signedBy, Len(order), multisig)
    PROVE  ValidateMultisig(bundle, Len(order)) <=> signedBy = order
<1>1. PICK n \in Nat \ {0} : n = Len(order)
  <2>1. Len(order) \in Nat \ {0}
    BY EmptySeq
  <2> QED BY <2>1
<1>2. signedBy \in [1..n -> Cosigners \cup {Nobody}]
  BY <1>1 DEF BundleRight
<1>3. PICK p \in Nat : InputOf(bundle, p, n, multisig) /\ CarriesAll(bundle, p, signedBy, n)
  BY <1>1 DEF BundleRight
<1>4. InputPlace(bundle) = p
  BY <1>3, InputPlaceIs
<1>5. PICK fragments : fragments = [j \in 1..(n * 2) |-> bundle[p + j - 1].fragment]
  OBVIOUS
<1>6. PICK sigs : sigs = [j \in DOMAIN fragments |-> fragments[j][2]]
  OBVIOUS
<1>7. ValidateMultisig(bundle, n) <=>
          /\ \A j \in DOMAIN fragments : IsSignature(fragments[j])
          /\ ValidateSignatures(multisig, sigs, HashLetters)
  BY <1>4, <1>5, <1>6 DEF ValidateMultisig
<1>8. n * 2 = 2 * n
  OBVIOUS
<1>9. ASSUME NEW j \in 1..(2 * n) PROVE fragments[j] = Carried(Cosigner(signedBy, j), j)
  BY <1>3, <1>5, <1>8 DEF CarriesAll
<1>10. DOMAIN fragments = 1..(2 * n)
  BY <1>5, <1>8
<1>11. Nobody \notin Cosigners
  BY MultisigAssumption DEF Nobody
<1>12. CASE \E u \in 1..n : signedBy[u] = Nobody
  <2>1. PICK u \in 1..n : signedBy[u] = Nobody
    BY <1>12
  <2>2. signedBy # order
    <3>1. order[u] \in Cosigners
      BY <1>1
    <3> QED BY <1>11, <2>1, <3>1
  <2>3. PICK j \in 1..(2 * n) : j = 2 * u - 1 /\ ((j - 1) \div 2) + 1 = u
    <3>1. 2 * u - 1 \in 1..(2 * n) /\ (((2 * u - 1) - 1) \div 2) + 1 = u
      OBVIOUS
    <3> QED BY <3>1
  <2>4. fragments[j] = Empty
    BY <1>9, <2>1, <2>3 DEF Carried, Cosigner
  <2>5. ~IsSignature(fragments[j])
    BY <2>4 DEF IsSignature, Empty
  <2> QED BY <1>1, <1>7, <1>10, <2>2, <2>5
<1>13. CASE \A u \in 1..n : signedBy[u] # Nobody
  <2>1. signedBy \in [1..n -> Cosigners]
    BY <1>2, <1>13
  <2>2. signedBy \in Seq(Cosigners) /\ Len(signedBy) = n
    BY <2>1
  <2>3. ASSUME NEW j \in 1..(2 * n) PROVE fragments[j] = SignedAt(Cosigner(signedBy, j), j)
    <3>1. ((j - 1) \div 2) + 1 \in 1..n
      BY PlaceOfJ
    <3>2. Cosigner(signedBy, j) # Nobody
      BY <1>13, <3>1 DEF Cosigner
    <3> QED BY <1>9, <3>2 DEF Carried
  <2>4. \A j \in 1..(2 * n) : IsSignature(fragments[j])
    BY <2>3 DEF IsSignature, SignedAt, Chains
  <2>5. ASSUME NEW j \in 1..(2 * n)
        PROVE  fragments[j][2] = SignatureFragment(HashFragment(j - 1),
                                     Fragment(GetKey(Cosigner(signedBy, j)), HalfOf(j)))
    BY <2>3 DEF SignedAt, Chains
  <2>6. sigs = [j \in 1..(2 * Len(signedBy)) |->
                  SignatureFragment(HashFragment(j - 1), Fragment(GetKey(Cosigner(signedBy, j)), HalfOf(j)))]
    BY <1>6, <1>10, <2>2, <2>5
  <2>7. ValidateSignatures(multisig, sigs, HashLetters) <=> Append(Halves(signedBy), "squeezed") = multisig
    BY <2>2, <2>6, VerifiesTo
  <2>8. Append(Halves(signedBy), "squeezed") = multisig <=> signedBy = order
    BY <2>2, SqueezedTells DEF Squeezed
  <2> QED BY <1>1, <1>7, <1>10, <2>4, <2>7, <2>8
<1> QED BY <1>12, <1>13

LEMMA MultisigInvSuffices == MultisigInv => SpendableWhenAllSigned
<1> SUFFICES ASSUME MultisigInv PROVE SpendableWhenAllSigned
  OBVIOUS
<1>1. ASSUME bundle # <<>> PROVE ValidateMultisig(bundle, Len(order)) <=> signedBy = order
  BY <1>1, SpendableTells DEF MultisigInv
<1>2. ASSUME multisig # NotFinal PROVE AddressOfItsOrder
  BY <1>2, AddressTells DEF MultisigInv
<1> QED BY <1>1, <1>2 DEF SpendableWhenAllSigned

LEMMA MultisigInitInv == MultisigInit => MultisigInv
<1> SUFFICES ASSUME MultisigInit PROVE MultisigInv
  OBVIOUS
<1>1. order \in Seq(Cosigners) /\ Len(order) = 0
  BY EmptySeq DEF MultisigInit
<1>2. curlState = Halves(order)
  BY <1>1, HalvesOfNone DEF MultisigInit, Initialized
<1> QED BY <1>1, <1>2 DEF MultisigInit, MultisigInv

LEMMA SigningKeeps ==
    ASSUME NEW b, NEW who, NEW n \in Nat \ {0}, NEW address, BundleRight(b, who, n, address),
           NEW c \in Cosigners, NEW u \in 0..(n - 1), NEW p, p \in Nat,
           InputOf(b, p, n, address), CarriesAll(b, p, who, n),
           NEW first, first = p + u * 2,
           NEW d, d = [[b EXCEPT ![first].fragment = SignedAt(c, u * 2 + 1)]
                          EXCEPT ![first + 1].fragment = SignedAt(c, u * 2 + 2)]
    PROVE  BundleRight(d, [who EXCEPT ![u + 1] = c], n, address)
<1>1. PICK m \in Nat : m >= p + 2 * n - 1 /\ b = [k \in 1..m |-> b[k]]
  BY DEF InputOf
<1>2. DOMAIN b = 1..m
  BY <1>1
<1>3. p >= 1
  BY DEF InputOf
<1>4. first \in 1..m /\ first + 1 \in 1..m /\ first + 1 # first
  BY <1>1, <1>3
<1>5. PICK e : e = [b EXCEPT ![first].fragment = SignedAt(c, u * 2 + 1)]
  OBVIOUS
<1>6. /\ InputOf(e, p, n, address) /\ DOMAIN e = 1..m
      /\ e[first].fragment = SignedAt(c, u * 2 + 1) /\ \A k \in 1..m : k # first => e[k] = b[k]
  <2>1. first \in DOMAIN b
    BY <1>2, <1>4
  <2>2. PICK f : f = SignedAt(c, u * 2 + 1)
    OBVIOUS
  <2>3. e = WithFragment(b, first, f)
    BY <1>5, <2>2 DEF WithFragment
  <2>4. InputOf(e, p, n, address) /\ OnlyThere(e, b, first, f)
    BY <2>1, <2>3, SignedOnce
  <2> QED BY <1>2, <2>2, <2>4 DEF OnlyThere
<1>7. d = [e EXCEPT ![first + 1].fragment = SignedAt(c, u * 2 + 2)]
  BY <1>5
<1>8. /\ InputOf(d, p, n, address) /\ DOMAIN d = 1..m
      /\ d[first + 1].fragment = SignedAt(c, u * 2 + 2) /\ \A k \in 1..m : k # first + 1 => d[k] = e[k]
  <2>1. first + 1 \in DOMAIN e
    BY <1>4, <1>6
  <2>2. PICK f, place : f = SignedAt(c, u * 2 + 2) /\ place = first + 1
    OBVIOUS
  <2>3. d = WithFragment(e, place, f)
    BY <1>7, <2>2 DEF WithFragment
  <2>4. InputOf(d, p, n, address) /\ OnlyThere(d, e, place, f)
    <3>1. place \in DOMAIN e
      BY <2>1, <2>2
    <3>2. InputOf(e, p, n, address)
      BY <1>6
    <3>3. InputOf(WithFragment(e, place, f), p, n, address) /\ OnlyThere(WithFragment(e, place, f), e, place, f)
      BY <3>1, <3>2, SignedOnce
    <3> QED BY <2>3, <3>3
  <2> QED BY <1>6, <2>2, <2>4 DEF OnlyThere
<1>9. PICK w : w = [who EXCEPT ![u + 1] = c]
  OBVIOUS
<1>10. who \in [1..n -> Cosigners \cup {Nobody}]
  BY DEF BundleRight
<1>11. u + 1 \in 1..n
  OBVIOUS
<1>12. w \in [1..n -> Cosigners \cup {Nobody}] /\ w[u + 1] = c /\ \A x \in 1..n : x # u + 1 => w[x] = who[x]
  BY <1>9, <1>10, <1>11
<1>13. c # Nobody
  BY MultisigAssumption DEF Nobody
<1>14. ASSUME NEW j \in 1..(2 * n) PROVE d[p + j - 1].fragment = Carried(Cosigner(w, j), j)
  <2>1. PICK x \in 1..n, half \in 1..2 : x = ((j - 1) \div 2) + 1 /\ j = (x - 1) * 2 + half
    <3>1. ((j - 1) \div 2) + 1 \in 1..n /\ HalfOf(j) \in 1..2 /\ j = ((j - 1) \div 2) * 2 + HalfOf(j)
      BY PlaceOfJ
    <3>2. (((j - 1) \div 2) + 1) - 1 = (j - 1) \div 2
      OBVIOUS
    <3> QED BY <3>1, <3>2
  <2>2. Cosigner(w, j) = w[x] /\ Cosigner(who, j) = who[x]
    BY <2>1 DEF Cosigner
  <2>3. p + j - 1 \in 1..m
    BY <1>1, <1>3
  <2>4. CASE x = u + 1
    <3>1. Carried(Cosigner(w, j), j) = SignedAt(c, j)
      BY <1>12, <1>13, <2>2, <2>4 DEF Carried
    <3>2. CASE half = 1
      <4>1. j = u * 2 + 1 /\ p + j - 1 = first
        BY <2>1, <2>4, <3>2
      <4>2. d[first].fragment = SignedAt(c, j)
        BY <1>4, <1>6, <1>8, <4>1
      <4> QED BY <3>1, <4>1, <4>2
    <3>3. CASE half = 2
      <4>1. j = u * 2 + 2 /\ p + j - 1 = first + 1
        BY <2>1, <2>4, <3>3
      <4> QED BY <1>8, <3>1, <4>1
    <3> QED BY <3>2, <3>3
  <2>5. CASE x # u + 1
    <3>1. p + j - 1 # first /\ p + j - 1 # first + 1
      BY <2>1, <2>5
    <3>2. d[p + j - 1] = b[p + j - 1]
      BY <1>6, <1>8, <2>3, <3>1
    <3>3. Cosigner(w, j) = Cosigner(who, j)
      BY <1>12, <2>2, <2>5
    <3> QED BY <3>2, <3>3 DEF CarriesAll
  <2> QED BY <2>4, <2>5
<1>15. CarriesAll(d, p, w, n)
  BY <1>14 DEF CarriesAll
<1> QED BY <1>8, <1>9, <1>12, <1>15 DEF BundleRight

LEMMA MultisigNextInv == MultisigInv /\ [MultisigNext]_multisigVars => MultisigInv'
<1> SUFFICES ASSUME MultisigInv, [MultisigNext]_multisigVars PROVE MultisigInv'
  OBVIOUS
<1> USE DEF MultisigInv
<1>1. ASSUME NEW c \in Cosigners, AddAddressDigest(c) PROVE MultisigInv'
  <2>1. bundle = <<>> /\ bundle' = <<>> /\ multisig' = NotFinal
    BY <1>1 DEF AddAddressDigest
  <2>2. order' = Append(order, c) /\ curlState' = Absorb(curlState, GetDigest(c))
    BY <1>1 DEF AddAddressDigest
  <2>3. order' \in Seq(Cosigners)
    BY <2>2, AppendProperties
  <2>4. PICK o : o = order'
    OBVIOUS
  <2>5. curlState' = Halves(o)
    BY <2>2, <2>4, AbsorbedNext
  <2>6. curlState' = Halves(order')
    BY <2>4, <2>5
  <2> QED BY <2>1, <2>3, <2>6
<1>2. ASSUME FinalizeAddress PROVE MultisigInv'
  <2>1. /\ order # <<>> /\ order' = order /\ curlState' = curlState
        /\ bundle = <<>> /\ bundle' = bundle /\ multisig' = Squeezed(curlState)
    BY <1>2 DEF FinalizeAddress
  <2>2. Halves(order)' = Halves(order)
    BY <2>1
  <2>3. Squeezed(Halves(order))' = Squeezed(Halves(order))
    BY <2>1
  <2> QED BY <2>1, <2>2, <2>3
<1>3. ASSUME NEW t \in Transfers, InitiateTransfer(t) PROVE MultisigInv'
  <2>1. /\ order' = order /\ curlState' = curlState /\ multisig' = multisig
        /\ multisig # NotFinal /\ bundle = <<>>
    BY <1>3 DEF InitiateTransfer
  <2>2. CASE bundle' = <<>>
    BY <2>1, <2>2
  <2>3. CASE bundle' # <<>>
    <3>1. /\ ~(t.value = 0 \/ t.balance <= 0)
          /\ bundle' = Initiated(t, Len(order)) /\ signedBy' = [n \in DOMAIN order |-> Nobody]
      BY <1>3, <2>1, <2>3 DEF InitiateTransfer
    <3>2. PICK n \in Nat \ {0} : n = Len(order)
      <4>1. Len(order) \in Nat \ {0}
        BY <2>1, EmptySeq
      <4> QED BY <4>1
    <3>3. t.balance > 0
      <4>1. t.balance \in Int
        BY MultisigAssumption
      <4> QED BY <3>1, <4>1
    <3>4. PICK p \in Nat : /\ InputOf(Initiated(t, n), p, n, multisig)
                           /\ \A j \in 1..(2 * n) : Initiated(t, n)[p + j - 1].fragment = Empty
      BY <3>3, InitiatedIs
    <3>5. PICK b : b = Initiated(t, n)
      OBVIOUS
    <3>6. PICK who : who = [u \in 1..n |-> Nobody]
      OBVIOUS
    <3>7. signedBy' = who /\ bundle' = b
      BY <3>1, <3>2, <3>5, <3>6
    <3>8. who \in [1..n -> Cosigners \cup {Nobody}]
      BY <3>6
    <3>9. CarriesAll(b, p, who, n)
      <4> SUFFICES ASSUME NEW j \in 1..(2 * n)
                   PROVE  b[p + j - 1].fragment = Carried(Cosigner(who, j), j)
        BY DEF CarriesAll
      <4>1. ((j - 1) \div 2) + 1 \in 1..n
        BY PlaceOfJ
      <4>2. Cosigner(who, j) = Nobody
        BY <3>6, <4>1 DEF Cosigner
      <4> QED BY <3>4, <3>5, <4>2 DEF Carried
    <3>10. PICK address : address = multisig
      OBVIOUS
    <3>11. BundleRight(b, who, n, address)
      BY <3>4, <3>5, <3>8, <3>9, <3>10 DEF BundleRight
    <3>12. BundleRight(bundle', signedBy', Len(order'), multisig')
      BY <2>1, <3>2, <3>7, <3>10, <3>11
    <3> QED BY <2>1, <3>12
  <2> QED BY <2>2, <2>3
<1>4. ASSUME NEW c \in Cosigners, NEW u \in 0..(Len(order) - 1), AddSignature(c, u) PROVE MultisigInv'
  <2>1. /\ bundle # <<>> /\ order' = order /\ curlState' = curlState /\ multisig' = multisig
        /\ signedBy' = [signedBy EXCEPT ![u + 1] = c]
    BY <1>4 DEF AddSignature
  <2>2. PICK n \in Nat \ {0} : n = Len(order)
    <3>1. order # <<>>
      BY <2>1
    <3>2. Len(order) \in Nat \ {0}
      BY <3>1, EmptySeq
    <3> QED BY <3>2
  <2>3. PICK b, who, address : b = bundle /\ who = signedBy /\ address = multisig
    OBVIOUS
  <2>4. BundleRight(b, who, n, address)
    BY <2>1, <2>2, <2>3
  <2>5. PICK p \in Nat : InputOf(b, p, n, address) /\ CarriesAll(b, p, who, n)
    BY <2>4 DEF BundleRight
  <2>6. InputPlace(bundle) = p
    BY <2>3, <2>5, InputPlaceIs
  <2>7. PICK first : first = p + u * 2
    OBVIOUS
  <2>8. /\ Chains(SignatureFragment(HashFragment(u * 2 + 1 - 1), Fragment(GetKey(c), 1))) = SignedAt(c, u * 2 + 1)
        /\ Chains(SignatureFragment(HashFragment(u * 2 + 2 - 1), Fragment(GetKey(c), 2))) = SignedAt(c, u * 2 + 2)
    <3>1. HalfOf(u * 2 + 1) = 1 /\ HalfOf(u * 2 + 2) = 2
      BY <2>2 DEF HalfOf
    <3> QED BY <3>1 DEF SignedAt
  <2>9. bundle' = [bundle EXCEPT
            ![first].fragment = Chains(SignatureFragment(HashFragment(u * 2 + 1 - 1), Fragment(GetKey(c), 1))),
            ![first + 1].fragment = Chains(SignatureFragment(HashFragment(u * 2 + 2 - 1), Fragment(GetKey(c), 2)))]
    BY <1>4, <2>6, <2>7 DEF AddSignature, HalfSignature
  <2>10. PICK d : d = [[b EXCEPT ![first].fragment = SignedAt(c, u * 2 + 1)]
                          EXCEPT ![first + 1].fragment = SignedAt(c, u * 2 + 2)]
    OBVIOUS
  <2>11. bundle' = d
    BY <2>3, <2>8, <2>9, <2>10
  <2>12. u \in 0..(n - 1)
    BY <2>2
  <2>13. BundleRight(d, [who EXCEPT ![u + 1] = c], n, address)
    BY <2>4, <2>5, <2>7, <2>10, <2>12, SigningKeeps
  <2>14. BundleRight(bundle', signedBy', Len(order'), multisig')
    BY <2>1, <2>2, <2>3, <2>11, <2>13
  <2> QED BY <2>1, <2>14
<1>6. ASSUME NEW c \in Cosigners, NEW u \in Len(order)..MaxCosigners, AddSignatureBeyond(c, u)
      PROVE  MultisigInv'
  <2>1. /\ bundle # <<>> /\ order' = order /\ curlState' = curlState /\ multisig' = multisig
        /\ signedBy' = signedBy
    BY <1>6 DEF AddSignatureBeyond
  <2>2. PICK n \in Nat \ {0} : n = Len(order)
    <3>1. Len(order) \in Nat \ {0}
      BY <2>1, EmptySeq
    <3> QED BY <3>1
  <2>3. PICK b, who, address : b = bundle /\ who = signedBy /\ address = multisig
    OBVIOUS
  <2>4. BundleRight(b, who, n, address)
    BY <2>1, <2>2, <2>3
  <2>5. PICK p \in Nat : InputOf(b, p, n, address) /\ CarriesAll(b, p, who, n)
    BY <2>4 DEF BundleRight
  <2>6. InputPlace(bundle) = p
    BY <2>3, <2>5, InputPlaceIs
  <2>7. PICK place, f : place = p + u * 2 /\ f = HalfSignature(c, u, 1)
    OBVIOUS
  <2>8. bundle' = IF place \notin DOMAIN b THEN b ELSE WithFragment(b, place, f)
    BY <1>6, <2>3, <2>6, <2>7 DEF AddSignatureBeyond, WithFragment
  <2>9. BundleRight(bundle', who, n, address)
    <3>1. CASE place \notin DOMAIN b
      BY <2>4, <2>8, <3>1
    <3>2. CASE place \in DOMAIN b
      <4>1. PICK d : d = WithFragment(b, place, f)
        OBVIOUS
      <4>2. InputOf(d, p, n, address) /\ OnlyThere(d, b, place, f)
        BY <2>5, <3>2, <4>1, SignedOnce
      <4>3. PICK m \in Nat : m >= p + 2 * n - 1 /\ b = [k \in 1..m |-> b[k]]
        BY <2>5 DEF InputOf
      <4>4. p >= 1 /\ DOMAIN b = 1..m
        BY <2>5, <4>3 DEF InputOf
      <4>5. u \in Int /\ u >= n
        BY <2>2
      <4>6. ASSUME NEW j \in 1..(2 * n) PROVE d[p + j - 1].fragment = Carried(Cosigner(who, j), j)
        <5>1. p + j - 1 \in 1..m /\ p + j - 1 # place
          BY <2>7, <4>3, <4>4, <4>5
        <5>2. d[p + j - 1] = b[p + j - 1]
          BY <4>2, <4>4, <5>1 DEF OnlyThere
        <5> QED BY <2>5, <5>2 DEF CarriesAll
      <4> QED BY <2>4, <2>8, <3>2, <4>1, <4>2, <4>6 DEF BundleRight, CarriesAll
    <3> QED BY <3>1, <3>2
  <2>10. BundleRight(bundle', signedBy', Len(order'), multisig')
    BY <2>1, <2>2, <2>3, <2>9
  <2> QED BY <2>1, <2>10, <1>6 DEF AddSignatureBeyond
<1>5. CASE UNCHANGED multisigVars
  BY <1>5 DEF multisigVars
<1> QED BY <1>1, <1>2, <1>3, <1>4, <1>5, <1>6 DEF MultisigNext

(* Several cosigners can spend what is on their address just when each has   *)
(* signed at its own place (SpendableWhenAllSigned), for any number of them, *)
(* any seeds that differ, any hash and any order of signing.                 *)
THEOREM SpendableBySigners == MultisigSpec => []SpendableWhenAllSigned
<1>1. MultisigSpec => []MultisigInv
  BY MultisigInitInv, MultisigNextInv, PTL DEF MultisigSpec
<1> QED BY <1>1, MultisigInvSuffices, PTL

-----------------------------------------------------------------------------
(* The trinary codec.  Digits is a function that is chosen to satisfy its    *)
(* equation; there is one, since a number's digits are those of a smaller    *)
(* number after one more.                                                    *)
DigitsBody(f, k) ==
    IF k = 0 THEN <<>>
    ELSE IF k % 3 = 2 THEN <<-1>> \o f[k \div 3 + 1] ELSE <<k % 3>> \o f[k \div 3]
DigitsUpto(n, f) == f = [k \in 0..n |-> DigitsBody(f, k)]

LEMMA Lower ==
    ASSUME NEW k \in Nat \ {0}
    PROVE  \E d \in Trit, l \in 0..(k - 1) :
               /\ k = 3 * l + d
               /\ \A f : DigitsBody(f, k) = <<d>> \o f[l]
<1>1. PICK q \in Nat, r \in 0..2 : q = k \div 3 /\ r = k % 3 /\ k = 3 * q + r
  OBVIOUS
<1>2. CASE r = 2
  <2>1. q + 1 \in 0..(k - 1) /\ -1 \in Trit /\ k = 3 * (q + 1) + (-1)
    BY <1>1, <1>2 DEF Trit
  <2>2. \A f : DigitsBody(f, k) = <<-1>> \o f[q + 1]
    BY <1>1, <1>2 DEF DigitsBody
  <2> QED BY <2>1, <2>2
<1>3. CASE r # 2
  <2>1. q \in 0..(k - 1) /\ r \in Trit
    BY <1>1, <1>3 DEF Trit
  <2>2. \A f : DigitsBody(f, k) = <<r>> \o f[q]
    BY <1>1, <1>3 DEF DigitsBody
  <2> QED BY <1>1, <2>1, <2>2
<1> QED BY <1>2, <1>3

LEMMA SameDigits ==
    ASSUME NEW m \in Nat, NEW n \in Nat, NEW f, NEW g, DigitsUpto(m, f), DigitsUpto(n, g),
           NEW k \in Nat, k <= m, k <= n
    PROVE  f[k] = g[k]
<1> DEFINE Failing == {x \in Nat : x <= m /\ x <= n /\ f[x] # g[x]}
<1>1. SUFFICES ASSUME Failing # {} PROVE FALSE
  OBVIOUS
<1>2. PICK x \in Failing : \A y \in Failing : x <= y
  BY <1>1, LeastElement
<1>3. x \in Nat /\ x \in 0..m /\ x \in 0..n
  BY <1>2
<1>4. f[x] = DigitsBody(f, x) /\ g[x] = DigitsBody(g, x)
  BY <1>3 DEF DigitsUpto
<1>5. CASE x = 0
  BY <1>2, <1>4, <1>5 DEF DigitsBody
<1>6. CASE x # 0
  <2>1. x \in Nat \ {0}
    BY <1>3, <1>6
  <2>2. PICK d \in Trit, l \in 0..(x - 1) : \A h : DigitsBody(h, x) = <<d>> \o h[l]
    BY <2>1, Lower
  <2>3. l \in Nat /\ l <= m /\ l <= n /\ ~ (x <= l)
    BY <1>3
  <2>4. f[l] = g[l]
    BY <1>2, <2>3
  <2> QED BY <1>2, <1>4, <2>2, <2>4
<1> QED BY <1>5, <1>6

LEMMA DigitsUptoExist == \A n \in Nat : \E f : DigitsUpto(n, f)
<1> DEFINE T == {n \in Nat : \E f : DigitsUpto(n, f)}
<1>1. 0 \in T
  <2>1. PICK f : f = [k \in 0..0 |-> <<>>]
    OBVIOUS
  <2>2. \A k \in 0..0 : DigitsBody(f, k) = <<>>
    BY DEF DigitsBody
  <2>3. DigitsUpto(0, f)
    BY <2>1, <2>2 DEF DigitsUpto
  <2> QED BY <2>3
<1>2. ASSUME NEW n \in Nat, n \in T PROVE n + 1 \in T
  <2>1. PICK f : DigitsUpto(n, f)
    BY <1>2
  <2>2. PICK g : g = [k \in 0..(n + 1) |-> DigitsBody(f, k)]
    OBVIOUS
  <2>3. \A k \in 0..n : f[k] = DigitsBody(f, k)
    BY <2>1 DEF DigitsUpto
  <2>4. \A k \in 0..n : g[k] = f[k]
    BY <2>2, <2>3
  <2>5. ASSUME NEW k \in 0..(n + 1) PROVE DigitsBody(f, k) = DigitsBody(g, k)
    <3>1. CASE k = 0
      BY <3>1 DEF DigitsBody
    <3>2. CASE k # 0
      <4>1. k \in Nat \ {0}
        BY <3>2
      <4>2. PICK d \in Trit, l \in 0..(k - 1) : \A h : DigitsBody(h, k) = <<d>> \o h[l]
        BY <4>1, Lower
      <4>3. l \in 0..n
        OBVIOUS
      <4> QED BY <2>4, <4>2, <4>3
    <3> QED BY <3>1, <3>2
  <2>6. DigitsUpto(n + 1, g)
    BY <2>2, <2>5 DEF DigitsUpto
  <2> QED BY <2>6
<1> HIDE DEF T
<1>3. Nat \subseteq T
  BY <1>1, <1>2, NatSetInduction
<1> QED BY <1>3 DEF T

LEMMA DigitsAre == \A k \in Nat : Digits[k] = DigitsBody(Digits, k)
<1> DEFINE F(n) == CHOOSE f : DigitsUpto(n, f)
<1>1. \A n \in Nat : DigitsUpto(n, F(n))
  BY DigitsUptoExist
<1>2. PICK h : h = [n \in Nat |-> F(n)[n]]
  OBVIOUS
<1> HIDE DEF F
<1>3. ASSUME NEW k \in Nat PROVE h[k] = DigitsBody(h, k)
  <2>1. DigitsUpto(k, F(k)) /\ h[k] = F(k)[k]
    BY <1>1, <1>2
  <2>2. F(k)[k] = DigitsBody(F(k), k)
    BY <2>1 DEF DigitsUpto
  <2>3. CASE k = 0
    BY <2>1, <2>2, <2>3 DEF DigitsBody
  <2>4. CASE k # 0
    <3>1. PICK d \in Trit, l \in 0..(k - 1) : \A f : DigitsBody(f, k) = <<d>> \o f[l]
      BY <2>4, Lower
    <3>2. l \in Nat /\ l <= k
      OBVIOUS
    <3>3. F(k)[l] = F(l)[l]
      BY <1>1, <3>2, SameDigits
    <3>4. h[l] = F(l)[l]
      BY <1>2, <3>2
    <3> QED BY <2>1, <2>2, <3>1, <3>3, <3>4
  <2> QED BY <2>3, <2>4
<1> DEFINE Solution(d) ==
             d = [n \in Nat |-> IF n = 0 THEN <<>>
                                ELSE IF n % 3 = 2 THEN <<-1>> \o d[n \div 3 + 1]
                                                  ELSE <<n % 3>> \o d[n \div 3]]
<1>4. Solution(h)
  <2>1. h = [n \in Nat |-> DigitsBody(h, n)]
    BY <1>2, <1>3
  <2> QED BY <2>1 DEF DigitsBody
<1>5. Digits = CHOOSE d : Solution(d)
  BY DEF Digits
<1>6. Solution(Digits)
  BY <1>4, <1>5
<1> QED BY <1>6 DEF DigitsBody

(* value() from the last trit on.                                            *)
Horner(s, m, f) ==
    f = [k \in 0..m |-> IF k = 0 THEN 0 ELSE f[k - 1] * 3 + s[Len(s) - k + 1]]

LEMMA HornerExists ==
    ASSUME NEW s \in Seq(Int) PROVE \A m \in Nat : m <= Len(s) => \E f \in [0..m -> Int] : Horner(s, m, f)
<1> DEFINE T == {m \in Nat : m <= Len(s) => \E f \in [0..m -> Int] : Horner(s, m, f)}
<1>1. 0 \in T
  <2>1. PICK f : f = [k \in 0..0 |-> 0]
    OBVIOUS
  <2>2. f \in [0..0 -> Int] /\ Horner(s, 0, f)
    BY <2>1 DEF Horner
  <2> QED BY <2>2
<1>2. ASSUME NEW m \in Nat, m \in T PROVE m + 1 \in T
  <2>1. SUFFICES ASSUME m + 1 <= Len(s) PROVE \E f \in [0..(m + 1) -> Int] : Horner(s, m + 1, f)
    OBVIOUS
  <2>2. PICK f \in [0..m -> Int] : Horner(s, m, f)
    BY <1>2, <2>1
  <2>3. PICK d \in Int : d = s[Len(s) - (m + 1) + 1]
    <3>1. Len(s) - (m + 1) + 1 \in 1..Len(s)
      BY <2>1
    <3> QED BY <3>1
  <2>4. PICK g : g = [k \in 0..(m + 1) |-> IF k = m + 1 THEN f[m] * 3 + d ELSE f[k]]
    OBVIOUS
  <2>5. g \in [0..(m + 1) -> Int]
    BY <2>4
  <2>6. \A k \in 0..m : g[k] = f[k]
    BY <2>4
  <2>7. ASSUME NEW k \in 0..(m + 1)
        PROVE  g[k] = IF k = 0 THEN 0 ELSE g[k - 1] * 3 + s[Len(s) - k + 1]
    <3>1. CASE k = m + 1
      <4>1. g[k] = f[m] * 3 + d /\ k # 0 /\ k - 1 = m /\ g[m] = f[m]
        BY <2>4, <2>6, <3>1
      <4> QED BY <2>3, <3>1, <4>1
    <3>2. CASE k # m + 1
      <4>1. k \in 0..m
        BY <3>2
      <4>2. g[k] = f[k] /\ (k # 0 => g[k - 1] = f[k - 1])
        BY <2>6, <4>1
      <4>3. f[k] = IF k = 0 THEN 0 ELSE f[k - 1] * 3 + s[Len(s) - k + 1]
        BY <2>2, <4>1 DEF Horner
      <4> QED BY <4>2, <4>3
    <3> QED BY <3>1, <3>2
  <2>8. g = [k \in 0..(m + 1) |-> g[k]]
    BY <2>4
  <2>9. Horner(s, m + 1, g)
    BY <2>7, <2>8 DEF Horner
  <2> QED BY <2>5, <2>9
<1> HIDE DEF T
<1>3. Nat \subseteq T
  BY <1>1, <1>2, NatSetInduction
<1> QED BY <1>3 DEF T

LEMMA ValueIsHorner ==
    ASSUME NEW s \in Seq(Int)
    PROVE  \E f \in [0..Len(s) -> Int] : Horner(s, Len(s), f) /\ Value(s) = f[Len(s)]
<1>1. \E f \in [0..Len(s) -> Int] : Horner(s, Len(s), f)
  BY HornerExists
<1>2. PICK f : f = CHOOSE h : Horner(s, Len(s), h)
  OBVIOUS
<1>3. Horner(s, Len(s), f)
  BY <1>1, <1>2
<1>4. Value(s) = f[Len(s)]
  BY <1>2 DEF Value, Horner
<1>5. PICK g \in [0..Len(s) -> Int] : Horner(s, Len(s), g)
  BY <1>1
<1>6. ASSUME NEW k \in 0..Len(s) PROVE f[k] = g[k]
  <2>1. k \in Nat /\ f[0] = g[0]
    BY <1>3, <1>5 DEF Horner
  <2>2. ASSUME NEW j \in 0..(k - 1), f[j] = g[j] PROVE f[j + 1] = g[j + 1]
    <3>1. j + 1 \in 0..Len(s) /\ j + 1 # 0 /\ (j + 1) - 1 = j
      OBVIOUS
    <3>2. f[j + 1] = f[j] * 3 + s[Len(s) - (j + 1) + 1]
      BY <1>3, <3>1 DEF Horner
    <3>3. g[j + 1] = g[j] * 3 + s[Len(s) - (j + 1) + 1]
      BY <1>5, <3>1 DEF Horner
    <3> QED BY <2>2, <3>2, <3>3
  <2> QED BY <2>1, <2>2, StepsAgree
<1>7. f = g
  <2>1. f = [k \in 0..Len(s) |-> f[k]]
    BY <1>3 DEF Horner
  <2> QED BY <1>6, <2>1
<1> QED BY <1>3, <1>4, <1>7

LEMMA HornerTells ==
    ASSUME NEW s \in Seq(Int), NEW f, Horner(s, Len(s), f), NEW k \in 0..(Len(s) - 1)
    PROVE  f[k + 1] = f[k] * 3 + s[Len(s) - k]
<1>1. k + 1 \in 0..Len(s) /\ k + 1 # 0 /\ (k + 1) - 1 = k /\ Len(s) - (k + 1) + 1 = Len(s) - k
  OBVIOUS
<1>2. f[k + 1] = f[k] * 3 + s[Len(s) - (k + 1) + 1]
  BY <1>1 DEF Horner
<1> QED BY <1>1, <1>2

LEMMA HornerStarts ==
    ASSUME NEW s \in Seq(Int), NEW f, Horner(s, Len(s), f) PROVE f[0] = 0
<1>1. 0 \in 0..Len(s)
  OBVIOUS
<1> QED BY <1>1 DEF Horner

LEMMA ValueType == ASSUME NEW s \in Seq(Int) PROVE Value(s) \in Int
<1>1. PICK f \in [0..Len(s) -> Int] : Value(s) = f[Len(s)]
  BY ValueIsHorner
<1>2. Len(s) \in 0..Len(s)
  OBVIOUS
<1> QED BY <1>1, <1>2

LEMMA ValueOfNone == Value(<<>>) = 0
<1>1. <<>> \in Seq(Int)
  OBVIOUS
<1>2. PICK s \in Seq(Int) : s = <<>>
  BY <1>1
<1>3. PICK f \in [0..Len(s) -> Int] : Horner(s, Len(s), f) /\ Value(s) = f[Len(s)]
  BY ValueIsHorner
<1>4. Len(s) = 0
  BY <1>2
<1> QED BY <1>2, <1>3, <1>4, HornerStarts

(* One more trit in front of a list triples what the others say.             *)
LEMMA ValueOfFirst ==
    ASSUME NEW s \in Seq(Int), NEW d \in Int
    PROVE  /\ <<d>> \o s \in Seq(Int)
           /\ Len(<<d>> \o s) = Len(s) + 1
           /\ Value(<<d>> \o s) = Value(s) * 3 + d
<1>1. PICK t : t = <<d>> \o s
  OBVIOUS
<1>2. t \in Seq(Int) /\ Len(t) = Len(s) + 1 /\ t[1] = d
  BY <1>1
<1>3. \A k \in 1..Len(s) : t[k + 1] = s[k]
  BY <1>1
<1>4. PICK f \in [0..Len(s) -> Int] : Horner(s, Len(s), f) /\ Value(s) = f[Len(s)]
  BY ValueIsHorner
<1>5. PICK g \in [0..Len(t) -> Int] : Horner(t, Len(t), g) /\ Value(t) = g[Len(t)]
  BY <1>2, ValueIsHorner
<1>6. g[0] = f[0]
  BY <1>2, <1>4, <1>5, HornerStarts
<1>7. ASSUME NEW k \in 0..(Len(s) - 1), g[k] = f[k] PROVE g[k + 1] = f[k + 1]
  <2>1. k \in 0..(Len(t) - 1) /\ Len(s) - k \in 1..Len(s) /\ Len(t) - k = (Len(s) - k) + 1
    BY <1>2
  <2>2. g[k + 1] = g[k] * 3 + t[Len(t) - k]
    BY <1>2, <1>5, <2>1, HornerTells
  <2>3. f[k + 1] = f[k] * 3 + s[Len(s) - k]
    BY <1>4, HornerTells
  <2>4. t[Len(t) - k] = s[Len(s) - k]
    BY <1>3, <2>1
  <2> QED BY <1>7, <2>2, <2>3, <2>4
<1>8. g[Len(s)] = f[Len(s)]
  <2>1. Len(s) \in Nat
    OBVIOUS
  <2> QED BY <1>6, <1>7, <2>1, StepsAgree
<1>9. Len(s) \in 0..(Len(t) - 1) /\ Len(t) - Len(s) = 1
  BY <1>2
<1>10. g[Len(s) + 1] = g[Len(s)] * 3 + t[Len(t) - Len(s)]
  BY <1>2, <1>5, <1>9, HornerTells
<1> QED BY <1>1, <1>2, <1>4, <1>5, <1>8, <1>9, <1>10

LEMMA ValueOfNegated ==
    ASSUME NEW s \in Seq(Int), NEW t, t = [k \in DOMAIN s |-> -s[k]]
    PROVE  t \in Seq(Int) /\ Len(t) = Len(s) /\ Value(t) = -Value(s)
<1>1. t \in Seq(Int) /\ Len(t) = Len(s) /\ \A k \in 1..Len(s) : t[k] = -s[k]
  OBVIOUS
<1>2. PICK f \in [0..Len(s) -> Int] : Horner(s, Len(s), f) /\ Value(s) = f[Len(s)]
  BY ValueIsHorner
<1>3. PICK g \in [0..Len(t) -> Int] : Horner(t, Len(t), g) /\ Value(t) = g[Len(t)]
  BY <1>1, ValueIsHorner
<1>4. PICK h : h = [k \in 0..Len(s) |-> -f[k]]
  OBVIOUS
<1>5. g[0] = h[0]
  BY <1>1, <1>2, <1>3, <1>4, HornerStarts
<1>6. ASSUME NEW k \in 0..(Len(s) - 1), g[k] = h[k] PROVE g[k + 1] = h[k + 1]
  <2>1. k \in 0..(Len(t) - 1) /\ Len(s) - k \in 1..Len(s) /\ Len(t) = Len(s) /\ k \in 0..Len(s)
        /\ k + 1 \in 0..Len(s)
    BY <1>1
  <2>2. g[k + 1] = g[k] * 3 + t[Len(t) - k]
    BY <1>1, <1>3, <2>1, HornerTells
  <2>3. f[k + 1] = f[k] * 3 + s[Len(s) - k]
    BY <1>2, HornerTells
  <2>4. t[Len(t) - k] = -s[Len(s) - k]
    BY <1>1, <2>1
  <2>5. f[k] \in Int
    BY <2>1
  <2>6. \A j \in 1..Len(s) : s[j] \in Int
    OBVIOUS
  <2>7. f[k] \in Int /\ s[Len(s) - k] \in Int
    BY <2>1, <2>5, <2>6
  <2>8. PICK a \in Int, b \in Int : a = f[k] /\ b = s[Len(s) - k]
    BY <2>7
  <2>9. h[k] = -a /\ h[k + 1] = -(a * 3 + b)
    BY <1>4, <2>1, <2>3, <2>8
  <2>10. g[k + 1] = (-a) * 3 + (-b)
    BY <1>6, <2>2, <2>4, <2>8, <2>9
  <2> QED BY <2>9, <2>10
<1>7. g[Len(s)] = h[Len(s)]
  <2>1. Len(s) \in Nat
    OBVIOUS
  <2> QED BY <1>5, <1>6, <2>1, StepsAgree
<1>8. h[Len(s)] = -f[Len(s)]
  BY <1>4
<1> QED BY <1>1, <1>2, <1>3, <1>7, <1>8

(* Zeros past the end of a list, which pad a field, add nothing.             *)
LEMMA ValueOfPadded ==
    ASSUME NEW s \in Seq(Int), NEW n \in Nat, NEW t, t = s \o Zeros(n)
    PROVE  t \in Seq(Int) /\ Len(t) = Len(s) + n /\ Value(t) = Value(s)
<1>1. PICK z \in Seq(Int) : z = Zeros(n) /\ Len(z) = n /\ \A k \in 1..n : z[k] = 0
  <2>1. Zeros(n) \in Seq(Int) /\ Len(Zeros(n)) = n
    BY DEF Zeros
  <2>2. \A k \in 1..n : Zeros(n)[k] = 0
    BY DEF Zeros
  <2> QED BY <2>1, <2>2
<1>2. t \in Seq(Int) /\ Len(t) = Len(s) + n
  BY <1>1
<1>3. \A k \in 1..Len(s) : t[k] = s[k]
  BY <1>1
<1>4. \A k \in 1..n : t[Len(s) + k] = 0
  <2>1. ASSUME NEW k \in 1..n PROVE t[Len(s) + k] = z[k]
    BY <1>1
  <2> QED BY <1>1, <2>1
<1>5. PICK f \in [0..Len(s) -> Int] : Horner(s, Len(s), f) /\ Value(s) = f[Len(s)]
  BY ValueIsHorner
<1>6. PICK g \in [0..Len(t) -> Int] : Horner(t, Len(t), g) /\ Value(t) = g[Len(t)]
  BY <1>2, ValueIsHorner
<1>7. g[n] = 0
  <2>1. PICK o : o = [k \in 0..n |-> 0]
    OBVIOUS
  <2>2. 0 \in 0..n
    OBVIOUS
  <2>3. g[0] = o[0]
    BY <1>2, <1>6, <2>1, <2>2, HornerStarts
  <2>4. ASSUME NEW k \in 0..(n - 1), g[k] = o[k] PROVE g[k + 1] = o[k + 1]
    <3>1. k \in 0..(Len(t) - 1) /\ n - k \in 1..n /\ Len(t) - k = Len(s) + (n - k)
          /\ k \in 0..n /\ k + 1 \in 0..n
      BY <1>2
    <3>2. g[k + 1] = g[k] * 3 + t[Len(t) - k]
      BY <1>2, <1>6, <3>1, HornerTells
    <3>3. t[Len(t) - k] = 0
      BY <1>4, <3>1
    <3> QED BY <2>1, <2>4, <3>1, <3>2, <3>3
  <2>5. g[n] = o[n]
    BY <2>3, <2>4, StepsAgree
  <2> QED BY <2>1, <2>5
<1>8. PICK h : h = [k \in 0..Len(s) |-> g[n + k]]
  OBVIOUS
<1>9. h[0] = f[0]
  BY <1>5, <1>7, <1>8, HornerStarts
<1>10. ASSUME NEW k \in 0..(Len(s) - 1), h[k] = f[k] PROVE h[k + 1] = f[k + 1]
  <2>1. n + k \in 0..(Len(t) - 1) /\ Len(s) - k \in 1..Len(s) /\ Len(t) - (n + k) = Len(s) - k
        /\ k \in 0..Len(s) /\ k + 1 \in 0..Len(s) /\ n + (k + 1) = (n + k) + 1
    BY <1>2
  <2>2. g[(n + k) + 1] = g[n + k] * 3 + t[Len(t) - (n + k)]
    BY <1>2, <1>6, <2>1, HornerTells
  <2>3. f[k + 1] = f[k] * 3 + s[Len(s) - k]
    BY <1>5, HornerTells
  <2>4. h[k] = g[n + k] /\ h[k + 1] = g[(n + k) + 1]
    BY <1>8, <2>1
  <2>5. t[Len(t) - (n + k)] = s[Len(s) - k]
    BY <1>3, <2>1
  <2> QED BY <1>10, <2>2, <2>3, <2>4, <2>5
<1>11. h[Len(s)] = f[Len(s)]
  <2>1. Len(s) \in Nat
    OBVIOUS
  <2> QED BY <1>9, <1>10, <2>1, StepsAgree
<1>12. h[Len(s)] = g[Len(t)]
  <2>1. Len(s) \in 0..Len(s) /\ n + Len(s) = Len(t)
    BY <1>2
  <2> QED BY <1>8, <2>1
<1> QED BY <1>2, <1>5, <1>6, <1>11, <1>12

(* What Digits says of a number: its trits, up to one that is not 0.         *)
DigitsGood(n) ==
    /\ Digits[n] \in Seq(Trit)
    /\ Value(Digits[n]) = n
    /\ Len(Digits[n]) = 0 <=> n = 0
    /\ n # 0 => Digits[n][Len(Digits[n])] # 0

LEMMA DigitsOfZero == Digits[0] = <<>>
  BY DigitsAre DEF DigitsBody

LEMMA TritsAreInts == ASSUME NEW s \in Seq(Trit) PROVE s \in Seq(Int)
<1>1. Trit \subseteq Int
  BY DEF Trit
<1>2. \A k \in 1..Len(s) : s[k] \in Trit
  OBVIOUS
<1>3. \A k \in 1..Len(s) : s[k] \in Int
  BY <1>1, <1>2
<1>4. Len(s) \in Nat /\ s = [k \in 1..Len(s) |-> s[k]]
  OBVIOUS
<1>5. [k \in 1..Len(s) |-> s[k]] \in Seq(Int)
  BY <1>3, <1>4
<1> QED BY <1>4, <1>5

LEMMA DigitsStep ==
    ASSUME NEW n \in Nat \ {0}
    PROVE  \E d \in Trit, l \in 0..(n - 1) : n = 3 * l + d /\ Digits[n] = <<d>> \o Digits[l]
<1>1. PICK d \in Trit, l \in 0..(n - 1) : n = 3 * l + d /\ \A f : DigitsBody(f, n) = <<d>> \o f[l]
  BY Lower
<1>2. Digits[n] = DigitsBody(Digits, n)
  BY DigitsAre
<1> QED BY <1>1, <1>2

LEMMA AllDigitsGood == \A n \in Nat : DigitsGood(n)
<1> DEFINE Failing == {n \in Nat : ~ DigitsGood(n)}
<1>1. SUFFICES ASSUME Failing # {} PROVE FALSE
  OBVIOUS
<1>2. PICK n \in Failing : \A m \in Failing : n <= m
  BY <1>1, LeastElement
<1>3. CASE n = 0
  <2>1. Digits[n] = <<>>
    BY <1>3, DigitsOfZero
  <2>2. Digits[n] \in Seq(Trit) /\ Len(Digits[n]) = 0
    BY <2>1
  <2> QED BY <1>2, <1>3, <2>1, <2>2, ValueOfNone DEF DigitsGood
<1>4. CASE n # 0
  <2>1. n \in Nat \ {0}
    BY <1>2, <1>4
  <2>2. PICK d \in Trit, l \in 0..(n - 1) : n = 3 * l + d /\ Digits[n] = <<d>> \o Digits[l]
    BY <2>1, DigitsStep
  <2>3. l \in Nat /\ ~ (n <= l)
    BY <2>1
  <2>4. DigitsGood(l)
    BY <1>2, <2>3
  <2>5. PICK s \in Seq(Trit) : s = Digits[l]
    BY <2>4 DEF DigitsGood
  <2>6. Value(s) = l /\ (Len(s) = 0 <=> l = 0) /\ (l # 0 => s[Len(s)] # 0)
    BY <2>4, <2>5 DEF DigitsGood
  <2>7. PICK t : t = <<d>> \o s
    OBVIOUS
  <2>8. t \in Seq(Trit) /\ Len(t) = Len(s) + 1 /\ t[1] = d
    BY <2>7
  <2>9. \A k \in 1..Len(s) : t[k + 1] = s[k]
    BY <2>7
  <2>10. Value(t) = n
    <3>1. s \in Seq(Int) /\ d \in Int
      BY TritsAreInts DEF Trit
    <3>2. Value(t) = Value(s) * 3 + d
      BY <2>7, <3>1, ValueOfFirst
    <3> QED BY <2>2, <2>3, <2>6, <3>1, <3>2
  <2>11. t[Len(t)] # 0
    <3>1. CASE l = 0
      <4>1. Len(t) = 1 /\ n = d
        BY <2>2, <2>6, <2>8, <3>1 DEF Trit
      <4> QED BY <1>4, <2>8, <4>1
    <3>2. CASE l # 0
      <4>1. Len(s) \in 1..Len(s)
        BY <2>6, <3>2
      <4> QED BY <2>6, <2>8, <2>9, <3>2, <4>1
    <3> QED BY <3>1, <3>2
  <2>12. Len(t) # 0
    BY <2>8
  <2>13. Digits[n] = t
    BY <2>2, <2>5, <2>7
  <2> QED BY <1>2, <1>4, <2>8, <2>10, <2>11, <2>12, <2>13 DEF DigitsGood
<1> QED BY <1>3, <1>4

(* The letters' numbers have three trits at most.                            *)
LEMMA ShortDigits == \A n \in 0..13 : Len(Digits[n]) <= 3
<1>1. ASSUME NEW n \in Nat \ {0}
      PROVE  \E l \in Nat : 3 * l <= n + 1 /\ Len(Digits[n]) = Len(Digits[l]) + 1 /\ Len(Digits[l]) \in Nat
  <2>1. PICK d \in Trit, l \in 0..(n - 1) : n = 3 * l + d /\ Digits[n] = <<d>> \o Digits[l]
    BY DigitsStep
  <2>2. l \in Nat
    OBVIOUS
  <2>3. Digits[l] \in Seq(Trit)
    BY <2>2, AllDigitsGood DEF DigitsGood
  <2>4. 3 * l <= n + 1
    BY <2>1, <2>2 DEF Trit
  <2>5. Len(Digits[n]) = Len(Digits[l]) + 1 /\ Len(Digits[l]) \in Nat
    BY <2>1, <2>3
  <2> QED BY <2>2, <2>4, <2>5
<1>2. Len(Digits[0]) = 0
  BY DigitsOfZero
<1>3. \A n \in 0..1 : Len(Digits[n]) <= 1
  <2>1. SUFFICES ASSUME NEW n \in 0..1, n # 0 PROVE Len(Digits[n]) <= 1
    BY <1>2
  <2>2. PICK l \in Nat : 3 * l <= n + 1 /\ Len(Digits[n]) = Len(Digits[l]) + 1
    BY <1>1, <2>1
  <2>3. l = 0
    BY <2>1, <2>2
  <2> QED BY <1>2, <2>2, <2>3
<1>4. \A n \in 0..4 : Len(Digits[n]) <= 2
  <2>1. SUFFICES ASSUME NEW n \in 0..4, n # 0 PROVE Len(Digits[n]) <= 2
    BY <1>2
  <2>2. PICK l \in Nat : 3 * l <= n + 1 /\ Len(Digits[n]) = Len(Digits[l]) + 1 /\ Len(Digits[l]) \in Nat
    BY <1>1, <2>1
  <2>3. l \in 0..1
    BY <2>1, <2>2
  <2>4. Len(Digits[l]) <= 1
    BY <1>3, <2>3
  <2> QED BY <2>2, <2>4
<1>5. ASSUME NEW n \in 0..13, n # 0 PROVE Len(Digits[n]) <= 3
  <2>1. n \in Nat \ {0}
    BY <1>5
  <2>2. PICK l \in Nat : 3 * l <= n + 1 /\ Len(Digits[n]) = Len(Digits[l]) + 1 /\ Len(Digits[l]) \in Nat
    BY <1>1, <2>1
  <2>3. l \in 0..4
    BY <2>2
  <2>4. Len(Digits[l]) <= 2
    BY <1>4, <2>3
  <2> QED BY <2>2, <2>4
<1>6. ASSUME NEW n \in 0..13 PROVE Len(Digits[n]) <= 3
  <2>1. CASE n = 0
    BY <1>2, <2>1
  <2> QED BY <1>5, <2>1
<1> QED BY <1>6

(* A number in trits: they are trits, up to one that is not 0, and they say  *)
(* the number again, padded to whatever width (crypto/converter's trits and  *)
(* value).                                                                   *)
LEMMA PadIs ==
    ASSUME NEW s \in Seq(Trit), NEW width \in Nat
    PROVE  /\ Pad(s, width) \in Seq(Trit)
           /\ Len(s) <= width => Len(Pad(s, width)) = width
           /\ Len(s) > width => Pad(s, width) = s
           /\ Value(Pad(s, width)) = Value(s)
<1>1. s \in Seq(Int)
  BY TritsAreInts
<1>2. 0 \in Trit
  BY DEF Trit
<1>3. CASE Len(s) <= width
  <2>1. PICK n \in Nat : n = width - Len(s)
    BY <1>3
  <2>2. Pad(s, width) = s \o Zeros(n)
    BY <2>1 DEF Pad
  <2>3. Zeros(n) \in Seq(Trit)
    BY <1>2 DEF Zeros
  <2>4. Pad(s, width) \in Seq(Trit)
    BY <2>2, <2>3
  <2>5. Len(Pad(s, width)) = Len(s) + n /\ Value(Pad(s, width)) = Value(s)
    BY <1>1, <2>2, ValueOfPadded
  <2> QED BY <1>3, <2>1, <2>4, <2>5
<1>4. CASE Len(s) > width
  <2>1. 1..(width - Len(s)) = {}
    BY <1>4
  <2>2. Zeros(width - Len(s)) = [k \in {} |-> 0]
    BY <2>1 DEF Zeros
  <2>3. <<>> = [k \in {} |-> 0]
    OBVIOUS
  <2>4. Zeros(width - Len(s)) = <<>>
    BY <2>2, <2>3
  <2>5. Pad(s, width) = s \o <<>>
    BY <2>4 DEF Pad
  <2>6. Pad(s, width) = s
    BY <2>5
  <2> QED BY <1>4, <2>6
<1> QED BY <1>3, <1>4

THEOREM NumbersComeBack ==
    \A n \in Int : /\ TritsOfInt(n) \in Seq(Trit)
                   /\ Value(TritsOfInt(n)) = n
                   /\ Len(TritsOfInt(n)) = 0 <=> n = 0
                   /\ n # 0 => TritsOfInt(n)[Len(TritsOfInt(n))] # 0
                   /\ \A width \in Nat : Value(Pad(TritsOfInt(n), width)) = n
<1> SUFFICES ASSUME NEW n \in Int
             PROVE  /\ TritsOfInt(n) \in Seq(Trit)
                    /\ Value(TritsOfInt(n)) = n
                    /\ Len(TritsOfInt(n)) = 0 <=> n = 0
                    /\ n # 0 => TritsOfInt(n)[Len(TritsOfInt(n))] # 0
                    /\ \A width \in Nat : Value(Pad(TritsOfInt(n), width)) = n
  OBVIOUS
<1>1. CASE n >= 0
  <2>1. TritsOfInt(n) = Digits[n] /\ n \in Nat
    BY <1>1 DEF TritsOfInt
  <2>2. DigitsGood(n)
    BY <2>1, AllDigitsGood
  <2>3. PICK s \in Seq(Trit) : s = Digits[n]
    BY <2>2 DEF DigitsGood
  <2>4. Value(s) = n /\ (Len(s) = 0 <=> n = 0) /\ (n # 0 => s[Len(s)] # 0)
    BY <2>2, <2>3 DEF DigitsGood
  <2>5. TritsOfInt(n) = s
    BY <2>1, <2>3
  <2>6. \A width \in Nat : Value(Pad(s, width)) = n
    BY <2>4, PadIs
  <2> QED BY <2>4, <2>5, <2>6
<1>2. CASE ~ (n >= 0)
  <2>1. PICK p \in Nat : p = -n /\ p # 0
    BY <1>2
  <2>2. TritsOfInt(n) = [k \in DOMAIN Digits[p] |-> -Digits[p][k]]
    BY <1>2, <2>1 DEF TritsOfInt
  <2>3. PICK s \in Seq(Trit) : s = Digits[p]
    BY AllDigitsGood DEF DigitsGood
  <2>4. Value(s) = p /\ Len(s) # 0 /\ s[Len(s)] # 0
    BY <2>1, <2>3, AllDigitsGood DEF DigitsGood
  <2>5. PICK t : t = [k \in DOMAIN s |-> -s[k]]
    OBVIOUS
  <2>6. Len(t) = Len(s) /\ Value(t) = -Value(s)
    BY <2>5, TritsAreInts, ValueOfNegated
  <2>7. t \in Seq(Trit)
    <3>1. \A k \in 1..Len(s) : s[k] \in Trit
      OBVIOUS
    <3>2. \A d \in Trit : -d \in Trit
      BY DEF Trit
    <3>3. DOMAIN s = 1..Len(s) /\ Len(s) \in Nat
      OBVIOUS
    <3> QED BY <2>5, <3>1, <3>2, <3>3
  <2>8. t[Len(t)] # 0
    <3>1. Len(s) \in 1..Len(s) /\ Len(s) \in DOMAIN s
      BY <2>4
    <3>2. s[Len(s)] \in Int
      BY <3>1, TritsAreInts
    <3> QED BY <2>4, <2>5, <2>6, <3>1, <3>2
  <2>9. TritsOfInt(n) = t
    BY <2>2, <2>3, <2>5
  <2>10. Value(t) = n
    BY <2>1, <2>4, <2>6
  <2>11. \A width \in Nat : Value(Pad(t, width)) = n
    BY <2>7, <2>10, PadIs
  <2>12. n # 0 /\ Len(t) # 0
    BY <2>1, <2>4, <2>6
  <2> QED BY <2>7, <2>8, <2>9, <2>10, <2>11, <2>12
<1> QED BY <1>1, <1>2

(* FlattenSeq joins one sequence at a time.                                  *)
Joined(seqs, m, f) == f = [k \in 1..m |-> IF k = 1 THEN seqs[k] ELSE f[k - 1] \o seqs[k]]

LEMMA JoinedExist == ASSUME NEW seqs PROVE \A m \in Nat : \E f : Joined(seqs, m, f)
<1> DEFINE T == {m \in Nat : \E f : Joined(seqs, m, f)}
<1>1. 0 \in T
  <2>1. PICK f : f = [k \in 1..0 |-> seqs[k]]
    OBVIOUS
  <2>2. \A k \in 1..0 : f[k] = IF k = 1 THEN seqs[k] ELSE f[k - 1] \o seqs[k]
    OBVIOUS
  <2>3. 1..0 = {}
    OBVIOUS
  <2>4. Joined(seqs, 0, f)
    BY <2>1, <2>3 DEF Joined
  <2> QED BY <2>4
<1>2. ASSUME NEW m \in Nat, m \in T PROVE m + 1 \in T
  <2>1. PICK f : Joined(seqs, m, f)
    BY <1>2
  <2>2. PICK d : d = IF m = 0 THEN seqs[m + 1] ELSE f[m] \o seqs[m + 1]
    OBVIOUS
  <2>3. PICK g : g = [k \in 1..(m + 1) |-> IF k = m + 1 THEN d ELSE f[k]]
    OBVIOUS
  <2>4. \A k \in 1..m : g[k] = f[k]
    BY <2>3
  <2>5. ASSUME NEW k \in 1..(m + 1)
        PROVE  g[k] = IF k = 1 THEN seqs[k] ELSE g[k - 1] \o seqs[k]
    <3>1. CASE k = m + 1
      <4>1. g[k] = d
        BY <2>3, <3>1
      <4>2. CASE m = 0
        BY <2>2, <3>1, <4>1, <4>2
      <4>3. CASE m # 0
        <5>1. g[m] = f[m] /\ k # 1 /\ k - 1 = m
          BY <2>4, <3>1, <4>3
        <5> QED BY <2>2, <3>1, <4>1, <4>3, <5>1
      <4> QED BY <4>2, <4>3
    <3>2. CASE k # m + 1
      <4>1. k \in 1..m /\ (k # 1 => k - 1 \in 1..m)
        BY <3>2
      <4>2. g[k] = f[k] /\ (k # 1 => g[k - 1] = f[k - 1])
        BY <2>4, <4>1
      <4>3. f[k] = IF k = 1 THEN seqs[k] ELSE f[k - 1] \o seqs[k]
        BY <2>1, <4>1 DEF Joined
      <4> QED BY <4>2, <4>3
    <3> QED BY <3>1, <3>2
  <2>6. g = [k \in 1..(m + 1) |-> g[k]]
    BY <2>3
  <2>7. Joined(seqs, m + 1, g)
    BY <2>5, <2>6 DEF Joined
  <2> QED BY <2>7
<1> HIDE DEF T
<1>3. Nat \subseteq T
  BY <1>1, <1>2, NatSetInduction
<1> QED BY <1>3 DEF T

LEMMA FlattenIsJoined ==
    ASSUME NEW S, NEW seqs \in Seq(S), Len(seqs) # 0
    PROVE  \E f : Joined(seqs, Len(seqs), f) /\ FlattenSeq(seqs) = f[Len(seqs)]
<1>1. PICK f : f = CHOOSE g : Joined(seqs, Len(seqs), g)
  OBVIOUS
<1>2. Len(seqs) \in Nat
  OBVIOUS
<1>3. \E g : Joined(seqs, Len(seqs), g)
  BY <1>2, JoinedExist
<1>4. Joined(seqs, Len(seqs), f)
  BY <1>1, <1>3
<1>5. FlattenSeq(seqs) = f[Len(seqs)]
  <2>1. \A g : Joined(seqs, Len(seqs), g) <=>
               g = [k \in 1..Len(seqs) |-> IF k = 1 THEN seqs[k] ELSE g[k - 1] \o seqs[k]]
    BY DEF Joined
  <2> QED BY <1>1 DEF FlattenSeq, Joined
<1> QED BY <1>4, <1>5

(* In sequences of one width that are joined, everything has its place.      *)
BlocksIn(S, seqs, w, n, s) ==
    /\ s \in Seq(S)
    /\ Len(s) = w * n
    /\ \A k \in 1..n : \A j \in 1..w : s[w * (k - 1) + j] = seqs[k][j]

LEMMA BlocksNext ==
    ASSUME NEW S, NEW w \in 2..3, NEW seqs \in Seq(Seq(S)), NEW n \in 0..(Len(seqs) - 1),
           NEW s, BlocksIn(S, seqs, w, n, s), Len(seqs[n + 1]) = w
    PROVE  BlocksIn(S, seqs, w, n + 1, s \o seqs[n + 1])
<1>1. PICK b \in Seq(S) : b = seqs[n + 1]
  <2>1. n + 1 \in 1..Len(seqs)
    OBVIOUS
  <2> QED BY <2>1
<1>2. s \in Seq(S) /\ Len(s) = w * n /\ Len(b) = w
  BY <1>1 DEF BlocksIn
<1>3. PICK t \in Seq(S) : t = s \o b /\ Len(t) = Len(s) + Len(b)
  BY <1>2, ConcatProperties
<1>4. \A c \in 1..(Len(s) + Len(b)) : t[c] = IF c <= Len(s) THEN s[c] ELSE b[c - Len(s)]
  BY <1>2, <1>3, ConcatProperties
<1>5. \A c \in 1..Len(s) : t[c] = s[c]
  BY <1>2, <1>4
<1>6. ASSUME NEW j \in 1..Len(b) PROVE t[Len(s) + j] = b[j]
  <2>1. Len(s) + j \in 1..(Len(s) + Len(b)) /\ ~ (Len(s) + j <= Len(s)) /\ (Len(s) + j) - Len(s) = j
    BY <1>2
  <2> QED BY <1>4, <2>1
<1>7. Len(t) = w * (n + 1)
  <2>1. CASE w = 2
    BY <1>2, <1>3, <2>1
  <2>2. CASE w = 3
    BY <1>2, <1>3, <2>2
  <2> QED BY <2>1, <2>2
<1>8. ASSUME NEW k \in 1..(n + 1), NEW j \in 1..w PROVE t[w * (k - 1) + j] = seqs[k][j]
  <2>1. CASE k = n + 1
    <3>1. w * (k - 1) = Len(s) /\ j \in 1..Len(b)
      <4>1. k - 1 = n
        BY <2>1
      <4> QED BY <1>2, <4>1
    <3> QED BY <1>1, <1>6, <2>1, <3>1
  <2>2. CASE k # n + 1
    <3>1. k \in 1..n
      BY <2>2
    <3>2. w * (k - 1) + j \in 1..Len(s)
      <4>1. CASE w = 2
        BY <1>2, <3>1, <4>1
      <4>2. CASE w = 3
        BY <1>2, <3>1, <4>2
      <4> QED BY <4>1, <4>2
    <3>3. s[w * (k - 1) + j] = seqs[k][j]
      BY <3>1 DEF BlocksIn
    <3> QED BY <1>5, <3>2, <3>3
  <2> QED BY <2>1, <2>2
<1>9. BlocksIn(S, seqs, w, n + 1, t)
  BY <1>7, <1>8 DEF BlocksIn
<1> QED BY <1>1, <1>3, <1>9

LEMMA FlattenBlocks ==
    ASSUME NEW S, NEW w \in 2..3, NEW seqs \in Seq(Seq(S)), \A k \in 1..Len(seqs) : Len(seqs[k]) = w
    PROVE  BlocksIn(S, seqs, w, Len(seqs), FlattenSeq(seqs))
<1>1. CASE Len(seqs) = 0
  <2>1. FlattenSeq(seqs) = seqs
    BY <1>1 DEF FlattenSeq
  <2>2. seqs = <<>>
    BY <1>1
  <2>3. FlattenSeq(seqs) \in Seq(S) /\ Len(FlattenSeq(seqs)) = 0
    BY <2>1, <2>2
  <2>4. w * Len(seqs) = 0 /\ 1..Len(seqs) = {}
    BY <1>1
  <2> QED BY <2>3, <2>4 DEF BlocksIn
<1>2. CASE Len(seqs) # 0
  <2>1. PICK f : Joined(seqs, Len(seqs), f) /\ FlattenSeq(seqs) = f[Len(seqs)]
    BY <1>2, FlattenIsJoined
  <2>2. PICK g : g = [k \in 0..Len(seqs) |-> IF k = 0 THEN <<>> ELSE f[k]]
    OBVIOUS
  <2>3. ASSUME NEW k \in 0..(Len(seqs) - 1) PROVE g[k + 1] = g[k] \o seqs[k + 1]
    <3>1. k + 1 \in 1..Len(seqs) /\ k + 1 \in 0..Len(seqs) /\ k \in 0..Len(seqs) /\ k + 1 # 0
          /\ (k + 1) - 1 = k
      OBVIOUS
    <3>2. f[k + 1] = IF k + 1 = 1 THEN seqs[k + 1] ELSE f[k] \o seqs[k + 1]
      BY <2>1, <3>1 DEF Joined
    <3>3. g[k + 1] = f[k + 1]
      BY <2>2, <3>1
    <3>4. CASE k = 0
      <4>1. seqs[k + 1] \in Seq(S)
        BY <3>1
      <4>2. g[k] = <<>>
        BY <2>2, <3>1, <3>4
      <4>3. g[k] \o seqs[k + 1] = seqs[k + 1]
        BY <4>1, <4>2
      <4> QED BY <3>2, <3>3, <3>4, <4>3
    <3>5. CASE k # 0
      <4>1. g[k] = f[k] /\ k + 1 # 1
        BY <2>2, <3>1, <3>5
      <4> QED BY <3>2, <3>3, <4>1
    <3> QED BY <3>4, <3>5
  <2> DEFINE T == {k \in Nat : k <= Len(seqs) => BlocksIn(S, seqs, w, k, g[k])}
  <2>4. 0 \in T
    <3>1. g[0] = <<>>
      BY <2>2
    <3>2. g[0] \in Seq(S) /\ Len(g[0]) = 0
      BY <3>1
    <3>3. w * 0 = 0 /\ 1..0 = {}
      OBVIOUS
    <3>4. BlocksIn(S, seqs, w, 0, g[0])
      BY <3>2, <3>3 DEF BlocksIn
    <3> QED BY <3>4
  <2>5. ASSUME NEW k \in Nat, k \in T PROVE k + 1 \in T
    <3>1. SUFFICES ASSUME k + 1 <= Len(seqs) PROVE BlocksIn(S, seqs, w, k + 1, g[k + 1])
      OBVIOUS
    <3>2. k \in 0..(Len(seqs) - 1) /\ k + 1 \in 1..Len(seqs)
      BY <3>1
    <3>3. BlocksIn(S, seqs, w, k, g[k])
      BY <2>5, <3>1
    <3>4. Len(seqs[k + 1]) = w
      BY <3>2
    <3>5. BlocksIn(S, seqs, w, k + 1, g[k] \o seqs[k + 1])
      BY <3>2, <3>3, <3>4, BlocksNext
    <3> QED BY <2>3, <3>2, <3>5
  <2> HIDE DEF T
  <2>6. Nat \subseteq T
    BY <2>4, <2>5, NatSetInduction
  <2>7. Len(seqs) \in T /\ Len(seqs) <= Len(seqs)
    BY <2>6
  <2>8. BlocksIn(S, seqs, w, Len(seqs), g[Len(seqs)])
    BY <2>7 DEF T
  <2>9. g[Len(seqs)] = f[Len(seqs)]
    <3>1. Len(seqs) \in 0..Len(seqs)
      OBVIOUS
    <3> QED BY <1>2, <2>2, <3>1
  <2> QED BY <2>1, <2>8, <2>9
<1> QED BY <1>1, <1>2

(* A letter is three trits, and three trits are a letter.                    *)
LEMMA LetterTrits ==
    ASSUME NEW x \in Letter
    PROVE  TritsOfLetter(x) \in Seq(Trit) /\ Len(TritsOfLetter(x)) = 3 /\ Value(TritsOfLetter(x)) = x
<1>1. PICK s \in Seq(Trit) : s = TritsOfInt(x) /\ Value(s) = x
  BY NumbersComeBack DEF Letter
<1>2. Len(s) <= 3
  <2>1. CASE x >= 0
    <3>1. x \in 0..13 /\ s = Digits[x]
      BY <1>1, <2>1 DEF Letter, TritsOfInt
    <3> QED BY <3>1, ShortDigits
  <2>2. CASE ~ (x >= 0)
    <3>1. PICK p \in 0..13 : p = -x
      BY <2>2 DEF Letter
    <3>2. s = [k \in DOMAIN Digits[p] |-> -Digits[p][k]]
      BY <1>1, <2>2, <3>1 DEF TritsOfInt
    <3>3. Digits[p] \in Seq(Trit)
      BY AllDigitsGood DEF DigitsGood
    <3>4. DOMAIN s = 1..Len(Digits[p]) /\ Len(Digits[p]) \in Nat
      BY <3>2, <3>3
    <3>5. Len(s) = Len(Digits[p])
      BY <3>4
    <3> QED BY <3>5, ShortDigits
  <2> QED BY <2>1, <2>2
<1>3. Pad(s, 3) \in Seq(Trit) /\ Len(Pad(s, 3)) = 3 /\ Value(Pad(s, 3)) = x
  BY <1>1, <1>2, PadIs
<1> QED BY <1>1, <1>3 DEF TritsOfLetter

LEMMA ItsTrits ==
    ASSUME NEW s \in Seq(Trit), Len(s) = 3 PROVE s[1] \in Trit /\ s[2] \in Trit /\ s[3] \in Trit
<1>1. \A k \in 1..Len(s) : s[k] \in Trit
  OBVIOUS
<1>2. 1 \in 1..Len(s) /\ 2 \in 1..Len(s) /\ 3 \in 1..Len(s)
  OBVIOUS
<1> QED BY <1>1, <1>2

LEMMA ThreeTrits ==
    ASSUME NEW s \in Seq(Trit), Len(s) = 3
    PROVE  Value(s) = s[1] + 3 * s[2] + 9 * s[3] /\ Value(s) \in Letter
<1>1. s[1] \in Trit /\ s[2] \in Trit /\ s[3] \in Trit
  BY ItsTrits
<1>2. s \in Seq(Int)
  BY TritsAreInts
<1>3. PICK f : Horner(s, Len(s), f) /\ Value(s) = f[Len(s)]
  BY <1>2, ValueIsHorner
<1>4. f[0] = 0
  BY <1>2, <1>3, HornerStarts
<1>5. 0 \in 0..(Len(s) - 1) /\ 1 \in 0..(Len(s) - 1) /\ 2 \in 0..(Len(s) - 1)
  OBVIOUS
<1>6. f[0 + 1] = f[0] * 3 + s[Len(s) - 0] /\ f[1 + 1] = f[1] * 3 + s[Len(s) - 1]
      /\ f[2 + 1] = f[2] * 3 + s[Len(s) - 2]
  BY <1>2, <1>3, <1>5, HornerTells
<1>7. f[1] = f[0] * 3 + s[3] /\ f[2] = f[1] * 3 + s[2] /\ f[3] = f[2] * 3 + s[1]
  BY <1>6
<1>8. PICK a \in -1..1, b \in -1..1, c \in -1..1 : a = s[1] /\ b = s[2] /\ c = s[3]
  BY <1>1 DEF Trit
<1>9. f[1] = c
  BY <1>4, <1>7, <1>8
<1>10. f[2] = c * 3 + b
  BY <1>7, <1>8, <1>9
<1>11. f[3] = (c * 3 + b) * 3 + a
  BY <1>7, <1>8, <1>10
<1>12. Value(s) = (c * 3 + b) * 3 + a
  BY <1>3, <1>11
<1>13. (c * 3 + b) * 3 + a = a + 3 * b + 9 * c /\ (c * 3 + b) * 3 + a \in -13..13
  OBVIOUS
<1> QED BY <1>8, <1>12, <1>13 DEF Letter

LEMMA LetterOfThree ==
    ASSUME NEW s \in Seq(Trit), Len(s) = 3 PROVE TritsOfLetter(Value(s)) = s
<1>1. Value(s) = s[1] + 3 * s[2] + 9 * s[3] /\ Value(s) \in Letter
  BY ThreeTrits
<1>2. PICK t \in Seq(Trit) : t = TritsOfLetter(Value(s)) /\ Len(t) = 3 /\ Value(t) = Value(s)
  BY <1>1, LetterTrits
<1>3. Value(t) = t[1] + 3 * t[2] + 9 * t[3]
  BY <1>2, ThreeTrits
<1>4. PICK a \in -1..1, b \in -1..1, c \in -1..1 : a = s[1] /\ b = s[2] /\ c = s[3]
  <2>1. s[1] \in Trit /\ s[2] \in Trit /\ s[3] \in Trit
    BY ItsTrits
  <2> QED BY <2>1 DEF Trit
<1>5. PICK x \in -1..1, y \in -1..1, z \in -1..1 : x = t[1] /\ y = t[2] /\ z = t[3]
  <2>1. t[1] \in Trit /\ t[2] \in Trit /\ t[3] \in Trit
    BY <1>2
  <2> QED BY <2>1 DEF Trit
<1>6. a + 3 * b + 9 * c = x + 3 * y + 9 * z
  BY <1>1, <1>2, <1>3, <1>4, <1>5
<1>7. a = x /\ b = y /\ c = z
  BY <1>6
<1>8. \A k \in 1..3 : s[k] = t[k]
  <2>1. \A k \in 1..3 : k = 1 \/ k = 2 \/ k = 3
    OBVIOUS
  <2> QED BY <1>4, <1>5, <1>7, <2>1
<1>9. s = [k \in 1..3 |-> s[k]] /\ t = [k \in 1..3 |-> t[k]]
  BY <1>2
<1> QED BY <1>2, <1>8, <1>9

LEMMA TrytesAsTrits ==
    ASSUME NEW t \in Seq(Letter)
    PROVE  BlocksIn(Trit, [k \in DOMAIN t |-> TritsOfLetter(t[k])], 3, Len(t), TritsOfTrytes(t))
<1>1. PICK seqs : seqs = [k \in DOMAIN t |-> TritsOfLetter(t[k])]
  OBVIOUS
<1>2. \A k \in 1..Len(t) : t[k] \in Letter
  OBVIOUS
<1>3. DOMAIN t = 1..Len(t) /\ Len(t) \in Nat
  OBVIOUS
<1>4. \A k \in 1..Len(t) : seqs[k] \in Seq(Trit) /\ Len(seqs[k]) = 3
  BY <1>1, <1>2, <1>3, LetterTrits
<1>5. seqs \in Seq(Seq(Trit)) /\ Len(seqs) = Len(t)
  <2>1. seqs = [k \in 1..Len(t) |-> seqs[k]]
    BY <1>1, <1>3
  <2> QED BY <1>3, <1>4, <2>1
<1>6. 3 \in 2..3
  OBVIOUS
<1>7. BlocksIn(Trit, seqs, 3, Len(seqs), FlattenSeq(seqs))
  BY <1>4, <1>5, <1>6, FlattenBlocks
<1>8. TritsOfTrytes(t) = FlattenSeq(seqs)
  BY <1>1 DEF TritsOfTrytes
<1> QED BY <1>1, <1>5, <1>7, <1>8

LEMMA TheThird ==
    ASSUME NEW s \in Seq(Trit), NEW k \in 1..(Len(s) \div 3)
    PROVE  /\ SubSeq(s, 3 * k - 2, 3 * k) \in Seq(Trit)
           /\ Len(SubSeq(s, 3 * k - 2, 3 * k)) = 3
           /\ \A j \in 1..3 : SubSeq(s, 3 * k - 2, 3 * k)[j] = s[3 * (k - 1) + j]
<1>1. PICK from \in 1..Len(s), to \in 1..Len(s) : from = 3 * k - 2 /\ to = 3 * k
  <2>1. 3 * k - 2 \in 1..Len(s) /\ 3 * k \in 1..Len(s)
    OBVIOUS
  <2> QED BY <2>1
<1>2. to - from + 1 = 3
  BY <1>1
<1>3. PICK u : u = SubSeq(s, from, to)
  OBVIOUS
<1>4. u \in Seq(Trit) /\ Len(u) = 3 /\ \A j \in 1..3 : u[j] = s[from + j - 1]
  BY <1>2, <1>3, SubSeqProperties
<1>5. \A j \in 1..3 : from + j - 1 = 3 * (k - 1) + j
  BY <1>1
<1> QED BY <1>1, <1>3, <1>4, <1>5

LEMMA TrytesAreLetters ==
    ASSUME NEW s \in Seq(Trit), NEW n \in Nat, Len(s) = 3 * n
    PROVE  /\ TrytesOf(s) \in Seq(Letter)
           /\ Len(TrytesOf(s)) = n
           /\ \A k \in 1..n : TritsOfLetter(TrytesOf(s)[k]) = SubSeq(s, 3 * k - 2, 3 * k)
<1>1. n = Len(s) \div 3
  OBVIOUS
<1>2. PICK t : t = [k \in 1..n |-> Value(SubSeq(s, 3 * k - 2, 3 * k))]
  OBVIOUS
<1>3. TrytesOf(s) = t
  BY <1>1, <1>2 DEF TrytesOf
<1>4. \A k \in 1..n : SubSeq(s, 3 * k - 2, 3 * k) \in Seq(Trit) /\ Len(SubSeq(s, 3 * k - 2, 3 * k)) = 3
  BY <1>1, TheThird
<1>5. \A k \in 1..n : t[k] \in Letter
  BY <1>2, <1>4, ThreeTrits
<1>6. t \in Seq(Letter) /\ Len(t) = n
  BY <1>2, <1>5
<1>7. \A k \in 1..n : TritsOfLetter(t[k]) = SubSeq(s, 3 * k - 2, 3 * k)
  BY <1>2, <1>4, LetterOfThree
<1> QED BY <1>3, <1>6, <1>7

(* Trytes written as trits are read as the same trytes (trytesToTrits,       *)
(* trits in aidos.js's crypto/converter), and trits that fill their trytes   *)
(* are read back from them.                                                  *)
THEOREM TrytesComeBack ==
    /\ \A t \in Seq(Letter) : TrytesOf(TritsOfTrytes(t)) = t
    /\ \A s \in Seq(Trit) : Len(s) % 3 = 0 => TritsOfTrytes(TrytesOf(s)) = s
<1>1. ASSUME NEW t \in Seq(Letter) PROVE TrytesOf(TritsOfTrytes(t)) = t
  <2>1. PICK seqs : seqs = [k \in DOMAIN t |-> TritsOfLetter(t[k])]
    OBVIOUS
  <2>2. PICK s \in Seq(Trit) : s = TritsOfTrytes(t)
    BY TrytesAsTrits DEF BlocksIn
  <2>3. Len(s) = 3 * Len(t) /\ \A k \in 1..Len(t) : \A j \in 1..3 : s[3 * (k - 1) + j] = seqs[k][j]
    BY <2>1, <2>2, TrytesAsTrits DEF BlocksIn
  <2>4. Len(s) \div 3 = Len(t)
    BY <2>3
  <2>5. ASSUME NEW k \in 1..Len(t) PROVE Value(SubSeq(s, 3 * k - 2, 3 * k)) = t[k]
    <3>1. k \in 1..(Len(s) \div 3)
      BY <2>4
    <3>2. PICK u \in Seq(Trit) : u = SubSeq(s, 3 * k - 2, 3 * k) /\ Len(u) = 3
                                 /\ \A j \in 1..3 : u[j] = s[3 * (k - 1) + j]
      BY <3>1, TheThird
    <3>3. t[k] \in Letter /\ k \in DOMAIN t
      OBVIOUS
    <3>4. PICK v \in Seq(Trit) : v = TritsOfLetter(t[k]) /\ Len(v) = 3 /\ Value(v) = t[k]
      BY <3>3, LetterTrits
    <3>5. \A j \in 1..3 : u[j] = v[j]
      BY <2>1, <2>3, <3>2, <3>3, <3>4
    <3>6. Len(u) = 3
      BY <3>2
    <3>7. Len(v) = 3
      BY <3>4
    <3>8. u = [j \in 1..Len(u) |-> u[j]] /\ v = [j \in 1..Len(v) |-> v[j]]
      OBVIOUS
    <3>9. u = [j \in 1..3 |-> u[j]] /\ v = [j \in 1..3 |-> v[j]]
      BY <3>6, <3>7, <3>8
    <3>10. u = v
      BY <3>5, <3>9
    <3> QED BY <3>2, <3>4, <3>10
  <2>6. TrytesOf(s) = [k \in 1..Len(t) |-> Value(SubSeq(s, 3 * k - 2, 3 * k))]
    BY <2>4 DEF TrytesOf
  <2>7. t = [k \in 1..Len(t) |-> t[k]]
    OBVIOUS
  <2> QED BY <2>2, <2>5, <2>6, <2>7
<1>2. ASSUME NEW s \in Seq(Trit), Len(s) % 3 = 0 PROVE TritsOfTrytes(TrytesOf(s)) = s
  <2>1. PICK n \in Nat : n = Len(s) \div 3 /\ Len(s) = 3 * n
    <3>1. Len(s) \div 3 \in Nat /\ Len(s) = 3 * (Len(s) \div 3)
      BY <1>2
    <3> QED BY <3>1
  <2>2. PICK t \in Seq(Letter) : t = TrytesOf(s) /\ Len(t) = n
    BY <2>1, TrytesAreLetters
  <2>3. \A k \in 1..n : TritsOfLetter(t[k]) = SubSeq(s, 3 * k - 2, 3 * k)
    BY <2>1, <2>2, TrytesAreLetters
  <2>4. \A k \in 1..n : \A j \in 1..3 : SubSeq(s, 3 * k - 2, 3 * k)[j] = s[3 * (k - 1) + j]
    BY <2>1, TheThird
  <2>5. PICK seqs : seqs = [k \in DOMAIN t |-> TritsOfLetter(t[k])]
    OBVIOUS
  <2>6. PICK r \in Seq(Trit) : r = TritsOfTrytes(t)
    BY TrytesAsTrits DEF BlocksIn
  <2>7. Len(r) = 3 * n /\ \A k \in 1..n : \A j \in 1..3 : r[3 * (k - 1) + j] = seqs[k][j]
    BY <2>2, <2>5, <2>6, TrytesAsTrits DEF BlocksIn
  <2>8. \A k \in 1..n : seqs[k] = SubSeq(s, 3 * k - 2, 3 * k)
    <3>1. \A k \in 1..n : k \in DOMAIN t
      BY <2>2
    <3> QED BY <2>3, <2>5, <3>1
  <2>9. ASSUME NEW c \in 1..Len(s) PROVE r[c] = s[c]
    <3>1. PICK k \in 1..n, j \in 1..3 : c = 3 * (k - 1) + j
      <4>1. (c - 1) \div 3 + 1 \in 1..n /\ ((c - 1) % 3) + 1 \in 1..3
            /\ c = 3 * (((c - 1) \div 3 + 1) - 1) + (((c - 1) % 3) + 1)
        BY <2>1
      <4> QED BY <4>1
    <3>2. r[c] = seqs[k][j]
      BY <2>7, <3>1
    <3>3. seqs[k][j] = s[c]
      BY <2>4, <2>8, <3>1
    <3> QED BY <3>2, <3>3
  <2>10. Len(r) = Len(s)
    BY <2>1, <2>7
  <2>11. r = [c \in 1..Len(s) |-> r[c]] /\ s = [c \in 1..Len(s) |-> s[c]]
    BY <2>10
  <2>12. r = s
    BY <2>9, <2>11
  <2> QED BY <2>2, <2>6, <2>12
<1> QED BY <1>1, <1>2

LEMMA ByteType == \A c \in Nat : Byte(c) \in 0..255
  BY DEF Byte

LEMMA ByteSplits ==
    ASSUME NEW b \in 0..255
    PROVE  \E q \in 0..26, r \in 0..26 : q = b \div 27 /\ r = b % 27 /\ b = r + 27 * q
  OBVIOUS

CodeOf(first, second) == (first + 27 * second) % 65536

LEMMA ByteStays ==
    ASSUME NEW b \in 0..255, NEW q \in 0..26, NEW r \in 0..26, b = r + 27 * q
    PROVE  CodeOf(r, q) = b
  BY DEF CodeOf

LEMMA HalfIs == \A n \in Nat : (2 * n + 1) \div 2 = n
  OBVIOUS

(* A text written in trytes is read as the same text, character for          *)
(* character, but for the characters that are no byte, which are spaces      *)
(* (utils/asciiToTrytes).                                                    *)
THEOREM TextComesBack ==
    \A text \in Seq(Nat) :
        TrytesToAscii(AsciiToTrytes(text)) = [k \in DOMAIN text |-> Byte(text[k])]
<1> SUFFICES ASSUME NEW text \in Seq(Nat)
             PROVE  TrytesToAscii(AsciiToTrytes(text)) = [k \in DOMAIN text |-> Byte(text[k])]
  OBVIOUS
<1>1. PICK seqs : seqs = [k \in DOMAIN text |->
                              <<LetterAt(Byte(text[k]) % 27), LetterAt(Byte(text[k]) \div 27)>>]
  OBVIOUS
<1>2. DOMAIN text = 1..Len(text) /\ Len(text) \in Nat
  OBVIOUS
<1>3. ASSUME NEW p \in 0..26 PROVE LetterAt(p) \in Letter /\ PlaceOf(LetterAt(p)) = p
  <2>1. CASE p <= 13
    BY <2>1 DEF LetterAt, PlaceOf, Letter
  <2>2. CASE ~ (p <= 13)
    <3>1. LetterAt(p) = p - 27
      BY <2>2 DEF LetterAt
    <3>2. p - 27 \in -13..13 /\ (p - 27) % 27 = p
      BY <2>2
    <3> QED BY <3>1, <3>2 DEF PlaceOf, Letter
  <2> QED BY <2>1, <2>2
<1>4. ASSUME NEW k \in 1..Len(text)
      PROVE  \E b \in 0..255, q \in 0..26, r \in 0..26 :
                 b = Byte(text[k]) /\ seqs[k] = <<LetterAt(r), LetterAt(q)>> /\ b = r + 27 * q
  <2>1. text[k] \in Nat /\ k \in DOMAIN text
    OBVIOUS
  <2>2. PICK b \in 0..255 : b = Byte(text[k])
    BY <2>1, ByteType
  <2>3. PICK q \in 0..26, r \in 0..26 : q = b \div 27 /\ r = b % 27 /\ b = r + 27 * q
    BY ByteSplits
  <2>4. seqs[k] = <<LetterAt(r), LetterAt(q)>>
    BY <1>1, <2>1, <2>2, <2>3
  <2> QED BY <2>2, <2>3, <2>4
<1>5. \A k \in 1..Len(text) : seqs[k] \in Seq(Letter) /\ Len(seqs[k]) = 2
  <2>1. ASSUME NEW k \in 1..Len(text) PROVE seqs[k] \in Seq(Letter) /\ Len(seqs[k]) = 2
    <3>1. PICK q \in 0..26, r \in 0..26 : seqs[k] = <<LetterAt(r), LetterAt(q)>>
      BY <1>4
    <3>2. LetterAt(r) \in Letter /\ LetterAt(q) \in Letter
      BY <1>3
    <3> QED BY <3>1, <3>2
  <2> QED BY <2>1
<1>6. seqs \in Seq(Seq(Letter)) /\ Len(seqs) = Len(text)
  <2>1. seqs = [k \in 1..Len(text) |-> seqs[k]]
    BY <1>1, <1>2
  <2> QED BY <1>2, <1>5, <2>1
<1>7. 2 \in 2..3
  OBVIOUS
<1>8. BlocksIn(Letter, seqs, 2, Len(seqs), FlattenSeq(seqs))
  BY <1>5, <1>6, <1>7, FlattenBlocks
<1>9. PICK t \in Seq(Letter) : t = AsciiToTrytes(text)
  BY <1>1, <1>8 DEF AsciiToTrytes, BlocksIn
<1>10. Len(t) = 2 * Len(text) /\ \A k \in 1..Len(text) : \A j \in 1..2 : t[2 * (k - 1) + j] = seqs[k][j]
  BY <1>1, <1>6, <1>8, <1>9 DEF AsciiToTrytes, BlocksIn
<1>11. Len(t) = 2 * Len(text)
  BY <1>10
<1>12. (Len(t) + 1) \div 2 = Len(text)
  BY <1>2, <1>11, HalfIs
<1> DEFINE Second(k) == IF k < Len(t) THEN PlaceOf(t[k + 1]) ELSE -1
           Code(k) == (PlaceOf(t[2 * k - 1]) + 27 * Second(2 * k - 1)) % 65536
<1>13. ASSUME NEW k \in 1..Len(text) PROVE Code(k) = Byte(text[k])
  <2>1. PICK b \in 0..255, q \in 0..26, r \in 0..26 :
            b = Byte(text[k]) /\ seqs[k] = <<LetterAt(r), LetterAt(q)>> /\ b = r + 27 * q
    BY <1>4
  <2>2. 2 * k - 1 = 2 * (k - 1) + 1 /\ (2 * k - 1) + 1 = 2 * (k - 1) + 2 /\ 2 * k - 1 < Len(t)
    BY <1>10
  <2>3. t[2 * k - 1] = LetterAt(r) /\ t[(2 * k - 1) + 1] = LetterAt(q)
    <3>1. 1 \in 1..2 /\ 2 \in 1..2
      OBVIOUS
    <3>2. t[2 * (k - 1) + 1] = seqs[k][1] /\ t[2 * (k - 1) + 2] = seqs[k][2]
      BY <1>10, <3>1
    <3> QED BY <2>1, <2>2, <3>2
  <2>4. PlaceOf(t[2 * k - 1]) = r /\ Second(2 * k - 1) = q
    <3>1. PlaceOf(LetterAt(r)) = r /\ PlaceOf(LetterAt(q)) = q
      BY <1>3
    <3> QED BY <2>2, <2>3, <3>1
  <2>5. Code(k) = CodeOf(r, q)
    BY <2>4 DEF CodeOf
  <2> HIDE DEF Second, Code
  <2>6. b = r + 27 * q
    BY <2>1
  <2>7. CodeOf(r, q) = b
    BY <2>6, ByteStays
  <2> QED BY <2>1, <2>5, <2>7
<1>14. TrytesToAscii(t) = [k \in 1..Len(text) |-> Code(k)]
  BY <1>12 DEF TrytesToAscii
<1> HIDE DEF Code
<1>15. TrytesToAscii(t) = [k \in 1..Len(text) |-> Byte(text[k])]
  BY <1>13, <1>14
<1> QED BY <1>2, <1>9, <1>15

(* A number fits a field of so many trits.                                   *)
Fits(n, width) == Len(TritsOfInt(n)) <= width

LEMMA PadAt ==
    ASSUME NEW s \in Seq(Trit), NEW width \in Nat, Len(s) <= width, NEW c \in 1..width
    PROVE  Pad(s, width)[c] = IF c <= Len(s) THEN s[c] ELSE 0
<1>1. PICK n \in Nat : n = width - Len(s)
  OBVIOUS
<1>2. PICK z : z = Zeros(n)
  OBVIOUS
<1>3. z \in Seq(Trit) /\ Len(z) = n /\ \A k \in 1..n : z[k] = 0
  <2>1. z = [k \in 1..n |-> 0] /\ 0 \in Trit
    BY <1>2 DEF Zeros, Trit
  <2> QED BY <2>1
<1>4. Pad(s, width) = s \o z
  BY <1>1, <1>2 DEF Pad
<1>5. c \in 1..(Len(s) + Len(z))
  BY <1>1, <1>3
<1>6. (s \o z)[c] = IF c <= Len(s) THEN s[c] ELSE z[c - Len(s)]
  BY <1>3, <1>5, ConcatProperties
<1>7. ~ (c <= Len(s)) => c - Len(s) \in 1..n
  BY <1>1
<1> QED BY <1>3, <1>4, <1>6, <1>7

LEMMA FieldTells ==
    ASSUME NEW n \in Int, NEW c \in Nat, Fits(n, 3 * c)
    PROVE  /\ Field(n, 3 * c) \in Seq(Letter)
           /\ Len(Field(n, 3 * c)) = c
           /\ TritsOfTrytes(Field(n, 3 * c)) = Pad(TritsOfInt(n), 3 * c)
<1>1. PICK t \in Seq(Trit) : t = TritsOfInt(n)
  BY NumbersComeBack
<1>2. 3 * c \in Nat /\ Len(t) <= 3 * c
  BY <1>1 DEF Fits
<1>3. PICK s \in Seq(Trit) : s = Pad(t, 3 * c) /\ Len(s) = 3 * c
  BY <1>2, PadIs
<1>4. Len(s) % 3 = 0
  BY <1>3
<1>5. TritsOfTrytes(TrytesOf(s)) = s
  BY <1>4, TrytesComeBack
<1>6. TrytesOf(s) \in Seq(Letter) /\ Len(TrytesOf(s)) = c
  BY <1>3, TrytesAreLetters
<1>7. Field(n, 3 * c) = TrytesOf(s)
  BY <1>1, <1>3 DEF Field
<1> QED BY <1>1, <1>3, <1>5, <1>6, <1>7

(* A number that fits its field is read from it, with the field's width of   *)
(* trits.                                                                    *)
THEOREM FieldsComeBack ==
    \A n \in Int : \A c \in Nat :
        Fits(n, 3 * c) => /\ TritsOfTrytes(Field(n, 3 * c)) = Pad(TritsOfInt(n), 3 * c)
                          /\ Value(TritsOfTrytes(Field(n, 3 * c))) = n
<1> SUFFICES ASSUME NEW n \in Int, NEW c \in Nat, Fits(n, 3 * c)
             PROVE  /\ TritsOfTrytes(Field(n, 3 * c)) = Pad(TritsOfInt(n), 3 * c)
                    /\ Value(TritsOfTrytes(Field(n, 3 * c))) = n
  OBVIOUS
<1>1. TritsOfTrytes(Field(n, 3 * c)) = Pad(TritsOfInt(n), 3 * c)
  BY FieldTells
<1>2. 3 * c \in Nat
  OBVIOUS
<1>3. Value(Pad(TritsOfInt(n), 3 * c)) = n
  BY <1>2, NumbersComeBack
<1> QED BY <1>1, <1>3

(* A letter of a field, by its three trits.                                  *)
ThreeOf(t, k, u) ==
    /\ u \in Seq(Trit)
    /\ Len(u) = 3
    /\ \A j \in 1..3 : u[j] = IF 3 * (k - 1) + j <= Len(t) THEN t[3 * (k - 1) + j] ELSE 0

LEMMA FieldLetter ==
    ASSUME NEW n \in Int, NEW c \in Nat, Fits(n, 3 * c), NEW k \in 1..c
    PROVE  \E u : ThreeOf(TritsOfInt(n), k, u) /\ Field(n, 3 * c)[k] = Value(u)
<1>1. PICK t \in Seq(Trit) : t = TritsOfInt(n)
  BY NumbersComeBack
<1>2. 3 * c \in Nat /\ Len(t) <= 3 * c
  BY <1>1 DEF Fits
<1>3. PICK s \in Seq(Trit) : s = Pad(t, 3 * c) /\ Len(s) = 3 * c
  BY <1>2, PadIs
<1>4. Len(s) \div 3 = c
  BY <1>3
<1>5. PICK u \in Seq(Trit) : u = SubSeq(s, 3 * k - 2, 3 * k) /\ Len(u) = 3
                             /\ \A j \in 1..3 : u[j] = s[3 * (k - 1) + j]
  BY <1>4, TheThird
<1>6. Field(n, 3 * c) = [m \in 1..c |-> Value(SubSeq(s, 3 * m - 2, 3 * m))]
  BY <1>1, <1>3, <1>4 DEF Field, TrytesOf
<1>7. Field(n, 3 * c)[k] = Value(u)
  BY <1>5, <1>6
<1>8. ASSUME NEW j \in 1..3
      PROVE  u[j] = IF 3 * (k - 1) + j <= Len(t) THEN t[3 * (k - 1) + j] ELSE 0
  <2>1. 3 * (k - 1) + j \in 1..(3 * c)
    OBVIOUS
  <2>2. Pad(t, 3 * c)[3 * (k - 1) + j] = IF 3 * (k - 1) + j <= Len(t) THEN t[3 * (k - 1) + j] ELSE 0
    BY <1>2, <2>1, PadAt
  <2> QED BY <1>3, <1>5, <2>2
<1>9. ThreeOf(t, k, u)
  BY <1>5, <1>8 DEF ThreeOf
<1> QED BY <1>1, <1>7, <1>9

(* A field that is wider than its number needs has the same letters, and     *)
(* then 9s; one that is not has another letter past the width.               *)
LEMMA FieldStarts ==
    ASSUME NEW n \in Int, NEW a \in Nat, NEW c \in Nat, a <= c, Fits(n, 3 * a)
    PROVE  /\ \A k \in 1..a : Field(n, 3 * c)[k] = Field(n, 3 * a)[k]
           /\ \A k \in (a + 1)..c : Field(n, 3 * c)[k] = 0
<1>1. PICK t \in Seq(Trit) : t = TritsOfInt(n)
  BY NumbersComeBack
<1>2. Len(t) <= 3 * a /\ Fits(n, 3 * c)
  BY <1>1 DEF Fits
<1>3. ASSUME NEW k \in 1..a PROVE Field(n, 3 * c)[k] = Field(n, 3 * a)[k]
  <2>1. k \in 1..c
    OBVIOUS
  <2>2. PICK u : ThreeOf(t, k, u) /\ Field(n, 3 * c)[k] = Value(u)
    BY <1>1, <1>2, <2>1, FieldLetter
  <2>3. /\ u \in Seq(Trit)
        /\ Len(u) = 3
        /\ \A j \in 1..3 : u[j] = IF 3 * (k - 1) + j <= Len(t) THEN t[3 * (k - 1) + j] ELSE 0
    BY <2>2 DEF ThreeOf
  <2>4. PICK v : ThreeOf(t, k, v) /\ Field(n, 3 * a)[k] = Value(v)
    BY <1>1, FieldLetter
  <2>5. /\ v \in Seq(Trit)
        /\ Len(v) = 3
        /\ \A j \in 1..3 : v[j] = IF 3 * (k - 1) + j <= Len(t) THEN t[3 * (k - 1) + j] ELSE 0
    BY <2>4 DEF ThreeOf
  <2>6. Value(u) = u[1] + 3 * u[2] + 9 * u[3] /\ Value(v) = v[1] + 3 * v[2] + 9 * v[3]
    BY <2>3, <2>5, ThreeTrits
  <2>7. \A j \in 1..3 : u[j] = v[j]
    BY <2>3, <2>5
  <2>8. u[1] = v[1] /\ u[2] = v[2] /\ u[3] = v[3]
    BY <2>7
  <2> QED BY <2>2, <2>4, <2>6, <2>8
<1>4. ASSUME NEW k \in (a + 1)..c PROVE Field(n, 3 * c)[k] = 0
  <2>1. k \in 1..c
    OBVIOUS
  <2>2. PICK u : ThreeOf(t, k, u) /\ Field(n, 3 * c)[k] = Value(u)
    BY <1>1, <1>2, <2>1, FieldLetter
  <2>3. /\ u \in Seq(Trit)
        /\ Len(u) = 3
        /\ \A j \in 1..3 : u[j] = IF 3 * (k - 1) + j <= Len(t) THEN t[3 * (k - 1) + j] ELSE 0
    BY <2>2 DEF ThreeOf
  <2>4. \A j \in 1..3 : ~ (3 * (k - 1) + j <= Len(t))
    BY <1>2
  <2>5. \A j \in 1..3 : u[j] = 0
    BY <2>3, <2>4
  <2>6. u[1] = 0 /\ u[2] = 0 /\ u[3] = 0
    BY <2>5
  <2>7. Value(u) = u[1] + 3 * u[2] + 9 * u[3]
    BY <2>3, ThreeTrits
  <2>8. Value(u) = 0
    BY <2>6, <2>7
  <2> QED BY <2>2, <2>8
<1> QED BY <1>3, <1>4

LEMMA FieldSticksOut ==
    ASSUME NEW n \in Int, NEW a \in Nat, NEW c \in Nat, ~ Fits(n, 3 * a), Fits(n, 3 * c)
    PROVE  \E k \in (a + 1)..c : Field(n, 3 * c)[k] # 0
<1>1. PICK t \in Seq(Trit) : t = TritsOfInt(n) /\ (Len(t) = 0 <=> n = 0) /\ (n # 0 => t[Len(t)] # 0)
  BY NumbersComeBack
<1>2. PICK p \in Nat : p = Len(t) /\ 3 * a < p /\ p <= 3 * c
  <2>1. ~ (Len(t) <= 3 * a) /\ Len(t) <= 3 * c
    BY <1>1 DEF Fits
  <2> QED BY <2>1
<1>3. t[p] # 0
  <2>1. Len(t) # 0
    BY <1>2
  <2> QED BY <1>1, <1>2, <2>1
<1>4. PICK k \in (a + 1)..c, j \in 1..3 : p = 3 * (k - 1) + j
  <2>1. (p - 1) \div 3 + 1 \in (a + 1)..c /\ ((p - 1) % 3) + 1 \in 1..3
        /\ p = 3 * (((p - 1) \div 3 + 1) - 1) + (((p - 1) % 3) + 1)
    BY <1>2
  <2> QED BY <2>1
<1>5. k \in 1..c
  OBVIOUS
<1>6. PICK u : ThreeOf(t, k, u) /\ Field(n, 3 * c)[k] = Value(u)
  BY <1>1, <1>5, FieldLetter
<1>7. /\ u \in Seq(Trit)
      /\ Len(u) = 3
      /\ \A m \in 1..3 : u[m] = IF 3 * (k - 1) + m <= Len(t) THEN t[3 * (k - 1) + m] ELSE 0
  BY <1>6 DEF ThreeOf
<1>8. u[j] # 0
  <2>1. 3 * (k - 1) + j <= Len(t)
    BY <1>2, <1>4
  <2> QED BY <1>3, <1>4, <1>7, <2>1
<1>9. PICK x \in -1..1, y \in -1..1, z \in -1..1 : x = u[1] /\ y = u[2] /\ z = u[3]
  <2>1. u[1] \in Trit /\ u[2] \in Trit /\ u[3] \in Trit
    BY <1>7, ItsTrits
  <2> QED BY <2>1 DEF Trit
<1>10. x # 0 \/ y # 0 \/ z # 0
  <2>1. j = 1 \/ j = 2 \/ j = 3
    OBVIOUS
  <2> QED BY <1>8, <1>9, <2>1
<1>11. Value(u) = u[1] + 3 * u[2] + 9 * u[3]
  BY <1>7, ThreeTrits
<1>12. Value(u) = x + 3 * y + 9 * z
  BY <1>9, <1>11
<1>13. x + 3 * y + 9 * z # 0
  BY <1>10
<1> QED BY <1>6, <1>12, <1>13

LEMMA Sides ==
    ASSUME NEW S, NEW s \in Seq(S), NEW b \in Seq(S)
    PROVE  /\ s \o b \in Seq(S)
           /\ Len(s \o b) = Len(s) + Len(b)
           /\ \A k \in 1..Len(s) : (s \o b)[k] = s[k]
           /\ \A j \in 1..Len(b) : (s \o b)[Len(s) + j] = b[j]
<1>1. PICK t : t = s \o b
  OBVIOUS
<1>2. t \in Seq(S) /\ Len(t) = Len(s) + Len(b)
  BY <1>1, ConcatProperties
<1>3. \A c \in 1..(Len(s) + Len(b)) : t[c] = IF c <= Len(s) THEN s[c] ELSE b[c - Len(s)]
  BY <1>1, ConcatProperties
<1>4. \A c \in 1..Len(s) : t[c] = s[c]
  BY <1>3
<1>5. ASSUME NEW j \in 1..Len(b) PROVE t[Len(s) + j] = b[j]
  <2>1. Len(s) + j \in 1..(Len(s) + Len(b)) /\ ~ (Len(s) + j <= Len(s)) /\ (Len(s) + j) - Len(s) = j
    OBVIOUS
  <2> QED BY <1>3, <2>1
<1> QED BY <1>1, <1>2, <1>4, <1>5

(* What a text says from a place on.                                         *)
Says(q, from, b) ==
    /\ from \in Nat
    /\ from + Len(b) <= Len(q)
    /\ \A k \in 1..Len(b) : q[from + k] = b[k]

LEMMA SaysMore ==
    ASSUME NEW S, NEW q \in Seq(S), NEW more \in Seq(S), NEW from, NEW b \in Seq(S), Says(q, from, b)
    PROVE  Says(q \o more, from, b)
<1>1. from \in Nat /\ from + Len(b) <= Len(q)
  BY DEF Says
<1>2. PICK t : t = q \o more
  OBVIOUS
<1>3. Len(t) = Len(q) + Len(more) /\ \A c \in 1..Len(q) : t[c] = q[c]
  BY <1>2, Sides
<1>4. from + Len(b) <= Len(t)
  BY <1>1, <1>3
<1>5. ASSUME NEW k \in 1..Len(b) PROVE t[from + k] = b[k]
  <2>1. from + k \in 1..Len(q)
    BY <1>1
  <2>2. q[from + k] = b[k]
    BY DEF Says
  <2> QED BY <1>3, <2>1, <2>2
<1>6. Says(t, from, b)
  BY <1>1, <1>4, <1>5 DEF Says
<1> QED BY <1>2, <1>6

LEMMA SaysLast ==
    ASSUME NEW S, NEW q \in Seq(S), NEW b \in Seq(S) PROVE Says(q \o b, Len(q), b)
<1>1. PICK t : t = q \o b
  OBVIOUS
<1>2. Len(t) = Len(q) + Len(b) /\ \A j \in 1..Len(b) : t[Len(q) + j] = b[j]
  BY <1>1, Sides
<1>3. Len(q) \in Nat /\ Len(q) + Len(b) <= Len(t)
  BY <1>2
<1>4. Says(t, Len(q), b)
  BY <1>2, <1>3 DEF Says
<1> QED BY <1>1, <1>4

LEMMA SaysItself == ASSUME NEW S, NEW b \in Seq(S) PROVE Says(b, 0, b)
<1>1. Len(b) \in Nat /\ 0 + Len(b) <= Len(b) /\ \A k \in 1..Len(b) : 0 + k = k
  OBVIOUS
<1> QED BY <1>1 DEF Says

LEMMA SaidIs ==
    ASSUME NEW S, NEW q \in Seq(S), NEW from, NEW b \in Seq(S), Says(q, from, b)
    PROVE  SubSeq(q, from + 1, from + Len(b)) = b
<1>1. from \in Nat /\ from + Len(b) <= Len(q)
  BY DEF Says
<1>2. PICK lo \in Int, hi \in Int : lo = from + 1 /\ hi = from + Len(b)
  BY <1>1
<1>3. \A k \in lo..hi : q[k] \in S
  <2>1. \A k \in lo..hi : k \in 1..Len(q)
    BY <1>2, <1>1
  <2> QED BY <2>1
<1>4. PICK u : u = SubSeq(q, lo, hi)
  OBVIOUS
<1>5. /\ u \in Seq(S)
      /\ Len(u) = IF lo <= hi THEN hi - lo + 1 ELSE 0
      /\ \A k \in 1..(hi - lo + 1) : u[k] = q[lo + k - 1]
  BY <1>3, <1>4, SubSeqProperties
<1>6. Len(u) = Len(b) /\ hi - lo + 1 = Len(b)
  BY <1>2, <1>5, <1>1
<1>7. ASSUME NEW k \in 1..Len(b) PROVE u[k] = b[k]
  <2>1. lo + k - 1 = from + k /\ k \in 1..(hi - lo + 1)
    BY <1>2, <1>6, <1>1
  <2>2. u[k] = q[from + k]
    BY <1>5, <2>1
  <2> QED BY <2>2 DEF Says
<1>8. u = [k \in 1..Len(b) |-> u[k]]
  <2>1. u = [k \in 1..Len(u) |-> u[k]]
    BY <1>5
  <2> QED BY <1>6, <2>1
<1>9. b = [k \in 1..Len(b) |-> b[k]]
  OBVIOUS
<1>10. u = b
  BY <1>7, <1>8, <1>9
<1> QED BY <1>2, <1>4, <1>10

(* A transaction as its text lays it out: eleven fields, the numbers in so   *)
(* many letters.                                                             *)
Transactions(S) ==
    [ signatureMessageFragment : S, address : S, value : Int, tag : S, timestamp : Int,
      currentIndex : Int, lastIndex : Int, bundle : S, trunkTransaction : S,
      branchTransaction : S, nonce : S ]

AllFit(tx) ==
    /\ Fits(tx.value, WideTrits)
    /\ Fits(tx.timestamp, FieldTrits)
    /\ Fits(tx.currentIndex, FieldTrits)
    /\ Fits(tx.lastIndex, FieldTrits)

Layout(q, tx, c, f) ==
    /\ Says(q, 0, <<tx.signatureMessageFragment, tx.address>>)
    /\ Says(q, 2, Field(tx.value, 3 * c))
    /\ Says(q, 2 + c, <<tx.tag>>)
    /\ Says(q, 3 + c, Field(tx.timestamp, 3 * f))
    /\ Says(q, 3 + c + f, Field(tx.currentIndex, 3 * f))
    /\ Says(q, 3 + c + 2 * f, Field(tx.lastIndex, 3 * f))
    /\ Says(q, 3 + c + 3 * f, <<tx.bundle, tx.trunkTransaction, tx.branchTransaction, tx.nonce>>)

LEMMA Widths ==
    \E a \in 1..27, c \in 1..27, f \in 1..27 :
        ValueTrits = 3 * a /\ WideTrits = 3 * c /\ FieldTrits = 3 * f /\ a <= c
  BY TxObjectAssumption

PiecesSay(U, q, b1, b2, b3, b4, b5, b6, b7) ==
    /\ q \in Seq(U)
    /\ Says(q, 0, b1)
    /\ Says(q, Len(b1), b2)
    /\ Says(q, Len(b1) + Len(b2), b3)
    /\ Says(q, Len(b1) + Len(b2) + Len(b3), b4)
    /\ Says(q, Len(b1) + Len(b2) + Len(b3) + Len(b4), b5)
    /\ Says(q, Len(b1) + Len(b2) + Len(b3) + Len(b4) + Len(b5), b6)
    /\ Says(q, Len(b1) + Len(b2) + Len(b3) + Len(b4) + Len(b5) + Len(b6), b7)

LEMMA Pieces ==
    ASSUME NEW U, NEW b1 \in Seq(U), NEW b2 \in Seq(U), NEW b3 \in Seq(U), NEW b4 \in Seq(U),
           NEW b5 \in Seq(U), NEW b6 \in Seq(U), NEW b7 \in Seq(U)
    PROVE  PiecesSay(U, b1 \o b2 \o b3 \o b4 \o b5 \o b6 \o b7, b1, b2, b3, b4, b5, b6, b7)
<1>1. Says(b1, 0, b1)
  BY SaysItself
<1>2. PICK q2 \in Seq(U) : q2 = b1 \o b2 /\ Len(q2) = Len(b1) + Len(b2)
  BY Sides
<1>3. /\ Says(q2, 0, b1)
      /\ Says(q2, Len(b1), b2)
      /\ Len(q2) = Len(b1) + Len(b2)
  BY <1>1, <1>2, SaysMore, SaysLast
<1>4. PICK q3 \in Seq(U) : q3 = q2 \o b3 /\ Len(q3) = Len(q2) + Len(b3)
  BY Sides
<1>5. /\ Says(q3, 0, b1)
      /\ Says(q3, Len(b1), b2)
      /\ Says(q3, Len(b1) + Len(b2), b3)
      /\ Len(q3) = Len(b1) + Len(b2) + Len(b3)
  BY <1>3, <1>4, SaysMore, SaysLast
<1>6. PICK q4 \in Seq(U) : q4 = q3 \o b4 /\ Len(q4) = Len(q3) + Len(b4)
  BY Sides
<1>7. /\ Says(q4, 0, b1)
      /\ Says(q4, Len(b1), b2)
      /\ Says(q4, Len(b1) + Len(b2), b3)
      /\ Says(q4, Len(b1) + Len(b2) + Len(b3), b4)
      /\ Len(q4) = Len(b1) + Len(b2) + Len(b3) + Len(b4)
  BY <1>5, <1>6, SaysMore, SaysLast
<1>8. PICK q5 \in Seq(U) : q5 = q4 \o b5 /\ Len(q5) = Len(q4) + Len(b5)
  BY Sides
<1>9. /\ Says(q5, 0, b1)
      /\ Says(q5, Len(b1), b2)
      /\ Says(q5, Len(b1) + Len(b2), b3)
      /\ Says(q5, Len(b1) + Len(b2) + Len(b3), b4)
      /\ Says(q5, Len(b1) + Len(b2) + Len(b3) + Len(b4), b5)
      /\ Len(q5) = Len(b1) + Len(b2) + Len(b3) + Len(b4) + Len(b5)
  BY <1>7, <1>8, SaysMore, SaysLast
<1>10. PICK q6 \in Seq(U) : q6 = q5 \o b6 /\ Len(q6) = Len(q5) + Len(b6)
  BY Sides
<1>11. /\ Says(q6, 0, b1)
      /\ Says(q6, Len(b1), b2)
      /\ Says(q6, Len(b1) + Len(b2), b3)
      /\ Says(q6, Len(b1) + Len(b2) + Len(b3), b4)
      /\ Says(q6, Len(b1) + Len(b2) + Len(b3) + Len(b4), b5)
      /\ Says(q6, Len(b1) + Len(b2) + Len(b3) + Len(b4) + Len(b5), b6)
      /\ Len(q6) = Len(b1) + Len(b2) + Len(b3) + Len(b4) + Len(b5) + Len(b6)
  BY <1>9, <1>10, SaysMore, SaysLast
<1>12. PICK q7 \in Seq(U) : q7 = q6 \o b7 /\ Len(q7) = Len(q6) + Len(b7)
  BY Sides
<1>13. /\ Says(q7, 0, b1)
      /\ Says(q7, Len(b1), b2)
      /\ Says(q7, Len(b1) + Len(b2), b3)
      /\ Says(q7, Len(b1) + Len(b2) + Len(b3), b4)
      /\ Says(q7, Len(b1) + Len(b2) + Len(b3) + Len(b4), b5)
      /\ Says(q7, Len(b1) + Len(b2) + Len(b3) + Len(b4) + Len(b5), b6)
      /\ Says(q7, Len(b1) + Len(b2) + Len(b3) + Len(b4) + Len(b5) + Len(b6), b7)
      /\ Len(q7) = Len(b1) + Len(b2) + Len(b3) + Len(b4) + Len(b5) + Len(b6) + Len(b7)
  BY <1>11, <1>12, SaysMore, SaysLast
<1>14. q7 = b1 \o b2 \o b3 \o b4 \o b5 \o b6 \o b7
  BY <1>2, <1>4, <1>6, <1>8, <1>10, <1>12
<1>15. PiecesSay(U, q7, b1, b2, b3, b4, b5, b6, b7)
  BY <1>13 DEF PiecesSay
<1> QED BY <1>14, <1>15

LEMMA OneLetter == ASSUME NEW U, NEW x \in U PROVE <<x>> \in Seq(U) /\ Len(<<x>>) = 1
  OBVIOUS

LEMMA TwoLetters == ASSUME NEW U, NEW x \in U, NEW y \in U PROVE <<x, y>> \in Seq(U) /\ Len(<<x, y>>) = 2
  OBVIOUS

LEMMA FourLetters ==
    ASSUME NEW U, NEW x \in U, NEW y \in U, NEW z \in U, NEW w \in U
    PROVE  <<x, y, z, w>> \in Seq(U) /\ Len(<<x, y, z, w>>) = 4
  OBVIOUS

LEMMA LaidOut ==
    ASSUME NEW S, NEW tx \in Transactions(S), AllFit(tx),
           NEW c \in 1..27, NEW f \in 1..27, WideTrits = 3 * c, FieldTrits = 3 * f
    PROVE  TransactionTrytes(tx) \in Seq(S \cup Letter) /\ Layout(TransactionTrytes(tx), tx, c, f)
<1>1. PICK U : U = S \cup Letter
  OBVIOUS
<1>2. /\ tx.signatureMessageFragment \in U /\ tx.address \in U /\ tx.tag \in U /\ tx.bundle \in U
      /\ tx.trunkTransaction \in U /\ tx.branchTransaction \in U /\ tx.nonce \in U
  BY <1>1 DEF Transactions
<1>3. tx.value \in Int /\ tx.timestamp \in Int /\ tx.currentIndex \in Int /\ tx.lastIndex \in Int
  BY DEF Transactions
<1>4. PICK b1 \in Seq(U) : b1 = <<tx.signatureMessageFragment, tx.address>> /\ Len(b1) = 2
  BY <1>2, TwoLetters
<1>5. PICK b3 \in Seq(U) : b3 = <<tx.tag>> /\ Len(b3) = 1
  BY <1>2, OneLetter
<1>6. PICK b7 \in Seq(U) : b7 = <<tx.bundle, tx.trunkTransaction, tx.branchTransaction, tx.nonce>>
  BY <1>2, FourLetters
<1>7. \A t \in Seq(Letter) : t \in Seq(U)
  BY <1>1
<1>8. c \in Nat /\ f \in Nat
  OBVIOUS
<1>9. PICK b2 \in Seq(U) : b2 = Field(tx.value, 3 * c) /\ Len(b2) = c
  BY <1>3, <1>7, <1>8, FieldTells DEF AllFit
<1>10. PICK b4 \in Seq(U) : b4 = Field(tx.timestamp, 3 * f) /\ Len(b4) = f
  BY <1>3, <1>7, <1>8, FieldTells DEF AllFit
<1>11. PICK b5 \in Seq(U) : b5 = Field(tx.currentIndex, 3 * f) /\ Len(b5) = f
  BY <1>3, <1>7, <1>8, FieldTells DEF AllFit
<1>12. PICK b6 \in Seq(U) : b6 = Field(tx.lastIndex, 3 * f) /\ Len(b6) = f
  BY <1>3, <1>7, <1>8, FieldTells DEF AllFit
<1>13. PICK q : q = b1 \o b2 \o b3 \o b4 \o b5 \o b6 \o b7
  OBVIOUS
<1>14. TransactionTrytes(tx) = q
  BY <1>4, <1>5, <1>6, <1>9, <1>10, <1>11, <1>12, <1>13 DEF TransactionTrytes
<1>15. PiecesSay(U, q, b1, b2, b3, b4, b5, b6, b7)
  BY <1>13, Pieces
<1>16. /\ q \in Seq(U)
       /\ Says(q, 0, b1)
       /\ Says(q, Len(b1), b2)
       /\ Says(q, Len(b1) + Len(b2), b3)
       /\ Says(q, Len(b1) + Len(b2) + Len(b3), b4)
       /\ Says(q, Len(b1) + Len(b2) + Len(b3) + Len(b4), b5)
       /\ Says(q, Len(b1) + Len(b2) + Len(b3) + Len(b4) + Len(b5), b6)
       /\ Says(q, Len(b1) + Len(b2) + Len(b3) + Len(b4) + Len(b5) + Len(b6), b7)
  BY <1>15 DEF PiecesSay
<1>17. /\ Len(b1) = 2
       /\ Len(b1) + Len(b2) = 2 + c
       /\ Len(b1) + Len(b2) + Len(b3) = 3 + c
       /\ Len(b1) + Len(b2) + Len(b3) + Len(b4) = 3 + c + f
       /\ Len(b1) + Len(b2) + Len(b3) + Len(b4) + Len(b5) = 3 + c + 2 * f
       /\ Len(b1) + Len(b2) + Len(b3) + Len(b4) + Len(b5) + Len(b6) = 3 + c + 3 * f
  BY <1>4, <1>5, <1>9, <1>10, <1>11, <1>12
<1>18. Layout(q, tx, c, f)
  BY <1>4, <1>5, <1>6, <1>9, <1>10, <1>11, <1>12, <1>16, <1>17 DEF Layout
<1> QED BY <1>1, <1>14, <1>16, <1>18

LEMMA SaidAt ==
    ASSUME NEW q, NEW from, NEW b, Says(q, from, b), NEW k \in 1..Len(b) PROVE q[from + k] = b[k]
  BY DEF Says

(* A number is read from its field.                                          *)
LEMMA ReadIs ==
    ASSUME NEW U, NEW q \in Seq(U), NEW from \in Nat, NEW n \in Int, NEW c \in Nat, Fits(n, 3 * c),
           Field(n, 3 * c) \in Seq(U), Says(q, from, Field(n, 3 * c))
    PROVE  Read(q, from + 1, 3 * c) = n
<1>1. Len(Field(n, 3 * c)) = c
  BY FieldTells
<1>2. SubSeq(q, from + 1, from + c) = Field(n, 3 * c)
  BY <1>1, SaidIs
<1>3. (from + 1) + (3 * c) \div 3 - 1 = from + c
  OBVIOUS
<1>4. Value(TritsOfTrytes(Field(n, 3 * c))) = n
  BY FieldsComeBack
<1> QED BY <1>2, <1>3, <1>4 DEF Read

LEMMA NumbersAreRead ==
    ASSUME NEW S, NEW tx \in Transactions(S), AllFit(tx),
           NEW c \in 1..27, NEW f \in 1..27, WideTrits = 3 * c, FieldTrits = 3 * f
    PROVE  /\ AfterValue = 3 + c
           /\ Read(TransactionTrytes(tx), AfterField(0), FieldTrits) = tx.timestamp
           /\ Read(TransactionTrytes(tx), AfterField(1), FieldTrits) = tx.currentIndex
           /\ Read(TransactionTrytes(tx), AfterField(2), FieldTrits) = tx.lastIndex
           /\ AfterField(3) = 4 + c + 3 * f
<1>1. PICK U : U = S \cup Letter
  OBVIOUS
<1>2. PICK q \in Seq(U) : q = TransactionTrytes(tx) /\ Layout(q, tx, c, f)
  BY <1>1, LaidOut
<1>3. (3 * c) \div 3 = c /\ (3 * f) \div 3 = f
  OBVIOUS
<1>4. AfterValue = 3 + c
  BY <1>3 DEF AfterValue
<1>5. /\ AfterField(0) = (3 + c) + 1
      /\ AfterField(1) = (3 + c + f) + 1
      /\ AfterField(2) = (3 + c + 2 * f) + 1
      /\ AfterField(3) = 4 + c + 3 * f
  BY <1>3, <1>4 DEF AfterField
<1>6. tx.timestamp \in Int /\ tx.currentIndex \in Int /\ tx.lastIndex \in Int
  BY DEF Transactions
<1>7. \A t \in Seq(Letter) : t \in Seq(U)
  BY <1>1
<1>8. f \in Nat /\ 3 + c \in Nat /\ 3 + c + f \in Nat /\ 3 + c + 2 * f \in Nat
  OBVIOUS
<1>9. ASSUME NEW n \in Int, Fits(n, 3 * f), NEW from \in Nat, Says(q, from, Field(n, 3 * f))
      PROVE  Read(q, from + 1, 3 * f) = n
  <2>1. Field(n, 3 * f) \in Seq(U)
    BY <1>7, <1>8, <1>9, FieldTells
  <2> QED BY <1>8, <1>9, <2>1, ReadIs
<1>10. Fits(tx.timestamp, 3 * f) /\ Fits(tx.currentIndex, 3 * f) /\ Fits(tx.lastIndex, 3 * f)
  BY DEF AllFit
<1>11. Read(q, (3 + c) + 1, 3 * f) = tx.timestamp
  BY <1>2, <1>6, <1>8, <1>9, <1>10 DEF Layout
<1>12. Read(q, (3 + c + f) + 1, 3 * f) = tx.currentIndex
  BY <1>2, <1>6, <1>8, <1>9, <1>10 DEF Layout
<1>13. Read(q, (3 + c + 2 * f) + 1, 3 * f) = tx.lastIndex
  BY <1>2, <1>6, <1>8, <1>9, <1>10 DEF Layout
<1> QED BY <1>2, <1>4, <1>5, <1>11, <1>12, <1>13

OpaqueAre(q, tx, c, f) ==
    /\ q[1] = tx.signatureMessageFragment /\ q[2] = tx.address /\ q[3 + c] = tx.tag
    /\ q[4 + c + 3 * f] = tx.bundle
    /\ q[(4 + c + 3 * f) + 1] = tx.trunkTransaction
    /\ q[(4 + c + 3 * f) + 2] = tx.branchTransaction
    /\ q[(4 + c + 3 * f) + 3] = tx.nonce

LEMMA OpaqueAreRead ==
    ASSUME NEW S, NEW tx \in Transactions(S), AllFit(tx),
           NEW c \in 1..27, NEW f \in 1..27, WideTrits = 3 * c, FieldTrits = 3 * f,
           NEW q, q = TransactionTrytes(tx)
    PROVE  OpaqueAre(q, tx, c, f)
<1>1. Layout(q, tx, c, f)
  BY LaidOut
<1>2. PICK b1 : b1 = <<tx.signatureMessageFragment, tx.address>>
  OBVIOUS
<1>3. PICK b3 : b3 = <<tx.tag>>
  OBVIOUS
<1>4. PICK b7 : b7 = <<tx.bundle, tx.trunkTransaction, tx.branchTransaction, tx.nonce>>
  OBVIOUS
<1>5. Says(q, 0, b1) /\ Says(q, 2 + c, b3) /\ Says(q, 3 + c + 3 * f, b7)
  BY <1>1, <1>2, <1>3, <1>4 DEF Layout
<1>6. 1 \in 1..Len(b1) /\ 2 \in 1..Len(b1) /\ 1 \in 1..Len(b3)
      /\ 1 \in 1..Len(b7) /\ 2 \in 1..Len(b7) /\ 3 \in 1..Len(b7) /\ 4 \in 1..Len(b7)
  BY <1>2, <1>3, <1>4
<1>7. q[0 + 1] = b1[1] /\ q[0 + 2] = b1[2]
  BY <1>5, <1>6, SaidAt
<1>8. q[(2 + c) + 1] = b3[1]
  BY <1>5, <1>6, SaidAt
<1>9. \A k \in 1..Len(b7) : q[(3 + c + 3 * f) + k] = b7[k]
  BY <1>5, SaidAt
<1>10. /\ q[(3 + c + 3 * f) + 1] = b7[1] /\ q[(3 + c + 3 * f) + 2] = b7[2]
      /\ q[(3 + c + 3 * f) + 3] = b7[3] /\ q[(3 + c + 3 * f) + 4] = b7[4]
  BY <1>6, <1>9
<1>11. /\ 0 + 1 = 1 /\ 0 + 2 = 2 /\ (2 + c) + 1 = 3 + c
      /\ (3 + c + 3 * f) + 1 = 4 + c + 3 * f
      /\ (3 + c + 3 * f) + 2 = (4 + c + 3 * f) + 1
      /\ (3 + c + 3 * f) + 3 = (4 + c + 3 * f) + 2
      /\ (3 + c + 3 * f) + 4 = (4 + c + 3 * f) + 3
  OBVIOUS
<1>12. /\ b1[1] = tx.signatureMessageFragment /\ b1[2] = tx.address /\ b3[1] = tx.tag
      /\ b7[1] = tx.bundle /\ b7[2] = tx.trunkTransaction
      /\ b7[3] = tx.branchTransaction /\ b7[4] = tx.nonce
  BY <1>2, <1>3, <1>4
<1> QED BY <1>10, <1>11, <1>12, <1>7, <1>8 DEF OpaqueAre

LEMMA ValueIsRead ==
    ASSUME NEW S, NEW tx \in Transactions(S), AllFit(tx),
           NEW a \in 1..27, NEW c \in 1..27, NEW f \in 1..27, a <= c,
           ValueTrits = 3 * a, WideTrits = 3 * c, FieldTrits = 3 * f
    PROVE  /\ WellFormed(TransactionTrytes(tx)) <=> Fits(tx.value, ValueTrits)
           /\ Fits(tx.value, ValueTrits) => Read(TransactionTrytes(tx), 3, ValueTrits) = tx.value
<1>1. PICK U : U = S \cup Letter
  OBVIOUS
<1>2. PICK q \in Seq(U) : q = TransactionTrytes(tx) /\ Layout(q, tx, c, f)
  BY <1>1, LaidOut
<1>3. PICK n \in Int : n = tx.value
  BY DEF Transactions
<1>4. Fits(n, 3 * c) /\ a \in Nat /\ c \in Nat
  BY <1>3 DEF AllFit
<1>5. Field(n, 3 * c) \in Seq(Letter) /\ Len(Field(n, 3 * c)) = c
  BY <1>4, FieldTells
<1>6. Says(q, 2, Field(n, 3 * c))
  BY <1>2, <1>3 DEF Layout
<1>7. \A k \in 1..c : q[2 + k] = Field(n, 3 * c)[k]
  BY <1>5, <1>6, SaidAt
<1>8. WellFormed(q) <=> \A k \in (a + 1)..c : Field(n, 3 * c)[k] = 0
  <2>1. (3 * c) \div 3 = c /\ (3 * a) \div 3 = a
    OBVIOUS
  <2>2. WellFormed(q) <=> \A m \in (3 + a)..(3 + c - 1) : q[m] = 0
    BY <2>1 DEF WellFormed, AfterValue
  <2>3. ASSUME NEW m \in (3 + a)..(3 + c - 1) PROVE m - 2 \in (a + 1)..c /\ q[m] = Field(n, 3 * c)[m - 2]
    <3>1. m - 2 \in (a + 1)..c /\ m - 2 \in 1..c /\ 2 + (m - 2) = m
      OBVIOUS
    <3> QED BY <1>7, <3>1
  <2>4. ASSUME NEW k \in (a + 1)..c PROVE 2 + k \in (3 + a)..(3 + c - 1) /\ q[2 + k] = Field(n, 3 * c)[k]
    <3>1. 2 + k \in (3 + a)..(3 + c - 1) /\ k \in 1..c
      OBVIOUS
    <3> QED BY <1>7, <3>1
  <2> QED BY <2>2, <2>3, <2>4
<1>9. Fits(n, 3 * a) => WellFormed(q)
  BY <1>4, <1>8, FieldStarts
<1>10. ~ Fits(n, 3 * a) => ~ WellFormed(q)
  BY <1>4, <1>8, FieldSticksOut
<1>11. ASSUME Fits(n, 3 * a) PROVE Read(q, 3, 3 * a) = n
  <2>1. PICK b \in Seq(U) : b = Field(n, 3 * a) /\ Len(b) = a
    <3>1. Field(n, 3 * a) \in Seq(Letter) /\ Len(Field(n, 3 * a)) = a
      BY <1>4, <1>11, FieldTells
    <3>2. Field(n, 3 * a) \in Seq(U)
      BY <1>1, <3>1
    <3> QED BY <3>1, <3>2
  <2>2. ASSUME NEW k \in 1..Len(b) PROVE q[2 + k] = b[k]
    <3>1. k \in 1..c /\ k \in 1..a
      BY <2>1
    <3>2. Field(n, 3 * c)[k] = Field(n, 3 * a)[k]
      BY <1>4, <1>11, <3>1, FieldStarts
    <3> QED BY <1>7, <2>1, <3>1, <3>2
  <2>3. 2 + Len(b) <= Len(q) /\ 2 \in Nat
    <3>1. 2 + c <= Len(q)
      BY <1>5, <1>6 DEF Says
    <3> QED BY <2>1, <3>1
  <2>4. Says(q, 2, b)
    BY <2>2, <2>3 DEF Says
  <2>5. Read(q, 2 + 1, 3 * a) = n
    BY <1>4, <1>11, <2>1, <2>3, <2>4, ReadIs
  <2>6. 2 + 1 = 3
    OBVIOUS
  <2> QED BY <2>5, <2>6
<1> QED BY <1>2, <1>3, <1>9, <1>10, <1>11

(* A transaction whose numbers fit their fields is read back from its text   *)
(* as it was (transactionTrytes and transactionObject of utils/utils), but   *)
(* for a value that takes more trits than are read, which is refused.        *)
THEOREM TransactionComesBack ==
    ASSUME NEW S, NEW tx \in Transactions(S), AllFit(tx)
    PROVE  TransactionObject(TransactionTrytes(tx)) =
               IF Fits(tx.value, ValueTrits) THEN tx ELSE NoObject
<1>1. PICK a \in 1..27, c \in 1..27, f \in 1..27 :
          ValueTrits = 3 * a /\ WideTrits = 3 * c /\ FieldTrits = 3 * f /\ a <= c
  BY Widths
<1>2. PICK q : q = TransactionTrytes(tx)
  OBVIOUS
<1>3. /\ WellFormed(q) <=> Fits(tx.value, ValueTrits)
      /\ Fits(tx.value, ValueTrits) => Read(q, 3, ValueTrits) = tx.value
  BY <1>1, <1>2, ValueIsRead
<1>4. CASE ~ Fits(tx.value, ValueTrits)
  BY <1>2, <1>3, <1>4 DEF TransactionObject
<1>5. CASE Fits(tx.value, ValueTrits)
  <2>1. /\ AfterValue = 3 + c
        /\ Read(q, AfterField(0), FieldTrits) = tx.timestamp
        /\ Read(q, AfterField(1), FieldTrits) = tx.currentIndex
        /\ Read(q, AfterField(2), FieldTrits) = tx.lastIndex
        /\ AfterField(3) = 4 + c + 3 * f
    BY <1>1, <1>2, NumbersAreRead
  <2>2. /\ q[1] = tx.signatureMessageFragment /\ q[2] = tx.address /\ q[3 + c] = tx.tag
        /\ q[4 + c + 3 * f] = tx.bundle
        /\ q[(4 + c + 3 * f) + 1] = tx.trunkTransaction
        /\ q[(4 + c + 3 * f) + 2] = tx.branchTransaction
        /\ q[(4 + c + 3 * f) + 3] = tx.nonce
    <3>1. OpaqueAre(q, tx, c, f)
      BY <1>1, <1>2, OpaqueAreRead
    <3> QED BY <3>1 DEF OpaqueAre
  <2>3. TransactionObject(q) =
            [ signatureMessageFragment |-> tx.signatureMessageFragment, address |-> tx.address,
              value |-> tx.value, tag |-> tx.tag, timestamp |-> tx.timestamp,
              currentIndex |-> tx.currentIndex, lastIndex |-> tx.lastIndex, bundle |-> tx.bundle,
              trunkTransaction |-> tx.trunkTransaction, branchTransaction |-> tx.branchTransaction,
              nonce |-> tx.nonce ]
    BY <1>3, <1>5, <2>1, <2>2 DEF TransactionObject
  <2>4. tx = [ signatureMessageFragment |-> tx.signatureMessageFragment, address |-> tx.address,
               value |-> tx.value, tag |-> tx.tag, timestamp |-> tx.timestamp,
               currentIndex |-> tx.currentIndex, lastIndex |-> tx.lastIndex, bundle |-> tx.bundle,
               trunkTransaction |-> tx.trunkTransaction, branchTransaction |-> tx.branchTransaction,
               nonce |-> tx.nonce ]
    BY DEF Transactions
  <2> QED BY <1>2, <1>5, <2>3, <2>4
<1> QED BY <1>4, <1>5
=============================================================================
