------------------------------ MODULE Transfer ------------------------------
(* PrepareTransfers (aidos/transfer.go) as the loop it is: it refuses a      *)
(* payment larger than the account's total, then walks the balances, turning *)
(* each positive one into an input, until the payment is covered; a surplus  *)
(* becomes an output to a new address of the account.                        *)
(*                                                                           *)
(* One step of the machine is one iteration of totalValueWithChange's loop   *)
(* or of addRemainder's.  Signatures, tags and timestamps are left out: of   *)
(* the bundle only `net`, the sum of its entries' values, is kept.           *)
EXTENDS Spending

CONSTANTS MaxLen,     \* bound: addresses of the account
          Values,     \* what an address may hold when the payment starts
          Changes,    \* change an address may be waiting for by then
          Totals      \* values of the payment (the sum of its outputs)

ASSUME TransferAssumption ==
    /\ MaxLen \in Nat
    /\ Values \subseteq Int /\ Changes \subseteq Int /\ Totals \subseteq Int

Balance(V, C) == [value : V, change : C]

VARIABLES before,     \* Account.Balances when Send was called
          balances,   \* Account.Balances now
          asked,      \* what the payment asks for
          total,      \* what is still to be covered
          net,        \* the sum of the bundle's entries so far
          i,          \* the position the running loop looks at
          sum,        \* totalValueWithChange's t, after each position
          pc          \* "total", "inputs", or an outcome

vars == <<before, balances, asked, total, net, i, sum, pc>>

(* addOutputs has put the payees' entries in the bundle.                     *)
Init ==
    /\ before \in UNION {[1..n -> Balance(Values, Changes)] : n \in 0..MaxLen}
    /\ balances = before
    /\ asked \in Totals
    /\ total = asked
    /\ net = asked
    /\ i = 1
    /\ sum = [j \in 0..Len(before) |-> 0]
    /\ pc = "total"

(* A payment of nothing (or less) needs no input and is not signed.          *)
NoInputNeeded ==
    /\ pc = "total"
    /\ total <= 0
    /\ pc' = "unsigned"
    /\ UNCHANGED <<before, balances, asked, total, net, i, sum>>

(* What an address adds to the account's total; and the variant that counts  *)
(* the change it waits for, which the source has commented out.              *)
CountedWithChange(bal) == Spendable(bal.value) + bal.change
Counted(bal) == Spendable(bal.value)

(* One iteration of totalValueWithChange.                                    *)
AddUp ==
    /\ pc = "total"
    /\ total > 0
    /\ i <= Len(balances)
    /\ sum' = [sum EXCEPT ![i] = sum[i-1] + Counted(balances[i])]
    /\ i' = i + 1
    /\ UNCHANGED <<before, balances, asked, total, net, pc>>

(* "Not enough balance", or on to addRemainder.                              *)
CompareTotal ==
    /\ pc = "total"
    /\ total > 0
    /\ i = Len(balances) + 1
    /\ IF total > sum[Len(balances)] THEN pc' = "refused" /\ UNCHANGED i
                                     ELSE pc' = "inputs" /\ i' = 1
    /\ UNCHANGED <<before, balances, asked, total, net, sum>>

(* addRemainder's test for an address to pass over; a slip would be to pass  *)
(* over the empty ones only.                                                 *)
IsZero(value) == value = 0
NothingToSpend(value) == value <= 0

(* addRemainder passes over an address, or has passed the last one: then     *)
(* PrepareTransfers fails and Send puts the balances it saved back.          *)
PassOver ==
    /\ pc = "inputs"
    /\ i > Len(balances) \/ NothingToSpend(balances[i].value)
    /\ IF i > Len(balances)
       THEN pc' = "insufficient" /\ balances' = before /\ UNCHANGED i
       ELSE i' = i + 1 /\ UNCHANGED <<pc, balances>>
    /\ UNCHANGED <<before, asked, total, net, sum>>

(* The surplus of the input at position i over what is still to be covered;  *)
(* a slip would be to compare it with the whole payment.                     *)
SurplusOverPayment == balances[i].value - asked
Surplus == balances[i].value - total

(* addRemainder makes the whole value of balances[i] an input: a surplus     *)
(* opens a new address and ends the walk, and so does an exact match.        *)
TakeInput ==
    LET value   == balances[i].value
        drained == [balances EXCEPT ![i].value = 0]
    IN  /\ pc = "inputs"
        /\ i <= Len(balances)
        /\ ~NothingToSpend(value)
        /\ i' = i + 1
        /\ IF Surplus > 0
           THEN /\ balances' = Append(drained, [value |-> 0, change |-> Surplus])
                /\ net' = net - value + Surplus
                /\ pc' = "signed"
                /\ UNCHANGED total
           ELSE /\ balances' = drained
                /\ net' = net - value
                /\ total' = total - value
                /\ pc' = IF total' = 0 THEN "signed" ELSE "inputs"
        /\ UNCHANGED <<before, asked, sum>>

Next == NoInputNeeded \/ AddUp \/ CompareTotal \/ PassOver \/ TakeInput

Spec == Init /\ [][Next]_vars

-----------------------------------------------------------------------------
Outcomes == {"unsigned", "refused", "signed", "insufficient"}

NewAddresses == Len(balances) - Len(before)
NewChange == IF NewAddresses = 0 THEN 0 ELSE balances[Len(balances)].change
ValuesOf(bals) == [j \in DOMAIN bals |-> bals[j].value]

TypeOK ==
    /\ before \in Seq(Balance(Int, Int))
    /\ balances \in Seq(Balance(Int, Int))
    /\ asked \in Int /\ total \in Int /\ net \in Int
    /\ i \in Nat \ {0}
    /\ sum \in [0..Len(before) -> Int]
    /\ pc \in {"total", "inputs"} \cup Outcomes

(* A signed bundle moves value and creates none: its entries (payees, inputs *)
(* and remainder) add up to zero, which is what a node accepts.              *)
SignedIsBalanced == pc = "signed" => net = 0

(* Having passed the comparison with totalValueWithChange, the walk always   *)
(* covers the payment: the "insufficient balance" error of PrepareTransfers  *)
(* is never returned, although the two loops count independently.            *)
NeverRunsOut == pc # "insufficient"

(* The walk spends an address only down to zero and changes no other: each   *)
(* of the account's balances is either as it was or was positive and is now  *)
(* zero, with the change it waits for kept; at most one address is added.    *)
OnlyDrains ==
    /\ NewAddresses \in {0, 1}
    /\ \A j \in DOMAIN before :
          \/ balances[j] = before[j]
          \/ before[j].value > 0 /\ balances[j] = [before[j] EXCEPT !.value = 0]

(* The closed form of Spending.tla, which Wallet.tla uses for a payment, is  *)
(* what the loop computes.                                                   *)
LoopMatchesClosedForm ==
    LET vals == ValuesOf(before)
    IN  pc = "signed" =>
          /\ {j \in DOMAIN before : balances[j] # before[j]} = Inputs(vals, asked)
          /\ NewAddresses = 1 <=> Remainder(vals, asked) > 0
          /\ NewChange = Remainder(vals, asked)
=============================================================================
