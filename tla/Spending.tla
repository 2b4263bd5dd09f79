------------------------------ MODULE Spending ------------------------------
(* Which of an account's balances a payment consumes, in closed form.        *)
(*                                                                           *)
(* aidos/transfer.go walks Account.Balances in order and takes every address *)
(* with a positive Value until the payment is covered.  The loop itself is   *)
(* the state machine of Transfer.tla; the operators below say in one go what *)
(* it leaves behind, and Transfer's property LoopMatchesClosedForm checks    *)
(* that they do.  Wallet.tla uses them to make a payment one action.         *)
EXTENDS Integers, Sequences, FiniteSetsExt

(* A value counts towards a payment only if it is positive: values can be    *)
(* negative, and those are skipped rather than subtracted.                   *)
Spendable(v) == IF v > 0 THEN v ELSE 0

(* The spendable value of the first k balances.                              *)
SumFirst(vals, k) == SumFunctionOnSet([j \in DOMAIN vals |-> Spendable(vals[j])], 1..k)

(* Account.totalValueWithChange.                                             *)
TotalValue(vals) == SumFirst(vals, Len(vals))

(* The balance at which the walk stops: the first that covers the payment.   *)
LastInput(vals, total) == Min({k \in 1..Len(vals) : SumFirst(vals, k) >= total})

(* The balances consumed, whole, as inputs of the bundle.                    *)
Inputs(vals, total) == {j \in 1..LastInput(vals, total) : vals[j] > 0}

(* What is left of them and goes to a new address of the same account.       *)
Remainder(vals, total) == SumFirst(vals, LastInput(vals, total)) - total
=============================================================================
