------------------------------ MODULE MCWallet ------------------------------
EXTENDS Wallet

(* How many addresses each account may have.                                 *)
One == <<1>>
Two == <<2>>
Three == <<3>>
TwoAndOne == <<2, 1>>
=============================================================================
