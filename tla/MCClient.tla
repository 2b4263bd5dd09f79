------------------------------ MODULE MCClient ------------------------------
(* Two calls of one user.  The mesh holds payments to the first addresses,   *)
(* or bundles that are not valid.                                            *)
EXTENDS Client, TLC

CONSTANTS c1, c2

Send(value, time) ==
    [do |-> "sendTransfer",
     transfers |-> <<[address |-> Payee, value |-> value, message |-> 0]>>,
     options |-> [inputs |-> "none", address |-> NoAddress, time |-> time]]

(* Calls of one request, with arguments of which at most one is refused.     *)
Args(names) == {[n \in names |-> n # bad] : bad \in names \cup {"none"}}
Call(name, names) == {[do |-> name, args |-> a] : a \in Args(names)}

(* findTransactions with a key it does not know, and with tags of which two  *)
(* are not trytes.                                                           *)
Malformed ==
    {[do |-> "findTransactions", args |-> <<[known |-> FALSE, tags |-> FALSE, bad |-> 0]>>],
     [do |-> "findTransactions", args |-> <<[known |-> TRUE, tags |-> TRUE, bad |-> 2]>>]}

ALongBatch == [do |-> "batchedSend", args |-> GetTrytes(<<>>), length |-> BatchSize + 1]
Hash3 == [do |-> "getTransactionsObjects", args |-> <<3>>]

MCRequests ==
    {[do |-> "sendCommand", args |-> x] : x \in Unchecked}
    \cup {[do |-> "interruptAttachingToMesh"],
          [do |-> "findTransactions", args |-> <<[known |-> TRUE, tags |-> TRUE, bad |-> 0],
                                                 [known |-> TRUE, tags |-> FALSE, bad |-> 0]>>],
          [do |-> "batchedSend", args |-> GetTrytes(<<>>), length |-> BatchSize],
          ALongBatch,
          [do |-> "findTransactionObjects", args |-> {0, 1}],
          Hash3}
    \cup Call("attachToMesh", {"trunk", "branch", "weight", "trytes"})
    \cup Call("getBalances", {"addresses"})
    \cup Call("getInclusionStates", {"transactions", "tips"})
    \cup Call("getTrytes", {"hashes"})
    \cup Call("broadcastTransactions", {"trytes"})
    \cup Call("storeTransactions", {"trytes"})
    \cup Malformed

(* Pairs of calls of many requests: what may disturb each other.             *)
BesidePayment ==
    { [do |-> "getNewAddress", index |-> 0, total |-> 0, returnAll |-> FALSE],
      [do |-> "getInputs", start |-> 0, end |-> 0, threshold |-> 2],
      [do |-> "getAccountData", start |-> 0, end |-> 0],
      Send(2, 1) }

BesideReplay ==
    { [do |-> "getTransfers", start |-> 0, end |-> 0, inclusion |-> TRUE],
      [do |-> "broadcastBundle", tail |-> 4],
      Send(2, 1) }

(* Calls made alone.                                                         *)
Alone == MCRequests \cup
    { [do |-> "getNewAddress", index |-> 1, total |-> 2, returnAll |-> FALSE],
      [do |-> "getInputs", start |-> 2, end |-> 1, threshold |-> 0],
      [do |-> "getInputs", start |-> 0, end |-> 0, threshold |-> 0],
      [do |-> "getInputs", start |-> 0, end |-> 2, threshold |-> 0],
      [do |-> "getTransfers", start |-> 0, end |-> 0, inclusion |-> FALSE],
      [do |-> "getTransfers", start |-> 3, end |-> 0, inclusion |-> TRUE],
      [do |-> "getTransfers", start |-> 0, end |-> 2, inclusion |-> TRUE],
      [do |-> "getAccountData", start |-> 0, end |-> 6] }
    \cup
    { [do |-> "prepareTransfers",
       transfers |-> <<[address |-> a, value |-> v, message |-> 3]>>,
       options |-> [inputs |-> i, address |-> r, time |-> 3]] :
       a \in {Payee, 0}, v \in {0, 1}, i \in {"none", "empty", "some"}, r \in {NoAddress, 5} }

PayMyself ==
    [do |-> "sendTransfer", transfers |-> <<[address |-> 0, value |-> 1, message |-> 3]>>,
     options |-> [inputs |-> "none", address |-> NoAddress, time |-> 4]]

MCPlans ==
    { c1 :> x @@ c2 :> Send(1, 2) : x \in BesidePayment }
    \cup { c1 :> x @@ c2 :> [do |-> "replayBundle", tail |-> 4] : x \in BesideReplay }
    \cup { c1 :> x @@ c2 :> Nothing : x \in Alone \cup {PayMyself} }

NotSigned == Reverse(Finalize(AddEntry(AddEntry(<<>>, 1, 0, 1, 9), 2, Payee, -1, 9)))

(* A payment of which two transactions have each other's index.              *)
Disordered ==
    LET p == PaymentTo(0, 1, 9)
    IN  [p EXCEPT ![1].currentIndex = p[2].currentIndex, ![2].currentIndex = p[1].currentIndex]

MCHistories == { <<>>, <<PaymentTo(0, 1, 7), PaymentTo(1, 2, 8)>>, <<NotSigned>>, <<Disordered>> }

(* One call by itself: a transfer of no value and a search for inputs, for   *)
(* what a request that fails does to them; calls of which a callback throws; *)
(* calls that are refused in a loop.  Each kind can be given by itself.      *)
JustOne(jobs) == { c1 :> j @@ c2 :> Nothing : j \in jobs }
OnePayment == JustOne({Send(0, 2)})
OneGetInputs == JustOne({[do |-> "getInputs", start |-> 0, end |-> 0, threshold |-> 0]})
OneBatch == JustOne({ALongBatch})
OneUnknown == JustOne({Hash3})
OneMalformed == JustOne(Malformed \cup {[do |-> "replayBundle", tail |-> 4]})
OneOfThese == OnePayment \cup OneGetInputs \cup OneBatch \cup OneUnknown \cup OneMalformed
=============================================================================
