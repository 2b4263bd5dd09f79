---------------------------- MODULE ClientCalls ----------------------------
(* The library of aidos.js (api/api, api/apiCommands): what its calls do     *)
(* between two requests.                                                     *)
(*                                                                           *)
(* The library keeps no state of its own: a call is a chain of callbacks,    *)
(* each run by the answer to a request.  A chain is a sequence of frames,    *)
(* innermost first, each with the variables its function has captured.       *)
(* Resume runs a chain with the arguments (error, value) of the callback, up *)
(* to the next request, to the answer given to the user, or to an exception. *)
EXTENDS Bundle, AddressSearch, FiniteSets

CONSTANT MaxSpan        \* the most addresses a call may span (500)

Payee == -1             \* an address of somebody else; own ones are their index
NoAddress == -2
NoError == "none"
NoHash == 0

-----------------------------------------------------------------------------
(* apiCommands: the commands, as the node gets them.                         *)
AttachToMesh(trunk, branch, trytes) ==
    [command |-> "attachToMesh", trunk |-> trunk, branch |-> branch, trytes |-> trytes]
FindTransactions(key, values) ==
    ("command" :> "findTransactions") @@ (key :> values)
GetBalances(addresses) == [command |-> "getBalances", addresses |-> addresses]
GetInclusionStates(hashes, tip) ==
    [command |-> "getInclusionStates", hashes |-> hashes, tip |-> tip]
GetNodeInfo == [command |-> "getNodeInfo"]
GetTransactionsToApprove == [command |-> "getTransactionsToApprove"]
GetTrytes(hashes) == [command |-> "getTrytes", hashes |-> hashes]
BroadcastTransactions(trytes) == [command |-> "broadcastTransactions", trytes |-> trytes]
StoreTransactions(trytes) == [command |-> "storeTransactions", trytes |-> trytes]

-----------------------------------------------------------------------------
(* What running a chain leaves: requests sent, answers given to the user,    *)
(* and whether an exception ended it.  An exception is no answer: it leaves  *)
(* the function at the bottom of the stack, which is the user's call, or the *)
(* handler of the request that ran the callback (Client).                    *)
Ask(chain, request) ==
    [asks |-> <<[chain |-> chain, request |-> request]>>, answers |-> <<>>]
ToUser(error, result) ==
    [asks |-> <<>>, answers |-> <<IF error = NoError THEN [error |-> error, result |-> result]
                                                     ELSE [error |-> error]>>]
Silent == [asks |-> <<>>, answers |-> <<>>]
Exception == "thrown"
Throws == ToUser(Exception, <<>>)

Then(first, second) ==
    [asks |-> first.asks \o second.asks, answers |-> first.answers \o second.answers]

RECURSIVE Resume(_, _, _)

Answer(chain, error, value) ==
    IF chain = <<>> THEN ToUser(error, value) ELSE Resume(chain, error, value)

-----------------------------------------------------------------------------
(* getNewAddress.  With `total` it asks nobody.                              *)
ProbeNext(callers, search, returnAll) ==
    Ask(<<[fn |-> "getNewAddress", search |-> NextProbe(search), returnAll |-> returnAll]>>
            \o callers,
        FindTransactions("addresses", {NextProbe(search).end}))

GetNewAddress(callers, index, total, returnAll) ==
    IF total > 0 THEN Answer(callers, NoError, Total(index, total))
                 ELSE ProbeNext(callers, SearchFrom(index), returnAll)

NewAddressProbed(frame, callers, error, hashes) ==
    IF error # NoError THEN Answer(callers, error, <<>>)
    ELSE LET s == AfterAnswer(frame.search, hashes # <<>>)
         IN  IF Goes(s) THEN ProbeNext(callers, s, frame.returnAll)
                        ELSE Answer(callers, NoError, Found(s, frame.returnAll))

-----------------------------------------------------------------------------
(* getInputs.  No `end` is 0 here: null compares as 0.                       *)
BadSpan(start, end) == start > end \/ end > start + MaxSpan

AskInputBalances(callers, start, threshold, addresses) ==
    Ask(<<[fn |-> "getInputs", start |-> start, threshold |-> threshold,
           addresses |-> addresses]>> \o callers, GetBalances(addresses))

GetInputs(callers, start, end, threshold) ==
    IF BadSpan(start, end) THEN Answer(callers, "Invalid inputs provided", <<>>)
    ELSE IF end > 0 THEN AskInputBalances(callers, start, threshold, Total(start, end - start))
    ELSE GetNewAddress(<<[fn |-> "inputAddresses", start |-> start, threshold |-> threshold]>>
                           \o callers, start, 0, TRUE)

InputAddresses(frame, callers, error, addresses) ==
    IF error # NoError THEN Answer(callers, error, <<>>)
    ELSE AskInputBalances(callers, frame.start, frame.threshold, addresses)

(* The balances are taken in order until the threshold is reached.  An       *)
(* error is not looked at: there is no balance of the first address then.    *)
InputsFormatted(frame, callers, error, balances) ==
    LET Take(acc, k) ==
            IF acc.done \/ balances[k] <= 0 THEN acc
            ELSE LET sum == acc.totalBalance + balances[k]
                 IN  [inputs |-> Append(acc.inputs, [address |-> frame.addresses[k],
                                                     balance |-> balances[k],
                                                     keyIndex |-> frame.start + k - 1]),
                      totalBalance |-> sum,
                      done |-> frame.threshold > 0 /\ sum >= frame.threshold]
        all == FoldLeft(Take, [inputs |-> <<>>, totalBalance |-> 0, done |-> FALSE],
                        [k \in DOMAIN frame.addresses |-> k])
    IN  IF error # NoError /\ frame.addresses # <<>> THEN Throws
        ELSE IF frame.threshold = 0 \/ all.done
             THEN Answer(callers, NoError, [inputs |-> all.inputs,
                                            totalBalance |-> all.totalBalance])
             ELSE Answer(callers, "Not enough balance", <<>>)

-----------------------------------------------------------------------------
(* prepareTransfers.  p is what its inner functions capture.  A non-empty    *)
(* list of inputs does not survive isInputs, which reads an undeclared name. *)
PrepareTransfers(callers, transfers, options) ==
    LET p == [bundle |-> Outputs(transfers, options.time), total |-> TransfersValue(transfers),
              fragments |-> SignatureFragments(transfers),
              remainder |-> options.address, time |-> options.time]
    IN  IF options.inputs = "some" THEN Throws
        ELSE IF p.total = 0
             THEN Answer(callers, NoError, Reverse(AddTrytes(Finalize(p.bundle), p.fragments)))
        ELSE IF options.inputs = "empty"
             THEN Ask(<<[fn |-> "inputsGiven", p |-> p, inputs |-> <<>>]>> \o callers,
                      GetBalances(<<>>))
        ELSE GetInputs(<<[fn |-> "inputsFound", p |-> p]>> \o callers, 0, 0, p.total)

SignInputsAndReturn(callers, p, bundle, inputs) ==
    Answer(callers, NoError,
           Reverse(Signed(AddTrytes(Finalize(bundle), p.fragments), inputs)))

(* addRemainder: the inputs' entries, then the remainder's, when the last of *)
(* the inputs covers the rest (getInputs stops at the one that does).  When  *)
(* none does, nothing is called back.                                        *)
AddRemainder(callers, p, inputs) ==
    LET drawn == FoldLeft(LAMBDA s, x : s + x.balance, 0, inputs)
        bundle == FoldLeft(LAMBDA b, x : AddEntry(b, 2, x.address, -x.balance, p.time),
                           p.bundle, inputs)
        rest == drawn - p.total
    IN  IF rest < 0 THEN Silent
        ELSE IF rest > 0 /\ p.remainder # NoAddress
             THEN SignInputsAndReturn(callers, p,
                      AddEntry(bundle, 1, p.remainder, rest, p.time), inputs)
        ELSE IF rest > 0
             THEN GetNewAddress(<<[fn |-> "remainder", p |-> p, bundle |-> bundle,
                                   rest |-> rest, inputs |-> inputs]>> \o callers, 0, 0, FALSE)
        ELSE SignInputsAndReturn(callers, p, bundle, inputs)

InputsGiven(frame, callers, error, balances) ==
    IF error # NoError THEN Throws
    ELSE IF frame.p.total > FoldLeft(LAMBDA s, x : s + x, 0, balances)
         THEN Answer(callers, "Not enough balance", <<>>)
         ELSE AddRemainder(callers, frame.p, frame.inputs)

InputsFound(frame, callers, error, inputs) ==
    IF error # NoError THEN Answer(callers, error, <<>>)
                       ELSE AddRemainder(callers, frame.p, inputs.inputs)

(* An error leaves no address to hash.                                       *)
RemainderFound(frame, callers, error, address) ==
    IF error # NoError THEN Throws
    ELSE SignInputsAndReturn(callers, frame.p,
             AddEntry(frame.bundle, 1, address, frame.rest, frame.p.time), frame.inputs)

-----------------------------------------------------------------------------
(* attachToMesh, broadcastTransactions and storeTransactions check their     *)
(* arguments: transactions that were attached pass.                          *)
Broadcast(callers, trytes) ==
    IF \E k \in DOMAIN trytes : trytes[k].hash = NoHash
    THEN Answer(callers, "Invalid attached Trytes provided", <<>>)
    ELSE Ask(callers, BroadcastTransactions(trytes))

(* sendTrytes: approve, attach, broadcast, store.                            *)
SendTrytes(callers, trytes) ==
    Ask(<<[fn |-> "approved", trytes |-> trytes]>> \o callers, GetTransactionsToApprove)

Approved(frame, callers, error, tips) ==
    IF error # NoError THEN Answer(callers, error, <<>>)
    ELSE Ask(<<[fn |-> "attached"]>> \o callers,
             AttachToMesh(tips.trunk, tips.branch, frame.trytes))

(* A slip: without the return, the error is told and the call goes on.       *)
AttachedAnyway(callers, error, trytes) ==
    Then(IF error # NoError THEN Answer(callers, error, <<>>) ELSE Silent,
         Broadcast(<<[fn |-> "broadcast", trytes |-> trytes]>> \o callers, trytes))

Attached(callers, error, trytes) ==
    IF error # NoError THEN Answer(callers, error, <<>>)
    ELSE Broadcast(<<[fn |-> "broadcast", trytes |-> trytes]>> \o callers, trytes)

(* broadcastAndStore has no branch for an error of the broadcast, sendTrytes *)
(* none for an error of the store: nothing is called back.                   *)
Broadcasted(frame, callers, error) ==
    IF error # NoError THEN Silent
    ELSE Ask(<<[fn |-> "stored", trytes |-> frame.trytes]>> \o callers,
             StoreTransactions(frame.trytes))

(* A slip: success whatever the store said.                                  *)
StoredAnyway(frame, callers, error) == Answer(callers, NoError, frame.trytes)

(* A slip: nobody is told.                                                   *)
StoredSilently(frame, callers, error) == Silent

Stored(frame, callers, error) ==
    IF error # NoError THEN Silent ELSE Answer(callers, NoError, frame.trytes)

(* sendTransfer.                                                             *)
SendTransfer(callers, transfers, options) ==
    PrepareTransfers(<<[fn |-> "prepared"]>> \o callers, transfers, options)

Prepared(callers, error, trytes) ==
    IF error # NoError THEN Answer(callers, error, <<>>) ELSE SendTrytes(callers, trytes)

-----------------------------------------------------------------------------
(* traverseBundle: along the trunk until the bundle hash changes.  `hash` is *)
(* <<>> before the tail is read.  NoTx is what the node says of a            *)
(* transaction it does not know.                                             *)
NoTx == [hash |-> NoHash]

TraverseBundle(callers, trunk, hash, bundle) ==
    Ask(<<[fn |-> "traversed", hash |-> hash, bundle |-> bundle]>> \o callers,
        GetTrytes(<<trunk>>))

Traversed(frame, callers, error, trytes) ==
    IF error # NoError THEN Answer(callers, error, <<>>)
    ELSE LET tx == trytes[1]
             hash == IF frame.hash = <<>> THEN tx.bundle ELSE frame.hash
         IN  CASE tx = NoTx -> Answer(callers, "Bundle transactions not visible", <<>>)
               [] tx # NoTx /\ frame.hash = <<>> /\ tx.currentIndex # 0
                    -> Answer(callers, "Invalid tail transaction supplied.", <<>>)
               [] tx # NoTx /\ (frame.hash # <<>> \/ tx.currentIndex = 0) /\ hash # tx.bundle
                    -> Answer(callers, NoError, frame.bundle)
               [] OTHER
                    -> IF tx.lastIndex = 0 /\ tx.currentIndex = 0
                       THEN Answer(callers, NoError, <<tx>>)
                       ELSE TraverseBundle(callers, tx.trunk, hash, Append(frame.bundle, tx))

(* getBundle.  `return callback(...)` inside the loop returns from the       *)
(* loop's function only: every misplaced transaction calls back, and so does *)
(* what comes after the loop.                                                *)
GetBundle(callers, tail) == TraverseBundle(<<[fn |-> "gotBundle"]>> \o callers, tail, <<>>, <<>>)

GotBundle(callers, error, bundle) ==
    IF error # NoError THEN Answer(callers, error, <<>>)
    ELSE LET Check(r, k) == IF k \in Misplaced(bundle)
                            THEN Then(r, Answer(callers, "Invalid Bundle", <<>>)) ELSE r
             refused == FoldLeft(Check, Silent, [k \in DOMAIN bundle |-> k])
         IN  Then(refused,
                  IF Verdict(bundle) = "valid" THEN Answer(callers, NoError, bundle)
                                               ELSE Answer(callers, Verdict(bundle), <<>>))

(* replayBundle and broadcastBundle.                                         *)
ReplayBundle(callers, tail) == GetBundle(<<[fn |-> "replay"]>> \o callers, tail)
BroadcastBundle(callers, tail) == GetBundle(<<[fn |-> "rebroadcast"]>> \o callers, tail)

Replay(callers, error, bundle) ==
    IF error # NoError THEN Answer(callers, error, <<>>)
                       ELSE SendTrytes(callers, Reverse(bundle))

Rebroadcast(callers, error, bundle) ==
    IF error # NoError THEN Answer(callers, error, <<>>)
                       ELSE Broadcast(callers, Reverse(bundle))

-----------------------------------------------------------------------------
(* findTransactionObjects and getTransactionsObjects; a transaction without  *)
(* trytes is pushed to an undeclared name.                                   *)
FindTransactionObjects(callers, key, values) ==
    Ask(<<[fn |-> "hashesFound"]>> \o callers, FindTransactions(key, values))

GetTransactionsObjects(callers, hashes) ==
    Ask(<<[fn |-> "objects"]>> \o callers, GetTrytes(hashes))

HashesFound(callers, error, hashes) ==
    IF error # NoError THEN Answer(callers, error, <<>>)
                       ELSE GetTransactionsObjects(callers, hashes)

Objects(callers, error, trytes) ==
    IF error # NoError THEN Answer(callers, error, <<>>)
    ELSE IF Contains(trytes, NoTx) THEN Throws ELSE Answer(callers, NoError, trytes)

(* getLatestInclusion: the states at the latest milestone.                   *)
GetLatestInclusion(callers, hashes) ==
    Ask(<<[fn |-> "milestone", hashes |-> hashes]>> \o callers, GetNodeInfo)

Milestone(frame, callers, error, tip) ==
    IF error # NoError THEN Answer(callers, error, <<>>)
                       ELSE Ask(callers, GetInclusionStates(frame.hashes, tip))

(* A slip: the first bundle only.                                            *)
FirstFound(objects) == IF objects = <<>> THEN <<>> ELSE <<objects[1]>>

(* _bundlesFromAddresses: the first transaction found of every bundle stands *)
(* for it; all transactions with the hash of the bundle are its              *)
(* transactions.  The sets of the code keep the order of insertion.          *)
FirstOfBundles(objects) ==
    FoldLeft(LAMBDA first, tx : IF \E k \in DOMAIN first : first[k].bundle = tx.bundle
                                THEN first ELSE Append(first, tx), <<>>, objects)

BundlesFromAddresses(callers, addresses, inclusion) ==
    FindTransactionObjects(<<[fn |-> "addressObjects", inclusion |-> inclusion]>> \o callers,
                           "addresses", ToSet(addresses))

AddressObjects(frame, callers, error, objects) ==
    IF error # NoError THEN Answer(callers, error, <<>>)
    ELSE LET first == FirstOfBundles(objects)
         IN  FindTransactionObjects(
                 <<[fn |-> "bundleObjects", first |-> first, inclusion |-> frame.inclusion]>>
                     \o callers,
                 "bundles", {first[k].bundle : k \in DOMAIN first})

(* Without inclusion states no bundle is put in the list.                    *)
BundleObjects(frame, callers, error, objects) ==
    IF error # NoError THEN Answer(callers, error, <<>>)
    ELSE IF frame.inclusion
         THEN GetLatestInclusion(<<[fn |-> "states", first |-> frame.first,
                                    objects |-> objects]>> \o callers,
                                 [k \in DOMAIN frame.first |-> frame.first[k].hash])
         ELSE Answer(callers, NoError, {})

(* The bundles, each with the state of the transaction that stands for it;   *)
(* their order in the list is left out.                                      *)
InclusionStates(frame, callers, error, states) ==
    IF error # NoError THEN Answer(callers, error, <<>>)
    ELSE Answer(callers, NoError,
            {[bundle |-> {tx \in ToSet(frame.objects) : tx.bundle = frame.first[k].bundle},
              persistence |-> states[k]] : k \in DOMAIN frame.first})

(* getTransfers and getAccountData.                                          *)
GetTransfers(callers, start, end, inclusion) ==
    IF BadSpan(start, end) THEN Answer(callers, "Invalid inputs provided", <<>>)
    ELSE GetNewAddress(<<[fn |-> "transferAddresses", inclusion |-> inclusion]>> \o callers,
                       start, IF end > 0 THEN end - start ELSE 0, TRUE)

TransferAddresses(frame, callers, error, addresses) ==
    IF error # NoError THEN Answer(callers, error, <<>>)
                       ELSE BundlesFromAddresses(callers, addresses, frame.inclusion)

GetAccountData(callers, start, end) ==
    IF BadSpan(start, end) THEN Answer(callers, "Invalid inputs provided", <<>>)
    ELSE GetNewAddress(<<[fn |-> "accountAddresses"]>> \o callers,
                       start, IF end > 0 THEN end - start ELSE 0, TRUE)

(* The last address is not among the account's.                              *)
AccountAddresses(callers, error, addresses) ==
    IF error # NoError THEN Answer(callers, error, <<>>)
    ELSE BundlesFromAddresses(<<[fn |-> "accountBundles", addresses |-> Front(addresses)]>>
                                  \o callers, addresses, TRUE)

AccountBundles(frame, callers, error, bundles) ==
    IF error # NoError THEN Answer(callers, error, <<>>)
    ELSE Ask(<<[fn |-> "accountBalances", addresses |-> frame.addresses,
                transfers |-> bundles]>> \o callers, GetBalances(frame.addresses))

AccountBalances(frame, callers, error, balances) ==
    IF error # NoError THEN Throws
    ELSE Answer(callers, NoError,
                [addresses |-> frame.addresses, transfers |-> frame.transfers,
                 balance |-> FoldLeft(LAMBDA s, x : s + x, 0, balances)])

-----------------------------------------------------------------------------
(* batchedSend, after its first request (Requests.tla).                      *)
BatchAnswered(callers, error) ==
    IF error # NoError THEN Answer(callers, error, <<>>) ELSE Throws

(* The callback at the head of a chain.                                      *)
Resume(chain, error, value) ==
    LET frame == Head(chain)
        callers == Tail(chain)
    IN  CASE frame.fn = "getNewAddress" -> NewAddressProbed(frame, callers, error, value)
          [] frame.fn = "inputAddresses" -> InputAddresses(frame, callers, error, value)
          [] frame.fn = "getInputs" -> InputsFormatted(frame, callers, error, value)
          [] frame.fn = "inputsGiven" -> InputsGiven(frame, callers, error, value)
          [] frame.fn = "inputsFound" -> InputsFound(frame, callers, error, value)
          [] frame.fn = "remainder" -> RemainderFound(frame, callers, error, value)
          [] frame.fn = "prepared" -> Prepared(callers, error, value)
          [] frame.fn = "approved" -> Approved(frame, callers, error, value)
          [] frame.fn = "attached" -> Attached(callers, error, value)
          [] frame.fn = "broadcast" -> Broadcasted(frame, callers, error)
          [] frame.fn = "stored" -> Stored(frame, callers, error)
          [] frame.fn = "traversed" -> Traversed(frame, callers, error, value)
          [] frame.fn = "gotBundle" -> GotBundle(callers, error, value)
          [] frame.fn = "replay" -> Replay(callers, error, value)
          [] frame.fn = "rebroadcast" -> Rebroadcast(callers, error, value)
          [] frame.fn = "hashesFound" -> HashesFound(callers, error, value)
          [] frame.fn = "objects" -> Objects(callers, error, value)
          [] frame.fn = "milestone" -> Milestone(frame, callers, error, value)
          [] frame.fn = "addressObjects" -> AddressObjects(frame, callers, error, value)
          [] frame.fn = "bundleObjects" -> BundleObjects(frame, callers, error, value)
          [] frame.fn = "states" -> InclusionStates(frame, callers, error, value)
          [] frame.fn = "transferAddresses" -> TransferAddresses(frame, callers, error, value)
          [] frame.fn = "accountAddresses" -> AccountAddresses(callers, error, value)
          [] frame.fn = "accountBundles" -> AccountBundles(frame, callers, error, value)
          [] frame.fn = "batch" -> BatchAnswered(callers, error)
          [] frame.fn = "accountBalances" -> AccountBalances(frame, callers, error, value)
=============================================================================
