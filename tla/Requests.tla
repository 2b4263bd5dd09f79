------------------------------ MODULE Requests ------------------------------
(* The calls of api/api that are one command to the node, with the checks of *)
(* their arguments.  An argument is what its check says of it: TRUE when     *)
(* utils/inputValidator accepts it (Validator.tla models the checks).        *)
EXTENDS ClientCalls

CONSTANT BatchSize      \* what batchedSend takes for one request (50)

(* errors/inputErrors.                                                       *)
InputErrors ==
    [ invalidTrytes |-> "Invalid Trytes provided",
      invalidAttachedTrytes |-> "Invalid attached Trytes provided",
      invalidKey |-> "You have provided an invalid key value",
      invalidTrunkOrBranch |-> "You have provided an invalid hash as a trunk/branch",
      notInt |-> "One of your inputs is not an integer" ]

(* apiCommands, the rest of them.  addPeer's command has a uri and a type,   *)
(* and the only call of it gives neither.                                    *)
Ping == [command |-> "ping"]
GetPeerAddresses == [command |-> "getPeerAddresses"]
AddPeer == [command |-> "addPeer", uri |-> "undefined", type |-> "undefined"]
GetTips == [command |-> "getTips"]
InterruptAttachingToMesh == [command |-> "interruptAttachingToMesh"]

(* sendCommand gives the answer on as it is; so do the calls without a       *)
(* check.                                                                    *)
SendCommand(callers, command) == Ask(callers, command)

Unchecked == {Ping, GetNodeInfo, GetPeerAddresses, AddPeer, GetTips, GetTransactionsToApprove}
Interrupt(callers) == SendCommand(callers, InterruptAttachingToMesh)

Checked(callers, checks, command) ==
    IF \E k \in DOMAIN checks : ~checks[k].ok
    THEN Answer(callers, checks[SelectInSeq(checks, LAMBDA x : ~x.ok)].error, <<>>)
    ELSE SendCommand(callers, command)

Check(ok, error) == [ok |-> ok, error |-> InputErrors[error]]

CallAttachToMesh(callers, a) ==
    Checked(callers, << Check(a.trunk, "invalidTrunkOrBranch"),
                        Check(a.branch, "invalidTrunkOrBranch"),
                        Check(a.weight, "notInt"), Check(a.trytes, "invalidTrytes") >>,
            AttachToMesh(NoHash, NoHash, <<>>))

CallGetBalances(callers, a) ==
    Checked(callers, <<Check(a.addresses, "invalidTrytes")>>, GetBalances(<<>>))

CallGetInclusionStates(callers, a) ==
    Checked(callers, <<Check(a.transactions, "invalidTrytes"), Check(a.tips, "invalidTrytes")>>,
            GetInclusionStates(<<>>, NoHash))

CallGetTrytes(callers, a) ==
    Checked(callers, <<Check(a.hashes, "invalidTrytes")>>, GetTrytes(<<>>))

CallBroadcastTransactions(callers, a) ==
    Checked(callers, <<Check(a.trytes, "invalidAttachedTrytes")>>, BroadcastTransactions(<<>>))

CallStoreTransactions(callers, a) ==
    Checked(callers, <<Check(a.trytes, "invalidAttachedTrytes")>>, StoreTransactions(<<>>))

(* findTransactions: a key after the other, each with the hashes it is to be *)
(* searched for.  `return callback(...)` leaves the loop's function only: a  *)
(* refusal for every bad key, and for every bad tag, and the command is sent *)
(* all the same.                                                             *)
CallFindTransactions(callers, keys) ==
    LET Refusals(x) == IF ~x.known THEN <<"invalidKey">>
                       ELSE IF x.tags THEN [k \in 1..x.bad |-> "invalidTrytes"]
                       ELSE IF x.bad > 0 THEN <<"invalidTrytes">> ELSE <<>>
        refusals == FlattenSeq([k \in DOMAIN keys |-> Refusals(keys[k])])
    IN  Then(FoldLeft(LAMBDA r, e : Then(r, Answer(callers, InputErrors[e], <<>>)), Silent, refusals),
             SendCommand(callers, FindTransactions("addresses", {})))

(* batchedSend: a longer list is cut, but after the first piece the test of  *)
(* the loop reads an undeclared name.                                        *)
Batched == {"getTrytes", "getInclusionStates", "getBalances"}

BatchedSend(callers, command, length) ==
    IF command.command \in Batched /\ length > BatchSize
    THEN SendCommand(<<[fn |-> "batch"]>> \o callers, command)
    ELSE SendCommand(callers, command)

(* A user's call, by its name and its arguments.                             *)
CallOne(j) ==
    CASE j.do = "sendCommand" -> SendCommand(<<>>, j.args)
      [] j.do = "interruptAttachingToMesh" -> Interrupt(<<>>)
      [] j.do = "attachToMesh" -> CallAttachToMesh(<<>>, j.args)
      [] j.do = "getBalances" -> CallGetBalances(<<>>, j.args)
      [] j.do = "getInclusionStates" -> CallGetInclusionStates(<<>>, j.args)
      [] j.do = "getTrytes" -> CallGetTrytes(<<>>, j.args)
      [] j.do = "broadcastTransactions" -> CallBroadcastTransactions(<<>>, j.args)
      [] j.do = "storeTransactions" -> CallStoreTransactions(<<>>, j.args)
      [] j.do = "findTransactions" -> CallFindTransactions(<<>>, j.args)
      [] j.do = "batchedSend" -> BatchedSend(<<>>, j.args, j.length)
      [] j.do = "findTransactionObjects" -> FindTransactionObjects(<<>>, "addresses", j.args)
      [] j.do = "getTransactionsObjects" -> GetTransactionsObjects(<<>>, j.args)
=============================================================================
