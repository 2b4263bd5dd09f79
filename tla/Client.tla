------------------------------- MODULE Client -------------------------------
(* Calls of aidos.js in progress, and the node and mesh they talk to.  One   *)
(* step serves one outstanding request and runs the callback it has, up to   *)
(* the next request; between two steps of a call others pay the user, the    *)
(* mesh confirms, and the user's other calls go on.                          *)
EXTENDS Requests

CONSTANTS Calls,        \* the calls the user makes
          Plans,        \* what the calls may be asked to do: functions on Calls
          Histories,    \* what the mesh may hold at first: sequences of bundles
          MaxAddress,   \* bound: others pay to addresses up to this
          MaxArrivals,  \* bound: payments by others meanwhile
          MaxConfirmed, \* bound: attachments that are confirmed meanwhile
          MaxFaults     \* bound: requests that fail

ASSUME ClientAssumption ==
    /\ {MaxAddress, MaxArrivals, MaxConfirmed, MaxFaults, MaxSpan} \subseteq Nat
    /\ \A plan \in Plans : DOMAIN plan = Calls

VARIABLES pool,         \* the transactions attached so far: the n-th has hash n
          stored,       \* node: the hashes of those it stores
          announced,    \* node: the hashes of those it was told to broadcast
          confirmed,    \* mesh: the hashes of those that are confirmed
          asks,         \* call -> outstanding requests, each with its chain
          answers,      \* call -> what the user's callback was called with
          job,          \* call -> what it is asked to do
          made,         \* the calls the user has made
          served,       \* call -> how many of its requests were served (history)
          seen,         \* call -> the first unused address when it was made, and
                        \* whether nothing has changed since (history)
          arrivals, confirmations, faults

node == <<pool, stored, announced, confirmed>>
counters == <<arrivals, confirmations, faults>>
vars == <<pool, stored, announced, confirmed, asks, answers, job, made, served, seen, counters>>

Nothing == [do |-> "nothing"]   \* a plan without this call

-----------------------------------------------------------------------------
(* The mesh.  An attachment is a bundle's transactions, consecutive in the   *)
(* pool, the last entry first; each points by its trunk to the next entry,   *)
(* and the last entry to an older transaction.                               *)
Attach(trytes, trunk, base) ==
    [k \in DOMAIN trytes |->
        [trytes[k] EXCEPT !.hash = base + k, !.trunk = IF k = 1 THEN trunk ELSE base + k - 1]]

Tails(hashes) == {h \in hashes : pool[h].currentIndex = 0}
Attachment(tail) == [k \in 1..(pool[tail].lastIndex + 1) |-> pool[tail - k + 1]]
HashesOf(tail) == (tail - pool[tail].lastIndex)..tail

Touches(address) == {h \in stored : pool[h].address = address}
UsedAddresses == {pool[h].address : h \in stored} \ {Payee}
FirstUnused == CHOOSE n \in 0..(MaxAddress + 2) :
                  n \notin UsedAddresses /\ \A k \in 0..(n - 1) : k \in UsedAddresses

Balance(address) ==
    MapThenSumSet(LAMBDA h : pool[h].value, {h \in confirmed : pool[h].address = address})

(* A payment of v to an own address by somebody else.                        *)
PaymentTo(address, v, time) ==
    Reverse(Signed(Finalize(AddEntry(AddEntry(<<>>, 1, address, v, time), 2, Payee, -v, time)),
                   <<[address |-> Payee, keyIndex |-> Payee]>>))

(* A transaction that is older than all of the user's.                       *)
Genesis == Finalize(AddEntry(<<>>, 1, Payee, 0, 0))

ValidTails == {t \in Tails(stored) : Verdict(Attachment(t)) = "valid"}

RECURSIVE AttachAll(_, _)
AttachAll(attached, bundles) ==
    IF bundles = <<>> THEN attached
    ELSE AttachAll(attached \o Attach(Head(bundles), Len(attached), Len(attached)), Tail(bundles))

Init ==
    /\ \E h \in Histories : pool = AttachAll(<<>>, <<Genesis>> \o h)
    /\ stored = DOMAIN pool
    /\ announced = {}
    /\ confirmed \in {{1}, UNION {HashesOf(t) : t \in ValidTails}}
    /\ asks = [c \in Calls |-> <<>>]
    /\ answers = [c \in Calls |-> <<>>]
    /\ job \in Plans
    /\ made = {}
    /\ served = [c \in Calls |-> 0]
    /\ seen = [c \in Calls |-> [unused |-> 0, quiet |-> TRUE]]
    /\ arrivals = 0 /\ confirmations = 0 /\ faults = 0

(* Every call in progress sees that the node or the mesh has changed.        *)
Changed == seen' = [c \in Calls |-> [seen[c] EXCEPT !.quiet = FALSE]]

Arrive ==
    /\ arrivals < MaxArrivals
    /\ \E a \in 0..MaxAddress :
          /\ a <= FirstUnused
          /\ pool' = pool \o Attach(PaymentTo(a, 1, 10 + arrivals), Len(pool), Len(pool))
    /\ stored' = stored \cup (Len(pool) + 1)..Len(pool')
    /\ arrivals' = arrivals + 1
    /\ Changed
    /\ UNCHANGED <<announced, confirmed, asks, answers, job, made, served, confirmations, faults>>

(* A valid attachment confirms when no other copy of it has, and when its    *)
(* inputs have the value.                                                    *)
Confirm ==
    /\ confirmations < MaxConfirmed
    /\ \E t \in Tails(stored \ confirmed) :
          /\ HashesOf(t) \subseteq stored
          /\ Verdict(Attachment(t)) = "valid"
          /\ \A h \in confirmed : pool[h].bundle # pool[t].bundle
          /\ \A h \in HashesOf(t) :
                pool[h].address # Payee => Balance(pool[h].address) + pool[h].value >= 0
          /\ confirmed' = confirmed \cup HashesOf(t)
    /\ confirmations' = confirmations + 1
    /\ Changed
    /\ UNCHANGED <<pool, stored, announced, asks, answers, job, made, served, arrivals, faults>>

-----------------------------------------------------------------------------
(* The node.                                                                 *)
Sorted(hashes) == SelectSeq([h \in DOMAIN pool |-> h], LAMBDA h : h \in hashes)

Reply(request) ==
    CASE request.command = "findTransactions" ->
            Sorted(IF "addresses" \in DOMAIN request
                   THEN {h \in stored : pool[h].address \in request.addresses}
                   ELSE {h \in stored : pool[h].bundle \in request.bundles})
      [] request.command = "getTrytes" ->
            [k \in DOMAIN request.hashes |->
                IF request.hashes[k] \in stored THEN pool[request.hashes[k]] ELSE NoTx]
      [] request.command = "getBalances" ->
            [k \in DOMAIN request.addresses |-> Balance(request.addresses[k])]
      [] request.command = "getNodeInfo" -> Len(pool)
      [] request.command = "getInclusionStates" ->
            [k \in DOMAIN request.hashes |-> request.hashes[k] \in confirmed]
      [] request.command = "getTransactionsToApprove" ->
            [trunk |-> Len(pool), branch |-> Len(pool)]
      [] request.command = "attachToMesh" -> Attach(request.trytes, request.trunk, Len(pool))
      [] OTHER -> <<>>

HashesIn(trytes) == {trytes[k].hash : k \in DOMAIN trytes}

Perform(request) ==
    /\ pool' = IF request.command = "attachToMesh"
               THEN pool \o Attach(request.trytes, request.trunk, Len(pool)) ELSE pool
    /\ announced' = IF request.command = "broadcastTransactions"
                    THEN announced \cup HashesIn(request.trytes) ELSE announced
    /\ stored' = IF request.command = "storeTransactions"
                 THEN stored \cup HashesIn(request.trytes) ELSE stored
    /\ UNCHANGED confirmed
    /\ IF stored' # stored THEN Changed ELSE UNCHANGED seen

-----------------------------------------------------------------------------
(* The calls.                                                                *)
Begin(j) ==
    CASE j.do = "getNewAddress" -> GetNewAddress(<<>>, j.index, j.total, j.returnAll)
      [] j.do = "getInputs" -> GetInputs(<<>>, j.start, j.end, j.threshold)
      [] j.do = "prepareTransfers" -> PrepareTransfers(<<>>, j.transfers, j.options)
      [] j.do = "sendTransfer" -> SendTransfer(<<>>, j.transfers, j.options)
      [] j.do = "getTransfers" -> GetTransfers(<<>>, j.start, j.end, j.inclusion)
      [] j.do = "getAccountData" -> GetAccountData(<<>>, j.start, j.end)
      [] j.do = "replayBundle" -> ReplayBundle(<<>>, j.tail)
      [] j.do = "broadcastBundle" -> BroadcastBundle(<<>>, j.tail)
      [] OTHER -> CallOne(j)

Start(c) ==
    /\ c \notin made
    /\ job[c] # Nothing
    /\ made' = made \cup {c}
    /\ asks' = [asks EXCEPT ![c] = Begin(job[c]).asks]
    /\ answers' = [answers EXCEPT ![c] = Begin(job[c]).answers]
    /\ seen' = [seen EXCEPT ![c] = [unused |-> FirstUnused, quiet |-> TRUE]]
    /\ UNCHANGED <<node, job, served, counters>>

(* An exception that is thrown while the call is made reaches the user; one  *)
(* in a callback leaves the handler of the request, and the user hears       *)
(* nothing of it.                                                            *)
Heard(replies) == SelectSeq(replies, LAMBDA reply : reply.error # Exception)

Continue(c, k, result) ==
    /\ asks' = [asks EXCEPT ![c] = RemoveAt(@, k) \o result.asks]
    /\ answers' = [answers EXCEPT ![c] = @ \o Heard(result.answers)]

Serve(c) ==
    /\ \E k \in DOMAIN asks[c] :
          /\ Perform(asks[c][k].request)
          /\ Continue(c, k, Answer(asks[c][k].chain, NoError, Reply(asks[c][k].request)))
    /\ served' = [served EXCEPT ![c] = @ + 1]
    /\ UNCHANGED <<job, made, counters>>

(* The request is lost, or its answer is.                                    *)
Fail(c) ==
    /\ faults < MaxFaults
    /\ \E k \in DOMAIN asks[c] :
          /\ \/ Perform(asks[c][k].request)
             \/ UNCHANGED <<node, seen>>
          /\ Continue(c, k, Answer(asks[c][k].chain, "Request Error", <<>>))
    /\ faults' = faults + 1
    /\ UNCHANGED <<job, made, served, arrivals, confirmations>>

Next ==
    \/ Arrive
    \/ Confirm
    \/ \E c \in Calls : Start(c) \/ Serve(c) \/ Fail(c)

(* The node answers what it is asked: weak fairness of Serve(c), which is    *)
(* the action that counts up served[c] and is enabled while asks[c] is not   *)
(* empty.  (Stated so, TLC need not run the callbacks again to see that.)    *)
Served(c) == asks[c] # <<>> /\ served' = [served EXCEPT ![c] = @ + 1]

Spec == Init /\ [][Next]_vars /\ \A c \in Calls : WF_served(Served(c))

-----------------------------------------------------------------------------
Done(c) == answers[c] # <<>>
Succeeded(c) == Done(c) /\ answers[c][1].error = NoError
Result(c) == answers[c][1].result

(* `return callback(...)' inside the function of a loop leaves that function *)
(* only: the loop, and what comes after it, go on.  findTransactions does so *)
(* for a key or hash it refuses (252-281), getBundle for a transaction that  *)
(* is not at its index (1592-1634).                                          *)
RefusedInLoop(c) ==
    CASE job[c].do = "findTransactions" ->
            \E k \in DOMAIN job[c].args : ~job[c].args[k].known \/ job[c].args[k].bad > 0
      [] job[c].do \in {"replayBundle", "broadcastBundle"} ->
            job[c].tail \in DOMAIN pool /\ Misplaced(Attachment(job[c].tail)) # {}
      [] OTHER -> FALSE

(* A callback is called once, however many requests a call makes and         *)
(* whichever fails: no other path of a call answers and then goes on.        *)
AnsweredAtMostOnce ==
    \A c \in Calls : Len(answers[c]) + Len(asks[c]) <= 1 \/ RefusedInLoop(c)

(* What the node is told to broadcast is a whole bundle that getBundle       *)
(* would accept: its values sum to zero, its hash is over its entries in     *)
(* order, and every input is signed with the key of its address, although    *)
(* keys are chosen by position (getInputs 1100, signInputsAndReturn 1403)    *)
(* and replays start from what the mesh holds.                               *)
AnnouncedIsValid ==
    \A t \in Tails(announced) :
        HashesOf(t) \subseteq announced /\ Verdict(Attachment(t)) = "valid"

(* getNewAddress, which halves its way through an index space that grows     *)
(* while it asks (940-999), answers an address that was the first unused one *)
(* at some moment of the call.                                               *)
NewAddressWasFirstUnused ==
    [][\A c \in Calls :
          ( /\ job[c].do = "getNewAddress" /\ ~Done(c) /\ Succeeded(c)'
            /\ job[c].index = 0 /\ job[c].total = 0 /\ ~job[c].returnAll )
          => Result(c)' \in seen[c].unused..FirstUnused]_vars

(* The user can go by the answer of a transfer or a replay: after a success  *)
(* the node has broadcast and stored all of it, after an error it has        *)
(* broadcast nothing of it (a failure from the broadcast on is not answered  *)
(* at all, broadcastAndStore 645-661).                                       *)
AnswerTellsTheFate ==
    \A c \in Calls : job[c].do \in {"sendTransfer", "replayBundle"} /\ Done(c) =>
        IF Succeeded(c) THEN HashesIn(Result(c)) \subseteq (announced \cap stored)
        ELSE job[c].do = "replayBundle" \/
             \A h \in announced : pool[h].timestamp # job[c].options.time

(* A call during which nothing changes tells how it is: getInputs and        *)
(* getAccountData count all the own balance, although the last address is    *)
(* dropped from the one and the other stops at its threshold, and            *)
(* getTransfers and getAccountData list every bundle of an own address.      *)
OwnBalance == MapThenSumSet(Balance, UsedAddresses)
OwnBundles == {pool[h].bundle : h \in {g \in stored : pool[g].address # Payee}}
BundlesIn(list) == UNION {{tx.bundle : tx \in entry.bundle} : entry \in list}

Whole(c) == job[c].start = 0 /\ job[c].end = 0

Exact(c) ==
    CASE job[c].do = "getInputs" /\ Whole(c) ->
            IF Succeeded(c)
            THEN IF job[c].threshold = 0 THEN Result(c).totalBalance = OwnBalance
                 ELSE Result(c).totalBalance \in job[c].threshold..OwnBalance
            ELSE OwnBalance < job[c].threshold
      [] job[c].do = "getTransfers" /\ Whole(c) /\ job[c].inclusion ->
            BundlesIn(Result(c)) = OwnBundles
      [] job[c].do = "getAccountData" /\ Whole(c) ->
            Result(c).balance = OwnBalance /\ BundlesIn(Result(c).transfers) = OwnBundles
      [] OTHER -> TRUE

QuietAnswersAreExact ==
    [][\A c \in Calls :
          ~Done(c) /\ Done(c)' /\ seen'[c].quiet /\ faults' = 0
              => Exact(c)']_vars

(* Two callbacks run into an undeclared name and throw: that of batchedSend  *)
(* after its first piece (149), and that of getTransactionsObjects at a hash *)
(* the node does not know (579).                                             *)
MeetsUndeclared(c) ==
    \/ job[c].do = "batchedSend" /\ job[c].length > BatchSize
    \/ job[c].do = "getTransactionsObjects" /\ ~(ToSet(job[c].args) \subseteq stored)

(* Every other call is answered when no request fails, through all its       *)
(* requests and whatever the mesh does between them.                         *)
EventuallyAnswered ==
    [](faults = 0) => \A c \in Calls :
        <>(c \in made) => <>(c \in made /\ (Done(c) \/ MeetsUndeclared(c)))

(* Every call calls back, once, whatever it is called with and whichever     *)
(* request fails: findTransactions and broadcastAndStore "@returns           *)
(* {function} callback" (239, 643), sendTrytes "@returns {object} analyzed   *)
(* Transaction objects" (676), getInputs "Calls getBalances and formats the  *)
(* output returns the final inputsObject then" (1080-1081), batchedSend      *)
(* "batches the requested command and then aggregates the results" (81),     *)
(* getTransactionsObjects "If no trytes returned, simply push null" (577).   *)
CallsBackOnce == \A c \in Calls : c \in made ~> [](Len(answers[c]) = 1)
=============================================================================
