------------------------------- MODULE Wallet -------------------------------
(* The wallet of aidosd: the bolt database, the cached account `lastAccount' *)
(* and the goroutines that share them.                                       *)
(*                                                                           *)
(*   - RPC handlers that write (getnewaddress, sendmany, sendfrom,           *)
(*     sendtoaddress): one at a time, and with no reading handler, because   *)
(*     they hold `mutex'; each is one bolt write transaction.                *)
(*   - RPC handlers that read (gettransaction, listtransactions,             *)
(*     validateaddress): they hold `mutex' shared and look addresses up with *)
(*     findAddress in a read transaction, which may replace `lastAccount'.   *)
(*   - Walletnotify, run once a minute, which does NOT take `mutex': three   *)
(*     bolt write transactions and calls to the node between them.           *)
(*   - one goroutine per sent bundle, started inside the write transaction   *)
(*     of the sender, that does the proof of work and broadcasts.            *)
(*   - the node and the mesh (external): deposits, confirmations.            *)
(*                                                                           *)
(* An account is the sequence of its balances; address <<n, k>> is the k-th  *)
(* address derived from the seed of account n, so position and address agree *)
(* in every copy of the account.  Accounts are numbered in the order of      *)
(* their keys in the bucket.  The configuration option account_no is unset.  *)
EXTENDS Spending, FiniteSets

CONSTANTS NAccounts,  \* bound: accounts that may be created
          MaxAddrs,   \* bound: addresses of each account
          MaxBundles, \* bound: bundles that ever exist, deposits included
          Deposits,   \* values that others pay to the wallet's addresses
          Payments,   \* values that callers ask the wallet to pay
          Readers,    \* the reading handlers that may run at the same time
          Faults      \* what may happen besides: subset of
                      \* {"node", "commit", "crash", "refresh"}

ASSUME WalletAssumption ==
    /\ NAccounts \in Nat /\ MaxAddrs \in [1..NAccounts -> Nat] /\ MaxBundles \in Nat
    /\ Deposits \subseteq Nat \ {0} /\ Payments \subseteq Nat \ {0}
    /\ Faults \subseteq {"node", "commit", "crash", "refresh"}

Accounts  == 1..NAccounts
Addresses == UNION {{n} \X (1..MaxAddrs[n]) : n \in Accounts}
BundleIds == 1..MaxBundles

(* A transaction entry of the mesh: the one of bundle tx[1] at address tx[2].*)
(* A bundle has at most one per address of the wallet.                       *)
TxIds == BundleIds \X Addresses

Balance == [value : Int, change : Nat]
Database == [Accounts -> Seq(Balance)]

Stages == {"pow", "mesh", "confirmed", "lost"}

VARIABLES db,          \* the committed "accounts" bucket
          hashes,      \* the committed "hashes" bucket: [known, confirmed]
          txDB,        \* the committed "transactions" bucket, by hash
          lastAccount, \* the cached account; name 0 is the nil pointer
          wtx,         \* the open write transaction, if any
          bundles,     \* every bundle that exists, by order of creation
          notify,      \* Walletnotify's round
          readers,     \* the reading handlers
          credits      \* how often each entry was added to the database

vars == <<db, hashes, txDB, lastAccount, wtx, bundles, notify, readers, credits>>

NoCache == [name |-> 0, bals |-> <<>>]
NoTx    == [owner |-> "none", img |-> <<>>, fresh |-> {}, bundle |-> 0]
Idle    == [pc |-> "idle", adrs |-> {}, found |-> {}, hs |-> {}, conf |-> {},
            news |-> {}, newly |-> {}, todo |-> {}, cur |-> {}]
Absent  == [pc |-> "idle", snap |-> <<>>, adr |-> <<>>]

Init ==
    /\ db = [n \in Accounts |-> <<>>]
    /\ hashes = [known |-> {}, confirmed |-> {}]
    /\ txDB = {}
    /\ lastAccount = NoCache
    /\ wtx = NoTx
    /\ bundles = <<>>
    /\ notify = Idle
    /\ readers = [r \in Readers |-> Absent]
    /\ credits = [tx \in TxIds |-> 0]

-----------------------------------------------------------------------------
(* Addresses, accounts and the cache.                                        *)

AddressesOf(image) == {a \in Addresses : a[2] <= Len(image[a[1]])}

ValuesOf(bals) == [k \in DOMAIN bals |-> bals[k].value]

(* lastAccount.search: the cached account has the address.                   *)
Cached(a) == lastAccount.name = a[1] /\ a[2] <= Len(lastAccount.bals)

(* getAccount: the cache wins over the database, whatever it holds.          *)
GetAccount(image, n) == IF lastAccount.name = n THEN lastAccount.bals ELSE image[n]

(* putAccount's effect on the cache; and a putAccount that leaves it alone.  *)
CacheUntouched(n, bals) == lastAccount
CacheAfterPut(n, bals) ==
    IF lastAccount.name = n THEN [name |-> n, bals |-> bals] ELSE lastAccount

EmptyBalance(c) == [value |-> 0, change |-> c]

(* The position of an account's next address; a slip would be the last one's.*)
LastIndex(bals) == Len(bals)
NextIndex(bals) == Len(bals) + 1

-----------------------------------------------------------------------------
(* Writing handlers.                                                         *)

(* mutex.Lock and bolt's writer lock are free.                               *)
NoReader == \A r \in Readers : readers[r].pc = "idle"
MayWrite == wtx.owner = "none"

(* putAccount(bals) in the handler's transaction, and in the cache.          *)
RpcPut(n, bals, fresh, b) ==
    /\ wtx' = [owner |-> "rpc", img |-> [db EXCEPT ![n] = bals],
               fresh |-> fresh, bundle |-> b]
    /\ lastAccount' = CacheAfterPut(n, bals)
    /\ UNCHANGED <<db, hashes, txDB, notify, readers, credits>>

(* getnewaddress, up to the commit.  The address derived is the one after    *)
(* the last; an account that does not exist is created.                      *)
GetNewAddress(n) ==
    LET bals == GetAccount(db, n)
    IN  /\ MayWrite /\ NoReader
        /\ Len(bals) < MaxAddrs[n]
        /\ RpcPut(n, Append(bals, EmptyBalance(0)), {<<n, NextIndex(bals)>>}, 0)
        /\ UNCHANGED bundles

(* The account after a payment (Transfer.tla): inputs drained, the remainder *)
(* noted as change of a new address.  The second variant forgets to drain.   *)
RemainderOnly(bals, v) ==
    IF Remainder(ValuesOf(bals), v) = 0
    THEN bals ELSE Append(bals, EmptyBalance(Remainder(ValuesOf(bals), v)))
AfterPayment(bals, v) ==
    LET ins  == Inputs(ValuesOf(bals), v)
        left == [k \in DOMAIN bals |->
                    IF k \in ins THEN [bals[k] EXCEPT !.value = 0] ELSE bals[k]]
        rest == Remainder(ValuesOf(bals), v)
    IN  IF rest = 0 THEN left ELSE Append(left, EmptyBalance(rest))

(* The entries of the payment's bundle at the wallet's own addresses.        *)
PaymentEntries(n, bals, v) ==
    LET vals == ValuesOf(bals)
    IN  [a \in Addresses |->
            IF a[1] # n THEN 0
            ELSE IF a[2] = NextIndex(bals) THEN Remainder(vals, v)
            ELSE IF a[2] \in Inputs(vals, v) THEN -vals[a[2]] ELSE 0]

(* A new bundle; `own' if this wallet sends it.                              *)
NewBundle(entries, own) ==
    [entries |-> entries, own |-> own, debited |-> FALSE,
     stage |-> IF own THEN "pow" ELSE "mesh"]

(* send and Send, up to the commit, for a payment of v to an outside address.*)
(* The goroutine that will broadcast the bundle is started here already.     *)
Pay(n, bals, v) ==
    LET entries == PaymentEntries(n, bals, v)
    IN  /\ MayWrite /\ NoReader
        /\ Len(bundles) < MaxBundles
        /\ Len(bals) > 0
        /\ v <= TotalValue(ValuesOf(bals))
        /\ Len(AfterPayment(bals, v)) <= MaxAddrs[n]
        /\ bundles' = Append(bundles, NewBundle(entries, TRUE))
        /\ RpcPut(n, AfterPayment(bals, v), {a \in Addresses : entries[a] > 0},
                  Len(bundles) + 1)

(* sendmany and sendfrom name the account; getAccount may take the cache.    *)
SendFrom(n, v) == Pay(n, GetAccount(db, n), v)

(* sendtoaddress takes the first account of the bucket from the database.    *)
SendToAddress(n, v) ==
    /\ \A m \in 1..n : Len(db[m]) > 0 <=> m = n
    /\ Pay(n, db[n], v)

(* The handler's db.Update returns nil: the transaction commits.             *)
RpcCommit ==
    /\ wtx.owner = "rpc"
    /\ db' = wtx.img
    /\ bundles' = [b \in DOMAIN bundles |->
                      [bundles[b] EXCEPT !.debited = IF b = wtx.bundle THEN TRUE ELSE @]]
    /\ wtx' = NoTx
    /\ UNCHANGED <<hashes, txDB, lastAccount, notify, readers, credits>>

(* The commit fails: the handler returns the error, the database is as it    *)
(* was, and neither the cache nor the broadcasting goroutine knows.          *)
RpcCommitFails ==
    /\ "commit" \in Faults
    /\ wtx.owner = "rpc"
    /\ wtx' = NoTx
    /\ UNCHANGED <<db, hashes, txDB, lastAccount, bundles, notify, readers, credits>>

-----------------------------------------------------------------------------
(* The broadcasting goroutines, the mesh and the outside world.              *)

(* PoW and broadcast of a sent bundle, retried until they succeed.           *)
Broadcast(b) ==
    /\ bundles[b].stage = "pow"
    /\ bundles' = [bundles EXCEPT ![b].stage = "mesh"]
    /\ UNCHANGED <<db, hashes, txDB, lastAccount, wtx, notify, readers, credits>>

(* The value the mesh has for an address: what is confirmed there.           *)
EntryAt(b, a) == bundles[b].entries[a]
SumAt(B, a) == SumFunctionOnSet([b \in DOMAIN bundles |-> EntryAt(b, a)], B)
Confirmed(b) == bundles[b].stage = "confirmed"
MeshBalance(a) == SumAt({b \in DOMAIN bundles : Confirmed(b)}, a)

(* The mesh confirms a bundle whose inputs exist: whole, or not at all.      *)
Confirm(b) ==
    /\ bundles[b].stage = "mesh"
    /\ \A a \in Addresses : EntryAt(b, a) < 0 => MeshBalance(a) + EntryAt(b, a) >= 0
    /\ bundles' = [bundles EXCEPT ![b].stage = "confirmed"]
    /\ UNCHANGED <<db, hashes, txDB, lastAccount, wtx, notify, readers, credits>>

(* Somebody pays v to an address the wallet has given out.                   *)
Deposit(a, v) ==
    /\ Len(bundles) < MaxBundles
    /\ a \in AddressesOf(db)
    /\ bundles' = Append(bundles,
                         NewBundle([x \in Addresses |-> IF x = a THEN v ELSE 0], FALSE))
    /\ UNCHANGED <<db, hashes, txDB, lastAccount, wtx, notify, readers, credits>>

-----------------------------------------------------------------------------
(* Reading handlers: findAddress in a read transaction, any number of times. *)

(* mutex.RLock is granted and db.View sees the committed accounts.           *)
ReaderBegin(r) ==
    /\ readers[r].pc = "idle"
    /\ wtx.owner # "rpc"
    /\ readers' = [readers EXCEPT ![r] = [pc |-> "view", snap |-> db, adr |-> <<>>]]
    /\ UNCHANGED <<db, hashes, txDB, lastAccount, wtx, bundles, notify, credits>>

(* The cache misses, and the accounts of the snapshot are searched.          *)
ReaderMiss(r, a) ==
    /\ readers[r].pc = "view"
    /\ ~Cached(a)
    /\ a \in AddressesOf(readers[r].snap)
    /\ readers' = [readers EXCEPT ![r].pc = "scan", ![r].adr = a]
    /\ UNCHANGED <<db, hashes, txDB, lastAccount, wtx, bundles, notify, credits>>

(* The account found becomes the cached one.                                 *)
ReaderFill(r) ==
    LET n == readers[r].adr[1]
    IN  /\ readers[r].pc = "scan"
        /\ lastAccount' = [name |-> n, bals |-> readers[r].snap[n]]
        /\ readers' = [readers EXCEPT ![r].pc = "view", ![r].adr = <<>>]
        /\ UNCHANGED <<db, hashes, txDB, wtx, bundles, notify, credits>>

ReaderEnd(r) ==
    /\ readers[r].pc = "view"
    /\ readers' = [readers EXCEPT ![r] = Absent]
    /\ UNCHANGED <<db, hashes, txDB, lastAccount, wtx, bundles, notify, credits>>

-----------------------------------------------------------------------------
(* Walletnotify.                                                             *)

(* The entries the node knows at the addresses A.                            *)
OnMesh(tx) == bundles[tx[1]].stage \in {"mesh", "confirmed"}
Entries == {tx \in TxIds : tx[1] \in DOMAIN bundles /\ EntryAt(tx[1], tx[2]) # 0}
EntriesOf(A) == {tx \in Entries : tx[2] \in A /\ OnMesh(tx)}

(* The addresses are read in a View ...                                      *)
NotifyStart ==
    /\ notify.pc = "idle"
    /\ AddressesOf(db) # {}
    /\ notify' = [Idle EXCEPT !.pc = "find", !.adrs = AddressesOf(db)]
    /\ UNCHANGED <<db, hashes, txDB, lastAccount, wtx, bundles, readers, credits>>

(* ... and the node is asked for their entries afterwards; one that fails may*)
(* answer for some addresses only.  Finding none ends the round.             *)
NotifyFind ==
    /\ notify.pc = "find"
    /\ \E A \in IF "node" \in Faults THEN SUBSET notify.adrs ELSE {notify.adrs} :
          notify' = IF EntriesOf(A) = {} THEN Idle
                    ELSE [Idle EXCEPT !.pc = "compare", !.found = EntriesOf(A)]
    /\ UNCHANGED <<db, hashes, txDB, lastAccount, wtx, bundles, readers, credits>>

(* The entries that are new: those the "hashes" bucket does not have.  A slip*)
(* would be to look in the "transactions" bucket.                            *)
NotStored == notify.found \ txDB
NotSeen == notify.found \ hashes.known

(* The transactions stored; a slip would be to store the confirmed ones only.*)
ConfirmedStored(news) == txDB \cup {tx \in news : Confirmed(tx[1])}
TxsAfter(news) == txDB \cup news

(* compareHashes, first transaction: the new entries are stored.             *)
NotifyCompare ==
    LET news == NotSeen
    IN  /\ notify.pc = "compare"
        /\ MayWrite
        /\ txDB' = TxsAfter(news)
        /\ notify' = [Idle EXCEPT !.pc = "inclusion", !.news = news,
                                  !.hs = hashes.known, !.conf = hashes.confirmed]
        /\ UNCHANGED <<db, hashes, lastAccount, wtx, bundles, readers, credits>>

(* The entries whose inclusion compareHashes asks for: those not recorded as *)
(* confirmed.  A slip would be to ask for all.                               *)
AllSeen == notify.hs \cup notify.news
Unconfirmed == AllSeen \ notify.conf

(* compareHashes, between its transactions: GetInclusionStates.  If the node *)
(* fails there, no entry counts as newly confirmed and the round goes on.    *)
NotifyInclusion ==
    /\ notify.pc = "inclusion"
    /\ \E ok \in IF "node" \in Faults THEN BOOLEAN ELSE {TRUE} :
          notify' = [notify EXCEPT !.pc = "put",
                        !.newly = {tx \in Unconfirmed : ok /\ Confirmed(tx[1])}]
    /\ UNCHANGED <<db, hashes, txDB, lastAccount, wtx, bundles, readers, credits>>

(* GetTrytes in the first transaction, or GetNodeInfo after it, fails.       *)
NotifyGivesUp ==
    /\ "node" \in Faults
    /\ notify.pc \in {"compare", "inclusion"}
    /\ notify' = Idle
    /\ UNCHANGED <<db, hashes, txDB, lastAccount, wtx, bundles, readers, credits>>

(* The hashes as compareHashes writes them back; a slip would be to store    *)
(* the new hashes without their states.                                      *)
StatesDropped == [known |-> AllSeen, confirmed |-> notify.conf]
StatesAfter == [known |-> AllSeen, confirmed |-> notify.conf \cup notify.newly]

(* compareHashes, second transaction.                                        *)
NotifyPut ==
    /\ notify.pc = "put"
    /\ MayWrite
    /\ hashes' = StatesAfter
    /\ notify' = [notify EXCEPT !.pc = "begin", !.hs = {}, !.conf = {}]
    /\ UNCHANGED <<db, txDB, lastAccount, wtx, bundles, readers, credits>>

(* What the third transaction credits; a slip would be the new ones only.    *)
NewOnly == notify.newly \cap notify.news
ToCredit == notify.newly

(* Third transaction: getTXs loads the newly confirmed entries.  (It would   *)
(* fail for one that is not stored; HashesStored says that none is missing.) *)
NotifyBegin ==
    /\ notify.pc = "begin"
    /\ MayWrite
    /\ notify.newly \subseteq txDB
    /\ IF notify.news \cup notify.newly = {}
       THEN notify' = Idle /\ UNCHANGED wtx
       ELSE /\ notify' = [notify EXCEPT !.pc = "credit", !.todo = ToCredit]
            /\ wtx' = [NoTx EXCEPT !.owner = "notify", !.img = db]
    /\ UNCHANGED <<db, hashes, txDB, lastAccount, bundles, readers, credits>>

(* Value += tr.Value; Change = 0.  A slip would be to keep the change.       *)
AddValueOnly(bal, v) == [bal EXCEPT !.value = @ + v]
AddValue(bal, v) == [value |-> bal.value + v, change |-> 0]

(* The account n with balances bals, as found by findAddress, is credited    *)
(* with the entry tx and put back.                                           *)
CreditTo(n, bals, tx) ==
    LET after == [bals EXCEPT ![tx[2][2]] = AddValue(@, EntryAt(tx[1], tx[2]))]
    IN  /\ wtx' = [wtx EXCEPT !.img[n] = after]
        /\ lastAccount' = [name |-> n, bals |-> after]
        /\ notify' = [notify EXCEPT !.pc = "credit", !.cur = {}, !.todo = @ \ {tx}]

(* findAddress misses the cache and finds the account in the transaction;    *)
(* it becomes the cached one.                                                *)
NotifyCreditMiss(tx) ==
    LET n == tx[2][1]
    IN  /\ notify.pc = "credit" /\ tx \in notify.todo
        /\ ~Cached(tx[2])
        /\ CreditTo(n, wtx.img[n], tx)
        /\ UNCHANGED <<db, hashes, txDB, bundles, readers, credits>>

(* findAddress finds the address in lastAccount...                           *)
NotifyHit(tx) ==
    /\ notify.pc = "credit" /\ tx \in notify.todo
    /\ Cached(tx[2])
    /\ notify' = [notify EXCEPT !.pc = "hit", !.cur = {tx}]
    /\ UNCHANGED <<db, hashes, txDB, lastAccount, wtx, bundles, readers, credits>>

(* ... and returns lastAccount, read again, with the position found before.  *)
NotifyCreditHit(tx) ==
    /\ notify.pc = "hit" /\ notify.cur = {tx}
    /\ tx[2][2] <= Len(lastAccount.bals)
    /\ CreditTo(lastAccount.name, lastAccount.bals, tx)
    /\ UNCHANGED <<db, hashes, txDB, bundles, readers, credits>>

(* Every entry is credited, GetTrytes(news) succeeds and the commit too.     *)
NotifyCommit ==
    /\ notify.pc = "credit" /\ notify.todo = {}
    /\ db' = wtx.img
    /\ credits' = [tx \in TxIds |->
                      credits[tx] + IF tx \in ToCredit THEN 1 ELSE 0]
    /\ wtx' = NoTx
    /\ notify' = Idle
    /\ UNCHANGED <<hashes, txDB, lastAccount, bundles, readers>>

(* GetTrytes(news) or the commit fails: the transaction is rolled back, the  *)
(* cached account keeps what was added to it.                                *)
NotifyRollback ==
    /\ "node" \in Faults \/ "commit" \in Faults
    /\ notify.pc = "credit" /\ notify.todo = {}
    /\ wtx' = NoTx
    /\ notify' = Idle
    /\ UNCHANGED <<db, hashes, txDB, lastAccount, bundles, readers, credits>>

-----------------------------------------------------------------------------
(* The process ends and is started again: memory is lost, and with it the    *)
(* bundles whose goroutines had not broadcast them.                          *)
Restart ==
    /\ lastAccount' = NoCache
    /\ wtx' = NoTx
    /\ notify' = Idle
    /\ readers' = [r \in Readers |-> Absent]
    /\ bundles' = [b \in DOMAIN bundles |->
                      [bundles[b] EXCEPT !.stage = IF @ = "pow" THEN "lost" ELSE @]]
    /\ UNCHANGED <<db, hashes, txDB, credits>>

Crash == "crash" \in Faults /\ Restart

(* aidosd is stopped, `aidosd -refresh' runs ResetDB, and aidosd is started  *)
(* again: no hash is known and every value is 0, for Walletnotify to find    *)
(* everything again.  Changes and transactions stay.  Exit closes bolt, which*)
(* waits for a write transaction to end.                                     *)
ResetBalances(bals) == [k \in DOMAIN bals |-> [bals[k] EXCEPT !.value = 0]]

Refresh ==
    /\ "refresh" \in Faults
    /\ wtx.owner = "none"
    /\ db' = [n \in Accounts |-> ResetBalances(db[n])]
    /\ hashes' = [known |-> {}, confirmed |-> {}]
    /\ credits' = [tx \in TxIds |-> 0]
    /\ bundles' = [b \in DOMAIN bundles |->
                      [bundles[b] EXCEPT !.stage = IF @ = "pow" THEN "lost" ELSE @,
                                         !.debited = FALSE]]
    /\ lastAccount' = NoCache
    /\ notify' = Idle
    /\ readers' = [r \in Readers |-> Absent]
    /\ UNCHANGED <<txDB, wtx>>

(* The position found in one account is out of range in the other: a panic   *)
(* in Walletnotify's goroutine ends the process.                             *)
NotifyPanics ==
    /\ notify.pc = "hit"
    /\ \E tx \in notify.cur : tx[2][2] > Len(lastAccount.bals)
    /\ Restart

-----------------------------------------------------------------------------
Rpc == \/ \E n \in Accounts : GetNewAddress(n)
       \/ \E n \in Accounts, v \in Payments : SendFrom(n, v)
       \/ \E n \in Accounts, v \in Payments : SendToAddress(n, v)
       \/ RpcCommit
       \/ RpcCommitFails

Mesh == \/ \E b \in DOMAIN bundles : Broadcast(b)
        \/ \E b \in DOMAIN bundles : Confirm(b)
        \/ \E a \in Addresses, v \in Deposits : Deposit(a, v)

Reading == \/ \E r \in Readers : ReaderBegin(r)
           \/ \E r \in Readers, a \in Addresses : ReaderMiss(r, a)
           \/ \E r \in Readers : ReaderFill(r)
           \/ \E r \in Readers : ReaderEnd(r)

Notifying == \/ NotifyStart \/ NotifyFind \/ NotifyCompare \/ NotifyInclusion \/ NotifyGivesUp
             \/ NotifyPut \/ NotifyBegin
             \/ \E tx \in TxIds : NotifyCreditMiss(tx)
             \/ \E tx \in TxIds : NotifyHit(tx)
             \/ \E tx \in TxIds : NotifyCreditHit(tx)
             \/ NotifyCommit \/ NotifyRollback \/ NotifyPanics

Next == Rpc \/ Mesh \/ Reading \/ Notifying \/ Crash \/ Refresh

Spec == Init /\ [][Next]_vars

-----------------------------------------------------------------------------
(* Properties.                                                               *)

Bundle == [entries : [Addresses -> Int], own : BOOLEAN, stage : Stages,
           debited : BOOLEAN]

TypeOK ==
    /\ db \in Database
    /\ hashes \in [known : SUBSET TxIds, confirmed : SUBSET TxIds]
    /\ txDB \in SUBSET TxIds
    /\ lastAccount \in [name : Accounts, bals : Seq(Balance)] \cup {NoCache}
    /\ \/ wtx = NoTx
       \/ wtx \in [owner : {"rpc", "notify"}, img : Database,
                   fresh : SUBSET Addresses, bundle : 0..MaxBundles]
    /\ bundles \in Seq(Bundle) /\ Len(bundles) <= MaxBundles
    /\ notify \in [pc : {"idle", "find", "compare", "inclusion", "put", "begin",
                         "credit", "hit"},
                   adrs : SUBSET Addresses, found : SUBSET TxIds, hs : SUBSET TxIds, conf : SUBSET TxIds,
                   news : SUBSET TxIds, newly : SUBSET TxIds,
                   todo : SUBSET TxIds, cur : SUBSET TxIds]
    /\ readers \in [Readers -> [pc : {"idle", "view", "scan"},
                                snap : Database \cup {<<>>},
                                adr : Addresses \cup {<<>>}]]
    /\ credits \in [TxIds -> Nat]

(* Whatever fails, whenever the process is restarted and until the operator  *)
(* refreshes the database, a transaction entry is added to the balances in   *)
(* the database at most once, and only after the mesh confirmed it:          *)
(* compareHashes records it as confirmed in a transaction of its own,        *)
(* committed before Walletnotify adds its value in another.                  *)
CreditedAtMostOnce ==
    \A tx \in TxIds : /\ credits[tx] <= 1
                      /\ credits[tx] = 1 => /\ tx \in hashes.confirmed
                                            /\ tx \in Entries
                                            /\ Confirmed(tx[1])

(* The database, with its three buckets written in three transactions, keeps *)
(* the order of an entry's life: stored, known, confirmed, credited, each    *)
(* once and none before its time (Ledger.tla), whatever fails between them.  *)
Abstract == INSTANCE Ledger WITH
    Ids <- TxIds, onMesh <- {tx \in Entries : Confirmed(tx[1])}, stored <- txDB,
    known <- hashes.known, recorded <- hashes.confirmed

EntriesInOrder == Abstract!LedgerSpec

(* Every hash in the "hashes" bucket has its transaction in "transactions",  *)
(* and so has every one being credited: getTXs and gettransaction, which     *)
(* look them up in another database transaction, do not miss any.            *)
HashesStored ==
    /\ hashes.confirmed \subseteq hashes.known
    /\ hashes.known \cup notify.newly \subseteq txDB

(* The balances in the database are the account of what happened: for each   *)
(* address, the value of its credited entries less the payments recorded     *)
(* there; and a change still noted belongs to an own bundle that has not     *)
(* been credited yet.  No write loses or repeats another's effect, although  *)
(* handlers and Walletnotify work on the shared lastAccount.                 *)
Ledger(a) ==
    LET credited(b) == IF credits[<<b, a>>] > 0 THEN EntryAt(b, a) ELSE 0
        debited(b)  == IF bundles[b].debited /\ EntryAt(b, a) < 0
                       THEN EntryAt(b, a) ELSE 0
    IN  SumFunction([b \in DOMAIN bundles |-> credited(b) + debited(b)])

LedgerExact ==
    \A a \in AddressesOf(db) :
        LET bal == db[a[1]][a[2]]
        IN  /\ bal.value = Ledger(a)
            /\ bal.change > 0 =>
                  \E b \in DOMAIN bundles : /\ bundles[b].own
                                            /\ EntryAt(b, a) = bal.change
                                            /\ credits[<<b, a>>] = 0

(* The wallet never promises the same coins twice: the payments it knows of, *)
(* confirmed or not, take no more from an address than the mesh has confirmed*)
(* to it.  (A refresh forgets the payments made before it.)                  *)
KnownPayment(b) == bundles[b].stage # "lost" /\ (bundles[b].debited \/ b = wtx.bundle)

NoDoubleSpend ==
    \A a \in Addresses :
        LET received == {b \in DOMAIN bundles : Confirmed(b) /\ EntryAt(b, a) > 0}
            spent == {b \in DOMAIN bundles : KnownPayment(b) /\ EntryAt(b, a) < 0}
        IN  SumAt(received, a) + SumAt(spent, a) >= 0

(* Between two rounds, what is recorded as confirmed has been credited: the  *)
(* two transactions in which Walletnotify does so do not come apart.         *)
ConfirmedIsCredited ==
    notify.pc = "idle" => \A tx \in hashes.confirmed : credits[tx] = 1

(* An address made for a caller or for change was never used before: it is   *)
(* neither an address of the database nor part of any bundle.                *)
UsedAddresses ==
    AddressesOf(db) \cup {a \in Addresses : \E b \in DOMAIN bundles : EntryAt(b, a) # 0}
FreshAddresses ==
    [][wtx.owner = "none" => wtx'.fresh \cap UsedAddresses = {}]_vars

(* "We calulate spending values first without confirmation" (transfer.go):   *)
(* a spend is subtracted when it is sent and not again when it confirms, so  *)
(* that no address gets below zero.                                          *)
SpendsCountOnce ==
    \A a \in AddressesOf(db) : db[a[1]][a[2]].value >= 0

(* Walletnotify is run again and again by main.go's loop, and a handler ends *)
(* its transaction; the locks of Go and bolt are handed on (SF).  The node   *)
(* is assumed to answer again eventually.                                    *)
NodeFails ==
    \/ NotifyGivesUp
    \/ NotifyRollback
    \/ NotifyFind /\ notify'.found # EntriesOf(notify.adrs)
    \/ NotifyInclusion /\ notify'.newly # {tx \in Unconfirmed : Confirmed(tx[1])}

LiveSpec ==
    /\ Spec
    /\ WF_vars(RpcCommit)
    /\ SF_vars(Notifying)
    /\ <>[][~NodeFails]_vars

(* However often the node failed: an entry the mesh has confirmed at an      *)
(* address of the wallet is eventually recorded as confirmed.  A round that  *)
(* is given up leaves nothing behind that hides the entry from a later one.  *)
EventuallyRecorded ==
    \A tx \in TxIds :
        (tx \in Entries /\ tx[2] \in AddressesOf(db) /\ Confirmed(tx[1]))
            ~> tx \in hashes.confirmed
=============================================================================
