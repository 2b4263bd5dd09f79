# A TLA+ model of aidosd

aidosd is a daemon that offers a bitcoind-like JSON-RPC interface to the Aidos
mesh. It keeps a wallet in a bolt database (`aidosd.db`), sends payments,
follows the mesh through a node, and runs a command when something arrives.
The repository also holds `aidos/aidos.js`, the bundled JavaScript client of
such a node, with the libraries it stands on; the daemon does not use it.

This directory models what can go wrong in both when goroutines or callbacks
interleave, when the node fails and when the process stops half way, checks the
models with TLC and proves what matters most with TLAPS. Paths are relative to
the repository.

## 1. Inventory

### The daemon

| Component | Code | State | Operations |
|---|---|---|---|
| Accounts | `aidos/accountDB.go` | bucket `accounts`; `lastAccount`, a cached account shared by all goroutines; `globalAccount` | `getAccount`, `putAccount`, `listAccount`, `findAddress`, `ListAndSelectAccount`, `RestoreAddressesFromSeed`, `RefreshAccount`, `ResetDB` |
| Hashes and transactions | `aidos/hashDB.go` | bucket `hashes` (one list of hash and confirmed state), bucket `transactions` | `getHashes`, `putHashes`, `putTX`, `getTX(s)`, `findTX`, `UpdateTXs` |
| Walletnotify | `aidos/notify.go` | a round's local variables, `ignoreAddr` | `compareHashes`, `Walletnotify`, once a minute from `main.go` |
| Payments | `aidos/transfer.go` | the account at hand, `powMutex` | `PrepareTransfers`, `Send` and its goroutine, `PowTrytes`, `broadcast` |
| RPC handlers | `aidos/apis.go`, `aidos/send_api.go` | `mutex` (RWMutex) | eight reading and five writing handlers |
| Passphrase | `aidos/send_api.go`, `aidos/aidosd.go` | `privileged`, `pmutex`, a sleeping goroutine per window | `walletpassphrase`, the senders' check |
| Queries | `aidos/apis.go`, `aidos/hashDB.go` | none of their own | `gettransaction`, `listtransactions` |
| Set-up | `aidos/initialize.go` | none of its own | `InitializeWallet`, `ScanAndRestoreAddresses`, `SetupNewAddresses`, `UpdateConfirmationState` |
| Life cycle | `main.go`, `aidos/aidosd.go` | the child process, `Control.status`, bolt's file lock | `runParent`, `runChild`, `Start`, `Stop`, `Exit`, `Prepare`, `ParseConf`, `Handle` |
| Secrets | `aidos/passwd.go` | salt and password hash in the database | AES, `password` |
| Recast | `aidos/recast.go` | none | rebroadcasting; its call is commented out |

How they interact:

- A handler takes `mutex` (shared or exclusive), then a bolt transaction (view
  or update). Walletnotify takes bolt's update lock *without* `mutex`.
- All of them reach `lastAccount`: `getAccount` prefers it to the bucket,
  `putAccount` and `findAddress` replace it, handlers change it in place.
  Nothing restores it when a transaction is rolled back.
- A payment starts a goroutine inside the sender's transaction; that goroutine
  queues for `powMutex` and never looks at the database again. What it
  broadcasts comes back through Walletnotify as entries of the wallet's
  addresses.
- Walletnotify uses three update transactions: store new transactions; store the
  states of the hashes; add the values of the newly confirmed entries to the
  balances. The node is called inside the first and the third and between them.
- `aidosd -refresh` stops all that and resets hashes and balances, for
  Walletnotify to find everything again.

### The JavaScript client (`aidos/aidos.js`)

| Component | Lines | State | Operations |
|---|---|---|---|
| Client API | 39-2217 | the chain of callbacks of each call | 30 calls, from one request (`getBalances`) to many (`sendTransfer`, `getTransfers`, `getAccountData`) |
| Bundles, signing, codecs | 2219-2872, 3399-3495, 3930-4276 | a sponge, a bundle | `addEntry`, `finalize`, `normalizedBundle`, keys, digests, signatures, trits and trytes |
| Multisig | 2922-3398 | an address's sponge, a bundle handed round | `getKey`, `getDigest`, `addAddressDigest`, `initiateTransfer`, `addSignature` |
| Input validator | 3496-3826 | none | the checks of the calls' arguments |
| Requests over HTTP | 3827-3929, 15976-16682, 17840-18546 | the request's flags, the response's buffer | `makeRequest`, `XMLHttpRequest`, `ClientRequest`, `IncomingMessage` |
| async | 4277-9733 | per call | iterators, `queue`, `cargo`, `priorityQueue`, `auto`, `waterfall`, loops, `retry`, `race`, `memoize`, `timeout` |
| Streams | 13861-15975 | buffers, flags | Readable, Writable, Transform, PassThrough, pipes |
| EventEmitter | 12307-12608 | lists of listeners | `on`, `once`, `emit`, `removeListener`, ... |
| process.nextTick | 12864-13060 | a queue, two timers | `nextTick`, `drainQueue`, `cleanUpNextTick` |
| Buffers, text, addresses | 9734-12306, 12629-12863, 13062-13860, 16683-17839 | none | `buffer`, `base64`, `punycode`, `querystring`, `url`, `string_decoder` |

A call of the client is a chain of callbacks; it builds and signs bundles,
sends its requests through `makeRequest` and an `XMLHttpRequest` whose response
is a stream, and waits for several at once with `async`. Streams put off work
with `nextTick`. All of it is one thread: what interleaves are callbacks.

### What makes each component correct

- *Payments*: the bundle balances; only positive balances are consumed, whole;
  the remainder goes to a new address; the comparison with the total is enough;
  what was sent goes out, as one attachment.
- *Accounts*: the balances are the sum of what happened; no write is lost or
  repeated; an address index is never derived twice.
- *Walletnotify*: every confirmed entry is credited exactly once, recorded
  eventually, and its transaction is stored.
- *Handlers*: writers are alone; every call returns.
- *Passphrase*: unlocked exactly inside the windows that were asked for.
- *Client*: one answer for each call, and one that tells what became of it;
  bundles that verify; addresses that were unused.
- *Libraries*: bytes and functions in order, once, none forgotten; a callback
  once, with the results at their places.

What is hard about them is in `PROJECT.json` under hazards, with the lines and
the properties that are about each.

## 2. Modules

| Module | What it is | Rests on |
|---|---|---|
| `Spending` | which balances a payment consumes, in closed form | |
| `Transfer` | `PrepareTransfers` as the loops it is | `Spending` |
| `Wallet` | database, cache, handlers, broadcasting goroutines, Walletnotify, mesh, crash, refresh | `Spending` |
| `Ledger` | abstract specification: the life of an entry; `Wallet` implements it | |
| `PowQueue` | `Send`'s goroutines under `powMutex`, with their retries | |
| `RpcLocks` | `mutex`, bolt's writer lock and open views, and who waits for whom | |
| `Passphrase` | `privileged` and its windows | |
| `SpendingProofs` | lemmas on sums over finite sets and on the closed form of a payment | `Spending` |
| `AlgorithmProofs` | theorems on `Transfer`, `SearchSteps`, `HashChains`, `Multisig` and the codecs | these, `TxObject`, `SpendingProofs` |
| `WalletProofs`, `HttpProofs` | theorems on the module each is named after | it |
| `LedgerProofs` | theorems on the balances of `Wallet` | `WalletProofs`, `SpendingProofs` |
| `HandlerProofs` | theorems on `RpcLocks`, `Passphrase` and `PowQueue` | the three |
| `AsyncProofs` | theorems on `AsyncQueue`, `AsyncFlow`, `AsyncAuto` and `AsyncEach` | the four |
| `NodeProofs` | theorems on `Ticks` and `Events` | both |
| `Trinary`, `TxObject`, `Signing`, `Bundle`, `Validator`, `AddressSearch` | the pure functions of the client | each other |
| `SearchSteps` | `getNewAddress` question by question, on a mesh that stays as it is | `AddressSearch` |
| `HashChains` | what follows from one fragment of a signature: hashing its blocks on, as `digest` does | `Signing` |
| `Text`, `Decoder` | the conversions of `buffer` and `base64` between bytes and text; `StringDecoder`, which reads text that comes in chunks | each other |
| `Multisig` | several cosigners, one address, one bundle | `Signing`, `Bundle` |
| `ClientCalls`, `Requests` | every call of the client as its chain of callbacks | `Bundle`, `AddressSearch` |
| `Client` | calls in progress, a node and a mesh that change between requests | `Requests` |
| `Http` | one command to a node | |
| `Streams`, `Pipes` | streams; sources, sinks and users of pipes | |
| `Ticks` | `process.nextTick` | |
| `Fifo` | abstract specification: each reader gets what was sent, in order, once; `Pipes` and `Ticks` implement it | |
| `Events` | `EventEmitter` | |
| `AsyncEach`, `AsyncQueue`, `AsyncAuto`, `AsyncFlow` | async's iterators, queues, auto and flows | |
| `MCAlgorithms`, `MCWallet`, `MCProgress`, `MCClient`, `MCLibrary`, `MCRpcLocks` | the bounds and inputs of the runs | |

`MCAlgorithms`, `MCProgress` and `MCLibrary` put modules that do not interact
side by side: a variable `part` says which one a behaviour is about, and the
others rest in one of their initial states.

### Transfer

One step is one iteration: `AddUp` of `totalValueWithChange`, `CompareTotal` for
the test that refuses a payment, `PassOver` and `TakeInput` of `addRemainder`.
`before` and `balances` are `Account.Balances` at the start and now, `total` the
variable of that name, `net` the sum of the bundle's entries, `sum` the partial
sums of `t`. An account is a sequence of value and change; addresses, signatures
and tags are left out. Values may be negative, because in this program they
can be (section 5).

### Wallet

| TLA+ | Go |
|---|---|
| `db`, `hashes`, `txDB` | the three buckets, as committed |
| `wtx` | the one open `db.Update`, with the image it will commit |
| `lastAccount` | the variable |
| `bundles` | the bundles of the mesh and of the goroutines of `Send` (external), by stage: `pow`, `mesh`, `confirmed`, `lost` |
| `notify` | Walletnotify's program counter and local variables: `adrs`, `found` is `extras`, `hs` and `conf` the list of hashes and states, `news`, `newly` is `confirmed`, `todo` the entries not credited yet, `cur` the one whose address was found in the cache |
| `readers` | for each reading handler the snapshot of its `db.View` and the address it looks for |
| `credits` | history: how often each entry's value was committed to the balances since the last refresh |

Actions: `GetNewAddress`, `SendFrom` (sendmany, sendfrom) and `SendToAddress`
run a writing handler up to its commit, in one step: it holds `mutex`
exclusively and bolt's lock, and nobody can see inside except through the cache,
which Walletnotify only touches inside an update transaction and readers only
under `mutex`. `RpcCommit` and `RpcCommitFails` end it. `Broadcast`, `Confirm`
and `Deposit` are the goroutine and the world. `Reader...` is `findAddress` in
a reading handler, in two steps, since Walletnotify can run between its test of
the cache and its assignment. `Notify...` is Walletnotify, cut wherever another
goroutine or the node can come in between: the view, the node's answer, the three
transactions, the question for inclusion states, each entry credited (in two
steps when the cache has the address: `findAddress` reads `lastAccount` twice).
`Crash` and `NotifyPanics` restart the process; `Refresh` is `aidosd -refresh`
between a stop and a start.

An address is the pair of account and position, because the k-th address of an
account is derived from its seed and k. An entry is the pair of bundle and
address. Signature fragments of value zero are left out. Payments go to outside
addresses; a payment of nothing does not touch the account and is left out. The
database starts empty, which is what a set-up interrupted at its prompt leaves;
the usual set-up, which makes one account with one address, is a
`GetNewAddress`.

`Ledger` is what the three buckets promise together: an entry's life is stored,
known, recorded as confirmed, credited; it may stop on the way, never skips a
stage or repeats one, and only a refresh takes it back. `EntriesInOrder` says
that `Wallet` implements it: `onMesh` is what the mesh has confirmed, `stored`,
`known` and `recorded` are the buckets.

### PowQueue

One step is one call of the goroutine of `Send`: the lock, the two tips, the
proof of work for one transaction, store, broadcast, and the sleep of three
minutes after whatever failed; a call to the node may fail before or after it
was carried out. A transaction is what it points to and whether its nonce is
valid. `Wallet` has all this as its one step `Broadcast`; what `PowQueue` adds
is that nothing but the queue for `powMutex` is between a bundle and the mesh,
and that retrying never attaches a bundle twice. It ends with the process: a bundle
whose proof of work is running then is lost (section 5).

### RpcLocks

A client makes calls of one kind, one after another: plain readers, reentrant
readers (`getbalance` and `listaddressgroupings`, whose `getBalance` locks
again), writers. The RWMutex is written out as Go's is: a `Lock` that is first
in line shuts readers out (`Announce`), waits for those inside (`Lock`), and
`Unlock` admits the readers that waited. Inside, a reader opens a `db.View`
(`gettransaction` may open two), a writer a `db.Update` (`importwallet` two),
unless its params are refused; Walletnotify's round is a view and up to three
updates without `mutex`. A reentrant reader asks for its second `RLock` with its
view open. Bolt has one update at a time; one that makes the file larger
(`Grow`, at any moment of an update) has it mapped anew, for which it waits until
no view is open (`Remap`), and meanwhile no view begins. That lock of bolt's,
`mmaplock`, is what lets a reader that waits for `mutex` stop Walletnotify, which
never takes it.

### Passphrase

Windows are the goroutines of `walletpassphrase`, by age: starting, open, over.
Time is left out: an open window may close at any moment, which covers every
choice of seconds.

### The client's calls

`ClientCalls` has one operator for each callback: it takes the variables the
function has captured and the answer to the request, and gives the next
requests, the answer to the user, or an exception. A chain is the sequence of
such frames, so nested calls (`sendTransfer`, which is `prepareTransfers`,
`sendTrytes`, `broadcastAndStore`) are frames on frames. `Client` keeps for each
call its open requests (`asks`) and answers, and for the node what is in its
pool, stored, broadcast and confirmed. One step serves one request and runs the
callback to the next; `Arrive` and `Confirm` change the mesh between two, `Fail`
loses a request, or its answer after the node has carried it out.

An exception inside a callback reaches nobody: the user's callback is not run
(`Heard` leaves it out of the answers). One that is thrown while the call is made
reaches the user, who called. Two paths of the code use a name that is declared
nowhere, and throw (`MeetsUndeclared`); two loops call back and go on
(`RefusedInLoop`). `EventuallyAnswered` and `AnsweredAtMostOnce` except these and
say that there are no others; `CallsBackOnce`, in the run `unanswered`, has no
exception (section 5).

In `Multisig` a cosigner may also be asked to sign for a place beyond the bundle's
entries (`AddSignatureBeyond`): the first half of the signature overwrites the
remainder's message and the second throws (3283, 3310).

`Curl` is taken as a function without collisions, so a hash is what was
absorbed. A link of a signature's hash chain is its height; what an observer
can do is to raise it.

### The libraries

`Streams` is written as the code runs: each function of Readable, Writable and
Transform is an operator from a world to the world after it, and `Do` performs
one call; only what waits for `nextTick`, the source or a sink is left to a
step of `Pipes`. The user pauses, resumes, unpipes, corks and reads between any
two. `Events`, the `Async...` modules and `Http` have one action for each point
at which foreign code may run: a listener, an iteratee or worker that calls
back at once or later, the browser. `Ticks` has the two timers, and functions
that throw. `increasedAwaitDrain` (14580) of `Streams` matters only to a sink that
pushes to its source from inside its own `write`, which no sink here does.

`timeout` is one wrapper for all callers, with one callback, one `timedOut` and a
timer for each call. Three histories say what the callers may expect: which of
them had their answer while their timer ran (`inTime`), which called when an
earlier call had timed out (`stale`), and whether two were ever under way at once
(`overlapped`). `FlowIsRight` gives a caller its answer just when it came in time
and nothing had timed out before; what the docs promise of the rest, and the
code does not keep, is `InTimeIsAnswered` and `OwnAnswer` (section 5).

## 3. Runs

| Run | Question | Bounds |
|---|---|---|
| `algorithms` | `SignedIsBalanced`, `NeverRunsOut`, `OnlyDrains`, and `LoopMatchesClosedForm`: the operators `Wallet` uses for a payment are what the loops do. `SpendableWhenAllSigned`: cosigners who sign in any order. `CodecsInvert`, `NoSignatureFollows`, `SearchFindsFirst`, `PartsStay`: the pure functions against what they are for | every account of up to three addresses with values -1..3, payments -1..7: no input, an exact match, a surplus in the first and a later input, skipped addresses anywhere, refusal. Two cosigners, four signatures, also at places that are not theirs and beyond the last. Numbers -400..400 in six trits; fragments of three letters -13, -7, 0, 2 and 13, which normalize up, down and not at all, and every way to hash a signature on up to the tops of its chains; every run of used addresses beyond twice the stride; texts of up to four characters, of one to four bytes each, and twelve bytes in base64, cut into chunks in every way |
| `wallet_ledger` | `LedgerExact`, `NoDoubleSpend`, `ConfirmedIsCredited`, `FreshAddresses`; no faults and no readers, but refreshes | one account with three addresses, three bundles, values 1 and 2: a deposit, a payment with remainder and a payment of the remainder |
| `wallet_faults` | `EntriesInOrder` (Wallet implements Ledger), `HashesStored`; every fault and a reader | two accounts, the least for the cache to hold the wrong one; two bundles, so that one is confirmed while the other is credited |
| `wallet_live` | `EventuallyRecorded`; a failing node and a reader | one account, two addresses, two bundles |
| `progress` | `WriterAlone`, `OnlyReentryDeadlocks`; `UnlockedInWindow`, `LocksAgain`; `EveryBundleGoesOut`; `TicksAreFifo`, `EveryTickRuns`; `ResultIsWhole`, `CommandIsAnswered` | a plain and a reentrant reader and two writers, so that writers queue behind each other with readers in between, and Walletnotify; any update may grow the file; two callers, three windows; two bundles, one with a transaction that points to another, two tips; five functions; two pieces of a body in five modes of reading |
| `client` | `AnsweredAtMostOnce`, `AnnouncedIsValid`, `AnswerTellsTheFate`, `NewAddressWasFirstUnused`, `QuietAnswersAreExact`, `EventuallyAnswered` | every call alone with arguments that are accepted or refused, and pairs of those that may disturb each other; among them a batch of two pieces, unknown hashes, keys that are refused and bundles whose indexes are wrong; a payment by others, a confirmation and a failure at any moment |
| `library` | `PipeIsFifo`, `FinishIsLast`, `Backpressure`, `NothingStalls`; `ListenersAreCalled`; `EachIsRight`, `TasksRunOnce`, `AutoIsRight`, `FlowIsRight` | three chunks with marks of two bytes, so that buffers fill; one sink, two, or a PassThrough; two listeners, four calls; four elements, three tasks, graphs of three tasks, two callers of a function with a timeout |
| `spends_twice`, `node_fails_in_credit`, `reader_overwrites`, `notify_blocked`, `unanswered` | disagreements of the code with its comments and docs (section 5) | the least that shows them: one account; one reader and one writer of each kind; one call |

`MaxBundles`, `MaxAddrs`, `MaxWindows`, `MaxLen`, `MaxTicks`, `MaxOps`,
`MaxCalls` and the other constants named `Max...` only keep the state space
finite. `FragmentSize`, `Stride`, `MaxSpan`, `BatchSize`, `FragmentLen` and the widths in
`TxObject` are constants of the code, made small.

`wallet_ledger` has no faults and no readers because each of them breaks one
of its properties: that is what `node_fails_in_credit` and `reader_overwrites`
show. `wallet_faults` keeps what holds nevertheless.

Deadlock is checked except in configurations that say `CHECK_DEADLOCK FALSE`,
where a system may really stop: a payment is computed, every bundle is out,
every call is answered, a reader waits for itself.

### Fairness

- `Wallet`'s `LiveSpec`: `main.go`'s loop runs Walletnotify for ever, and
  what it waits for, bolt's lock, is a `sync.Mutex`, which since Go 1.9 hands
  itself to a goroutine that has waited for long: strong fairness of `Notifying`.
  A handler's transaction ends (weak fairness of `RpcCommit`). The node may fail
  any number of times, but not for ever. Nothing is assumed of callers, readers,
  commits that fail or the mesh.
- `RpcLocks`' `Fairness`: a call once started goes on, and so does a round of
  Walletnotify; no call need be refused, and no call or round need ever start.
  Strong fairness of a client's and of Walletnotify's steps (`Reads`, `Writes`,
  `Round`), because each is possible again and again while it waits: the locks are
  `sync.Mutex`es, which are handed to who has waited for long; a remap lets the
  waiting views in before the next; an update grows the file a few times at most,
  and then ends. `Remap` is weakly fair: when no view is open it goes on.
- `Passphrase`: a goroutine runs and a sleep ends.
- `PowQueue`'s `PowFair`: goroutines go on, and what fails does not fail for
  ever; the code tries every three minutes without end. That `powMutex` is
  handed on fairly is not assumed: each bundle takes it once.
- `Ticks`: timers fire, and a loop that runs goes on. `Http`: the browser and
  the timers go on (`Progress`); no particular answer is promised. `Client`: the
  node serves a request, or it fails.

In `MCProgress` the parts that rest have no fair step.

## 4. Proofs

All theorems hold for every value of the constants, from the assumptions named
in the modules (`TransferAssumption`, `SearchAssumption`, `SigningAssumption`,
`ChainAssumption`, `BundleAssumption`, `TxObjectAssumption`,
`MultisigAssumption`, `WalletAssumption`, `RpcLocksAssumption`,
`PassphraseAssumption`, `PowAssumption`, `TicksAssumption`, `HttpAssumption`,
`QueueAssumption`, `FlowAssumption`, `AutoAssumption`, `EachAssumption`,
`EventsAssumption`): bounds are natural numbers, values numbers, letters of a
hash -13..13, cosigners have different seeds, by which they are known, and ask
for no negative value; a field has up to 27 letters, and of a value no more are
read than are written; sets of clients are disjoint; a bundle has a transaction,
a stride, a limit and a concurrency are at least one; what tasks of `auto`
depend on are tasks, finitely many; the types of events (the keys of an object)
are finitely many and "error" and "removeListener" among them. Four theorems of
`LedgerProofs` have a hypothesis besides.

- `SpendingProofs`: what the others need of sums. The prover cannot be given an
  induction theorem for a formula, but it can be given a set of numbers and its
  least element; so each induction is over the sizes for which the claim fails.
  A sum over a finite set is a recursive function that CHOOSE has picked, and
  the first lemma shows that there is one to pick. From there: a sum with an
  element more or less, of equal terms, of terms that are not negative; and that
  a payment the total covers has exactly one last input.
- `AlgorithmProofs`: `BundleBalanced`, `CheckSuffices`, `WalkDrains`,
  `ClosedFormIsRight`. None of the properties is inductive: that the walk is
  never short follows only because at position i it has taken exactly
  `sum[i-1]`, the first loop's partial sum (`SumsRight`, `Walking`). The last
  one says that `Spending`'s operators, which `Wallet` computes a payment with,
  give what the loops do: the walk stops at the only position that is a last
  input.
  `NewAddressIsUnused` and `SearchNarrows` are about `getNewAddress`: between two
  questions the search is at the lowest unused index it knows or at the highest
  used one, with half the distance to go (`Halving`); at distance one it is over.
  What it ends at is unused (`NewAddressIsUnused`), and when the addresses that
  are used follow each other, and the index it is given is one of them or 0, it is
  the first unused one. With another index it is not: the index counts as used
  without having been asked about (section 5).
  `SignaturesAreIncomparable`: hashing on only raises the links of a fragment,
  so what follows from a signature is the signature of letters that are nowhere
  larger (`ChainInv`). Of two normalized fragments none is so below another,
  since both sum to zero: `normalizedBundle` moves a letter by one as often as
  the sum says, and as long as the sum is not zero there is a letter that can
  move (`LoweredStep`, `RaisedStep`).
  `SpendableBySigners`: the sponge holds the halves of the cosigners' digests in
  the order they were added (`Halves`), from which it can be told who they are.
  The two entries of a cosigner carry nothing, or what the last one who signed
  there put in (`CarriesAll`), and the entries are found from the first that is
  negative at the address (`InputPlaceIs`). Signing and verifying hash a block 26
  times together, whatever its letter, so a verifier comes to the halves of those
  who signed (`VerifiesTo`): these give the address just when they are the same
  cosigners in the same order. The one transfer's message fits into its own
  entries (`FragmentsFit`), so none of it is where signatures go.
  `NumbersComeBack`, `TrytesComeBack`, `TextComesBack`, `FieldsComeBack` and
  `TransactionComesBack`: what the codecs write is read again, for every integer,
  text and transaction, which `CodecsInvert` shows of small ones. The trits of a
  number are one trit and then those of a smaller number (`DigitsStep`), a trit
  in front of a list triples what the rest says (`ValueOfFirst`), and zeros
  behind it say nothing (`ValueOfPadded`). Three trits are one letter and no
  other (`LetterOfThree`), and in what is joined from pieces of one width
  everything has its place (`FlattenBlocks`). A value that needs more trits than
  `transactionObject` reads has a letter other than 9 among those it checks
  (`FieldSticksOut`), so it is refused.
- `WalletProofs`: `CreditedOnce`, `StoredHashes`, `ControlTypes` and
  `ImplementsLedger`. The strengthening follows an entry through a round. While
  compareHashes works on its copy of the hashes, the copy is the bucket
  (`CopyIsRight`), since nobody else writes it. What it finds newly confirmed is
  therefore not recorded (`NewlyIsRight`), and what is not recorded has never
  been credited (`CreditsRight`); after the second transaction it is recorded,
  so no later round takes it up, and it is still uncredited until the third
  commits. Faults and restarts only forget a round. `Witnessed` keeps what the
  node said true: bundles stay on the mesh and stay confirmed (`BundlesGrow`).
  `ImplementsLedger` then maps every step: compareHashes' transactions to
  `Store` and `Record`, the third to `Credit`, `Confirm` to the mesh, a refresh
  to `Forget`, and everything else to a stutter.
- `LedgerProofs`: `WalletTypes`, without a hypothesis, and that the money is
  right.
  - `LedgerIsExact` needs `Reliable`: no reading handler runs, and neither the
    node nor a commit fails. Crashes at any step and refreshes are allowed. A
    rollback leaves in the cache what was credited in vain, and a reader may put
    an older account there (`reader_overwrites`); the next write saves either.
    The invariant, `Balanced`, keeps two ledgers, one for the database and one
    for the image an open transaction will commit: in each a balance is what was
    credited less what was debited, and a change that is noted belongs to an own
    entry still to be credited (`DatabaseExact`, `ImageExact`). The cached
    account is the image's (`CacheIsRight`).
  - `ConfirmedGetCredited` needs `Untroubled`: nothing fails but what `aidosd
    -refresh` resets. A crash between Walletnotify's second and third
    transaction loses a credit, and so does a rollback of the third
    (`node_fails_in_credit`). `RecordsCredited`, beside `Balanced`, says that
    what is recorded was credited or is on Walletnotify's list.
  - `NothingSpentTwice` needs only that no reading handler runs: the node and
    commits may fail, and the process may stop at any step. What fails may leave
    a balance too low or a cached one that the database does not have, but none
    that lets coins be promised twice. The invariant, `Solvent`, bounds every
    copy of an account from above, the database's, the image's and the cached
    one: a balance is at most what is recorded as confirmed at its address
    (`Settled`: the entries a running round is still to credit left out) less
    the payments that copy knows of (`Backed`). So what a rollback leaves in the
    cache is no more than what the committed record allows, and a payment, which
    takes an input whole, takes no more than is there (`PaymentsCovered`). A
    reader breaks it, because it may bring back a balance that is already spent.
  - `AddressesAreFresh` needs `WritesEnd`: no commit fails and the process is
    not killed (a stop that waits for bolt, as before a refresh, is allowed).
    Else a goroutine that was started before the commit leaves a payment on the
    mesh whose remainder is on an address that the wallet makes again. Readers
    and a node that fails do no harm: the copies of an account may differ in
    their values, but not in their lengths (`LengthsRight`), from which the next
    position is taken, and every address of a bundle is one the database has or
    is about to have (`EntriesKnown`).
- `HandlerProofs`: `WriterIsAlone`, `OnlyInWindow` and `OneAttachment`. `held` is a function of
  where a call is (`ReadersInStep`), and `Exclusion` says that a writer that has
  the lock found it zero everywhere. Where no passphrase is asked for the wallet
  is unlocked, so no call ever gets as far as starting a window, so none ever
  locks it (`NeverAsked`). `OneAttachment` is the safety half of
  `EveryBundleGoesOut`: behind the transaction at work the attempt is chained to
  its tips (`Chained`), which are still its own because it holds `powMutex`
  (`Held`); nothing is stored before an attempt succeeds, and its transactions
  do not change after (`Kept`).
- `HttpProofs`: `CommandGetsTheWhole`. The text has the first pieces of the body,
  the queue those after them, up to the last that was pushed (`Stretch`,
  `TextRight`); a response ends when all that came was pushed, which is
  different in each mode of reading (`Heard`, `ResponseRight`), so the text is
  whole when the end is heard. `CallsRight` says that an error and the end keep
  each other out: an error is heard of while the end is still to come, and then
  it does not come.
- `AsyncProofs`: `QueueRunsTasksOnce`, `FlowsAnswerOnce`, `AutoRunsTasksInTurn`
  and `IteratorsAnswerOnce`. A task of a queue waits, or is
  in one load, or was called back (`WaitingOnce`, `TakenOnce`), in order of
  priority because a push goes before the first that is later, which there is
  only if some are. That none is forgotten is `ProcessComes`: whatever fills the
  list or frees a worker also sets `process`, and it ends only when it may take
  nothing more. A flow is one task, one timer of `retry`, or its answer
  (`RunsInTurn`), a race its first answer (`RunsAtOnce`). Who waits for a memo is
  in the queue of its key, which is empty once the memo is there (`MemoRight`);
  as long as calls of a timeout do not overlap its one timer is the last
  caller's, and who has none got its answer if that came in time and nothing had
  timed out before it called, and else the timeout (`LimitRight`).
  - `auto` takes the tasks of a set `C` from its stack; what it has left to check
    of a task is the number of names that are not of `C` (`Checked`). No task of
    a set that waits for each other gets into `C` or on the stack, so if there is
    one the count comes short; if there is none and no task names another twice,
    the tasks outside `C` would wait for each other, so there are none. A task is
    ready, running or has called back once all it depends on has (`InTurn`), so
    when nothing is ready or running, all have.
  - The iterators keep what the loop counts and what the consumer has gathered
    apart. A limited loop counts the iteratees under way, `eachOfArrayLike` those
    that have called back (`LoopRight`); either way the loop goes on while the
    callback has not been called, and it is called when the last iteratee calls
    back. A consumer has what all others have called back (`GatheredRight`), so at
    that moment it has the whole, whatever the order. In a series only the element
    before `next` can be under way, so `concat`, `reduce` and `detect` get theirs
    in order. `Sorts` says that a sequence of different numbers can be sorted; its
    permutation comes from the rank of each number, without induction.

- `NodeProofs`: `TicksImplementFifo` and `EveryListenerIsCalled`. For `nextTick`,
  what ran, the rest of what the loop took and what waits are consecutive numbers
  without a gap (`InStep`), whatever throws; of flags and timers only `draining`
  has a part in it. An emit under way owes the listeners registered since it
  began, and finds them ahead in its own copy (`Owes`). The wrapper of a `once()`
  has run once if it is in `fired`, and else not at all (`HistoryRight`). A list
  that `removeAllListeners` empties is the emitter's, or one that another removal
  dropped with its listeners in it, or empty (`Empties`); so if it has a last
  listener and `removeListener` does not find that one, it was dropped, and only
  then does the loop not end. What keeps `Empties` true when a removal ends and
  takes the list of the type away is that of two removals of one type under way
  the inner one has the emitter's list if the outer one has (`InTurn`).

Only model-checked: liveness (`EventuallyRecorded`, `OnlyReentryDeadlocks`,
`LocksAgain`, `EveryTickRuns`, `CommandIsAnswered`, `EventuallyAnswered`, and
that bundles go out), which TLAPS cannot prove; what `Client`, `Pipes` and
`Decoder` do, which are written with recursive operators, as the code is; the
other pure functions: `CodecsInvert` for texts that come in chunks, which is
about `Decoder`, and `PartsStay` with the folds over a bundle's messages.

## 5. What the runs found

- `spends_twice`: an input is subtracted when it is sent and again when its
  negative entry confirms, so the address goes below zero and swallows a later
  deposit.
- `node_fails_in_credit`: the third transaction is rolled back when
  `GetTrytes(news)` fails, but the states are committed, so the credit is lost.
  The same with a crash between the two.
- `reader_overwrites`: a reading handler may put the account of an older
  snapshot into the cache after Walletnotify has credited it; the next write
  saves it.
- `notify_blocked`: `getBalance`'s second `RLock` (`apis.go:108`) and a writer wait
  for each other for ever, and every later call for both. `getBalance` then has a
  `db.View` open (132, 185), and the next update of Walletnotify that has to make
  the file larger waits for it in bolt, so nothing is credited any more.
  `OnlyReentryDeadlocks` shows that this is the only deadlock, and all that stops
  Walletnotify.
- `unanswered`: calls of the client whose callback does not run once. TLC stops at
  the first; `Plans` in the configuration may name one kind by itself.
  - `OnePayment`: when `broadcastTransactions` or `storeTransactions` fails,
    `sendTransfer` and its like never call back (648, 703).
  - `OneGetInputs`: nor does `getInputs` when `getBalances` fails: its callback reads
    the balances of an undefined answer (1100). `prepareTransfers` with given inputs
    (1281) and `getAccountData` (1925) do the same.
  - `OneBatch`, `OneUnknown`: `batchedSend` after the first of several pieces (149)
    and `getTransactionsObjects` at an unknown hash (579) use undeclared names and
    throw in a callback: no request fails, and no answer comes.
  - `OneMalformed`: `findTransactions` calls back for every key or hash it refuses,
    sends the request all the same (252-281), and calls back with its answer.
    `getBundle` calls back for every misplaced transaction (1592-1634).

Four more promises of docs and comments are stated as invariants that the code
breaks. They are in no configuration; TLC refutes the first two when they are
added to `Algorithms.cfg`, the others in `Library.cfg`.

- `SearchStartsAtIndex`: `getNewAddress`, which is given the "Key index to start
  search from" (886), never asks about that index and never returns it (937, 943):
  from an unused 5 it goes to 6. Only at 0 does it get back to where it began (961).
- `MessagesAlwaysStay`: a message of exactly two fragments, or three, gets an entry
  more than it has fragments (1207), and the messages of later transfers move to
  other transfers' entries; "If message longer than 2187 trytes, increase
  signatureMessageLength" (1203). `PartsStay` says what holds for all other lengths.
- `InTimeIsAnswered`: after one timeout of a function wrapped by `timeout` all its
  later calls are reported as timed out, in time or not (9140, 9158); the doc has
  them answered with "their expected values" (9132-9136).
- `OwnAnswer`: of two calls of such a function under way, the answer to the first
  goes to the second's callback, and the first's never runs (9164), although it may
  be called like the function it wraps (9122-9124).

Besides, seen while modelling, where no doc or test says otherwise:

- The broadcasting goroutine starts before the sender's commit; when the process
  ends in between, the mesh has a payment that the wallet does not know.
- A bundle whose proof of work was running, or waiting for its turn or for the
  next try, when the process ended is in no bucket (`transfer.go:260`): its inputs
  stay debited and it is never sent. `EveryBundleGoesOut` is about a process that
  goes on.
- A commit that fails leaves the new address in the cached account or not, by who
  loads it next; the position may be given out twice. `FreshAddresses` is about
  commits that succeed.
- A payment right after a successful `walletpassphrase` may be refused, because
  the goroutine that unlocks has not run; and one that passed the check may be
  made long after the window has closed.
- `importwallet` ends in `RefreshAccount`, which records hashes without storing
  their transactions; until `UpdateTXs` runs at the next start, a round that
  finds one of them confirmed fails, and what it would credit is already in the
  balances that came from the node.
- `StringDecoder` of `aidos.js`, "guaranteed to not contain any partial
  multi-byte characters" (16779), loses text in UTF-16: a chunk with a character
  before the lead surrogate it ends in keeps the chunk's first two bytes instead
  of the surrogate's (16855). `"A\uD83D"` and then `"\uDE00"` give `"AA\uDE00"`.
  `CodecsInvert` excepts texts with such a chunk. Nothing in the client sets an encoding.
- `resume_` of a stream runs in a later tick and forgets the sinks the source waits
  for (14766): a source resumed late starts while a sink is full. `Backpressure`
  and `NothingStalls` except it (`Hurried` in `Pipes`).
- `getTransfers` takes a bundle's state from the attachment the node names first;
  of a replayed bundle another one may be the confirmed (1754).
  `QuietAnswersAreExact` leaves the state of replayed bundles open.

## 6. Not modelled

- Taking balances from the node: `RestoreAddressesFromSeed`, `RefreshAccount`,
  `ScanAndRestoreAddresses`, `UpdateConfirmationState`, `importwallet`. What
  they leave depends on four different answers of the node at four moments, and
  nothing says what it should be.
- `account_no` and `globalAccount`, the second copy of one account.
- What `gettransaction` and `listtransactions` answer (their effect on the cache
  and on the locks is modelled), `findTX`, and the `UpdateTXs` migration.
- In Walletnotify: requests in chunks, the ignore list's counter, the external
  command.
- Payments of nothing and payments to own addresses.
- The conversion of decimal amounts, which is floating point.
- Parent, child and control server; their effect, a stop or a restart at any
  step, is in `Wallet` and `PowQueue`.
- Cryptography (`passwd.go`, Curl beyond freedom from collisions), the terminal
  dialogue of `InitializeWallet`, log files, the daemon's HTTP transport,
  `recast.go`, whose only call is commented out.
- In `aidos.js`: third-party conversions without state of their own (`buffer`
  beyond what `Text` has of it, `ieee754`, `punycode`, `querystring`, `url`),
  `convertUnits` (BigNumber) and checksums, synchronous and file requests, object
  mode and encodings of streams, and of `async` the lodash helpers, `applyEach`,
  `seq`, `compose`, `reflect`, `dir` and `log`.

## 7. What could come next

`importwallet` beside Walletnotify, once it is decided what the balances after
it should be; `globalAccount` as a second copy of an account; `findTX` and
`gettransaction` between compareHashes' transactions; `Streams` with recursive
functions for its recursive operators, so that `Pipes` can be proved about.
