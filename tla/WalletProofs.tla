---------------------------- MODULE WalletProofs ----------------------------
(* What Walletnotify's two-step bookkeeping guarantees, for any number of    *)
(* accounts, addresses, bundles and readers, and whatever fails.             *)
(*                                                                           *)
(* The argument follows an entry through a round.  compareHashes considers   *)
(* as newly confirmed only what its copy of the "hashes" bucket does not     *)
(* have as confirmed, and nothing else writes that bucket, so the copy is    *)
(* still right when it is written back; from then on the entry is recorded,  *)
(* so no later round considers it again, while no earlier one can have       *)
(* credited it.  A round given up, or a restart, only forgets the entries.   *)
(*                                                                           *)
(* The values of the balances play no part in this, and the type invariant   *)
(* proved here leaves them out: LedgerProofs has them.                       *)
EXTENDS Wallet, TLAPS, SequenceTheorems

IsBundle(x) == x = [entries |-> x.entries, own |-> x.own,
                    debited |-> x.debited, stage |-> x.stage]

BundleSeq == /\ bundles \in Seq({bundles[b] : b \in DOMAIN bundles})
             /\ \A b \in DOMAIN bundles : IsBundle(bundles[b])

NotifyType ==
    notify \in [pc : {"idle", "find", "compare", "inclusion", "put", "begin",
                      "credit", "hit"},
                adrs : SUBSET Addresses, found : SUBSET TxIds, hs : SUBSET TxIds, conf : SUBSET TxIds,
                news : SUBSET TxIds, newly : SUBSET TxIds,
                todo : SUBSET TxIds, cur : SUBSET TxIds]

ControlTypeOK ==
    /\ hashes \in [known : SUBSET TxIds, confirmed : SUBSET TxIds]
    /\ txDB \in SUBSET TxIds
    /\ NotifyType
    /\ credits \in [TxIds -> Nat]
    /\ BundleSeq

(* What the node told is still true: bundles do not lose entries, and a      *)
(* confirmed one stays confirmed.                                            *)
Witnessed ==
    /\ txDB \cup notify.found \subseteq Entries
    /\ \A tx \in hashes.confirmed \cup notify.newly : Confirmed(tx[1])

(* compareHashes' copy of the bucket, while it is away from the database.    *)
CopyIsRight ==
    notify.pc \in {"inclusion", "put"} =>
        /\ notify.hs = hashes.known
        /\ notify.conf = hashes.confirmed
        /\ notify.news \subseteq txDB

(* Where the entries of the round are, step by step.                         *)
NewlyIsRight ==
    /\ notify.pc \in {"idle", "find", "compare", "inclusion"} => notify.newly = {}
    /\ notify.pc = "put" => /\ notify.newly \cap hashes.confirmed = {}
                            /\ notify.newly \subseteq notify.hs \cup notify.news
    /\ notify.pc \in {"begin", "credit", "hit"} =>
          /\ notify.newly \subseteq hashes.confirmed
          /\ \A tx \in notify.newly : credits[tx] = 0

CreditsRight ==
    \A tx \in TxIds : /\ credits[tx] <= 1
                      /\ credits[tx] > 0 => tx \in hashes.confirmed

IInv == /\ ControlTypeOK
        /\ HashesStored
        /\ Witnessed
        /\ CopyIsRight
        /\ NewlyIsRight
        /\ CreditsRight

(* What any step may do to the bundles.                                      *)
BundlesGrow ==
    /\ BundleSeq'
    /\ DOMAIN bundles \subseteq DOMAIN bundles'
    /\ \A b \in DOMAIN bundles :
          /\ bundles'[b].entries = bundles[b].entries
          /\ bundles[b].stage = "confirmed" => bundles'[b].stage = "confirmed"

(* A function over the positions of a sequence is a sequence.                *)
LEMMA SeqOfFunction ==
    ASSUME NEW n \in Nat, NEW f, DOMAIN f = 1..n, f = [b \in DOMAIN f |-> f[b]]
    PROVE  f \in Seq({f[b] : b \in DOMAIN f}) /\ Len(f) = n
<1>1. f \in [1..n -> {f[b] : b \in DOMAIN f}]
  OBVIOUS
<1> QED
  BY <1>1, IsASeq

(* Appending a bundle keeps the others.                                      *)
LEMMA AppendGrows ==
    ASSUME BundleSeq, NEW x, IsBundle(x), bundles' = Append(bundles, x)
    PROVE  BundlesGrow
<1> DEFINE S == {bundles[b] : b \in DOMAIN bundles} \cup {x}
<1>1. bundles \in Seq(S)
  <2>1. {bundles[b] : b \in DOMAIN bundles} \subseteq S
    OBVIOUS
  <2> QED
    BY <2>1, SeqMonotonic DEF BundleSeq
<1>2. /\ bundles' \in Seq(S) /\ Len(bundles') = Len(bundles) + 1
      /\ \A b \in 1..Len(bundles) : bundles'[b] = bundles[b]
      /\ Len(bundles) \in Nat /\ DOMAIN bundles = 1..Len(bundles)
  BY <1>1, AppendProperties, LenProperties
<1>3. bundles' \in [1..Len(bundles') -> S] /\ DOMAIN bundles' = 1..Len(bundles')
  BY <1>2, LenProperties
<1>4. bundles' \in Seq({bundles'[b] : b \in DOMAIN bundles'})
  BY <1>2, <1>3, SeqOfFunction
<1>5. \A b \in DOMAIN bundles' : bundles'[b] \in S
  BY <1>3
<1>6. \A b \in DOMAIN bundles' : IsBundle(bundles'[b])
  <2>1. \A y \in S : IsBundle(y)
    BY DEF BundleSeq
  <2> QED
    BY <1>5, <2>1
<1>7. BundleSeq'
  BY <1>4, <1>6 DEF BundleSeq, IsBundle
<1> QED
  BY <1>2, <1>3, <1>7 DEF BundlesGrow

(* Changing some stages or debits in place keeps the others.                 *)
LEMMA InPlaceGrows ==
    ASSUME BundleSeq, DOMAIN bundles' = DOMAIN bundles,
           bundles' = [b \in DOMAIN bundles |-> bundles'[b]],
           \A b \in DOMAIN bundles :
              /\ IsBundle(bundles'[b])
              /\ bundles'[b].entries = bundles[b].entries
              /\ bundles[b].stage = "confirmed" => bundles'[b].stage = "confirmed"
    PROVE  BundlesGrow
<1>1. Len(bundles) \in Nat /\ DOMAIN bundles = 1..Len(bundles)
  BY LenProperties DEF BundleSeq
<1>2. bundles' \in Seq({bundles'[b] : b \in DOMAIN bundles'})
  BY <1>1, SeqOfFunction
<1>3. BundleSeq'
  BY <1>2 DEF BundleSeq, IsBundle
<1> QED
  BY <1>3 DEF BundlesGrow

(* So does moving one bundle that is not confirmed, or to be confirmed.      *)
LEMMA StageGrows ==
    ASSUME BundleSeq, NEW c \in DOMAIN bundles, NEW s,
           s = "confirmed" \/ bundles[c].stage # "confirmed",
           bundles' = [bundles EXCEPT ![c].stage = s]
    PROVE  BundlesGrow
<1>1. /\ DOMAIN bundles' = DOMAIN bundles
      /\ bundles' = [b \in DOMAIN bundles |-> bundles'[b]]
  OBVIOUS
<1>2. \A b \in DOMAIN bundles :
         bundles'[b] = IF b = c THEN [bundles[b] EXCEPT !.stage = s] ELSE bundles[b]
  OBVIOUS
<1>3. \A b \in DOMAIN bundles :
         /\ IsBundle(bundles'[b])
         /\ bundles'[b].entries = bundles[b].entries
         /\ bundles[b].stage = "confirmed" => bundles'[b].stage = "confirmed"
  BY <1>2 DEF BundleSeq, IsBundle
<1> QED
  BY <1>1, <1>3, InPlaceGrows

(* A step that leaves Walletnotify's data alone, or makes it forget its      *)
(* round, keeps the invariant.                                               *)
LEMMA ForgetfulStep ==
    ASSUME IInv, BundlesGrow, UNCHANGED <<hashes, txDB, credits>>,
           notify' \in {notify, Idle}
    PROVE  IInv'
<1>1. ControlTypeOK'
  BY DEF IInv, ControlTypeOK, NotifyType, BundlesGrow, Idle
<1>2. Witnessed'
  <2>1. notify'.found \subseteq notify.found /\ notify'.newly \subseteq notify.newly
    BY DEF Idle, IInv, ControlTypeOK, NotifyType
  <2>2. Entries \subseteq Entries'
    BY DEF Entries, EntryAt, BundlesGrow
  <2>3. \A tx \in Entries : Confirmed(tx[1]) => Confirmed(tx[1])'
    BY DEF Entries, Confirmed, BundlesGrow
  <2>4. hashes.confirmed \cup notify.newly \subseteq Entries
    BY DEF IInv, HashesStored, Witnessed
  <2> QED
    BY <2>1, <2>2, <2>3, <2>4 DEF IInv, Witnessed
<1>3. HashesStored'
  BY DEF IInv, HashesStored, Idle
<1> QED
  BY <1>1, <1>2, <1>3 DEF IInv, CopyIsRight, NewlyIsRight, CreditsRight, Idle

LEMMA InitIInv == Init => IInv
<1> SUFFICES ASSUME Init PROVE IInv
  OBVIOUS
<1> USE DEF Init, Idle
<1>1. BundleSeq
  BY EmptySeq DEF BundleSeq
<1>2. ControlTypeOK
  BY <1>1 DEF ControlTypeOK, NotifyType
<1> QED
  BY <1>2 DEF IInv, HashesStored, Witnessed, CopyIsRight, NewlyIsRight, CreditsRight

(* The steps of everyone but Walletnotify, and those that end its round.     *)
OtherStep == Rpc \/ Mesh \/ Reading \/ Crash \/ NotifyPanics \/ NotifyRollback \/ NotifyGivesUp

LEMMA OtherStepsForget ==
    ASSUME IInv, OtherStep \/ UNCHANGED vars
    PROVE  /\ UNCHANGED <<hashes, txDB, credits>>
           /\ notify' \in {notify, Idle}
           /\ BundlesGrow
<1>0. BundleSeq
  BY DEF IInv, ControlTypeOK
<1>s. UNCHANGED bundles => BundlesGrow
  BY <1>0 DEF BundleSeq, BundlesGrow
<1>1. CASE Rpc
  <2>1. ASSUME NEW n \in Accounts, GetNewAddress(n)
        PROVE  UNCHANGED <<hashes, txDB, credits, notify, bundles>>
    BY <2>1 DEF GetNewAddress, RpcPut
  <2>2. ASSUME NEW n, NEW bals, NEW v, Pay(n, bals, v)
        PROVE  UNCHANGED <<hashes, txDB, credits, notify>> /\ BundlesGrow
    <3>1. PICK x : bundles' = Append(bundles, x) /\ IsBundle(x)
      BY <2>2 DEF Pay, NewBundle, IsBundle
    <3>2. UNCHANGED <<hashes, txDB, credits, notify>>
      BY <2>2 DEF Pay, RpcPut
    <3> QED
      BY <1>0, <3>1, <3>2, AppendGrows
  <2>3. CASE RpcCommit
    <3>1. \A b \in DOMAIN bundles :
             bundles'[b] = [bundles[b] EXCEPT !.debited = IF b = wtx.bundle THEN TRUE ELSE @]
      BY <2>3 DEF RpcCommit
    <3>2. \A b \in DOMAIN bundles :
             /\ IsBundle(bundles'[b])
             /\ bundles'[b].entries = bundles[b].entries
             /\ bundles'[b].stage = bundles[b].stage
      BY <1>0, <3>1 DEF BundleSeq, IsBundle
    <3>3. /\ DOMAIN bundles' = DOMAIN bundles
          /\ bundles' = [b \in DOMAIN bundles |-> bundles'[b]]
      BY <2>3 DEF RpcCommit
    <3>4. BundlesGrow
      BY <1>0, <3>2, <3>3, InPlaceGrows
    <3> QED
      BY <2>3, <3>4 DEF RpcCommit
  <2>4. CASE RpcCommitFails
    BY <2>4, <1>s DEF RpcCommitFails
  <2> QED
    BY <1>1, <1>s, <2>1, <2>2, <2>3, <2>4 DEF Rpc, SendFrom, SendToAddress
<1>2. CASE Mesh
  <2>1. ASSUME NEW b \in DOMAIN bundles, Broadcast(b) PROVE BundlesGrow
    <3>1. bundles[b].stage # "confirmed" /\ bundles' = [bundles EXCEPT ![b].stage = "mesh"]
      BY <2>1 DEF Broadcast
    <3> QED
      BY <1>0, <3>1, StageGrows
  <2>2. ASSUME NEW b \in DOMAIN bundles, Confirm(b) PROVE BundlesGrow
    <3>1. bundles' = [bundles EXCEPT ![b].stage = "confirmed"]
      BY <2>2 DEF Confirm
    <3> QED
      BY <1>0, <3>1, StageGrows
  <2>3. ASSUME NEW a, NEW v, Deposit(a, v) PROVE BundlesGrow
    <3>1. PICK x : bundles' = Append(bundles, x) /\ IsBundle(x)
      BY <2>3 DEF Deposit, NewBundle, IsBundle
    <3> QED
      BY <1>0, <3>1, AppendGrows
  <2>4. BundlesGrow
    BY <1>2, <2>1, <2>2, <2>3 DEF Mesh
  <2> QED
    BY <1>2, <2>4 DEF Mesh, Broadcast, Confirm, Deposit
<1>3. CASE Reading
  BY <1>3, <1>s DEF Reading, ReaderBegin, ReaderMiss, ReaderFill, ReaderEnd
<1>4. ASSUME Restart PROVE UNCHANGED <<hashes, txDB, credits>> /\ notify' = Idle /\ BundlesGrow
  <2>1. BundlesGrow
    <3>1. \A b \in DOMAIN bundles :
             bundles'[b] = [bundles[b] EXCEPT !.stage = IF @ = "pow" THEN "lost" ELSE @]
      BY <1>4 DEF Restart
    <3>2. \A b \in DOMAIN bundles :
             /\ IsBundle(bundles'[b])
             /\ bundles'[b].entries = bundles[b].entries
             /\ bundles[b].stage = "confirmed" => bundles'[b].stage = "confirmed"
      BY <1>0, <3>1 DEF BundleSeq, IsBundle
    <3>3. /\ DOMAIN bundles' = DOMAIN bundles
          /\ bundles' = [b \in DOMAIN bundles |-> bundles'[b]]
      BY <1>4 DEF Restart
    <3> QED
      BY <1>0, <3>2, <3>3, InPlaceGrows
  <2> QED
    BY <1>4, <2>1 DEF Restart
<1>5. CASE NotifyRollback \/ NotifyGivesUp \/ UNCHANGED vars
  BY <1>5, <1>s DEF NotifyRollback, NotifyGivesUp, vars
<1> QED
  BY <1>1, <1>2, <1>3, <1>4, <1>5 DEF OtherStep, Crash, NotifyPanics

LEMMA OtherSteps == ASSUME IInv, OtherStep \/ UNCHANGED vars PROVE IInv'
  BY OtherStepsForget, ForgetfulStep

(* A refresh forgets the hashes and the credits alike.                       *)
LEMMA RefreshGrows == ASSUME IInv, Refresh PROVE BundlesGrow
<1>1. \A b \in DOMAIN bundles :
         bundles'[b] = [bundles[b] EXCEPT !.stage = IF @ = "pow" THEN "lost" ELSE @,
                                          !.debited = FALSE]
  BY DEF Refresh
<1>2. \A b \in DOMAIN bundles :
         /\ IsBundle(bundles'[b])
         /\ bundles'[b].entries = bundles[b].entries
         /\ bundles[b].stage = "confirmed" => bundles'[b].stage = "confirmed"
  BY <1>1 DEF IInv, ControlTypeOK, BundleSeq, IsBundle
<1>3. /\ DOMAIN bundles' = DOMAIN bundles
      /\ bundles' = [b \in DOMAIN bundles |-> bundles'[b]]
  BY DEF Refresh
<1> QED
  BY <1>2, <1>3, InPlaceGrows DEF IInv, ControlTypeOK

LEMMA RefreshStep == ASSUME IInv, Refresh PROVE IInv'
<1>1. /\ hashes' = [known |-> {}, confirmed |-> {}] /\ notify' = Idle
      /\ credits' = [tx \in TxIds |-> 0] /\ txDB' = txDB
  BY DEF Refresh
<1>2. BundlesGrow
  BY RefreshGrows
<1>3. NotifyType'
  BY <1>1 DEF NotifyType, Idle
<1>4. ControlTypeOK'
  BY <1>1, <1>2, <1>3 DEF IInv, ControlTypeOK, BundlesGrow
<1>5. Witnessed'
  <2>1. Entries \subseteq Entries'
    BY <1>2 DEF Entries, EntryAt, BundlesGrow
  <2> QED
    BY <1>1, <2>1 DEF IInv, Witnessed, Idle
<1> QED
  BY <1>1, <1>4, <1>5 DEF IInv, HashesStored, CopyIsRight, NewlyIsRight, CreditsRight, Idle

(* A step of Walletnotify's round leaves the bundles alone, so that what was *)
(* witnessed stays so.                                                       *)
LEMMA SameBundles ==
    ASSUME UNCHANGED bundles
    PROVE  /\ Entries' = Entries /\ (\A tx : Confirmed(tx[1])' = Confirmed(tx[1]))
           /\ BundleSeq' <=> BundleSeq
<1>1. Entries' = Entries /\ \A tx : Confirmed(tx[1])' = Confirmed(tx[1])
  BY DEF Entries, EntryAt, Confirmed
<1>2. BundleSeq' <=> BundleSeq
  BY DEF BundleSeq, IsBundle
<1> QED
  BY <1>1, <1>2

LEMMA StartStep == ASSUME IInv, NotifyStart PROVE IInv'
<1>1. UNCHANGED <<hashes, txDB, bundles, credits>>
  BY DEF NotifyStart
<1>2. notify' = [pc |-> "find", adrs |-> AddressesOf(db), found |-> {}, hs |-> {},
                  conf |-> {}, news |-> {}, newly |-> {}, todo |-> {}, cur |-> {}]
  BY DEF NotifyStart, Idle
<1>3. AddressesOf(db) \subseteq Addresses
  BY DEF AddressesOf
<1>4. NotifyType'
  BY <1>2, <1>3 DEF NotifyType
<1>5. ControlTypeOK'
  BY <1>1, <1>4, SameBundles DEF IInv, ControlTypeOK
<1> QED
  BY <1>1, <1>2, <1>5, SameBundles
     DEF IInv, HashesStored, Witnessed, CopyIsRight, NewlyIsRight, CreditsRight

LEMMA FindStep == ASSUME IInv, NotifyFind PROVE IInv'
<1>1. PICK A : notify' = IF EntriesOf(A) = {} THEN Idle
                         ELSE [Idle EXCEPT !.pc = "compare", !.found = EntriesOf(A)]
  BY DEF NotifyFind
<1>2. UNCHANGED <<hashes, txDB, bundles, credits>>
  BY DEF NotifyFind
<1>3. CASE EntriesOf(A) = {}
  <2>1. notify' = Idle
    BY <1>1, <1>3
  <2>2. BundlesGrow
    BY <1>2 DEF BundlesGrow, IInv, ControlTypeOK, BundleSeq
  <2> QED
    BY <1>2, <2>1, <2>2, ForgetfulStep
<1>4. CASE EntriesOf(A) # {}
  <2>1. EntriesOf(A) \subseteq Entries /\ Entries \subseteq TxIds
    BY DEF EntriesOf, Entries
  <2>2. notify' = [pc |-> "compare", adrs |-> {}, found |-> EntriesOf(A), hs |-> {},
                    conf |-> {}, news |-> {}, newly |-> {}, todo |-> {}, cur |-> {}]
    BY <1>1, <1>4 DEF Idle
  <2>3. NotifyType'
    BY <2>1, <2>2 DEF NotifyType
  <2>4. ControlTypeOK'
    BY <1>2, <2>3, SameBundles DEF IInv, ControlTypeOK
  <2> QED
    BY <1>2, <2>1, <2>2, <2>4, SameBundles
       DEF IInv, HashesStored, Witnessed, CopyIsRight, NewlyIsRight, CreditsRight
<1> QED
  BY <1>3, <1>4

LEMMA CompareStep == ASSUME IInv, NotifyCompare PROVE IInv'
<1>1. PICK news : /\ news = notify.found \ hashes.known
                  /\ txDB' = txDB \cup news
                  /\ notify' = [Idle EXCEPT !.pc = "inclusion", !.news = news,
                                            !.hs = hashes.known, !.conf = hashes.confirmed]
  BY DEF NotifyCompare, NotSeen, TxsAfter
<1>2. UNCHANGED <<hashes, bundles, credits>>
  BY DEF NotifyCompare
<1>3. notify' = [pc |-> "inclusion", adrs |-> {}, found |-> {}, hs |-> hashes.known,
                  conf |-> hashes.confirmed, news |-> news, newly |-> {},
                  todo |-> {}, cur |-> {}]
  BY <1>1 DEF Idle
<1>4. news \subseteq TxIds /\ hashes \in [known : SUBSET TxIds, confirmed : SUBSET TxIds]
  BY <1>1 DEF IInv, ControlTypeOK, NotifyType
<1>5. NotifyType'
  BY <1>3, <1>4 DEF NotifyType
<1>6. ControlTypeOK'
  BY <1>1, <1>2, <1>4, <1>5, SameBundles DEF IInv, ControlTypeOK
<1> QED
  BY <1>1, <1>2, <1>3, <1>6, SameBundles
     DEF IInv, ControlTypeOK, NotifyType, HashesStored, Witnessed, CopyIsRight,
         NewlyIsRight, CreditsRight, Idle

LEMMA InclusionStep == ASSUME IInv, NotifyInclusion PROVE IInv'
<1>1. PICK newly : /\ newly \subseteq Unconfirmed
                   /\ \A tx \in newly : Confirmed(tx[1])
                   /\ notify' = [notify EXCEPT !.pc = "put", !.newly = newly]
  BY DEF NotifyInclusion
<1>2. notify.pc = "inclusion" /\ UNCHANGED <<hashes, txDB, bundles, credits>>
  BY DEF NotifyInclusion
<1>3. /\ newly \subseteq txDB /\ newly \cap hashes.confirmed = {}
      /\ newly \subseteq notify.hs \cup notify.news
  BY <1>1, <1>2 DEF IInv, Unconfirmed, AllSeen, CopyIsRight, HashesStored
<1>4. txDB \subseteq TxIds
  BY DEF IInv, ControlTypeOK
<1>5. NotifyType'
  BY <1>1, <1>3, <1>4 DEF IInv, ControlTypeOK, NotifyType
<1>6. ControlTypeOK'
  BY <1>2, <1>5, SameBundles DEF IInv, ControlTypeOK
<1> QED
  BY <1>1, <1>2, <1>3, <1>6, SameBundles
     DEF IInv, ControlTypeOK, NotifyType, HashesStored, Witnessed, CopyIsRight,
         NewlyIsRight, CreditsRight

(* The heart of the argument: when the hashes are written back, no newly     *)
(* confirmed entry had been recorded, so none had been credited.             *)
LEMMA PutStep == ASSUME IInv, NotifyPut PROVE IInv'
<1>1. /\ notify.pc = "put"
      /\ hashes' = [known |-> notify.hs \cup notify.news,
                    confirmed |-> notify.conf \cup notify.newly]
      /\ notify' = [notify EXCEPT !.pc = "begin", !.hs = {}, !.conf = {}]
      /\ UNCHANGED <<txDB, bundles, credits>>
  BY DEF NotifyPut, StatesAfter, AllSeen
<1>2. /\ notify.hs = hashes.known /\ notify.conf = hashes.confirmed
      /\ notify.news \subseteq txDB
  BY <1>1 DEF IInv, CopyIsRight
<1>3. /\ notify'.pc = "begin" /\ notify'.found = notify.found
      /\ notify'.newly = notify.newly
  BY <1>1 DEF IInv, ControlTypeOK, NotifyType
<1>4. ControlTypeOK'
  BY <1>1, <1>2 DEF IInv, ControlTypeOK, NotifyType, BundleSeq
<1>5. \A tx \in notify.newly : credits[tx] = 0
  BY <1>1 DEF IInv, ControlTypeOK, NotifyType, NewlyIsRight, CreditsRight
<1>6. HashesStored'
  BY <1>1, <1>2, <1>3 DEF IInv, HashesStored, NewlyIsRight
<1>7. Witnessed'
  BY <1>1, <1>2, <1>3, SameBundles DEF IInv, Witnessed
<1>8. NewlyIsRight'
  BY <1>1, <1>3, <1>5 DEF NewlyIsRight
<1> QED
  BY <1>1, <1>2, <1>3, <1>4, <1>6, <1>7, <1>8 DEF IInv, CopyIsRight, CreditsRight

(* The steps of the third transaction before its commit.                     *)
LEMMA CreditingStep ==
    ASSUME IInv, notify.pc \in {"begin", "credit", "hit"},
           UNCHANGED <<hashes, txDB, bundles, credits>>,
           NotifyType', notify'.pc \in {"credit", "hit"},
           notify'.found = notify.found, notify'.newly = notify.newly
    PROVE  IInv'
<1>1. ControlTypeOK'
  BY DEF IInv, ControlTypeOK, BundleSeq
<1>2. HashesStored' /\ NewlyIsRight' /\ CopyIsRight' /\ CreditsRight'
  BY DEF IInv, HashesStored, NewlyIsRight, CopyIsRight, CreditsRight
<1>3. Witnessed'
  BY SameBundles DEF IInv, Witnessed
<1> QED
  BY <1>1, <1>2, <1>3 DEF IInv

LEMMA BeginStep == ASSUME IInv, NotifyBegin PROVE IInv'
<1>1. /\ notify.pc = "begin" /\ UNCHANGED <<hashes, txDB, bundles, credits>>
      /\ \/ notify' = Idle
         \/ notify' = [notify EXCEPT !.pc = "credit", !.todo = notify.newly]
  BY DEF NotifyBegin, ToCredit
<1>2. CASE notify' = Idle
  <2>1. BundlesGrow
    BY <1>1 DEF BundlesGrow, IInv, ControlTypeOK, BundleSeq
  <2> QED
    BY <1>1, <1>2, <2>1, ForgetfulStep
<1>3. CASE notify' = [notify EXCEPT !.pc = "credit", !.todo = notify.newly]
  <2>1. /\ NotifyType' /\ notify'.pc = "credit"
        /\ notify'.found = notify.found /\ notify'.newly = notify.newly
    BY <1>3 DEF IInv, ControlTypeOK, NotifyType
  <2> QED
    BY <1>1, <2>1, CreditingStep
<1> QED
  BY <1>1, <1>2, <1>3

LEMMA CreditStep ==
    ASSUME IInv, NEW tx \in TxIds,
           NotifyCreditMiss(tx) \/ NotifyHit(tx) \/ NotifyCreditHit(tx)
    PROVE  IInv'
<1>1. /\ notify.pc \in {"credit", "hit"}
      /\ UNCHANGED <<hashes, txDB, bundles, credits>>
      /\ \/ notify' = [notify EXCEPT !.pc = "credit", !.cur = {}, !.todo = @ \ {tx}]
         \/ notify' = [notify EXCEPT !.pc = "hit", !.cur = {tx}]
  BY DEF NotifyCreditMiss, NotifyHit, NotifyCreditHit, CreditTo
<1>2. NotifyType
  BY DEF IInv, ControlTypeOK
<1>3. /\ notify'.pc \in {"credit", "hit"}
      /\ notify'.found = notify.found /\ notify'.newly = notify.newly
  BY <1>1, <1>2 DEF NotifyType
<1>4. NotifyType'
  <2>1. CASE notify' = [notify EXCEPT !.pc = "credit", !.cur = {}, !.todo = @ \ {tx}]
    BY <1>2, <2>1 DEF NotifyType
  <2>2. CASE notify' = [notify EXCEPT !.pc = "hit", !.cur = {tx}]
    <3>1. {tx} \in SUBSET TxIds
      OBVIOUS
    <3> QED
      BY <1>2, <2>2, <3>1 DEF NotifyType
  <2> QED
    BY <1>1, <2>1, <2>2
<1> QED
  BY <1>1, <1>3, <1>4, CreditingStep

LEMMA CommitStep == ASSUME IInv, NotifyCommit PROVE IInv'
<1>1. /\ notify.pc = "credit" /\ notify' = Idle
      /\ UNCHANGED <<hashes, txDB, bundles>>
      /\ credits' = [tx \in TxIds |->
                        credits[tx] + IF tx \in notify.newly THEN 1 ELSE 0]
  BY DEF NotifyCommit, ToCredit
<1>2. \A tx \in TxIds : credits'[tx] =
         IF tx \in notify.newly THEN credits[tx] + 1 ELSE credits[tx]
  BY <1>1 DEF IInv, ControlTypeOK
<1>3. CreditsRight'
  BY <1>1, <1>2 DEF IInv, ControlTypeOK, NewlyIsRight, CreditsRight
<1>4. credits' \in [TxIds -> Nat]
  BY <1>1 DEF IInv, ControlTypeOK
<1>5. NotifyType'
  BY <1>1 DEF NotifyType, Idle
<1>6. ControlTypeOK'
  BY <1>1, <1>4, <1>5 DEF IInv, ControlTypeOK, BundleSeq
<1>7. HashesStored' /\ CopyIsRight' /\ NewlyIsRight'
  BY <1>1 DEF IInv, HashesStored, CopyIsRight, NewlyIsRight, Idle
<1>8. Witnessed'
  BY <1>1, SameBundles DEF IInv, Witnessed, Idle
<1> QED
  BY <1>3, <1>6, <1>7, <1>8 DEF IInv

LEMMA NextIInv == IInv /\ [Next]_vars => IInv'
<1> SUFFICES ASSUME IInv, [Next]_vars PROVE IInv'
  OBVIOUS
<1>1. CASE Rpc \/ Mesh \/ Reading \/ Crash \/ UNCHANGED vars
  BY <1>1, OtherSteps DEF OtherStep
<1>2. CASE Notifying
  BY <1>2, OtherSteps, StartStep, FindStep, CompareStep, InclusionStep, PutStep, BeginStep,
     CreditStep, CommitStep DEF Notifying, OtherStep
<1> QED
  BY <1>1, <1>2, RefreshStep DEF Next

-----------------------------------------------------------------------------
(* The database implements Ledger: each step of Wallet is one of Ledger's    *)
(* under the mapping of Wallet's Abstract, or changes nothing there.         *)
MeshConfirmed == {tx \in Entries : Confirmed(tx[1])}

LEMMA MeshGrows == ASSUME BundlesGrow PROVE MeshConfirmed \subseteq MeshConfirmed'
<1>1. Entries \subseteq Entries'
  BY DEF Entries, EntryAt, BundlesGrow
<1>2. \A tx \in Entries : Confirmed(tx[1]) => Confirmed(tx[1])'
  BY DEF Entries, Confirmed, BundlesGrow
<1> QED
  BY <1>1, <1>2 DEF MeshConfirmed

LEMMA OtherImplements ==
    ASSUME IInv, OtherStep \/ UNCHANGED vars
    PROVE  Abstract!MeshConfirms
<1>1. UNCHANGED <<hashes, txDB, credits>> /\ BundlesGrow
  BY OtherStepsForget
<1> QED
  BY <1>1, MeshGrows DEF MeshConfirmed, Abstract!MeshConfirms

LEMMA RefreshImplements ==
    ASSUME IInv, Refresh
    PROVE  Abstract!Forget
<1>1. Entries' = Entries /\ \A tx \in Entries : Confirmed(tx[1])' = Confirmed(tx[1])
  <2>1. DOMAIN bundles' = DOMAIN bundles
    BY DEF Refresh
  <2>2. \A b \in DOMAIN bundles :
           /\ bundles'[b].entries = bundles[b].entries
           /\ bundles'[b].stage = "confirmed" <=> bundles[b].stage = "confirmed"
    <3>1. \A b \in DOMAIN bundles :
             bundles'[b] = [bundles[b] EXCEPT !.stage = IF @ = "pow" THEN "lost" ELSE @,
                                              !.debited = FALSE]
      BY DEF Refresh
    <3> QED
      BY <3>1 DEF IInv, ControlTypeOK, BundleSeq, IsBundle
  <2>3. Entries' = Entries
    BY <2>1, <2>2 DEF Entries, EntryAt
  <2> QED
    BY <2>2, <2>3 DEF Entries, Confirmed
<1>2. MeshConfirmed' = MeshConfirmed
  BY <1>1 DEF MeshConfirmed
<1>3. /\ hashes'.known = {} /\ hashes'.confirmed = {}
      /\ credits' = [tx \in TxIds |-> 0] /\ txDB' = txDB
  BY DEF Refresh
<1> QED
  BY <1>2, <1>3 DEF MeshConfirmed, Abstract!Forget

(* Walletnotify's steps leave the mesh alone; three of them change a bucket. *)
LEMMA QuietImplements ==
    ASSUME UNCHANGED <<hashes, txDB, credits, bundles>>
    PROVE  UNCHANGED Abstract!ledgerVars
<1>1. MeshConfirmed' = MeshConfirmed
  BY SameBundles DEF MeshConfirmed
<1> QED
  BY <1>1 DEF MeshConfirmed, Abstract!ledgerVars

LEMMA CompareImplements == ASSUME IInv, NotifyCompare PROVE Abstract!Store
<1>1. txDB' = txDB \cup (notify.found \ hashes.known) /\ UNCHANGED <<hashes, bundles, credits>>
  BY DEF NotifyCompare, TxsAfter, NotSeen
<1>2. txDB' \subseteq TxIds
  BY <1>1 DEF IInv, ControlTypeOK, NotifyType
<1>3. MeshConfirmed' = MeshConfirmed
  BY <1>1, SameBundles DEF MeshConfirmed
<1> QED
  BY <1>1, <1>2, <1>3 DEF MeshConfirmed, Abstract!Store

LEMMA PutImplements == ASSUME IInv, NotifyPut PROVE Abstract!Record
<1>1. /\ notify.pc = "put"
      /\ hashes' = [known |-> notify.hs \cup notify.news,
                    confirmed |-> notify.conf \cup notify.newly]
      /\ UNCHANGED <<txDB, bundles, credits>>
  BY DEF NotifyPut, StatesAfter, AllSeen
<1>2. /\ notify.hs = hashes.known /\ notify.conf = hashes.confirmed
      /\ notify.news \subseteq txDB /\ notify.newly \subseteq notify.hs \cup notify.news
  BY <1>1 DEF IInv, CopyIsRight, NewlyIsRight
<1>3. hashes.confirmed \subseteq hashes.known /\ hashes.known \subseteq txDB
  BY DEF IInv, HashesStored
<1>4. hashes.confirmed \cup notify.newly \subseteq MeshConfirmed
  BY <1>2, <1>3 DEF IInv, HashesStored, Witnessed, MeshConfirmed
<1>5. MeshConfirmed' = MeshConfirmed
  BY <1>1, SameBundles DEF MeshConfirmed
<1> QED
  BY <1>1, <1>2, <1>3, <1>4, <1>5 DEF MeshConfirmed, Abstract!Record

LEMMA CommitImplements == ASSUME IInv, NotifyCommit PROVE Abstract!Credit
<1>1. /\ notify.pc = "credit" /\ UNCHANGED <<hashes, txDB, bundles>>
      /\ credits' = [tx \in TxIds |->
                        credits[tx] + IF tx \in notify.newly THEN 1 ELSE 0]
  BY DEF NotifyCommit, ToCredit
<1>2. notify.newly \subseteq {tx \in hashes.confirmed : credits[tx] = 0}
  BY <1>1 DEF IInv, NewlyIsRight
<1>3. credits' = [tx \in TxIds |-> IF tx \in notify.newly THEN 1 ELSE credits[tx]]
  BY <1>1, <1>2 DEF IInv, ControlTypeOK
<1>4. MeshConfirmed' = MeshConfirmed
  BY <1>1, SameBundles DEF MeshConfirmed
<1>5. \E C \in SUBSET {tx \in hashes.confirmed : credits[tx] = 0} :
         credits' = [tx \in TxIds |-> IF tx \in C THEN 1 ELSE credits[tx]]
  BY <1>2, <1>3
<1> QED
  BY <1>1, <1>4, <1>5 DEF MeshConfirmed, Abstract!Credit

LEMMA StepImplements ==
    IInv /\ [Next]_vars => [Abstract!LedgerNext]_(Abstract!ledgerVars)
<1> SUFFICES ASSUME IInv, [Next]_vars
             PROVE  Abstract!LedgerNext \/ UNCHANGED Abstract!ledgerVars
  OBVIOUS
<1>1. CASE OtherStep \/ UNCHANGED vars
  BY <1>1, OtherImplements DEF Abstract!LedgerNext
<1>2. CASE Refresh
  BY <1>2, RefreshImplements DEF Abstract!LedgerNext
<1>3. CASE NotifyCompare \/ NotifyPut \/ NotifyCommit
  BY <1>3, CompareImplements, PutImplements, CommitImplements DEF Abstract!LedgerNext
<1>4. ASSUME \/ NotifyStart \/ NotifyFind \/ NotifyInclusion \/ NotifyBegin
             \/ \E tx \in TxIds : NotifyCreditMiss(tx) \/ NotifyHit(tx) \/ NotifyCreditHit(tx)
      PROVE  UNCHANGED Abstract!ledgerVars
  <2>1. UNCHANGED <<hashes, txDB, credits, bundles>>
    BY <1>4 DEF NotifyStart, NotifyFind, NotifyInclusion, NotifyBegin,
                NotifyCreditMiss, NotifyHit, NotifyCreditHit
  <2> QED
    BY <2>1, QuietImplements
<1> QED
  BY <1>1, <1>2, <1>3, <1>4 DEF Next, Notifying, OtherStep

LEMMA InitImplements == Init => Abstract!LedgerInit
<1> SUFFICES ASSUME Init PROVE Abstract!LedgerInit
  OBVIOUS
<1>1. Entries = {}
  BY DEF Init, Entries
<1> QED
  BY <1>1 DEF Init, Abstract!LedgerInit

-----------------------------------------------------------------------------
(* The bookkeeping is consistent in every state.                             *)
THEOREM Inductive == Spec => []IInv
  BY InitIInv, NextIInv, PTL DEF Spec

(* The buckets, Walletnotify's variables and the counts keep their types.    *)
THEOREM ControlTypes == Spec => []ControlTypeOK
<1>1. IInv => ControlTypeOK
  BY DEF IInv
<1> QED
  BY <1>1, Inductive, PTL

(* Each entry's life is in order, for any number of accounts, addresses,     *)
(* bundles and readers, and whatever fails: Wallet implements Ledger.        *)
THEOREM ImplementsLedger == Spec => EntriesInOrder
  BY Inductive, InitImplements, StepImplements, PTL DEF Spec, EntriesInOrder, Abstract!LedgerSpec

(* Whatever fails and however often the process restarts, Walletnotify adds  *)
(* no entry twice, and none the mesh has not confirmed.                      *)
THEOREM CreditedOnce == Spec => []CreditedAtMostOnce
<1>1. IInv => CreditedAtMostOnce
  <2> SUFFICES ASSUME IInv, NEW tx \in TxIds
               PROVE  /\ credits[tx] <= 1
                      /\ credits[tx] = 1 => /\ tx \in hashes.confirmed
                                            /\ tx \in Entries
                                            /\ Confirmed(tx[1])
    BY DEF CreditedAtMostOnce
  <2>1. credits[tx] <= 1 /\ (credits[tx] = 1 => tx \in hashes.confirmed)
    BY DEF IInv, CreditsRight
  <2>2. hashes.confirmed \subseteq Entries
    BY DEF IInv, HashesStored, Witnessed
  <2>3. \A t \in hashes.confirmed : Confirmed(t[1])
    BY DEF IInv, Witnessed
  <2> QED
    BY <2>1, <2>2, <2>3
<1> QED
  BY <1>1, Inductive, PTL

(* No hash is ever in the "hashes" bucket without its transaction.           *)
THEOREM StoredHashes == Spec => []HashesStored
<1>1. IInv => HashesStored
  BY DEF IInv
<1> QED
  BY <1>1, Inductive, PTL
=============================================================================
