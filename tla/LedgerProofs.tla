---------------------------- MODULE LedgerProofs ----------------------------
(* That the balances are right, for any number of accounts, addresses and    *)
(* bundles and any values: Wallet's types in full, and four properties, each *)
(* where the circumstances that break it are kept away.  LedgerExact: no     *)
(* reading handler runs, and neither the node nor a commit fails (Reliable). *)
(* ConfirmedIsCredited: nothing fails but what a refresh resets (Untroubled).*)
(* FreshAddresses: write transactions end in a commit (WritesEnd).           *)
(* NoDoubleSpend: no reading handler runs.                                   *)
EXTENDS WalletProofs, SpendingProofs

USE WalletAssumption

-----------------------------------------------------------------------------
(* Types.  The bookkeeping of WalletProofs has those of Walletnotify.        *)
CacheType == lastAccount \in [name : Accounts, bals : Seq(Balance)] \cup {NoCache}

WtxType == \/ wtx = NoTx
           \/ wtx \in [owner : {"rpc", "notify"}, img : Database,
                       fresh : SUBSET Addresses, bundle : 0..MaxBundles]

BundlesType == bundles \in Seq(Bundle) /\ Len(bundles) <= MaxBundles

ReadersType ==
    /\ readers \in [Readers -> [pc : {"idle", "view", "scan"},
                                snap : Database \cup {<<>>},
                                adr : Addresses \cup {<<>>}]]
    /\ \A r \in Readers :
          /\ readers[r].pc # "idle" => readers[r].snap \in Database
          /\ readers[r].pc = "scan" => readers[r].adr \in Addresses

(* The third transaction is open just while Walletnotify credits.            *)
OwnerIsRight == wtx.owner = "notify" <=> notify.pc \in {"credit", "hit"}

(* What is still to be credited is part of what was found confirmed.         *)
TodoIsRight ==
    IF notify.pc \in {"credit", "hit"}
    THEN notify.todo \subseteq notify.newly /\ notify.cur \subseteq notify.newly
    ELSE notify.cur = {}

Types == /\ db \in Database
         /\ CacheType
         /\ WtxType
         /\ BundlesType
         /\ ReadersType
         /\ OwnerIsRight
         /\ TodoIsRight

LEMMA TypesGiveTypeOK == IInv /\ Types => TypeOK
  BY DEF IInv, ControlTypeOK, NotifyType, Types, CacheType, WtxType, BundlesType,
         ReadersType, TypeOK

LEMMA InitTypes == Init => Types
<1> SUFFICES ASSUME Init PROVE Types
  OBVIOUS
<1>1. db \in Database
  BY EmptySeq DEF Init, Database
<1>2. BundlesType
  BY EmptySeq DEF Init, BundlesType
<1>3. ReadersType
  BY DEF Init, ReadersType, Absent
<1> QED
  BY <1>1, <1>2, <1>3 DEF Init, Types, CacheType, WtxType, OwnerIsRight, TodoIsRight, NoTx, Idle

(* What an account's values are, and its account after a payment.            *)
LEMMA ValuesAreInts ==
    ASSUME NEW bals \in Seq(Balance)
    PROVE  /\ Len(bals) \in Nat /\ DOMAIN bals = 1..Len(bals)
           /\ ValuesOf(bals) \in Seq(Int) /\ Len(ValuesOf(bals)) = Len(bals)
           /\ \A k \in 1..Len(bals) :
                 /\ bals[k] \in Balance
                 /\ bals[k].value \in Int /\ bals[k].change \in Nat
                 /\ bals[k] = [value |-> bals[k].value, change |-> bals[k].change]
                 /\ ValuesOf(bals)[k] = bals[k].value
<1>1. Len(bals) \in Nat /\ DOMAIN bals = 1..Len(bals)
  BY LenProperties
<1>2. ASSUME NEW k \in 1..Len(bals) PROVE bals[k] \in Balance
  BY <1>1, <1>2, ElementOfSeq
<1>3. \A k \in 1..Len(bals) :
         /\ bals[k].value \in Int /\ bals[k].change \in Nat
         /\ bals[k] = [value |-> bals[k].value, change |-> bals[k].change]
  BY <1>2 DEF Balance
<1>4. ValuesOf(bals) = [k \in 1..Len(bals) |-> bals[k].value]
  BY <1>1 DEF ValuesOf
<1>5. ValuesOf(bals) \in [1..Len(bals) -> Int]
  BY <1>3, <1>4
<1>6. ValuesOf(bals) \in Seq(Int) /\ Len(ValuesOf(bals)) = Len(bals)
  BY <1>1, <1>5, IsASeq
<1> QED
  BY <1>1, <1>2, <1>3, <1>4, <1>6

(* The account after a payment, position by position.                        *)
LEMMA PaymentIsRight ==
    ASSUME NEW bals \in Seq(Balance), NEW v \in Int, Len(bals) > 0,
           v <= TotalValue(ValuesOf(bals))
    PROVE  LET after == AfterPayment(bals, v)
               ins == Inputs(ValuesOf(bals), v)
               rest == Remainder(ValuesOf(bals), v)
           IN  /\ rest \in Nat
               /\ ins \subseteq 1..Len(bals)
               /\ \A k \in ins : bals[k].value > 0
               /\ after \in Seq(Balance)
               /\ Len(after) = Len(bals) + IF rest = 0 THEN 0 ELSE 1
               /\ \A k \in 1..Len(bals) :
                     /\ after[k].value = IF k \in ins THEN 0 ELSE bals[k].value
                     /\ after[k].change = bals[k].change
               /\ rest # 0 => after[Len(bals) + 1] = EmptyBalance(rest)
<1> DEFINE vals == ValuesOf(bals)
           after == AfterPayment(bals, v)
           ins == Inputs(vals, v)
           rest == Remainder(vals, v)
           left == [k \in DOMAIN bals |->
                       IF k \in ins THEN [bals[k] EXCEPT !.value = 0] ELSE bals[k]]
<1>1. /\ Len(bals) \in Nat /\ DOMAIN bals = 1..Len(bals)
      /\ vals \in Seq(Int) /\ Len(vals) = Len(bals)
      /\ \A k \in 1..Len(bals) :
            /\ bals[k] \in Balance
            /\ bals[k].value \in Int /\ bals[k].change \in Nat
            /\ bals[k] = [value |-> bals[k].value, change |-> bals[k].change]
            /\ vals[k] = bals[k].value
  BY ValuesAreInts
<1>2. LastInput(vals, v) \in 1..Len(bals) /\ rest \in Nat
  <2>1. v <= TotalValue(vals)
    OBVIOUS
  <2> HIDE DEF vals
  <2> QED
    BY <1>1, <2>1, LastInputCovers
<1>3. ins \subseteq 1..Len(bals) /\ \A k \in ins : bals[k].value > 0
  <2> HIDE DEF vals
  <2>1. ins = {j \in 1..LastInput(vals, v) : vals[j] > 0}
    BY DEF Inputs
  <2> QED
    BY <1>1, <1>2, <2>1
<1> HIDE DEF vals, ins, rest
<1>4. /\ left \in [1..Len(bals) -> Balance]
      /\ \A k \in 1..Len(bals) :
            /\ left[k].value = IF k \in ins THEN 0 ELSE bals[k].value
            /\ left[k].change = bals[k].change
  <2>1. ASSUME NEW k \in 1..Len(bals)
        PROVE  /\ left[k] \in Balance
               /\ left[k].value = IF k \in ins THEN 0 ELSE bals[k].value
               /\ left[k].change = bals[k].change
    <3>1. bals[k].value \in Int /\ bals[k].change \in Nat
          /\ bals[k] = [value |-> bals[k].value, change |-> bals[k].change]
      BY <1>1
    <3>2. left[k] = IF k \in ins THEN [bals[k] EXCEPT !.value = 0] ELSE bals[k]
      BY <1>1
    <3>3. [bals[k] EXCEPT !.value = 0] = [value |-> 0, change |-> bals[k].change]
      BY <3>1
    <3> HIDE DEF left
    <3> QED
      BY <3>1, <3>2, <3>3 DEF Balance
  <2>2. left = [k \in 1..Len(bals) |-> left[k]]
    BY <1>1
  <2> HIDE DEF left
  <2> QED
    BY <2>1, <2>2
<1>5. after = IF rest = 0 THEN left ELSE Append(left, EmptyBalance(rest))
  BY DEF AfterPayment, vals, ins, rest
<1> HIDE DEF left, after
<1>6. left \in Seq(Balance) /\ Len(left) = Len(bals)
  <2>1. left \in [1..Len(bals) -> Balance] /\ Len(bals) \in Nat
    BY <1>1, <1>4
  <2> QED
    BY <2>1, IsASeq, LenProperties
<1>7. EmptyBalance(rest) \in Balance
  BY <1>2 DEF EmptyBalance, Balance
<1>8. CASE rest = 0
  BY <1>1, <1>2, <1>3, <1>4, <1>5, <1>6, <1>8 DEF after, vals, ins, rest
<1>9. CASE rest # 0
  <2>1. /\ after \in Seq(Balance) /\ Len(after) = Len(bals) + 1
        /\ after[Len(bals) + 1] = EmptyBalance(rest)
        /\ \A k \in 1..Len(bals) : after[k] = left[k]
    BY <1>1, <1>5, <1>6, <1>7, <1>9, AppendProperties
  <2> QED
    BY <1>1, <1>2, <1>3, <1>4, <1>9, <2>1 DEF after, vals, ins, rest
<1> QED
  BY <1>8, <1>9

-----------------------------------------------------------------------------
(* Types, step by step.                                                      *)
LEMMA GetAccountType ==
    ASSUME Types, NEW n \in Accounts
    PROVE  GetAccount(db, n) \in Seq(Balance) /\ db[n] \in Seq(Balance)
<1>1. db[n] \in Seq(Balance)
  BY DEF Types, Database
<1>2. lastAccount.name = n => lastAccount.bals \in Seq(Balance)
  BY DEF Types, CacheType, NoCache, Accounts
<1> QED
  BY <1>1, <1>2 DEF GetAccount

LEMMA RpcPutTypes ==
    ASSUME Types, NEW n \in Accounts, NEW bals \in Seq(Balance),
           NEW fresh \in SUBSET Addresses, NEW b \in 0..MaxBundles,
           RpcPut(n, bals, fresh, b), wtx.owner = "none"
    PROVE  db' \in Database /\ CacheType' /\ WtxType' /\ ReadersType' /\ OwnerIsRight' /\ TodoIsRight'
<1>1. [db EXCEPT ![n] = bals] \in Database
  BY DEF Types, Database
<1>2. CacheType'
  BY DEF RpcPut, CacheAfterPut, Types, CacheType
<1>3. WtxType' /\ wtx'.owner = "rpc" /\ notify' = notify
  BY <1>1 DEF RpcPut, WtxType
<1>4. db' \in Database /\ ReadersType'
  BY DEF RpcPut, Types, ReadersType
<1>5. OwnerIsRight' /\ TodoIsRight'
  BY <1>3 DEF Types, OwnerIsRight, TodoIsRight
<1> QED
  BY <1>2, <1>3, <1>4, <1>5

LEMMA GetNewAddressTypes ==
    ASSUME Types, NEW n \in Accounts, GetNewAddress(n)
    PROVE  Types'
<1> DEFINE bals == GetAccount(db, n)
<1>1. bals \in Seq(Balance) /\ Len(bals) \in Nat
  BY GetAccountType, LenProperties
<1>2. EmptyBalance(0) \in Balance
  BY DEF EmptyBalance, Balance
<1>3. Append(bals, EmptyBalance(0)) \in Seq(Balance)
  BY <1>1, <1>2, AppendProperties
<1>4. MaxAddrs[n] \in Nat /\ Len(bals) < MaxAddrs[n] /\ wtx.owner = "none"
      /\ UNCHANGED bundles
  BY DEF GetNewAddress, MayWrite, Accounts
<1>5. <<n, NextIndex(bals)>> \in Addresses
  BY <1>1, <1>4 DEF NextIndex, Addresses
<1>6. RpcPut(n, Append(bals, EmptyBalance(0)), {<<n, NextIndex(bals)>>}, 0)
  BY DEF GetNewAddress
<1>7. 0 \in 0..MaxBundles /\ {<<n, NextIndex(bals)>>} \in SUBSET Addresses
  BY <1>5
<1> HIDE DEF bals
<1>8. db' \in Database /\ CacheType' /\ WtxType' /\ ReadersType' /\ OwnerIsRight' /\ TodoIsRight'
  BY <1>3, <1>4, <1>6, <1>7, RpcPutTypes
<1> QED
  BY <1>4, <1>8 DEF Types, BundlesType

LEMMA EntriesType ==
    ASSUME NEW n \in Accounts, NEW bals \in Seq(Balance), NEW v \in Int, Len(bals) > 0,
           v <= TotalValue(ValuesOf(bals))
    PROVE  PaymentEntries(n, bals, v) \in [Addresses -> Int]
<1> DEFINE vals == ValuesOf(bals)
<1>1. Remainder(vals, v) \in Nat /\ Inputs(vals, v) \subseteq 1..Len(bals)
  BY PaymentIsRight
<1>2. \A k \in 1..Len(bals) : vals[k] \in Int
  BY ValuesAreInts
<1> HIDE DEF vals
<1>3. \A a \in Addresses : a[2] \in Inputs(vals, v) => -vals[a[2]] \in Int
  BY <1>1, <1>2
<1>4. PaymentEntries(n, bals, v) =
         [a \in Addresses |->
            IF a[1] # n THEN 0
            ELSE IF a[2] = NextIndex(bals) THEN Remainder(vals, v)
            ELSE IF a[2] \in Inputs(vals, v) THEN -vals[a[2]] ELSE 0]
  BY DEF PaymentEntries, vals
<1> QED
  BY <1>1, <1>3, <1>4

LEMMA AppendBundleType ==
    ASSUME BundlesType, Len(bundles) < MaxBundles, NEW entries \in [Addresses -> Int],
           NEW own \in BOOLEAN, bundles' = Append(bundles, NewBundle(entries, own))
    PROVE  /\ BundlesType'
           /\ Len(bundles) \in Nat /\ DOMAIN bundles = 1..Len(bundles)
           /\ Len(bundles') = Len(bundles) + 1
           /\ DOMAIN bundles' = DOMAIN bundles \cup {Len(bundles) + 1}
           /\ \A b \in DOMAIN bundles : bundles'[b] = bundles[b]
           /\ bundles'[Len(bundles) + 1] = NewBundle(entries, own)
<1>1. NewBundle(entries, own) \in Bundle
  BY DEF NewBundle, Bundle, Stages
<1>2. /\ bundles \in Seq(Bundle) /\ Len(bundles) \in Nat
      /\ DOMAIN bundles = 1..Len(bundles)
  BY LenProperties DEF BundlesType
<1>3. /\ bundles' \in Seq(Bundle) /\ Len(bundles') = Len(bundles) + 1
      /\ \A b \in 1..Len(bundles) : bundles'[b] = bundles[b]
      /\ bundles'[Len(bundles) + 1] = NewBundle(entries, own)
  BY <1>1, <1>2, AppendProperties
<1>4. DOMAIN bundles' = 1..(Len(bundles) + 1)
  BY <1>3, LenProperties
<1>5. BundlesType'
  BY <1>2, <1>3 DEF BundlesType
<1> QED
  BY <1>2, <1>3, <1>4, <1>5

LEMMA PayTypes ==
    ASSUME Types, NEW n \in Accounts, NEW bals \in Seq(Balance), NEW v \in Int,
           Pay(n, bals, v)
    PROVE  Types'
<1> DEFINE entries == PaymentEntries(n, bals, v)
           fresh == {a \in Addresses : entries[a] > 0}
<1>1. /\ wtx.owner = "none" /\ Len(bundles) < MaxBundles /\ Len(bals) > 0
      /\ v <= TotalValue(ValuesOf(bals))
      /\ bundles' = Append(bundles, NewBundle(entries, TRUE))
      /\ RpcPut(n, AfterPayment(bals, v), fresh, Len(bundles) + 1)
  BY DEF Pay, MayWrite
<1>2. entries \in [Addresses -> Int] /\ AfterPayment(bals, v) \in Seq(Balance)
  BY <1>1, EntriesType, PaymentIsRight
<1>3. fresh \in SUBSET Addresses
  OBVIOUS
<1> HIDE DEF entries, fresh
<1>4. BundlesType' /\ Len(bundles) \in Nat
  BY <1>1, <1>2, AppendBundleType DEF Types
<1>5. Len(bundles) + 1 \in 0..MaxBundles
  BY <1>1, <1>4
<1>6. db' \in Database /\ CacheType' /\ WtxType' /\ ReadersType' /\ OwnerIsRight' /\ TodoIsRight'
  BY <1>1, <1>2, <1>3, <1>5, RpcPutTypes
<1> QED
  BY <1>4, <1>6 DEF Types

(* Bundles changed in place.                                                 *)
LEMMA InPlaceType ==
    ASSUME BundlesType, DOMAIN bundles' = DOMAIN bundles,
           bundles' = [b \in DOMAIN bundles |-> bundles'[b]],
           \A b \in DOMAIN bundles : bundles'[b] \in Bundle
    PROVE  BundlesType'
<1>1. Len(bundles) \in Nat /\ DOMAIN bundles = 1..Len(bundles)
  BY LenProperties DEF BundlesType
<1>2. bundles' \in [1..Len(bundles) -> Bundle]
  BY <1>1
<1>3. bundles' \in Seq(Bundle) /\ Len(bundles') = Len(bundles)
  BY <1>1, <1>2, IsASeq, LenProperties
<1> QED
  BY <1>3 DEF BundlesType

LEMMA RpcTypes == ASSUME Types, Rpc PROVE Types'
<1>1. ASSUME NEW n \in Accounts, GetNewAddress(n) PROVE Types'
  BY <1>1, GetNewAddressTypes
<1>2. ASSUME NEW n \in Accounts, NEW v \in Payments, SendFrom(n, v) \/ SendToAddress(n, v)
      PROVE  Types'
  <2>1. v \in Int
    OBVIOUS
  <2>2. PICK bals \in Seq(Balance) : Pay(n, bals, v)
    BY <1>2, GetAccountType DEF SendFrom, SendToAddress
  <2> QED
    BY <2>1, <2>2, PayTypes
<1>3. CASE RpcCommit
  <2>1. /\ wtx.owner = "rpc" /\ db' = wtx.img /\ wtx' = NoTx
        /\ bundles' = [b \in DOMAIN bundles |->
                          [bundles[b] EXCEPT !.debited = IF b = wtx.bundle THEN TRUE ELSE @]]
        /\ UNCHANGED <<lastAccount, notify, readers>>
    BY <1>3 DEF RpcCommit
  <2>2. db' \in Database
    BY <2>1 DEF Types, WtxType, NoTx
  <2>3. \A b \in DOMAIN bundles : bundles[b] \in Bundle
    BY ElementOfSeq, LenProperties DEF Types, BundlesType
  <2>4. \A b \in DOMAIN bundles : bundles'[b] \in Bundle
    BY <2>1, <2>3 DEF Bundle
  <2>5. BundlesType'
    BY <2>1, <2>4, InPlaceType DEF Types
  <2> QED
    BY <2>1, <2>2, <2>5
       DEF Types, CacheType, WtxType, ReadersType, OwnerIsRight, TodoIsRight, NoTx
<1>4. CASE RpcCommitFails
  BY <1>4 DEF RpcCommitFails, Types, CacheType, WtxType, BundlesType, ReadersType,
              OwnerIsRight, TodoIsRight, NoTx
<1> QED
  BY <1>1, <1>2, <1>3, <1>4 DEF Rpc

LEMMA MeshTypes == ASSUME Types, Mesh PROVE Types'
<1>1. UNCHANGED <<db, lastAccount, wtx, notify, readers>>
  BY DEF Mesh, Broadcast, Confirm, Deposit
<1>2. \A b \in DOMAIN bundles : bundles[b] \in Bundle
  BY ElementOfSeq, LenProperties DEF Types, BundlesType
<1>3. ASSUME NEW b \in DOMAIN bundles, Broadcast(b) \/ Confirm(b) PROVE BundlesType'
  <2>1. PICK s \in Stages : bundles' = [bundles EXCEPT ![b].stage = s]
    BY <1>3 DEF Broadcast, Confirm, Stages
  <2>2. \A c \in DOMAIN bundles : bundles'[c] \in Bundle
    BY <1>2, <2>1 DEF Bundle
  <2> QED
    BY <2>1, <2>2, InPlaceType DEF Types
<1>4. ASSUME NEW a \in Addresses, NEW v \in Deposits, Deposit(a, v) PROVE BundlesType'
  <2>1. [x \in Addresses |-> IF x = a THEN v ELSE 0] \in [Addresses -> Int]
    OBVIOUS
  <2> QED
    BY <1>4, <2>1, AppendBundleType DEF Deposit, Types
<1> QED
  BY <1>1, <1>3, <1>4 
     DEF Mesh, Types, CacheType, WtxType, ReadersType, OwnerIsRight, TodoIsRight

LEMMA ReadingTypes == ASSUME Types, Reading PROVE Types'
<1>1. UNCHANGED <<db, wtx, bundles, notify>>
  BY DEF Reading, ReaderBegin, ReaderMiss, ReaderFill, ReaderEnd
<1>2. ASSUME NEW r \in Readers, ReaderBegin(r) PROVE ReadersType' /\ CacheType'
  BY <1>2 DEF ReaderBegin, Types, ReadersType, CacheType
<1>3. ASSUME NEW r \in Readers, NEW a \in Addresses, ReaderMiss(r, a)
      PROVE  ReadersType' /\ CacheType'
  BY <1>3 DEF ReaderMiss, Types, ReadersType, CacheType
<1>4. ASSUME NEW r \in Readers, ReaderFill(r) PROVE ReadersType' /\ CacheType'
  <2>1. readers[r].snap \in Database /\ readers[r].adr[1] \in Accounts
    BY <1>4 DEF ReaderFill, Types, ReadersType, Addresses
  <2>2. CacheType'
    BY <1>4, <2>1 DEF ReaderFill, CacheType, Database
  <2>3. ReadersType'
    BY <1>4 DEF ReaderFill, Types, ReadersType
  <2> QED
    BY <2>2, <2>3
<1>5. ASSUME NEW r \in Readers, ReaderEnd(r) PROVE ReadersType' /\ CacheType'
  BY <1>5 DEF ReaderEnd, Types, ReadersType, CacheType, Absent
<1> QED
  BY <1>1, <1>2, <1>3, <1>4, <1>5 
     DEF Reading, Types, WtxType, BundlesType, OwnerIsRight, TodoIsRight

(* Walletnotify, outside its third transaction.                              *)
LEMMA OutsideTypes ==
    ASSUME Types, UNCHANGED <<db, lastAccount, wtx, bundles, readers>>,
           notify.pc \notin {"credit", "hit"}, notify'.pc \notin {"credit", "hit"},
           notify'.cur \in {notify.cur, {}}
    PROVE  Types'
  BY DEF Types, CacheType, WtxType, BundlesType, ReadersType, OwnerIsRight, TodoIsRight

LEMMA NotifyTypes ==
    ASSUME Types, NotifyType,
           \/ NotifyStart \/ NotifyFind \/ NotifyCompare \/ NotifyInclusion
           \/ NotifyGivesUp \/ NotifyPut \/ NotifyBegin
    PROVE  Types'
<1>1. CASE NotifyStart \/ NotifyFind
  <2>1. /\ UNCHANGED <<db, lastAccount, wtx, bundles, readers>>
        /\ notify'.cur = {}
        /\ notify.pc \in {"idle", "find"} /\ notify'.pc \in {"idle", "find", "compare"}
    <3>1. CASE NotifyStart
      <4>1. PICK A : notify' = [Idle EXCEPT !.pc = "find", !.adrs = A]
        BY <3>1 DEF NotifyStart
      <4> QED
        BY <3>1, <4>1 DEF NotifyStart, Idle
    <3>2. CASE NotifyFind
      <4>1. PICK F : notify' = Idle \/ notify' = [Idle EXCEPT !.pc = "compare", !.found = F]
        BY <3>2 DEF NotifyFind
      <4>2. notify.pc = "find" /\ UNCHANGED <<db, lastAccount, wtx, bundles, readers>>
        BY <3>2 DEF NotifyFind
      <4>3. ASSUME notify' = Idle PROVE notify'.cur = {} /\ notify'.pc = "idle"
        BY <4>3 DEF Idle
      <4>4. ASSUME notify' = [Idle EXCEPT !.pc = "compare", !.found = F]
            PROVE  notify'.cur = {} /\ notify'.pc = "compare"
        BY <4>4 DEF Idle
      <4> QED
        BY <4>1, <4>2, <4>3, <4>4
    <3> QED
      BY <1>1, <3>1, <3>2
  <2> QED
    BY <2>1, OutsideTypes
<1>2. CASE NotifyCompare \/ NotifyGivesUp
  <2>1. /\ UNCHANGED <<db, lastAccount, wtx, bundles, readers>>
        /\ notify'.cur = {}
        /\ notify.pc \in {"compare", "inclusion"} /\ notify'.pc \in {"idle", "inclusion"}
    <3>1. CASE NotifyCompare
      BY <3>1 DEF NotifyCompare, Idle
    <3>2. CASE NotifyGivesUp
      BY <3>2 DEF NotifyGivesUp, Idle
    <3> QED
      BY <1>2, <3>1, <3>2
  <2> QED
    BY <2>1, OutsideTypes
<1>3. CASE NotifyInclusion \/ NotifyPut
  <2>1. /\ UNCHANGED <<db, lastAccount, wtx, bundles, readers>>
        /\ notify'.cur = notify.cur
        /\ notify.pc \in {"inclusion", "put"} /\ notify'.pc \in {"put", "begin"}
    BY <1>3 DEF NotifyInclusion, NotifyPut, NotifyType
  <2> QED
    BY <2>1, OutsideTypes
<1>4. CASE NotifyBegin
  <2>1. /\ notify.pc = "begin" /\ UNCHANGED <<db, lastAccount, bundles, readers>>
        /\ \/ notify' = Idle /\ UNCHANGED wtx
           \/ /\ notify' = [notify EXCEPT !.pc = "credit", !.todo = ToCredit]
              /\ wtx' = [NoTx EXCEPT !.owner = "notify", !.img = db]
    BY <1>4 DEF NotifyBegin
  <2>2. CASE notify' = Idle /\ UNCHANGED wtx
    BY <2>1, <2>2, OutsideTypes DEF Idle
  <2>3. CASE /\ notify' = [notify EXCEPT !.pc = "credit", !.todo = ToCredit]
             /\ wtx' = [NoTx EXCEPT !.owner = "notify", !.img = db]
    <3>1. wtx' = [owner |-> "notify", img |-> db, fresh |-> {}, bundle |-> 0]
      BY <2>3 DEF NoTx
    <3>2. WtxType' /\ wtx'.owner = "notify"
      BY <3>1 DEF Types, WtxType
    <3>3. notify'.pc = "credit" /\ notify'.todo = notify.newly /\ notify'.newly = notify.newly
          /\ notify'.cur = notify.cur
      BY <2>3 DEF NotifyType, ToCredit
    <3>4. notify.cur = {}
      BY <2>1 DEF Types, TodoIsRight
    <3> QED
      BY <2>1, <3>2, <3>3, <3>4
         DEF Types, CacheType, BundlesType, ReadersType, OwnerIsRight, TodoIsRight
  <2> QED
    BY <2>1, <2>2, <2>3
<1> QED
  BY <1>1, <1>2, <1>3, <1>4

(* One entry credited to an account of the image.                            *)
LEMMA CreditToTypes ==
    ASSUME Types, NotifyType, NEW n \in Accounts, NEW bals \in Seq(Balance),
           NEW tx \in TxIds, tx[1] \in DOMAIN bundles,
           notify.pc \in {"credit", "hit"}, CreditTo(n, bals, tx),
           UNCHANGED <<db, bundles, readers>>
    PROVE  /\ Types'
           /\ EntryAt(tx[1], tx[2]) \in Int
           /\ lastAccount' = [name |-> n, bals |-> wtx'.img[n]]
           /\ wtx' = [wtx EXCEPT !.img[n] = wtx'.img[n]]
           /\ wtx.owner = "notify" /\ wtx.img \in Database
           /\ wtx'.img[n] \in Seq(Balance) /\ Len(wtx'.img[n]) = Len(bals)
           /\ \A k \in 1..Len(bals) : wtx'.img[n][k] =
                 IF k = tx[2][2]
                 THEN [value |-> bals[k].value + EntryAt(tx[1], tx[2]), change |-> 0]
                 ELSE bals[k]
<1> DEFINE after == [bals EXCEPT ![tx[2][2]] = AddValue(bals[tx[2][2]], EntryAt(tx[1], tx[2]))]
<1>1. wtx.owner = "notify" /\ wtx.img \in Database /\ wtx # NoTx
      /\ wtx \in [owner : {"rpc", "notify"}, img : Database,
                   fresh : SUBSET Addresses, bundle : 0..MaxBundles]
  BY DEF Types, WtxType, OwnerIsRight, NoTx
<1>2. EntryAt(tx[1], tx[2]) \in Int
  <2>1. bundles[tx[1]] \in Bundle /\ tx[2] \in Addresses
    BY ElementOfSeq, LenProperties DEF Types, BundlesType, TxIds
  <2> QED
    BY <2>1 DEF EntryAt, Bundle
<1>3. Len(bals) \in Nat /\ DOMAIN bals = 1..Len(bals)
  BY LenProperties
<1>4. ASSUME tx[2][2] \in 1..Len(bals)
      PROVE  /\ after \in Seq(Balance) /\ Len(after) = Len(bals)
             /\ \A k \in 1..Len(bals) : after[k] =
                   IF k = tx[2][2]
                   THEN [value |-> bals[k].value + EntryAt(tx[1], tx[2]), change |-> 0]
                   ELSE bals[k]
  <2>1. AddValue(bals[tx[2][2]], EntryAt(tx[1], tx[2])) \in Balance
    <3>1. bals[tx[2][2]].value \in Int
      BY <1>4, ValuesAreInts
    <3> QED
      BY <1>2, <3>1 DEF AddValue, Balance
  <2> QED
    BY <1>3, <1>4, <2>1, ExceptSeq DEF AddValue
<1>5. ASSUME tx[2][2] \notin 1..Len(bals)
      PROVE  /\ after \in Seq(Balance) /\ Len(after) = Len(bals)
             /\ \A k \in 1..Len(bals) : after[k] =
                   IF k = tx[2][2]
                   THEN [value |-> bals[k].value + EntryAt(tx[1], tx[2]), change |-> 0]
                   ELSE bals[k]
  <2>1. bals = [k \in DOMAIN bals |-> bals[k]]
    BY LenProperties
  <2>2. after = bals
    BY <1>3, <1>5, <2>1
  <2> QED
    BY <1>5, <2>2
<1>6. /\ wtx' = [wtx EXCEPT !.img[n] = after]
      /\ lastAccount' = [name |-> n, bals |-> after]
      /\ notify' = [notify EXCEPT !.pc = "credit", !.cur = {}, !.todo = @ \ {tx}]
  BY DEF CreditTo
<1> HIDE DEF after
<1>7. /\ wtx'.img = [wtx.img EXCEPT ![n] = after]
      /\ wtx'.owner = "notify"
      /\ wtx' = [wtx EXCEPT !.img = [wtx.img EXCEPT ![n] = after]]
  BY <1>1, <1>6
<1>8. wtx'.img[n] = after /\ wtx'.img \in Database
  BY <1>1, <1>4, <1>5, <1>7 DEF Database
<1>9. WtxType'
  BY <1>1, <1>7, <1>8 DEF WtxType
<1>10. CacheType'
  BY <1>4, <1>5, <1>6 DEF CacheType
<1>11. notify'.pc = "credit" /\ TodoIsRight'
  BY <1>6 DEF NotifyType, Types, TodoIsRight
<1>12. Types'
  BY <1>7, <1>9, <1>10, <1>11 DEF Types, BundlesType, ReadersType, OwnerIsRight
<1>13. wtx' = [wtx EXCEPT !.img[n] = wtx'.img[n]]
  BY <1>6, <1>8
<1> QED
  BY <1>1, <1>2, <1>4, <1>5, <1>6, <1>8, <1>12, <1>13

(* An entry being credited is one of a bundle.                               *)
LEMMA CreditedIsEntry ==
    ASSUME IInv, NEW tx, tx \in txDB
    PROVE  /\ tx \in TxIds /\ tx[1] \in DOMAIN bundles
           /\ tx[2] \in Addresses /\ tx[2][1] \in Accounts /\ tx[2][2] \in Nat \ {0}
           /\ tx = <<tx[1], tx[2]>> /\ tx[2] = <<tx[2][1], tx[2][2]>>
<1>1. tx \in Entries
  BY DEF IInv, Witnessed
<1>2. tx \in TxIds /\ tx[1] \in DOMAIN bundles
  BY <1>1 DEF Entries
<1>3. tx[2] \in Addresses /\ tx = <<tx[1], tx[2]>>
  BY <1>2 DEF TxIds
<1>4. PICK n \in Accounts : tx[2] \in {n} \X (1..MaxAddrs[n])
  BY <1>3 DEF Addresses
<1>5. MaxAddrs[n] \in Nat
  BY DEF Accounts
<1>6. tx[2][1] \in Accounts /\ tx[2][2] \in Nat \ {0} /\ tx[2] = <<tx[2][1], tx[2][2]>>
  BY <1>4, <1>5
<1> QED
  BY <1>2, <1>3, <1>6

LEMMA CreditTypes ==
    ASSUME IInv, Types, NEW tx \in TxIds,
           NotifyCreditMiss(tx) \/ NotifyHit(tx) \/ NotifyCreditHit(tx)
    PROVE  Types'
<1>1. NotifyType /\ notify.newly \subseteq txDB
  BY DEF IInv, ControlTypeOK, HashesStored
<1>2. CASE NotifyHit(tx)
  <2>1. /\ notify.pc = "credit" /\ tx \in notify.todo
        /\ notify' = [notify EXCEPT !.pc = "hit", !.cur = {tx}]
        /\ UNCHANGED <<db, lastAccount, wtx, bundles, readers>>
    BY <1>2 DEF NotifyHit
  <2>2. /\ notify'.pc = "hit" /\ notify'.todo = notify.todo
        /\ notify'.newly = notify.newly /\ notify'.cur = {tx}
    BY <1>1, <2>1 DEF NotifyType
  <2> QED
    BY <2>1, <2>2 DEF Types, CacheType, WtxType, BundlesType, ReadersType, OwnerIsRight,
                      TodoIsRight
<1>3. ASSUME NotifyCreditMiss(tx) \/ NotifyCreditHit(tx)
      PROVE  /\ tx \in txDB /\ notify.pc \in {"credit", "hit"}
             /\ UNCHANGED <<db, bundles, readers>>
  BY <1>1, <1>3 DEF NotifyCreditMiss, NotifyCreditHit, Types, TodoIsRight
<1>4. CASE NotifyCreditMiss(tx)
  <2>1. tx[1] \in DOMAIN bundles /\ tx[2][1] \in Accounts /\ tx[2][2] \in Nat \ {0}
    BY <1>3, <1>4, CreditedIsEntry
  <2>2. CreditTo(tx[2][1], wtx.img[tx[2][1]], tx) /\ notify.pc = "credit"
    BY <1>4 DEF NotifyCreditMiss
  <2>3. wtx.img[tx[2][1]] \in Seq(Balance)
    <3>1. wtx.owner = "notify" /\ wtx.img \in Database
      BY <2>2 DEF Types, WtxType, OwnerIsRight, NoTx
    <3> QED
      BY <2>1, <3>1 DEF Database
  <2> QED
    BY <1>1, <1>3, <1>4, <2>1, <2>2, <2>3, CreditToTypes
<1>5. CASE NotifyCreditHit(tx)
  <2>1. tx[1] \in DOMAIN bundles /\ tx[2][1] \in Accounts /\ tx[2][2] \in Nat \ {0}
    BY <1>3, <1>5, CreditedIsEntry
  <2>2. CreditTo(lastAccount.name, lastAccount.bals, tx) /\ tx[2][2] <= Len(lastAccount.bals)
    BY <1>5 DEF NotifyCreditHit
  <2>3. lastAccount # NoCache
    BY <2>1, <2>2, EmptySeq DEF NoCache
  <2>4. lastAccount.name \in Accounts /\ lastAccount.bals \in Seq(Balance)
    BY <2>3 DEF Types, CacheType
  <2> QED
    BY <1>1, <1>3, <1>5, <2>1, <2>2, <2>4, CreditToTypes
<1> QED
  BY <1>2, <1>4, <1>5

LEMMA EndTypes ==
    ASSUME Types, NotifyCommit \/ NotifyRollback
    PROVE  Types'
<1>1. /\ notify' = Idle /\ wtx' = NoTx /\ db' \in {wtx.img, db} /\ notify.pc = "credit"
      /\ UNCHANGED <<lastAccount, bundles, readers>>
  BY DEF NotifyCommit, NotifyRollback
<1>2. wtx.owner = "notify" /\ wtx.img \in Database
  BY <1>1 DEF Types, WtxType, OwnerIsRight, NoTx
<1> QED
  BY <1>1, <1>2
     DEF Types, CacheType, WtxType, BundlesType, ReadersType, OwnerIsRight, TodoIsRight,
         NoTx, Idle

(* What a restart does to the bundles.                                       *)
LEMMA RestartTypes == ASSUME Types, Restart \/ Refresh PROVE Types'
<1>1. /\ lastAccount' = NoCache /\ wtx' \in {NoTx, wtx} /\ notify' = Idle
      /\ readers' = [r \in Readers |-> Absent]
      /\ Refresh => wtx' = wtx /\ wtx.owner = "none"
      /\ Restart => wtx' = NoTx
  BY DEF Restart, Refresh
<1>2. BundlesType'
  <2>1. /\ DOMAIN bundles' = DOMAIN bundles
        /\ bundles' = [b \in DOMAIN bundles |-> bundles'[b]]
    BY DEF Restart, Refresh
  <2>2. ASSUME NEW b \in DOMAIN bundles
        PROVE  bundles'[b] \in Bundle
    <3>1. bundles[b] \in Bundle
      BY ElementOfSeq, LenProperties DEF Types, BundlesType
    <3>2. \/ bundles'[b] = [bundles[b] EXCEPT !.stage = IF @ = "pow" THEN "lost" ELSE @]
          \/ bundles'[b] = [bundles[b] EXCEPT !.stage = IF @ = "pow" THEN "lost" ELSE @,
                                              !.debited = FALSE]
      BY DEF Restart, Refresh
    <3> QED
      BY <3>1, <3>2 DEF Bundle, Stages
  <2> QED
    BY <2>1, <2>2, InPlaceType DEF Types
<1>3. db' \in Database
  <2>1. CASE Restart
    BY <2>1 DEF Restart, Types
  <2>2. CASE Refresh
    <3>1. ASSUME NEW n \in Accounts PROVE ResetBalances(db[n]) \in Seq(Balance)
      <4>1. db[n] \in Seq(Balance)
        BY DEF Types, Database
      <4>2. Len(db[n]) \in Nat /\ DOMAIN db[n] = 1..Len(db[n])
        BY <4>1, LenProperties
      <4>3. ASSUME NEW k \in 1..Len(db[n])
            PROVE  [db[n][k] EXCEPT !.value = 0] \in Balance
        <5>1. /\ db[n][k].change \in Nat
              /\ db[n][k] = [value |-> db[n][k].value, change |-> db[n][k].change]
          BY <4>1, ValuesAreInts
        <5>2. [db[n][k] EXCEPT !.value = 0] = [value |-> 0, change |-> db[n][k].change]
          BY <5>1
        <5> QED
          BY <5>1, <5>2 DEF Balance
      <4>4. ResetBalances(db[n]) \in [1..Len(db[n]) -> Balance]
        BY <4>2, <4>3 DEF ResetBalances
      <4> QED
        BY <4>2, <4>4, IsASeq
    <3> QED
      BY <2>2, <3>1 DEF Refresh, Database
  <2> QED
    BY <2>1, <2>2
<1>4. wtx' = NoTx
  BY <1>1 DEF Types, WtxType
<1>5. CacheType' /\ WtxType' /\ OwnerIsRight' /\ TodoIsRight'
  BY <1>1, <1>4 DEF CacheType, WtxType, OwnerIsRight, TodoIsRight, NoTx, Idle
<1>6. ReadersType'
  BY <1>1 DEF ReadersType, Absent
<1> QED
  BY <1>2, <1>3, <1>5, <1>6 DEF Types

LEMMA NextTypes == IInv /\ Types /\ [Next]_vars => Types'
<1> SUFFICES ASSUME IInv, Types, [Next]_vars PROVE Types'
  OBVIOUS
<1>1. CASE Rpc \/ Mesh \/ Reading
  BY <1>1, RpcTypes, MeshTypes, ReadingTypes
<1>2. CASE Notifying
  <2>1. NotifyType
    BY DEF IInv, ControlTypeOK
  <2> QED
    BY <1>2, <2>1, NotifyTypes, CreditTypes, EndTypes, RestartTypes DEF Notifying, NotifyPanics
<1>3. CASE Crash \/ Refresh
  BY <1>3, RestartTypes DEF Crash
<1>4. CASE UNCHANGED vars
  BY <1>4 DEF vars, Types, CacheType, WtxType, BundlesType, ReadersType, OwnerIsRight,
              TodoIsRight
<1> QED
  BY <1>1, <1>2, <1>3, <1>4 DEF Next

(* Whatever fails and whoever reads: the database, the cache, the open       *)
(* transaction and every bundle keep their types.                            *)
THEOREM WalletTypes == Spec => []TypeOK
<1>1. Spec => []Types
  BY Inductive, InitTypes, NextTypes, PTL DEF Spec
<1> QED
  BY <1>1, Inductive, TypesGiveTypeOK, PTL

-----------------------------------------------------------------------------
(* What the entries make of the value at an address: those in C are credited *)
(* there, and the payments in D are taken from it.                           *)
Share(bs, C, D, a, b) ==
    (IF <<b, a>> \in C THEN bs[b].entries[a] ELSE 0)
  + (IF b \in D /\ bs[b].entries[a] < 0 THEN bs[b].entries[a] ELSE 0)

Due(bs, C, D, a) ==
    SumFunctionOnSet([b \in DOMAIN bs |-> Share(bs, C, D, a, b)], DOMAIN bs)

LEMMA ShareType ==
    ASSUME NEW bs \in Seq(Bundle), NEW C, NEW D, NEW a \in Addresses
    PROVE  /\ IsFiniteSet(DOMAIN bs)
           /\ \A b \in DOMAIN bs : /\ bs[b] \in Bundle
                                   /\ bs[b].entries[a] \in Int
                                   /\ Share(bs, C, D, a, b) \in Int
<1>1. Len(bs) \in Nat /\ DOMAIN bs = 1..Len(bs)
  BY LenProperties
<1>2. IsFiniteSet(DOMAIN bs)
  BY <1>1, FS_Interval
<1>3. ASSUME NEW b \in DOMAIN bs
      PROVE  /\ bs[b] \in Bundle
             /\ bs[b].entries[a] \in Int
             /\ Share(bs, C, D, a, b) \in Int
  <2>1. bs[b] \in Bundle
    BY <1>1, <1>3, ElementOfSeq
  <2>2. bs[b].entries[a] \in Int
    BY <2>1 DEF Bundle
  <2> QED
    BY <2>1, <2>2 DEF Share
<1> QED
  BY <1>2, <1>3

LEMMA DueType ==
    ASSUME NEW bs \in Seq(Bundle), NEW C, NEW D, NEW a \in Addresses
    PROVE  Due(bs, C, D, a) \in Int
<1> DEFINE v == [b \in DOMAIN bs |-> Share(bs, C, D, a, b)]
<1>1. IsFiniteSet(DOMAIN bs) /\ \A b \in DOMAIN bs : v[b] \in Int
  BY ShareType
<1> HIDE DEF v
<1>2. SumFunctionOnSet(v, DOMAIN bs) \in Int
  BY <1>1, SumType
<1> QED
  BY <1>2 DEF Due, v

(* More bundles, none of which adds anything, leave it as it is.             *)
LEMMA DueSame ==
    ASSUME NEW bs \in Seq(Bundle), NEW C, NEW D, NEW a \in Addresses,
           NEW cs \in Seq(Bundle), NEW F, NEW E,
           DOMAIN bs \subseteq DOMAIN cs,
           \A b \in DOMAIN bs : Share(cs, F, E, a, b) = Share(bs, C, D, a, b),
           \A b \in DOMAIN cs \ DOMAIN bs : Share(cs, F, E, a, b) = 0
    PROVE  Due(cs, F, E, a) = Due(bs, C, D, a)
<1> DEFINE v == [b \in DOMAIN bs |-> Share(bs, C, D, a, b)]
           w == [b \in DOMAIN cs |-> Share(cs, F, E, a, b)]
<1>1. IsFiniteSet(DOMAIN cs)
  BY ShareType
<1>2. \A b \in DOMAIN bs : v[b] \in Int
  BY ShareType
<1>3. \A b \in DOMAIN cs : w[b] = IF b \in DOMAIN bs THEN v[b] ELSE 0
  OBVIOUS
<1> HIDE DEF v, w
<1>4. SumFunctionOnSet(w, DOMAIN cs) = SumFunctionOnSet(v, DOMAIN bs)
  BY <1>1, <1>2, <1>3, SumPart
<1> QED
  BY <1>4 DEF Due, v, w

LEMMA DueLess ==
    ASSUME NEW bs \in Seq(Bundle), NEW C, NEW D, NEW a \in Addresses,
           NEW cs \in Seq(Bundle), NEW F, NEW E,
           DOMAIN bs = DOMAIN cs,
           \A b \in DOMAIN bs : Share(bs, C, D, a, b) <= Share(cs, F, E, a, b)
    PROVE  Due(bs, C, D, a) <= Due(cs, F, E, a)
<1> DEFINE v == [b \in DOMAIN bs |-> Share(bs, C, D, a, b)]
           w == [b \in DOMAIN bs |-> Share(cs, F, E, a, b)]
<1>1. IsFiniteSet(DOMAIN bs)
  BY ShareType
<1>2. \A b \in DOMAIN bs : v[b] \in Int
  BY ShareType
<1>3. \A b \in DOMAIN bs : w[b] \in Int
  BY ShareType
<1>4. \A b \in DOMAIN bs : v[b] <= w[b]
  OBVIOUS
<1> HIDE DEF v, w
<1>5. SumFunctionOnSet(v, DOMAIN bs) <= SumFunctionOnSet(w, DOMAIN bs)
  BY <1>1, <1>2, <1>3, <1>4, SumMonotone
<1> QED
  BY <1>5 DEF Due, v, w

(* One bundle adds something else.                                           *)
LEMMA DueChanged ==
    ASSUME NEW bs \in Seq(Bundle), NEW C, NEW D, NEW a \in Addresses, NEW F, NEW E,
           NEW c \in DOMAIN bs,
           \A b \in DOMAIN bs : b # c => Share(bs, F, E, a, b) = Share(bs, C, D, a, b)
    PROVE  Due(bs, F, E, a) =
              Due(bs, C, D, a) + Share(bs, F, E, a, c) - Share(bs, C, D, a, c)
<1> DEFINE v == [b \in DOMAIN bs |-> Share(bs, C, D, a, b)]
           w == [b \in DOMAIN bs |-> Share(bs, F, E, a, b)]
<1>1. IsFiniteSet(DOMAIN bs)
  BY ShareType
<1>2. \A b \in DOMAIN bs : v[b] \in Int
  BY ShareType
<1>3. \A b \in DOMAIN bs : w[b] \in Int
  BY ShareType
<1>4. \A b \in DOMAIN bs : b # c => v[b] = w[b]
  OBVIOUS
<1>5. v[c] = Share(bs, C, D, a, c) /\ w[c] = Share(bs, F, E, a, c)
  OBVIOUS
<1> HIDE DEF v, w
<1>6. SumFunctionOnSet(w, DOMAIN bs) = SumFunctionOnSet(v, DOMAIN bs) + w[c] - v[c]
  BY <1>1, <1>2, <1>3, <1>4, SumUpdate
<1>7. Due(bs, C, D, a) = SumFunctionOnSet(v, DOMAIN bs)
  BY DEF Due, v
<1>8. Due(bs, F, E, a) = SumFunctionOnSet(w, DOMAIN bs)
  BY DEF Due, w
<1> QED
  BY <1>5, <1>6, <1>7, <1>8

LEMMA DueNothing ==
    ASSUME NEW bs \in Seq(Bundle), NEW C, NEW D, NEW a \in Addresses,
           \A b \in DOMAIN bs : Share(bs, C, D, a, b) = 0
    PROVE  Due(bs, C, D, a) = 0
<1> DEFINE v == [b \in DOMAIN bs |-> Share(bs, C, D, a, b)]
<1>1. IsFiniteSet(DOMAIN bs)
  BY ShareType
<1>2. \A b \in DOMAIN bs : v[b] = 0
  OBVIOUS
<1> HIDE DEF v
<1>3. SumFunctionOnSet(v, DOMAIN bs) = 0
  BY <1>1, <1>2, SumZero
<1> QED
  BY <1>3 DEF Due, v

-----------------------------------------------------------------------------
(* The accounts as the open write transaction has them, or else the database.*)
Image == IF wtx.owner = "none" THEN db ELSE wtx.img

(* The entries credited and the bundles paid, in the database and there.     *)
Credited == {tx \in TxIds : credits[tx] > 0}
CreditedInImage ==
    Credited \cup IF wtx.owner = "notify" THEN notify.newly \ notify.todo ELSE {}

Debited == {b \in DOMAIN bundles : bundles[b].debited}
DebitedInImage == Debited \cup (DOMAIN bundles \cap {wtx.bundle})

Exact(img, bs, C, D) ==
    \A a \in Addresses :
        a[2] <= Len(img[a[1]]) =>
            /\ img[a[1]][a[2]].value = Due(bs, C, D, a)
            /\ img[a[1]][a[2]].change > 0 =>
                  \E b \in DOMAIN bs : /\ bs[b].own
                                       /\ bs[b].entries[a] = img[a[1]][a[2]].change
                                       /\ <<b, a>> \notin C

(* A handler's transaction has its bundle, Walletnotify's none; and between  *)
(* finding an address in the cache and crediting it, the cache stays.        *)
OpenIsRight ==
    /\ wtx.bundle \in 0..Len(bundles)
    /\ wtx.owner # "rpc" => wtx.bundle = 0
    /\ notify.pc = "hit" => \E tx \in notify.todo : notify.cur = {tx} /\ Cached(tx[2])

CacheIsRight == lastAccount.name # 0 => lastAccount.bals = Image[lastAccount.name]

(* Addresses are never dropped, neither from what is read nor while a        *)
(* bundle uses them.                                                         *)
ImageGrows == \A n \in Accounts : Len(db[n]) <= Len(Image[n])

SeenKnown == /\ notify.adrs \subseteq AddressesOf(db)
             /\ \A tx \in txDB \cup notify.found : tx[2] \in AddressesOf(db)

SpentKnown ==
    \A b \in DOMAIN bundles, a \in Addresses :
        EntryAt(b, a) < 0 => /\ b \in Debited => a \in AddressesOf(db)
                             /\ b = wtx.bundle => a \in AddressesOf(Image)

DatabaseExact == Exact(db, bundles, Credited, Debited)
ImageExact == Exact(Image, bundles, CreditedInImage, DebitedInImage)

Balanced == /\ OpenIsRight /\ CacheIsRight
            /\ ImageGrows /\ SeenKnown /\ SpentKnown
            /\ DatabaseExact /\ ImageExact

-----------------------------------------------------------------------------
LEMMA AccountOf ==
    ASSUME NEW a \in Addresses
    PROVE  /\ a[1] \in Accounts /\ a[2] \in Nat \ {0} /\ a = <<a[1], a[2]>>
           /\ a[2] <= MaxAddrs[a[1]]
<1>1. PICK n \in Accounts : a \in {n} \X (1..MaxAddrs[n])
  BY DEF Addresses
<1>2. MaxAddrs[n] \in Nat
  BY DEF Accounts
<1> QED
  BY <1>1, <1>2

LEMMA ImageType ==
    ASSUME Types
    PROVE  /\ Image \in Database /\ db \in Database
           /\ \A n \in Accounts : /\ db[n] \in Seq(Balance) /\ Len(db[n]) \in Nat
                                  /\ Image[n] \in Seq(Balance) /\ Len(Image[n]) \in Nat
           /\ wtx.owner \in {"none", "rpc", "notify"}
<1>1. Image \in Database /\ wtx.owner \in {"none", "rpc", "notify"}
  BY DEF Types, WtxType, Image, NoTx
<1>2. db \in Database
  BY DEF Types
<1> QED
  BY <1>1, <1>2, LenProperties DEF Database

LEMMA BundlesAre ==
    ASSUME Types
    PROVE  /\ bundles \in Seq(Bundle) /\ Len(bundles) \in Nat
           /\ DOMAIN bundles = 1..Len(bundles) /\ DOMAIN bundles \subseteq BundleIds
           /\ \A b \in DOMAIN bundles : bundles[b] \in Bundle
           /\ \A b \in DOMAIN bundles, a \in Addresses :
                 EntryAt(b, a) \in Int /\ <<b, a>> \in TxIds
<1>1. /\ bundles \in Seq(Bundle) /\ Len(bundles) \in Nat /\ Len(bundles) <= MaxBundles
      /\ DOMAIN bundles = 1..Len(bundles)
  BY LenProperties DEF Types, BundlesType
<1>2. DOMAIN bundles \subseteq BundleIds
  BY <1>1 DEF BundleIds
<1>3. ASSUME NEW b \in DOMAIN bundles, NEW a \in Addresses
      PROVE  EntryAt(b, a) \in Int /\ <<b, a>> \in TxIds
  <2>1. bundles[b].entries[a] \in Int
    BY <1>1, ShareType
  <2> QED
    BY <1>2, <2>1 DEF EntryAt, TxIds
<1>4. \A b \in DOMAIN bundles : bundles[b] \in Bundle
  BY <1>1, ElementOfSeq
<1> QED
  BY <1>1, <1>2, <1>3, <1>4

(* What has been credited is stored and was confirmed.                       *)
LEMMA CreditedIsKnown ==
    ASSUME IInv, Types
    PROVE  /\ CreditedInImage \subseteq txDB /\ Credited \subseteq CreditedInImage
           /\ \A tx \in CreditedInImage : /\ tx[1] \in DOMAIN bundles
                                          /\ Confirmed(tx[1])
<1>1. \A tx \in Credited : tx \in hashes.confirmed
  BY DEF IInv, CreditsRight, Credited
<1>2. hashes.confirmed \subseteq txDB /\ notify.newly \subseteq txDB
  BY DEF IInv, HashesStored
<1>3. CreditedInImage \subseteq hashes.confirmed \cup notify.newly
  BY <1>1 DEF CreditedInImage
<1>4. \A tx \in txDB : tx[1] \in DOMAIN bundles
  BY CreditedIsEntry
<1>5. \A tx \in hashes.confirmed \cup notify.newly : Confirmed(tx[1])
  BY DEF IInv, Witnessed
<1> QED
  BY <1>2, <1>3, <1>4, <1>5 DEF CreditedInImage

(* An address that no image has yet: nothing was ever credited or paid there.*)
LEMMA NothingDue ==
    ASSUME IInv, Types, SeenKnown, SpentKnown, NEW a \in Addresses, a \notin AddressesOf(db)
    PROVE  Due(bundles, Credited, Debited, a) = 0
<1>1. bundles \in Seq(Bundle) /\ \A b \in DOMAIN bundles : EntryAt(b, a) \in Int
  BY BundlesAre
<1>2. ASSUME NEW b \in DOMAIN bundles PROVE Share(bundles, Credited, Debited, a, b) = 0
  <2>1. <<b, a>> \notin Credited
    <3>1. <<b, a>> \in Credited => <<b, a>> \in txDB
      BY CreditedIsKnown
    <3> QED
      BY <3>1 DEF SeenKnown
  <2>2. ~(b \in Debited /\ EntryAt(b, a) < 0)
    BY DEF SpentKnown
  <2> QED
    BY <2>1, <2>2 DEF Share, EntryAt
<1> QED
  BY <1>1, <1>2, DueNothing

-----------------------------------------------------------------------------
(* What a step may do to the bundles that are there; and what it keeps then. *)
Kept ==
    /\ DOMAIN bundles \subseteq DOMAIN bundles'
    /\ \A b \in DOMAIN bundles :
          /\ bundles'[b].entries = bundles[b].entries
          /\ bundles'[b].own = bundles[b].own
          /\ bundles[b].stage = "confirmed" => bundles'[b].stage = "confirmed"

LEMMA DueKept ==
    ASSUME Types, Types', Kept, NEW a \in Addresses,
           NEW C, \A tx \in C : tx[1] \in DOMAIN bundles,
           NEW D \in SUBSET DOMAIN bundles
    PROVE  Due(bundles', C, D, a) = Due(bundles, C, D, a)
<1>1. bundles \in Seq(Bundle) /\ bundles' \in Seq(Bundle)
  BY DEF Types, BundlesType
<1>2. \A b \in DOMAIN bundles : Share(bundles', C, D, a, b) = Share(bundles, C, D, a, b)
  BY DEF Kept, Share
<1>3. ASSUME NEW b \in DOMAIN bundles' \ DOMAIN bundles
      PROVE  Share(bundles', C, D, a, b) = 0
  <2>1. <<b, a>> \notin C
    OBVIOUS
  <2> QED
    BY <2>1 DEF Share
<1> QED
  BY <1>1, <1>2, <1>3, DueSame DEF Kept

LEMMA ExactKept ==
    ASSUME Types, Types', Kept, NEW img, NEW C, \A tx \in C : tx[1] \in DOMAIN bundles,
           NEW D \in SUBSET DOMAIN bundles, Exact(img, bundles, C, D)
    PROVE  Exact(img, bundles', C, D)
<1> SUFFICES ASSUME NEW a \in Addresses, a[2] <= Len(img[a[1]])
             PROVE  /\ img[a[1]][a[2]].value = Due(bundles', C, D, a)
                    /\ img[a[1]][a[2]].change > 0 =>
                          \E b \in DOMAIN bundles' :
                             /\ bundles'[b].own
                             /\ bundles'[b].entries[a] = img[a[1]][a[2]].change
                             /\ <<b, a>> \notin C
  BY DEF Exact
<1>1. Due(bundles', C, D, a) = Due(bundles, C, D, a)
  BY DueKept
<1>2. /\ img[a[1]][a[2]].value = Due(bundles, C, D, a)
      /\ img[a[1]][a[2]].change > 0 =>
            \E b \in DOMAIN bundles :
               /\ bundles[b].own
               /\ bundles[b].entries[a] = img[a[1]][a[2]].change
               /\ <<b, a>> \notin C
  BY DEF Exact
<1> QED
  BY <1>1, <1>2 DEF Kept

LEMMA LenGrows ==
    ASSUME Types, Types', Kept
    PROVE  Len(bundles) <= Len(bundles') /\ Len(bundles) \in Nat /\ Len(bundles') \in Nat
<1>1. /\ DOMAIN bundles = 1..Len(bundles) /\ Len(bundles) \in Nat
      /\ DOMAIN bundles' = 1..Len(bundles') /\ Len(bundles') \in Nat
  BY LenProperties DEF Types, BundlesType
<1>2. CASE Len(bundles) = 0
  BY <1>1, <1>2
<1>3. CASE Len(bundles) # 0
  <2>1. Len(bundles) \in DOMAIN bundles
    BY <1>1, <1>3
  <2> QED
    BY <1>1, <2>1 DEF Kept
<1> QED
  BY <1>2, <1>3, <1>1

(* The rest of what stays when the accounts, the cache, the transaction and  *)
(* what was credited do.                                                     *)
LEMMA BookStays ==
    ASSUME IInv, Types, Types', Balanced, Kept,
           UNCHANGED <<db, lastAccount, wtx, credits>>,
           CreditedInImage' = CreditedInImage,
           Debited' = Debited,
           DebitedInImage' = DebitedInImage
    PROVE  /\ CacheIsRight' /\ ImageGrows' /\ DatabaseExact' /\ ImageExact'
           /\ wtx'.bundle \in 0..Len(bundles') /\ (wtx'.owner # "rpc" => wtx'.bundle = 0)
<1>1. Image' = Image /\ Credited' = Credited
  BY DEF Image, Credited
<1>2. CacheIsRight' /\ ImageGrows'
  BY <1>1 DEF Balanced, CacheIsRight, ImageGrows
<1>3. \A tx \in CreditedInImage \cup Credited : tx[1] \in DOMAIN bundles
  BY CreditedIsKnown
<1>4. Debited \in SUBSET DOMAIN bundles /\ DebitedInImage \in SUBSET DOMAIN bundles
  BY DEF Debited, DebitedInImage
<1>5. Exact(db, bundles', Credited, Debited)
  BY <1>3, <1>4, ExactKept DEF Balanced, DatabaseExact
<1>6. Exact(Image, bundles', CreditedInImage, DebitedInImage)
  BY <1>3, <1>4, ExactKept DEF Balanced, ImageExact
<1>7. DatabaseExact' /\ ImageExact'
  BY <1>1, <1>5, <1>6 DEF DatabaseExact, ImageExact
<1>9. wtx'.bundle \in 0..Len(bundles')
  BY LenGrows DEF Balanced, OpenIsRight
<1> QED
  BY <1>2, <1>7, <1>9 DEF Balanced, OpenIsRight

-----------------------------------------------------------------------------
(* The mesh, and the goroutines that broadcast.                              *)
LEMMA StageKeeps ==
    ASSUME Types, NEW c \in DOMAIN bundles, Broadcast(c) \/ Confirm(c)
    PROVE  /\ UNCHANGED <<db, hashes, txDB, lastAccount, wtx, notify, readers, credits>>
           /\ Kept /\ DOMAIN bundles' = DOMAIN bundles
           /\ \A b \in DOMAIN bundles : bundles'[b].entries = bundles[b].entries
           /\ Debited' = Debited /\ DebitedInImage' = DebitedInImage
<1>1. /\ UNCHANGED <<db, hashes, txDB, lastAccount, wtx, notify, readers, credits>>
      /\ bundles[c].stage # "confirmed"
  BY DEF Broadcast, Confirm
<1>2. PICK s : bundles' = [bundles EXCEPT ![c].stage = s]
  BY DEF Broadcast, Confirm
<1>3. /\ DOMAIN bundles' = DOMAIN bundles
      /\ \A b \in DOMAIN bundles : /\ bundles'[b].entries = bundles[b].entries
                                   /\ bundles'[b].own = bundles[b].own
                                   /\ bundles'[b].debited = bundles[b].debited
                                   /\ b # c => bundles'[b].stage = bundles[b].stage
  <2>1. \A b \in DOMAIN bundles :
           bundles[b] \in [entries : [Addresses -> Int], own : BOOLEAN, stage : Stages,
                           debited : BOOLEAN]
    BY BundlesAre DEF Bundle
  <2> QED
    BY <1>2, <2>1
<1>4. Kept
  BY <1>1, <1>3 DEF Kept
<1> QED
  BY <1>1, <1>3, <1>4 DEF Debited, DebitedInImage

LEMMA StageBalanced ==
    ASSUME IInv, Types, Types', Balanced, NEW c \in DOMAIN bundles,
           Broadcast(c) \/ Confirm(c)
    PROVE  Balanced'
<1>1. /\ UNCHANGED <<db, hashes, txDB, lastAccount, wtx, notify, readers, credits>>
      /\ Kept /\ DOMAIN bundles' = DOMAIN bundles
      /\ \A b \in DOMAIN bundles : bundles'[b].entries = bundles[b].entries
      /\ Debited' = Debited /\ DebitedInImage' = DebitedInImage
  BY StageKeeps
<1>2. CreditedInImage' = CreditedInImage /\ Image' = Image
  BY <1>1 DEF CreditedInImage, Credited, Image
<1>3. /\ CacheIsRight' /\ ImageGrows' /\ DatabaseExact' /\ ImageExact'
      /\ wtx'.bundle \in 0..Len(bundles') /\ (wtx'.owner # "rpc" => wtx'.bundle = 0)
  BY <1>1, <1>2, BookStays
<1>4. OpenIsRight'
  BY <1>1, <1>3 DEF Balanced, OpenIsRight, Cached
<1>5. SeenKnown'
  BY <1>1 DEF Balanced, SeenKnown, AddressesOf
<1>6. SpentKnown'
  BY <1>1, <1>2 DEF Balanced, SpentKnown, AddressesOf, EntryAt
<1> QED
  BY <1>3, <1>4, <1>5, <1>6 DEF Balanced

LEMMA DepositKeeps ==
    ASSUME Types, NEW a \in Addresses, NEW v \in Deposits, Deposit(a, v)
    PROVE  /\ UNCHANGED <<db, hashes, txDB, lastAccount, wtx, notify, readers, credits>>
           /\ Kept /\ Debited' = Debited
           /\ OpenIsRight => DebitedInImage' = DebitedInImage
           /\ a \in AddressesOf(db)
           /\ \E new : /\ new = Len(bundles) + 1
                       /\ DOMAIN bundles' = DOMAIN bundles \cup {new}
                       /\ \A b \in DOMAIN bundles : bundles'[b] = bundles[b]
                       /\ \A x \in Addresses : /\ bundles'[new].entries[x] >= 0
                                               /\ bundles'[new].entries[x] # 0 => x = a
<1> DEFINE entries == [x \in Addresses |-> IF x = a THEN v ELSE 0]
<1>1. /\ UNCHANGED <<db, hashes, txDB, lastAccount, wtx, notify, readers, credits>>
      /\ Len(bundles) < MaxBundles /\ a \in AddressesOf(db)
      /\ bundles' = Append(bundles, NewBundle(entries, FALSE))
  BY DEF Deposit
<1>2. /\ entries \in [Addresses -> Int]
      /\ \A x \in Addresses : entries[x] >= 0 /\ (entries[x] # 0 => x = a)
  OBVIOUS
<1> HIDE DEF entries
<1>n. PICK new : new = Len(bundles) + 1
  OBVIOUS
<1>3. /\ Len(bundles) \in Nat /\ DOMAIN bundles = 1..Len(bundles)
      /\ DOMAIN bundles' = DOMAIN bundles \cup {new}
      /\ \A b \in DOMAIN bundles : bundles'[b] = bundles[b]
      /\ bundles'[new] = NewBundle(entries, FALSE)
  BY <1>1, <1>2, <1>n, AppendBundleType DEF Types
<1>4. Kept
  BY <1>3 DEF Kept
<1>5. ~bundles'[new].debited /\ bundles'[new].entries = entries
  BY <1>3 DEF NewBundle
<1>6. Debited' = Debited
  BY <1>3, <1>5 DEF Debited
<1>7. OpenIsRight => DebitedInImage' = DebitedInImage
  <2>1. OpenIsRight => new # wtx.bundle
    BY <1>3, <1>n DEF OpenIsRight
  <2> QED
    BY <1>1, <1>3, <1>6, <2>1 DEF DebitedInImage
<1>8. \A x \in Addresses : /\ bundles'[new].entries[x] >= 0
                           /\ bundles'[new].entries[x] # 0 => x = a
  BY <1>2, <1>5
<1>9. \E m : /\ m = Len(bundles) + 1
             /\ DOMAIN bundles' = DOMAIN bundles \cup {m}
             /\ \A b \in DOMAIN bundles : bundles'[b] = bundles[b]
             /\ \A x \in Addresses : /\ bundles'[m].entries[x] >= 0
                                     /\ bundles'[m].entries[x] # 0 => x = a
  <2> WITNESS new
  <2> QED
    BY <1>3, <1>8, <1>n
<1> QED
  BY <1>1, <1>4, <1>6, <1>7, <1>9

LEMMA DepositBalanced ==
    ASSUME IInv, Types, Types', Balanced, NEW a \in Addresses, NEW v \in Deposits,
           Deposit(a, v)
    PROVE  Balanced'
<1>1. /\ UNCHANGED <<db, hashes, txDB, lastAccount, wtx, notify, readers, credits>>
      /\ Kept /\ Debited' = Debited /\ DebitedInImage' = DebitedInImage
  BY DepositKeeps DEF Balanced
<1>2. PICK new : /\ new = Len(bundles) + 1
                 /\ DOMAIN bundles' = DOMAIN bundles \cup {new}
                 /\ \A b \in DOMAIN bundles : bundles'[b] = bundles[b]
                 /\ \A x \in Addresses : /\ bundles'[new].entries[x] >= 0
                                         /\ bundles'[new].entries[x] # 0 => x = a
  BY DepositKeeps DEF Balanced
<1>6. CreditedInImage' = CreditedInImage /\ Image' = Image
  BY <1>1 DEF CreditedInImage, Credited, Image
<1>7. /\ CacheIsRight' /\ ImageGrows' /\ DatabaseExact' /\ ImageExact'
      /\ wtx'.bundle \in 0..Len(bundles') /\ (wtx'.owner # "rpc" => wtx'.bundle = 0)
  BY <1>1, <1>6, BookStays
<1>8. OpenIsRight'
  BY <1>1, <1>7 DEF Balanced, OpenIsRight, Cached
<1>9. SeenKnown'
  BY <1>1 DEF Balanced, SeenKnown, AddressesOf
<1>10. SpentKnown'
  <2>1. AddressesOf(db)' = AddressesOf(db) /\ AddressesOf(Image)' = AddressesOf(Image)
    BY <1>1, <1>6 DEF AddressesOf
  <2>2. ASSUME NEW b \in DOMAIN bundles, NEW x \in Addresses, EntryAt(b, x)' < 0
        PROVE  /\ b \in Debited' => x \in AddressesOf(db)'
               /\ b = wtx'.bundle => x \in AddressesOf(Image)'
    BY <1>1, <1>2, <1>6, <2>1, <2>2 DEF Balanced, SpentKnown, EntryAt
  <2>3. ASSUME NEW x \in Addresses PROVE ~(EntryAt(new, x)' < 0)
    <3>1. EntryAt(new, x)' >= 0 /\ EntryAt(new, x)' \in Int
      <4>1. bundles' \in Seq(Bundle) /\ new \in DOMAIN bundles'
        BY <1>2 DEF Types, BundlesType
      <4>2. bundles'[new].entries[x] \in Int
        BY <4>1, ShareType
      <4>3. bundles'[new].entries[x] >= 0
        BY <1>2
      <4>4. EntryAt(new, x)' = bundles'[new].entries[x]
        BY DEF EntryAt
      <4> QED
        BY <4>2, <4>3, <4>4
    <3> QED
      BY <3>1
  <2> QED
    BY <1>2, <2>2, <2>3 DEF SpentKnown
<1> QED
  BY <1>7, <1>8, <1>9, <1>10 DEF Balanced

(* Walletnotify before it credits.  Nothing is credited by what it looks up. *)
LEMMA QuietBalanced ==
    ASSUME IInv, Types, Types', Balanced,
           UNCHANGED <<db, lastAccount, wtx, bundles, credits>>, SeenKnown',
           \/ notify.pc \notin {"credit", "hit"} /\ notify'.pc \notin {"credit", "hit"}
           \/ /\ notify'.newly = notify.newly /\ notify'.todo = notify.todo
              /\ notify'.pc = "hit" =>
                    \E tx \in notify.todo : notify'.cur = {tx} /\ Cached(tx[2])
    PROVE  Balanced'
<1>1. Kept /\ Debited' = Debited /\ DebitedInImage' = DebitedInImage
      /\ Image' = Image /\ Credited' = Credited
  BY DEF Kept, Debited, DebitedInImage, Image, Credited
<1>2. CreditedInImage' = CreditedInImage
  BY <1>1 DEF CreditedInImage, Types, OwnerIsRight
<1>3. /\ CacheIsRight' /\ ImageGrows' /\ DatabaseExact' /\ ImageExact'
      /\ wtx'.bundle \in 0..Len(bundles') /\ (wtx'.owner # "rpc" => wtx'.bundle = 0)
  BY <1>1, <1>2, BookStays
<1>4. OpenIsRight'
  BY <1>3 DEF Balanced, OpenIsRight, Cached
<1>5. SpentKnown'
  BY <1>1 DEF Balanced, SpentKnown, AddressesOf, EntryAt
<1> QED
  BY <1>3, <1>4, <1>5 DEF Balanced

LEMMA RoundBalanced ==
    ASSUME IInv, Types, Types', Balanced, 
           \/ NotifyStart \/ NotifyFind \/ NotifyCompare \/ NotifyInclusion
           \/ NotifyGivesUp \/ NotifyPut
    PROVE  Balanced'
<1>1. NotifyType
  BY DEF IInv, ControlTypeOK
<1>2. SeenKnown
  BY DEF Balanced
<1>3. CASE NotifyStart
  <2>1. PICK A : notify' = [Idle EXCEPT !.pc = "find", !.adrs = A] /\ A = AddressesOf(db)
    BY <1>3 DEF NotifyStart
  <2>2. notify.pc = "idle" /\ UNCHANGED <<db, txDB, lastAccount, wtx, bundles, credits>>
    BY <1>3 DEF NotifyStart
  <2>3. notify'.pc = "find" /\ notify'.adrs = AddressesOf(db) /\ notify'.found = {}
    BY <2>1 DEF Idle
  <2>4. SeenKnown'
    BY <1>2, <2>2, <2>3 DEF SeenKnown, AddressesOf
  <2> QED
    BY <2>2, <2>3, <2>4, QuietBalanced
<1>4. CASE NotifyFind
  <2>1. PICK A \in SUBSET notify.adrs :
           notify' = IF EntriesOf(A) = {} THEN Idle
                     ELSE [Idle EXCEPT !.pc = "compare", !.found = EntriesOf(A)]
    BY <1>4 DEF NotifyFind
  <2>2. notify.pc = "find" /\ UNCHANGED <<db, txDB, lastAccount, wtx, bundles, credits>>
    BY <1>4 DEF NotifyFind
  <2>3. \A tx \in EntriesOf(A) : tx[2] \in AddressesOf(db)
    BY <1>2 DEF EntriesOf, SeenKnown
  <2> DEFINE E == EntriesOf(A)
  <2> HIDE DEF E
  <2>4. notify' = Idle \/ notify' = [Idle EXCEPT !.pc = "compare", !.found = E]
    BY <2>1 DEF E
  <2>5. notify'.pc \in {"idle", "compare"} /\ notify'.adrs = {} /\ notify'.found \subseteq E
    <3>1. ASSUME notify' = Idle
          PROVE  notify'.pc = "idle" /\ notify'.adrs = {} /\ notify'.found = {}
      BY <3>1 DEF Idle
    <3>2. ASSUME notify' = [Idle EXCEPT !.pc = "compare", !.found = E]
          PROVE  notify'.pc = "compare" /\ notify'.adrs = {} /\ notify'.found = E
      BY <3>2 DEF Idle
    <3> QED
      BY <2>4, <3>1, <3>2
  <2>6. SeenKnown'
    BY <1>2, <2>2, <2>3, <2>5 DEF SeenKnown, AddressesOf, E
  <2> QED
    BY <2>2, <2>5, <2>6, QuietBalanced
<1>5. CASE NotifyCompare
  <2>1. PICK N, h, c : notify' = [Idle EXCEPT !.pc = "inclusion", !.news = N, !.hs = h, !.conf = c]
    BY <1>5 DEF NotifyCompare
  <2>2. notify'.pc = "inclusion" /\ notify'.adrs = {} /\ notify'.found = {}
    BY <2>1 DEF Idle
  <2>3. /\ notify.pc = "compare" /\ txDB' \subseteq txDB \cup notify.found
        /\ UNCHANGED <<db, lastAccount, wtx, bundles, credits>>
    BY <1>5 DEF NotifyCompare, TxsAfter, NotSeen
  <2>4. SeenKnown'
    BY <1>2, <2>2, <2>3 DEF SeenKnown, AddressesOf
  <2> QED
    BY <2>2, <2>3, <2>4, QuietBalanced
<1>6. CASE NotifyInclusion \/ NotifyPut
  <2>1. /\ notify.pc \in {"inclusion", "put"} /\ notify'.pc \in {"put", "begin"}
        /\ notify'.adrs = notify.adrs /\ notify'.found = notify.found
        /\ UNCHANGED <<db, txDB, lastAccount, wtx, bundles, credits>>
    BY <1>1, <1>6 DEF NotifyInclusion, NotifyPut, NotifyType
  <2>2. SeenKnown'
    BY <1>2, <2>1 DEF SeenKnown, AddressesOf
  <2> QED
    BY <2>1, <2>2, QuietBalanced
<1>7. CASE NotifyGivesUp
  <2>1. /\ notify.pc \in {"compare", "inclusion"} /\ notify' = Idle
        /\ UNCHANGED <<db, txDB, lastAccount, wtx, bundles, credits>>
    BY <1>7 DEF NotifyGivesUp
  <2>2. notify'.pc = "idle" /\ notify'.adrs = {} /\ notify'.found = {}
    BY <2>1 DEF Idle
  <2>3. SeenKnown'
    BY <1>2, <2>1, <2>2 DEF SeenKnown, AddressesOf
  <2> QED
    BY <2>1, <2>2, <2>3, QuietBalanced
<1> QED
  BY <1>3, <1>4, <1>5, <1>6, <1>7

(* A hit finds the address in the cached account.                            *)
LEMMA HitBalanced ==
    ASSUME IInv, Types, Types', Balanced, NEW tx \in TxIds, NotifyHit(tx)
    PROVE  Balanced'
<1>1. NotifyType
  BY DEF IInv, ControlTypeOK
<1>2. /\ tx \in notify.todo /\ Cached(tx[2])
      /\ notify' = [notify EXCEPT !.pc = "hit", !.cur = {tx}]
      /\ UNCHANGED <<db, txDB, lastAccount, wtx, bundles, credits>>
  BY DEF NotifyHit
<1>3. /\ notify'.cur = {tx} /\ notify'.todo = notify.todo /\ notify'.newly = notify.newly
      /\ notify'.adrs = notify.adrs /\ notify'.found = notify.found
  BY <1>1, <1>2 DEF NotifyType
<1>4. SeenKnown'
  BY <1>2, <1>3 DEF Balanced, SeenKnown, AddressesOf
<1> QED
  BY <1>2, <1>3, <1>4, QuietBalanced

-----------------------------------------------------------------------------
(* Crediting.                                                                *)
LEMMA DueCredited ==
    ASSUME NEW bs \in Seq(Bundle), NEW C, NEW D, NEW a \in Addresses,
           NEW c \in DOMAIN bs, NEW x \in Addresses, <<c, x>> \notin C
    PROVE  Due(bs, C \cup {<<c, x>>}, D, a) =
              Due(bs, C, D, a) + IF x = a THEN bs[c].entries[a] ELSE 0
<1>f. PICK F : F = C \cup {<<c, x>>}
  OBVIOUS
<1>y. \A y : y \in F <=> y \in C \/ y = <<c, x>>
  BY <1>f
<1>1. /\ Due(bs, C, D, a) \in Int
      /\ \A b \in DOMAIN bs : Share(bs, C, D, a, b) \in Int /\ bs[b].entries[a] \in Int
  BY DueType, ShareType
<1>2. ASSUME x # a PROVE Due(bs, F, D, a) = Due(bs, C, D, a) + IF x = a THEN bs[c].entries[a] ELSE 0
  <2>1. \A b \in DOMAIN bs : <<b, a>> \in F <=> <<b, a>> \in C
    BY <1>2, <1>y
  <2>2. \A b \in DOMAIN bs : Share(bs, F, D, a, b) = Share(bs, C, D, a, b)
    BY <2>1 DEF Share
  <2>3. Due(bs, F, D, a) = Due(bs, C, D, a)
    BY <2>2, DueSame
  <2> QED
    BY <1>1, <1>2, <2>3
<1>3. ASSUME x = a PROVE Due(bs, F, D, a) = Due(bs, C, D, a) + IF x = a THEN bs[c].entries[a] ELSE 0
  <2>1. \A b \in DOMAIN bs : b # c => Share(bs, F, D, a, b) = Share(bs, C, D, a, b)
    <3>1. \A b \in DOMAIN bs : b # c => (<<b, a>> \in F <=> <<b, a>> \in C)
      BY <1>y
    <3> QED
      BY <3>1 DEF Share
  <2>2. <<c, a>> \in F /\ <<c, a>> \notin C
    BY <1>3, <1>y
  <2>3. Share(bs, F, D, a, c) = Share(bs, C, D, a, c) + bs[c].entries[a]
    BY <1>1, <2>2 DEF Share
  <2>4. Due(bs, F, D, a) =
           Due(bs, C, D, a) + Share(bs, F, D, a, c) - Share(bs, C, D, a, c)
    BY <2>1, DueChanged
  <2> QED
    BY <1>1, <1>3, <2>3, <2>4
<1>4. Due(bs, F, D, a) = Due(bs, C, D, a) + IF x = a THEN bs[c].entries[a] ELSE 0
  BY <1>2, <1>3
<1> QED
  BY <1>4, <1>f

(* What crediting makes of the account, in the transaction and in the cache. *)
LEMMA CreditShape ==
    ASSUME IInv, Types, NEW tx \in TxIds, tx[1] \in DOMAIN bundles, NEW n \in Accounts,
           NEW bals \in Seq(Balance), notify.pc \in {"credit", "hit"}, CreditTo(n, bals, tx),
           UNCHANGED <<db, bundles, readers>>
    PROVE  \E after \in Seq(Balance), e \in Int :
              /\ e = EntryAt(tx[1], tx[2]) /\ Len(after) = Len(bals)
              /\ \A i \in 1..Len(bals) : after[i] =
                    IF i = tx[2][2] THEN [value |-> bals[i].value + e, change |-> 0] ELSE bals[i]
              /\ lastAccount' = [name |-> n, bals |-> after]
              /\ wtx.owner = "notify" /\ wtx'.owner = "notify" /\ wtx'.bundle = wtx.bundle
              /\ Image \in Database /\ Image' = [Image EXCEPT ![n] = after]
              /\ notify'.pc = "credit" /\ notify'.todo = notify.todo \ {tx}
              /\ notify'.newly = notify.newly /\ notify'.adrs = notify.adrs
              /\ notify'.found = notify.found
<1>1. NotifyType
  BY DEF IInv, ControlTypeOK
<1>2. /\ EntryAt(tx[1], tx[2]) \in Int
      /\ lastAccount' = [name |-> n, bals |-> wtx'.img[n]]
      /\ wtx' = [wtx EXCEPT !.img[n] = wtx'.img[n]]
      /\ wtx.owner = "notify" /\ wtx.img \in Database
      /\ wtx'.img[n] \in Seq(Balance) /\ Len(wtx'.img[n]) = Len(bals)
      /\ \A k \in 1..Len(bals) : wtx'.img[n][k] =
            IF k = tx[2][2]
            THEN [value |-> bals[k].value + EntryAt(tx[1], tx[2]), change |-> 0]
            ELSE bals[k]
  BY <1>1, CreditToTypes
<1>3. PICK after, e : after = wtx'.img[n] /\ e = EntryAt(tx[1], tx[2])
  OBVIOUS
<1>4. wtx \in [owner : {"rpc", "notify"}, img : Database,
               fresh : SUBSET Addresses, bundle : 0..MaxBundles]
  BY <1>2 DEF Types, WtxType, NoTx
<1>5. wtx' = [wtx EXCEPT !.img = [wtx.img EXCEPT ![n] = after]]
  BY <1>2, <1>3, <1>4
<1>6. /\ wtx'.owner = "notify" /\ wtx'.bundle = wtx.bundle
      /\ wtx'.img = [wtx.img EXCEPT ![n] = after]
  BY <1>2, <1>4, <1>5
<1>7. Image \in Database /\ Image' = [Image EXCEPT ![n] = after]
  BY <1>2, <1>6 DEF Image
<1>8. /\ notify'.pc = "credit" /\ notify'.todo = notify.todo \ {tx}
      /\ notify'.newly = notify.newly /\ notify'.adrs = notify.adrs
      /\ notify'.found = notify.found
  BY <1>1 DEF CreditTo, NotifyType
<1> after \in Seq(Balance) /\ e \in Int
  BY <1>2, <1>3
<1> WITNESS after \in Seq(Balance), e \in Int
<1> QED
  BY <1>2, <1>3, <1>6, <1>7, <1>8

LEMMA CreditBalanced ==
    ASSUME IInv, Types, Types', Balanced, NEW tx \in TxIds,
           NotifyCreditMiss(tx) \/ NotifyCreditHit(tx)
    PROVE  Balanced' /\ AddressesOf(Image)' = AddressesOf(Image)
<1>1. /\ notify.pc \in {"credit", "hit"} /\ tx \in notify.todo
      /\ CreditTo(tx[2][1], Image[tx[2][1]], tx)
      /\ wtx.owner = "notify" /\ Image = wtx.img
      /\ UNCHANGED <<db, hashes, txDB, bundles, readers, credits>>
  <2>1. CASE NotifyCreditMiss(tx)
    BY <2>1 DEF NotifyCreditMiss, Types, OwnerIsRight, Image
  <2>2. CASE NotifyCreditHit(tx)
    <3>1. /\ notify.pc = "hit" /\ notify.cur = {tx}
          /\ CreditTo(lastAccount.name, lastAccount.bals, tx)
          /\ UNCHANGED <<db, hashes, txDB, bundles, readers, credits>>
      BY <2>2 DEF NotifyCreditHit
    <3>2. tx \in notify.todo /\ Cached(tx[2])
      BY <3>1 DEF Balanced, OpenIsRight
    <3>3. lastAccount.name = tx[2][1] /\ tx[2][1] \in Accounts
      BY <3>2, AccountOf DEF Cached, TxIds
    <3>4. lastAccount.bals = Image[tx[2][1]]
      BY <3>3 DEF Balanced, CacheIsRight, Accounts
    <3> QED
      BY <3>1, <3>2, <3>3, <3>4 DEF Types, OwnerIsRight, Image
  <2> QED
    BY <2>1, <2>2
<1>2. tx \in notify.newly /\ tx \in txDB
  BY <1>1 DEF Types, TodoIsRight, IInv, HashesStored
<1>4. PICK n \in Accounts, k \in Nat \ {0} :
         tx[2] = <<n, k>> /\ tx = <<tx[1], tx[2]>> /\ tx[1] \in DOMAIN bundles
         /\ tx[2] \in Addresses
  BY <1>2, CreditedIsEntry
<1>5. Image[n] \in Seq(Balance) /\ Len(Image[n]) \in Nat
  BY ImageType
<1>6. PICK after \in Seq(Balance), e \in Int :
         /\ e = EntryAt(tx[1], tx[2]) /\ Len(after) = Len(Image[n])
         /\ \A i \in 1..Len(Image[n]) : after[i] =
               IF i = k THEN [value |-> Image[n][i].value + e, change |-> 0] ELSE Image[n][i]
         /\ lastAccount' = [name |-> n, bals |-> after]
         /\ wtx.owner = "notify" /\ wtx'.owner = "notify" /\ wtx'.bundle = wtx.bundle
         /\ Image \in Database /\ Image' = [Image EXCEPT ![n] = after]
         /\ notify'.pc = "credit" /\ notify'.todo = notify.todo \ {tx}
         /\ notify'.newly = notify.newly /\ notify'.adrs = notify.adrs
         /\ notify'.found = notify.found
  <2>1. PICK bals \in Seq(Balance) : bals = Image[n]
    BY <1>5
  <2>2. CreditTo(n, bals, tx) /\ tx[2][2] = k
    BY <1>1, <1>4, <2>1
  <2>3. /\ tx[1] \in DOMAIN bundles /\ notify.pc \in {"credit", "hit"}
        /\ UNCHANGED <<db, bundles, readers>>
    BY <1>1, <1>4
  <2>4. PICK after \in Seq(Balance), e \in Int :
           /\ e = EntryAt(tx[1], tx[2]) /\ Len(after) = Len(bals)
           /\ \A i \in 1..Len(bals) : after[i] =
                 IF i = tx[2][2] THEN [value |-> bals[i].value + e, change |-> 0] ELSE bals[i]
           /\ lastAccount' = [name |-> n, bals |-> after]
           /\ wtx.owner = "notify" /\ wtx'.owner = "notify" /\ wtx'.bundle = wtx.bundle
           /\ Image \in Database /\ Image' = [Image EXCEPT ![n] = after]
           /\ notify'.pc = "credit" /\ notify'.todo = notify.todo \ {tx}
           /\ notify'.newly = notify.newly /\ notify'.adrs = notify.adrs
           /\ notify'.found = notify.found
    BY <2>1, <2>2, <2>3, CreditShape
  <2>5. \A i \in 1..Len(Image[n]) : after[i] =
           IF i = k THEN [value |-> Image[n][i].value + e, change |-> 0] ELSE Image[n][i]
    BY <2>1, <2>2, <2>4
  <2> after \in Seq(Balance) /\ e \in Int
    BY <2>4
  <2> WITNESS after \in Seq(Balance), e \in Int
  <2> QED
    BY <2>1, <2>4, <2>5
<1>10. /\ Image'[n] = after /\ Len(after) = Len(Image[n])
       /\ \A m \in Accounts : m # n => Image'[m] = Image[m]
       /\ \A m \in Accounts : Len(Image'[m]) = Len(Image[m])
  BY <1>6 DEF Database
<1>11. CacheIsRight'
  BY <1>6, <1>10 DEF CacheIsRight
<1>12. ImageGrows' /\ SeenKnown' /\ AddressesOf(Image)' = AddressesOf(Image)
  <2>1. AddressesOf(Image)' = AddressesOf(Image)
    BY <1>10, AccountOf DEF AddressesOf
  <2> QED
    BY <1>1, <1>6, <1>10, <2>1 DEF Balanced, ImageGrows, SeenKnown, AddressesOf
<1>13. OpenIsRight'
  BY <1>1, <1>6 DEF Balanced, OpenIsRight
<1>14. /\ Credited' = Credited /\ Debited' = Debited /\ DebitedInImage' = DebitedInImage
  BY <1>1, <1>6 DEF Credited, Debited, DebitedInImage
<1>15. SpentKnown'
  BY <1>1, <1>6, <1>12, <1>14 DEF Balanced, SpentKnown, AddressesOf, EntryAt
<1>16. DatabaseExact'
  BY <1>1, <1>14 DEF Balanced, DatabaseExact
<1>17. CreditedInImage' = CreditedInImage \cup {tx} /\ tx \notin CreditedInImage
  <2>1. credits[tx] = 0
    BY <1>1, <1>2 DEF IInv, NewlyIsRight
  <2>2. tx \notin Credited
    BY <2>1 DEF Credited
  <2> QED
    BY <1>1, <1>2, <1>6, <1>14, <2>2 DEF CreditedInImage
<1>18. ImageExact'
  <2> SUFFICES ASSUME NEW a \in Addresses, a[2] <= Len(Image'[a[1]])
               PROVE  /\ Image'[a[1]][a[2]].value
                            = Due(bundles, CreditedInImage \cup {tx}, DebitedInImage, a)
                      /\ Image'[a[1]][a[2]].change > 0 =>
                            \E b \in DOMAIN bundles :
                               /\ bundles[b].own
                               /\ bundles[b].entries[a] = Image'[a[1]][a[2]].change
                               /\ <<b, a>> \notin CreditedInImage \cup {tx}
    BY <1>1, <1>14, <1>17 DEF ImageExact, Exact
  <2>1. /\ a[1] \in Accounts /\ a[2] \in Nat \ {0} /\ a = <<a[1], a[2]>>
        /\ a[2] <= Len(Image[a[1]])
    BY <1>10, AccountOf
  <2>2. /\ Image[a[1]][a[2]].value = Due(bundles, CreditedInImage, DebitedInImage, a)
        /\ Image[a[1]][a[2]].change > 0 =>
              \E b \in DOMAIN bundles : /\ bundles[b].own
                                        /\ bundles[b].entries[a] = Image[a[1]][a[2]].change
                                        /\ <<b, a>> \notin CreditedInImage
    BY <2>1 DEF Balanced, ImageExact, Exact
  <2>3. Due(bundles, CreditedInImage \cup {tx}, DebitedInImage, a) =
           Due(bundles, CreditedInImage, DebitedInImage, a)
              + IF tx[2] = a THEN bundles[tx[1]].entries[a] ELSE 0
    <3>1. PICK c \in DOMAIN bundles, x \in Addresses :
             c = tx[1] /\ x = tx[2] /\ tx = <<c, x>>
      BY <1>4
    <3>2. bundles \in Seq(Bundle) /\ <<c, x>> \notin CreditedInImage
      BY <1>17, <3>1, BundlesAre
    <3>3. Due(bundles, CreditedInImage \cup {<<c, x>>}, DebitedInImage, a) =
             Due(bundles, CreditedInImage, DebitedInImage, a)
                + IF x = a THEN bundles[c].entries[a] ELSE 0
      BY <3>1, <3>2, DueCredited
    <3> QED
      BY <3>1, <3>3
  <2>4. Due(bundles, CreditedInImage, DebitedInImage, a) \in Int
    BY BundlesAre, DueType
  <2>5. CASE a = tx[2]
    <3>1. a[1] = n /\ a[2] = k /\ k \in 1..Len(Image[n])
      BY <1>4, <1>5, <2>1, <2>5
    <3>2. after[k] = [value |-> Image[n][k].value + e, change |-> 0]
      BY <1>6, <3>1
    <3>3. bundles[tx[1]].entries[a] = e
      BY <1>6, <2>5 DEF EntryAt
    <3>4. Image'[a[1]][a[2]].value = Image[n][k].value + e /\ Image'[a[1]][a[2]].change = 0
      BY <1>10, <3>1, <3>2
    <3> QED
      BY <2>2, <2>3, <2>5, <3>1, <3>3, <3>4
  <2>6. CASE a # tx[2]
    <3>1. Image'[a[1]][a[2]] = Image[a[1]][a[2]]
      <4>1. CASE a[1] # n
        BY <1>10, <2>1, <4>1
      <4>2. CASE a[1] = n
        <5>1. a[2] # k /\ a[2] \in 1..Len(Image[n])
          BY <1>4, <1>5, <2>1, <2>6, <4>2
        <5>2. \A i \in 1..Len(Image[n]) : i # k => after[i] = Image[n][i]
          BY <1>6
        <5>3. after[a[2]] = Image[n][a[2]]
          BY <5>1, <5>2
        <5> QED
          BY <1>10, <4>2, <5>3
      <4> QED
        BY <4>1, <4>2
    <3>2. \A b : <<b, a>> \notin CreditedInImage => <<b, a>> \notin CreditedInImage \cup {tx}
      BY <1>4, <2>6
    <3>3. Due(bundles, CreditedInImage \cup {tx}, DebitedInImage, a) =
             Due(bundles, CreditedInImage, DebitedInImage, a)
      BY <2>3, <2>4, <2>6
    <3>4. Image'[a[1]][a[2]].value = Image[a[1]][a[2]].value
          /\ Image'[a[1]][a[2]].change = Image[a[1]][a[2]].change
      BY <3>1
    <3>5. Image[a[1]][a[2]].change > 0 =>
              \E b \in DOMAIN bundles :
                 /\ bundles[b].own
                 /\ bundles[b].entries[a] = Image[a[1]][a[2]].change
                 /\ <<b, a>> \notin CreditedInImage \cup {tx}
      BY <2>2, <3>2
    <3> QED
      BY <2>2, <3>3, <3>4, <3>5
  <2> QED
    BY <2>5, <2>6
<1> QED
  BY <1>11, <1>12, <1>13, <1>15, <1>16, <1>18 DEF Balanced

-----------------------------------------------------------------------------
(* Transactions begin and end.                                               *)

(* Without an open transaction, the image is the database.                   *)
LEMMA NoneOpen ==
    ASSUME Types, wtx.owner = "none"
    PROVE  /\ wtx = NoTx /\ wtx.bundle = 0
           /\ Image = db /\ CreditedInImage = Credited /\ DebitedInImage = Debited
<1>1. wtx = NoTx /\ wtx.bundle = 0
  BY DEF Types, WtxType, NoTx
<1>2. 0 \notin DOMAIN bundles
  BY BundlesAre
<1> QED
  BY <1>1, <1>2 DEF Image, CreditedInImage, DebitedInImage

LEMMA NoneLeftOpen ==
    ASSUME Types', wtx' = NoTx
    PROVE  /\ wtx'.owner = "none" /\ wtx'.bundle = 0
           /\ Image' = db' /\ CreditedInImage' = Credited' /\ DebitedInImage' = Debited'
<1>1. wtx'.owner = "none" /\ wtx'.bundle = 0
  BY DEF NoTx
<1>2. DOMAIN bundles' = 1..Len(bundles') /\ Len(bundles') \in Nat
  BY LenProperties DEF Types, BundlesType
<1> QED
  BY <1>1, <1>2 DEF Image, CreditedInImage, DebitedInImage

LEMMA BeginBalanced ==
    ASSUME IInv, Types, Types', Balanced, NotifyBegin
    PROVE  Balanced'
<1>1. /\ notify.pc = "begin" /\ wtx.owner = "none"
      /\ UNCHANGED <<db, hashes, txDB, lastAccount, bundles, readers, credits>>
      /\ \/ notify' = Idle /\ UNCHANGED wtx
         \/ /\ notify' = [notify EXCEPT !.pc = "credit", !.todo = ToCredit]
            /\ wtx' = [NoTx EXCEPT !.owner = "notify", !.img = db]
  BY DEF NotifyBegin, MayWrite
<1>2. CASE notify' = Idle /\ UNCHANGED wtx
  <2>1. notify'.pc = "idle" /\ notify'.adrs = {} /\ notify'.found = {}
    BY <1>2 DEF Idle
  <2>2. SeenKnown'
    BY <1>1, <2>1 DEF Balanced, SeenKnown, AddressesOf
  <2> QED
    BY <1>1, <1>2, <2>1, <2>2, QuietBalanced
<1>3. CASE /\ notify' = [notify EXCEPT !.pc = "credit", !.todo = ToCredit]
           /\ wtx' = [NoTx EXCEPT !.owner = "notify", !.img = db]
  <2>1. NotifyType
    BY DEF IInv, ControlTypeOK
  <2>2. /\ notify'.pc = "credit" /\ notify'.todo = notify'.newly
        /\ notify'.adrs = notify.adrs /\ notify'.found = notify.found
    BY <1>3, <2>1 DEF NotifyType, ToCredit
  <2>3. wtx'.owner = "notify" /\ wtx'.img = db /\ wtx'.bundle = 0
    BY <1>3 DEF NoTx
  <2>4. /\ wtx.bundle = 0 /\ Image = db
        /\ CreditedInImage = Credited /\ DebitedInImage = Debited
    BY <1>1, NoneOpen
  <2>5. /\ Image' = Image /\ Credited' = Credited /\ CreditedInImage' = CreditedInImage
        /\ Debited' = Debited /\ DebitedInImage' = DebitedInImage
    BY <1>1, <2>2, <2>3, <2>4
       DEF Image, Credited, CreditedInImage, Debited, DebitedInImage
  <2>6. OpenIsRight' /\ CacheIsRight' /\ ImageGrows'
    BY <1>1, <2>2, <2>3, <2>4, <2>5 DEF Balanced, OpenIsRight, CacheIsRight, ImageGrows
  <2>7. SeenKnown'
    BY <1>1, <2>2 DEF Balanced, SeenKnown, AddressesOf
  <2>8. SpentKnown'
    BY <1>1, <2>3, <2>4, <2>5 DEF Balanced, SpentKnown, AddressesOf, EntryAt
  <2>9. DatabaseExact' /\ ImageExact'
    BY <1>1, <2>5 DEF Balanced, DatabaseExact, ImageExact
  <2> QED
    BY <2>6, <2>7, <2>8, <2>9 DEF Balanced
<1> QED
  BY <1>1, <1>2, <1>3

(* The image becomes the database.                                           *)
LEMMA CommitBalanced ==
    ASSUME IInv, Types, Types', Balanced, Kept, DOMAIN bundles' = DOMAIN bundles,
           db' = Image, wtx' = NoTx, UNCHANGED <<txDB, lastAccount>>,
           Credited' = CreditedInImage, Debited' = DebitedInImage,
           notify'.adrs \subseteq notify.adrs, notify'.found \subseteq notify.found,
           notify'.pc # "hit"
    PROVE  Balanced'
<1>1. /\ wtx'.owner = "none" /\ wtx'.bundle = 0
      /\ Image' = db' /\ CreditedInImage' = Credited' /\ DebitedInImage' = Debited'
  BY NoneLeftOpen
<1>2. \A n \in Accounts : /\ Len(db[n]) \in Nat /\ Len(Image[n]) \in Nat
                          /\ Len(db[n]) <= Len(Image[n])
  BY ImageType DEF Balanced, ImageGrows
<1>3. AddressesOf(db) \subseteq AddressesOf(Image) /\ AddressesOf(db)' = AddressesOf(Image)
      /\ AddressesOf(Image)' = AddressesOf(Image)
  BY <1>1, <1>2, AccountOf DEF AddressesOf
<1>4. OpenIsRight'
  <2>1. Len(bundles') \in Nat
    BY LenProperties DEF Types, BundlesType
  <2> QED
    BY <1>1, <2>1 DEF OpenIsRight
<1>5. CacheIsRight' /\ ImageGrows'
  BY <1>1, <1>2 DEF Balanced, CacheIsRight, ImageGrows
<1>6. SeenKnown'
  BY <1>3 DEF Balanced, SeenKnown
<1>7. SpentKnown'
  <2> SUFFICES ASSUME NEW b \in DOMAIN bundles, NEW a \in Addresses,
                      EntryAt(b, a)' < 0, b \in Debited' \/ b = wtx'.bundle
               PROVE  a \in AddressesOf(Image)
    BY <1>3 DEF SpentKnown
  <2>1. EntryAt(b, a) < 0
    BY DEF Kept, EntryAt
  <2>2. b # wtx'.bundle
    BY <1>1, BundlesAre
  <2>3. b \in Debited \/ b = wtx.bundle
    BY <2>2 DEF DebitedInImage
  <2> QED
    BY <1>3, <2>1, <2>3 DEF Balanced, SpentKnown
<1>8. Exact(Image, bundles', CreditedInImage, DebitedInImage)
  <2>1. \A tx \in CreditedInImage : tx[1] \in DOMAIN bundles
    BY CreditedIsKnown
  <2>2. DebitedInImage \in SUBSET DOMAIN bundles
    BY DEF Debited, DebitedInImage
  <2> QED
    BY <2>1, <2>2, ExactKept DEF Balanced, ImageExact
<1>9. DatabaseExact' /\ ImageExact'
  BY <1>1, <1>8 DEF DatabaseExact, ImageExact
<1> QED
  BY <1>4, <1>5, <1>6, <1>7, <1>9 DEF Balanced

LEMMA NotifyCommitBalanced ==
    ASSUME IInv, Types, Types', Balanced, NotifyCommit
    PROVE  Balanced'
<1>1. /\ notify.pc = "credit" /\ notify.todo = {} /\ db' = wtx.img
      /\ credits' = [tx \in TxIds |-> credits[tx] + IF tx \in ToCredit THEN 1 ELSE 0]
      /\ wtx' = NoTx /\ notify' = Idle
      /\ UNCHANGED <<hashes, txDB, lastAccount, bundles, readers>>
  BY DEF NotifyCommit
<1>2. wtx.owner = "notify" /\ db' = Image /\ wtx.bundle = 0
  BY <1>1 DEF Types, OwnerIsRight, Image, Balanced, OpenIsRight
<1>3. Credited' = CreditedInImage
  <2>1. notify.newly \subseteq TxIds /\ credits \in [TxIds -> Nat]
    BY DEF IInv, ControlTypeOK, NotifyType
  <2>2. \A tx \in TxIds : credits'[tx] > 0 <=> credits[tx] > 0 \/ tx \in notify.newly
    BY <1>1, <2>1 DEF ToCredit
  <2> QED
    BY <1>1, <1>2, <2>1, <2>2 DEF Credited, CreditedInImage
<1>4. Debited' = Debited /\ DebitedInImage = Debited
  BY <1>1, <1>2, BundlesAre DEF Debited, DebitedInImage
<1>5. Kept
  BY <1>1 DEF Kept
<1>6. notify'.adrs = {} /\ notify'.found = {} /\ notify'.pc = "idle"
  BY <1>1 DEF Idle
<1> QED
  BY <1>1, <1>2, <1>3, <1>4, <1>5, <1>6, CommitBalanced

LEMMA RpcCommitKeeps ==
    ASSUME Types, RpcCommit
    PROVE  /\ wtx.owner = "rpc" /\ db' = Image /\ wtx' = NoTx
           /\ UNCHANGED <<hashes, txDB, lastAccount, notify, readers, credits>>
           /\ Kept /\ DOMAIN bundles' = DOMAIN bundles /\ Debited' = DebitedInImage
           /\ \A b \in DOMAIN bundles : bundles'[b].entries = bundles[b].entries
<1>1. /\ wtx.owner = "rpc" /\ db' = wtx.img /\ wtx' = NoTx
      /\ bundles' = [b \in DOMAIN bundles |->
                        [bundles[b] EXCEPT !.debited = IF b = wtx.bundle THEN TRUE ELSE @]]
      /\ UNCHANGED <<hashes, txDB, lastAccount, notify, readers, credits>>
  BY DEF RpcCommit
<1>2. db' = Image
  BY <1>1 DEF Image
<1>3. /\ DOMAIN bundles' = DOMAIN bundles
      /\ \A b \in DOMAIN bundles : /\ bundles'[b].entries = bundles[b].entries
                                   /\ bundles'[b].own = bundles[b].own
                                   /\ bundles'[b].stage = bundles[b].stage
                                   /\ bundles'[b].debited <=>
                                         bundles[b].debited \/ b = wtx.bundle
  <2>1. \A b \in DOMAIN bundles :
           bundles[b] \in [entries : [Addresses -> Int], own : BOOLEAN, stage : Stages,
                           debited : BOOLEAN]
    BY BundlesAre DEF Bundle
  <2> QED
    BY <1>1, <2>1
<1>4. Debited' = DebitedInImage
  BY <1>3 DEF Debited, DebitedInImage
<1>5. Kept
  BY <1>3 DEF Kept
<1> QED
  BY <1>1, <1>2, <1>3, <1>4, <1>5

LEMMA RpcCommitBalanced ==
    ASSUME IInv, Types, Types', Balanced, RpcCommit
    PROVE  Balanced'
<1>1. /\ wtx.owner = "rpc" /\ db' = Image /\ wtx' = NoTx
      /\ UNCHANGED <<hashes, txDB, lastAccount, notify, readers, credits>>
      /\ Kept /\ DOMAIN bundles' = DOMAIN bundles /\ Debited' = DebitedInImage
  BY RpcCommitKeeps
<1>2. Credited' = CreditedInImage
  BY <1>1 DEF Credited, CreditedInImage
<1>3. notify'.pc # "hit"
  BY <1>1 DEF Types, OwnerIsRight
<1> QED
  BY <1>1, <1>2, <1>3, CommitBalanced

-----------------------------------------------------------------------------
(* The process starts again, with the database as committed or refreshed.    *)
LEMMA StartBalanced ==
    ASSUME IInv, Types, Types', Balanced, Kept, DOMAIN bundles' = DOMAIN bundles,
           \A n \in Accounts : Len(db'[n]) = Len(db[n]),
           wtx' = NoTx, lastAccount' = NoCache, notify' = Idle, UNCHANGED txDB,
           Debited' \subseteq Debited, DatabaseExact'
    PROVE  Balanced'
<1>1. /\ wtx'.owner = "none" /\ wtx'.bundle = 0
      /\ Image' = db' /\ CreditedInImage' = Credited' /\ DebitedInImage' = Debited'
  BY NoneLeftOpen
<1>2. /\ notify'.adrs = {} /\ notify'.found = {} /\ notify'.pc = "idle"
      /\ lastAccount'.name = 0
  BY DEF Idle, NoCache
<1>3. AddressesOf(db)' = AddressesOf(db)
  BY AccountOf DEF AddressesOf
<1>4. OpenIsRight'
  <2>1. Len(bundles') \in Nat
    BY LenProperties DEF Types, BundlesType
  <2> QED
    BY <1>1, <1>2, <2>1 DEF OpenIsRight
<1>5. CacheIsRight'
  BY <1>2 DEF CacheIsRight
<1>6. ImageGrows'
  <2>1. \A n \in Accounts : Len(db[n]) \in Nat
    BY ImageType
  <2> QED
    BY <1>1, <2>1 DEF ImageGrows
<1>7. SeenKnown'
  BY <1>2, <1>3 DEF Balanced, SeenKnown
<1>8. SpentKnown'
  <2> SUFFICES ASSUME NEW b \in DOMAIN bundles, NEW a \in Addresses,
                      EntryAt(b, a)' < 0, b \in Debited' \/ b = wtx'.bundle
               PROVE  a \in AddressesOf(db)
    BY <1>1, <1>3 DEF SpentKnown, AddressesOf
  <2>1. EntryAt(b, a) < 0
    BY DEF Kept, EntryAt
  <2>2. b # wtx'.bundle
    BY <1>1, BundlesAre
  <2> QED
    BY <2>1, <2>2 DEF Balanced, SpentKnown
<1>9. ImageExact'
  BY <1>1 DEF DatabaseExact, ImageExact
<1> QED
  BY <1>4, <1>5, <1>6, <1>7, <1>8, <1>9 DEF Balanced

LEMMA RestartKeeps ==
    ASSUME Types, Restart
    PROVE  /\ lastAccount' = NoCache /\ wtx' = NoTx /\ notify' = Idle
           /\ UNCHANGED <<db, hashes, txDB, credits>>
           /\ Kept /\ DOMAIN bundles' = DOMAIN bundles /\ Debited' = Debited
           /\ \A b \in DOMAIN bundles : bundles'[b].entries = bundles[b].entries
<1>1. /\ lastAccount' = NoCache /\ wtx' = NoTx /\ notify' = Idle
      /\ UNCHANGED <<db, hashes, txDB, credits>>
      /\ bundles' = [b \in DOMAIN bundles |->
                        [bundles[b] EXCEPT !.stage = IF @ = "pow" THEN "lost" ELSE @]]
  BY DEF Restart
<1>2. /\ DOMAIN bundles' = DOMAIN bundles
      /\ \A b \in DOMAIN bundles :
            /\ bundles'[b].entries = bundles[b].entries
            /\ bundles'[b].own = bundles[b].own
            /\ bundles'[b].debited = bundles[b].debited
            /\ bundles[b].stage = "confirmed" => bundles'[b].stage = "confirmed"
  <2>1. \A b \in DOMAIN bundles :
           bundles[b] \in [entries : [Addresses -> Int], own : BOOLEAN, stage : Stages,
                           debited : BOOLEAN]
    BY BundlesAre DEF Bundle
  <2> QED
    BY <1>1, <2>1
<1>3. Kept
  BY <1>2 DEF Kept
<1>4. Debited' = Debited
  BY <1>2 DEF Debited
<1> QED
  BY <1>1, <1>2, <1>3, <1>4

LEMMA RestartBalanced ==
    ASSUME IInv, Types, Types', Balanced, Restart
    PROVE  Balanced'
<1>1. /\ lastAccount' = NoCache /\ wtx' = NoTx /\ notify' = Idle
      /\ UNCHANGED <<db, hashes, txDB, credits>>
      /\ Kept /\ DOMAIN bundles' = DOMAIN bundles /\ Debited' = Debited
  BY RestartKeeps
<1>2. Credited' = Credited
  BY <1>1 DEF Credited
<1>3. DatabaseExact'
  <2>1. \A tx \in Credited : tx[1] \in DOMAIN bundles
    BY CreditedIsKnown
  <2>2. Debited \in SUBSET DOMAIN bundles
    BY DEF Debited
  <2>3. Exact(db, bundles', Credited, Debited)
    BY <1>1, <2>1, <2>2, ExactKept DEF Balanced, DatabaseExact
  <2> QED
    BY <1>1, <1>2, <2>3 DEF DatabaseExact
<1> QED
  BY <1>1, <1>3, StartBalanced

LEMMA RefreshKeeps ==
    ASSUME Types, Types', Refresh
    PROVE  /\ lastAccount' = NoCache /\ notify' = Idle /\ wtx.owner = "none"
           /\ wtx' = NoTx /\ wtx' = wtx /\ UNCHANGED txDB
           /\ hashes'.confirmed = {} /\ Credited' = {} /\ Debited' = {}
           /\ Kept /\ DOMAIN bundles' = DOMAIN bundles
           /\ \A b \in DOMAIN bundles : bundles'[b].entries = bundles[b].entries
           /\ \A n \in Accounts :
                 /\ Len(db'[n]) = Len(db[n])
                 /\ \A k \in 1..Len(db[n]) : /\ db'[n][k].value = 0
                                             /\ db'[n][k].change = db[n][k].change
<1>1. /\ lastAccount' = NoCache /\ wtx' = wtx /\ notify' = Idle /\ UNCHANGED txDB
      /\ hashes'.confirmed = {}
      /\ db' = [n \in Accounts |-> ResetBalances(db[n])]
      /\ credits' = [tx \in TxIds |-> 0]
      /\ bundles' = [b \in DOMAIN bundles |->
                        [bundles[b] EXCEPT !.stage = IF @ = "pow" THEN "lost" ELSE @,
                                           !.debited = FALSE]]
      /\ wtx.owner = "none"
  BY DEF Refresh
<1>2. /\ DOMAIN bundles' = DOMAIN bundles
      /\ \A b \in DOMAIN bundles :
            /\ bundles'[b].entries = bundles[b].entries
            /\ bundles'[b].own = bundles[b].own
            /\ bundles'[b].debited = FALSE
            /\ bundles[b].stage = "confirmed" => bundles'[b].stage = "confirmed"
  <2>1. \A b \in DOMAIN bundles :
           bundles[b] \in [entries : [Addresses -> Int], own : BOOLEAN, stage : Stages,
                           debited : BOOLEAN]
    BY BundlesAre DEF Bundle
  <2> QED
    BY <1>1, <2>1
<1>3. Kept /\ Debited' = {} /\ Credited' = {} /\ wtx' = NoTx
  <2>1. wtx' = NoTx
    BY <1>1, NoneOpen
  <2>2. Credited' = {}
    <3>1. \A tx \in TxIds : credits'[tx] = 0
      BY <1>1
    <3> QED
      BY <3>1 DEF Credited
  <2>3. Kept
    BY <1>2 DEF Kept
  <2>4. Debited' = {}
    BY <1>2 DEF Debited
  <2> QED
    BY <2>1, <2>2, <2>3, <2>4
<1>4. ASSUME NEW n \in Accounts
      PROVE  /\ Len(db'[n]) = Len(db[n])
             /\ \A k \in 1..Len(db[n]) : /\ db'[n][k].value = 0
                                         /\ db'[n][k].change = db[n][k].change
  <2>1. db[n] \in Seq(Balance) /\ db'[n] \in Seq(Balance)
    BY DEF Types, Database
  <2>2. DOMAIN db[n] = 1..Len(db[n]) /\ Len(db[n]) \in Nat
        /\ DOMAIN db'[n] = 1..Len(db'[n]) /\ Len(db'[n]) \in Nat
    BY <2>1, LenProperties
  <2>3. db'[n] = [k \in 1..Len(db[n]) |-> [db[n][k] EXCEPT !.value = 0]]
    BY <1>1, <2>2 DEF ResetBalances
  <2>4. Len(db'[n]) = Len(db[n])
    BY <2>2, <2>3
  <2>5. ASSUME NEW k \in 1..Len(db[n])
        PROVE  db'[n][k].value = 0 /\ db'[n][k].change = db[n][k].change
    <3>1. db[n][k] = [value |-> db[n][k].value, change |-> db[n][k].change]
      BY <2>1, ValuesAreInts
    <3>2. db'[n][k] = [db[n][k] EXCEPT !.value = 0]
      BY <2>3
    <3> QED
      BY <3>1, <3>2
  <2> QED
    BY <2>4, <2>5
<1> QED
  BY <1>1, <1>2, <1>3, <1>4

LEMMA RefreshBalanced ==
    ASSUME IInv, Types, Types', Balanced, Refresh
    PROVE  Balanced'
<1>1. /\ lastAccount' = NoCache /\ wtx' = NoTx /\ notify' = Idle /\ UNCHANGED txDB
      /\ Kept /\ DOMAIN bundles' = DOMAIN bundles /\ Debited' = {} /\ Credited' = {}
  BY RefreshKeeps
<1>4. \A n \in Accounts :
         /\ Len(db'[n]) = Len(db[n])
         /\ \A k \in 1..Len(db[n]) : /\ db'[n][k].value = 0
                                     /\ db'[n][k].change = db[n][k].change
  BY RefreshKeeps
<1>5. DatabaseExact'
  <2> SUFFICES ASSUME NEW a \in Addresses, a[2] <= Len(db'[a[1]])
               PROVE  /\ db'[a[1]][a[2]].value = Due(bundles', {}, {}, a)
                      /\ db'[a[1]][a[2]].change > 0 =>
                            \E b \in DOMAIN bundles' :
                               /\ bundles'[b].own
                               /\ bundles'[b].entries[a] = db'[a[1]][a[2]].change
                               /\ <<b, a>> \notin {}
    BY <1>1 DEF DatabaseExact, Exact
  <2>1. a[1] \in Accounts /\ a[2] \in 1..Len(db[a[1]]) /\ a[2] <= Len(db[a[1]])
    BY <1>4, AccountOf, ImageType
  <2>2. db'[a[1]][a[2]].value = 0 /\ db'[a[1]][a[2]].change = db[a[1]][a[2]].change
    BY <1>4, <2>1
  <2>3. Due(bundles', {}, {}, a) = 0
    <3>1. \A b \in DOMAIN bundles' : Share(bundles', {}, {}, a, b) = 0
      BY DEF Share
    <3>2. bundles' \in Seq(Bundle)
      BY DEF Types, BundlesType
    <3> QED
      BY <3>1, <3>2, DueNothing
  <2>4. db[a[1]][a[2]].change > 0 =>
           \E b \in DOMAIN bundles : /\ bundles[b].own
                                     /\ bundles[b].entries[a] = db[a[1]][a[2]].change
    BY <2>1 DEF Balanced, DatabaseExact, Exact
  <2> QED
    BY <1>1, <2>2, <2>3, <2>4 DEF Kept
<1> QED
  BY <1>1, <1>4, <1>5, StartBalanced

-----------------------------------------------------------------------------
(* The handlers that write.                                                  *)

(* What a new account in the handler's image leaves right.                   *)
LEMMA PutBalanced ==
    ASSUME IInv, Types, Types', Balanced, Kept, wtx.owner = "none",
           NEW n \in Accounts, NEW bals \in Seq(Balance), Len(db[n]) <= Len(bals),
           NEW fresh, NEW b \in Nat, RpcPut(n, bals, fresh, b),
           b \in 0..Len(bundles'), Debited' = Debited
    PROVE  /\ Image' = [db EXCEPT ![n] = bals] /\ wtx'.bundle = b
           /\ Credited' = Credited /\ CreditedInImage' = Credited
           /\ OpenIsRight' /\ CacheIsRight' /\ ImageGrows' /\ SeenKnown' /\ DatabaseExact'
<1>1. /\ wtx' = [owner |-> "rpc", img |-> [db EXCEPT ![n] = bals],
                 fresh |-> fresh, bundle |-> b]
      /\ lastAccount' = CacheAfterPut(n, bals)
      /\ UNCHANGED <<db, hashes, txDB, notify, readers, credits>>
  BY DEF RpcPut
<1>2. wtx'.owner = "rpc" /\ wtx'.img = [db EXCEPT ![n] = bals] /\ wtx'.bundle = b
  BY <1>1
<1>3. Image' = [db EXCEPT ![n] = bals]
  BY <1>2 DEF Image
<1>4. Credited' = Credited /\ CreditedInImage' = Credited
  BY <1>1, <1>2 DEF Credited, CreditedInImage
<1>5. notify.pc # "hit"
  BY DEF Types, OwnerIsRight
<1>6. OpenIsRight'
  BY <1>1, <1>2, <1>5 DEF OpenIsRight
<1>7. /\ Image'[n] = bals
      /\ \A m \in Accounts : m # n => Image'[m] = db[m]
      /\ Image = db
  BY <1>3, NoneOpen DEF Types, Database
<1>8. CacheIsRight'
  <2>1. CASE lastAccount.name = n
    BY <1>1, <1>7, <2>1 DEF CacheAfterPut, CacheIsRight
  <2>2. CASE lastAccount.name # n
    <3>1. lastAccount' = lastAccount
      BY <1>1, <2>2 DEF CacheAfterPut
    <3>2. lastAccount.name # 0 => lastAccount.name \in Accounts
      BY DEF Types, CacheType, NoCache
    <3> QED
      BY <1>7, <2>2, <3>1, <3>2 DEF Balanced, CacheIsRight
  <2> QED
    BY <2>1, <2>2
<1>9. ImageGrows'
  <2>1. \A m \in Accounts : Len(db[m]) \in Nat
    BY ImageType
  <2> QED
    BY <1>1, <1>7, <2>1 DEF ImageGrows
<1>10. SeenKnown'
  BY <1>1 DEF Balanced, SeenKnown, AddressesOf
<1>11. DatabaseExact'
  <2>1. \A tx \in Credited : tx[1] \in DOMAIN bundles
    BY CreditedIsKnown
  <2>2. Debited \in SUBSET DOMAIN bundles
    BY DEF Debited
  <2>3. Exact(db, bundles', Credited, Debited)
    BY <2>1, <2>2, ExactKept DEF Balanced, DatabaseExact
  <2> QED
    BY <1>1, <1>4, <2>3 DEF DatabaseExact
<1> QED
  BY <1>2, <1>3, <1>4, <1>6, <1>8, <1>9, <1>10, <1>11

LEMMA CacheIsDatabase ==
    ASSUME Types, Balanced, wtx.owner = "none", NEW n \in Accounts
    PROVE  GetAccount(db, n) = db[n]
<1>1. Image = db /\ n # 0
  BY NoneOpen DEF Accounts
<1> QED
  BY <1>1 DEF GetAccount, Balanced, CacheIsRight

LEMMA GetNewAddressBalanced ==
    ASSUME IInv, Types, Types', Balanced, NEW n \in Accounts, GetNewAddress(n)
    PROVE  Balanced'
<1>1. wtx.owner = "none" /\ GetAccount(db, n) = db[n]
  BY CacheIsDatabase DEF GetNewAddress, MayWrite
<1>2. PICK after, fresh : /\ after = Append(db[n], EmptyBalance(0))
                          /\ RpcPut(n, after, fresh, 0) /\ UNCHANGED bundles
  BY <1>1 DEF GetNewAddress
<1>3. db[n] \in Seq(Balance) /\ Len(db[n]) \in Nat
  BY ImageType
<1>4. EmptyBalance(0) \in Balance /\ EmptyBalance(0) = [value |-> 0, change |-> 0]
  BY DEF EmptyBalance, Balance
<1>5. /\ after \in Seq(Balance) /\ Len(after) = Len(db[n]) + 1
      /\ after[Len(db[n]) + 1] = [value |-> 0, change |-> 0]
      /\ \A k \in 1..Len(db[n]) : after[k] = db[n][k]
  BY <1>2, <1>3, <1>4, AppendProperties
<1>6. Kept /\ Debited' = Debited
  BY <1>2 DEF Kept, Debited
<1>7. Len(bundles') \in Nat
  BY LenProperties DEF Types, BundlesType
<1>8. /\ Image' = [db EXCEPT ![n] = after] /\ wtx'.bundle = 0
      /\ Credited' = Credited /\ CreditedInImage' = Credited
      /\ OpenIsRight' /\ CacheIsRight' /\ ImageGrows' /\ SeenKnown' /\ DatabaseExact'
  <2>1. Len(db[n]) <= Len(after) /\ 0 \in 0..Len(bundles') /\ RpcPut(n, after, fresh, 0)
    BY <1>2, <1>3, <1>5, <1>7
  <2> QED
    BY <1>1, <1>5, <1>6, <2>1, PutBalanced
<1>9. /\ Image'[n] = after /\ \A m \in Accounts : m # n => Image'[m] = db[m]
  BY <1>8 DEF Types, Database
<1>10. DebitedInImage = Debited /\ DebitedInImage' = Debited
  BY <1>1, <1>2, <1>6, <1>8, NoneOpen, BundlesAre DEF DebitedInImage
<1>11. SpentKnown'
  <2>1. db' = db
    BY <1>2 DEF RpcPut
  <2>2. \A b \in DOMAIN bundles : b # 0
    BY BundlesAre
  <2> QED
    BY <1>2, <1>6, <1>8, <2>1, <2>2 DEF Balanced, SpentKnown, AddressesOf, EntryAt
<1>12. ImageExact'
  <2> SUFFICES ASSUME NEW a \in Addresses, a[2] <= Len(Image'[a[1]])
               PROVE  /\ Image'[a[1]][a[2]].value = Due(bundles, Credited, Debited, a)
                      /\ Image'[a[1]][a[2]].change > 0 =>
                            \E b \in DOMAIN bundles :
                               /\ bundles[b].own
                               /\ bundles[b].entries[a] = Image'[a[1]][a[2]].change
                               /\ <<b, a>> \notin Credited
    BY <1>2, <1>8, <1>10 DEF ImageExact, Exact
  <2>1. a[1] \in Accounts /\ a[2] \in Nat \ {0}
    BY AccountOf
  <2>2. CASE a[2] <= Len(db[a[1]])
    <3>1. Image'[a[1]][a[2]] = db[a[1]][a[2]]
      BY <1>3, <1>5, <1>9, <2>1, <2>2
    <3> QED
      BY <2>2, <3>1 DEF Balanced, DatabaseExact, Exact
  <2>3. CASE ~(a[2] <= Len(db[a[1]]))
    <3>1. a[1] = n
      BY <1>9, <2>1, <2>3
    <3>2. a[2] = Len(db[n]) + 1
      BY <1>3, <1>5, <1>9, <2>1, <2>3, <3>1
    <3>3. Image'[a[1]][a[2]] = [value |-> 0, change |-> 0]
      BY <1>5, <1>9, <3>1, <3>2
    <3>4. Due(bundles, Credited, Debited, a) = 0
      BY <2>3, NothingDue DEF Balanced, AddressesOf
    <3> QED
      BY <3>3, <3>4
  <2> QED
    BY <2>2, <2>3
<1> QED
  BY <1>8, <1>11, <1>12 DEF Balanced

(* A payment from the account n, seen from one address: what it had is taken *)
(* whole or not at all, and a remainder is noted at the next address.        *)
Moved(n, bals, after, a, e) ==
    /\ e \in Int
    /\ a[1] # n => e = 0
    /\ a[1] = n /\ a[2] <= Len(bals) =>
          /\ e <= 0 /\ (e = 0 \/ e = -bals[a[2]].value)
          /\ after[a[2]].value = bals[a[2]].value + e
          /\ after[a[2]].change = bals[a[2]].change
    /\ a[1] = n /\ a[2] > Len(bals) =>
          e >= 0 /\ (e > 0 => a[2] = Len(bals) + 1 /\ a[2] <= Len(after))
    /\ a[1] = n /\ a[2] > Len(bals) /\ a[2] <= Len(after) =>
          /\ a[2] = Len(bals) + 1 /\ e > 0
          /\ after[a[2]] = [value |-> 0, change |-> e]

LEMMA PaymentAt ==
    ASSUME NEW n \in Accounts, NEW bals \in Seq(Balance), NEW v \in Int, Len(bals) > 0,
           v <= TotalValue(ValuesOf(bals)), NEW a \in Addresses,
           NEW e, e = PaymentEntries(n, bals, v)[a],
           NEW after, after = AfterPayment(bals, v)
    PROVE  Moved(n, bals, after, a, e)
<1> DEFINE vals == ValuesOf(bals)
<1>1. PICK ins, rest : ins = Inputs(vals, v) /\ rest = Remainder(vals, v)
  OBVIOUS
<1>2. /\ rest \in Nat /\ ins \subseteq 1..Len(bals)
      /\ \A k \in ins : bals[k].value > 0
      /\ after \in Seq(Balance)
      /\ Len(after) = Len(bals) + IF rest = 0 THEN 0 ELSE 1
      /\ \A k \in 1..Len(bals) :
            /\ after[k].value = IF k \in ins THEN 0 ELSE bals[k].value
            /\ after[k].change = bals[k].change
      /\ rest # 0 => after[Len(bals) + 1] = EmptyBalance(rest)
  BY <1>1, PaymentIsRight
<1>3. /\ Len(bals) \in Nat
      /\ \A k \in 1..Len(bals) : bals[k].value \in Int /\ vals[k] = bals[k].value
  BY ValuesAreInts
<1>4. e = IF a[1] # n THEN 0
          ELSE IF a[2] = Len(bals) + 1 THEN rest
          ELSE IF a[2] \in ins THEN -vals[a[2]] ELSE 0
  BY <1>1 DEF PaymentEntries, NextIndex
<1>5. a[2] \in Nat \ {0}
  BY AccountOf
<1> HIDE DEF vals
<1>6. CASE a[1] # n
  BY <1>2, <1>4, <1>6 DEF Moved
<1>7. CASE a[1] = n /\ a[2] <= Len(bals)
  <2>1. PICK k \in 1..Len(bals) : k = a[2]
    BY <1>3, <1>5, <1>7
  <2>2. /\ after[k].value = IF k \in ins THEN 0 ELSE bals[k].value
        /\ after[k].change = bals[k].change
        /\ k \in ins => bals[k].value > 0
        /\ bals[k].value \in Int
        /\ e = IF k \in ins THEN -bals[k].value ELSE 0
    BY <1>2, <1>3, <1>4, <1>7, <2>1
  <2>3. /\ e \in Int /\ e <= 0 /\ (e = 0 \/ e = -bals[k].value)
        /\ after[k].value = bals[k].value + e
        /\ after[k].change = bals[k].change
    BY <2>2
  <2> QED
    BY <1>3, <1>7, <2>1, <2>3 DEF Moved
<1>8. CASE a[1] = n /\ a[2] > Len(bals)
  <2>1. a[2] \notin ins
    <3>1. a[2] \notin 1..Len(bals)
      BY <1>3, <1>5, <1>8
    <3> QED
      BY <1>2, <3>1
  <2>2. e = IF a[2] = Len(bals) + 1 THEN rest ELSE 0
    BY <1>4, <1>8, <2>1
  <2>3. rest # 0 => after[Len(bals) + 1] = [value |-> 0, change |-> rest]
    BY <1>2 DEF EmptyBalance
  <2> QED
    BY <1>2, <1>3, <1>5, <1>8, <2>2, <2>3 DEF Moved
<1> QED
  BY <1>3, <1>5, <1>6, <1>7, <1>8

LEMMA DuePaid ==
    ASSUME NEW bs \in Seq(Bundle), NEW C, NEW D, NEW a \in Addresses,
           NEW c \in DOMAIN bs, c \notin D, <<c, a>> \notin C,
           NEW E, \A b : b \in E <=> b \in D \/ b = c
    PROVE  Due(bs, C, E, a) =
              Due(bs, C, D, a) + IF bs[c].entries[a] < 0 THEN bs[c].entries[a] ELSE 0
<1>1. /\ Due(bs, C, D, a) \in Int
      /\ \A b \in DOMAIN bs : Share(bs, C, D, a, b) \in Int /\ bs[b].entries[a] \in Int
  BY DueType, ShareType
<1>2. \A b \in DOMAIN bs : b # c => Share(bs, C, E, a, b) = Share(bs, C, D, a, b)
  BY DEF Share
<1>3. Share(bs, C, D, a, c) = 0
  BY DEF Share
<1>4. Share(bs, C, E, a, c) = IF bs[c].entries[a] < 0 THEN bs[c].entries[a] ELSE 0
  <2>1. c \in E /\ bs[c].entries[a] \in Int
    BY <1>1
  <2>2. Share(bs, C, E, a, c) = 0 + IF bs[c].entries[a] < 0 THEN bs[c].entries[a] ELSE 0
    BY <2>1 DEF Share
  <2> QED
    BY <2>1, <2>2
<1>5. Due(bs, C, E, a) = Due(bs, C, D, a) + Share(bs, C, E, a, c) - Share(bs, C, D, a, c)
  BY <1>2, DueChanged
<1> QED
  BY <1>1, <1>3, <1>4, <1>5

(* A new bundle that pays takes its inputs, and nothing of it is credited.   *)
LEMMA DuePays ==
    ASSUME Types, Types', Kept, NEW a \in Addresses,
           NEW C, \A tx \in C : tx[1] \in DOMAIN bundles,
           NEW D \in SUBSET DOMAIN bundles,
           NEW new \in DOMAIN bundles' \ DOMAIN bundles,
           NEW e, e = bundles'[new].entries[a]
    PROVE  /\ Due(bundles', C, D \cup {new}, a) =
                 Due(bundles, C, D, a) + IF e < 0 THEN e ELSE 0
           /\ Due(bundles, C, D, a) \in Int /\ e \in Int
<1>1. bundles \in Seq(Bundle) /\ bundles' \in Seq(Bundle)
  BY DEF Types, BundlesType
<1>2. Due(bundles', C, D, a) = Due(bundles, C, D, a)
  BY DueKept
<1>3. PICK E : E = D \cup {new}
  OBVIOUS
<1>4. \A b : b \in E <=> b \in D \/ b = new
  BY <1>3
<1>5. new \notin D /\ <<new, a>> \notin C
  OBVIOUS
<1>6. Due(bundles', C, E, a) =
         Due(bundles', C, D, a)
            + IF bundles'[new].entries[a] < 0 THEN bundles'[new].entries[a] ELSE 0
  BY <1>1, <1>4, <1>5, DuePaid
<1>7. Due(bundles, C, D, a) \in Int /\ e \in Int
  BY <1>1, DueType, ShareType
<1> QED
  BY <1>2, <1>3, <1>6, <1>7

(* What a payment leaves, piece by piece: one more bundle, which takes from  *)
(* its inputs all that they have.                                            *)
LEMMA PayShape ==
    ASSUME Types, wtx.owner = "none", NEW n \in Accounts, NEW v \in Int,
           NEW bals \in Seq(Balance), Pay(n, bals, v)
    PROVE  \E new, entries, after, fresh :
              /\ fresh = {a \in Addresses : entries[a] > 0}
              /\ entries \in [Addresses -> Int] /\ after \in Seq(Balance)
              /\ Len(after) \in Nat /\ Len(bals) <= Len(after)
              /\ \A a \in Addresses : Moved(n, bals, after, a, entries[a])
              /\ DOMAIN bundles' = DOMAIN bundles \cup {new} /\ new \notin DOMAIN bundles
              /\ \A b \in DOMAIN bundles : bundles'[b] = bundles[b]
              /\ bundles'[new] = [entries |-> entries, own |-> TRUE, debited |-> FALSE,
                                  stage |-> "pow"]
              /\ RpcPut(n, after, fresh, new)
              /\ new \in Nat /\ new = Len(bundles') /\ new # wtx.bundle
<1> DEFINE new == Len(bundles) + 1
           entries == PaymentEntries(n, bals, v)
           after == AfterPayment(bals, v)
           fresh == {a \in Addresses : entries[a] > 0}
<1>1. /\ Len(bundles) < MaxBundles /\ Len(bals) > 0
      /\ v <= TotalValue(ValuesOf(bals))
      /\ bundles' = Append(bundles, NewBundle(entries, TRUE))
      /\ RpcPut(n, after, fresh, new)
  BY DEF Pay
<1>3. entries \in [Addresses -> Int] /\ after \in Seq(Balance)
  BY <1>1, EntriesType, PaymentIsRight
<1>9. fresh = {a \in Addresses : entries[a] > 0}
  OBVIOUS
<1>10. \A a \in Addresses : entries[a] = PaymentEntries(n, bals, v)[a]
  OBVIOUS
<1>11. after = AfterPayment(bals, v) /\ new = Len(bundles) + 1
  OBVIOUS
<1> HIDE DEF new, entries, after, fresh
<1>4. /\ Len(bundles) \in Nat /\ DOMAIN bundles = 1..Len(bundles)
      /\ Len(bundles') = Len(bundles) + 1
      /\ DOMAIN bundles' = DOMAIN bundles \cup {new}
      /\ \A b \in DOMAIN bundles : bundles'[b] = bundles[b]
      /\ bundles'[new] = NewBundle(entries, TRUE)
  BY <1>1, <1>3, <1>11, AppendBundleType DEF Types
<1>5. new # wtx.bundle /\ new \notin DOMAIN bundles /\ new \in Nat /\ new = Len(bundles')
  <2>1. wtx.bundle = 0
    BY NoneOpen
  <2>2. Len(bundles) \in Nat /\ DOMAIN bundles = 1..Len(bundles)
        /\ Len(bundles') = Len(bundles) + 1
    BY <1>4
  <2> QED
    BY <1>11, <2>1, <2>2
<1>6. bundles'[new] = [entries |-> entries, own |-> TRUE, debited |-> FALSE,
                       stage |-> "pow"]
  BY <1>4 DEF NewBundle
<1>7. Len(after) \in Nat /\ Len(bals) <= Len(after)
  <2>1. PICK rest : rest = Remainder(ValuesOf(bals), v)
    OBVIOUS
  <2>4. /\ Len(bals) > 0 /\ v <= TotalValue(ValuesOf(bals))
        /\ after = AfterPayment(bals, v)
    BY <1>1, <1>11
  <2>5. rest \in Nat /\ Len(after) = Len(bals) + IF rest = 0 THEN 0 ELSE 1
    BY <2>1, <2>4, PaymentIsRight
  <2>2. Len(bals) \in Nat
    BY LenProperties
  <2> QED
    BY <2>2, <2>5
<1>8. ASSUME NEW a \in Addresses PROVE Moved(n, bals, after, a, entries[a])
  <2>1. PICK e : e = entries[a]
    OBVIOUS
  <2>2. /\ Len(bals) > 0 /\ v <= TotalValue(ValuesOf(bals))
        /\ e = PaymentEntries(n, bals, v)[a] /\ after = AfterPayment(bals, v)
    BY <1>1, <1>10, <1>11, <2>1
  <2>3. Moved(n, bals, after, a, e)
    BY <2>2, PaymentAt
  <2> QED
    BY <2>1, <2>3
<1> WITNESS new, entries, after, fresh
<1> QED
  BY <1>1, <1>3, <1>4, <1>5, <1>6, <1>7, <1>8, <1>9

LEMMA PayBalanced ==
    ASSUME IInv, Types, Types', Balanced, wtx.owner = "none",
           NEW n \in Accounts, NEW v \in Int, Pay(n, db[n], v)
    PROVE  Balanced'
<1>1. db[n] \in Seq(Balance)
  BY ImageType
<1>2. PICK new, entries, after, fresh :
         /\ fresh = {a \in Addresses : entries[a] > 0}
         /\ entries \in [Addresses -> Int] /\ after \in Seq(Balance)
         /\ Len(after) \in Nat /\ Len(db[n]) <= Len(after)
         /\ \A a \in Addresses : Moved(n, db[n], after, a, entries[a])
         /\ DOMAIN bundles' = DOMAIN bundles \cup {new} /\ new \notin DOMAIN bundles
         /\ \A b \in DOMAIN bundles : bundles'[b] = bundles[b]
         /\ bundles'[new] = [entries |-> entries, own |-> TRUE, debited |-> FALSE,
                             stage |-> "pow"]
         /\ RpcPut(n, after, fresh, new)
         /\ new \in Nat /\ new = Len(bundles') /\ new # wtx.bundle
  BY <1>1, PayShape
<1>3. /\ bundles'[new].entries = entries /\ bundles'[new].own
      /\ ~bundles'[new].debited /\ bundles'[new].stage # "confirmed"
  <2>1. bundles'[new] = [entries |-> entries, own |-> TRUE, debited |-> FALSE,
                         stage |-> "pow"]
    BY <1>2
  <2> QED
    BY <2>1
<1>4. db[n] \in Seq(Balance) /\ Len(db[n]) \in Nat
  BY ImageType
<1>5. \A a \in Addresses : Moved(n, db[n], after, a, entries[a])
  BY <1>2
<1>6. Len(after) \in Nat /\ Len(db[n]) <= Len(after)
  BY <1>2
<1>7. Kept
  BY <1>2 DEF Kept
<1>8. Debited' = Debited
  BY <1>2, <1>3 DEF Debited
<1>9. /\ Image' = [db EXCEPT ![n] = after] /\ wtx'.bundle = new
      /\ Credited' = Credited /\ CreditedInImage' = Credited
      /\ OpenIsRight' /\ CacheIsRight' /\ ImageGrows' /\ SeenKnown' /\ DatabaseExact'
  <2>1. new \in 0..Len(bundles')
    <3>1. new \in Nat /\ new = Len(bundles')
      BY <1>2
    <3> QED
      BY <3>1
  <2> QED
    BY <1>2, <1>6, <1>7, <1>8, <2>1, PutBalanced
<1>10. /\ Image'[n] = after /\ \A m \in Accounts : m # n => Image'[m] = db[m]
  BY <1>9 DEF Types, Database
<1>11. /\ Image = db /\ CreditedInImage = Credited /\ DebitedInImage = Debited
       /\ DebitedInImage' = Debited \cup {new} /\ new \notin Debited
  <2>1. Image = db /\ CreditedInImage = Credited /\ DebitedInImage = Debited
    BY NoneOpen
  <2>2. DebitedInImage' = Debited \cup {new} /\ new \notin Debited
    BY <1>2, <1>8, <1>9 DEF DebitedInImage, Debited
  <2> QED
    BY <2>1, <2>2
<1>12. UNCHANGED db
  BY <1>2 DEF RpcPut
<1>13. SpentKnown'
  <2> SUFFICES ASSUME NEW b \in DOMAIN bundles', NEW a \in Addresses, EntryAt(b, a)' < 0
               PROVE  /\ b \in Debited => a \in AddressesOf(db)
                      /\ b = new => a \in AddressesOf(Image)'
    BY <1>8, <1>9, <1>12 DEF SpentKnown, AddressesOf
  <2>1. CASE b \in DOMAIN bundles
    BY <1>2, <2>1 DEF Balanced, SpentKnown, EntryAt
  <2>2. CASE b = new
    <3>1. entries[a] < 0 /\ entries[a] \in Int
      BY <1>2, <1>3, <2>2 DEF EntryAt
    <3>2. a[1] = n /\ a[2] <= Len(db[n])
      <4>1. PICK e : e = entries[a]
        OBVIOUS
      <4>2. Moved(n, db[n], after, a, e) /\ a[2] \in Nat \ {0} /\ e < 0 /\ e \in Int
        BY <1>5, <3>1, <4>1, AccountOf
      <4> QED
        BY <1>4, <4>2 DEF Moved
    <3>3. a[2] <= Len(Image'[a[1]])
      BY <1>4, <1>6, <1>10, <3>2, AccountOf
    <3> QED
      BY <1>11, <2>2, <3>3 DEF AddressesOf
  <2> QED
    BY <1>2, <2>1, <2>2
<1>14. ASSUME NEW a \in Addresses, NEW e, e = entries[a], NEW C, \A tx \in C : tx[1] \in DOMAIN bundles
       PROVE  /\ Due(bundles', C, DebitedInImage', a) =
                    Due(bundles, C, Debited, a) + IF e < 0 THEN e ELSE 0
              /\ Due(bundles, C, Debited, a) \in Int
  <2>1. Debited \in SUBSET DOMAIN bundles
    BY DEF Debited
  <2>2. new \in DOMAIN bundles' \ DOMAIN bundles /\ e = bundles'[new].entries[a]
    BY <1>2, <1>3, <1>14
  <2> QED
    BY <1>7, <1>11, <1>14, <2>1, <2>2, DuePays
<1>15. ImageExact'
  <2> SUFFICES ASSUME NEW a \in Addresses, a[2] <= Len(Image'[a[1]])
               PROVE  /\ Image'[a[1]][a[2]].value = Due(bundles', Credited, DebitedInImage', a)
                      /\ Image'[a[1]][a[2]].change > 0 =>
                            \E b \in DOMAIN bundles' :
                               /\ bundles'[b].own
                               /\ bundles'[b].entries[a] = Image'[a[1]][a[2]].change
                               /\ <<b, a>> \notin Credited
    BY <1>9 DEF ImageExact, Exact
  <2>1. a[1] \in Accounts /\ a[2] \in Nat \ {0}
    BY AccountOf
  <2>2. \A tx \in Credited : tx[1] \in DOMAIN bundles
    BY CreditedIsKnown
  <2>3. PICK e : e = entries[a]
    OBVIOUS
  <2>4. Due(bundles', Credited, DebitedInImage', a) =
           Due(bundles, Credited, Debited, a) + IF e < 0 THEN e ELSE 0
    BY <1>14, <2>2, <2>3
  <2>5. Due(bundles, Credited, Debited, a) \in Int
    BY <1>14, <2>2, <2>3
  <2>m. Moved(n, db[n], after, a, e) /\ e \in Int
    BY <1>5, <2>3 DEF Moved
  <2>6. ASSUME a[2] <= Len(db[a[1]])
        PROVE  /\ db[a[1]][a[2]].value = Due(bundles, Credited, Debited, a)
               /\ db[a[1]][a[2]].change > 0 =>
                     \E b \in DOMAIN bundles' :
                        /\ bundles'[b].own
                        /\ bundles'[b].entries[a] = db[a[1]][a[2]].change
                        /\ <<b, a>> \notin Credited
    <3>1. /\ db[a[1]][a[2]].value = Due(bundles, Credited, Debited, a)
          /\ db[a[1]][a[2]].change > 0 =>
                \E b \in DOMAIN bundles :
                   /\ bundles[b].own
                   /\ bundles[b].entries[a] = db[a[1]][a[2]].change
                   /\ <<b, a>> \notin Credited
      BY <2>6 DEF Balanced, DatabaseExact, Exact
    <3> QED
      BY <1>2, <3>1
  <2>7. CASE a[1] # n
    <3>1. Image'[a[1]] = db[a[1]] /\ e = 0
      BY <1>10, <2>1, <2>7, <2>m DEF Moved
    <3> QED
      BY <2>4, <2>5, <2>6, <3>1
  <2>8. CASE a[1] = n /\ a[2] <= Len(db[n])
    <3>1. /\ e <= 0
          /\ Image'[a[1]][a[2]].value = db[a[1]][a[2]].value + e
          /\ Image'[a[1]][a[2]].change = db[a[1]][a[2]].change
      BY <1>10, <2>8, <2>m DEF Moved
    <3>2. (IF e < 0 THEN e ELSE 0) = e
      BY <2>m, <3>1
    <3>3. Image'[a[1]][a[2]].value = Due(bundles', Credited, DebitedInImage', a)
      BY <2>4, <2>6, <2>8, <3>1, <3>2
    <3> QED
      BY <2>6, <2>8, <3>1, <3>3
  <2>9. CASE a[1] = n /\ a[2] > Len(db[n])
    <3>1. e > 0 /\ Image'[a[1]][a[2]] = [value |-> 0, change |-> e]
      BY <1>10, <2>9, <2>m DEF Moved
    <3>2. Due(bundles, Credited, Debited, a) = 0
      <4>1. a \notin AddressesOf(db)
        BY <1>4, <2>1, <2>9 DEF AddressesOf
      <4> QED
        BY <4>1, NothingDue DEF Balanced
    <3>3. bundles'[new].own /\ bundles'[new].entries[a] = e /\ new \in DOMAIN bundles'
      BY <1>2, <1>3, <2>3
    <3>4. <<new, a>> \notin Credited
      BY <1>2, <2>2
    <3>5. Image'[a[1]][a[2]].value = 0 /\ Image'[a[1]][a[2]].change = e
      BY <3>1
    <3>6. Due(bundles', Credited, DebitedInImage', a) = 0
      BY <2>4, <2>m, <3>1, <3>2
    <3> QED
      BY <3>3, <3>4, <3>5, <3>6
  <2> QED
    BY <1>4, <2>1, <2>7, <2>8, <2>9
<1> QED
  BY <1>9, <1>13, <1>15 DEF Balanced

-----------------------------------------------------------------------------
(* No reading handler runs, and neither the node nor a commit fails.  The    *)
(* process may still be restarted, and the operator may refresh the database.*)
Reliable == Readers = {} /\ "node" \notin Faults /\ "commit" \notin Faults

LEMMA InitBalanced == Init => Balanced
<1> SUFFICES ASSUME Init PROVE Balanced
  OBVIOUS
<1>1. Types
  BY InitTypes
<1>2. /\ db = [n \in Accounts |-> <<>>] /\ lastAccount = NoCache /\ wtx = NoTx
      /\ bundles = <<>> /\ notify = Idle /\ txDB = {} /\ credits = [tx \in TxIds |-> 0]
  BY DEF Init
<1>3. /\ Image = db /\ CreditedInImage = Credited /\ DebitedInImage = Debited
      /\ wtx.bundle = 0 /\ DOMAIN bundles = {} /\ Len(bundles) \in Nat
  BY <1>1, <1>2, NoneOpen, BundlesAre DEF NoTx
<1>4. OpenIsRight /\ CacheIsRight /\ SeenKnown
  BY <1>2, <1>3 DEF OpenIsRight, CacheIsRight, SeenKnown, NoCache, NoTx, Idle
<1>5. ImageGrows
  BY <1>1, <1>3, ImageType DEF ImageGrows
<1>6. SpentKnown
  BY <1>3 DEF SpentKnown
<1>7. AddressesOf(db) = {}
  BY <1>2, EmptySeq, AccountOf DEF AddressesOf
<1>8. DatabaseExact /\ ImageExact
  BY <1>3, <1>7 DEF DatabaseExact, ImageExact, Exact, AddressesOf
<1> QED
  BY <1>4, <1>5, <1>6, <1>8 DEF Balanced

LEMMA NextBalanced ==
    ASSUME Reliable, IInv, Types, Types', Balanced, [Next]_vars
    PROVE  Balanced'
<1>1. CASE Rpc
  <2>1. ASSUME NEW n \in Accounts, GetNewAddress(n) PROVE Balanced'
    BY <2>1, GetNewAddressBalanced
  <2>2. ASSUME NEW n \in Accounts, NEW v \in Payments, SendFrom(n, v) \/ SendToAddress(n, v)
        PROVE  Balanced'
    <3>1. v \in Int
      OBVIOUS
    <3>2. wtx.owner = "none"
      BY <2>2 DEF SendFrom, SendToAddress, Pay, MayWrite
    <3>3. Pay(n, db[n], v)
      BY <2>2, <3>2, CacheIsDatabase DEF SendFrom, SendToAddress
    <3> QED
      BY <3>1, <3>2, <3>3, PayBalanced
  <2>3. ~RpcCommitFails
    BY DEF RpcCommitFails, Reliable
  <2> QED
    BY <1>1, <2>1, <2>2, <2>3, RpcCommitBalanced DEF Rpc
<1>2. CASE Mesh
  BY <1>2, StageBalanced, DepositBalanced DEF Mesh
<1>3. CASE Reading
  BY <1>3 DEF Reading, Reliable
<1>4. CASE Notifying
  <2>1. ~NotifyRollback
    BY DEF NotifyRollback, Reliable
  <2> QED
    BY <1>4, <2>1, RoundBalanced, BeginBalanced, HitBalanced, CreditBalanced,
       NotifyCommitBalanced, RestartBalanced DEF Notifying, NotifyPanics
<1>5. CASE Crash \/ Refresh
  BY <1>5, RestartBalanced, RefreshBalanced DEF Crash
<1>6. CASE UNCHANGED vars
  <2>1. SeenKnown'
    BY <1>6 DEF vars, Balanced, SeenKnown, AddressesOf
  <2> QED
    BY <1>6, <2>1, QuietBalanced DEF vars, Balanced, OpenIsRight
<1> QED
  BY <1>1, <1>2, <1>3, <1>4, <1>5, <1>6 DEF Next

LEMMA AlwaysBalanced == ASSUME Reliable PROVE Spec => [](IInv /\ Types /\ Balanced)
<1>1. Init => IInv /\ Types /\ Balanced
  BY InitIInv, InitTypes, InitBalanced
<1>2. IInv /\ Types /\ Balanced /\ [Next]_vars => (IInv /\ Types /\ Balanced)'
  BY NextIInv, NextTypes, NextBalanced
<1> QED
  BY <1>1, <1>2, PTL DEF Spec

-----------------------------------------------------------------------------
(* What the runs check, from the invariant.                                  *)
LEMMA BalancedGivesExact == IInv /\ Types /\ Balanced => LedgerExact
<1> SUFFICES ASSUME IInv, Types, Balanced, NEW a \in AddressesOf(db)
             PROVE  /\ db[a[1]][a[2]].value = Ledger(a)
                    /\ db[a[1]][a[2]].change > 0 =>
                          \E b \in DOMAIN bundles :
                             /\ bundles[b].own
                             /\ EntryAt(b, a) = db[a[1]][a[2]].change
                             /\ credits[<<b, a>>] = 0
  BY DEF LedgerExact
<1>1. a \in Addresses /\ a[2] <= Len(db[a[1]])
  BY DEF AddressesOf
<1>2. /\ db[a[1]][a[2]].value = Due(bundles, Credited, Debited, a)
      /\ db[a[1]][a[2]].change > 0 =>
            \E b \in DOMAIN bundles : /\ bundles[b].own
                                      /\ bundles[b].entries[a] = db[a[1]][a[2]].change
                                      /\ <<b, a>> \notin Credited
  BY <1>1 DEF Balanced, DatabaseExact, Exact
<1>3. ASSUME NEW b \in DOMAIN bundles
      PROVE  /\ EntryAt(b, a) \in Int
             /\ <<b, a>> \in Credited <=> credits[<<b, a>>] > 0
             /\ <<b, a>> \notin Credited => credits[<<b, a>>] = 0
             /\ b \in Debited <=> bundles[b].debited
  <2>1. EntryAt(b, a) \in Int /\ <<b, a>> \in TxIds
    BY <1>1, BundlesAre
  <2>2. credits[<<b, a>>] \in Nat
    BY <2>1 DEF IInv, ControlTypeOK
  <2> QED
    BY <2>1, <2>2 DEF Credited, Debited
<1> DEFINE v == [b \in DOMAIN bundles |-> Share(bundles, Credited, Debited, a, b)]
           w == [b \in DOMAIN bundles |->
                    (IF credits[<<b, a>>] > 0 THEN EntryAt(b, a) ELSE 0)
                  + (IF bundles[b].debited /\ EntryAt(b, a) < 0 THEN EntryAt(b, a) ELSE 0)]
<1>4. \A b \in DOMAIN bundles : Share(bundles, Credited, Debited, a, b) =
         (IF credits[<<b, a>>] > 0 THEN EntryAt(b, a) ELSE 0)
       + (IF bundles[b].debited /\ EntryAt(b, a) < 0 THEN EntryAt(b, a) ELSE 0)
  BY <1>3 DEF Share, EntryAt
<1>5. v = w
  BY <1>4
<1>6. Ledger(a) = SumFunctionOnSet(w, DOMAIN bundles)
  BY DEF Ledger, SumFunction
<1>7. Due(bundles, Credited, Debited, a) = SumFunctionOnSet(v, DOMAIN bundles)
  BY DEF Due
<1> QED
  BY <1>2, <1>3, <1>5, <1>6, <1>7 DEF EntryAt

LEMMA SumAtWhole ==
    ASSUME Types, NEW a \in Addresses, NEW B \in SUBSET DOMAIN bundles,
           NEW w, \A b \in DOMAIN bundles : w[b] = IF b \in B THEN EntryAt(b, a) ELSE 0
    PROVE  /\ SumAt(B, a) = SumFunctionOnSet(w, DOMAIN bundles)
           /\ \A b \in DOMAIN bundles : w[b] \in Int
<1> DEFINE D == DOMAIN bundles
           e == [b \in DOMAIN bundles |-> EntryAt(b, a)]
<1>1. /\ IsFiniteSet(D) /\ B \in SUBSET D
      /\ \A b \in D : e[b] \in Int /\ w[b] = IF b \in B THEN e[b] ELSE 0
  BY BundlesAre, ShareType
<1>2. SumAt(B, a) = SumFunctionOnSet(e, B)
  BY DEF SumAt
<1>3. \A b \in D : w[b] \in Int
  <2> HIDE DEF e
  <2> QED
    BY <1>1
<1>4. SumFunctionOnSet(w, D) = SumFunctionOnSet(e, B)
  <2> HIDE DEF e, D
  <2> QED
    BY <1>1, SumPart
<1> QED
  BY <1>2, <1>3, <1>4

(* The balances in the database are the account of what was credited and     *)
(* paid, whatever accounts, values and payments there are, and through any   *)
(* restart or refresh.                                                       *)
THEOREM LedgerIsExact == ASSUME Reliable PROVE Spec => []LedgerExact
<1>1. Spec => [](IInv /\ Types /\ Balanced)
  BY AlwaysBalanced
<1> QED
  BY <1>1, BalancedGivesExact, PTL

-----------------------------------------------------------------------------
(* When nothing fails and the process is not killed, no bundle is lost and   *)
(* Walletnotify ends every round it begins.                                  *)
Untroubled == Readers = {} /\ Faults \subseteq {"refresh"}

LEMMA UntroubledIsReliable ==
    ASSUME Untroubled PROVE Reliable /\ "crash" \notin Faults
  BY DEF Untroubled, Reliable

(* What is recorded as confirmed has been credited or is about to be.        *)
RecordsCredited ==
    \A tx \in hashes.confirmed :
        \/ credits[tx] = 1
        \/ notify.pc \in {"begin", "credit", "hit"} /\ tx \in notify.newly

(* The position found in the cache is there when it is used.                 *)
LEMMA NoPanic == ASSUME IInv, Types, Balanced PROVE ~NotifyPanics
<1> SUFFICES ASSUME notify.pc = "hit" PROVE \A tx \in notify.cur : ~(tx[2][2] > Len(lastAccount.bals))
  BY DEF NotifyPanics
<1>1. PICK tx \in notify.todo : notify.cur = {tx} /\ Cached(tx[2])
  BY DEF Balanced, OpenIsRight
<1>2. tx \in txDB
  BY <1>1 DEF Types, TodoIsRight, IInv, HashesStored
<1>3. tx[2][2] \in Nat /\ tx[2][2] <= Len(lastAccount.bals)
  BY <1>1, <1>2, CreditedIsEntry DEF Cached
<1>4. Len(lastAccount.bals) \in Nat
  BY EmptySeq, LenProperties DEF Types, CacheType, NoCache
<1> QED
  BY <1>1, <1>3, <1>4

LEMMA RecordsStep ==
    ASSUME Untroubled, IInv, Types, Balanced, RecordsCredited, [Next]_vars
    PROVE  RecordsCredited'
<1>1. "node" \notin Faults /\ "commit" \notin Faults /\ "crash" \notin Faults
  BY UntroubledIsReliable DEF Reliable
<1>2. NotifyType
  BY DEF IInv, ControlTypeOK
<1>3. CASE UNCHANGED <<hashes, credits, notify>>
  BY <1>3 DEF RecordsCredited
<1>4. CASE Refresh
  <2>1. hashes'.confirmed = {}
    BY <1>4 DEF Refresh
  <2> QED
    BY <2>1 DEF RecordsCredited
<1>5. CASE NotifyStart \/ NotifyFind \/ NotifyCompare \/ NotifyInclusion
  <2>1. /\ UNCHANGED <<hashes, credits>>
        /\ notify.pc \in {"idle", "find", "compare", "inclusion"}
    BY <1>5 DEF NotifyStart, NotifyFind, NotifyCompare, NotifyInclusion
  <2> QED
    BY <2>1 DEF RecordsCredited
<1>6. CASE NotifyPut
  <2>1. /\ notify.pc = "put" /\ hashes'.confirmed = notify.conf \cup notify.newly
        /\ UNCHANGED credits
    BY <1>6 DEF NotifyPut, StatesAfter
  <2>2. notify'.pc = "begin" /\ notify'.newly = notify.newly
    BY <1>2, <1>6 DEF NotifyPut, NotifyType
  <2>3. notify.conf = hashes.confirmed
    BY <2>1 DEF IInv, CopyIsRight
  <2> QED
    BY <2>1, <2>2, <2>3 DEF RecordsCredited
<1>7. CASE NotifyBegin
  <2>1. /\ notify.pc = "begin" /\ UNCHANGED <<hashes, credits>>
        /\ \/ notify.newly = {}
           \/ notify' = [notify EXCEPT !.pc = "credit", !.todo = ToCredit]
    BY <1>7 DEF NotifyBegin
  <2>2. CASE notify.newly = {}
    BY <2>1, <2>2 DEF RecordsCredited
  <2>3. CASE notify' = [notify EXCEPT !.pc = "credit", !.todo = ToCredit]
    <3>1. notify'.pc = "credit" /\ notify'.newly = notify.newly
      BY <1>2, <2>3 DEF NotifyType
    <3> QED
      BY <2>1, <3>1 DEF RecordsCredited
  <2> QED
    BY <2>1, <2>2, <2>3
<1>8. ASSUME NEW tx \in TxIds, NotifyCreditMiss(tx) \/ NotifyHit(tx) \/ NotifyCreditHit(tx)
      PROVE  RecordsCredited'
  <2>1. /\ notify.pc \in {"credit", "hit"} /\ notify'.pc \in {"credit", "hit"}
        /\ notify'.newly = notify.newly /\ UNCHANGED <<hashes, credits>>
    BY <1>2, <1>8 DEF NotifyCreditMiss, NotifyHit, NotifyCreditHit, CreditTo, NotifyType
  <2> QED
    BY <2>1 DEF RecordsCredited
<1>9. CASE NotifyCommit
  <2>1. /\ notify.pc = "credit" /\ UNCHANGED hashes
        /\ credits' = [tx \in TxIds |-> credits[tx] + IF tx \in ToCredit THEN 1 ELSE 0]
    BY <1>9 DEF NotifyCommit
  <2>2. hashes.confirmed \subseteq TxIds /\ \A tx \in notify.newly : credits[tx] = 0
    BY <2>1 DEF IInv, ControlTypeOK, NewlyIsRight
  <2>3. ASSUME NEW tx \in hashes.confirmed PROVE credits'[tx] = 1
    <3>1. credits'[tx] = credits[tx] + IF tx \in notify.newly THEN 1 ELSE 0
      BY <2>1, <2>2 DEF ToCredit
    <3>2. CASE tx \in notify.newly
      BY <2>2, <3>1, <3>2
    <3>3. CASE tx \notin notify.newly
      BY <3>1, <3>3 DEF RecordsCredited
    <3> QED
      BY <3>2, <3>3
  <2> QED
    BY <2>1, <2>3 DEF RecordsCredited
<1>10. ~NotifyGivesUp /\ ~NotifyRollback /\ ~NotifyPanics /\ ~Crash
  BY <1>1, NoPanic DEF NotifyGivesUp, NotifyRollback, Crash
<1>11. CASE Rpc \/ Mesh \/ Reading \/ UNCHANGED vars
  <2>1. UNCHANGED <<hashes, credits, notify>>
    BY <1>11
       DEF Rpc, GetNewAddress, SendFrom, SendToAddress, Pay, RpcPut, RpcCommit,
           RpcCommitFails, Mesh, Broadcast, Confirm, Deposit, Reading, ReaderBegin,
           ReaderMiss, ReaderFill, ReaderEnd, vars
  <2> QED
    BY <1>3, <2>1
<1> QED
  BY <1>4, <1>5, <1>6, <1>7, <1>8, <1>9, <1>10, <1>11 DEF Next, Notifying

Tidy == Balanced /\ RecordsCredited

LEMMA AlwaysTidy == ASSUME Untroubled PROVE Spec => [](IInv /\ Types /\ Tidy)
<1>1. Init => IInv /\ Types /\ Tidy
  <2>1. Init => RecordsCredited
    BY DEF Init, RecordsCredited
  <2> QED
    BY <2>1, InitIInv, InitTypes, InitBalanced DEF Tidy
<1>2. IInv /\ Types /\ Tidy /\ [Next]_vars => (IInv /\ Types /\ Tidy)'
  BY NextIInv, NextTypes, NextBalanced, UntroubledIsReliable, RecordsStep DEF Tidy
<1> QED
  BY <1>1, <1>2, PTL DEF Spec

(* Walletnotify's two transactions do not come apart: between two rounds,    *)
(* what the database records as confirmed has been added to its balances.    *)
THEOREM ConfirmedGetCredited == ASSUME Untroubled PROVE Spec => []ConfirmedIsCredited
<1>1. Tidy => ConfirmedIsCredited
  BY DEF Tidy, RecordsCredited, ConfirmedIsCredited
<1> QED
  BY <1>1, AlwaysTidy, PTL

-----------------------------------------------------------------------------
(* Positions.  The copies of an account differ in what they say of a value,  *)
(* but not in how many addresses they have, unless a handler that writes is  *)
(* stopped half way: no handler's commit fails, and the process is not       *)
(* killed.  A panic of Walletnotify counts as no kill: it is in a            *)
(* transaction that makes no addresses.                                      *)
WritesEnd == "commit" \notin Faults /\ "crash" \notin Faults

LengthsRight ==
    /\ \A n \in Accounts : /\ Len(db[n]) <= Len(Image[n])
                           /\ wtx.owner = "notify" => Len(Image[n]) = Len(db[n])
    /\ lastAccount.name # 0 => Len(lastAccount.bals) = Len(Image[lastAccount.name])
    /\ \A r \in Readers :
          readers[r].pc # "idle" =>
              /\ wtx.owner # "rpc"
              /\ \A n \in Accounts : Len(readers[r].snap[n]) = Len(db[n])

(* Every address that a bundle pays to or takes from is the wallet's.        *)
EntriesKnown ==
    \A b \in DOMAIN bundles, a \in Addresses :
        EntryAt(b, a) # 0 => a \in AddressesOf(Image)

Positions == LengthsRight /\ EntriesKnown

LEMMA Grown ==
    ASSUME Types, Types', \A n \in Accounts : Len(Image[n]) <= Len(Image'[n])
    PROVE  AddressesOf(Image) \subseteq AddressesOf(Image)'
<1>1. Image' \in Database
  BY DEF Types, WtxType, Image, NoTx
<1>2. \A n \in Accounts : Len(Image'[n]) \in Nat
  BY <1>1, LenProperties DEF Database
<1>3. \A a \in Addresses : a[1] \in Accounts /\ a[2] \in Nat
  BY AccountOf
<1>4. \A n \in Accounts : Len(Image[n]) \in Nat
  BY ImageType
<1>5. \A a \in Addresses : a[2] <= Len(Image[a[1]]) => a[2] <= Len(Image'[a[1]])
  BY <1>2, <1>3, <1>4
<1> QED
  BY <1>5 DEF AddressesOf

(* Which account Walletnotify credits: the one that it found in its          *)
(* transaction, or the one that is cached by then.                           *)
LEMMA CreditsOne ==
    ASSUME IInv, Types, NEW tx \in TxIds, NotifyCreditMiss(tx) \/ NotifyCreditHit(tx)
    PROVE  \E n \in Accounts, bals \in Seq(Balance) :
              /\ CreditTo(n, bals, tx)
              /\ notify.pc \in {"credit", "hit"} /\ wtx.owner = "notify"
              /\ tx \in notify.newly /\ tx \in txDB /\ tx[1] \in DOMAIN bundles
              /\ \/ NotifyCreditMiss(tx) /\ n = tx[2][1] /\ bals = Image[n]
                 \/ /\ NotifyCreditHit(tx)
                    /\ n = lastAccount.name /\ bals = lastAccount.bals
              /\ UNCHANGED <<db, hashes, txDB, bundles, readers, credits>>
<1>1. /\ notify.pc \in {"credit", "hit"} /\ tx \in notify.newly
      /\ UNCHANGED <<db, hashes, txDB, bundles, readers, credits>>
  BY DEF NotifyCreditMiss, NotifyCreditHit, Types, TodoIsRight
<1>2. tx \in txDB /\ wtx.owner = "notify" /\ Image = wtx.img
  BY <1>1 DEF IInv, HashesStored, Types, OwnerIsRight, Image
<1>3. tx[1] \in DOMAIN bundles /\ tx[2][1] \in Accounts /\ tx[2][2] \in Nat \ {0}
  BY <1>2, CreditedIsEntry
<1>4. CASE NotifyCreditMiss(tx)
  <2>1. PICK n \in Accounts, bals \in Seq(Balance) : n = tx[2][1] /\ bals = Image[n]
    BY <1>3, ImageType
  <2>2. CreditTo(n, bals, tx)
    BY <1>2, <1>4, <2>1 DEF NotifyCreditMiss
  <2> QED
    BY <1>1, <1>2, <1>3, <1>4, <2>1, <2>2
<1>5. CASE NotifyCreditHit(tx)
  <2>1. CreditTo(lastAccount.name, lastAccount.bals, tx) /\ tx[2][2] <= Len(lastAccount.bals)
    BY <1>5 DEF NotifyCreditHit
  <2>2. lastAccount # NoCache
    BY <1>3, <2>1, EmptySeq DEF NoCache
  <2>3. PICK n \in Accounts, bals \in Seq(Balance) :
           n = lastAccount.name /\ bals = lastAccount.bals
    BY <2>2 DEF Types, CacheType
  <2> QED
    BY <1>1, <1>2, <1>3, <1>5, <2>1, <2>3
<1> QED
  BY <1>4, <1>5

-----------------------------------------------------------------------------
(* Lengths, step by step.                                                    *)

(* A handler finds as many addresses in the cache as in the database.        *)
LEMMA LengthFound ==
    ASSUME Types, LengthsRight, wtx.owner = "none", NEW n \in Accounts
    PROVE  /\ Len(GetAccount(db, n)) = Len(db[n]) /\ Len(db[n]) \in Nat
           /\ GetAccount(db, n) \in Seq(Balance)
<1>1. Image = db /\ n # 0
  BY NoneOpen DEF Accounts
<1> QED
  BY <1>1, GetAccountType, ImageType DEF LengthsRight, GetAccount

LEMMA PutLengths ==
    ASSUME Types, LengthsRight, wtx.owner = "none", NoReader, NEW n \in Accounts,
           NEW bals \in Seq(Balance), Len(db[n]) <= Len(bals),
           NEW fresh, NEW b, RpcPut(n, bals, fresh, b)
    PROVE  /\ LengthsRight' /\ \A m \in Accounts : Len(Image[m]) <= Len(Image'[m])
           /\ Image'[n] = bals
<1>1. /\ wtx' = [owner |-> "rpc", img |-> [db EXCEPT ![n] = bals],
                 fresh |-> fresh, bundle |-> b]
      /\ lastAccount' = CacheAfterPut(n, bals)
      /\ UNCHANGED <<db, hashes, txDB, notify, readers, credits>>
  BY DEF RpcPut
<1>2. wtx'.owner = "rpc" /\ Image' = [db EXCEPT ![n] = bals] /\ Image = db
  BY <1>1, NoneOpen DEF Image
<1>3. Image'[n] = bals /\ \A m \in Accounts : m # n => Image'[m] = db[m]
  BY <1>2 DEF Types, Database
<1>4. \A m \in Accounts : Len(db[m]) <= Len(Image'[m])
  BY <1>3, ImageType
<1>5. lastAccount'.name # 0 => Len(lastAccount'.bals) = Len(Image'[lastAccount'.name])
  <2>1. CASE lastAccount.name = n
    BY <1>1, <1>3, <2>1 DEF CacheAfterPut
  <2>2. CASE lastAccount.name # n
    <3>1. lastAccount' = lastAccount /\ (lastAccount.name # 0 => lastAccount.name \in Accounts)
      BY <1>1, <2>2 DEF CacheAfterPut, Types, CacheType, NoCache
    <3> QED
      BY <1>2, <1>3, <2>2, <3>1 DEF LengthsRight
  <2> QED
    BY <2>1, <2>2
<1>6. \A r \in Readers : readers'[r].pc = "idle"
  BY <1>1 DEF NoReader
<1> QED
  BY <1>1, <1>2, <1>3, <1>4, <1>5, <1>6 DEF LengthsRight

(* What has as many addresses stays so.                                      *)
LEMMA SameLengths ==
    ASSUME Types, LengthsRight, UNCHANGED <<db, readers>>,
           \A n \in Accounts : Len(Image'[n]) = Len(Image[n]),
           lastAccount' = lastAccount,
           wtx'.owner = wtx.owner \/ wtx'.owner = "none" \/ (wtx.owner = "none" /\ wtx'.owner = "notify"),
           wtx'.owner = "notify" => \A n \in Accounts : Len(Image[n]) = Len(db[n])
    PROVE  LengthsRight' /\ \A n \in Accounts : Len(Image[n]) <= Len(Image'[n])
<1>1. \A n \in Accounts : Len(Image[n]) \in Nat
  BY ImageType
<1>2. lastAccount.name # 0 => lastAccount.name \in Accounts
  BY DEF Types, CacheType, NoCache
<1> QED
  BY <1>1, <1>2 DEF LengthsRight

LEMMA ReadingLengths ==
    ASSUME Types, LengthsRight, Reading
    PROVE  LengthsRight' /\ \A n \in Accounts : Len(Image[n]) <= Len(Image'[n])
<1>1. UNCHANGED <<db, wtx>>
  BY DEF Reading, ReaderBegin, ReaderMiss, ReaderFill, ReaderEnd
<1>2. Image' = Image /\ \A n \in Accounts : Len(Image[n]) \in Nat
  BY <1>1, ImageType DEF Image
<1>3. readers \in [Readers -> [pc : {"idle", "view", "scan"},
                               snap : Database \cup {<<>>},
                               adr : Addresses \cup {<<>>}]]
  BY DEF Types, ReadersType
<1>4. ASSUME NEW r \in Readers, ReaderBegin(r) PROVE LengthsRight'
  <2>1. lastAccount' = lastAccount /\ wtx.owner # "rpc"
    BY <1>4 DEF ReaderBegin
  <2>2. \A s \in Readers : IF s = r THEN readers'[s].snap = db ELSE readers'[s] = readers[s]
    BY <1>3, <1>4 DEF ReaderBegin
  <2> QED
    BY <1>1, <1>2, <2>1, <2>2 DEF LengthsRight
<1>5. ASSUME NEW r \in Readers, NEW a \in Addresses, ReaderMiss(r, a) PROVE LengthsRight'
  <2>1. lastAccount' = lastAccount /\ readers[r].pc # "idle"
    BY <1>5 DEF ReaderMiss
  <2>2. \A s \in Readers : /\ readers'[s].snap = readers[s].snap
                           /\ s # r => readers'[s] = readers[s]
    BY <1>3, <1>5 DEF ReaderMiss
  <2> QED
    BY <1>1, <1>2, <2>1, <2>2 DEF LengthsRight
<1>6. ASSUME NEW r \in Readers, ReaderFill(r) PROVE LengthsRight'
  <2>1. /\ readers[r].pc = "scan" /\ readers[r].adr[1] \in Accounts
        /\ lastAccount' = [name |-> readers[r].adr[1],
                           bals |-> readers[r].snap[readers[r].adr[1]]]
    BY <1>6, AccountOf DEF ReaderFill, Types, ReadersType
  <2>2. \A s \in Readers : /\ readers'[s].snap = readers[s].snap
                           /\ s # r => readers'[s] = readers[s]
    BY <1>3, <1>6 DEF ReaderFill
  <2>3. \A n \in Accounts : Len(readers[r].snap[n]) = Len(Image[n])
    <3>1. wtx.owner \in {"none", "notify"}
      BY <2>1, ImageType DEF LengthsRight
    <3>2. wtx.owner = "none" => Image = db
      BY NoneOpen
    <3> QED
      BY <2>1, <3>1, <3>2 DEF LengthsRight
  <2>4. lastAccount'.name # 0 => Len(lastAccount'.bals) = Len(Image[lastAccount'.name])
    BY <2>1, <2>3
  <2>5. \A s \in Readers : readers'[s].pc # "idle" => readers[s].pc # "idle"
    BY <2>1, <2>2
  <2> QED
    BY <1>1, <1>2, <2>2, <2>4, <2>5 DEF LengthsRight
<1>7. ASSUME NEW r \in Readers, ReaderEnd(r) PROVE LengthsRight'
  <2>1. lastAccount' = lastAccount
    BY <1>7 DEF ReaderEnd
  <2>2. \A s \in Readers : IF s = r THEN readers'[s].pc = "idle" ELSE readers'[s] = readers[s]
    BY <1>3, <1>7 DEF ReaderEnd, Absent
  <2> QED
    BY <1>1, <1>2, <2>1, <2>2 DEF LengthsRight
<1> QED
  BY <1>2, <1>4, <1>5, <1>6, <1>7 DEF Reading

LEMMA CreditLengths ==
    ASSUME IInv, Types, LengthsRight, NEW tx \in TxIds,
           NotifyCreditMiss(tx) \/ NotifyCreditHit(tx)
    PROVE  LengthsRight' /\ \A n \in Accounts : Len(Image[n]) <= Len(Image'[n])
<1>1. PICK n \in Accounts, bals \in Seq(Balance) :
         /\ CreditTo(n, bals, tx)
         /\ notify.pc \in {"credit", "hit"} /\ tx[1] \in DOMAIN bundles
         /\ \/ bals = Image[n]
            \/ n = lastAccount.name /\ bals = lastAccount.bals
         /\ UNCHANGED <<db, hashes, txDB, bundles, readers, credits>>
  BY CreditsOne
<1>2. PICK after \in Seq(Balance), e \in Int :
         /\ Len(after) = Len(bals)
         /\ lastAccount' = [name |-> n, bals |-> after]
         /\ wtx.owner = "notify" /\ wtx'.owner = "notify"
         /\ Image \in Database /\ Image' = [Image EXCEPT ![n] = after]
  BY <1>1, CreditShape
<1>3. Len(bals) = Len(Image[n])
  BY <1>1 DEF LengthsRight, Accounts
<1>4. \A m \in Accounts : Len(Image'[m]) = Len(Image[m]) /\ Len(Image[m]) \in Nat
  BY <1>2, <1>3, ImageType DEF Database
<1>5. Len(lastAccount'.bals) = Len(Image'[lastAccount'.name])
  BY <1>2, <1>3, <1>4
<1> QED
  BY <1>1, <1>2, <1>4, <1>5 DEF LengthsRight

LEMMA EndLengths ==
    ASSUME Types, Types', LengthsRight,
           RpcCommit \/ NotifyCommit \/ NotifyRollback \/ NotifyPanics \/ Refresh
    PROVE  LengthsRight' /\ \A n \in Accounts : Len(Image[n]) <= Len(Image'[n])
<1>1. wtx' = NoTx
  BY NoneOpen DEF RpcCommit, NotifyCommit, NotifyRollback, NotifyPanics, Restart, Refresh
<1>2. wtx'.owner = "none" /\ Image' = db'
  BY <1>1, NoneLeftOpen
<1>3. \A n \in Accounts : Len(db[n]) \in Nat /\ Len(Image[n]) \in Nat
  BY ImageType
<1>4. \A n \in Accounts : Len(db'[n]) = Len(Image[n])
  <2>1. CASE RpcCommit \/ NotifyCommit
    BY <2>1 DEF RpcCommit, NotifyCommit, Types, OwnerIsRight, Image
  <2>2. CASE NotifyRollback \/ NotifyPanics
    <3>1. notify.pc \in {"credit", "hit"} /\ db' = db
      BY <2>2 DEF NotifyRollback, NotifyPanics, Restart
    <3> QED
      BY <3>1 DEF Types, OwnerIsRight, LengthsRight
  <2>3. CASE Refresh
    BY <2>3, RefreshKeeps, NoneOpen
  <2> QED
    BY <2>1, <2>2, <2>3
<1>5. lastAccount' = lastAccount \/ lastAccount' = NoCache
  BY DEF RpcCommit, NotifyCommit, NotifyRollback, NotifyPanics, Restart, Refresh
<1>6. lastAccount'.name # 0 => Len(lastAccount'.bals) = Len(Image'[lastAccount'.name])
  <2>1. lastAccount.name # 0 => lastAccount.name \in Accounts
    BY DEF Types, CacheType, NoCache
  <2> QED
    BY <1>2, <1>4, <1>5, <2>1 DEF LengthsRight, NoCache
<1>7. ASSUME NEW r \in Readers, readers'[r].pc # "idle", NEW n \in Accounts
      PROVE  Len(readers'[r].snap[n]) = Len(db'[n])
  <2>1. readers' = readers
    <3>1. readers' = [q \in Readers |-> Absent] => readers'[r].pc = "idle"
      BY DEF Absent
    <3> QED
      BY <1>7, <3>1 DEF RpcCommit, NotifyCommit, NotifyRollback, NotifyPanics, Restart, Refresh
  <2>2. wtx.owner # "rpc" /\ Len(readers[r].snap[n]) = Len(db[n])
    BY <1>7, <2>1 DEF LengthsRight
  <2>3. Len(Image[n]) = Len(db[n])
    BY <2>2, NoneOpen, ImageType DEF LengthsRight
  <2> QED
    BY <1>4, <2>1, <2>2, <2>3
<1> QED
  BY <1>2, <1>3, <1>4, <1>6, <1>7 DEF LengthsRight

LEMMA LengthsStep ==
    ASSUME WritesEnd, IInv, Types, Types', LengthsRight, [Next]_vars
    PROVE  LengthsRight' /\ \A n \in Accounts : Len(Image[n]) <= Len(Image'[n])
<1>1. ASSUME NEW n \in Accounts, GetNewAddress(n)
      PROVE  LengthsRight' /\ \A m \in Accounts : Len(Image[m]) <= Len(Image'[m])
  <2>1. PICK bals \in Seq(Balance) :
           bals = GetAccount(db, n) /\ Len(bals) = Len(db[n]) /\ Len(db[n]) \in Nat
    BY <1>1, LengthFound DEF GetNewAddress, MayWrite
  <2>2. PICK after, fresh : /\ after = Append(bals, EmptyBalance(0))
                            /\ RpcPut(n, after, fresh, 0)
    BY <1>1, <2>1 DEF GetNewAddress
  <2>3. wtx.owner = "none" /\ NoReader
    BY <1>1 DEF GetNewAddress, MayWrite
  <2>4. after \in Seq(Balance) /\ Len(after) = Len(db[n]) + 1
    <3>1. EmptyBalance(0) \in Balance
      BY DEF EmptyBalance, Balance
    <3> QED
      BY <2>1, <2>2, <3>1, AppendProperties
  <2>5. Len(db[n]) <= Len(after)
    BY <2>1, <2>4
  <2> QED
    BY <2>2, <2>3, <2>4, <2>5, PutLengths
<1>2. ASSUME NEW n \in Accounts, NEW v \in Payments, NEW bals \in Seq(Balance),
             Pay(n, bals, v), Len(bals) = Len(db[n])
      PROVE  LengthsRight' /\ \A m \in Accounts : Len(Image[m]) <= Len(Image'[m])
  <2>1. v \in Int /\ wtx.owner = "none" /\ NoReader
    BY <1>2 DEF Pay, MayWrite
  <2>2. PICK after, fresh, new :
           /\ after \in Seq(Balance) /\ Len(bals) <= Len(after)
           /\ RpcPut(n, after, fresh, new)
    BY <1>2, <2>1, PayShape
  <2> QED
    BY <1>2, <2>1, <2>2, PutLengths
<1>3. ASSUME NEW n \in Accounts, NEW v \in Payments, SendFrom(n, v) \/ SendToAddress(n, v)
      PROVE  LengthsRight' /\ \A m \in Accounts : Len(Image[m]) <= Len(Image'[m])
  <2>1. wtx.owner = "none"
    BY <1>3 DEF SendFrom, SendToAddress, Pay, MayWrite
  <2>2. PICK bals \in Seq(Balance) : Pay(n, bals, v) /\ Len(bals) = Len(db[n])
    BY <1>3, <2>1, LengthFound, ImageType DEF SendFrom, SendToAddress
  <2> QED
    BY <1>2, <2>2
<1>4. CASE UNCHANGED <<db, lastAccount, wtx, readers>>
  <2>1. \A n \in Accounts : Len(Image'[n]) = Len(Image[n])
    BY <1>4 DEF Image
  <2> QED
    BY <1>4, <2>1, SameLengths DEF LengthsRight
<1>5. CASE NotifyBegin
  <2>1. /\ wtx.owner = "none" /\ UNCHANGED <<db, lastAccount, readers>>
        /\ wtx' = wtx \/ wtx' = [NoTx EXCEPT !.owner = "notify", !.img = db]
    BY <1>5 DEF NotifyBegin, MayWrite
  <2>2. Image = db /\ Image' = db /\ wtx'.owner \in {"none", "notify"}
    BY <2>1, NoneOpen DEF Image, NoTx
  <2> QED
    BY <2>1, <2>2, SameLengths
<1>6. CASE Mesh \/ UNCHANGED vars
  BY <1>4, <1>6 DEF Mesh, Broadcast, Confirm, Deposit, vars
<1>7. CASE \/ NotifyStart \/ NotifyFind \/ NotifyCompare \/ NotifyInclusion \/ NotifyGivesUp
           \/ NotifyPut \/ \E tx \in TxIds : NotifyHit(tx)
  BY <1>4, <1>7 DEF NotifyStart, NotifyFind, NotifyCompare, NotifyInclusion, NotifyGivesUp,
                    NotifyPut, NotifyHit
<1>8. ~RpcCommitFails /\ ~Crash
  BY DEF RpcCommitFails, Crash, WritesEnd
<1> QED
  BY <1>1, <1>3, <1>5, <1>6, <1>7, <1>8, ReadingLengths, CreditLengths, EndLengths
     DEF Next, Rpc, Notifying

-----------------------------------------------------------------------------
(* A new bundle is a deposit to an address of the wallet, or a payment from  *)
(* addresses of it to one it has just made.                                  *)
LEMMA PaymentKnown ==
    ASSUME Types, LengthsRight, wtx.owner = "none", NEW n \in Accounts, NEW v \in Int,
           NEW bals \in Seq(Balance), Len(bals) = Len(db[n]), Pay(n, bals, v)
    PROVE  /\ \A b \in DOMAIN bundles', a \in Addresses :
                 bundles'[b].entries[a] # 0 =>
                    \/ b \in DOMAIN bundles /\ bundles[b].entries[a] # 0
                    \/ a \in AddressesOf(Image)'
           /\ wtx'.fresh \cap AddressesOf(db) = {}
<1>1. PICK new, entries, after, fresh :
         /\ fresh = {a \in Addresses : entries[a] > 0}
         /\ entries \in [Addresses -> Int] /\ after \in Seq(Balance)
         /\ Len(after) \in Nat /\ Len(bals) <= Len(after)
         /\ \A a \in Addresses : Moved(n, bals, after, a, entries[a])
         /\ DOMAIN bundles' = DOMAIN bundles \cup {new}
         /\ \A b \in DOMAIN bundles : bundles'[b] = bundles[b]
         /\ bundles'[new] = [entries |-> entries, own |-> TRUE, debited |-> FALSE,
                             stage |-> "pow"]
         /\ RpcPut(n, after, fresh, new)
  BY PayShape
<1>2. wtx'.fresh = fresh /\ Image'[n] = after
  <2>1. NoReader /\ Len(db[n]) <= Len(after)
    BY <1>1 DEF Pay
  <2>2. Image'[n] = after
    BY <1>1, <2>1, PutLengths
  <2> QED
    BY <1>1, <2>2 DEF RpcPut
<1>3. Len(bals) \in Nat
  BY LenProperties
<1>4. ASSUME NEW a \in Addresses, NEW e, e = entries[a], e # 0
      PROVE  /\ a[1] = n /\ a[2] <= Len(after)
             /\ e > 0 => ~(a[2] <= Len(bals))
  <2>1. a[2] \in Nat /\ Moved(n, bals, after, a, e) /\ e \in Int
    BY <1>1, <1>4, AccountOf DEF Moved
  <2>2. a[1] = n
    BY <1>4, <2>1 DEF Moved
  <2>3. CASE a[2] <= Len(bals)
    BY <1>1, <1>3, <2>1, <2>2, <2>3 DEF Moved
  <2>4. CASE a[2] > Len(bals)
    BY <1>3, <1>4, <2>1, <2>2, <2>4 DEF Moved
  <2> QED
    BY <1>3, <2>1, <2>3, <2>4
<1>5. \A b \in DOMAIN bundles', a \in Addresses :
         bundles'[b].entries[a] # 0 =>
            \/ b \in DOMAIN bundles /\ bundles[b].entries[a] # 0
            \/ a \in AddressesOf(Image)'
  <2>1. \A a \in Addresses : entries[a] # 0 => a \in AddressesOf(Image)'
    BY <1>2, <1>4 DEF AddressesOf
  <2> QED
    BY <1>1, <2>1
<1>6. \A a \in Addresses : entries[a] > 0 => a \notin AddressesOf(db)
  BY <1>1, <1>4 DEF AddressesOf
<1> QED
  BY <1>1, <1>2, <1>5, <1>6

LEMMA DepositKnown ==
    ASSUME Types, LengthsRight, NEW c \in Addresses, NEW v \in Deposits,
           Deposit(c, v)
    PROVE  \A b \in DOMAIN bundles', a \in Addresses :
              bundles'[b].entries[a] # 0 =>
                 \/ b \in DOMAIN bundles /\ bundles[b].entries[a] # 0
                 \/ a \in AddressesOf(Image)'
<1>1. UNCHANGED <<db, wtx>> /\ c \in AddressesOf(db)
  BY DepositKeeps
<1>2. PICK new : /\ DOMAIN bundles' = DOMAIN bundles \cup {new}
                 /\ \A b \in DOMAIN bundles : bundles'[b] = bundles[b]
                 /\ \A x \in Addresses : bundles'[new].entries[x] # 0 => x = c
  BY DepositKeeps
<1>3. c[1] \in Accounts /\ c[2] \in Nat /\ c[2] <= Len(db[c[1]])
  BY <1>1, AccountOf DEF AddressesOf
<1>4. Len(db[c[1]]) <= Len(Image[c[1]]) /\ Len(db[c[1]]) \in Nat /\ Len(Image[c[1]]) \in Nat
  BY <1>3, ImageType DEF LengthsRight
<1>5. c \in AddressesOf(Image)'
  BY <1>1, <1>3, <1>4 DEF AddressesOf, Image
<1> QED
  BY <1>2, <1>5
(* The rest adds nothing to any bundle.                                      *)
LEMMA OthersKnown ==
    ASSUME IInv, Types, \/ \E n \in Accounts : GetNewAddress(n)
                        \/ RpcCommit \/ RpcCommitFails
                        \/ \E b \in DOMAIN bundles : Broadcast(b) \/ Confirm(b)
                        \/ Reading \/ Notifying \/ Crash \/ Refresh \/ UNCHANGED vars
    PROVE  \A b \in DOMAIN bundles', a \in Addresses :
              bundles'[b].entries[a] # 0 => b \in DOMAIN bundles /\ bundles[b].entries[a] # 0
<1>1. DOMAIN bundles' = DOMAIN bundles
  BY DEF GetNewAddress, RpcCommit, RpcCommitFails, Broadcast, Confirm, Reading, ReaderBegin,
         ReaderMiss, ReaderFill, ReaderEnd, Notifying, NotifyStart, NotifyFind, NotifyCompare,
         NotifyInclusion, NotifyGivesUp, NotifyPut, NotifyBegin, NotifyCreditMiss, NotifyHit,
         NotifyCreditHit, NotifyCommit, NotifyRollback, NotifyPanics, Crash, Restart, Refresh,
         vars
<1>2. \A b \in DOMAIN bundles : bundles'[b].entries = bundles[b].entries
  <2>1. CASE OtherStep \/ Refresh
    BY <2>1, OtherStepsForget, RefreshGrows DEF BundlesGrow
  <2>2. OtherStep \/ Refresh \/ UNCHANGED bundles
    BY DEF OtherStep, Rpc, Mesh, Notifying, NotifyStart, NotifyFind, NotifyCompare,
           NotifyInclusion, NotifyPut, NotifyBegin, NotifyCreditMiss, NotifyHit,
           NotifyCreditHit, NotifyCommit, vars
  <2> QED
    BY <2>1, <2>2
<1> QED
  BY <1>1, <1>2

LEMMA PositionsStep ==
    ASSUME WritesEnd, IInv, Types, Types', Positions, [Next]_vars
    PROVE  Positions'
<1>1. LengthsRight' /\ \A n \in Accounts : Len(Image[n]) <= Len(Image'[n])
  BY LengthsStep DEF Positions
<1>2. AddressesOf(Image) \subseteq AddressesOf(Image)'
  BY <1>1, Grown
<1>3. ASSUME NEW n \in Accounts, NEW v \in Payments, SendFrom(n, v) \/ SendToAddress(n, v)
      PROVE  \A b \in DOMAIN bundles', a \in Addresses :
                bundles'[b].entries[a] # 0 =>
                   \/ b \in DOMAIN bundles /\ bundles[b].entries[a] # 0
                   \/ a \in AddressesOf(Image)'
  <2>1. wtx.owner = "none"
    BY <1>3 DEF SendFrom, SendToAddress, Pay, MayWrite
  <2>2. PICK bals \in Seq(Balance) : Pay(n, bals, v) /\ Len(bals) = Len(db[n])
    BY <1>3, <2>1, LengthFound, ImageType DEF SendFrom, SendToAddress, Positions
  <2>3. v \in Int
    OBVIOUS
  <2> QED
    BY <2>1, <2>2, <2>3, PaymentKnown DEF Positions
<1>4. \A b \in DOMAIN bundles', a \in Addresses :
         bundles'[b].entries[a] # 0 =>
            \/ b \in DOMAIN bundles /\ bundles[b].entries[a] # 0
            \/ a \in AddressesOf(Image)'
  BY <1>3, DepositKnown, OthersKnown DEF Next, Rpc, Mesh, Positions
<1> QED
  BY <1>1, <1>2, <1>4 DEF Positions, EntriesKnown, EntryAt

LEMMA AlwaysPositions ==
    ASSUME WritesEnd PROVE Spec => [](IInv /\ Types /\ Positions)
<1>1. Init => IInv /\ Types /\ Positions
  <2> SUFFICES ASSUME Init PROVE IInv /\ Types /\ Positions
    OBVIOUS
  <2>1. IInv /\ Types
    BY InitIInv, InitTypes
  <2>2. /\ wtx = NoTx /\ lastAccount.name = 0 /\ bundles = <<>>
        /\ \A r \in Readers : readers[r].pc = "idle"
    BY DEF Init, NoCache, Absent
  <2>3. wtx.owner = "none" /\ Image = db /\ \A n \in Accounts : Len(db[n]) \in Nat
    BY <2>1, <2>2, NoneOpen, ImageType DEF NoTx
  <2> QED
    BY <2>1, <2>2, <2>3 DEF Positions, LengthsRight, EntriesKnown
<1>2. IInv /\ Types /\ Positions /\ [Next]_vars => (IInv /\ Types /\ Positions)'
  BY NextIInv, NextTypes, PositionsStep
<1> QED
  BY <1>1, <1>2, PTL DEF Spec

(* No address is made twice, and none that the mesh has seen: what a handler *)
(* gives to a caller or puts a remainder on was never part of anything, even *)
(* when the cache it starts from is stale.                                   *)
THEOREM AddressesAreFresh == ASSUME WritesEnd PROVE Spec => FreshAddresses
<1>1. ASSUME IInv, Types, Types', Positions, [Next]_vars, wtx.owner = "none"
      PROVE  wtx'.fresh \cap UsedAddresses = {}
  <2>1. wtx = NoTx /\ Image = db
    BY <1>1, NoneOpen
  <2>2. UsedAddresses \subseteq AddressesOf(db)
    BY <1>1, <2>1 DEF Positions, EntriesKnown, UsedAddresses
  <2>3. CASE wtx'.fresh = {}
    BY <2>3
  <2>4. ASSUME NEW n \in Accounts, GetNewAddress(n) PROVE wtx'.fresh \cap UsedAddresses = {}
    <3>1. Len(GetAccount(db, n)) = Len(db[n]) /\ Len(db[n]) \in Nat
      BY <1>1, LengthFound DEF Positions
    <3>2. wtx'.fresh = {<<n, Len(db[n]) + 1>>}
      BY <2>4, <3>1 DEF GetNewAddress, RpcPut, NextIndex
    <3>3. <<n, Len(db[n]) + 1>> \notin AddressesOf(db)
      BY <3>1 DEF AddressesOf
    <3> QED
      BY <2>2, <3>2, <3>3
  <2>5. ASSUME NEW n \in Accounts, NEW v \in Payments, SendFrom(n, v) \/ SendToAddress(n, v)
        PROVE  wtx'.fresh \cap UsedAddresses = {}
    <3>1. v \in Int
      OBVIOUS
    <3>2. PICK bals \in Seq(Balance) : Pay(n, bals, v) /\ Len(bals) = Len(db[n])
      BY <1>1, <2>5, LengthFound, ImageType DEF SendFrom, SendToAddress, Positions
    <3>3. wtx'.fresh \cap AddressesOf(db) = {}
      BY <1>1, <3>1, <3>2, PaymentKnown DEF Positions
    <3> QED
      BY <2>2, <3>3
  <2>6. wtx' = wtx \/ wtx' = NoTx => wtx'.fresh = {}
    BY <2>1 DEF NoTx
  <2>7. Rpc => \/ \E n \in Accounts : GetNewAddress(n)
               \/ \E n \in Accounts, v \in Payments : SendFrom(n, v) \/ SendToAddress(n, v)
               \/ wtx' = NoTx
    BY DEF Rpc, RpcCommit, RpcCommitFails
  <2>8. Mesh \/ Reading \/ Crash \/ Refresh \/ UNCHANGED vars => wtx' = wtx \/ wtx' = NoTx
    BY DEF Mesh, Broadcast, Confirm, Deposit, Reading, ReaderBegin, ReaderMiss, ReaderFill,
           ReaderEnd, Crash, Restart, Refresh, vars
  <2>9. Notifying => wtx'.fresh = {}
    <3>1. notify.pc \notin {"credit", "hit"}
      BY <1>1 DEF Types, OwnerIsRight
    <3>2. NotifyBegin => wtx'.fresh = {}
      BY <2>6 DEF NotifyBegin, NoTx
    <3>3. Notifying => NotifyBegin \/ wtx' = wtx
      BY <3>1 DEF Notifying, NotifyStart, NotifyFind, NotifyCompare, NotifyInclusion,
                  NotifyGivesUp, NotifyPut, NotifyCreditMiss, NotifyHit, NotifyCreditHit,
                  NotifyCommit, NotifyRollback, NotifyPanics
    <3> QED
      BY <2>6, <3>2, <3>3
  <2> QED
    BY <1>1, <2>3, <2>4, <2>5, <2>6, <2>7, <2>8, <2>9 DEF Next
<1>2. IInv /\ Types /\ Positions /\ (IInv /\ Types /\ Positions)' /\ [Next]_vars
         => [wtx.owner = "none" => wtx'.fresh \cap UsedAddresses = {}]_vars
  BY <1>1
<1> QED
  BY <1>2, AlwaysPositions, PTL DEF Spec, FreshAddresses

-----------------------------------------------------------------------------
(* Solvency.  What fails may leave a balance too low, when a payment was not *)
(* sent or an entry not credited, but none too high: each copy of an account *)
(* says at most what is recorded as confirmed, entries still to be credited  *)
(* aside, less the payments that the copy may not have heard of taking back. *)
Awaited == IF notify.pc = "begin" THEN notify.newly
           ELSE IF notify.pc \in {"credit", "hit"} THEN notify.todo ELSE {}

Settled == {tx \in hashes.confirmed \ Awaited : EntryAt(tx[1], tx[2]) > 0}

Backed(bals, n, bs, C, D) ==
    \A a \in Addresses : a[1] = n /\ a[2] <= Len(bals) => bals[a[2]].value <= Due(bs, C, D, a)

DatabaseBacked == \A n \in Accounts : Backed(db[n], n, bundles, Settled, Debited)
ImageBacked == \A n \in Accounts : Backed(Image[n], n, bundles, Settled, DebitedInImage)
CacheBacked ==
    lastAccount.name # 0 =>
        Backed(lastAccount.bals, lastAccount.name, bundles, Settled, DebitedInImage)

(* The payments made take from an address no more than it was paid.          *)
PaymentsCovered == \A a \in Addresses : Due(bundles, Settled, DebitedInImage, a) >= 0

Solvent == DatabaseBacked /\ ImageBacked /\ CacheBacked /\ PaymentsCovered

LEMMA SettledIs ==
    ASSUME IInv, Types, NEW tx \in Settled
    PROVE  /\ tx \in TxIds /\ tx[1] \in DOMAIN bundles /\ Confirmed(tx[1])
           /\ EntryAt(tx[1], tx[2]) > 0
<1>1. tx \in hashes.confirmed /\ EntryAt(tx[1], tx[2]) > 0
  BY DEF Settled
<1>2. tx \in txDB /\ Confirmed(tx[1])
  BY <1>1 DEF IInv, HashesStored, Witnessed
<1> QED
  BY <1>1, <1>2, CreditedIsEntry

LEMMA SettledGrows ==
    ASSUME IInv, Types, Kept, hashes.confirmed \subseteq hashes'.confirmed,
           \A tx \in Awaited' : tx \in Awaited \/ tx \notin hashes.confirmed
    PROVE  Settled \subseteq Settled'
<1> SUFFICES ASSUME NEW tx \in Settled PROVE tx \in Settled'
  OBVIOUS
<1>1. tx \in hashes.confirmed /\ tx \notin Awaited /\ EntryAt(tx[1], tx[2]) > 0
  BY DEF Settled
<1>2. EntryAt(tx[1], tx[2])' = EntryAt(tx[1], tx[2])
  BY SettledIs DEF Kept, EntryAt
<1>3. tx \in hashes'.confirmed /\ tx \notin Awaited' /\ EntryAt(tx[1], tx[2])' > 0
  BY <1>1, <1>2
<1> QED
  BY <1>3 DEF Settled

LEMMA SettledSame ==
    ASSUME IInv, Types, Kept, UNCHANGED <<hashes, notify>>
    PROVE  Settled' = Settled
<1>1. Awaited' = Awaited
  BY DEF Awaited
<1>2. \A tx \in hashes.confirmed : tx \in txDB
  BY DEF IInv, HashesStored
<1>3. \A tx \in hashes.confirmed : EntryAt(tx[1], tx[2])' = EntryAt(tx[1], tx[2])
  BY <1>2, CreditedIsEntry DEF Kept, EntryAt
<1> QED
  BY <1>1, <1>3 DEF Settled

(* More that is settled and fewer payments leave no less.                    *)
LEMMA DueGrows ==
    ASSUME IInv, Types, Types', Kept, Settled \subseteq Settled',
           NEW a \in Addresses, NEW D \in SUBSET DOMAIN bundles, NEW E \in SUBSET D
    PROVE  /\ Due(bundles, Settled, D, a) <= Due(bundles', Settled', E, a)
           /\ Due(bundles, Settled, D, a) \in Int
           /\ Due(bundles', Settled', E, a) \in Int
<1>1. bundles \in Seq(Bundle) /\ bundles' \in Seq(Bundle)
  BY DEF Types, BundlesType
<1>2. PICK C, F : C = Settled /\ F = Settled'
  OBVIOUS
<1>3. Due(bundles', C, D, a) = Due(bundles, C, D, a)
  <2>1. \A tx \in C : tx[1] \in DOMAIN bundles
    BY <1>2, SettledIs
  <2> QED
    BY <2>1, DueKept
<1>4. ASSUME NEW b \in DOMAIN bundles'
      PROVE  Share(bundles', C, D, a, b) <= Share(bundles', F, E, a, b)
  <2>1. bundles'[b].entries[a] \in Int
    BY <1>1, ShareType
  <2>2. <<b, a>> \in F => bundles'[b].entries[a] > 0
    BY <1>2 DEF Settled, EntryAt
  <2>3. /\ <<b, a>> \in C => <<b, a>> \in F
        /\ b \in E => b \in D
    BY <1>2
  <2> QED
    BY <2>1, <2>2, <2>3 DEF Share
<1>5. Due(bundles', C, D, a) <= Due(bundles', F, E, a)
  BY <1>1, <1>4, DueLess
<1>6. Due(bundles, C, D, a) \in Int /\ Due(bundles', F, E, a) \in Int
  BY <1>1, DueType
<1> QED
  BY <1>2, <1>3, <1>5, <1>6

LEMMA BackedGrows ==
    ASSUME IInv, Types, Types', Kept, Settled \subseteq Settled',
           NEW D \in SUBSET DOMAIN bundles, NEW E \in SUBSET D,
           NEW n, NEW bals \in Seq(Balance), Backed(bals, n, bundles, Settled, D)
    PROVE  Backed(bals, n, bundles', Settled', E)
<1> SUFFICES ASSUME NEW a \in Addresses, a[1] = n, a[2] <= Len(bals)
             PROVE  bals[a[2]].value <= Due(bundles', Settled', E, a)
  BY DEF Backed
<1>1. bals[a[2]].value <= Due(bundles, Settled, D, a)
  BY DEF Backed
<1>2. bals[a[2]].value \in Int
  <2>1. a[2] \in 1..Len(bals)
    BY AccountOf, LenProperties
  <2> QED
    BY <2>1, ValuesAreInts
<1>3. /\ Due(bundles, Settled, D, a) <= Due(bundles', Settled', E, a)
      /\ Due(bundles, Settled, D, a) \in Int
      /\ Due(bundles', Settled', E, a) \in Int
  BY DueGrows
<1> QED
  BY <1>1, <1>2, <1>3

LEMMA DebitedTypes ==
    /\ Debited \in SUBSET DOMAIN bundles /\ Debited \in SUBSET DebitedInImage
    /\ DebitedInImage \in SUBSET DOMAIN bundles
  BY DEF Debited, DebitedInImage

(* No copy of an account gets more than another has, or they all forget.     *)
LEMMA SolventKept ==
    ASSUME IInv, Types, Types', Solvent, Kept, Settled \subseteq Settled',
           DebitedInImage' \in SUBSET DebitedInImage,
           \/ db' = db /\ Debited' \in SUBSET Debited
           \/ db' = Image /\ Debited' \in SUBSET DebitedInImage,
           Image' = Image \/ (Image' = db' /\ DebitedInImage' = Debited'),
           lastAccount' = lastAccount \/ lastAccount' = NoCache
    PROVE  Solvent'
<1>1. \A n \in Accounts : db[n] \in Seq(Balance) /\ Image[n] \in Seq(Balance)
  BY ImageType
<1>2. DatabaseBacked'
  <2> SUFFICES ASSUME NEW n \in Accounts
               PROVE  Backed(db'[n], n, bundles', Settled', Debited')
    BY DEF DatabaseBacked
  <2>1. CASE db' = db /\ Debited' \in SUBSET Debited
    <3>1. Backed(db[n], n, bundles, Settled, Debited) /\ db[n] \in Seq(Balance)
      BY <1>1 DEF Solvent, DatabaseBacked
    <3> QED
      BY <2>1, <3>1, DebitedTypes, BackedGrows
  <2>2. CASE db' = Image /\ Debited' \in SUBSET DebitedInImage
    <3>1. Backed(Image[n], n, bundles, Settled, DebitedInImage) /\ Image[n] \in Seq(Balance)
      BY <1>1 DEF Solvent, ImageBacked
    <3> QED
      BY <2>2, <3>1, DebitedTypes, BackedGrows
  <2> QED
    BY <2>1, <2>2
<1>3. ImageBacked'
  <2> SUFFICES ASSUME NEW n \in Accounts
               PROVE  Backed(Image'[n], n, bundles', Settled', DebitedInImage')
    BY DEF ImageBacked
  <2>1. CASE Image' = Image
    <3>1. Backed(Image[n], n, bundles, Settled, DebitedInImage) /\ Image[n] \in Seq(Balance)
      BY <1>1 DEF Solvent, ImageBacked
    <3> QED
      BY <2>1, <3>1, DebitedTypes, BackedGrows
  <2>2. CASE Image' = db' /\ DebitedInImage' = Debited'
    BY <1>2, <2>2 DEF DatabaseBacked
  <2> QED
    BY <2>1, <2>2
<1>4. CacheBacked'
  <2>1. CASE lastAccount' = lastAccount /\ lastAccount.name # 0
    <3>1. lastAccount.bals \in Seq(Balance)
      BY <2>1 DEF Types, CacheType, NoCache
    <3>2. Backed(lastAccount.bals, lastAccount.name, bundles, Settled, DebitedInImage)
      BY <2>1 DEF Solvent, CacheBacked
    <3> QED
      BY <2>1, <3>1, <3>2, DebitedTypes, BackedGrows DEF CacheBacked
  <2>2. CASE lastAccount' = lastAccount /\ lastAccount.name = 0
    BY <2>2 DEF CacheBacked
  <2>3. CASE lastAccount' = NoCache
    BY <2>3 DEF CacheBacked, NoCache
  <2> QED
    BY <2>1, <2>2, <2>3
<1>5. PaymentsCovered'
  <2> SUFFICES ASSUME NEW a \in Addresses
               PROVE  Due(bundles', Settled', DebitedInImage', a) >= 0
    BY DEF PaymentsCovered
  <2>1. Due(bundles, Settled, DebitedInImage, a) >= 0
    BY DEF Solvent, PaymentsCovered
  <2>2. /\ Due(bundles, Settled, DebitedInImage, a) <= Due(bundles', Settled', DebitedInImage', a)
        /\ Due(bundles, Settled, DebitedInImage, a) \in Int
        /\ Due(bundles', Settled', DebitedInImage', a) \in Int
    BY DebitedTypes, DueGrows
  <2> QED
    BY <2>1, <2>2
<1> QED
  BY <1>2, <1>3, <1>4, <1>5 DEF Solvent

(* The steps that make no payment and credit nothing.                        *)
LEMMA QuietSolvent ==
    ASSUME IInv, Types, Types', Solvent, UNCHANGED <<db, lastAccount, wtx, bundles>>,
           Settled \subseteq Settled'
    PROVE  Solvent'
<1>1. /\ Kept /\ Image' = Image /\ Debited' = Debited /\ DebitedInImage' = DebitedInImage
  BY DEF Kept, Image, Debited, DebitedInImage
<1> QED
  BY <1>1, SolventKept

LEMMA RoundSolvent ==
    ASSUME IInv, Types, Types', Solvent,
           \/ NotifyStart \/ NotifyFind \/ NotifyCompare \/ NotifyInclusion
           \/ NotifyGivesUp \/ NotifyPut \/ \E tx \in TxIds : NotifyHit(tx)
    PROVE  Solvent'
<1>1. NotifyType
  BY DEF IInv, ControlTypeOK
<1>2. UNCHANGED <<db, lastAccount, wtx, bundles>> /\ Kept
  BY DEF NotifyStart, NotifyFind, NotifyCompare, NotifyInclusion, NotifyGivesUp, NotifyPut,
         NotifyHit, Kept
<1>3. CASE NotifyStart \/ NotifyFind \/ NotifyCompare \/ NotifyInclusion \/ NotifyGivesUp
  <2>1. hashes' = hashes
    BY <1>3 DEF NotifyStart, NotifyFind, NotifyCompare, NotifyInclusion, NotifyGivesUp
  <2>2. notify'.pc \notin {"begin", "credit", "hit"}
    <3>1. CASE NotifyFind
      <4>1. PICK F : notify' = Idle \/ notify' = [Idle EXCEPT !.pc = "compare", !.found = F]
        BY <3>1 DEF NotifyFind
      <4>2. CASE notify' = Idle
        BY <4>2 DEF Idle
      <4>3. CASE notify' = [Idle EXCEPT !.pc = "compare", !.found = F]
        BY <4>3 DEF Idle
      <4> QED
        BY <4>1, <4>2, <4>3
    <3>2. CASE NotifyStart
      BY <3>2 DEF NotifyStart, Idle
    <3>3. CASE NotifyCompare
      BY <3>3 DEF NotifyCompare, Idle
    <3>4. CASE NotifyInclusion
      BY <1>1, <3>4 DEF NotifyInclusion, NotifyType
    <3>5. CASE NotifyGivesUp
      BY <3>5 DEF NotifyGivesUp, Idle
    <3> QED
      BY <1>3, <3>1, <3>2, <3>3, <3>4, <3>5
  <2>3. Awaited' = {}
    BY <2>2 DEF Awaited
  <2> QED
    BY <1>2, <2>1, <2>3, SettledGrows, QuietSolvent
<1>4. CASE NotifyPut
  <2>1. /\ notify.pc = "put" /\ hashes'.confirmed = notify.conf \cup notify.newly
        /\ notify'.pc = "begin" /\ notify'.newly = notify.newly
    BY <1>1, <1>4 DEF NotifyPut, StatesAfter, NotifyType
  <2>2. notify.conf = hashes.confirmed /\ notify.newly \cap hashes.confirmed = {}
    BY <2>1 DEF IInv, CopyIsRight, NewlyIsRight
  <2>3. Awaited' = notify.newly
    BY <2>1 DEF Awaited
  <2> QED
    BY <1>2, <2>1, <2>2, <2>3, SettledGrows, QuietSolvent
<1>5. ASSUME NEW tx \in TxIds, NotifyHit(tx) PROVE Solvent'
  <2>1. /\ notify.pc = "credit" /\ notify'.pc = "hit" /\ notify'.todo = notify.todo
        /\ hashes' = hashes
    BY <1>1, <1>5 DEF NotifyHit, NotifyType
  <2>2. Awaited' = Awaited
    BY <2>1 DEF Awaited
  <2> QED
    BY <1>2, <2>1, <2>2, SettledGrows, QuietSolvent
<1> QED
  BY <1>3, <1>4, <1>5

LEMMA MeshSolvent ==
    ASSUME IInv, Types, Types', OpenIsRight, Solvent, Mesh
    PROVE  Solvent'
<1>1. /\ UNCHANGED <<db, hashes, lastAccount, wtx, notify>> /\ Kept
      /\ Debited' = Debited /\ DebitedInImage' = DebitedInImage
  BY StageKeeps, DepositKeeps DEF Mesh
<1>2. Settled' = Settled /\ Image' = Image
  BY <1>1, SettledSame DEF Image
<1> QED
  BY <1>1, <1>2, SolventKept

(* Transactions begin, end, or are given up.                                 *)
LEMMA BeginSolvent ==
    ASSUME IInv, Types, Types', Solvent, NotifyBegin
    PROVE  Solvent'
<1>1. /\ notify.pc = "begin" /\ wtx.owner = "none" /\ NotifyType
      /\ UNCHANGED <<db, hashes, lastAccount, bundles>> /\ Kept
      /\ \/ notify' = Idle /\ UNCHANGED wtx
         \/ /\ notify' = [notify EXCEPT !.pc = "credit", !.todo = ToCredit]
            /\ wtx' = [NoTx EXCEPT !.owner = "notify", !.img = db]
  BY DEF NotifyBegin, MayWrite, IInv, ControlTypeOK, Kept
<1>2. Awaited' \subseteq Awaited
  <2>1. CASE notify' = Idle
    BY <2>1 DEF Awaited, Idle
  <2>2. CASE notify' = [notify EXCEPT !.pc = "credit", !.todo = ToCredit]
    <3>1. notify'.pc = "credit" /\ notify'.todo = notify.newly
      BY <1>1, <2>2 DEF NotifyType, ToCredit
    <3> QED
      BY <1>1, <3>1 DEF Awaited
  <2> QED
    BY <1>1, <2>1, <2>2
<1>3. Settled \subseteq Settled'
  BY <1>1, <1>2, SettledGrows
<1>4. wtx.bundle = 0 /\ Image = db /\ wtx'.bundle = 0 /\ Image' = db
  BY <1>1, NoneOpen DEF Image, NoTx
<1>5. Debited' = Debited /\ DebitedInImage' = DebitedInImage
  BY <1>1, <1>4 DEF Debited, DebitedInImage
<1> QED
  BY <1>1, <1>3, <1>4, <1>5, SolventKept

LEMMA EndSolvent ==
    ASSUME IInv, Types, Types', OpenIsRight, Solvent,
           \/ RpcCommit \/ RpcCommitFails \/ NotifyCommit \/ NotifyRollback \/ Restart
    PROVE  Solvent'
<1>1. /\ wtx' = NoTx /\ UNCHANGED hashes
      /\ lastAccount' = lastAccount \/ lastAccount' = NoCache
      /\ notify' = notify \/ notify' = Idle
  BY DEF RpcCommit, RpcCommitFails, NotifyCommit, NotifyRollback, Restart
<1>2. Image' = db' /\ DebitedInImage' = Debited'
  BY <1>1, NoneLeftOpen
<1>3. /\ Kept
      /\ \/ db' = db /\ Debited' = Debited
         \/ db' = Image /\ Debited' = DebitedInImage
  <2>1. CASE RpcCommit
    BY <2>1, RpcCommitKeeps
  <2>2. CASE RpcCommitFails \/ NotifyRollback
    BY <2>2 DEF RpcCommitFails, NotifyRollback, Kept, Debited
  <2>3. CASE NotifyCommit
    <3>1. /\ notify.pc = "credit" /\ db' = wtx.img /\ UNCHANGED bundles
      BY <2>3 DEF NotifyCommit
    <3>2. wtx.owner = "notify" /\ db' = Image /\ wtx.bundle = 0
      BY <3>1 DEF Types, OwnerIsRight, Image, OpenIsRight
    <3> QED
      BY <3>1, <3>2, BundlesAre DEF Kept, Debited, DebitedInImage
  <2>4. CASE Restart
    BY <2>4, RestartKeeps
  <2> QED
    BY <2>1, <2>2, <2>3, <2>4
<1>4. Settled \subseteq Settled'
  <2>1. Awaited' \subseteq Awaited
    BY <1>1 DEF Awaited, Idle
  <2> QED
    BY <1>1, <1>3, <2>1, SettledGrows
<1> QED
  BY <1>1, <1>2, <1>3, <1>4, DebitedTypes, SolventKept

LEMMA RefreshSolvent ==
    ASSUME IInv, Types, Types', Refresh
    PROVE  Solvent'
<1>1. /\ lastAccount' = NoCache /\ wtx' = NoTx /\ hashes'.confirmed = {} /\ Debited' = {}
      /\ \A n \in Accounts :
            /\ Len(db'[n]) = Len(db[n])
            /\ \A k \in 1..Len(db[n]) : db'[n][k].value = 0
  BY RefreshKeeps
<1>2. Image' = db' /\ DebitedInImage' = {} /\ Settled' = {}
  BY <1>1, NoneLeftOpen DEF Settled
<1>3. ASSUME NEW a \in Addresses PROVE Due(bundles', {}, {}, a) = 0
  <2>1. \A b \in DOMAIN bundles' : Share(bundles', {}, {}, a, b) = 0
    BY DEF Share
  <2>2. bundles' \in Seq(Bundle)
    BY DEF Types, BundlesType
  <2> QED
    BY <2>1, <2>2, DueNothing
<1>4. ASSUME NEW n \in Accounts PROVE Backed(db'[n], n, bundles', {}, {})
  <2> SUFFICES ASSUME NEW a \in Addresses, a[1] = n, a[2] <= Len(db'[n])
               PROVE  db'[n][a[2]].value <= Due(bundles', {}, {}, a)
    BY DEF Backed
  <2>1. a[2] \in 1..Len(db[n])
    BY <1>1, AccountOf, ImageType
  <2>2. db'[n][a[2]].value = 0
    BY <1>1, <2>1
  <2> QED
    BY <1>3, <2>2
<1>5. CacheBacked' /\ PaymentsCovered'
  BY <1>1, <1>2, <1>3 DEF CacheBacked, PaymentsCovered, NoCache
<1> QED
  BY <1>1, <1>2, <1>4, <1>5 DEF Solvent, DatabaseBacked, ImageBacked
(* The account that Walletnotify credits is the one of the entry: nobody     *)
(* reads, so the cache is still what it was when the address was found.      *)
LEMMA CreditSolvent ==
    ASSUME IInv, Types, Types', OpenIsRight, Solvent, NEW tx \in TxIds,
           NotifyCreditMiss(tx) \/ NotifyCreditHit(tx)
    PROVE  Solvent'
<1>1. PICK n \in Accounts, bals \in Seq(Balance) :
         /\ CreditTo(n, bals, tx)
         /\ notify.pc \in {"credit", "hit"}
         /\ tx \in notify.newly /\ tx \in txDB /\ tx[1] \in DOMAIN bundles
         /\ \/ NotifyCreditMiss(tx) /\ n = tx[2][1] /\ bals = Image[n]
            \/ /\ NotifyCreditHit(tx)
               /\ n = lastAccount.name /\ bals = lastAccount.bals
         /\ UNCHANGED <<db, hashes, txDB, bundles, readers, credits>>
  BY CreditsOne
<1>2. /\ tx[2][1] = n /\ tx \in notify.todo
      /\ Backed(bals, n, bundles, Settled, DebitedInImage)
  <2>1. CASE NotifyCreditMiss(tx) /\ n = tx[2][1] /\ bals = Image[n]
    BY <2>1 DEF NotifyCreditMiss, Solvent, ImageBacked
  <2>2. CASE NotifyCreditHit(tx) /\ n = lastAccount.name /\ bals = lastAccount.bals
    <3>1. tx \in notify.todo /\ Cached(tx[2])
      BY <2>2 DEF NotifyCreditHit, OpenIsRight
    <3> QED
      BY <2>2, <3>1 DEF Cached, Accounts, Solvent, CacheBacked
  <2> QED
    BY <1>1, <2>1, <2>2
<1>3. PICK after \in Seq(Balance), e \in Int :
         /\ e = EntryAt(tx[1], tx[2]) /\ Len(after) = Len(bals)
         /\ \A i \in 1..Len(bals) : after[i] =
               IF i = tx[2][2] THEN [value |-> bals[i].value + e, change |-> 0] ELSE bals[i]
         /\ lastAccount' = [name |-> n, bals |-> after]
         /\ wtx'.bundle = wtx.bundle
         /\ Image \in Database /\ Image' = [Image EXCEPT ![n] = after]
         /\ notify'.pc = "credit" /\ notify'.todo = notify.todo \ {tx}
  BY <1>1, CreditShape
<1>4. /\ Kept /\ Debited' = Debited /\ DebitedInImage' = DebitedInImage
  BY <1>1, <1>3 DEF Kept, Debited, DebitedInImage
<1>5. /\ tx \in hashes.confirmed /\ tx \in TxIds
      /\ tx = <<tx[1], tx[2]>> /\ tx[2] = <<n, tx[2][2]>>
      /\ tx[2] \in Addresses /\ tx[2][2] \in Nat
  BY <1>1, <1>2, CreditedIsEntry DEF IInv, NewlyIsRight
<1>6. /\ tx \notin Settled
      /\ Settled' = IF e > 0 THEN Settled \cup {tx} ELSE Settled
  <2>1. Awaited = notify.todo /\ Awaited' = notify.todo \ {tx}
    BY <1>1, <1>3 DEF Awaited
  <2>2. UNCHANGED <<hashes, bundles>>
    BY <1>1
  <2>3. tx \notin Settled
    BY <1>2, <2>1 DEF Settled
  <2>4. \A y : y \in Settled' <=> y \in Settled \/ (y = tx /\ e > 0)
    BY <1>2, <1>3, <1>5, <2>1, <2>2 DEF Settled, EntryAt
  <2> QED
    BY <2>3, <2>4
<1>7. Settled \subseteq Settled'
  BY <1>6
<1>8. ASSUME NEW a \in Addresses
      PROVE  /\ Due(bundles, Settled, DebitedInImage, a) \in Int
             /\ Due(bundles', Settled', DebitedInImage, a) \in Int
             /\ Due(bundles, Settled, DebitedInImage, a)
                   <= Due(bundles', Settled', DebitedInImage, a)
             /\ a = tx[2] => Due(bundles, Settled, DebitedInImage, a) + e
                                <= Due(bundles', Settled', DebitedInImage, a)
  <2>1. /\ Due(bundles, Settled, DebitedInImage, a) \in Int
        /\ Due(bundles', Settled', DebitedInImage, a) \in Int
        /\ Due(bundles, Settled, DebitedInImage, a)
              <= Due(bundles', Settled', DebitedInImage, a)
    BY <1>4, <1>7, DebitedTypes, DueGrows
  <2>2. ASSUME a = tx[2], e > 0
        PROVE  Due(bundles, Settled, DebitedInImage, a) + e
                  = Due(bundles', Settled', DebitedInImage, a)
    <3>1. PICK c \in DOMAIN bundles : c = tx[1] /\ tx = <<c, a>>
      BY <1>1, <1>5, <2>2
    <3>2. bundles \in Seq(Bundle) /\ <<c, a>> \notin Settled
      BY <1>6, <3>1, BundlesAre
    <3>3. Due(bundles, Settled \cup {<<c, a>>}, DebitedInImage, a) =
             Due(bundles, Settled, DebitedInImage, a) + bundles[c].entries[a]
      <4>1. PICK x \in Addresses : x = a
        OBVIOUS
      <4>2. Due(bundles, Settled \cup {<<c, a>>}, DebitedInImage, x) =
               Due(bundles, Settled, DebitedInImage, x)
               + IF x = a THEN bundles[c].entries[a] ELSE 0
        BY <3>2, DueCredited
      <4> QED
        BY <4>1, <4>2
    <3>4. bundles[c].entries[a] = e /\ Settled' = Settled \cup {<<c, a>>}
      BY <1>3, <1>6, <2>2, <3>1 DEF EntryAt
    <3> QED
      BY <1>1, <3>3, <3>4
  <2>3. CASE e > 0
    BY <2>1, <2>2, <2>3
  <2>4. CASE ~(e > 0)
    BY <2>1, <2>4
  <2> QED
    BY <2>3, <2>4
<1>9. Backed(after, n, bundles', Settled', DebitedInImage)
  <2> SUFFICES ASSUME NEW a \in Addresses, a[1] = n, a[2] <= Len(after)
               PROVE  after[a[2]].value <= Due(bundles', Settled', DebitedInImage, a)
    BY DEF Backed
  <2>1. /\ a[2] \in 1..Len(bals) /\ a = <<a[1], a[2]>>
        /\ bals[a[2]].value <= Due(bundles, Settled, DebitedInImage, a)
    BY <1>2, <1>3, AccountOf, LenProperties DEF Backed
  <2>2. bals[a[2]].value \in Int
    BY <2>1, ValuesAreInts
  <2>3. CASE a[2] = tx[2][2]
    <3>1. a = tx[2]
      BY <1>5, <2>1, <2>3
    <3>2. PICK k \in 1..Len(bals) : k = a[2]
      BY <2>1
    <3>3. after[k] = [value |-> bals[k].value + e, change |-> 0]
      BY <1>3, <2>3, <3>2
    <3>4. after[a[2]].value = bals[a[2]].value + e
      BY <3>2, <3>3
    <3> QED
      BY <1>8, <2>1, <2>2, <3>1, <3>4
  <2>4. CASE a[2] # tx[2][2]
    <3>1. after[a[2]] = bals[a[2]]
      BY <1>3, <2>1, <2>4
    <3> QED
      BY <1>8, <2>1, <2>2, <3>1
  <2> QED
    BY <2>3, <2>4
<1>10. ASSUME NEW m \in Accounts
       PROVE  /\ Backed(db'[m], m, bundles', Settled', Debited')
              /\ Backed(Image'[m], m, bundles', Settled', DebitedInImage')
  <2>1. /\ db[m] \in Seq(Balance) /\ Image[m] \in Seq(Balance)
        /\ Backed(db[m], m, bundles, Settled, Debited)
        /\ Backed(Image[m], m, bundles, Settled, DebitedInImage)
    BY ImageType DEF Solvent, DatabaseBacked, ImageBacked
  <2>2. Backed(db[m], m, bundles', Settled', Debited)
    BY <1>4, <1>7, <2>1, DebitedTypes, BackedGrows
  <2>3. Backed(Image[m], m, bundles', Settled', DebitedInImage)
    BY <1>4, <1>7, <2>1, DebitedTypes, BackedGrows
  <2>4. Image'[m] = IF m = n THEN after ELSE Image[m]
    BY <1>3 DEF Database
  <2> QED
    BY <1>1, <1>4, <1>9, <2>2, <2>3, <2>4
<1>11. CacheBacked'
  BY <1>3, <1>4, <1>9 DEF CacheBacked
<1>12. PaymentsCovered'
  <2> SUFFICES ASSUME NEW a \in Addresses
               PROVE  Due(bundles', Settled', DebitedInImage', a) >= 0
    BY DEF PaymentsCovered
  <2>1. Due(bundles, Settled, DebitedInImage, a) >= 0
    BY DEF Solvent, PaymentsCovered
  <2> QED
    BY <1>4, <1>8, <2>1
<1> QED
  BY <1>10, <1>11, <1>12 DEF Solvent, DatabaseBacked, ImageBacked

(* A handler that writes: its account is backed in the transaction, and so   *)
(* is every other, if the bundle it pays with, if any, is covered.           *)
LEMMA PutSolvent ==
    ASSUME IInv, Types, Types', Solvent, Kept, wtx.owner = "none",
           NEW n \in Accounts, NEW bals, NEW fresh, NEW b, RpcPut(n, bals, fresh, b),
           Debited' = Debited, NEW D, D = DebitedInImage',
           \A a \in Addresses :
              /\ Due(bundles', Settled, D, a) >= 0
              /\ a[1] # n => Due(bundles', Settled, D, a) = Due(bundles, Settled, Debited, a),
           Backed(bals, n, bundles', Settled, D)
    PROVE  Solvent'
<1>1. /\ wtx' = [owner |-> "rpc", img |-> [db EXCEPT ![n] = bals],
                 fresh |-> fresh, bundle |-> b]
      /\ lastAccount' = CacheAfterPut(n, bals)
      /\ UNCHANGED <<db, hashes, txDB, notify, readers, credits>>
  BY DEF RpcPut
<1>2. Image' = [db EXCEPT ![n] = bals]
  BY <1>1 DEF Image
<1>3. /\ Image = db /\ DebitedInImage = Debited /\ Settled' = Settled
      /\ Image'[n] = bals /\ \A m \in Accounts : m # n => Image'[m] = db[m]
  BY <1>1, <1>2, NoneOpen, SettledSame DEF Types, Database
<1>4. ASSUME NEW m, m # n, NEW bs, Backed(bs, m, bundles, Settled, Debited)
      PROVE  Backed(bs, m, bundles', Settled, D)
  BY <1>4 DEF Backed
<1>5. ImageBacked'
  <2> SUFFICES ASSUME NEW m \in Accounts
               PROVE  Backed(Image'[m], m, bundles', Settled, D)
    BY <1>3 DEF ImageBacked
  <2>1. CASE m = n
    BY <1>3, <2>1
  <2>2. CASE m # n
    BY <1>3, <1>4, <2>2 DEF Solvent, DatabaseBacked
  <2> QED
    BY <2>1, <2>2
<1>6. DatabaseBacked'
  <2> SUFFICES ASSUME NEW m \in Accounts
               PROVE  Backed(db[m], m, bundles', Settled', Debited)
    BY <1>1 DEF DatabaseBacked
  <2>1. db[m] \in Seq(Balance) /\ Backed(db[m], m, bundles, Settled, Debited)
    BY ImageType DEF Solvent, DatabaseBacked
  <2> QED
    BY <1>3, <2>1, DebitedTypes, BackedGrows
<1>7. CacheBacked'
  <2>1. CASE lastAccount.name = n
    BY <1>1, <1>3, <2>1 DEF CacheAfterPut, CacheBacked
  <2>2. CASE lastAccount.name # n
    <3>1. lastAccount' = lastAccount
      BY <1>1, <2>2 DEF CacheAfterPut
    <3> QED
      BY <1>3, <1>4, <2>2, <3>1 DEF Solvent, CacheBacked
  <2> QED
    BY <2>1, <2>2
<1>8. PaymentsCovered'
  BY <1>3 DEF PaymentsCovered
<1> QED
  BY <1>5, <1>6, <1>7, <1>8 DEF Solvent

(* A handler's account is backed, be it the cached one or the database's.    *)
LEMMA FoundBacked ==
    ASSUME Types, Solvent, wtx.owner = "none", NEW n \in Accounts
    PROVE  /\ Backed(GetAccount(db, n), n, bundles, Settled, Debited)
           /\ Backed(db[n], n, bundles, Settled, Debited)
  BY NoneOpen DEF Solvent, CacheBacked, DatabaseBacked, GetAccount, Accounts

LEMMA GetNewAddressSolvent ==
    ASSUME IInv, Types, Types', Solvent, NEW n \in Accounts, GetNewAddress(n)
    PROVE  Solvent'
<1>1. wtx.owner = "none"
  BY DEF GetNewAddress, MayWrite
<1>2. PICK bals \in Seq(Balance) :
         bals = GetAccount(db, n) /\ Backed(bals, n, bundles, Settled, Debited)
  BY <1>1, GetAccountType, FoundBacked
<1>3. PICK after, fresh : /\ after = Append(bals, EmptyBalance(0))
                          /\ RpcPut(n, after, fresh, 0) /\ UNCHANGED bundles
  BY <1>2 DEF GetNewAddress
<1>4. /\ after \in Seq(Balance) /\ Len(bals) \in Nat /\ Len(after) = Len(bals) + 1
      /\ after[Len(bals) + 1].value = 0
      /\ \A k \in 1..Len(bals) : after[k] = bals[k]
  <2>1. EmptyBalance(0) \in Balance /\ EmptyBalance(0).value = 0
    BY DEF EmptyBalance, Balance
  <2> QED
    BY <1>3, <2>1, AppendProperties, LenProperties
<1>5. Kept /\ Debited' = Debited
  BY <1>3 DEF Kept, Debited
<1>6. DebitedInImage = Debited /\ DebitedInImage' = Debited
  BY <1>1, <1>3, <1>5, NoneOpen, BundlesAre DEF DebitedInImage, RpcPut
<1>7. \A a \in Addresses : /\ Due(bundles', Settled, Debited, a) >= 0
                           /\ Due(bundles', Settled, Debited, a) =
                                 Due(bundles, Settled, Debited, a)
  BY <1>3, <1>6 DEF Solvent, PaymentsCovered
<1>8. Backed(after, n, bundles', Settled, Debited)
  <2> SUFFICES ASSUME NEW a \in Addresses, a[1] = n, a[2] <= Len(after)
               PROVE  after[a[2]].value <= Due(bundles, Settled, Debited, a)
    BY <1>3 DEF Backed
  <2>1. a[2] \in Nat \ {0}
    BY AccountOf
  <2>2. CASE a[2] <= Len(bals)
    BY <1>2, <1>4, <2>1, <2>2 DEF Backed
  <2>3. CASE a[2] = Len(bals) + 1
    <3>1. Due(bundles, Settled, Debited, a) \in Int
      BY BundlesAre, DueType
    <3> QED
      BY <1>4, <1>7, <2>3, <3>1
  <2> QED
    BY <1>4, <2>1, <2>2, <2>3
<1> QED
  BY <1>1, <1>3, <1>5, <1>6, <1>7, <1>8, PutSolvent

(* A payment takes all that an input has, and the input has no more than is  *)
(* backed.                                                                   *)
LEMMA PaySolvent ==
    ASSUME IInv, Types, Types', Solvent, wtx.owner = "none", NEW n \in Accounts,
           NEW v \in Int, NEW bals \in Seq(Balance),
           Backed(bals, n, bundles, Settled, Debited), Pay(n, bals, v)
    PROVE  Solvent'
<1>1. PICK new, entries, after, fresh :
         /\ fresh = {a \in Addresses : entries[a] > 0}
         /\ entries \in [Addresses -> Int] /\ after \in Seq(Balance)
         /\ Len(after) \in Nat /\ Len(bals) <= Len(after)
         /\ \A a \in Addresses : Moved(n, bals, after, a, entries[a])
         /\ DOMAIN bundles' = DOMAIN bundles \cup {new} /\ new \notin DOMAIN bundles
         /\ \A b \in DOMAIN bundles : bundles'[b] = bundles[b]
         /\ bundles'[new] = [entries |-> entries, own |-> TRUE, debited |-> FALSE,
                             stage |-> "pow"]
         /\ RpcPut(n, after, fresh, new)
         /\ new \in Nat /\ new = Len(bundles') /\ new # wtx.bundle
  BY PayShape
<1>2. bundles'[new].entries = entries /\ ~bundles'[new].debited
  <2>1. bundles'[new] = [entries |-> entries, own |-> TRUE, debited |-> FALSE,
                         stage |-> "pow"]
    BY <1>1
  <2> QED
    BY <2>1
<1>3. Kept
  BY <1>1 DEF Kept
<1>4. Debited' = Debited
  BY <1>1, <1>2 DEF Debited
<1>5. wtx'.bundle = new
  BY <1>1 DEF RpcPut
<1>6. DebitedInImage' = Debited \cup {new}
  BY <1>1, <1>4, <1>5 DEF DebitedInImage
<1>7. \A a \in Addresses : Due(bundles, Settled, Debited, a) >= 0
  BY NoneOpen DEF Solvent, PaymentsCovered
<1>8. ASSUME NEW a \in Addresses, NEW e, e = entries[a]
      PROVE  /\ Due(bundles', Settled, DebitedInImage', a) =
                   Due(bundles, Settled, Debited, a) + IF e < 0 THEN e ELSE 0
             /\ Due(bundles, Settled, Debited, a) \in Int /\ e \in Int
  <2>1. PICK C, D, E : C = Settled /\ D = Debited /\ E = DebitedInImage'
    OBVIOUS
  <2>2. \A tx \in C : tx[1] \in DOMAIN bundles
    BY <2>1, SettledIs
  <2>3. D \in SUBSET DOMAIN bundles /\ E = D \cup {new}
    BY <1>6, <2>1 DEF Debited
  <2>4. new \in DOMAIN bundles' \ DOMAIN bundles /\ e = bundles'[new].entries[a]
    BY <1>1, <1>2, <1>8
  <2>5. /\ Due(bundles', C, D \cup {new}, a) =
              Due(bundles, C, D, a) + IF e < 0 THEN e ELSE 0
        /\ Due(bundles, C, D, a) \in Int /\ e \in Int
    BY <1>3, <2>2, <2>3, <2>4, DuePays
  <2> QED
    BY <2>1, <2>3, <2>5
<1>9. ASSUME NEW a \in Addresses
      PROVE  /\ Due(bundles', Settled, DebitedInImage', a) >= 0
             /\ a[1] # n => Due(bundles', Settled, DebitedInImage', a) =
                               Due(bundles, Settled, Debited, a)
             /\ a[1] = n /\ a[2] <= Len(after) =>
                   after[a[2]].value <= Due(bundles', Settled, DebitedInImage', a)
  <2>1. PICK e : e = entries[a]
    OBVIOUS
  <2>2. PICK d, f : /\ d = Due(bundles, Settled, Debited, a)
                    /\ f = Due(bundles', Settled, DebitedInImage', a)
    OBVIOUS
  <2>3. f = d + (IF e < 0 THEN e ELSE 0) /\ d \in Int /\ e \in Int
    BY <1>8, <2>1, <2>2
  <2>4. Moved(n, bals, after, a, e)
    BY <1>1, <2>1
  <2>5. d >= 0
    BY <1>7, <2>2
  <2>6. a[2] \in Nat \ {0} /\ Len(bals) \in Nat
    BY AccountOf, LenProperties
  <2>7. CASE a[1] # n
    <3>1. e = 0
      BY <2>4, <2>7 DEF Moved
    <3> QED
      BY <2>2, <2>3, <2>5, <2>7, <3>1
  <2>8. CASE a[1] = n /\ a[2] <= Len(bals)
    <3>1. PICK x : x = bals[a[2]].value
      OBVIOUS
    <3>2. /\ e <= 0 /\ (e = 0 \/ e = -x)
          /\ after[a[2]].value = x + e
      BY <2>4, <2>8, <3>1 DEF Moved
    <3>3. x <= d
      BY <2>2, <2>8, <3>1 DEF Backed
    <3>4. x \in Int
      <4>1. a[2] \in 1..Len(bals)
        BY <2>6, <2>8
      <4> QED
        BY <3>1, <4>1, ValuesAreInts
    <3>5. f = d + e
      BY <2>3, <3>2
    <3>6. f >= 0 /\ x + e <= f
      BY <2>3, <2>5, <3>2, <3>3, <3>4, <3>5
    <3> QED
      BY <2>2, <2>8, <3>2, <3>6
  <2>9. CASE a[1] = n /\ a[2] > Len(bals)
    <3>1. e >= 0
      BY <2>4, <2>9 DEF Moved
    <3>2. f = d
      BY <2>3, <3>1
    <3>3. ASSUME a[2] <= Len(after) PROVE after[a[2]].value = 0
      <4>1. after[a[2]] = [value |-> 0, change |-> e]
        BY <2>4, <2>9, <3>3 DEF Moved
      <4> QED
        BY <4>1
    <3> QED
      BY <2>2, <2>5, <2>9, <3>2, <3>3
  <2> QED
    BY <2>6, <2>7, <2>8, <2>9
<1>10. Backed(after, n, bundles', Settled, DebitedInImage')
  BY <1>9 DEF Backed
<1> QED
  <2>1. PICK D : D = DebitedInImage'
    OBVIOUS
  <2>2. \A a \in Addresses :
           /\ Due(bundles', Settled, D, a) >= 0
           /\ a[1] # n => Due(bundles', Settled, D, a) = Due(bundles, Settled, Debited, a)
    BY <1>9, <2>1
  <2>3. Backed(after, n, bundles', Settled, D)
    BY <1>10, <2>1
  <2>4. RpcPut(n, after, fresh, new)
    BY <1>1
  <2> QED
    BY <1>3, <1>4, <2>1, <2>2, <2>3, <2>4, PutSolvent

LEMMA RpcSolvent ==
    ASSUME IInv, Types, Types', OpenIsRight, Solvent, Rpc
    PROVE  Solvent'
<1>1. ASSUME NEW n \in Accounts, GetNewAddress(n) PROVE Solvent'
  BY <1>1, GetNewAddressSolvent
<1>2. ASSUME NEW n \in Accounts, NEW v \in Payments, SendFrom(n, v) \/ SendToAddress(n, v)
      PROVE  Solvent'
  <2>1. v \in Int
    OBVIOUS
  <2>2. wtx.owner = "none"
    BY <1>2 DEF SendFrom, SendToAddress, Pay, MayWrite
  <2>3. PICK bals \in Seq(Balance) :
           Pay(n, bals, v) /\ Backed(bals, n, bundles, Settled, Debited)
    BY <1>2, <2>2, GetAccountType, FoundBacked DEF SendFrom, SendToAddress
  <2> QED
    BY <2>1, <2>2, <2>3, PaySolvent
<1> QED
  BY <1>1, <1>2, EndSolvent DEF Rpc

-----------------------------------------------------------------------------
(* A transaction has at most the bundle that its handler sends; and nothing  *)
(* but a reading handler comes between Walletnotify finding an address in the*)
(* cache and crediting it.                                                   *)
LEMMA OpenAfterPut ==
    ASSUME Types, wtx.owner = "none", NEW n, NEW bals, NEW fresh, NEW b,
           RpcPut(n, bals, fresh, b), b \in 0..Len(bundles')
    PROVE  OpenIsRight'
<1>1. wtx'.owner = "rpc" /\ wtx'.bundle = b /\ notify' = notify
  BY DEF RpcPut
<1>2. notify.pc # "hit"
  BY DEF Types, OwnerIsRight
<1> QED
  BY <1>1, <1>2 DEF OpenIsRight

LEMMA OpenAfterRpc ==
    ASSUME Types, Types', OpenIsRight, Rpc
    PROVE  OpenIsRight'
<1>1. ASSUME NEW n \in Accounts, GetNewAddress(n) PROVE OpenIsRight'
  <2>1. PICK bals, fresh : RpcPut(n, bals, fresh, 0) /\ UNCHANGED bundles
    BY <1>1 DEF GetNewAddress
  <2>2. wtx.owner = "none" /\ 0 \in 0..Len(bundles')
    BY <1>1, <2>1, BundlesAre DEF GetNewAddress, MayWrite
  <2> QED
    BY <2>1, <2>2, OpenAfterPut
<1>2. ASSUME NEW n \in Accounts, NEW v \in Payments, SendFrom(n, v) \/ SendToAddress(n, v)
      PROVE  OpenIsRight'
  <2>1. v \in Int
    OBVIOUS
  <2>2. wtx.owner = "none"
    BY <1>2 DEF SendFrom, SendToAddress, Pay, MayWrite
  <2>3. PICK bals \in Seq(Balance) : Pay(n, bals, v)
    BY <1>2, <2>2, GetAccountType DEF SendFrom, SendToAddress
  <2>4. PICK new, after, fresh :
           RpcPut(n, after, fresh, new) /\ new \in Nat /\ new = Len(bundles')
    BY <2>1, <2>2, <2>3, PayShape
  <2>5. new \in 0..Len(bundles')
    BY <2>4
  <2> QED
    BY <2>2, <2>4, <2>5, OpenAfterPut
<1>3. CASE RpcCommit \/ RpcCommitFails
  <2>1. wtx' = NoTx /\ notify' = notify /\ lastAccount' = lastAccount
    BY <1>3 DEF RpcCommit, RpcCommitFails
  <2>2. Len(bundles') \in Nat
    BY LenProperties DEF Types, BundlesType
  <2>3. notify.pc # "hit"
    BY <1>3 DEF RpcCommit, RpcCommitFails, Types, OwnerIsRight
  <2> QED
    BY <2>1, <2>2, <2>3 DEF OpenIsRight, NoTx
<1> QED
  BY <1>1, <1>2, <1>3 DEF Rpc

LEMMA OpenAfterNotifying ==
    ASSUME IInv, Types, Types', OpenIsRight, Notifying
    PROVE  OpenIsRight'
<1>1. NotifyType /\ wtx.bundle \in 0..Len(bundles) /\ Len(bundles') \in Nat
  BY LenProperties DEF IInv, ControlTypeOK, OpenIsRight, Types, BundlesType
<1>2. CASE \/ NotifyStart \/ NotifyFind \/ NotifyCompare \/ NotifyInclusion
           \/ NotifyGivesUp \/ NotifyPut
  <2>1. UNCHANGED <<wtx, bundles>>
    BY <1>2 DEF NotifyStart, NotifyFind, NotifyCompare, NotifyInclusion, NotifyGivesUp,
                NotifyPut
  <2>2. notify.pc \notin {"credit", "hit"}
    BY <1>2 DEF NotifyStart, NotifyFind, NotifyCompare, NotifyInclusion, NotifyGivesUp,
                NotifyPut
  <2>3. notify'.pc # "hit"
    BY <2>1, <2>2 DEF Types, OwnerIsRight
  <2> QED
    BY <2>1, <2>3 DEF OpenIsRight
<1>3. CASE NotifyBegin
  <2>1. /\ UNCHANGED bundles /\ notify.pc = "begin" /\ wtx.owner = "none"
        /\ \/ notify' = Idle /\ UNCHANGED wtx
           \/ /\ notify' = [notify EXCEPT !.pc = "credit", !.todo = ToCredit]
              /\ wtx' = [NoTx EXCEPT !.owner = "notify", !.img = db]
    BY <1>3 DEF NotifyBegin, MayWrite
  <2>2. CASE notify' = Idle /\ UNCHANGED wtx
    BY <2>1, <2>2 DEF OpenIsRight, Idle
  <2>3. CASE /\ notify' = [notify EXCEPT !.pc = "credit", !.todo = ToCredit]
             /\ wtx' = [NoTx EXCEPT !.owner = "notify", !.img = db]
    <3>1. notify'.pc = "credit"
      BY <1>1, <2>3 DEF NotifyType
    <3>2. wtx'.bundle = 0
      BY <2>3 DEF NoTx
    <3> QED
      BY <1>1, <3>1, <3>2 DEF OpenIsRight
  <2> QED
    BY <2>1, <2>2, <2>3
<1>4. ASSUME NEW tx \in TxIds, NotifyHit(tx) PROVE OpenIsRight'
  <2>1. /\ notify'.cur = {tx} /\ notify'.todo = notify.todo /\ tx \in notify.todo
        /\ Cached(tx[2]) /\ UNCHANGED <<lastAccount, wtx, bundles>>
    BY <1>1, <1>4 DEF NotifyHit, NotifyType
  <2>2. Cached(tx[2])'
    BY <2>1 DEF Cached
  <2> QED
    BY <2>1, <2>2 DEF OpenIsRight
<1>5. ASSUME NEW tx \in TxIds, NotifyCreditMiss(tx) \/ NotifyCreditHit(tx)
      PROVE  OpenIsRight'
  <2>1. PICK n \in Accounts, bals \in Seq(Balance) :
           /\ CreditTo(n, bals, tx) /\ notify.pc \in {"credit", "hit"}
           /\ tx[1] \in DOMAIN bundles /\ UNCHANGED <<db, bundles, readers>>
    BY <1>5, CreditsOne
  <2>2. /\ wtx.owner = "notify" /\ wtx'.owner = "notify" /\ wtx'.bundle = wtx.bundle
        /\ notify'.pc = "credit"
    BY <2>1, CreditShape
  <2> QED
    BY <2>1, <2>2 DEF OpenIsRight
<1>6. CASE NotifyCommit \/ NotifyRollback \/ NotifyPanics
  <2>1. wtx' = NoTx /\ notify' = Idle
    BY <1>6 DEF NotifyCommit, NotifyRollback, NotifyPanics, Restart
  <2> QED
    BY <1>1, <2>1 DEF OpenIsRight, NoTx, Idle
<1> QED
  BY <1>2, <1>3, <1>4, <1>5, <1>6 DEF Notifying

LEMMA OpenStep ==
    ASSUME Readers = {}, IInv, Types, Types', OpenIsRight, [Next]_vars
    PROVE  OpenIsRight'
<1>1. CASE Mesh
  <2>1. UNCHANGED <<lastAccount, wtx, notify>> /\ Kept
    BY <1>1, StageKeeps, DepositKeeps DEF Mesh
  <2>2. Len(bundles) <= Len(bundles') /\ Len(bundles) \in Nat /\ Len(bundles') \in Nat
    BY <2>1, LenGrows
  <2>3. wtx'.bundle \in 0..Len(bundles')
    BY <2>1, <2>2 DEF OpenIsRight
  <2> QED
    BY <2>1, <2>3 DEF OpenIsRight, Cached
<1>2. CASE Crash \/ Refresh
  <2>1. wtx' = NoTx /\ notify' = Idle
    BY <1>2, NoneOpen DEF Crash, Restart, Refresh
  <2>2. Len(bundles') \in Nat
    BY LenProperties DEF Types, BundlesType
  <2> QED
    BY <2>1, <2>2 DEF OpenIsRight, NoTx, Idle
<1>3. CASE Reading
  BY <1>3 DEF Reading
<1>4. CASE UNCHANGED vars
  BY <1>4 DEF vars, OpenIsRight, Cached
<1> QED
  BY <1>1, <1>2, <1>3, <1>4, OpenAfterRpc, OpenAfterNotifying DEF Next

LEMMA NextSolvent ==
    ASSUME Readers = {}, IInv, Types, Types', OpenIsRight, Solvent, [Next]_vars
    PROVE  Solvent'
<1>1. CASE Notifying
  BY <1>1, RoundSolvent, BeginSolvent, CreditSolvent, EndSolvent DEF Notifying, NotifyPanics
<1>2. CASE Crash \/ Refresh
  BY <1>2, EndSolvent, RefreshSolvent DEF Crash
<1>3. CASE Reading
  BY <1>3 DEF Reading
<1>4. CASE UNCHANGED vars
  <2>1. UNCHANGED <<db, lastAccount, wtx, bundles, hashes, notify>> /\ Kept
    BY <1>4 DEF vars, Kept
  <2> QED
    BY <2>1, SettledSame, QuietSolvent
<1> QED
  BY <1>1, <1>2, <1>3, <1>4, RpcSolvent, MeshSolvent DEF Next

LEMMA InitSolvent == Init => OpenIsRight /\ Solvent
<1> SUFFICES ASSUME Init PROVE OpenIsRight /\ Solvent
  OBVIOUS
<1>1. Types
  BY InitTypes
<1>2. /\ db = [n \in Accounts |-> <<>>] /\ lastAccount = NoCache /\ wtx = NoTx
      /\ bundles = <<>> /\ notify = Idle
  BY DEF Init
<1>3. Image = db /\ wtx.bundle = 0 /\ DOMAIN bundles = {} /\ Len(bundles) \in Nat
  BY <1>1, <1>2, NoneOpen, BundlesAre DEF NoTx
<1>4. OpenIsRight
  BY <1>2, <1>3 DEF OpenIsRight, NoTx, Idle
<1>5. ASSUME NEW a \in Addresses, NEW C, NEW D PROVE Due(bundles, C, D, a) = 0
  BY <1>1, <1>3, BundlesAre, DueNothing
<1>6. ASSUME NEW n \in Accounts, NEW C, NEW D PROVE Backed(db[n], n, bundles, C, D)
  <2>1. db[n] = <<>> /\ Len(db[n]) = 0
    BY <1>2, EmptySeq
  <2> QED
    BY <2>1, AccountOf DEF Backed
<1>7. CacheBacked /\ PaymentsCovered
  BY <1>2, <1>5 DEF CacheBacked, PaymentsCovered, NoCache
<1> QED
  BY <1>3, <1>4, <1>6, <1>7 DEF Solvent, DatabaseBacked, ImageBacked

LEMMA AlwaysSolvent ==
    ASSUME Readers = {} PROVE Spec => [](IInv /\ Types /\ OpenIsRight /\ Solvent)
<1>1. Init => IInv /\ Types /\ OpenIsRight /\ Solvent
  BY InitIInv, InitTypes, InitSolvent
<1>2. IInv /\ Types /\ OpenIsRight /\ Solvent /\ [Next]_vars
         => (IInv /\ Types /\ OpenIsRight /\ Solvent)'
  BY NextIInv, NextTypes, OpenStep, NextSolvent
<1> QED
  BY <1>1, <1>2, PTL DEF Spec

(* A payment that is known takes part in what is covered, and what is        *)
(* recorded as confirmed is confirmed.                                       *)
LEMMA SolventGivesNoDoubleSpend == IInv /\ Types /\ Solvent => NoDoubleSpend
<1> SUFFICES ASSUME IInv, Types, Solvent, NEW a \in Addresses,
                    NEW received, received = {b \in DOMAIN bundles :
                                                 Confirmed(b) /\ EntryAt(b, a) > 0},
                    NEW spent, spent = {b \in DOMAIN bundles :
                                           KnownPayment(b) /\ EntryAt(b, a) < 0}
             PROVE  SumAt(received, a) + SumAt(spent, a) >= 0
  BY DEF NoDoubleSpend
<1> DEFINE D == DOMAIN bundles
           r == [b \in DOMAIN bundles |-> IF b \in received THEN EntryAt(b, a) ELSE 0]
           s == [b \in DOMAIN bundles |-> IF b \in spent THEN EntryAt(b, a) ELSE 0]
           u == [b \in DOMAIN bundles |-> r[b] + s[b]]
           v == [b \in DOMAIN bundles |-> Share(bundles, Settled, DebitedInImage, a, b)]
<1>1. received \in SUBSET DOMAIN bundles /\ spent \in SUBSET DOMAIN bundles
  OBVIOUS
<1>2. ASSUME NEW b \in DOMAIN bundles PROVE v[b] \in Int /\ v[b] <= r[b] + s[b]
  <2>1. v[b] = Share(bundles, Settled, DebitedInImage, a, b) /\ EntryAt(b, a) \in Int
    BY BundlesAre
  <2>2. <<b, a>> \in Settled => b \in received /\ EntryAt(b, a) > 0
    <3> SUFFICES ASSUME <<b, a>> \in Settled PROVE Confirmed(b) /\ EntryAt(b, a) > 0
      OBVIOUS
    <3>1. PICK tx \in Settled : tx = <<b, a>>
      OBVIOUS
    <3>2. Confirmed(tx[1]) /\ EntryAt(tx[1], tx[2]) > 0
      BY SettledIs
    <3> QED
      BY <3>1, <3>2
  <2>3. b \in spent => b \in DebitedInImage /\ EntryAt(b, a) < 0
    BY DEF KnownPayment, DebitedInImage, Debited
  <2>4. v[b] = (IF <<b, a>> \in Settled THEN EntryAt(b, a) ELSE 0)
             + (IF b \in DebitedInImage /\ EntryAt(b, a) < 0 THEN EntryAt(b, a) ELSE 0)
    BY <2>1 DEF Share, EntryAt
  <2>5. /\ r[b] = (IF b \in received THEN EntryAt(b, a) ELSE 0)
        /\ s[b] = (IF b \in spent THEN EntryAt(b, a) ELSE 0)
        /\ b \in received => EntryAt(b, a) > 0
    OBVIOUS
  <2> HIDE DEF v, r, s
  <2> QED
    BY <2>1, <2>2, <2>3, <2>4, <2>5
<1>3. \A b \in D : u[b] = r[b] + s[b]
  OBVIOUS
<1>4. /\ SumAt(received, a) = SumFunctionOnSet(r, D)
      /\ \A b \in D : r[b] \in Int
  <2>1. \A b \in DOMAIN bundles : r[b] = IF b \in received THEN EntryAt(b, a) ELSE 0
    OBVIOUS
  <2> HIDE DEF r
  <2> QED
    BY <1>1, <2>1, SumAtWhole
<1>5. /\ SumAt(spent, a) = SumFunctionOnSet(s, D)
      /\ \A b \in D : s[b] \in Int
  <2>1. \A b \in DOMAIN bundles : s[b] = IF b \in spent THEN EntryAt(b, a) ELSE 0
    OBVIOUS
  <2> HIDE DEF s
  <2> QED
    BY <1>1, <2>1, SumAtWhole
<1>6. Due(bundles, Settled, DebitedInImage, a) = SumFunctionOnSet(v, D)
  BY DEF Due
<1>7. Due(bundles, Settled, DebitedInImage, a) >= 0
  BY DEF Solvent, PaymentsCovered
<1>8. IsFiniteSet(D)
  BY BundlesAre, ShareType
<1> HIDE DEF r, s, u, v
<1>9. \A b \in D : v[b] \in Int /\ u[b] \in Int /\ v[b] <= u[b]
  BY <1>2, <1>3, <1>4, <1>5
<1> HIDE DEF D
<1>10. SumFunctionOnSet(u, D) = SumFunctionOnSet(r, D) + SumFunctionOnSet(s, D)
  BY <1>3, <1>4, <1>5, <1>8, SumPlus
<1>11. SumFunctionOnSet(v, D) <= SumFunctionOnSet(u, D)
  BY <1>8, <1>9, SumMonotone
<1>12. SumFunctionOnSet(v, D) \in Int /\ SumFunctionOnSet(u, D) \in Int
  BY <1>8, <1>9, SumType
<1> QED
  BY <1>4, <1>5, <1>6, <1>7, <1>10, <1>11, <1>12

(* Whatever fails and however often the process is restarted, what the wallet*)
(* knows to have paid from an address never exceeds what was confirmed to it,*)
(* as long as no reading handler replaces the cache while a round credits.   *)
THEOREM NothingSpentTwice == ASSUME Readers = {} PROVE Spec => []NoDoubleSpend
<1>1. IInv /\ Types /\ OpenIsRight /\ Solvent => NoDoubleSpend
  BY SolventGivesNoDoubleSpend
<1> QED
  BY <1>1, AlwaysSolvent, PTL
=============================================================================
