------------------------------ MODULE PowQueue ------------------------------
(* The goroutines that Send starts (aidos/transfer.go), one for each bundle: *)
(* under powMutex each attaches its bundle to two tips, does the proof of    *)
(* work and hands it to the node, trying again three minutes after whatever  *)
(* fails.  (Wallet.tla has all this as its one step Broadcast.)              *)
(*                                                                           *)
(* A transaction of a bundle is what it points to and whether its nonce is   *)
(* valid; the rest of it does not change any more.  It stands for its hash.  *)
EXTENDS Naturals, FiniteSets

CONSTANTS Sent,     \* the bundles that are sent
          Size,     \* bundle -> its transactions
          Tips      \* the tips the node may name

ASSUME PowAssumption == Size \in [Sent -> Nat \ {0}] /\ Tips # {} /\ "free" \notin Sent

VARIABLES at,       \* bundle -> where its goroutine is
          powMutex, \* the bundle whose goroutine holds it
          tra, txNo,   \* that goroutine's tips, and the transaction it works on
          ts,       \* bundle -> its transactions
          stored,   \* bundle -> the attachments of it that the node has stored ...
          out       \* ... and those that it has broadcast (external)

powVars == <<at, powMutex, tra, txNo, ts, stored, out>>

Tip(t) == [tip |-> t]
Unattached == [trunk |-> Tip("none"), branch |-> Tip("none"), worked |-> FALSE]
NoTips == [trunk |-> Tip("none"), branch |-> Tip("none")]

PowInit ==
    /\ at = [b \in Sent |-> "unsent"]
    /\ powMutex = "free"
    /\ tra = NoTips /\ txNo = 0
    /\ ts = [b \in Sent |-> [k \in 1..Size[b] |-> Unattached]]
    /\ stored = [b \in Sent |-> {}] /\ out = [b \in Sent |-> {}]

Goes(b, from, to) == at[b] = from /\ at' = [at EXCEPT ![b] = to]

(* Send starts the goroutine, ...                                            *)
StartGoroutine(b) ==
    /\ Goes(b, "unsent", "queued")
    /\ UNCHANGED <<powMutex, tra, txNo, ts, stored, out>>

(* ... which waits for powMutex.                                             *)
LockPow(b) ==
    /\ powMutex = "free" /\ powMutex' = b
    /\ Goes(b, "queued", "approve")
    /\ UNCHANGED <<tra, txNo, ts, stored, out>>

(* PowTrytes: the node names two tips; doPow goes from the last transaction  *)
(* to the first, at every attempt, ...                                       *)
Approve(b) ==
    /\ Goes(b, "approve", "pow")
    /\ \E trunk, branch \in Tips : tra' = [trunk |-> Tip(trunk), branch |-> Tip(branch)]
    /\ txNo' = Size[b]
    /\ UNCHANGED <<powMutex, ts, stored, out>>

(* ... and each transaction points to the next, the last to the tips.        *)
Pointing(b) ==
    IF txNo = Size[b] THEN tra ELSE [trunk |-> ts[b][txNo + 1], branch |-> tra.trunk]

(* The proof of work for one transaction: a nonce, valid or not, or an error.*)
(* An invalid one is noticed after the last.                                 *)
Work(b, nonce) ==
    /\ at[b] = "pow"
    /\ ts' = [ts EXCEPT ![b][txNo] = [trunk |-> Pointing(b).trunk, branch |-> Pointing(b).branch,
                                      worked |-> nonce = "valid"]]
    /\ IF nonce # "error" /\ txNo > 1
       THEN txNo' = txNo - 1 /\ UNCHANGED <<at, tra>>
       ELSE /\ at' = [at EXCEPT ![b] = IF \A k \in 1..Size[b] : ts'[b][k].worked
                                      THEN "store" ELSE "retry"]
            /\ txNo' = 0 /\ tra' = NoTips
    /\ UNCHANGED <<powMutex, stored, out>>

(* broadcast: the transactions are stored, ...                               *)
Store(b) ==
    /\ Goes(b, "store", "broadcast")
    /\ stored' = [stored EXCEPT ![b] = @ \cup {ts[b]}]
    /\ UNCHANGED <<powMutex, tra, txNo, ts, out>>

(* ... then broadcast, and the goroutine ends: the deferred Unlock.          *)
BroadcastTransactions(b) ==
    /\ Goes(b, "broadcast", "sent")
    /\ out' = [out EXCEPT ![b] = @ \cup {ts[b]}]
    /\ powMutex' = "free"
    /\ UNCHANGED <<tra, txNo, ts, stored>>

(* The node refuses a call, or its answer is lost after it was carried out.  *)
NodeFails(b) ==
    /\ \/ Goes(b, "approve", "retry") /\ UNCHANGED <<stored, out>>
       \/ /\ Goes(b, "store", "resend") /\ UNCHANGED out
          /\ stored' \in {stored, [stored EXCEPT ![b] = @ \cup {ts[b]}]}
       \/ /\ Goes(b, "broadcast", "resend") /\ UNCHANGED stored
          /\ out' \in {out, [out EXCEPT ![b] = @ \cup {ts[b]}]}
    /\ UNCHANGED <<powMutex, tra, txNo, ts>>

(* After three minutes: attached anew if the proof of work had failed; what  *)
(* was attached is only sent again.  A slip would be to attach that anew.    *)
AttachAnew == "approve"
SendAgain == "store"

Awake(b) ==
    /\ Goes(b, "retry", "approve") \/ Goes(b, "resend", SendAgain)
    /\ UNCHANGED <<powMutex, tra, txNo, ts, stored, out>>

(* The process ends: nothing of a goroutine is in the database.              *)
LoseGoroutines ==
    /\ at' = [b \in Sent |-> IF at[b] \in {"unsent", "sent"} THEN at[b] ELSE "lost"]
    /\ powMutex' = "free" /\ tra' = NoTips /\ txNo' = 0
    /\ UNCHANGED <<ts, stored, out>>

Goroutine(b) == \/ LockPow(b) \/ Approve(b) \/ Work(b, "valid")
                \/ Store(b) \/ BroadcastTransactions(b) \/ Awake(b)
Trouble(b) == NodeFails(b) \/ Work(b, "invalid") \/ Work(b, "error")

PowNext == \/ \E b \in Sent : StartGoroutine(b) \/ Goroutine(b) \/ Trouble(b)
           \/ LoseGoroutines

(* Goroutines go on.  The node, and the proof of work, fail for as long as   *)
(* they like, but not for ever: without end, an attempt is made every three  *)
(* minutes.  That a mutex is handed on is not needed: each bundle holds it   *)
(* once.                                                                     *)
PowFair ==
    /\ WF_powVars(\E b \in Sent : Goroutine(b))
    /\ <>[][\A b \in Sent : ~Trouble(b)]_powVars

PowSpec == PowInit /\ [][PowNext]_powVars /\ PowFair

-----------------------------------------------------------------------------
(* An attachment is a chain to the tips of one attempt, with valid nonces.   *)
IsChain(txs) ==
    /\ \A k \in DOMAIN txs : txs[k].worked
    /\ \A k \in DOMAIN txs : k + 1 \in DOMAIN txs =>
          /\ txs[k].trunk = txs[k + 1]
          /\ txs[k].branch = txs[Cardinality(DOMAIN txs)].trunk

(* However often it is tried, the mesh gets one attachment of a bundle, which*)
(* is the one the node has stored, and all of it is of one attempt.          *)
AttachedOnce(b) ==
    /\ Cardinality(stored[b]) <= 1 /\ out[b] \subseteq stored[b]
    /\ \A txs \in stored[b] : IsChain(txs)
    /\ at[b] = "sent" => out[b] # {}

(* Every bundle that was sent goes out as one attachment, unless the process *)
(* ends first: one whose node keeps failing holds up the others (256), but   *)
(* only as long as it fails.                                                 *)
EveryBundleGoesOut ==
    /\ \A b \in Sent : at[b] = "queued" ~> at[b] \in {"sent", "lost"}
    /\ [](\A b \in Sent : AttachedOnce(b))
=============================================================================
