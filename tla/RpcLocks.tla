------------------------------ MODULE RpcLocks ------------------------------
(* Who waits for whom in aidosd: the handlers of aidos/apis.go and           *)
(* aidos/send_api.go on `mutex', a sync.RWMutex, and they and Walletnotify   *)
(* on bolt, the database.                                                    *)
(*                                                                           *)
(*   - Plain handlers (listaccounts, validateaddress, gettransaction,        *)
(*     listtransactions) hold mutex.RLock from start to end, around a        *)
(*     db.View, gettransaction around two.                                   *)
(*   - Reentrant handlers (getbalance, listaddressgroupings) do so too, and  *)
(*     take mutex.RLock once more in getBalance, inside their db.View.       *)
(*   - Writers (getnewaddress, sendmany, sendfrom, sendtoaddress,            *)
(*     importwallet) hold mutex.Lock around a db.Update, importwallet around *)
(*     two.                                                                  *)
(*   - Walletnotify runs a db.View and three db.Updates without `mutex'.     *)
(*                                                                           *)
(* sync.RWMutex is external: a pending Lock makes every later RLock wait,    *)
(* and Unlock lets the waiting RLocks in before the next Lock.  So is bolt:  *)
(* it has one db.Update at a time; one that has to make the file larger maps *)
(* it anew, for which it waits until no db.View is open, and meanwhile no    *)
(* db.View begins.  A client below makes one call after another, of one      *)
(* kind.                                                                     *)
EXTENDS Naturals

CONSTANTS Plain, Reentrant, Writers

Reading == Plain \cup Reentrant
Clients == Reading \cup Writers

None     == "none"
Notifier == "walletnotify"

ASSUME RpcLocksAssumption ==
    /\ Plain \cap Reentrant = {} /\ Reading \cap Writers = {}
    /\ Clients \cap {None, Notifier} = {}

VARIABLES pc,       \* where each client's call is
          held,     \* RLocks each client holds
          waiting,  \* the clients whose RLock waits
          pending,  \* the writer whose Lock has shut the readers out
          writer,   \* the writer that holds Lock
          bolt,     \* whose db.Update is open
          remap,    \* that db.Update waits to map the file anew
          round     \* the transaction Walletnotify is at; 0 between rounds

vars == <<pc, held, waiting, pending, writer, bolt, remap, round>>
lockVars == <<held, waiting, pending, writer>>
boltVars == <<bolt, remap, round>>

Init ==
    /\ pc = [c \in Clients |-> "idle"]
    /\ held = [c \in Clients |-> 0]
    /\ waiting = {}
    /\ pending = None /\ writer = None
    /\ bolt = None /\ remap = FALSE
    /\ round = 0

-----------------------------------------------------------------------------
(* Reading handlers.                                                         *)

(* An RLock is not granted at once; a slip would be to mind the pending only.*)
ShutOutByPending == pending # None
ShutOut == pending # None \/ writer # None

(* Where a call goes when its RLock is granted.                              *)
AfterRLock(c) == IF pc[c] = "view" THEN "inner" ELSE "inside"

(* The handler's mutex.RLock, or getBalance's inside its db.View.            *)
RLock(c) ==
    /\ \/ pc[c] = "idle"
       \/ pc[c] = "view" /\ c \in Reentrant
    /\ c \notin waiting
    /\ IF ShutOut
       THEN waiting' = waiting \cup {c} /\ UNCHANGED <<pc, held>>
       ELSE /\ held' = [held EXCEPT ![c] = @ + 1]
            /\ pc' = [pc EXCEPT ![c] = AfterRLock(c)]
            /\ UNCHANGED waiting
    /\ UNCHANGED <<pending, writer, boltVars>>

(* The params are refused before the database is asked.                      *)
Refuse(c) ==
    /\ pc[c] = "inside"
    /\ pc' = [pc EXCEPT ![c] = "last"]
    /\ UNCHANGED <<lockVars, boltVars>>

(* db.View begins, unless an Update waits to map the file.                   *)
ViewBegin(c) ==
    /\ pc[c] \in {"inside", "between"}
    /\ ~remap
    /\ pc' = [pc EXCEPT ![c] = IF @ = "inside" THEN "view" ELSE "viewed"]
    /\ UNCHANGED <<lockVars, boltVars>>

(* It ends; another one may follow a plain handler's first.                  *)
ViewEnd(c) ==
    /\ \/ pc[c] = "viewed"
       \/ pc[c] = "view" /\ c \in Plain
    /\ \E next \in {"last"} \cup (IF pc[c] = "view" THEN {"between"} ELSE {}) :
           pc' = [pc EXCEPT ![c] = next]
    /\ UNCHANGED <<lockVars, boltVars>>

(* The deferred RUnlock.                                                     *)
Released(n) == n - 1

RUnlock(c) ==
    /\ pc[c] \in {"inner", "last"}
    /\ held' = [held EXCEPT ![c] = Released(@)]
    /\ pc' = [pc EXCEPT ![c] = IF @ = "inner" THEN "viewed" ELSE "idle"]
    /\ UNCHANGED <<waiting, pending, writer, boltVars>>

(* A client's db.View, or Walletnotify's, is open.                           *)
Viewing == (\E c \in Reading : pc[c] \in {"view", "inner", "viewed"}) \/ round = 2

-----------------------------------------------------------------------------
(* Writing handlers.                                                         *)

(* The handler calls mutex.Lock ...                                          *)
CallLock(c) ==
    /\ pc[c] = "idle"
    /\ pc' = [pc EXCEPT ![c] = "queued"]
    /\ UNCHANGED <<lockVars, boltVars>>

(* ... is first among the writers, and from now on readers wait ...          *)
Announce(c) ==
    /\ pc[c] = "queued"
    /\ pending = None /\ writer = None
    /\ pending' = c
    /\ pc' = [pc EXCEPT ![c] = "pending"]
    /\ UNCHANGED <<held, waiting, writer, boltVars>>

(* ... and gets the lock when the readers before it are gone.                *)
Lock(c) ==
    /\ pc[c] = "pending"
    /\ \A r \in Reading : held[r] = 0
    /\ writer' = c
    /\ pending' = None
    /\ pc' = [pc EXCEPT ![c] = "locked"]
    /\ UNCHANGED <<held, waiting, boltVars>>

(* The params are refused before the database is asked.                      *)
RefuseWrite(c) ==
    /\ pc[c] = "locked"
    /\ pc' = [pc EXCEPT ![c] = "unlock"]
    /\ UNCHANGED <<lockVars, boltVars>>

(* db.Update begins: bolt has one write transaction at a time.               *)
UpdateBegin(c) ==
    /\ pc[c] \in {"locked", "again"}
    /\ bolt = None
    /\ bolt' = c
    /\ pc' = [pc EXCEPT ![c] = IF @ = "locked" THEN "update" ELSE "updating"]
    /\ UNCHANGED <<lockVars, remap, round>>

(* db.Update ends: commit or rollback; a slip would keep it open.  Another   *)
(* one, RefreshAccount's, may follow importwallet's first.                   *)
NotClosed == bolt
Closed == None

UpdateEnd(c) ==
    /\ pc[c] \in {"update", "updating"}
    /\ ~remap
    /\ bolt' = Closed
    /\ \E next \in {"unlock"} \cup (IF pc[c] = "update" THEN {"again"} ELSE {}) :
           pc' = [pc EXCEPT ![c] = next]
    /\ UNCHANGED <<lockVars, remap, round>>

(* The deferred mutex.Unlock admits the readers that wait.                   *)
Unlock(c) ==
    /\ pc[c] = "unlock"
    /\ writer' = None
    /\ held' = [r \in Clients |-> IF r \in waiting THEN held[r] + 1 ELSE held[r]]
    /\ pc' = [r \in Clients |-> IF r \in waiting THEN AfterRLock(r)
                                ELSE IF r = c THEN "idle" ELSE pc[r]]
    /\ waiting' = {}
    /\ UNCHANGED <<pending, boltVars>>

-----------------------------------------------------------------------------
(* Walletnotify: a db.View and three db.Updates a round, or fewer when there *)
(* is nothing to do or one goes wrong.                                       *)

NotifyStart ==
    /\ round = 0
    /\ round' = 1
    /\ UNCHANGED <<pc, lockVars, bolt, remap>>

NotifyView ==
    /\ round = 1
    /\ ~remap
    /\ round' = 2
    /\ UNCHANGED <<pc, lockVars, bolt, remap>>

NotifyViewEnd ==
    /\ round = 2
    /\ round' \in {0, 3}
    /\ UNCHANGED <<pc, lockVars, bolt, remap>>

NotifyBegin ==
    /\ round >= 3
    /\ bolt = None
    /\ bolt' = Notifier
    /\ UNCHANGED <<pc, lockVars, remap, round>>

NotifyEnd ==
    /\ bolt = Notifier
    /\ ~remap
    /\ bolt' = None
    /\ round' \in {0, (round + 1) % 6}
    /\ UNCHANGED <<pc, lockVars, remap>>

-----------------------------------------------------------------------------
(* bolt: the open db.Update finds the file too small, and has it mapped anew *)
(* when no db.View is open.                                                  *)
Grow ==
    /\ bolt # None /\ ~remap
    /\ remap' = TRUE
    /\ UNCHANGED <<pc, lockVars, bolt, round>>

Remap ==
    /\ remap
    /\ ~Viewing
    /\ remap' = FALSE
    /\ UNCHANGED <<pc, lockVars, bolt, round>>

-----------------------------------------------------------------------------
Call(c) == RLock(c) \/ Refuse(c) \/ ViewBegin(c) \/ ViewEnd(c) \/ RUnlock(c)
Write(c) == \/ CallLock(c) \/ Announce(c) \/ Lock(c) \/ RefuseWrite(c)
            \/ UpdateBegin(c) \/ UpdateEnd(c) \/ Unlock(c)
Notify == NotifyStart \/ NotifyView \/ NotifyViewEnd \/ NotifyBegin \/ NotifyEnd

Next == \/ \E c \in Reading : Call(c)
        \/ \E c \in Writers : Write(c)
        \/ Notify
        \/ Grow \/ Remap

Spec == Init /\ [][Next]_vars

(* The steps that follow of themselves once a call, or a round, has begun.   *)
Reads(c) == \/ pc[c] = "view" /\ RLock(c)
            \/ ViewBegin(c) \/ ViewEnd(c) \/ RUnlock(c)
Writes(c) == Announce(c) \/ Lock(c) \/ UpdateBegin(c) \/ UpdateEnd(c) \/ Unlock(c)
Round == NotifyView \/ NotifyViewEnd \/ NotifyBegin \/ NotifyEnd

(* A call once started goes on, and so does a round of Walletnotify; at each *)
(* place only one of these steps is possible.  It may have to wait, but not  *)
(* for ever while it gets possible again and again (SF): the locks of        *)
(* sync.RWMutex and bolt are sync.Mutexes, which hand themselves to a        *)
(* goroutine that has waited for long, a remap lets the Views that wait for  *)
(* it in before the next, and an Update grows the file a few times at most.  *)
(* No call need be refused, and no new call or round need ever start.        *)
Fairness ==
    /\ \A c \in Reading : SF_vars(Reads(c))
    /\ \A c \in Writers : SF_vars(Writes(c))
    /\ SF_vars(Round)
    /\ WF_vars(Remap)

LiveSpec == Spec /\ Fairness

-----------------------------------------------------------------------------
Busy(c) == pc[c] # "idle" \/ c \in waiting

InLock == {"locked", "update", "again", "updating", "unlock"}

TypeOK ==
    /\ pc \in [Clients -> {"idle", "inside", "view", "inner", "viewed", "between", "last",
                           "queued", "pending"} \cup InLock]
    /\ held \in [Clients -> 0..2]
    /\ waiting \subseteq Reading
    /\ pending \in Writers \cup {None} /\ writer \in Writers \cup {None}
    /\ bolt \in Writers \cup {None, Notifier}
    /\ remap \in BOOLEAN
    /\ round \in 0..5

(* While a writing handler is between Lock and Unlock no reading handler is  *)
(* inside, and no other writer: the accounts it changes in memory before the *)
(* commit are not seen half done.  (Walletnotify is not covered: see Wallet.)*)
WriterAlone ==
    \A c \in Writers :
        pc[c] \in InLock =>
            /\ \A r \in Reading : held[r] = 0
            /\ \A d \in Writers \ {c} : pc[d] \notin InLock

(* A client waits for an RLock while it holds one: a writer has come between *)
(* the two, and waits for the first to be given back.  The client's db.View  *)
(* stays open (apis.go:132, 185).                                            *)
BlocksItself == \E r \in Reentrant : pc[r] = "view" /\ r \in waiting

(* The second RLock of getBalance is the only deadlock there is: unless a    *)
(* client blocks itself on it, every call returns, although writers wait for *)
(* `mutex', for bolt's lock, for Walletnotify and for the Views that a remap *)
(* waits for.  Walletnotify's round comes to its end even then, because a    *)
(* writer asks for bolt's lock only after it has got `mutex' and never keeps *)
(* bolt's while it waits; except that Walletnotify's own Update, when it has *)
(* to map the file anew, waits for the View of the client that blocks        *)
(* itself.                                                                   *)
OnlyReentryDeadlocks ==
    /\ \A c \in Clients : Busy(c) ~> ~Busy(c) \/ BlocksItself
    /\ []<>(round = 0 \/ (bolt = Notifier /\ remap /\ BlocksItself))

(* Walletnotify, which takes no lock of the handlers, goes on looking for    *)
(* transactions whatever becomes of them.  Not so in the code, since         *)
(* getBalance's second RLock can wait for ever with a View open.             *)
RoundsEnd == []<>(round = 0)
=============================================================================
