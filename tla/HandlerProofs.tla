---------------------------- MODULE HandlerProofs ----------------------------
(* The guards of the handlers, mutex and the password, and powMutex, which   *)
(* the goroutines they start queue for.                                      *)
(*                                                                           *)
(* A writing handler is alone, for any number of clients of each kind.       *)
(* Every RLock a client holds is one its call has still to give back, so     *)
(* `held' follows from where the call is.  The writer that shuts readers out *)
(* (pending) gets the lock only when all have given theirs back, and from    *)
(* then on (writer) none is granted: a reader that comes waits for Unlock.   *)
(*                                                                           *)
(* The wallet is unlocked only inside a window, for any number of callers    *)
(* and of overlapping windows.  A window is started only by a caller that    *)
(* found the wallet locked.  Where no passphrase is asked for the wallet is  *)
(* unlocked from the start, so no caller ever gets there and no window       *)
(* exists that could lock it.  Where one is, the only step that unlocks the  *)
(* wallet opens a window, and the step that closes one locks the wallet,     *)
(* even if other windows are open.                                           *)
(*                                                                           *)
(* The mesh gets one attachment of a bundle and all of it is of one attempt, *)
(* for any number of bundles of any size and any tips.  Nothing of a bundle  *)
(* is stored before its attempt has succeeded, and from then on its          *)
(* transactions do not change (Kept).  While an attempt is under way, those  *)
(* behind txNo are chained to its tips (Chained); tra and txNo are of that   *)
(* attempt because the goroutine holds powMutex (Held).                      *)
EXTENDS RpcLocks, Passphrase, PowQueue, TLAPS, SequenceTheorems, FiniteSetTheorems

-----------------------------------------------------------------------------
(* The lock.                                                                 *)

(* The RLocks that a call at p has still to give back.                       *)
Owed(p) == IF p = "inner" THEN 2
           ELSE IF p \in {"inside", "view", "viewed", "between", "last"} THEN 1 ELSE 0

ReadersInStep ==
    \A c \in Reading : /\ pc[c] \in {"idle", "inside", "view", "inner", "viewed", "between", "last"}
                       /\ held[c] = Owed(pc[c])
                       /\ c \in waiting => pc[c] = "idle" \/ (pc[c] = "view" /\ c \notin Plain)

WritersInStep ==
    \A c \in Writers : /\ pc[c] \in {"idle", "queued", "pending"} \cup InLock
                       /\ held[c] = 0
                       /\ pc[c] = "pending" <=> pending = c
                       /\ pc[c] \in InLock <=> writer = c

Exclusion ==
    writer # None => pending = None /\ \A r \in Reading : held[r] = 0

LocksInv == TypeOK /\ ReadersInStep /\ WritersInStep /\ Exclusion

USE RpcLocksAssumption, PassphraseAssumption
    DEF Clients, Reading, None, Notifier, InLock, lockVars, boltVars

LEMMA InitLocks == Init => LocksInv
<1> SUFFICES ASSUME Init PROVE LocksInv
  OBVIOUS
<1>1. TypeOK
  <2>1. /\ pc = [c \in Clients |-> "idle"] /\ held = [c \in Clients |-> 0]
        /\ waiting = {} /\ pending = None /\ writer = None /\ bolt = None /\ round = 0
    BY DEF Init
  <2>2. remap \in BOOLEAN
    BY Zenon DEF Init
  <2>3. pc \in [Clients -> {"idle"}] /\ held \in [Clients -> 0..2] /\ round \in 0..5
    BY <2>1
  <2> QED
    BY <2>1, <2>2, <2>3 DEF TypeOK
<1>2. ReadersInStep /\ WritersInStep /\ Exclusion
  BY DEF Init, ReadersInStep, WritersInStep, Exclusion, Owed
<1> QED
  BY <1>1, <1>2 DEF LocksInv

LEMMA ReadingStep ==
    ASSUME LocksInv, NEW c \in Reading, Call(c)
    PROVE  LocksInv'
<1>1. CASE RLock(c) /\ ShutOut
  BY <1>1 DEF RLock, ShutOut, LocksInv, TypeOK, ReadersInStep, WritersInStep, Exclusion
<1>2. CASE RLock(c) /\ ~ShutOut
  <2>1. /\ pc' = [pc EXCEPT ![c] = AfterRLock(c)] /\ held' = [held EXCEPT ![c] = @ + 1]
        /\ pending = None /\ writer = None /\ pc[c] \in {"idle", "view"} /\ c \notin waiting
        /\ UNCHANGED <<waiting, pending, writer, boltVars>>
    BY <1>2 DEF RLock, ShutOut
  <2>2. /\ held[c] = Owed(pc[c]) /\ AfterRLock(c) \in {"inside", "inner"}
        /\ Owed(AfterRLock(c)) = held[c] + 1 /\ held[c] + 1 \in 0..2
    BY <2>1 DEF AfterRLock, Owed, LocksInv, ReadersInStep
  <2>3. TypeOK'
    BY <2>1, <2>2 DEF LocksInv, TypeOK
  <2>4. ReadersInStep' /\ WritersInStep' /\ Exclusion'
    BY <2>1, <2>2 DEF LocksInv, TypeOK, ReadersInStep, WritersInStep, Exclusion
  <2> QED
    BY <2>3, <2>4 DEF LocksInv
<1>3. CASE Refuse(c) \/ ViewBegin(c) \/ ViewEnd(c)
  <2>1. PICK p \in {"view", "viewed", "between", "last"} :
           /\ pc' = [pc EXCEPT ![c] = p] /\ UNCHANGED <<lockVars, boltVars>>
           /\ pc[c] \in {"inside", "between", "view", "viewed"}
           /\ pc[c] = "view" => c \in Plain
    BY <1>3 DEF Refuse, ViewBegin, ViewEnd, LocksInv, TypeOK
  <2>2. Owed(p) = held[c]
    BY <2>1 DEF Owed, LocksInv, ReadersInStep
  <2>3. c \notin waiting
    BY <2>1 DEF LocksInv, ReadersInStep
  <2>4. pc' \in [Clients -> {"idle", "inside", "view", "inner", "viewed", "between", "last",
                            "queued", "pending"} \cup InLock]
    BY <2>1 DEF LocksInv, TypeOK
  <2>5. TypeOK'
    BY <2>1, <2>4 DEF LocksInv, TypeOK
  <2>6. ReadersInStep'
    <3>1. /\ pc'[c] = p /\ held'[c] = Owed(p) /\ p # "idle"
          /\ \A d \in Reading \ {c} : pc'[d] = pc[d]
      BY <2>1, <2>2 DEF LocksInv, TypeOK
    <3>2. held' = held /\ waiting' = waiting
      BY <2>1
    <3> QED
      BY <2>1, <2>3, <3>1, <3>2 DEF LocksInv, ReadersInStep
  <2>7. WritersInStep' /\ Exclusion'
    BY <2>1 DEF LocksInv, TypeOK, WritersInStep, Exclusion
  <2> QED
    BY <2>5, <2>6, <2>7 DEF LocksInv
<1>4. CASE RUnlock(c)
  <2>1. PICK p \in {"viewed", "idle"} :
           /\ pc' = [pc EXCEPT ![c] = p] /\ held' = [held EXCEPT ![c] = @ - 1]
           /\ pc[c] \in {"inner", "last"} /\ p = IF pc[c] = "inner" THEN "viewed" ELSE "idle"
           /\ UNCHANGED <<waiting, pending, writer, boltVars>>
    BY <1>4 DEF RUnlock, Released, LocksInv, TypeOK
  <2>2. /\ held[c] = Owed(pc[c]) /\ Owed(p) = held[c] - 1 /\ held[c] - 1 \in 0..2
        /\ held[c] # 0 /\ c \notin waiting
    BY <2>1 DEF Owed, LocksInv, ReadersInStep
  <2>3. TypeOK'
    BY <2>1, <2>2 DEF LocksInv, TypeOK
  <2>4. ReadersInStep' /\ WritersInStep' /\ Exclusion'
    BY <2>1, <2>2 DEF LocksInv, TypeOK, ReadersInStep, WritersInStep, Exclusion
  <2> QED
    BY <2>3, <2>4 DEF LocksInv
<1> QED
  BY <1>1, <1>2, <1>3, <1>4 DEF Call

LEMMA WritingStep ==
    ASSUME LocksInv, NEW c \in Writers, Write(c)
    PROVE  LocksInv'
<1> USE DEF LocksInv, TypeOK
<1>1. CASE CallLock(c)
  BY <1>1 DEF CallLock, ReadersInStep, WritersInStep, Exclusion
<1>2. CASE Announce(c)
  BY <1>2 DEF Announce, ReadersInStep, WritersInStep, Exclusion
<1>3. CASE Lock(c)
  BY <1>3 DEF Lock, ReadersInStep, WritersInStep, Exclusion
<1>4. CASE RefuseWrite(c)
  BY <1>4 DEF RefuseWrite, ReadersInStep, WritersInStep, Exclusion
<1>5. CASE UpdateBegin(c)
  BY <1>5 DEF UpdateBegin, ReadersInStep, WritersInStep, Exclusion
<1>6. CASE UpdateEnd(c)
  BY <1>6 DEF UpdateEnd, Closed, ReadersInStep, WritersInStep, Exclusion
<1>7. CASE Unlock(c)
  <2>1. /\ waiting' = {} /\ writer' = None /\ UNCHANGED <<pending, boltVars>>
        /\ \A r \in Clients :
              /\ held'[r] = IF r \in waiting THEN held[r] + 1 ELSE held[r]
              /\ pc'[r] = IF r \in waiting THEN AfterRLock(r)
                          ELSE IF r = c THEN "idle" ELSE pc[r]
        /\ DOMAIN held' = Clients /\ DOMAIN pc' = Clients
    BY <1>7 DEF Unlock
  <2>2. \A r \in waiting :
           /\ r \in Reading /\ held[r] = Owed(pc[r])
           /\ AfterRLock(r) \in {"inside", "inner"}
           /\ Owed(AfterRLock(r)) = held[r] + 1 /\ held[r] + 1 \in 0..2
    BY DEF AfterRLock, Owed, ReadersInStep
  <2>3. ReadersInStep'
    BY <2>1, <2>2 DEF ReadersInStep
  <2>4. WritersInStep' /\ Exclusion'
    BY <1>7, <2>1, <2>2 DEF Unlock, WritersInStep, Exclusion
  <2>5. held' \in [Clients -> 0..2]
    BY <1>7, <2>2 DEF Unlock
  <2>6. TypeOK'
    BY <1>7, <2>1, <2>2, <2>5 DEF Unlock
  <2> QED
    BY <2>3, <2>4, <2>6
<1> QED
  BY <1>1, <1>2, <1>3, <1>4, <1>5, <1>6, <1>7 DEF Write

LEMMA NextLocks == LocksInv /\ [Next]_vars => LocksInv'
<1> SUFFICES ASSUME LocksInv, [Next]_vars PROVE LocksInv'
  OBVIOUS
<1>1. CASE Notify \/ Grow \/ Remap
  <2> USE DEF Notify, NotifyStart, NotifyView, NotifyViewEnd, NotifyBegin, NotifyEnd, Grow, Remap
  <2>1. /\ UNCHANGED <<pc, held, waiting, pending, writer>>
        /\ bolt' \in {bolt, None, Notifier}
    BY <1>1
  <2>2. round' \in 0..5
    BY <1>1 DEF LocksInv, TypeOK
  <2>3. remap' \in BOOLEAN
    <3>1. CASE Notify
      BY <3>1 DEF LocksInv, TypeOK
    <3>2. CASE Grow \/ Remap
      BY <3>2, Zenon
    <3> QED
      BY <1>1, <3>1, <3>2
  <2> QED
    BY <2>1, <2>2, <2>3 DEF LocksInv, TypeOK, ReadersInStep, WritersInStep, Exclusion
<1>2. CASE UNCHANGED vars
  BY <1>2 DEF vars, LocksInv, TypeOK, ReadersInStep, WritersInStep, Exclusion
<1> QED
  BY <1>1, <1>2, ReadingStep, WritingStep DEF Next

(* While a writing handler is between Lock and Unlock no other handler is    *)
(* inside, reading or writing, however many clients call.                    *)
THEOREM WriterIsAlone == Spec => []WriterAlone
<1>1. ASSUME LocksInv PROVE WriterAlone
  <2> SUFFICES ASSUME NEW c \in Writers, pc[c] \in InLock
               PROVE  /\ \A r \in Reading : held[r] = 0
                      /\ \A d \in Writers \ {c} : pc[d] \notin InLock
    BY DEF WriterAlone
  <2>1. writer = c /\ \A d \in Writers \ {c} : writer # d
    BY <1>1 DEF LocksInv, WritersInStep
  <2>2. writer # None
    BY <2>1
  <2>3. \A r \in Reading : held[r] = 0
    BY <1>1, <2>2 DEF LocksInv, Exclusion
  <2>4. \A d \in Writers \ {c} : pc[d] \notin InLock
    BY <1>1, <2>1 DEF LocksInv, WritersInStep
  <2> QED
    BY <2>3, <2>4
<1> QED
  BY <1>1, InitLocks, NextLocks, PTL DEF Spec

-----------------------------------------------------------------------------
(* The password.                                                             *)

NeverAsked ==
    ~passphrase => windows = <<>> /\ \A c \in Callers : stage[c] # "asking"

PassInv == PassTypeOK /\ NeverAsked /\ UnlockedInWindow

LEMMA InitPass == PassInit => PassInv
<1> SUFFICES ASSUME PassInit PROVE PassInv
  OBVIOUS
<1>1. windows \in Seq({"starting", "open", "over"}) /\ windows = <<>>
  BY EmptySeq DEF PassInit
<1> QED
  BY <1>1 DEF PassInit, PassInv, PassTypeOK, NeverAsked, UnlockedInWindow

(* A caller's step that starts no window.                                    *)
LEMMA CallerStep ==
    ASSUME PassInv, NEW c \in Callers,
           Ask(c) \/ WrongPassword(c) \/ CheckPrivileged(c) \/ Return(c)
    PROVE  PassInv'
<1>1. UNCHANGED <<passphrase, privileged, windows>>
  BY DEF Ask, WrongPassword, CheckPrivileged, Return
<1>2. /\ stage' \in [Callers -> {"ready", "asking", "sending"}]
      /\ ~passphrase => \A d \in Callers : stage'[d] # "asking"
  BY DEF PassInv, PassTypeOK, NeverAsked, UnlockedInWindow, AlreadyUnlocked,
         Ask, WrongPassword, CheckPrivileged, Return
<1> QED
  BY <1>1, <1>2 DEF PassInv, PassTypeOK, NeverAsked, UnlockedInWindow

(* Starting a window leaves the older ones as they are.                      *)
LEMMA GrantStep ==
    ASSUME PassInv, NEW c \in Callers, RightPassword(c)
    PROVE  PassInv'
<1>1. /\ passphrase /\ passphrase' /\ privileged' = privileged
      /\ windows' = Append(windows, "starting")
  BY DEF RightPassword, PassInv, PassTypeOK, NeverAsked
<1>2. windows \in Seq({"starting", "open", "over"})
  BY DEF PassInv, PassTypeOK
<1>3. /\ windows' \in Seq({"starting", "open", "over"})
      /\ Len(windows) \in Nat
      /\ DOMAIN windows = 1..Len(windows) /\ DOMAIN windows' = 1..(Len(windows) + 1)
      /\ \A w \in 1..Len(windows) : windows'[w] = windows[w]
  BY <1>1, <1>2, AppendProperties, LenProperties
<1>4. PassTypeOK'
  BY <1>3 DEF RightPassword, PassInv, PassTypeOK
<1>5. UnlockedInWindow'
  BY <1>1, <1>3 DEF PassInv, UnlockedInWindow
<1> QED
  BY <1>1, <1>4, <1>5 DEF PassInv, NeverAsked

(* A window's goroutine sets the flag and its own state.                     *)
LEMMA WindowStep ==
    ASSUME PassInv, NEW w \in DOMAIN windows, Open(w) \/ Close(w)
    PROVE  PassInv'
<1>1. windows \in Seq({"starting", "open", "over"}) /\ windows # <<>>
  BY DEF PassInv, PassTypeOK
<1>2. PICK s \in {"open", "over"} :
         /\ windows' = [windows EXCEPT ![w] = s]
         /\ privileged' = (s = "open")
         /\ UNCHANGED <<passphrase, stage>>
  BY DEF Open, Close, NotPrivileged
<1>3. /\ windows' \in Seq({"starting", "open", "over"})
      /\ w \in DOMAIN windows' /\ windows'[w] = s
  BY <1>1, <1>2, ExceptSeq, LenProperties
<1>4. passphrase
  BY <1>1 DEF PassInv, NeverAsked
<1>5. PassTypeOK'
  BY <1>2, <1>3 DEF PassInv, PassTypeOK
<1> QED
  BY <1>2, <1>3, <1>4, <1>5 DEF PassInv, NeverAsked, UnlockedInWindow

LEMMA NextPass == PassInv /\ [PassNext]_passVars => PassInv'
<1> SUFFICES ASSUME PassInv, [PassNext]_passVars PROVE PassInv'
  OBVIOUS
<1>1. CASE PassNext
  BY <1>1, CallerStep, GrantStep, WindowStep DEF PassNext
<1>2. CASE UNCHANGED passVars
  BY <1>2 DEF passVars, PassInv, PassTypeOK, NeverAsked, UnlockedInWindow
<1> QED
  BY <1>1, <1>2

(* The wallet is unlocked only while a window is open that somebody with the *)
(* password asked for; without a passphrase it is never locked.              *)
THEOREM OnlyInWindow == PassSpec => []UnlockedInWindow
<1>1. PassInv => UnlockedInWindow
  BY DEF PassInv
<1> QED
  BY <1>1, InitPass, NextPass, PTL DEF PassSpec

-----------------------------------------------------------------------------
(* The goroutines of sent bundles.                                           *)
Holding   == {"approve", "pow", "retry", "store", "broadcast", "resend"}
Unworked  == {"unsent", "queued", "approve", "pow", "retry"}
Attached  == {"store", "broadcast", "resend", "sent"}

Shapes ==
    /\ at \in [Sent -> Unworked \cup Attached \cup {"lost"}]
    /\ DOMAIN ts = Sent /\ DOMAIN stored = Sent /\ DOMAIN out = Sent
    /\ \A b \in Sent : /\ DOMAIN ts[b] = 1..Size[b]
                       /\ \A k \in 1..Size[b] : ts[b][k].worked \in BOOLEAN

Held(b) == at[b] \in Holding => powMutex = b

(* The transactions behind n point to each other and to the tip.             *)
ChainedBehind(txs, n, tip) ==
    \A k \in DOMAIN txs : k > n =>
        IF k + 1 \in DOMAIN txs THEN txs[k].trunk = txs[k + 1] /\ txs[k].branch = tip
        ELSE txs[k].trunk = tip

Chained(b) == at[b] = "pow" => txNo \in 1..Size[b] /\ ChainedBehind(ts[b], txNo, tra.trunk)

Kept(b) ==
    /\ at[b] \in Unworked => stored[b] = {}
    /\ at[b] \in Attached => IsChain(ts[b])
    /\ stored[b] \subseteq {ts[b]} /\ out[b] \subseteq stored[b]
    /\ \A txs \in stored[b] : IsChain(txs)
    /\ at[b] \in {"broadcast", "sent"} => ts[b] \in stored[b]
    /\ at[b] = "sent" => out[b] # {}

Good(b) == Held(b) /\ Chained(b) /\ Kept(b)

PowInv == Shapes /\ \A b \in Sent : Good(b)

USE PowAssumption

LEMMA InitPow == PowInit => PowInv
  BY DEF PowInit, PowInv, Shapes, Good, Held, Chained, Kept, Holding, Unworked, Attached,
         Unattached

(* A step of b's goroutine leaves the others alone: none of them is at its   *)
(* proof of work while b holds powMutex.                                     *)
LEMMA OthersGood ==
    ASSUME PowInv, NEW b \in Sent, NEW c \in Sent, c # b,
           at'[c] = at[c], ts'[c] = ts[c], stored'[c] = stored[c], out'[c] = out[c],
           \/ at[b] \in Holding
           \/ powMutex = "free" /\ UNCHANGED <<tra, txNo>>
           \/ UNCHANGED <<powMutex, tra, txNo>>
    PROVE  Good(c)'
<1>1. Good(c) /\ Good(b)
  BY DEF PowInv
<1>2. Kept(c)'
  BY <1>1 DEF Good, Kept
<1>3. CASE UNCHANGED <<powMutex, tra, txNo>>
  BY <1>1, <1>2, <1>3 DEF Good, Held, Chained, ChainedBehind
<1>4. CASE at[b] \in Holding \/ powMutex = "free"
  <2>1. at[c] \notin Holding
    BY <1>1, <1>4 DEF Good, Held
  <2> QED
    BY <1>2, <2>1 DEF Good, Held, Chained, Holding
<1> QED
  BY <1>3, <1>4

(* A step that leaves the transactions alone and does not enter the proof of *)
(* work.                                                                     *)
LEMMA QuietStep ==
    ASSUME PowInv, NEW b \in Sent,
           StartGoroutine(b) \/ LockPow(b) \/ Store(b) \/ BroadcastTransactions(b)
             \/ NodeFails(b) \/ Awake(b)
    PROVE  PowInv'
<1> USE DEF StartGoroutine, LockPow, Store, BroadcastTransactions, NodeFails, Awake, Goes,
            SendAgain
<1>1. Good(b) /\ Shapes
  BY DEF PowInv
<1>2. /\ ts' = ts /\ at' \in [Sent -> Unworked \cup Attached \cup {"lost"}]
      /\ DOMAIN stored' = Sent /\ DOMAIN out' = Sent
      /\ \A c \in Sent : c # b => at'[c] = at[c] /\ stored'[c] = stored[c] /\ out'[c] = out[c]
      /\ \/ at[b] \in Holding
         \/ powMutex = "free" /\ UNCHANGED <<tra, txNo>>
         \/ UNCHANGED <<powMutex, tra, txNo>>
  BY <1>1 DEF Shapes, Unworked, Attached, Holding
<1>3. Shapes'
  BY <1>1, <1>2 DEF Shapes
<1>4. \A c \in Sent : c # b => Good(c)'
  BY <1>2, OthersGood
<1>5. Held(b)' /\ Chained(b)'
  BY <1>1 DEF Good, Held, Chained, Shapes, Holding
<1>6. Kept(b)'
  <2>1. CASE StartGoroutine(b) \/ LockPow(b) \/ Awake(b)
    <3>1. stored'[b] = stored[b] /\ out'[b] = out[b] /\ at'[b] \notin {"broadcast", "sent"}
      BY <1>1, <2>1 DEF Shapes
    <3>2. /\ at'[b] \in Unworked => at[b] \in Unworked
          /\ at'[b] \in Attached => at[b] \in Attached
      BY <1>1, <2>1 DEF Shapes, Unworked, Attached
    <3> QED
      BY <1>1, <1>2, <3>1, <3>2 DEF Good, Kept
  <2>2. CASE Store(b)
    <3>1. at[b] = "store" /\ at'[b] = "broadcast" /\ stored'[b] = stored[b] \cup {ts[b]}
      BY <1>1, <2>2 DEF Shapes
    <3>2. out'[b] = out[b]
      BY <2>2
    <3> QED
      BY <1>1, <1>2, <3>1, <3>2 DEF Good, Kept, Unworked, Attached
  <2>3. CASE BroadcastTransactions(b)
    <3>1. at[b] = "broadcast" /\ at'[b] = "sent" /\ out'[b] = out[b] \cup {ts[b]}
      BY <1>1, <2>3 DEF Shapes
    <3>2. stored'[b] = stored[b]
      BY <2>3
    <3> QED
      BY <1>1, <1>2, <3>1, <3>2 DEF Good, Kept, Unworked, Attached
  <2>4. CASE NodeFails(b)
    <3>1. CASE at[b] = "approve"
      <4>1. at'[b] = "retry" /\ stored'[b] = stored[b] /\ out'[b] = out[b]
        BY <1>1, <2>4, <3>1 DEF Shapes
      <4> QED
        BY <1>1, <1>2, <3>1, <4>1 DEF Good, Kept, Unworked, Attached
    <3>2. CASE at[b] = "store"
      <4>1. /\ at'[b] = "resend" /\ out'[b] = out[b]
            /\ stored'[b] \in {stored[b], stored[b] \cup {ts[b]}}
        BY <1>1, <2>4, <3>2 DEF Shapes
      <4> QED
        BY <1>1, <1>2, <3>2, <4>1 DEF Good, Kept, Unworked, Attached
    <3>3. CASE at[b] = "broadcast"
      <4>1. /\ at'[b] = "resend" /\ stored'[b] = stored[b]
            /\ out'[b] \in {out[b], out[b] \cup {ts[b]}}
        BY <1>1, <2>4, <3>3 DEF Shapes
      <4> QED
        BY <1>1, <1>2, <3>3, <4>1 DEF Good, Kept, Unworked, Attached
    <3> QED
      BY <2>4, <3>1, <3>2, <3>3
  <2> QED
    BY <2>1, <2>2, <2>3, <2>4
<1> QED
  BY <1>3, <1>4, <1>5, <1>6 DEF PowInv, Good

LEMMA ApproveStep ==
    ASSUME PowInv, NEW b \in Sent, Approve(b)
    PROVE  PowInv'
<1> USE DEF Approve, Goes
<1>1. Good(b) /\ Shapes /\ at[b] = "approve" /\ at[b] \in Holding
  BY DEF PowInv, Holding
<1>2. Shapes'
  BY <1>1 DEF Shapes, Unworked, Attached
<1>3. \A c \in Sent : c # b => Good(c)'
  BY <1>1, OthersGood DEF Shapes
<1>4. at'[b] = "pow" /\ txNo' = Size[b] /\ Size[b] \in Nat \ {0}
  BY <1>1 DEF Shapes
<1>5. Held(b)' /\ Chained(b)' /\ Kept(b)'
  <2>1. DOMAIN ts'[b] = 1..Size[b] /\ txNo' \in 1..Size[b]
    BY <1>1, <1>4 DEF Shapes
  <2>2. ChainedBehind(ts'[b], txNo', tra'.trunk)
    BY <1>4, <2>1 DEF ChainedBehind
  <2>3. Held(b)' /\ Chained(b)'
    BY <1>1, <2>1, <2>2 DEF Good, Held, Chained
  <2>4. ts' = ts /\ stored' = stored /\ out' = out
    OBVIOUS
  <2>5. Kept(b)'
    BY <1>1, <1>4, <2>4 DEF Good, Kept, Unworked, Attached
  <2> QED
    BY <2>3, <2>5
<1> QED
  BY <1>2, <1>3, <1>5 DEF PowInv, Good

(* Transactions that are chained and have worked are a chain.                *)
LEMMA ChainedIsChain ==
    ASSUME NEW size \in Nat \ {0}, NEW txs, DOMAIN txs = 1..size, NEW tip,
           ChainedBehind(txs, 0, tip), \A k \in 1..size : txs[k].worked
    PROVE  IsChain(txs)
<1>1. Cardinality(DOMAIN txs) = size
  BY FS_Interval
<1>2. txs[size].trunk = tip
  BY DEF ChainedBehind
<1>3. ASSUME NEW k \in 1..size, k + 1 \in 1..size
      PROVE  txs[k].trunk = txs[k + 1] /\ txs[k].branch = tip
  BY <1>3 DEF ChainedBehind
<1> QED
  BY <1>1, <1>2, <1>3 DEF IsChain

LEMMA WorkStep ==
    ASSUME PowInv, NEW b \in Sent, NEW nonce, Work(b, nonce)
    PROVE  PowInv'
<1> DEFINE tx == [trunk |-> Pointing(b).trunk, branch |-> Pointing(b).branch,
                  worked |-> nonce = "valid"]
           goesOn == nonce # "error" /\ txNo > 1
<1>1. /\ at[b] = "pow" /\ at[b] \in Holding /\ Good(b) /\ Shapes
      /\ Size[b] \in Nat \ {0} /\ txNo \in 1..Size[b] /\ ChainedBehind(ts[b], txNo, tra.trunk)
  BY DEF Work, PowInv, Good, Chained, Holding
<1>2. /\ ts' = [ts EXCEPT ![b][txNo] = tx] /\ UNCHANGED <<powMutex, stored, out>>
      /\ goesOn => txNo' = txNo - 1 /\ UNCHANGED <<at, tra>>
      /\ ~goesOn => at' = [at EXCEPT ![b] = IF \A k \in 1..Size[b] : ts'[b][k].worked
                                           THEN "store" ELSE "retry"]
  BY DEF Work
<1>3. /\ DOMAIN ts' = Sent /\ DOMAIN ts'[b] = 1..Size[b]
      /\ ts'[b][txNo] = tx
      /\ \A k \in 1..Size[b] : k # txNo => ts'[b][k] = ts[b][k]
      /\ \A c \in Sent : c # b => ts'[c] = ts[c]
  BY <1>1, <1>2 DEF Shapes
<1>w. ts'[b][txNo].worked <=> nonce = "valid"
  <2>1. tx.worked = (nonce = "valid")
    BY Zenon
  <2> QED
    BY <1>3, <2>1, Zenon
<1>v. ts'[b][txNo].worked \in BOOLEAN
  <2>1. tx.worked = (nonce = "valid")
    BY Zenon
  <2>2. ts'[b][txNo].worked = (nonce = "valid")
    BY <1>3, <2>1, Zenon
  <2>3. (nonce = "valid") \in BOOLEAN
    OBVIOUS
  <2> QED
    BY <2>2, <2>3, Zenon
<1> HIDE DEF tx
<1>4. /\ at' \in [Sent -> Unworked \cup Attached \cup {"lost"}]
      /\ \A c \in Sent : c # b => at'[c] = at[c]
      /\ at'[b] \in {"pow", "store", "retry"}
  <2>1. CASE goesOn
    BY <1>1, <1>2, <2>1 DEF Shapes
  <2>2. CASE ~goesOn
    <3>1. at' = [at EXCEPT ![b] = "store"] \/ at' = [at EXCEPT ![b] = "retry"]
      BY <1>2, <2>2
    <3>2. "store" \in Attached /\ "retry" \in Unworked
      BY DEF Unworked, Attached
    <3> QED
      BY <1>1, <3>1, <3>2 DEF Shapes
  <2> QED
    BY <2>1, <2>2
<1>5. Shapes'
  <2>1. \A k \in 1..Size[b] : ts'[b][k].worked \in BOOLEAN
    <3>1. \A k \in 1..Size[b] : k # txNo => ts'[b][k].worked \in BOOLEAN
      BY <1>1, <1>3 DEF Shapes
    <3> QED
      BY <1>1, <1>v, <3>1
  <2> QED
    BY <1>1, <1>2, <1>3, <1>4, <2>1 DEF Shapes
<1>6. \A c \in Sent : c # b => Good(c)'
  BY <1>1, <1>2, <1>3, <1>4, OthersGood
<1>7. ChainedBehind(ts'[b], txNo - 1, tra.trunk)
  <2> SUFFICES ASSUME NEW k \in 1..Size[b], k > txNo - 1
               PROVE  IF k + 1 \in 1..Size[b]
                      THEN ts'[b][k].trunk = ts'[b][k + 1] /\ ts'[b][k].branch = tra.trunk
                      ELSE ts'[b][k].trunk = tra.trunk
    BY <1>3 DEF ChainedBehind
  <2>1. CASE k = txNo
    <3>1. txNo = Size[b] => tx.trunk = tra.trunk
      BY DEF tx, Pointing
    <3>2. txNo # Size[b] => tx.trunk = ts[b][txNo + 1] /\ tx.branch = tra.trunk
      BY DEF tx, Pointing
    <3> QED
      BY <1>1, <1>3, <2>1, <3>1, <3>2
  <2>2. CASE k > txNo
    <3>1. IF k + 1 \in 1..Size[b]
          THEN ts[b][k].trunk = ts[b][k + 1] /\ ts[b][k].branch = tra.trunk
          ELSE ts[b][k].trunk = tra.trunk
      BY <1>1, <2>2 DEF ChainedBehind, Shapes
    <3> QED
      BY <1>1, <1>3, <2>2, <3>1
  <2> QED
    BY <1>1, <2>1, <2>2
<1>8. Held(b)'
  BY <1>1, <1>2 DEF Good, Held, Holding
<1>9. Chained(b)'
  <2>1. CASE goesOn
    BY <1>1, <1>2, <1>7, <2>1 DEF Chained
  <2>2. CASE ~goesOn
    BY <1>1, <1>2, <2>2 DEF Chained, Shapes
  <2> QED
    BY <2>1, <2>2
<1>10. Kept(b)'
  <2>1. stored[b] = {} /\ out[b] = {}
    BY <1>1 DEF Good, Kept, Unworked
  <2>2. at'[b] = "store" => IsChain(ts'[b])
    <3>1. CASE goesOn
      BY <1>1, <1>2, <3>1
    <3>2. CASE ~goesOn /\ \A k \in 1..Size[b] : ts'[b][k].worked
      <4>1. nonce # "error"
        BY <1>1, <1>w, <3>2
      <4>2. txNo = 1
        BY <1>1, <3>2, <4>1
      <4> QED
        BY <1>1, <1>3, <1>7, <3>2, <4>2, ChainedIsChain
    <3>3. CASE ~goesOn /\ ~(\A k \in 1..Size[b] : ts'[b][k].worked)
      BY <1>1, <1>2, <3>3 DEF Shapes
    <3> QED
      BY <3>1, <3>2, <3>3
  <2> QED
    BY <1>2, <1>4, <2>1, <2>2 DEF Kept, Unworked, Attached
<1> QED
  BY <1>5, <1>6, <1>8, <1>9, <1>10 DEF PowInv, Good

LEMMA LoseStep == PowInv /\ LoseGoroutines => PowInv'
<1> SUFFICES ASSUME PowInv, LoseGoroutines PROVE PowInv'
  OBVIOUS
<1>1. /\ ts' = ts /\ stored' = stored /\ out' = out
      /\ \A b \in Sent : \/ at'[b] = at[b] /\ at[b] \in {"unsent", "sent"}
                        \/ at'[b] = "lost"
      /\ at' \in [Sent -> Unworked \cup Attached \cup {"lost"}]
  BY DEF LoseGoroutines, Unworked, Attached
<1>2. Shapes'
  BY <1>1 DEF PowInv, Shapes
<1>3. ASSUME NEW b \in Sent PROVE Good(b)'
  <2>1. Kept(b)'
    BY <1>1 DEF PowInv, Good, Kept, Unworked, Attached
  <2>2. Held(b)' /\ Chained(b)'
    BY <1>1 DEF Held, Chained, Holding
  <2> QED
    BY <2>1, <2>2 DEF Good
<1> QED
  BY <1>2, <1>3 DEF PowInv

LEMMA NextPow == PowInv /\ [PowNext]_powVars => PowInv'
<1> SUFFICES ASSUME PowInv, [PowNext]_powVars PROVE PowInv'
  OBVIOUS
<1>1. CASE UNCHANGED powVars
  BY <1>1 DEF powVars, PowInv, Shapes, Good, Held, Chained, Kept
<1>2. CASE PowNext
  BY <1>2, QuietStep, ApproveStep, WorkStep, LoseStep DEF PowNext, Goroutine, Trouble
<1> QED
  BY <1>1, <1>2

LEMMA GoodIsAttachedOnce ==
    ASSUME NEW b \in Sent, Good(b)
    PROVE  AttachedOnce(b)
<1>1. stored[b] = {} \/ stored[b] = {ts[b]}
  BY DEF Good, Kept
<1>2. Cardinality(stored[b]) <= 1
  <2>1. CASE stored[b] = {}
    BY <2>1, FS_EmptySet
  <2>2. CASE stored[b] = {ts[b]}
    <3>1. Cardinality({ts[b]}) = 1
      BY FS_Singleton
    <3> QED
      BY <2>2, <3>1
  <2> QED
    BY <1>1, <2>1, <2>2
<1> QED
  BY <1>2 DEF AttachedOnce, Good, Kept

(* However often a bundle is tried, and whenever the process ends, the mesh  *)
(* gets at most one attachment of it: a chain to the tips of one attempt.    *)
THEOREM OneAttachment == PowSpec => [](\A b \in Sent : AttachedOnce(b))
<1>1. PowInv => \A b \in Sent : AttachedOnce(b)
  BY GoodIsAttachedOnce DEF PowInv
<1> QED
  BY <1>1, InitPow, NextPow, PTL DEF PowSpec
=============================================================================
