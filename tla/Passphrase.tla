----------------------------- MODULE Passphrase -----------------------------
(* walletpassphrase and the senders' check of it (aidos/send_api.go).  A     *)
(* call that finds the wallet locked checks the password, starts a goroutine *)
(* (a "window") and returns; the goroutine sets `privileged', sleeps for the *)
(* seconds asked for and clears it.  sendmany, sendfrom and sendtoaddress    *)
(* read `privileged' before they queue for `mutex'.  pmutex makes each       *)
(* access of `privileged' atomic, and no more than that.                     *)
(*                                                                           *)
(* How long a window sleeps is left open: it closes at any later time.       *)
EXTENDS Naturals, Sequences

CONSTANTS Callers,
          MaxWindows  \* bound: windows ever started

ASSUME PassphraseAssumption == MaxWindows \in Nat

VARIABLES passphrase, \* conf.PassPhrase: is one asked for at all?
          privileged,
          windows,    \* the state of each window's goroutine, by age
          stage       \* where each caller's call is

passVars == <<passphrase, privileged, windows, stage>>

(* ParseConf: without a passphrase the wallet is unlocked from the start.    *)
PassInit ==
    /\ passphrase \in BOOLEAN
    /\ privileged = ~passphrase
    /\ windows = <<>>
    /\ stage = [c \in Callers |-> "ready"]

(* walletpassphrase: an unlocked wallet is left as it is and the call        *)
(* returns at once (its seconds do not count).  A slip would be to ask again *)
(* always.                                                                   *)
AlwaysAsk == FALSE
AlreadyUnlocked == privileged

Ask(c) ==
    /\ stage[c] = "ready"
    /\ ~AlreadyUnlocked
    /\ stage' = [stage EXCEPT ![c] = "asking"]
    /\ UNCHANGED <<passphrase, privileged, windows>>

WrongPassword(c) ==
    /\ stage[c] = "asking"
    /\ stage' = [stage EXCEPT ![c] = "ready"]
    /\ UNCHANGED <<passphrase, privileged, windows>>

RightPassword(c) ==
    /\ stage[c] = "asking"
    /\ Len(windows) < MaxWindows
    /\ windows' = Append(windows, "starting")
    /\ stage' = [stage EXCEPT ![c] = "ready"]
    /\ UNCHANGED <<passphrase, privileged>>

(* The goroutine of a window: unlock, sleep, lock.                           *)
Open(w) ==
    /\ windows[w] = "starting"
    /\ privileged' = TRUE
    /\ windows' = [windows EXCEPT ![w] = "open"]
    /\ UNCHANGED <<passphrase, stage>>

(* A slip would be to forget the second assignment.                          *)
StillPrivileged == privileged
NotPrivileged == FALSE

Close(w) ==
    /\ windows[w] = "open"
    /\ privileged' = NotPrivileged
    /\ windows' = [windows EXCEPT ![w] = "over"]
    /\ UNCHANGED <<passphrase, stage>>

(* A sender that passes the check (one that does not returns an error), and  *)
(* the payment it makes once it has got `mutex', which may be much later.    *)
CheckPrivileged(c) ==
    /\ stage[c] = "ready"
    /\ privileged
    /\ stage' = [stage EXCEPT ![c] = "sending"]
    /\ UNCHANGED <<passphrase, privileged, windows>>

Return(c) ==
    /\ stage[c] = "sending"
    /\ stage' = [stage EXCEPT ![c] = "ready"]
    /\ UNCHANGED <<passphrase, privileged, windows>>

PassNext ==
    \/ \E c \in Callers : \/ Ask(c) \/ WrongPassword(c) \/ RightPassword(c)
                          \/ CheckPrivileged(c) \/ Return(c)
    \/ \E w \in DOMAIN windows : Open(w) \/ Close(w)

PassSpec == PassInit /\ [][PassNext]_passVars

(* A goroutine is scheduled, and a sleep ends.                               *)
PassLive ==
    /\ PassSpec
    /\ \A w \in 1..MaxWindows : WF_passVars(w \in DOMAIN windows /\ (Open(w) \/ Close(w)))

-----------------------------------------------------------------------------
PassTypeOK ==
    /\ passphrase \in BOOLEAN /\ privileged \in BOOLEAN
    /\ windows \in Seq({"starting", "open", "over"})
    /\ stage \in [Callers -> {"ready", "asking", "sending"}]

(* The wallet is unlocked only inside a window that somebody with the        *)
(* password asked for; and one that has no passphrase is never locked, since *)
(* no window can be started there that would lock it at its end.             *)
UnlockedInWindow ==
    IF passphrase
    THEN privileged => \E w \in DOMAIN windows : windows[w] = "open"
    ELSE privileged

(* An unlocked wallet that has a passphrase is locked again eventually,      *)
(* however the windows overlap.                                              *)
LocksAgain == passphrase /\ privileged ~> ~privileged
=============================================================================
