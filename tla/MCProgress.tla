----------------------------- MODULE MCProgress -----------------------------
(* The small parts in which someone waits: the handlers' locks, the windows  *)
(* of walletpassphrase, the queue for the proof of work, process.nextTick    *)
(* and a command to a node.  Each is explored by itself while the others     *)
(* rest in an initial state, where no step that is to be fair is enabled.    *)
EXTENDS RpcLocks, Passphrase, PowQueue, Ticks, Http

CONSTANTS b1, b2
VARIABLE part

(* One bundle whose transactions have to be chained, and a shorter one.      *)
TwoAndOne == [b \in {b1, b2} |-> IF b = b1 THEN 2 ELSE 1]

MCInit ==
    /\ part \in {"locks", "passphrase", "pow", "ticks", "http"}
    /\ Init /\ TicksInit /\ PowInit
    /\ PassInit /\ (part # "passphrase" => passphrase)
    /\ HttpInit
    /\ part # "http" =>
          /\ provider = CHOOSE n \in Nodes : TRUE
          /\ capability = CHOOSE c \in Capabilities : CapabilityOK(c)
          /\ answer = [status |-> 200, kind |-> "object", size |-> 1]

MCNext ==
    /\ UNCHANGED part
    /\ IF part = "locks" THEN Next ELSE UNCHANGED vars
    /\ IF part = "passphrase" THEN PassNext ELSE UNCHANGED passVars
    /\ IF part = "pow" THEN PowNext ELSE UNCHANGED powVars
    /\ IF part = "ticks" THEN TicksNext ELSE UNCHANGED tickVars
    /\ IF part = "http" THEN HttpNext ELSE UNCHANGED httpVars

MCSpec ==
    /\ MCInit /\ [][MCNext]_<<part, vars, passVars, powVars, tickVars, httpVars>>
    /\ Fairness
    /\ \A w \in 1..MaxWindows : WF_passVars(w \in DOMAIN windows /\ (Open(w) \/ Close(w)))
    /\ PowFair
    /\ WF_tickVars(DrainTimer) /\ WF_tickVars(CleanUpNextTick)
    /\ WF_tickVars(Run) /\ WF_tickVars(TakesMore)
    /\ WF_httpVars(Progress)
=============================================================================
