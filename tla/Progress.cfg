CONSTANTS
    Plain = {p1}
    Reentrant = {g1}
    Writers = {w1, w2}
    Callers = {c1, c2}
    MaxWindows = 3
    b1 = b1
    b2 = b2
    Sent = {b1, b2}
    Size <- TwoAndOne
    Tips = {t1, t2}
    MaxTicks = 5
    Nodes = {"node", "ftp"}
    Unsupported = {"ftp"}
    MaxPieces = 2
SPECIFICATION MCSpec
CHECK_DEADLOCK FALSE
INVARIANTS
    WriterAlone
    UnlockedInWindow
    ResultIsWhole
PROPERTIES
    OnlyReentryDeadlocks
    EveryBundleGoesOut
    LocksAgain
    CommandIsAnswered
    TicksAreFifo
    EveryTickRuns
