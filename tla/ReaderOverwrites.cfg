CONSTANTS
    NAccounts = 1
    MaxAddrs <- Two
    MaxBundles = 2
    Deposits = {2}
    Payments = {1}
    Readers = {r1}
    Faults = {}
SPECIFICATION Spec
INVARIANTS
    LedgerExact
