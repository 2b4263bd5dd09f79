CONSTANTS
    NAccounts = 1
    MaxAddrs <- Two
    MaxBundles = 2
    Deposits = {2}
    Payments = {1}
    Readers = {}
    Faults = {}
SPECIFICATION Spec
INVARIANTS
    SpendsCountOnce
