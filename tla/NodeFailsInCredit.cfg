CONSTANTS
    NAccounts = 1
    MaxAddrs <- One
    MaxBundles = 1
    Deposits = {2}
    Payments = {1}
    Readers = {}
    Faults = {"node"}
SPECIFICATION Spec
INVARIANTS
    ConfirmedIsCredited
