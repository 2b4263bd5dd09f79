CONSTANTS
    NAccounts = 1
    MaxAddrs <- Three
    MaxBundles = 3
    Deposits = {1, 2}
    Payments = {1, 2}
    Readers = {}
    Faults = {"refresh"}
SPECIFICATION Spec
INVARIANTS
    LedgerExact
    NoDoubleSpend
    ConfirmedIsCredited
PROPERTIES
    FreshAddresses
