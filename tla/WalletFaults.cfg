CONSTANTS
    NAccounts = 2
    MaxAddrs <- TwoAndOne
    MaxBundles = 2
    Deposits = {2}
    Payments = {1}
    Readers = {r1}
    Faults = {"node", "commit", "crash", "refresh"}
SPECIFICATION Spec
INVARIANTS
    HashesStored
PROPERTIES
    EntriesInOrder
