CONSTANTS
    MaxLen = 3
    Values <- MCValues
    Changes <- MCChanges
    Totals <- MCTotals
    FragmentLen = 3
    SeedTrits = 2
    BundleLetters <- MCBundleLetters
    FragmentSize = 2
    WideTrits = 6
    ValueTrits = 3
    FieldTrits = 3
    Stride = 30
    MaxChunkLength = 3
    Cosigners <- MCCosigners
    SeedOf <- MCSeeds
    MaxCosigners = 2
    MaxSignings = 4
    HashLetters <- MCHashLetters
    Transfers <- MCTransfers
SPECIFICATION MCSpec
CHECK_DEADLOCK FALSE
INVARIANTS
    SignedIsBalanced
    NeverRunsOut
    OnlyDrains
    LoopMatchesClosedForm
    SpendableWhenAllSigned
    CodecsInvert
    NoSignatureFollows
    SearchFindsFirst
    PartsStay
