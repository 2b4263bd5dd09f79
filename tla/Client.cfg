CONSTANTS
    c1 = c1
    c2 = c2
    Calls = {c1, c2}
    Plans <- MCPlans
    Histories <- MCHistories
    FragmentSize = 2
    Stride = 2
    BatchSize = 2
    MaxSpan = 5
    MaxAddress = 2
    MaxArrivals = 1
    MaxConfirmed = 1
    MaxFaults = 1
SPECIFICATION Spec
CHECK_DEADLOCK FALSE
INVARIANTS
    AnsweredAtMostOnce
    AnnouncedIsValid
    AnswerTellsTheFate
PROPERTIES
    NewAddressWasFirstUnused
    QuietAnswersAreExact
    EventuallyAnswered
