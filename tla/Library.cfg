CONSTANTS
    Sinks = {"d1", "d2"}
    Chunks <- MCChunks
    SourceHWM = 2
    ThroughHWM = 2
    SinkHWM = 2
    Setups <- MCSetups
    MaxOps <- MCMaxOps
    MaxErrors = 1
    Listeners <- MCListeners
    EventTypes <- MCEventTypes
    MaxCalls = 4
    MaxDepth = 7
    MaxElements = 4
    Limits = {1, 2}
    MaxTasks = 3
    MaxSwitches = 2
    QueueKinds <- MCQueueKinds
    Graphs <- MCGraphs
    Concurrencies = {1, 2}
    FlowTasks = 3
    Callers = {1, 2, 3}
SPECIFICATION MCSpec
CHECK_DEADLOCK FALSE
INVARIANTS
    FinishIsLast
    Backpressure
    NothingStalls
    ListenersAreCalled
    EachIsRight
    TasksRunOnce
    AutoIsRight
    FlowIsRight
PROPERTIES
    PipeIsFifo
