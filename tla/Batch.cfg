CONSTANTS
    w1 = w1
    w2 = w2
    e1 = e1
    e2 = e2
    Workers = {w1, w2}
    Listeners = {w1, w2}
    Hooks <- RunHooks
    None = none
    Backlog <- RunBacklog
    BatchSize = 2
    Limit = 1
    PolicyMax = 1
    MaxReclaim = 1
    Swept = {"queue", "buffer"}
    Foreign <- RunForeign
    Scenarios <- RunScenarios
SPECIFICATION Spec
INVARIANTS
    TypeOK
    NoEventLost
    ExactlyOnce
    HooksBalanced
PROPERTIES
    
    FailClosed
    StopEndsRun
    BuffersDrain
