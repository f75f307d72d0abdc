\* Two listeners, of deployments with and without the handler, and a transport
\* that delivers copies more than once.  Continuations are the only requeues.
SPECIFICATION Spec
CONSTANTS
    Consumers = {c1, c2}
    Publishers = {p1}
    Queues = {q1}
    DLQ = dlq
    None = none
    Kinds = {"one_off", "series"}
    Partial = TRUE
    PolicyMax = 1
    SpecLimit = 0
    Duplicates = TRUE
    MaxReclaim = 0
    MaxOcc = 1
    MaxGen = 2
    Stamps = {1, 2, 3, 4, 5, 6}
    ReaperStamp = reaper
SYMMETRY SlotSymmetry
CHECK_DEADLOCK FALSE
INVARIANTS
    OneHandlerPerGeneration
    EngagedRowIsFenced
PROPERTIES
    TerminalIsFinal
    ImplementsLifecycle
