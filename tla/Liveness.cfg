\* A one-off job and a series of two occurrences, with up to two faults.
SPECIFICATION LiveSpec
CONSTANTS
    Consumers = {c1}
    Publishers = {p1}
    Queues = {q1}
    DLQ = dlq
    None = none
    Kinds = {"one_off", "series"}
    Partial = FALSE
    PolicyMax = 1
    SpecLimit = none
    Duplicates = TRUE
    MaxReclaim = 1
    MaxOcc = 2
    MaxGen = 5
    Stamps = {1, 2, 3, 4, 5, 6}
    ReaperStamp = reaper
    MaxFaults = 2
CHECK_DEADLOCK FALSE
PROPERTIES
    EventuallySettled
    IntentCarriedOut
    CancelTakesEffect
    ImplementsLifecycle
