\* A one-off job and a series of two occurrences, one listener and one runner,
\* every fault at every step; workers with the handler, whose limit is 1, and
\* without it, whose policy allows no retry.
CONSTANTS
    Consumers = {c1}
    Publishers = {p1}
    Queues = {q1}
    DLQ = dlq
    None = none
    Kinds = {"one_off", "series"}
    Partial = TRUE
    PolicyMax = 0
    SpecLimit = 1
    Duplicates = FALSE
    MaxReclaim = 0
    MaxOcc = 2
    MaxGen = 2
    Stamps = {1, 2, 3, 4, 5, 6}
    ReaperStamp = reaper
SPECIFICATION Spec
SYMMETRY SlotSymmetry
CHECK_DEADLOCK FALSE
INVARIANTS
    TypeOK
    NoStrandedJob
    RetryBudget
    DeadLetterIsPublished
    SeriesConsistent
PROPERTIES
    RetryNeverDecreases
    DeadLetterIntentKept
