\* One consumer that may crash forever, one reaper.
SPECIFICATION LiveSpec
CONSTANTS
    Consumers = {c1}
    Reapers = {r1}
    ClaimIds = {1, 2, 3, 4}
    Stamps = {t1}
    None = None
    MaxReclaim = 1
    Prompt = TRUE
    MaxCopies = 3
    MaxFaults = 1
PROPERTY EventuallyDrained
CHECK_DEADLOCK FALSE
