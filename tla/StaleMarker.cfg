\* One consumer and one reaper: a marker that outlives the sighting it recorded.
SPECIFICATION Spec
CONSTANTS
    Consumers = {c1}
    Reapers = {r1}
    ClaimIds = {1, 2}
    Stamps = {t1}
    None = None
    MaxReclaim = 1
    Prompt = TRUE
    MaxCopies = 2
    MaxTotal = 2
SYMMETRY Symmetry
PROPERTY ReindexesOrphansOnly
CHECK_DEADLOCK FALSE
