\* Two consumers and one reaper; every crash, failed claim and double settlement.
SPECIFICATION Spec
CONSTANTS
    Consumers = {c1, c2}
    Reapers = {r1}
    ClaimIds = {1, 2}
    Stamps = {t1}
    None = None
    MaxReclaim = 1
    Prompt = FALSE
    MaxCopies = 2
    MaxTotal = 2
SYMMETRY Symmetry
CONSTRAINTS Unsettled FewCopies
INVARIANTS TypeOK NoLoss
CHECK_DEADLOCK FALSE
