CONSTANTS
    a = a
    b = b
    c = c
    p1 = p1
    p2 = p2
    None = none
    DayLength = 4
    DaysPerWeek = 2
    MonthLengths <- RunMonths
    Lookahead = 3
    Clients = {a, b, c}
    Workloads <- RunWorkloads
    Leads = {1, 5}
    CallBy = 1
    Horizon = 24
SPECIFICATION Spec
CHECK_DEADLOCK FALSE
INVARIANTS
    TypeOK
    OneJobPerKey
    SameRequestIsFound
    KeepsWallClock
PROPERTIES
    NextIsFirstSlot
