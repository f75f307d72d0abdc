\* A polling request with a timeout, one without, and a waiter, up to two
\* replies to each; threads of the application store replies too.
SPECIFICATION FairSpec
CONSTANTS
    Pollers = {p1, p2}
    Waiters = {w1}
    Unbounded = {p2}
    None = None
    Feeding = TRUE
    MaxReplies = 2
INVARIANTS TypeOK NoReplyLost
PROPERTIES EveryRequestEnds AnsweredRequestEnds
CHECK_DEADLOCK FALSE
