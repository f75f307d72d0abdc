\* Two polling requests: one thread buffers the late reply of the other.
SPECIFICATION Spec
CONSTANTS
    Pollers = {p1, p2}
    Waiters = {}
    Unbounded = {}
    None = None
    Feeding = FALSE
    MaxReplies = 1
INVARIANT LateResponseDoesNotLeak
CHECK_DEADLOCK FALSE
