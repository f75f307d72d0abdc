\* A cron task on two of the three days of a week, over four days, and a task
\* with an interval of two ticks.
SPECIFICATION Spec
CONSTANTS
    Intervals = {None, 2}
    DayLength = 3
    Slot = 1
    Week = 3
    Days = {0, 1}
    Retries = 1
    None = None
    BackoffUnit = 1
    BackoffCap = 2
    MaxClock = 12
    MaxFailures = 3
INVARIANT TypeOK
PROPERTIES CompletedWorkIsNotRepeated BackoffIsKept StopEndsLoop DueTaskIsRun
CHECK_DEADLOCK FALSE
