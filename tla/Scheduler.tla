----------------------------- MODULE Scheduler -----------------------------
(***************************************************************************)
(* The scheduler (scheduling.py) for one task: when it is due, what a run  *)
(* leaves in memory and in the state store, what a new scheduler instance  *)
(* makes of the stored state after a crash, and the loop of start(), which *)
(* another thread, a signal or a task ends with stop().                    *)
(*                                                                         *)
(* Time is a number of ticks; a day has DayLength of them and the task's   *)
(* hour and minute are the tick Slot of a day.  run_due_tasks reads the    *)
(* clock once for all due tasks, so time may pass between that reading and *)
(* the end of this task's run.  run_due_tasks isolates the tasks from each *)
(* other, so one stands for all.                                           *)
(***************************************************************************)
EXTENDS Naturals

CONSTANTS
    Intervals,     \* the tasks to look at: by the ticks between their runs,
                   \* or None for one with a cron rule
    DayLength, Slot,
    Week,          \* days of a week
    Days,          \* the weekdays of the rule; empty: every day
    Retries,       \* transient errors retried in one cycle
    None,
    BackoffUnit, BackoffCap,
    MaxClock,      \* bound: ticks
    MaxFailures    \* bound: consecutive failures

ASSUME SchedulerAssumption ==
    /\ None \notin Nat
    /\ Intervals \subseteq (Nat \ {0}) \cup {None}
    /\ DayLength \in Nat \ {0} /\ Slot \in 0..(DayLength - 1)
    /\ Week \in Nat \ {0} /\ Days \subseteq 0..(Week - 1)
    /\ Retries \in Nat /\ BackoffUnit \in Nat \ {0} /\ BackoffCap \in Nat
    /\ MaxClock \in Nat /\ MaxFailures \in Nat

VARIABLES
    interval,  \* the decorator's interval, or None
    clock,
    store,     \* the persisted state, or None
    task,      \* the registered task, or None: the process is down
    run,       \* the run under way: the cycle's "now" and the retries used
    loop,      \* where start() is; "off": not called, or it has returned
    disabled   \* the flag that stop() sets

vars == <<interval, clock, store, task, run, loop, disabled>>
loopVars == <<loop, disabled>>

Time == Nat \cup {None}

\* _PersistedScheduleState; a ScheduledTask carries the same fields.
State == [last_run: Time, due: Nat, failures: Nat, last_failure: Time]

ASSUME StateAssumption == None \notin State

Init ==
    /\ interval \in Intervals
    /\ clock = 0
    /\ store = None
    /\ task = None
    /\ run = None
    /\ loop = "off"
    /\ disabled = FALSE
-----------------------------------------------------------------------------
Day(t) == t \div DayLength

\* Mutant of HasRunToday: the last run is not looked at.
HasRunTodayNever(last_run, current) == FALSE

HasRunToday(last_run, current) == last_run # None /\ Day(last_run) >= Day(current)

\* The first day not before "from" that the rule allows, or "from" itself.
FirstAllowed(from) ==
    LET allowed == {k \in 0..Week : Day(from + k * DayLength) % Week \in Days}
    IN  IF allowed = {} THEN from
        ELSE from + DayLength * (CHOOSE k \in allowed : \A n \in allowed : k <= n)

\* _cron_due_time
CronDue(current, last_run) ==
    LET today == Day(current) * DayLength + Slot
    IN  FirstAllowed(IF HasRunToday(last_run, current) \/ current >= today
                     THEN today + DayLength ELSE today)

\* _initial_due_time
InitialDue(current, last_run) ==
    IF interval = None THEN CronDue(current, last_run)
    ELSE (IF last_run = None THEN current ELSE last_run) + interval

\* _next_due_time
NextDue(now) ==
    IF interval = None THEN CronDue(now, now) ELSE now + interval

Backoff(failures) ==
    BackoffUnit * 2 ^ (IF failures < BackoffCap THEN failures ELSE BackoffCap)

\* Mutant of Registered: the schedule decides, whatever was persisted.
RegisteredAnew(persisted, current) ==
    LET last == IF persisted = None THEN None ELSE persisted.last_run
    IN  [last_run |-> last, due |-> InitialDue(current, last),
         failures |-> IF persisted = None THEN 0 ELSE persisted.failures,
         last_failure |-> IF persisted = None THEN None ELSE persisted.last_failure]

\* The task that the decorator registers: an active failure keeps its backoff,
\* otherwise the decorator's rule is applied to the last run.
Registered(persisted, current) ==
    IF persisted = None
    THEN [last_run |-> None, due |-> InitialDue(current, None), failures |-> 0,
          last_failure |-> None]
    ELSE IF persisted.failures > 0 THEN persisted
    ELSE [persisted EXCEPT !.due = InitialDue(current, persisted.last_run)]

\* _handle_task_failure
Failed(t, now) ==
    [t EXCEPT !.failures = @ + 1, !.last_failure = now,
              !.due = now + Backoff(t.failures + 1)]

\* Mutant of Succeeded: the failure is not forgotten.
SucceededKeepsFailure(t, now) ==
    [t EXCEPT !.last_run = now, !.due = NextDue(now), !.failures = 0]

\* _handle_task_success
Succeeded(t, now) ==
    [last_run |-> now, due |-> NextDue(now), failures |-> 0, last_failure |-> None]
-----------------------------------------------------------------------------
\* What _read_state accepts; it raises for anything else.
Readable(persisted) ==
    persisted # None => (persisted.failures = 0 <=> persisted.last_failure = None)

\* A process starts and registers the task: _read_state, scheduled.
Register ==
    /\ task = None
    /\ Readable(store)
    /\ task' = Registered(store, clock)
    /\ UNCHANGED <<interval, clock, store, run, loopVars>>

\* Mutant of Due: only a task that works is run again.
DueHealthy(t) == clock >= t.due /\ t.failures = 0

\* get_due_tasks
Due(t) == clock >= t.due

\* run_due_tasks, called by the loop or by the application, finds the task due.
Start ==
    /\ task # None
    /\ run = None
    /\ loop \in {"off", "cycle"}
    /\ Due(task)
    /\ run' = [now |-> clock, attempt |-> 0]
    /\ UNCHANGED <<interval, clock, store, task, loopVars>>

\* The loop catches what run_due_tasks raises, and sleeps.
CycleEnds == loop' = IF loop = "cycle" THEN "sleep" ELSE loop

\* A transient error: the callable is invoked again at once.
RetryTransient ==
    /\ run # None
    /\ run.attempt < Retries
    /\ run' = [run EXCEPT !.attempt = @ + 1]
    /\ UNCHANGED <<interval, clock, store, task, loopVars>>

\* The callable raised; persisting the failure may fail too, which is logged.
\* The store may have taken a write that raised.
Fail ==
    /\ run # None
    /\ task.failures < MaxFailures
    /\ task' = Failed(task, run.now)
    /\ store' \in {store, Failed(task, run.now)}
    /\ run' = None
    /\ CycleEnds
    /\ UNCHANGED <<interval, clock, disabled>>

Succeed ==
    /\ run # None
    /\ store' = Succeeded(task, run.now)
    /\ task' = Succeeded(task, run.now)
    /\ run' = None
    /\ CycleEnds
    /\ UNCHANGED <<interval, clock, disabled>>

\* The callable returned but its checkpoint raised: it counts as a failure.
CheckpointFails ==
    /\ run # None
    /\ task.failures < MaxFailures
    /\ task' = Failed(task, run.now)
    /\ store' \in {store, Succeeded(task, run.now), Failed(task, run.now)}
    /\ run' = None
    /\ CycleEnds
    /\ UNCHANGED <<interval, clock, disabled>>

\* The process dies, before or after a write of the run that is under way.
Crash ==
    /\ task # None
    /\ task' = None
    /\ run' = None
    /\ store' \in {store} \cup
           (IF run = None THEN {}
            ELSE {Succeeded(task, run.now)}
                 \cup IF task.failures < MaxFailures THEN {Failed(task, run.now)} ELSE {})
    /\ loop' = "off"
    /\ disabled' = FALSE
    /\ UNCHANGED <<interval, clock>>

Tick ==
    /\ clock < MaxClock
    /\ clock' = clock + 1
    /\ UNCHANGED <<interval, store, task, run, loopVars>>
-----------------------------------------------------------------------------
(* start and stop.                                                         *)

\* start forgets a stop that came before it.
StartLoop ==
    /\ task # None
    /\ run = None
    /\ loop = "off"
    /\ loop' = "check"
    /\ disabled' = FALSE
    /\ UNCHANGED <<interval, clock, store, task, run>>

Stop ==
    /\ task # None
    /\ disabled' = TRUE
    /\ UNCHANGED <<interval, clock, store, task, run, loop>>

\* Mutant of Check: the flag is looked at only while no failure is pending.
CheckFailing ==
    /\ loop = "check"
    /\ loop' = IF disabled /\ task.failures = 0 THEN "off" ELSE "cycle"
    /\ UNCHANGED <<interval, clock, store, task, run, disabled>>

Check ==
    /\ loop = "check"
    /\ loop' = IF disabled THEN "off" ELSE "cycle"
    /\ UNCHANGED <<interval, clock, store, task, run, disabled>>

\* run_due_tasks finds nothing to do.
NothingDue ==
    /\ loop = "cycle"
    /\ run = None
    /\ ~Due(task)
    /\ CycleEnds
    /\ UNCHANGED <<interval, clock, store, task, run, disabled>>

Wake ==
    /\ loop = "sleep"
    /\ loop' = "check"
    /\ UNCHANGED <<interval, clock, store, task, run, disabled>>

Next ==
    \/ Register
    \/ Start
    \/ RetryTransient
    \/ Fail
    \/ Succeed
    \/ CheckpointFails
    \/ Crash
    \/ Tick
    \/ StartLoop
    \/ Stop
    \/ Check
    \/ NothingDue
    \/ Wake

\* The thread of the loop runs, and tasks return.
Fairness ==
    /\ WF_vars(Check \/ Wake \/ NothingDue \/ (loop = "cycle" /\ Start))
    /\ WF_vars(Fail \/ Succeed \/ CheckpointFails)

Spec == Init /\ [][Next]_vars /\ Fairness
-----------------------------------------------------------------------------
\* Every variable holds values of its kind; what is persisted is what
\* _read_state accepts, so that a restart never fails on the scheduler's own
\* state: no last_failure after a success, one after a failure.
TypeOK ==
    /\ interval \in Intervals
    /\ clock \in Nat
    /\ store \in State \cup {None}
    /\ task \in State \cup {None}
    /\ run \in [now: Nat, attempt: 0..Retries] \cup {None}
    /\ loop \in {"off", "check", "cycle", "sleep"} /\ disabled \in BOOLEAN
    /\ run # None => task # None /\ loop \in {"off", "cycle"}
    /\ loop # "off" => task # None
    /\ Readable(store)

\* "a new scheduler instance does not repeat completed cron work"
\* (README.md:376-377): a cron task is never started on a day whose completion
\* this instance recorded or restored, whatever backoff, late run or restart
\* came in between.
CompletedWorkIsNotRepeated ==
    [][interval = None /\ Start /\ task.last_run # None
          => Day(task.last_run) < Day(clock)]_vars

\* ... "or discard an active backoff": no instance starts the task before the
\* backoff that is persisted has passed.
BackoffIsKept ==
    [][Start /\ store # None /\ store.failures > 0 => clock >= store.due]_vars

\* stop() ends the loop wherever it is: between the check and the cycle, in a
\* run, its retries and its failure, or asleep.  (A stop() before start() does
\* not keep start() from looping.)
StopEndsLoop == (loop # "off" /\ disabled) ~> loop = "off"

\* A due task is run as long as the loop goes on, also one that failed in this
\* instance or in an earlier one, once its backoff has passed.
DueTaskIsRun ==
    (loop # "off" /\ task # None /\ clock >= task.due)
        ~> (run # None \/ disabled \/ loop = "off")
=============================================================================
