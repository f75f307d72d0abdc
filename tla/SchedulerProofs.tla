--------------------------- MODULE SchedulerProofs ---------------------------
(***************************************************************************)
(* Proofs about Scheduler, for every length of day and week, every rule,   *)
(* interval and number of failures.                                        *)
(***************************************************************************)
EXTENDS Scheduler, FiniteSetTheorems, WellFoundedInduction, TLAPS

(***************************************************************************)
(* A state that somebody may act on says when the task ran last, which is  *)
(* in the past, and is due on a later day.  A run under way was due.  What *)
(* this instance knows is never due before the backoff that is stored.     *)
(***************************************************************************)
Recorded(s) ==
    s # None /\ s.last_run # None
        => /\ s.last_run <= clock
           /\ interval = None => Day(s.last_run) < Day(s.due)

ScheduleInv ==
    /\ TypeOK
    /\ Recorded(store) /\ Recorded(task)
    /\ run # None => task.due <= run.now /\ run.now <= clock
    /\ store # None /\ task # None /\ store.failures > 0 => store.due <= task.due
-----------------------------------------------------------------------------
(* Arithmetic of days, weekdays and backoffs.                              *)

LEMMA DayFacts ==
    ASSUME NEW t \in Nat, NEW u \in Nat
    PROVE  /\ Day(t) \in Nat
           /\ t <= u => Day(t) <= Day(u)
           /\ Day(t) * DayLength + Slot \in Nat
           /\ Day(Day(t) * DayLength + Slot) = Day(t)
           /\ Day(Day(t) * DayLength + Slot + DayLength) = Day(t) + 1
<1>1. Day(t) \in Nat
  BY SchedulerAssumption DEF Day
<1>2. t <= u => Day(t) <= Day(u)
  BY SchedulerAssumption DEF Day
<1>3. ASSUME NEW k \in Nat PROVE k * DayLength + Slot \in Nat /\ Day(k * DayLength + Slot) = k
  BY SchedulerAssumption DEF Day
<1>4. Day(t) * DayLength + Slot + DayLength = (Day(t) + 1) * DayLength + Slot
  BY <1>1, SchedulerAssumption
<1>5. Day((Day(t) + 1) * DayLength + Slot) = Day(t) + 1
  BY <1>1, <1>3
<1>. QED
  BY <1>1, <1>2, <1>3, <1>4, <1>5

LEMMA LeastNatural ==
    ASSUME NEW S \in SUBSET Nat, S # {}
    PROVE  \E k \in S : \A n \in S : k <= n
<1> DEFINE R == OpToRel(<, Nat)
<1>1. PICK k \in S : \A n \in S : ~(<<n, k>> \in R)
  <2>1. IsWellFoundedOn(R, Nat)
    BY NatLessThanWellFounded
  <2>. HIDE DEF R
  <2>. QED
    BY <2>1, WFMin
<1>2. \A n \in S : ~(n < k)
  BY <1>1 DEF OpToRel
<1>. QED
  BY <1>2

LEMMA PowerOfTwo ==
    ASSUME NEW n \in Nat
    PROVE  2 ^ n \in Nat
<1>1. IsFiniteSet(1..n) /\ Cardinality(1..n) = n
  BY FS_Interval
<1>2. IsFiniteSet(SUBSET (1..n)) /\ Cardinality(SUBSET (1..n)) = 2 ^ n
  BY <1>1, FS_SUBSET
<1>. QED
  BY <1>2, FS_CardinalityType

LEMMA BackoffIsNat ==
    ASSUME NEW failures \in Nat
    PROVE  Backoff(failures) \in Nat
<1> DEFINE n == IF failures < BackoffCap THEN failures ELSE BackoffCap
<1>1. n \in Nat
  BY SchedulerAssumption
<1>2. 2 ^ n \in Nat
  BY <1>1, PowerOfTwo
<1>3. \A p \in Nat : BackoffUnit * p \in Nat
  BY SchedulerAssumption
<1>. QED
  BY <1>2, <1>3 DEF Backoff

\* The weekday rule only postpones.
LEMMA FirstAllowedIsLater ==
    ASSUME NEW from \in Nat
    PROVE  FirstAllowed(from) \in Nat /\ FirstAllowed(from) >= from
<1> DEFINE allowed == {k \in 0..Week : Day(from + k * DayLength) % Week \in Days}
           first == CHOOSE k \in allowed : \A n \in allowed : k <= n
<1>1. CASE allowed = {}
  BY <1>1 DEF FirstAllowed
<1>2. CASE allowed # {}
  <2>1. allowed \in SUBSET Nat
    OBVIOUS
  <2>2. \E k \in allowed : \A n \in allowed : k <= n
    <3>. HIDE DEF allowed
    <3>. QED
      BY <1>2, <2>1, LeastNatural
  <2>3. first \in Nat
    <3>. HIDE DEF allowed
    <3>. QED
      BY <2>1, <2>2
  <2>4. FirstAllowed(from) = from + DayLength * first
    BY <1>2 DEF FirstAllowed
  <2>5. ASSUME NEW n \in Nat
        PROVE  from + DayLength * n \in Nat /\ from + DayLength * n >= from
    <3>1. DayLength * n \in Nat
      BY SchedulerAssumption
    <3>. QED
      BY <3>1
  <2>. HIDE DEF first
  <2>. QED
    BY <2>3, <2>4, <2>5
<1>. QED
  BY <1>1, <1>2

\* _cron_due_time leaves the day of the last run.
LEMMA CronDueIsLater ==
    ASSUME NEW current \in Nat, NEW last \in Time
    PROVE  /\ CronDue(current, last) \in Nat
           /\ last # None /\ last <= current => Day(last) < Day(CronDue(current, last))
<1> DEFINE today == Day(current) * DayLength + Slot
           from == IF HasRunToday(last, current) \/ current >= today
                   THEN today + DayLength ELSE today
<1>1. /\ today \in Nat /\ today + DayLength \in Nat /\ Day(current) \in Nat
      /\ Day(today) = Day(current) /\ Day(today + DayLength) = Day(current) + 1
  BY DayFacts, SchedulerAssumption
<1>. HIDE DEF today
<1>2. from \in Nat /\ Day(from) \in {Day(current), Day(current) + 1}
      /\ (HasRunToday(last, current) => Day(from) = Day(current) + 1)
  BY <1>1
<1>3. CronDue(current, last) = FirstAllowed(from)
  BY DEF CronDue, today
<1>. HIDE DEF from
<1>4. FirstAllowed(from) \in Nat /\ Day(from) <= Day(FirstAllowed(from))
      /\ Day(FirstAllowed(from)) \in Nat
  BY <1>2, FirstAllowedIsLater, DayFacts
<1>5. ASSUME last # None, last <= current
      PROVE  Day(last) < Day(CronDue(current, last))
  <2>1. Day(last) \in Nat /\ Day(last) <= Day(current)
    BY <1>5, DayFacts DEF Time
  <2>2. Day(last) < Day(from)
    BY <1>1, <1>2, <1>5, <2>1 DEF HasRunToday
  <2>. QED
    BY <1>1, <1>2, <1>3, <1>4, <2>1, <2>2
<1>. QED
  BY <1>3, <1>4, <1>5
-----------------------------------------------------------------------------
(* What is registered and what a run writes.                               *)

LEMMA RegisteredState ==
    ASSUME TypeOK, Recorded(store)
    PROVE  LET new == Registered(store, clock)
           IN  /\ new \in State
               /\ Recorded(new)
               /\ store # None /\ store.failures > 0 => new = store
<1>1. clock \in Nat /\ interval \in (Nat \ {0}) \cup {None} /\ (store # None => store \in State)
  BY SchedulerAssumption DEF TypeOK
<1>2. ASSUME NEW last \in Time, last # None => last <= clock
      PROVE  /\ InitialDue(clock, last) \in Nat
             /\ last # None /\ interval = None => Day(last) < Day(InitialDue(clock, last))
  <2>1. CASE interval = None
    <3>1. InitialDue(clock, last) = CronDue(clock, last)
      BY <2>1 DEF InitialDue
    <3>2. /\ CronDue(clock, last) \in Nat
          /\ last # None /\ last <= clock => Day(last) < Day(CronDue(clock, last))
      BY <1>1, CronDueIsLater
    <3>. QED
      BY <1>2, <3>1, <3>2
  <2>2. CASE interval # None
    <3>1. interval \in Nat /\ (IF last = None THEN clock ELSE last) \in Nat
      BY <1>1, <2>2 DEF Time
    <3>2. InitialDue(clock, last) = (IF last = None THEN clock ELSE last) + interval
      BY <2>2 DEF InitialDue
    <3>. QED
      BY <2>2, <3>1, <3>2
  <2>. QED
    BY <2>1, <2>2
<1>3. CASE store = None
  <2>1. InitialDue(clock, None) \in Nat
    BY <1>2 DEF Time
  <2>. QED
    BY <1>3, <2>1 DEF Registered, State, Time, Recorded
<1>4. CASE store # None /\ store.failures > 0
  BY <1>1, <1>4 DEF Registered
<1>5. CASE store # None /\ ~(store.failures > 0)
  <2>1. store.last_run \in Time /\ (store.last_run # None => store.last_run <= clock)
    BY <1>1, <1>5 DEF State, Recorded
  <2>2. /\ InitialDue(clock, store.last_run) \in Nat
        /\ store.last_run # None /\ interval = None
              => Day(store.last_run) < Day(InitialDue(clock, store.last_run))
    BY <1>2, <2>1
  <2>3. Registered(store, clock) = [store EXCEPT !.due = InitialDue(clock, store.last_run)]
    BY <1>5 DEF Registered
  <2>. QED
    BY <1>1, <1>5, <2>1, <2>2, <2>3 DEF State, Recorded
<1>. QED
  BY <1>3, <1>4, <1>5

LEMMA WrittenStates ==
    ASSUME ScheduleInv, run # None
    PROVE  /\ Failed(task, run.now) \in State
           /\ Recorded(Failed(task, run.now))
           /\ Readable(Failed(task, run.now))
           /\ Failed(task, run.now).due >= task.due
           /\ Failed(task, run.now).failures > 0
           /\ Succeeded(task, run.now) \in State
           /\ Recorded(Succeeded(task, run.now))
           /\ Readable(Succeeded(task, run.now))
           /\ Succeeded(task, run.now).failures = 0
<1>1. /\ task \in State /\ run.now \in Nat /\ clock \in Nat
      /\ task.due <= run.now /\ run.now <= clock /\ Recorded(task)
      /\ interval \in (Nat \ {0}) \cup {None}
  BY SchedulerAssumption DEF ScheduleInv, TypeOK
<1>2. task.failures + 1 \in Nat /\ task.due \in Nat /\ run.now # None
  BY <1>1, SchedulerAssumption DEF State
<1>3. PICK due \in Nat : due = run.now + Backoff(task.failures + 1) /\ due >= run.now
  <2>1. Backoff(task.failures + 1) \in Nat
    BY <1>2, BackoffIsNat
  <2>. QED
    BY <1>1, <2>1
<1>4. Failed(task, run.now) = [task EXCEPT !.failures = task.failures + 1,
                                           !.last_failure = run.now, !.due = due]
  BY <1>3 DEF Failed
<1>5. /\ Failed(task, run.now) \in State /\ Failed(task, run.now).due >= task.due
      /\ Failed(task, run.now).failures > 0 /\ Readable(Failed(task, run.now))
  <2>1. Failed(task, run.now) \in State
    BY <1>1, <1>2, <1>4 DEF State, Time
  <2>2. /\ Failed(task, run.now).failures = task.failures + 1
        /\ Failed(task, run.now).last_failure = run.now
        /\ Failed(task, run.now).due = due
    BY <1>1, <1>4 DEF State
  <2>3. task.failures \in Nat
    BY <1>1 DEF State
  <2>4. task.failures + 1 > 0 /\ task.failures + 1 # 0 /\ due >= task.due
    BY <1>1, <1>2, <1>3, <2>3
  <2>. QED
    BY <1>2, <2>1, <2>2, <2>4 DEF Readable
<1>6. Recorded(Failed(task, run.now))
  <2>1. Failed(task, run.now).last_run = task.last_run /\ Failed(task, run.now).due = due
    BY <1>1, <1>4 DEF State
  <2>2. Day(task.due) <= Day(due) /\ Day(due) \in Nat /\ Day(task.due) \in Nat
    BY <1>1, <1>2, <1>3, DayFacts
  <2>3. task.last_run # None => Day(task.last_run) \in Nat
    BY <1>1, DayFacts DEF State, Time
  <2>4. task # None
    BY <1>1, StateAssumption
  <2>. QED
    BY <1>1, <2>1, <2>2, <2>3, <2>4 DEF Recorded
<1>7. NextDue(run.now) \in Nat /\ (interval = None => Day(run.now) < Day(NextDue(run.now)))
  <2>1. CASE interval = None
    <3>1. NextDue(run.now) = CronDue(run.now, run.now)
      BY <2>1 DEF NextDue
    <3>2. run.now \in Nat /\ run.now \in Time /\ run.now <= run.now
      BY <1>1 DEF Time
    <3>. QED
      BY <1>2, <3>1, <3>2, CronDueIsLater
  <2>2. CASE interval # None
    <3>1. interval \in Nat /\ NextDue(run.now) = run.now + interval
      BY <1>1, <2>2 DEF NextDue
    <3>. QED
      BY <1>1, <2>2, <3>1
  <2>. QED
    BY <2>1, <2>2
<1>8. /\ Succeeded(task, run.now) \in State /\ Succeeded(task, run.now).failures = 0
      /\ Readable(Succeeded(task, run.now)) /\ Recorded(Succeeded(task, run.now))
  BY <1>1, <1>7 DEF Succeeded, State, Time, Readable, Recorded
<1>. QED
  BY <1>5, <1>6, <1>8
-----------------------------------------------------------------------------
LEMMA ScheduleStep ==
    ASSUME ScheduleInv, Next
    PROVE  ScheduleInv'
<1>0. /\ TypeOK /\ Recorded(store) /\ Recorded(task) /\ clock \in Nat
      /\ Retries \in Nat
  BY SchedulerAssumption DEF ScheduleInv, TypeOK
<1>1. CASE Register
  <2>1. /\ task' \in State /\ task' # None /\ Recorded(task')
        /\ store # None /\ store.failures > 0 => task' = store
    BY <1>0, <1>1, RegisteredState, StateAssumption DEF Register
  <2>2. UNCHANGED <<interval, clock, store, run, loop, disabled>> /\ run = None
    BY <1>0, <1>1 DEF Register, loopVars, TypeOK
  <2>3. TypeOK'
    BY <1>0, <2>1, <2>2 DEF TypeOK, Readable
  <2>4. store # None => store.due \in Nat
    BY <1>0 DEF TypeOK, State
  <2>. QED
    BY <1>0, <2>1, <2>2, <2>3, <2>4 DEF ScheduleInv, Recorded
<1>2. CASE Start
  <2>1. TypeOK'
    BY <1>0, <1>2 DEF Start, TypeOK, Readable, loopVars
  <2>2. run'.now = clock /\ clock >= task.due /\ task.due \in Nat
    BY <1>0, <1>2 DEF Start, Due, TypeOK, State
  <2>. QED
    BY <1>0, <1>2, <2>1, <2>2 DEF ScheduleInv, Recorded, Start
<1>3. CASE RetryTransient
  <2>1. run \in [now: Nat, attempt: 0..Retries] /\ run.attempt + 1 \in 0..Retries
    BY <1>0, <1>3 DEF RetryTransient, TypeOK
  <2>2. run' \in [now: Nat, attempt: 0..Retries] /\ run'.now = run.now
    BY <1>3, <2>1 DEF RetryTransient
  <2>3. TypeOK'
    BY <1>0, <1>3, <2>2 DEF RetryTransient, TypeOK, Readable, loopVars
  <2>. QED
    BY <1>0, <1>3, <2>2, <2>3 DEF ScheduleInv, Recorded, RetryTransient
<1>4. CASE Fail \/ Succeed \/ CheckpointFails
  <2>0. run # None /\ run' = None /\ UNCHANGED <<interval, clock, disabled>>
    BY <1>4 DEF Fail, Succeed, CheckpointFails
  <2> DEFINE failed == Failed(task, run.now)
             done == Succeeded(task, run.now)
  <2>1. /\ failed \in State /\ Recorded(failed) /\ Readable(failed)
        /\ failed.due >= task.due /\ failed.failures > 0
        /\ done \in State /\ Recorded(done) /\ Readable(done) /\ done.failures = 0
    BY <2>0, WrittenStates
  <2>2. \/ task' = failed /\ store' \in {store, failed, done}
        \/ task' = done /\ store' = done
    BY <1>4 DEF Fail, Succeed, CheckpointFails
  <2>3. loop' \in {"off", "check", "cycle", "sleep"}
    BY <1>0, <1>4 DEF Fail, Succeed, CheckpointFails, CycleEnds, TypeOK
  <2>4. failed.due \in Nat /\ (store # None => store.due \in Nat)
        /\ task \in State /\ task.due \in Nat
    BY <1>0, <2>0, <2>1 DEF State, TypeOK
  <2>. HIDE DEF failed, done
  <2>5. TypeOK'
    BY <1>0, <2>0, <2>1, <2>2, <2>3, StateAssumption DEF TypeOK, Readable
  <2>6. Recorded(store)' /\ Recorded(task)'
    BY <1>0, <2>0, <2>1, <2>2 DEF Recorded
  <2>7. store' # None /\ store'.failures > 0 => store'.due <= task'.due
    <3>1. CASE task' = failed /\ store' = store
      BY <2>1, <2>4, <3>1, StateAssumption DEF ScheduleInv
    <3>. QED
      BY <2>1, <2>2, <2>4, <3>1
  <2>. QED
    BY <2>0, <2>5, <2>6, <2>7 DEF ScheduleInv
<1>5. CASE Crash
  <2>1. /\ task' = None /\ run' = None /\ loop' = "off" /\ disabled' = FALSE
        /\ UNCHANGED <<interval, clock>>
    BY <1>5 DEF Crash
  <2>2. \/ store' = store
        \/ run # None /\ store' \in {Succeeded(task, run.now), Failed(task, run.now)}
    <3>1. CASE run = None
      BY <1>5, <3>1 DEF Crash
    <3>2. CASE run # None
      <4>1. store' \in {store} \cup ({Succeeded(task, run.now)}
               \cup IF task.failures < MaxFailures THEN {Failed(task, run.now)} ELSE {})
        BY <1>5, <3>2 DEF Crash
      <4>. QED
        BY <3>2, <4>1
    <3>. QED
      BY <3>1, <3>2
  <2>3. store' \in State \cup {None} /\ Readable(store') /\ Recorded(store)'
    <3>1. CASE store' = store
      BY <1>0, <2>1, <3>1 DEF TypeOK, Recorded
    <3>2. CASE run # None /\ store' \in {Succeeded(task, run.now), Failed(task, run.now)}
      <4>1. store' \in State /\ Readable(store') /\ Recorded(store')
        BY <3>2, WrittenStates
      <4>. QED
        BY <2>1, <4>1 DEF Recorded
    <3>. QED
      BY <2>2, <3>1, <3>2
  <2>. QED
    BY <1>0, <2>1, <2>3 DEF ScheduleInv, TypeOK, Recorded, Readable
<1>6. CASE Tick
  <2>1. clock' = clock + 1 /\ UNCHANGED <<interval, store, task, run, loop, disabled>>
    BY <1>6 DEF Tick, loopVars
  <2>2. TypeOK'
    BY <1>0, <2>1 DEF TypeOK, Readable
  <2>3. \A s \in State : s.last_run \in Nat \cup {None}
    BY DEF State, Time
  <2>4. (store # None => store \in State) /\ (task # None => task \in State)
        /\ (run # None => run.now \in Nat)
    BY <1>0 DEF TypeOK
  <2>5. Recorded(store)' /\ Recorded(task)'
    BY <1>0, <2>1, <2>3, <2>4 DEF Recorded
  <2>. QED
    BY <1>0, <2>1, <2>2, <2>4, <2>5 DEF ScheduleInv
<1>7. CASE StartLoop \/ Stop \/ Check \/ NothingDue \/ Wake
  <2>1. UNCHANGED <<interval, clock, store, task, run>>
    BY <1>7 DEF StartLoop, Stop, Check, NothingDue, Wake
  <2>2. TypeOK'
    BY <1>0, <1>7, <2>1 DEF TypeOK, Readable, StartLoop, Stop, Check, NothingDue,
       Wake, CycleEnds
  <2>. QED
    BY <2>1, <2>2 DEF ScheduleInv, Recorded
<1>. QED
  BY <1>1, <1>2, <1>3, <1>4, <1>5, <1>6, <1>7 DEF Next

LEMMA ScheduleInductive == Spec => []ScheduleInv
<1>1. Init => ScheduleInv
  <2> SUFFICES ASSUME Init PROVE ScheduleInv
    OBVIOUS
  <2>1. store = None /\ task = None /\ run = None
    BY DEF Init
  <2>2. TypeOK
    BY DEF Init, TypeOK, Readable
  <2>. QED
    BY <2>1, <2>2 DEF ScheduleInv, Recorded
<1>2. ScheduleInv /\ [Next]_vars => ScheduleInv'
  <2>1. ASSUME ScheduleInv, UNCHANGED vars PROVE ScheduleInv'
    BY <2>1 DEF vars, ScheduleInv, TypeOK, Recorded, Readable
  <2>. QED
    BY <2>1, ScheduleStep
<1>. QED
  BY <1>1, <1>2, PTL DEF Spec

\* Every reachable state has the types of TypeOK: in particular _read_state
\* accepts whatever a scheduler that died at any moment left in the store.
THEOREM ScheduleTypeCorrect == Spec => []TypeOK
<1>1. ScheduleInv => TypeOK
  BY DEF ScheduleInv
<1>. QED
  BY <1>1, ScheduleInductive, PTL

\* No instance starts a cron task on a day whose completion it knows of, for
\* any length of the day, slot, weekdays and history of failures and restarts.
THEOREM NotRepeated == Spec => CompletedWorkIsNotRepeated
<1>1. ScheduleInv /\ [Next]_vars
         => [interval = None /\ Start /\ task.last_run # None
                => Day(task.last_run) < Day(clock)]_vars
  <2> SUFFICES ASSUME ScheduleInv, interval = None, Start, task.last_run # None
               PROVE  Day(task.last_run) < Day(clock)
    OBVIOUS
  <2>1. /\ task \in State /\ clock \in Nat /\ task.due <= clock
        /\ task.due \in Nat /\ task.last_run \in Nat
    BY DEF ScheduleInv, TypeOK, Start, Due, State, Time
  <2>2. Day(task.last_run) < Day(task.due)
    BY DEF ScheduleInv, Recorded, Start
  <2>3. /\ Day(task.due) <= Day(clock) /\ Day(task.due) \in Nat
        /\ Day(clock) \in Nat /\ Day(task.last_run) \in Nat
    BY <2>1, DayFacts
  <2>. QED
    BY <2>2, <2>3
<1>. QED
  BY <1>1, ScheduleInductive, PTL DEF Spec, CompletedWorkIsNotRepeated

\* No instance, whether it restored the failure or met it, starts the task
\* before the backoff in the store has passed.
THEOREM BackoffKept == Spec => BackoffIsKept
<1>1. ScheduleInv /\ [Next]_vars
         => [Start /\ store # None /\ store.failures > 0 => clock >= store.due]_vars
  <2> SUFFICES ASSUME ScheduleInv, Start, store # None, store.failures > 0
               PROVE  clock >= store.due
    OBVIOUS
  <2>1. task \in State /\ store \in State /\ clock >= task.due /\ clock \in Nat
    BY DEF ScheduleInv, TypeOK, Start, Due
  <2>2. store.due <= task.due
    BY DEF ScheduleInv, Start
  <2>. QED
    BY <2>1, <2>2 DEF State
<1>. QED
  BY <1>1, ScheduleInductive, PTL DEF Spec, BackoffIsKept
=============================================================================
