# TLA+ specification of pybus

pybus is a Python message bus: typed commands, events and requests over a
pluggable transport (in memory or Redis), listeners that dispatch them to
handlers with retries and dead-lettering, durable jobs kept in a Django
database, a scheduler and request/response.  This directory holds TLA+ models of
the parts whose correctness depends on orders of steps nobody writes a test for,
the TLC configurations that check them on small instances, and TLAPS proofs of
what matters most for every instance.  Paths below are relative to `src/pybus/`
unless they start with another directory; documents are in `docs/`.

## 1. Inventory

| Component | State | Operations | Interacts through |
|---|---|---|---|
| durable job store (`durable.py`, `integrations/django_durable/`) | one row per occurrence: state, generation, retry count and limit, queue, settlement intent, deadlines; one row per series; unique idempotency keys | `schedule`, `schedule_recurring`, `cancel_recurring`, `claim`, `mark_published`, `mark_publish_indeterminate`, `admit_delivery`, `release_delivery`, `checkpoint_settlement`, `apply_outcome`, `complete_recurring_success` | the database; every method is one transaction with row locks |
| `DurableJobRunner` | the claim it is publishing | `run_once`: claim, publish, mark | store, transport |
| listener (`listener.py`) | the claimed message | `listen_once`: consume, admit, observe, handle, continue / retry / dead-letter / restore, ack | transport, store, handlers |
| batched events (`listener.py`) | a buffer list per event type in the transport; per listener the time a batch started and a backoff | buffer, flush before and after the consume, claim a batch, handle it, settle every member | transport, handlers, other listeners of the same buffer |
| worker (`worker.py`) | stop event, running flag, started hooks | `run`: `on_start`, cycles of `before_poll`, poll, `after_poll`, `on_error`, `on_stop`; `stop` | a listener or runner; other threads |
| Redis transport and reaper (`integrations/redis.py`) | per channel: queue, processing list, claims hash, claims index, candidate markers | `publish`, `consume`, `consume_many`, `ack`, `nack`, `stale_claims`, `reconcile_orphaned_processing_entries`, `RedisReaperRunner.run_once` | Redis commands and MULTI/EXEC pipelines of many processes |
| request/response (`bus.py`, `request_response.py`) | the coordinator's buffered responses and deadlines, one reply queue | `request`, `_await_response`, `wait_for_response`, `store_response`, `take_response`, eviction | threads of a process; the transport |
| scheduler (`scheduling.py`) | tasks with due time, failures, last run; the same persisted; the loop's stop flag | `scheduled`, `run_due_tasks`, success, failure, backoff, `start`, `stop` | a state store, the clock, a thread |
| recurrence (`recurrence.py`) | none | `next_cadence_at` and its helpers | the store, when an occurrence succeeds |
| facade (`bus.py`) | none | `schedule_command` (idempotent, in the caller's transaction), `request`, publication of single messages | store, transport |
| messages, codecs, registry, composition, retry helpers, in-memory inbox/outbox/transport, Django settings, CLI | none, or filled once | conversion, validation, wiring | - |

What is hard: store, broker and listener are three systems without a common
transaction, and every call between them may fail after it took effect;
deadlines pass while somebody still works; copies of a command are duplicated,
delayed and rewritten by the reaper; Redis commands of consumers and reapers
interleave; several listeners fill and flush one buffer by private clocks;
`stop` comes from another thread at any point of a cycle; hooks raise; threads
consume each other's replies; callers race for one idempotency key in
transactions that may roll back; a scheduler dies between a run and its
checkpoint.  `PROJECT.json` lists these hazards line by line.

Properties that make each part correct:

* **durable jobs**: a generation is run by one listener at a time; a finished job
  stays finished; retry budgets hold; a recorded dead-letter intent survives until
  it is carried out; no row is stranded; a series and its occurrences agree;
  everything ends; to the caller, the rows look like a simple lifecycle.
* **scheduling and recurrence**: one lineage per idempotency key, repeated
  requests find it; the next run is the first slot of the first run's wall clock.
* **batched events**: no event is lost, none is doubled unless a call failed, and
  buffers drain.
* **worker**: no poll begins after `stop` or on top of an unsettled claim; every
  started hook is stopped; `stop` ends the run.
* **Redis transport**: the message is never lost, it ends finished or
  dead-lettered and leaves nothing behind, and only orphans are reindexed.
* **request/response**: a reply reaches the one who waits for it, requests end,
  late replies do not pile up.
* **scheduler**: completed cron work is not repeated, a backoff survives a
  restart, a due task is run, `stop` ends the loop.

## 2. Modules

| Module | Models | Checked by |
|---|---|---|
| `DurableJob` | store, runners, listeners and the transport between them, one lineage | `MCDurableJob` |
| `JobLifecycle` | abstract: what a lineage looks like to its caller | through `DurableJobRefinement` |
| `DurableJobRefinement` | the mapping of `DurableJob` to `JobLifecycle` | `MCDurableJob`, `DurableJobLive` |
| `DurableJobLive` | the steps of `DurableJob` with timing, a fault budget and fairness | itself |
| `DurableJobProofs`, `DurableJobStoreProofs`, `DurableJobRefinementProofs` | the theorems about `DurableJob`: types and fencing, rows, refinement | TLAPS |
| `Recurrence` | `recurrence.py` as operators, and a reference definition of its slots | through `JobSeries` |
| `JobSeries` | `schedule_command` under one idempotency key, and the life of the series | `MCJobSeries` |
| `Worker` | `worker.py`: the loop, its hooks, `stop` | through `BatchWorker` |
| `EventBatch` | batched events in `listener.py` and the reaper that returns abandoned claims | through `BatchWorker` |
| `BatchWorker` | `Worker` composed with `EventBatch`: a poll is a `listen_once` | `MCBatchWorker` |
| `RedisTransport` | one channel's keys, consumers and reapers, the copies of one message | `MCRedisTransport` |
| `RedisTransportLive` | the same steps with a fault budget and fairness | itself |
| `RequestResponse` | requesters, the coordinator and the reply queue | itself |
| `Scheduler` | one task, its persisted state, its restarts and the loop that runs it | itself |
| `JobSeriesProofs`, `BatchWorkerProofs`, `RedisTransportProofs`, `RequestResponseProofs`, `SchedulerProofs` | the theorems about these specifications | TLAPS |

The `MC` modules only add values for constants, symmetry sets and state
constraints.  A definition whose comment begins "Mutant of" is a deliberately
wrong variant of the one after it; no specification uses it.

### DurableJob

State: `jobs` are the rows, by occurrence; `series` is the series row (state
`None` for a one-off job); `wire` is the set of delivery copies in the broker's
queues, the dead-letter queue included; `pub` and `con` are the runners' and
listeners' program counters and locals.

Every store method is one database transaction and therefore one action; publish,
ack and handler calls are actions of their own, so everything else can happen
between them.  Runner: `ClaimJob`, `ParkExhausted` and `CancelReclaimable` are
the branches of `claim`; `Publish`/`PublishRaises`;
`MarkPublished`/`MarkPublishIndeterminate`; `RunnerCrash`.  Listener, in the
order of `listen_once`: `Receive`, `Admit` (all of `admit_delivery`'s checks in
their order: `Decision`), `StartHandler` or `ObserverRaises` or `DecodeRaises`,
the handler's outcome (`HandlerRaises`, `ContinueProcessing`, `ContinueRefused`,
`CompleteSuccess`, `ResultRefused`), the checkpoint, `PublishSettlement`,
`ApplyOutcome`, or `Restore` and `Ack`.  `Crash` stands for process death and for
the exceptions that end a worker with its claim unsettled; a supervisor's restart
is the slot's return to `idle`.  `ReclaimFromSlow`, and what `Crash` leaves behind,
are the Redis reaper as the store sees it; with the in-memory transport the copy
is lost.

Abstractions:

* Wall-clock time is nondeterminism: a deadline that is set may have passed or not.
* `last_attempt` instants are compared only for equality, so `Now` is any stamp
  no row, copy or thread still carries.  A stamp the reaper writes never equals a
  row's, so all of them are `ReaperStamp`.
* With `Partial`, every delivery may meet a worker with or without the handler,
  which then settles with the policy's limit: a rolling deployment.
* `wire` is a set: equal copies collapse into one, and with `Duplicates` any copy
  may be delivered again (`ReceiveDuplicate`), which covers their number.
* The cadence's answer is an input of `CompleteSuccess` (`over`); `JobSeries` is
  about the answer itself.

### JobLifecycle and DurableJobRefinement

`JobLifecycle` is what the caller of `schedule_command` may rely on, without
database, transport, generations, leases or crashes.  An occurrence is `absent`,
`waiting`, `running`, `parked` (an attempt of unknown outcome left for an
operator), `succeeded`, `dead` or `cancelled`; the series is none, active,
cancelled, completed or failed.  Attempts start only on the latest occurrence of
an open lineage; a parked occurrence never runs again; success and the successor,
a dead letter and the failure of the series, a cancellation and the end of what
waits are single steps; an attempt of a cancelled series never goes back to
waiting and is never parked; nothing follows the end of an occurrence.

`DurableJobRefinement` maps the rows: `RUNNING` is `running`; a row in
reconciliation because its handler's outcome is unknown is `parked`; every other
open state is `waiting`.  `ImplementsLifecycle` says that the mapped behaviour
satisfies `JobLifecycle!Spec`.  Retry counts and dead-letter intents are left out
of the abstract specification because the code does not keep them with two
listeners: see `LateOutcome` in section 6.

### Recurrence and JobSeries

`Recurrence` has `next_cadence_at` and its helpers by the names of the code, over
integer instants, one zone transition and a calendar with small weeks and months.
`UtcOf` and `Local` are `astimezone`, with both folds and gaps.  The loop over
indices is the least index that is late enough, among `Lookahead` more than the
first; that two suffice is part of the proof of `FirstSlotTaken`.  `IsSlot` and `IsInstantOf` are the reference: the slots by what the wall
clock shows, with no index and no resolution.

In `JobSeries`, clients call `schedule_command` under one key.  A call validates
and fills `run_at` (`Call`), inserts the series row and the job row in that order
(`InsertSeries`, `InsertJob`), which waits on an open transaction with the key and
fails on a committed one; a failed insert rolls back its block and looks the key
up (`InsertFails`, `Lookup`); the caller's transaction commits or not
(`Commit`, `Rollback`).  A committed series then lives: the occurrence succeeds at
any time from `available_at` on and asks for the cadence, for an instant of its
own or for the end (`CompleteNone`, `CompleteNext`, `CompleteEnd`), or the series
is cancelled.  How the occurrence is delivered is `DurableJob`.

### Worker, EventBatch and BatchWorker

`Worker` has one action per place of `run` where another thread's `stop` can
matter: the head of the loop, the admission of a poll (which reads the stop event
under the lock), the poll, the report of an error, the delay, each hook of start
and stop.  Hooks may raise at every place; an error is ordinary or an abort.
`run` has no `max_iterations`, as deployed.  One `Worker` lives as long as its
process: `Run` is a new process with a new `Worker` and `Listener`.

`EventBatch` is `listen_once` for an event with a batched handler, one message
type.  The transport is one that claims, as Redis does.  A consume, a `size`, each
claim of `consume_many` and each settlement (publication, then ack) are steps; a
settlement that raises may have had no effect, only the publication, or both
(`SettleRaises`).  The bookkeeping at the end of a batch (timers, backoff) is part
of the last settlement.  `started` and `backoff` are private to a listener and
their clocks are the actions `WaitElapses` and `BackoffElapses`.  A listener that
lacks an event's type cannot decode it (`Foreign`), alone or inside a batch.
Claims become orphans, and the reaper's, when the run that holds them is over;
a reaper that takes the claim of a slow consumer is in `DurableJob` and
`RedisTransport`.

`BatchWorker` joins them: the worker's poll is the listener's `listen_once`, what
it raises decides whether the worker goes on, an interrupt or a death leaves
claims behind, a supervisor restarts what is down.

### RedisTransport

Each Redis command or MULTI/EXEC pipeline is one action; a failed pipeline may
have applied any of its commands (`RecordClaimFails`, `SettleClaimFails`).  The
copies of one message are told apart by the headers the reaper rewrites, and
lists are bags of them: order plays no part among one message's copies.  Marker
age is counted in confirmation delays (`Delay`).  With `Prompt`, consumers and
reapers that live keep to the configured timeouts; without it they may be
arbitrarily slow.  A reaper slot follows one payload, or one claim, of a sweep.

### RequestResponse

A requester is a polling thread (`Pybus.request`, `_await_response`) or one in
`wait_for_response`.  The coordinator's methods hold its lock and are one action
each; between `take_response`, `consume` and `store_response` every other thread
may run.  Replies may come late, never or twice.

### Scheduler

Integer ticks, days of `DayLength` ticks.  `run_due_tasks` reads the clock once,
so `Tick` may happen during a run.  A write to the state store that raises may
have been stored; a crash may come before or after it.  The loop is `StartLoop`,
`Check` (of the stop flag), the cycle of `run_due_tasks`, `NothingDue` and `Wake`;
`Stop` may come between any two of them, and the application may call
`run_due_tasks` itself.

## 3. Runs

| Run | Bounds | Shows |
|---|---|---|
| `Lineage` | one-off job or series of 2 occurrences, 1 listener, 1 runner, 2 generations, partial deployment with policy limit 0 and handler limit 1, every fault at every step | `TypeOK`, `NoStrandedJob`, `RetryBudget`, `DeadLetterIsPublished`, `SeriesConsistent`, `RetryNeverDecreases`, `DeadLetterIntentKept` |
| `TwoListeners` | one-off job or series of 1 occurrence, 2 listeners, 1 runner, 2 generations, duplicated delivery, partial deployment with limits 1 and 0 | `OneHandlerPerGeneration`, `EngagedRowIsFenced`, `TerminalIsFinal`, `ImplementsLifecycle` |
| `Liveness` | one-off job or series of 2 occurrences, 2 faults, 5 generations, 1 reclaim | `EventuallySettled`, `IntentCarriedOut`, `CancelTakesEffect`, `ImplementsLifecycle` |
| `Series` | one client with every cadence, 7 zones (none, and half a day forward or back at three times), 4 first runs, with and without an end; or 3 clients that contend for the key with equal and different requests; days of 4 ticks, weeks of 2 days, months of 3 and 2 days, 24 ticks | `TypeOK`, `OneJobPerKey`, `SameRequestIsFound`, `KeepsWallClock`, `NextIsFirstSlot` |
| `Batch` | 2 events, batches of 2, retry limits 1, 1 reclaim; one worker with 2 hooks, 2 faults and 1 mishap; or two workers without faults, one of them with a mishap, the other unable to decode one event | `TypeOK`, `NoEventLost`, `ExactlyOnce`, `HooksBalanced`, `NoPollAfterStop`, `FailClosed`, `StopEndsRun`, `BuffersDrain` |
| `RedisNoLoss` | 2 consumers, 1 reaper, 2 claim ids, 2 copies, 1 reclaim | `TypeOK`, `NoLoss` |
| `RedisLiveness` | 1 consumer, 1 reaper, 4 claim ids, 1 fault besides unlimited consumer crashes | `EventuallyDrained` |
| `Reply` | 2 polling threads (one without a timeout), 1 waiter, 2 replies each | `TypeOK`, `NoReplyLost`, `EveryRequestEnds`, `AnsweredRequestEnds` |
| `Schedule` | a cron task on 2 days of a 3-day week, or an interval task, 12 ticks, 3 failures, a loop that is started and stopped at any time | `TypeOK`, `CompletedWorkIsNotRepeated`, `BackoffIsKept`, `StopEndsLoop`, `DueTaskIsRun` |
| `LateOutcome`, `StaleMarker`, `LateReply` | | the findings of section 6 |

Why the bounds are enough to be interesting:

* Durable jobs: two generations are one reclaim, which is what makes a listener, a
  runner or a copy stale; two occurrences are one succession; limits that differ
  between workers with and without the handler let a budget be used up, exceeded
  and mismatched.  A fresh stamp is left in every reachable state of the passing
  runs.
* Batches: two events fill a batch, one leaves it to `max_wait`, and one of two is
  poison; a limit of 1 is one retry and one dead letter.  Two faults are a failed
  settlement and a failed retry of it.  Scenarios keep faults, which multiply the
  states of a worker, apart from contention, which multiplies workers; two workers
  of which one fails in the middle of a settlement are not covered by this run.
* Recurrence: the transition falls before, on and after a slot of each time of
  day, the gap is long enough to move a slot past midnight, the month after the
  anchor's may lack its day, and the horizon passes two months.
* Redis: two equal copies with two claim ids are what a double settlement or a
  wrong reindex needs.  `Unsettled` stops `RedisNoLoss` where `NoLoss` can no
  longer fail; `FewCopies` cuts states with more than two copies.

Symmetry permutes slots that are interchangeable and is used in safety runs only.
Deadlock is checked in `Batch`, where somebody can always go on.  Elsewhere
`CHECK_DEADLOCK FALSE` is right: a finished job, a drained queue, ended requests
and a clock at its bound are ends the system may reach.

### Fairness and timing

* `DurableJobLive`: worker loops poll forever, so runner and listener steps are
  weakly fair.  Queues are FIFO lists, hence the strong fairness of receiving an
  admissible copy although aborted copies are put back on the same list.  A
  handler does not answer `ContinueProcessing` forever.  `Quiet` is the
  configuration rule that the lease is longer than a publication and
  `reconciliation_delay` longer than a delivery (30 s and 5 min by default).
  Faults are finite, up to `MaxFaults`.  Several listeners are not claimed: with
  two, the late outcome of section 6 can be repeated and each repetition costs a
  generation.
* `BatchWorker`: every worker's thread runs, a supervisor restarts a process that
  is down, clocks advance and the reaper sweeps both lists, each weakly fair.
  Faults, failing hooks and calls of `stop` are never assumed to happen, and are
  finite by the scenario.  The reaper must be given the buffer's channel: it sweeps
  only the channels it is configured with, and with `Swept = {"queue"}` a claim of
  the buffer stays an orphan and `BuffersDrain` fails.
* `RedisTransportLive`: a sweep visits every processing entry and every stale
  claim, so `List` and `FindStale` are strongly fair, each for itself, and time
  passes.  Consumers may crash forever; the reaper's own failures, failed
  pipelines and copies handed back unchanged are bounded, since each can make a
  copy that costs no retry.
* `RequestResponse`: threads run and clocks reach deadlines; replies are not
  assumed to come.
* `Scheduler`: the loop's thread runs and tasks return; `start`, `stop` and
  crashes are never assumed.

## 4. Proofs

The theorems hold for every value of the constants: any number of listeners,
runners, workers, consumers, reapers, threads, clients, generations, events and
hooks, and any limits.  The assumptions (`ConstantsAssumption`, `NoneAssumption`,
`RequestAssumption`, `SchedulerAssumption`, `StateAssumption`, `RedisAssumption`,
`WorkerAssumption`, `BatchAssumption`, `ComposedAssumption`) say that numbers are
numbers, sets are of their kind, and `None`, the dead-letter queue and the reaper's
stamp differ from the values they must not be confused with; `DistinctAssumption`
says that the positions of the backlog are different events.
`RecurrenceAssumption` and `SeriesAssumption` say that days, weeks and months are
not empty and that requests are what `schedule_command` and `Recurrence` accept,
with a zone whose one transition moves the wall clock by a day at most.  TLC
evaluates all of them in the runs of section 3. Two theorems have a hypothesis of
their own, `OneListener`: there is at most one listener slot.

| Module | Theorem | States |
|---|---|---|
| `DurableJobProofs` | `TypeCorrect` | `Spec => []TypeOK` |
| | `Fencing` | `Spec => []OneHandlerPerGeneration` |
| | `EngagedFenced` | `Spec => []EngagedRowIsFenced` |
| | `TerminalStays` | `Spec => TerminalIsFinal` |
| `DurableJobStoreProofs` | `NothingStranded` | `Spec => []NoStrandedJob` |
| | `BudgetKept` | `Spec => []RetryBudget` |
| | `DeadLetterFirst` | `Spec => []DeadLetterIsPublished` |
| | `RetriesNeverDecrease` | `OneListener`: `Spec => RetryNeverDecreases` |
| | `IntentKept` | `OneListener`: `Spec => DeadLetterIntentKept` |
| `DurableJobRefinementProofs` | `Refinement` | `Spec => ImplementsLifecycle` |
| | `SeriesAgrees` | `Spec => []SeriesConsistent` |
| `JobSeriesProofs` | `KeyNamesOneJob` | `Spec => []OneJobPerKey` |
| | `RepeatedCallIsAnswered` | `Spec => []SameRequestIsFound` |
| | `SeriesTypeCorrect` | `Spec => []TypeOK` |
| | `WallClockKept` | `Spec => []KeepsWallClock` |
| | `FirstSlotTaken` | `Spec => NextIsFirstSlot` |
| `BatchWorkerProofs` | `BatchTypeCorrect` | `Spec => []TypeOK` |
| | `EventsAreKept` | `Spec => []NoEventLost` |
| | `EventsAreSettledOnce` | `Spec => []ExactlyOnce` |
| | `HooksAreBalanced` | `Spec => []HooksBalanced` |
| | `StopPreventsPolls` | `Spec => NoPollAfterStop` |
| | `ClosedOnFailure` | `Spec => FailClosed` |
| `RedisTransportProofs` | `RedisTypeCorrect` | `Spec => []TypeOK` |
| | `MessageIsKept` | `Spec => []NoLoss` |
| `RequestResponseProofs` | `ReplyTypeCorrect` | `Spec => []TypeOK` |
| | `RepliesAreKept` | `Spec => []NoReplyLost` |
| `SchedulerProofs` | `ScheduleTypeCorrect` | `Spec => []TypeOK` |
| | `NotRepeated` | `Spec => CompletedWorkIsNotRepeated` |
| | `BackoffKept` | `Spec => BackoffIsKept` |

None of the safety invariants is inductive as it stands.  What each proof adds,
and why:

* **Fencing** (`FenceInv`).  A second copy is refused because of the row's state,
  so the invariant must speak of the row: the row of an engaged listener is fenced
  (`EngagedRowIsFenced`: `RUNNING`, cancelled or parked), nobody is engaged ahead
  of its row (`EngagedIsNotAhead`), and the row a success creates, which starts at
  generation 0, is nobody's yet (`SuccessorIsAbsent`).  Each action falls into one
  of three kinds: nobody becomes engaged and every row is treated well
  (`QuietStep`), one listener lets go of its row (`LeaveStep`), or one is admitted
  (`AdmitFence`).  The same case analysis shows that no step touches a terminal row.
* **Rows** (`StoreInv`).  `RowInv` is what a row promises by itself: which states
  have a deadline, and what a row without a recorded budget looks like.  A listener
  writes the retry count of its copy into the row, so copies in hand must be within
  the row's budget, which never changes once recorded; and the intent to
  dead-letter travels from a row to a claim or an outcome together with the
  dead-letter queue of its copy (`ListenerInv`, `RunnerInv`).
* **One listener** (`IntentInv`).  `apply_outcome` and `mark_published` write what a
  thread remembers, so the row must still say it.  Between checkpoint and outcome
  the row is `SETTLING` with the very count and intent that will be reported, or it
  is finished or at a later generation (`Reported`); a claim that owns its row
  carries the row's intent (`ClaimHolds`); and a row with an intent to dead-letter
  is claimed, settling or finished, and names the dead-letter queue, so no copy in a
  listener's hand is admitted to it.  Runners and `cancel_recurring` keep
  `Reported` (`SparesSettling`); a second listener would not: that is the finding
  of `LateOutcome`, and the reason for the hypothesis.
* **Refinement** (`Consistent`).  Which abstract step a write of a row is depends
  on the row being the latest of its lineage and on the states it may be in once
  its series has ended.  `Consistent` says so on the abstract state, for one-off
  jobs too, and is preserved by the abstract steps; step simulation and
  `SeriesConsistent` are proved together from it, `StoreInv` and `FenceInv`.
* **Idempotency key** (`KeyInv`).  Which rows exist is a function of where the
  calls are; at most one row of each table has the key, committed or not; a call
  past its `INSERT` has met a committed row, so nobody inserts any more.
* **Cadence** (`SeriesInv`).  A call keeps what it was accepted with until its rows
  are committed (`RequestsOK`), so the first run is before the end; a run by the
  cadence is the instant of the slot of some index (`SeriesOK`).  The rest is about
  the operators.  `MonthStart` is a recursive function: that its definition has a
  solution, that months increase and that each date is in exactly one month follow
  from the least number that a statement fails for (`Least`, from the well-founded
  order of the library), which takes the place of induction.  `_resolve_local`
  always finds an instant, and the one the reference names (`ResolvedIs`,
  `InstantIs`); instants of slots a day apart keep their order (`ResolvedOrder`).
  Every candidate is a slot and every slot is the candidate of an index that
  `_initial_index` is not past (`CandidateIsSlot`, `SlotHasIndex`); two indices on,
  the slot is at least two days ahead, more than a transition can take back
  (`SlotAhead`), so the loop ends (`NextIs`).  The month lengths are any sequence
  that repeats: the Gregorian calendar is one, with a period of 400 years.
* **Batches** (`BatchInv`).  Where `listen_once` is says which claims it holds, and
  a batch that is being acked was handled (`Holding`); the worker polls exactly
  while its listener is not idle, and claims outlive a poll only on the way out of
  the loop (`Tied`, which is what makes the worker fail closed).  `Settlement`
  shows for every kind of settlement that its publication, or the handler's
  acceptance, covers the claim it gives up.  `NoEventLost` is then kept by each
  step of one listener (`ListenerStep`) and by the reaper (`SweepPreserves`), for
  any number of listeners of one queue and buffer.
* **Batches without faults** (`OnceInv`).  Until something raises or dies nobody
  aborts, the reaper finds no orphan (`Tidy`), no claim outlives its poll, and an
  event is once in one of the sequences that can hold it (`Distinct`, `Apart`,
  `Single`).  A settlement takes the event out of its claim and puts it in exactly
  one other place (`OnceSettle`, `OnceHanded`), so the places of an event, counted
  as `ExactlyOnce` counts them, are one.  With a fault the copy that is left behind
  and the copy that was published may both exist, hence the restriction.
* **Redis** (`RedisInv`).  A slot may be about to settle, and the entry its `LREM`
  takes off may be anybody's.  Every settlement comes after a publication of the
  same slot, so there is always one copy more than there are slots that have
  published and not settled: an argument by cardinalities (`Enough`).
* **Replies** (`ReplyInv`).  Only threads in `wait_for_response` register
  deadlines, so eviction never drops a reply that a polling thread waits for.
* **Scheduler** (`ScheduleInv`).  A recorded last run is in the past and its
  successor due on a later day; a run under way was due; what an instance knows is
  never due before the backoff in the store.

TLC checked these invariants on the instances of section 3 before they were proved.

Only model-checked:

* every liveness property: fairness and ENABLED are beyond the prover.  Every
  invariant and every safety action property that a passing run checks is a
  theorem; `RetryNeverDecreases` and `DeadLetterIntentKept` under `OneListener`.

## 5. What is not modelled

* the order in which `claim` picks among several jobs, and the limits of the
  reaper's scans (`batch_limit`): both need several lineages or messages;
* plain commands and events, also events with several handlers: the listener path
  of `DurableJob` without the store;
* `max_iterations` of `Worker.run`, a bound for tests;
* state files of the scheduler that another program wrote;
* codecs, registry, composition, Django settings, in-memory containers and the
  CLI: conversion, wiring or I/O without a protocol.  `BatchBuffer` in
  `batching.py` is used by nobody in the package.

## 6. Findings

* **`LateOutcome`** (`integrations/django_durable/store.py:719`).  `apply_outcome`
  compares generation and state but not the retry count.  The outcome of attempt
  *n*, applied late while attempt *n+1* of the same generation is `SETTLING`,
  lowers the row's retry count and erases the intent of attempt *n+1*.  The
  design document says retries never decrease.
* **`StaleMarker`** (`integrations/redis.py:398`).  A sweep's list and index reads
  are not atomic; the marker it leaves for a copy that was settled in between is
  kept, and confirms an equal copy, moved later by a live consumer, at first
  sight.  The result is a duplicate delivery, not a loss.
* **`LateReply`** (`bus.py:704`).  A polling request registers no deadline, so a
  reply to it that another thread consumes after its timeout stays in the
  coordinator.

Observations without a run:

* `_restore_claimed_command_and_abort` reports that the command "was restored
  before handler execution" (`listener.py:939`), and
  `_checkpoint_durable_settlement` calls it after the handler ran
  (`listener.py:911`).  In the model this is the path from `CheckpointRaises` to
  `Restore`; the row stays `RUNNING`, so the restored copy is dropped until a poll
  reclaims the row.
* The second flush of `listen_once` is inside its `try`.  If `size` raises there,
  the envelope that was just buffered and acked counts as failed and is requeued
  or dead-lettered as well (`ReadSizeRaises`): two copies, or a dead letter of an
  event that is then handled.  `ExactlyOnce` therefore speaks of behaviours without
  faults.
* A slot that a timezone gap moves past midnight can be skipped.  In a zone whose
  clocks go from 23:00 to 24:00 (America/Nuuk, 30 March 2024) the daily 23:30 slot
  becomes 00:30 of the next day; completed at 00:10 of that day, `next_cadence_at`
  starts from the index of that day and takes its 23:30.  `docs/api-contract.md`
  speaks of the first slot strictly after completion.  `NextIsFirstSlot` leaves
  these slots out, and the instance has states that need the exception.
* `Worker.stop` from a signal handler of the thread that runs the worker can wait
  for the non-reentrant lock of its own thread (`worker.py:86`).
* A `WorkerAbortError` of an `after_poll` hook is only logged if the poll itself
  failed with an ordinary error (`CycleError`); an exception of `on_stop` that is
  not an `Exception` leaves the running flag set.
* The backoff of a failed batch is memory of one listener: another listener of the
  same buffer retries at once.
* The scheduler's `start` clears the stop flag, so a `stop` before `start` is lost.

## 7. Plan

Done: the durable-job core, its abstract specification and refinement, scheduling
and recurrence, batched events in their worker, the Redis transport,
request/response, the scheduler and its loop; the theorems of section 4.  Next, in
this order:

1. Several messages in the Redis model, for `batch_limit`.
