----------------------------- MODULE DurableJob -----------------------------
(***************************************************************************)
(* The durable-job state machine of pybus: the rows that                   *)
(* DjangoDurableJobStore keeps (integrations/django_durable/store.py), the *)
(* runners that claim and publish them (durable.py, DurableJobRunner) and  *)
(* the listeners that consume the published copies (listener.py), for one  *)
(* lineage: a one-off job, or a recurring series and its occurrences.      *)
(*                                                                         *)
(* Every store method runs in one database transaction, so it is one       *)
(* action; what happens between two store calls of the same thread can     *)
(* interleave with every other thread.  A listener slot whose worker dies  *)
(* or aborts returns to "idle": its supervisor starts a new worker.        *)
(*                                                                         *)
(* Wall-clock time is nondeterminism: a lease or reconciliation deadline   *)
(* that is set may have passed, or not, whenever a runner polls.           *)
(***************************************************************************)
EXTENDS Naturals, FiniteSets

CONSTANTS
    Consumers,     \* listener slots
    Publishers,    \* DurableJobRunner slots
    Queues,        \* application queues of the topology
    DLQ,           \* the dead-letter queue
    None,          \* Python's None
    Kinds,         \* the lineages to start with: "one_off", "series"
    Partial,       \* TRUE: workers without the command's handler consume too
    PolicyMax,     \* RetryPolicy.max_retries of every listener
    SpecLimit,     \* HandlerSpec.retry_limit, or None
    Duplicates,    \* TRUE: the transport may deliver a copy more than once
    MaxReclaim,    \* RedisReaperPolicy.max_reclaim_attempts
    MaxOcc,        \* bound: occurrences of the series
    MaxGen,        \* bound: generations of an occurrence
    Stamps,        \* bound: distinct last_attempt instants alive at one time
    ReaperStamp    \* a last_attempt the reaper took: no row ever holds it

ASSUME ConstantsAssumption ==
    /\ DLQ \notin Queues
    /\ Queues # {}
    /\ Kinds \subseteq {"one_off", "series"}
    /\ Partial \in BOOLEAN
    /\ Duplicates \in BOOLEAN
    /\ PolicyMax \in Nat
    /\ SpecLimit \in Nat \cup {None}
    /\ MaxReclaim \in Nat
    /\ MaxOcc \in Nat \ {0}
    /\ MaxGen \in Nat
    /\ None \notin Nat
    /\ None \notin Stamps
    /\ ReaperStamp \notin Stamps \cup {None}

VARIABLES
    jobs,      \* DurableJob rows of the lineage, by occurrence number
    series,    \* the JobSeries row; state None for a one-off job
    wire,      \* the delivery copies that wait in the transport's queues
    pub,       \* the runners: program counter and DurableJobClaim
    con        \* the listeners: program counter, claimed copy, settlement

vars == <<jobs, series, wire, pub, con>>
-----------------------------------------------------------------------------
Occ == 1..MaxOcc

Terminal == {"SUCCEEDED", "DEAD_LETTERED", "CANCELLED"}
Reconciled == {"PUBLISHED", "INDETERMINATE", "RUNNING", "SETTLING"}
JobStates == {"absent", "PENDING", "CLAIMED"} \cup Reconciled \cup Terminal
Statuses == {"RETRY_SCHEDULED", "CONTINUED", "DEAD_LETTERED"}
SeriesStates == {"ACTIVE", "CANCELLED", "COMPLETED", "FAILED"}

\* A row.  due: reconciliation_due_at is set.
Job == [state: JobStates, generation: Nat, retry_count: Nat,
        max_retries: Nat \cup {None}, queue: Queues \cup {DLQ},
        settlement_status: Statuses \cup {None},
        last_attempt_at: Stamps \cup {None}, due: BOOLEAN,
        indeterminate_reason:
            {None, "publication_acknowledgement", "handler_outcome"}]

\* A delivery envelope.  queue: the list it was pushed on.
Copy == [occ: Occ, generation: Nat, retry_count: Nat,
         queue: Queues \cup {DLQ}, last_attempt: Stamps \cup {None, ReaperStamp}]

Claim == [copy: Copy, settlement_status: Statuses \cup {None}]

ASSUME NoneAssumption ==
    None \notin Copy /\ None \notin Claim /\ None \notin Statuses \cup SeriesStates

ConsumerPCs == {"idle", "received", "admitted", "handling", "failing",
                "erroring", "missing", "continuing", "settling", "published",
                "restoring", "acking"}

\* holds: the transport's claim on msg is still this listener's own.
\* out, status: the copy to publish and the outcome to report.
Consumer == [pc: ConsumerPCs, msg: Copy \cup {None}, holds: BOOLEAN,
             out: Copy \cup {None}, status: Statuses \cup {None}]

Publisher == [pc: {"idle", "claimed", "sent", "unsure"},
              claim: Claim \cup {None}]

Idle == [pc |-> "idle", msg |-> None, holds |-> FALSE, out |-> None,
         status |-> None]
NoClaim == [pc |-> "idle", claim |-> None]

FirstQueue == CHOOSE q \in Queues : TRUE
AbsentJob == [state |-> "absent", generation |-> 0, retry_count |-> 0,
              max_retries |-> None, queue |-> FirstQueue,
              settlement_status |-> None, last_attempt_at |-> None,
              due |-> FALSE, indeterminate_reason |-> None]
PendingJob == [AbsentJob EXCEPT !.state = "PENDING"]

\* schedule / schedule_recurring: the series row and its first occurrence are
\* inserted in one transaction.
Init ==
    /\ jobs = [o \in Occ |-> IF o = 1 THEN PendingJob ELSE AbsentJob]
    /\ \E kind \in Kinds :
          series = [state |-> IF kind = "series" THEN "ACTIVE" ELSE None,
                    latest |-> 1]
    /\ wire = {}
    /\ pub = [p \in Publishers |-> NoClaim]
    /\ con = [c \in Consumers |-> Idle]
-----------------------------------------------------------------------------
(* last_attempt instants are compared only for equality, so datetime.now() *)
(* is any stamp that no row, copy or thread still carries.                 *)
LiveStamps ==
    {jobs[o].last_attempt_at : o \in Occ}
    \cup {m.last_attempt : m \in wire}
    \cup {con[c].msg.last_attempt : c \in {d \in Consumers : con[d].msg # None}}
    \cup {con[c].out.last_attempt : c \in {d \in Consumers : con[d].out # None}}
    \cup {pub[p].claim.copy.last_attempt :
              p \in {q \in Publishers : pub[q].claim # None}}
FreshStamps == Stamps \ LiveStamps
Now == CHOOSE t \in FreshStamps : TRUE

Recurring == series.state # None
SeriesOpen == series.state \in {None, "ACTIVE"}

\* Whether the handler is registered where a copy arrives.
Deployments == IF Partial THEN BOOLEAN ELSE {TRUE}

\* Listener._dispatch: the handler's own limit, else the listener's policy.
CommandMax(registered) ==
    IF registered /\ SpecLimit # None THEN SpecLimit ELSE PolicyMax

\* _cancel_occurrence and the same assignments elsewhere.
Cancelled(j) == [j EXCEPT !.state = "CANCELLED", !.due = FALSE]

\* _guarded_series_update: the row that matched filters and expected state is
\* rewritten, or cancelled with its series; a finished series blocks it.
Updatable(matches) == matches /\ series.state \in {None, "ACTIVE", "CANCELLED"}
GuardedUpdate(j, matches, new) ==
    CASE ~Updatable(matches) -> j
      [] Updatable(matches) /\ series.state = "CANCELLED" -> Cancelled(j)
      [] OTHER -> new
-----------------------------------------------------------------------------
(* Runners: store.claim, publish, store.mark_published /                   *)
(* mark_publish_indeterminate.                                             *)

\* Mutant of Reclaimable: an expired publication lease is not polled for.
ReclaimableNoLease(j) == j.state \in Reconciled /\ j.due
\* Mutant of Reclaimable: a checkpointed settlement is not polled for.
ReclaimableNoSettling(j) ==
    \/ j.state = "CLAIMED"
    \/ j.state \in Reconciled \ {"SETTLING"} /\ j.due

\* The row may be taken at a poll: never claimed, or its deadline has passed.
Reclaimable(j) ==
    \/ j.state = "CLAIMED"
    \/ j.state \in Reconciled /\ j.due
Claimable(j) == j.state = "PENDING" \/ Reclaimable(j)

\* Mutant of Exhausted: one run too many.
ExhaustedLate(j) ==
    /\ j.state = "RUNNING"
    /\ j.max_retries # None
    /\ j.retry_count > j.max_retries

\* A RUNNING row whose budget is spent is not run again.
Exhausted(j) ==
    /\ j.state = "RUNNING"
    /\ j.max_retries # None
    /\ j.retry_count >= j.max_retries

\* Mutant of ClaimedJob: a new generation starts with a fresh budget.
ClaimedJobFreshBudget(j) ==
    [j EXCEPT !.state = "CLAIMED", !.generation = @ + 1, !.retry_count = 0,
              !.due = FALSE, !.indeterminate_reason = None]
\* Mutant of ClaimedJob: the claim forgets the checkpointed settlement.
ClaimedJobNoSettlement(j) ==
    [j EXCEPT !.state = "CLAIMED", !.generation = @ + 1, !.due = FALSE,
              !.settlement_status = None, !.indeterminate_reason = None]

\* An unfinished handler costs one attempt.
ClaimedJob(j) ==
    LET ran == j.state = "RUNNING"
    IN  [j EXCEPT !.state = "CLAIMED",
                  !.generation = @ + 1,
                  !.retry_count = IF ran THEN @ + 1 ELSE @,
                  !.last_attempt_at = IF ran THEN Now ELSE @,
                  !.due = FALSE,
                  !.indeterminate_reason = None]

\* DurableJobClaim.from_record and delivery_envelope.
ClaimOf(o, j) ==
    [copy |-> [occ |-> o, generation |-> j.generation,
               retry_count |-> j.retry_count, queue |-> j.queue,
               last_attempt |-> j.last_attempt_at],
     settlement_status |-> j.settlement_status]

ClaimJob(p, o) ==
    /\ pub[p].pc = "idle"
    /\ SeriesOpen
    /\ Claimable(jobs[o])
    /\ ~Exhausted(jobs[o])
    /\ jobs[o].generation < MaxGen
    /\ jobs[o].state = "RUNNING" => FreshStamps # {}
    /\ jobs' = [jobs EXCEPT ![o] = ClaimedJob(@)]
    /\ pub' = [pub EXCEPT ![p] =
                  [pc |-> "claimed", claim |-> ClaimOf(o, ClaimedJob(jobs[o]))]]
    /\ UNCHANGED <<series, wire, con>>

ParkExhausted(p, o) ==
    /\ pub[p].pc = "idle"
    /\ SeriesOpen
    /\ Reclaimable(jobs[o])
    /\ Exhausted(jobs[o])
    /\ jobs' = [jobs EXCEPT ![o].state = "INDETERMINATE", ![o].due = FALSE,
                            ![o].indeterminate_reason = "handler_outcome"]
    /\ UNCHANGED <<series, wire, pub, con>>

\* Mutant of CancelReclaimable: only expired leases are swept.
CancelReclaimableLeases(p, o) ==
    /\ pub[p].pc = "idle"
    /\ series.state = "CANCELLED"
    /\ jobs[o].state = "CLAIMED"
    /\ jobs' = [jobs EXCEPT ![o] = Cancelled(@)]
    /\ UNCHANGED <<series, wire, pub, con>>

CancelReclaimable(p, o) ==
    /\ pub[p].pc = "idle"
    /\ series.state = "CANCELLED"
    /\ Reclaimable(jobs[o])
    /\ jobs' = [jobs EXCEPT ![o] = Cancelled(@)]
    /\ UNCHANGED <<series, wire, pub, con>>

Publish(p) ==
    /\ pub[p].pc = "claimed"
    /\ wire' = wire \cup {pub[p].claim.copy}
    /\ pub' = [pub EXCEPT ![p].pc = "sent"]
    /\ UNCHANGED <<jobs, series, con>>

\* The publisher raised: the broker may or may not have the copy.
PublishRaises(p) ==
    /\ pub[p].pc = "claimed"
    /\ wire' \in {wire, wire \cup {pub[p].claim.copy}}
    /\ pub' = [pub EXCEPT ![p].pc = "unsure"]
    /\ UNCHANGED <<jobs, series, con>>

\* Mutant of ClaimOwns: the expected state is not compared.
ClaimOwnsAnyState(claim, j) == j.generation = claim.copy.generation

\* The row is still the one this claim took.
ClaimOwns(claim, j) ==
    j.generation = claim.copy.generation /\ j.state = "CLAIMED"

\* Mutant of PublishedJob: no reconciliation deadline.
PublishedJobNoDeadline(claim, j) ==
    [j EXCEPT !.state = "PUBLISHED", !.settlement_status = None]

PublishedJob(claim, j) ==
    [j EXCEPT !.state = "PUBLISHED", !.due = TRUE,
              !.settlement_status =
                  IF claim.settlement_status # None THEN None ELSE @]

DeadLetteredJob(j) ==
    [j EXCEPT !.state = "DEAD_LETTERED", !.due = FALSE]

\* Mutant of FailActiveSeries: the series is left to be failed by somebody else.
FailActiveSeriesLater == series

\* _fail_active_series
FailActiveSeries ==
    IF series.state = "ACTIVE" THEN [series EXCEPT !.state = "FAILED"] ELSE series

MarkPublished(p) ==
    LET claim == pub[p].claim
        o == claim.copy.occ
        owns == ClaimOwns(claim, jobs[o])
        dead == claim.settlement_status = "DEAD_LETTERED"
    IN  /\ pub[p].pc = "sent"
        /\ jobs' = [jobs EXCEPT ![o] =
               CASE ~owns -> @
                 [] owns /\ dead -> [DeadLetteredJob(@) EXCEPT
                                        !.indeterminate_reason = None]
                 [] owns /\ ~dead -> PublishedJob(claim, @)]
        /\ series' = IF owns /\ dead THEN FailActiveSeries ELSE series
        /\ pub' = [pub EXCEPT ![p] = NoClaim]
        /\ UNCHANGED <<wire, con>>

\* Mutant of IndeterminateJob: a reason no reader of the row knows.
IndeterminateJobBadReason(claim, j) ==
    [j EXCEPT !.state = "INDETERMINATE", !.due = TRUE,
              !.indeterminate_reason = "publication_failed"]

IndeterminateJob(claim, j) ==
    IF claim.settlement_status # None
    THEN [j EXCEPT !.state = "SETTLING", !.due = TRUE,
                   !.indeterminate_reason = None]
    ELSE [j EXCEPT !.state = "INDETERMINATE", !.due = TRUE,
                   !.indeterminate_reason = "publication_acknowledgement"]

MarkPublishIndeterminate(p) ==
    LET claim == pub[p].claim
        o == claim.copy.occ
    IN  /\ pub[p].pc = "unsure"
        /\ jobs' = [jobs EXCEPT ![o] =
               IF ClaimOwns(claim, @) THEN IndeterminateJob(claim, @) ELSE @]
        /\ pub' = [pub EXCEPT ![p] = NoClaim]
        /\ UNCHANGED <<series, wire, con>>

\* The runner's process dies, or its store call raises.
RunnerCrash(p) ==
    /\ pub[p].pc # "idle"
    /\ pub' = [pub EXCEPT ![p] = NoClaim]
    /\ UNCHANGED <<jobs, series, wire, con>>
-----------------------------------------------------------------------------
(* Listeners.                                                              *)

Receive(c, m) ==
    /\ con[c].pc = "idle"
    /\ m.queue \in Queues
    /\ wire' = wire \ {m}
    /\ con' = [con EXCEPT ![c] = [Idle EXCEPT !.pc = "received", !.msg = m,
                                              !.holds = TRUE]]
    /\ UNCHANGED <<jobs, series, pub>>

\* An at-least-once transport delivers a copy it keeps.
ReceiveDuplicate(c, m) ==
    /\ Duplicates
    /\ con[c].pc = "idle"
    /\ m.queue \in Queues
    /\ con' = [con EXCEPT ![c] = [Idle EXCEPT !.pc = "received", !.msg = m,
                                              !.holds = TRUE]]
    /\ UNCHANGED <<jobs, series, wire, pub>>

\* admit_delivery: a copy that was superseded, or whose row is busy or done.
Superseded(j, m) ==
    \/ m.generation < j.generation
    \/ j.state \in Terminal \cup {"RUNNING"}

\* Mutant of HandlerOutcomeUnknown: the reason is not looked at.
HandlerOutcomeUnknownNever(j) == FALSE

HandlerOutcomeUnknown(j) ==
    /\ j.state = "INDETERMINATE"
    /\ j.indeterminate_reason # "publication_acknowledgement"

\* admit_delivery's checks, in their order.
Decision(j, m, limit) ==
    IF j.state = "absent" \/ m.generation > j.generation THEN "ABORT"
    ELSE IF Superseded(j, m) \/ ~SeriesOpen THEN "DROP"
    ELSE IF j.state = "PENDING" THEN "ABORT"
    ELSE IF HandlerOutcomeUnknown(j) THEN "DROP"
    ELSE IF j.queue # m.queue \/ j.last_attempt_at # m.last_attempt THEN "ABORT"
    ELSE IF m.retry_count < j.retry_count THEN "DROP"
    ELSE IF m.retry_count > j.retry_count THEN "ABORT"
    ELSE IF j.max_retries \notin {None, limit} THEN "ABORT"
    ELSE "PROCEED"

AdmittedJob(j, limit) ==
    [j EXCEPT !.state = "RUNNING", !.max_retries = limit, !.due = TRUE,
              !.settlement_status = None, !.indeterminate_reason = None]

\* The row a decision leaves: a cancelled series takes its row with it.
JobAfter(decision, j, m, limit) ==
    CASE decision = "PROCEED" -> AdmittedJob(j, limit)
      [] decision = "DROP" /\ series.state = "CANCELLED"
         /\ ~Superseded(j, m) -> Cancelled(j)
      [] OTHER -> j

PCAfter(decision, registered) ==
    CASE decision = "PROCEED" -> IF registered THEN "admitted" ELSE "missing"
      [] decision = "DROP" -> "acking"
      [] decision = "ABORT" -> "restoring"

\* Without a handler, HandlerNotFoundError is raised right after admission.
Admit(c, registered) ==
    LET m == con[c].msg
        limit == CommandMax(registered)
        decision == Decision(jobs[m.occ], m, limit)
    IN  /\ con[c].pc = "received"
        /\ jobs' = [jobs EXCEPT ![m.occ] = JobAfter(decision, @, m, limit)]
        /\ con' = [con EXCEPT ![c].pc = PCAfter(decision, registered)]
        /\ UNCHANGED <<series, wire, pub>>

\* The store raised: the copy is restored and the worker aborts.
AdmitRaises(c) ==
    /\ con[c].pc = "received"
    /\ con' = [con EXCEPT ![c].pc = "restoring"]
    /\ UNCHANGED <<jobs, series, wire, pub>>

\* STARTED observers passed: the handler runs.
StartHandler(c) ==
    /\ con[c].pc = "admitted"
    /\ con' = [con EXCEPT ![c].pc = "handling"]
    /\ UNCHANGED <<jobs, series, wire, pub>>

\* Decoding the message raised after admission: listen_once's generic handler.
DecodeRaises(c) ==
    /\ con[c].pc = "admitted"
    /\ con' = [con EXCEPT ![c].pc = "erroring"]
    /\ UNCHANGED <<jobs, series, wire, pub>>

\* The row is the one this delivery was admitted to.
DeliveryOwns(m, j) == j.generation = m.generation /\ j.state = "RUNNING"

\* RedisReaperRunner._reclaim: a claim nobody settled is published again, one
\* retry later, or dead-lettered at the reclaim limit.
Reclaimed(m) ==
    IF m.retry_count >= MaxReclaim
    THEN [m EXCEPT !.queue = DLQ]
    ELSE [m EXCEPT !.retry_count = @ + 1, !.last_attempt = ReaperStamp]

\* What becomes of an unsettled claim: lost with the worker (in-memory
\* transport) or republished by the reaper (Redis).
LeftBehind(c) ==
    IF con[c].holds THEN {{}, {Reclaimed(con[c].msg)}} ELSE {{}}

\* A STARTED observer raised: release_delivery, then the copy is restored; if
\* the row is no longer ours the claim is left unsettled.
ObserverRaises(c) ==
    LET m == con[c].msg
        matches == DeliveryOwns(m, jobs[m.occ])
    IN  /\ con[c].pc = "admitted"
        /\ jobs' = [jobs EXCEPT ![m.occ] =
               GuardedUpdate(@, matches, [@ EXCEPT !.state = "PUBLISHED",
                                                   !.due = TRUE])]
        /\ \/ /\ Updatable(matches)
              /\ con' = [con EXCEPT ![c].pc = "restoring"]
              /\ UNCHANGED wire
           \/ /\ ~Updatable(matches)
              /\ con' = [con EXCEPT ![c] = Idle]
              /\ \E left \in LeftBehind(c) : wire' = wire \cup left
        /\ UNCHANGED <<series, pub>>

HandlerRaises(c) ==
    /\ con[c].pc = "handling"
    /\ con' = [con EXCEPT ![c].pc = "failing"]
    /\ UNCHANGED <<jobs, series, wire, pub>>

\* The handler returned ContinueProcessing(queue=q): the unchanged envelope is
\* to be published on q.
ContinueProcessing(c, q) ==
    /\ con[c].pc = "handling"
    /\ con' = [con EXCEPT ![c].pc = "continuing", ![c].status = "CONTINUED",
                          ![c].out = [con[c].msg EXCEPT !.queue = q]]
    /\ UNCHANGED <<jobs, series, wire, pub>>

\* ... on the dead-letter queue or an unknown one: ValueError.
ContinueRefused(c) ==
    /\ con[c].pc = "handling"
    /\ con' = [con EXCEPT ![c].pc = "erroring"]
    /\ UNCHANGED <<jobs, series, wire, pub>>
-----------------------------------------------------------------------------
(* Success: DurableJobController.complete_success and                      *)
(* complete_recurring_success.                                             *)

\* other: a result of a type a recurring handler may not return;
\* next_past: ScheduleNextOccurrence not after the completion.
Results == {"none", "other", "end", "next", "next_past"}

SucceededJob(j) == [j EXCEPT !.state = "SUCCEEDED", !.due = FALSE]

\* The result is refused with InvalidMessageDefinitionError (rolled back).
RefusedRecurring(m, result) ==
    LET j == jobs[m.occ]
    IN  IF j.generation # m.generation
        THEN result \in {"end", "next", "next_past"}
        ELSE /\ j.state = "RUNNING"
             /\ \/ result = "other"
                \/ result = "next_past" /\ series.state = "ACTIVE"
Refused(m, result) ==
    IF Recurring THEN RefusedRecurring(m, result)
                 ELSE result \in {"end", "next", "next_past"}

\* over: the cadence is exhausted or the next instant is not before ends_at.
Advances(result, over) ==
    /\ series.state = "ACTIVE"
    /\ result # "end"
    /\ ~over
    /\ series.latest < MaxOcc

\* Mutant of NextSeries: a success revives a series that was cancelled.
NextSeriesUnguarded(result, over) ==
    IF result # "end" /\ ~over /\ series.latest < MaxOcc
    THEN [series EXCEPT !.latest = @ + 1]
    ELSE [series EXCEPT !.state = "COMPLETED"]

NextSeries(result, over) ==
    CASE series.state # "ACTIVE" -> series
      [] Advances(result, over) -> [series EXCEPT !.latest = @ + 1]
      [] OTHER -> [series EXCEPT !.state = "COMPLETED"]

CompleteSuccess(c, result, over) ==
    LET m == con[c].msg
        owns == DeliveryOwns(m, jobs[m.occ])
    IN  /\ con[c].pc = "handling"
        /\ ~Refused(m, result)
        /\ jobs' = [o \in Occ |->
               CASE owns /\ o = m.occ -> SucceededJob(jobs[o])
                 [] owns /\ o # m.occ /\ Advances(result, over)
                         /\ o = series.latest + 1 -> PendingJob
                 [] OTHER -> jobs[o]]
        /\ series' = IF owns THEN NextSeries(result, over) ELSE series
        /\ con' = [con EXCEPT ![c].pc = "acking"]
        /\ UNCHANGED <<wire, pub>>

ResultRefused(c, result) ==
    /\ con[c].pc = "handling"
    /\ Refused(con[c].msg, result)
    /\ con' = [con EXCEPT ![c].pc = "failing"]
    /\ UNCHANGED <<jobs, series, wire, pub>>
-----------------------------------------------------------------------------
(* Settlement: checkpoint, publish, ack, report.                           *)

\* The budget a failed delivery is settled under: the command's own after a
\* handler failure, the listener's policy after any other exception.
SettleMax(c) == IF con[c].pc = "failing" THEN CommandMax(TRUE) ELSE PolicyMax

\* _handle_failed_delivery and listen_once: retry while the budget lasts.
Retries(c) ==
    con[c].pc \in {"failing", "erroring"}
    /\ con[c].msg.retry_count < SettleMax(c)

RetryCopy(m) == [m EXCEPT !.retry_count = @ + 1, !.last_attempt = Now]

\* checkpoint_settlement's filters and values.
CheckpointMatches(m, j, out, max) ==
    /\ DeliveryOwns(m, j)
    /\ j.retry_count <= out.retry_count
    /\ j.max_retries = max

\* Mutant of SettlingJob: the dead letter is final before it is published.
SettlingJobEager(j, out, status) ==
    [j EXCEPT !.state = IF status = "DEAD_LETTERED" THEN status ELSE "SETTLING",
              !.retry_count = out.retry_count, !.queue = out.queue,
              !.due = status # "DEAD_LETTERED", !.settlement_status = status,
              !.last_attempt_at = out.last_attempt]

SettlingJob(j, out, status) ==
    [j EXCEPT !.state = "SETTLING", !.retry_count = out.retry_count,
              !.settlement_status = status, !.queue = out.queue, !.due = TRUE,
              !.last_attempt_at =
                  IF status = "RETRY_SCHEDULED" THEN out.last_attempt ELSE @]

\* checkpoint_settlement; its RuntimeError restores the copy and aborts.
Checkpoint(c, out, status, max) ==
    LET m == con[c].msg
        matches == CheckpointMatches(m, jobs[m.occ], out, max)
    IN  /\ jobs' = [jobs EXCEPT ![m.occ] =
               GuardedUpdate(@, matches, SettlingJob(@, out, status))]
        /\ con' = [con EXCEPT ![c] =
               IF Updatable(matches)
               THEN [@ EXCEPT !.pc = "settling", !.out = out, !.status = status]
               ELSE [@ EXCEPT !.pc = "restoring", !.out = None, !.status = None]]
        /\ UNCHANGED <<series, wire, pub>>

\* _requeue
CheckpointRetry(c) ==
    /\ Retries(c)
    /\ FreshStamps # {}
    /\ Checkpoint(c, RetryCopy(con[c].msg), "RETRY_SCHEDULED", SettleMax(c))

\* _dead_letter
CheckpointDeadLetter(c) ==
    /\ con[c].pc \in {"failing", "erroring", "missing"}
    /\ ~Retries(c)
    /\ Checkpoint(c, [con[c].msg EXCEPT !.queue = DLQ], "DEAD_LETTERED",
                  SettleMax(c))

\* _continue_processing
CheckpointContinue(c) ==
    /\ con[c].pc = "continuing"
    /\ Checkpoint(c, con[c].out, "CONTINUED", CommandMax(TRUE))

\* The store raised before the checkpoint was written.
CheckpointRaises(c) ==
    /\ con[c].pc \in {"failing", "erroring", "missing", "continuing"}
    /\ con' = [con EXCEPT ![c].pc = "restoring", ![c].out = None,
                          ![c].status = None]
    /\ UNCHANGED <<jobs, series, wire, pub>>

PublishSettlement(c) ==
    /\ con[c].pc = "settling"
    /\ wire' = wire \cup {con[c].out}
    /\ con' = [con EXCEPT ![c].pc = "published"]
    /\ UNCHANGED <<jobs, series, pub>>

\* apply_outcome after RETRY_SCHEDULED or CONTINUED.
OutcomeJob(j, out) ==
    [j EXCEPT !.state = "PUBLISHED", !.queue = out.queue,
              !.retry_count = out.retry_count, !.settlement_status = None,
              !.due = TRUE]

\* Mutant of OutcomeOwns: the expected state is not compared.
OutcomeOwnsAnyState(out, j) == j.generation = out.generation

OutcomeOwns(out, j) == j.generation = out.generation /\ j.state = "SETTLING"

\* The source copy is acked, then the outcome is applied to the row.
ApplyOutcome(c) ==
    LET out == con[c].out
        matches == OutcomeOwns(out, jobs[out.occ])
        dead == con[c].status = "DEAD_LETTERED"
    IN  /\ con[c].pc = "published"
        /\ jobs' = [jobs EXCEPT ![out.occ] =
               IF dead
               THEN IF matches THEN [DeadLetteredJob(@) EXCEPT !.queue = out.queue]
                               ELSE @
               ELSE GuardedUpdate(@, matches, OutcomeJob(@, out))]
        /\ series' = IF dead /\ matches THEN FailActiveSeries ELSE series
        /\ con' = [con EXCEPT ![c] = Idle]
        /\ UNCHANGED <<wire, pub>>

\* _restore_claimed_command_and_abort publishes the unchanged copy.
Restore(c) ==
    /\ con[c].pc = "restoring"
    /\ wire' = wire \cup {con[c].msg}
    /\ con' = [con EXCEPT ![c].pc = "acking"]
    /\ UNCHANGED <<jobs, series, pub>>

Ack(c) ==
    /\ con[c].pc = "acking"
    /\ con' = [con EXCEPT ![c] = Idle]
    /\ UNCHANGED <<jobs, series, wire, pub>>

\* The process dies, or an IndeterminateDeliveryError ends the worker with its
\* claim unsettled.
Crash(c) ==
    /\ con[c].pc # "idle"
    /\ con' = [con EXCEPT ![c] = Idle]
    /\ \E left \in LeftBehind(c) : wire' = wire \cup left
    /\ UNCHANGED <<jobs, series, pub>>

\* A publication of the listener raised although the broker has the copy.
PublishedThenCrash(c) ==
    /\ con[c].pc \in {"settling", "restoring"}
    /\ con' = [con EXCEPT ![c] = Idle]
    /\ \E left \in LeftBehind(c) :
          wire' = wire \cup left
                  \cup {IF con[c].pc = "settling" THEN con[c].out ELSE con[c].msg}
    /\ UNCHANGED <<jobs, series, pub>>

\* The reaper republishes the claim of a worker that is slow, not dead; the
\* worker's later ack is then a no-op.
ReclaimFromSlow(c) ==
    /\ con[c].pc # "idle"
    /\ con[c].holds
    /\ wire' = wire \cup {Reclaimed(con[c].msg)}
    /\ con' = [con EXCEPT ![c].holds = FALSE]
    /\ UNCHANGED <<jobs, series, pub>>
-----------------------------------------------------------------------------
\* Mutant of CancelsRow: a row that is being settled is left alone.
CancelsRowNotSettling(j) ==
    j.state \in {"PENDING", "CLAIMED", "PUBLISHED", "INDETERMINATE"}

\* Rows of the latest occurrence that cancel_recurring rewrites: all but the
\* terminal ones and a RUNNING one, whose handler finishes.
CancelsRow(j) ==
    j.state \in {"PENDING", "CLAIMED", "PUBLISHED", "SETTLING", "INDETERMINATE"}

CancelRecurring ==
    /\ series.state = "ACTIVE"
    /\ series' = [series EXCEPT !.state = "CANCELLED"]
    /\ jobs' = [jobs EXCEPT ![series.latest] =
                   IF CancelsRow(@) THEN Cancelled(@) ELSE @]
    /\ UNCHANGED <<wire, pub, con>>
-----------------------------------------------------------------------------
RunnerStep(p) ==
    \/ \E o \in Occ : ClaimJob(p, o) \/ ParkExhausted(p, o) \/ CancelReclaimable(p, o)
    \/ Publish(p)
    \/ MarkPublished(p)
    \/ MarkPublishIndeterminate(p)

HandlerStep(c) ==
    \/ HandlerRaises(c)
    \/ ContinueRefused(c)
    \/ \E q \in Queues : ContinueProcessing(c, q)
    \/ \E result \in Results :
          \/ ResultRefused(c, result)
          \/ \E over \in BOOLEAN : CompleteSuccess(c, result, over)

ListenerStep(c) ==
    \/ \E m \in wire : Receive(c, m)
    \/ \E registered \in Deployments : Admit(c, registered)
    \/ StartHandler(c)
    \/ HandlerStep(c)
    \/ CheckpointRetry(c)
    \/ CheckpointDeadLetter(c)
    \/ CheckpointContinue(c)
    \/ PublishSettlement(c)
    \/ ApplyOutcome(c)
    \/ Restore(c)
    \/ Ack(c)

RunnerFault(p) == PublishRaises(p) \/ RunnerCrash(p)

ListenerFault(c) ==
    \/ \E m \in wire : ReceiveDuplicate(c, m)
    \/ AdmitRaises(c)
    \/ DecodeRaises(c)
    \/ ObserverRaises(c)
    \/ CheckpointRaises(c)
    \/ Crash(c)
    \/ PublishedThenCrash(c)
    \/ ReclaimFromSlow(c)

Next ==
    \/ \E p \in Publishers : RunnerStep(p) \/ RunnerFault(p)
    \/ \E c \in Consumers : ListenerStep(c) \/ ListenerFault(c)
    \/ CancelRecurring

Spec == Init /\ [][Next]_vars
-----------------------------------------------------------------------------
(* Properties.                                                             *)

CarriesClaim(x) == x.pc # "idle" => x.claim # None
CarriesCopies(x) ==
    /\ x.pc # "idle" => x.msg # None
    /\ x.pc \in {"continuing", "settling", "published"}
          => x.out # None /\ x.status # None

\* Every variable holds values of its kind, and a thread that is past its
\* first step carries what its next step reads.
TypeOK ==
    /\ jobs \in [Occ -> Job]
    /\ series \in [state: SeriesStates \cup {None}, latest: Occ]
    /\ wire \subseteq Copy
    /\ pub \in [Publishers -> Publisher]
    /\ con \in [Consumers -> Consumer]
    /\ \A p \in Publishers : CarriesClaim(pub[p])
    /\ \A c \in Consumers : CarriesCopies(con[c])

\* Listeners between a PROCEED and their settlement of it.
Engaged(c) ==
    con[c].pc \in {"admitted", "handling", "failing", "erroring", "missing",
                   "continuing"}

\* Fencing (admit_delivery, claim): two listeners are never engaged on the
\* same occurrence at the same generation, whatever copies the transport
\* duplicates and whatever deadlines pass meanwhile.
OneHandlerPerGeneration ==
    \A c, d \in Consumers :
        (c # d /\ Engaged(c) /\ Engaged(d) /\ con[c].msg.occ = con[d].msg.occ)
            => con[c].msg.generation # con[d].msg.generation

\* No copy of the row's current generation can be admitted.
Fenced(j) == j.state \in {"RUNNING", "CANCELLED"} \/ HandlerOutcomeUnknown(j)

\* While a listener is engaged at the row's current generation, no other
\* thread moves the row back to a state from which it could be run again at
\* that generation: it stays RUNNING, or a poll parked or cancelled it.
EngagedRowIsFenced ==
    \A c \in Consumers :
        Engaged(c) /\ con[c].msg.generation = jobs[con[c].msg.occ].generation
            => Fenced(jobs[con[c].msg.occ])

\* No job is stranded: a row that is neither finished nor parked for an
\* operator can always be taken by some later poll of store.claim.
NoStrandedJob ==
    \A o \in Occ :
        jobs[o].state \notin Terminal \cup {"absent"}
            => Claimable(jobs[o]) \/ HandlerOutcomeUnknown(jobs[o])

\* The retry budget recorded at admission is never exceeded, neither by the
\* listeners' requeues nor by claim's conservative attempt.
RetryBudget ==
    \A o \in Occ : jobs[o].max_retries # None
        => jobs[o].retry_count <= jobs[o].max_retries

\* A row becomes DEAD_LETTERED only after its copy is on the dead-letter queue.
DeadLetterIsPublished ==
    \A o \in Occ : jobs[o].state = "DEAD_LETTERED"
        => \E m \in wire : m.queue = DLQ /\ m.occ = o

\* The series and its occurrences agree: earlier occurrences succeeded, the
\* latest decides how the series ended, and after cancel_recurring the latest
\* one is finished or is the handler that was already running.
SeriesConsistent ==
    Recurring =>
        LET last == jobs[series.latest].state
        IN  /\ \A o \in Occ : o < series.latest => jobs[o].state = "SUCCEEDED"
            /\ \A o \in Occ : o > series.latest <=> jobs[o].state = "absent"
            /\ series.state = "ACTIVE" => last \notin Terminal
            /\ series.state = "COMPLETED" => last = "SUCCEEDED"
            /\ series.state = "FAILED" => last = "DEAD_LETTERED"
            /\ series.state = "CANCELLED"
                  => last \in {"RUNNING", "SUCCEEDED", "CANCELLED"}

\* A finished row never changes its state or generation again, whatever late
\* outcome, publication mark, claim or cancellation reaches the store.
TerminalIsFinal ==
    [][\A o \in Occ : jobs[o].state \in Terminal => jobs'[o] = jobs[o]]_vars

\* "Retries never decrease" (design-docs/durable-typed-commands.md:131).
RetryNeverDecreases ==
    [][\A o \in Occ : jobs'[o].retry_count >= jobs[o].retry_count]_vars

\* A checkpointed dead-letter intent survives until the row is finished: no
\* step clears it or lets the handler run again.
DeadLetterIntentKept ==
    [][\A o \in Occ :
          /\ jobs[o].settlement_status = "DEAD_LETTERED"
          /\ jobs[o].state \notin Terminal
          => jobs'[o].settlement_status = "DEAD_LETTERED"]_vars
=============================================================================
