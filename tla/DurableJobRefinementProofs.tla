--------------------- MODULE DurableJobRefinementProofs ---------------------
(***************************************************************************)
(* DurableJob implements JobLifecycle, for every value of the constants,   *)
(* and a series agrees with its occurrences.                               *)
(*                                                                         *)
(* The two are proved together.  Which abstract step a write of a row is   *)
(* depends on the row being the latest of its lineage, and on what states  *)
(* it may be in once its series has ended: that is Consistent, which says  *)
(* SeriesConsistent of one-off lineages too and is stated on the abstract  *)
(* state, so that the abstract steps preserve it.                          *)
(***************************************************************************)
EXTENDS DurableJobRefinement, DurableJobStoreProofs

\* The value that the refinement mapping gives the abstract status.
Status == [o \in Occ |-> StatusOf(jobs[o])]

Consistent ==
    LET last == Status[series.latest]
    IN  /\ \A o \in Occ : o < series.latest => Status[o] = "succeeded"
        /\ \A o \in Occ : o > series.latest <=> Status[o] = "absent"
        /\ series.state = "ACTIVE" => last \in {"waiting", "running", "parked"}
        /\ series.state = "COMPLETED" => last = "succeeded"
        /\ series.state = "FAILED" => last = "dead"
        /\ series.state = "CANCELLED" => last \in {"running", "succeeded", "cancelled"}

\* An abstract step, or none.
LifecycleStep == Lifecycle!Next \/ (Status' = Status /\ series' = series)
-----------------------------------------------------------------------------
\* Each status stands for the row states it names.
LEMMA StatusFacts ==
    ASSUME NEW j \in Job
    PROVE  /\ StatusOf(j) = "absent" <=> j.state = "absent"
           /\ StatusOf(j) = "running" <=> j.state = "RUNNING"
           /\ StatusOf(j) = "succeeded" <=> j.state = "SUCCEEDED"
           /\ StatusOf(j) = "dead" <=> j.state = "DEAD_LETTERED"
           /\ StatusOf(j) = "cancelled" <=> j.state = "CANCELLED"
           /\ StatusOf(j) = "parked" <=> HandlerOutcomeUnknown(j)
           /\ StatusOf(j) = "waiting"
                 <=> \/ j.state \in {"PENDING", "CLAIMED", "PUBLISHED", "SETTLING"}
                     \/ j.state = "INDETERMINATE" /\ ~HandlerOutcomeUnknown(j)
<1>1. j.state \in JobStates
  BY DEF Job
<1>. QED
  BY <1>1 DEF StatusOf, JobStates, Reconciled, Terminal, HandlerOutcomeUnknown

\* One row is written: the abstract status moves there and nowhere else.
LEMMA MovesRow ==
    ASSUME TypeOK, NEW o \in Occ, NEW k, jobs' = [jobs EXCEPT ![o] = k]
    PROVE  /\ Status' = [Status EXCEPT ![o] = StatusOf(k)]
           /\ StatusOf(k) = StatusOf(jobs[o]) => Status' = Status
           /\ Lifecycle!Moves(o, StatusOf(jobs[o]), StatusOf(k))
<1>1. Status' = [Status EXCEPT ![o] = StatusOf(k)]
  BY DEF TypeOK, Status
<1>2. Status[o] = StatusOf(jobs[o])
  BY DEF Status
<1>3. StatusOf(k) = StatusOf(jobs[o]) => Status' = Status
  BY <1>1, <1>2 DEF Status
<1>. QED
  BY <1>1, <1>2, <1>3 DEF Lifecycle!Moves, Status

\* A row that is neither finished nor absent is the latest of its lineage, and
\* its series is open unless the row is the handler a cancellation found.
LEMMA LatestRow ==
    ASSUME TypeOK, Consistent, NEW o \in Occ,
           StatusOf(jobs[o]) \in {"waiting", "running", "parked"}
    PROVE  /\ o = series.latest
           /\ StatusOf(jobs[o]) # "running" => SeriesOpen
           /\ series.state \in {None, "ACTIVE", "CANCELLED"}
<1>1. series.latest \in Occ /\ series.state \in SeriesStates \cup {None}
  BY DEF TypeOK
<1>2. \A x, y \in Occ : x = y \/ x < y \/ x > y
  BY DEF Occ
<1>3. Status[o] = StatusOf(jobs[o])
  BY DEF Status
<1>4. o = series.latest
  BY <1>1, <1>2, <1>3 DEF Consistent
<1>. QED
  BY <1>1, <1>3, <1>4 DEF Consistent, SeriesStates, SeriesOpen

\* The abstract steps keep series and occurrences in agreement.
LEMMA ConsistentStep ==
    ASSUME TypeOK, Consistent, LifecycleStep
    PROVE  Consistent'
<1>0. /\ series.latest \in Occ /\ series.state \in SeriesStates \cup {None}
      /\ series \in [state: SeriesStates \cup {None}, latest: Occ]
      /\ Occ \subseteq Nat /\ Lifecycle!Occ = Occ
      /\ None \notin SeriesStates
  BY NoneAssumption DEF TypeOK, Occ, Lifecycle!Occ
<1>1. \A o \in Occ : Status[o] \in {"waiting", "running", "parked"}
                        => o = series.latest
  <2>1. \A x, y \in Occ : x = y \/ x < y \/ x > y
    BY DEF Occ
  <2>. QED
    BY <1>0, <2>1 DEF Consistent
<1>2. DOMAIN Status = Occ /\ Status = [o \in Occ |-> Status[o]]
  BY DEF Status
<1>3. CASE Status' = Status /\ series' = series
  BY <1>3 DEF Consistent
<1>4. ASSUME NEW o \in Occ, Lifecycle!Run(o) \/ Lifecycle!Return(o) \/ Lifecycle!Park(o)
      PROVE  Consistent'
  <2>1. PICK to \in {"waiting", "running", "parked"} :
           /\ Status' = [Status EXCEPT ![o] = to] /\ series' = series
           /\ Status[o] \in {"waiting", "running"}
           /\ series.state \in {None, "ACTIVE"}
    BY <1>4 DEF Lifecycle!Run, Lifecycle!Return, Lifecycle!Park, Lifecycle!Moves,
       Lifecycle!Open, Status
  <2>2. o = series.latest
    BY <1>1, <2>1
  <2>3. /\ Status'[o] = to
        /\ \A x \in Occ : x # o => Status'[x] = Status[x]
    BY <1>2, <2>1
  <2>4. to # "absent" /\ ~(o > o) /\ ~(o < o)
    BY <1>0, <2>1
  <2>. QED
    BY <1>0, <2>1, <2>2, <2>3, <2>4 DEF Consistent, SeriesStates
<1>5. ASSUME NEW o \in Occ, Lifecycle!Succeed(o) PROVE Consistent'
  <2>0. Status[o] = "running" /\ o = series.latest
    BY <1>1, <1>5 DEF Lifecycle!Succeed, Status
  <2>1. CASE /\ Status' = [Status EXCEPT ![o] = "succeeded"]
             /\ series' = IF series.state = "ACTIVE"
                          THEN [series EXCEPT !.state = "COMPLETED"] ELSE series
    BY <1>0, <1>2, <2>0, <2>1 DEF Consistent, SeriesStates
  <2>2. CASE /\ series.state = "ACTIVE" /\ o + 1 \in Occ
             /\ Status' = [Status EXCEPT ![o] = "succeeded", ![o + 1] = "waiting"]
             /\ series' = [series EXCEPT !.latest = o + 1]
    <3>1. series'.state = "ACTIVE" /\ series'.latest = o + 1
      BY <1>0, <2>2
    <3>2. /\ Status'[o + 1] = "waiting" /\ Status'[o] = "succeeded"
          /\ \A x \in Occ : x # o /\ x # o + 1 => Status'[x] = Status[x]
      BY <1>0, <1>2, <2>2
    <3>3. \A x \in Occ : /\ x < o + 1 => x < o \/ x = o
                         /\ x > o + 1 => x > o
                         /\ x > o => x > o + 1 \/ x = o + 1
      BY DEF Occ
    <3>. QED
      BY <1>0, <2>0, <2>2, <3>1, <3>2, <3>3 DEF Consistent
  <2>. QED
    BY <1>0, <1>5, <2>1, <2>2 DEF Lifecycle!Succeed, Status
<1>6. ASSUME NEW o \in Occ, Lifecycle!DeadLetter(o) PROVE Consistent'
  <2>1. /\ Status[o] = "waiting" /\ o = series.latest
        /\ Status' = [Status EXCEPT ![o] = "dead"]
        /\ series' = IF series.state = "ACTIVE"
                     THEN [series EXCEPT !.state = "FAILED"] ELSE series
    BY <1>1, <1>6 DEF Lifecycle!DeadLetter, Lifecycle!Moves, Status
  <2>. QED
    BY <1>0, <1>2, <2>1 DEF Consistent, SeriesStates
<1>7. ASSUME NEW o \in Occ, Lifecycle!CancelAttempt(o) PROVE Consistent'
  <2>1. /\ Status[o] = "running" /\ o = series.latest
        /\ Status' = [Status EXCEPT ![o] = "cancelled"]
        /\ series.state = "CANCELLED" /\ series' = series
    BY <1>1, <1>7 DEF Lifecycle!CancelAttempt, Lifecycle!Moves, Status
  <2>. QED
    BY <1>0, <1>2, <2>1 DEF Consistent
<1>8. CASE Lifecycle!CancelSeries
  <2>1. /\ series.state = "ACTIVE"
        /\ series' = [series EXCEPT !.state = "CANCELLED"]
        /\ Status' = [Status EXCEPT ![series.latest] =
              IF Status[series.latest] \in {"waiting", "parked"}
              THEN "cancelled" ELSE Status[series.latest]]
    BY <1>8 DEF Lifecycle!CancelSeries, Status
  <2>. QED
    BY <1>0, <1>2, <2>1 DEF Consistent
<1>. QED
  BY <1>0, <1>3, <1>4, <1>5, <1>6, <1>7, <1>8 DEF LifecycleStep, Lifecycle!Next
-----------------------------------------------------------------------------
(* Which abstract step a write of a row is.                                *)

LEMMA SameLifecycle ==
    ASSUME jobs' = jobs, series' = series
    PROVE  LifecycleStep
BY DEF LifecycleStep, Status

\* The writes that leave the series alone.
LEMMA RowLifecycle ==
    ASSUME TypeOK, Consistent, NEW o \in Occ, NEW k,
           jobs' = [jobs EXCEPT ![o] = k], series' = series,
           LET from == StatusOf(jobs[o])
               to == StatusOf(k)
           IN  \/ to = from
               \/ from = "waiting" /\ to = "running"
               \/ from = "running" /\ to \in {"waiting", "parked"} /\ SeriesOpen
               \/ from = "running" /\ to = "cancelled" /\ series.state = "CANCELLED"
    PROVE  LifecycleStep
<1>1. /\ StatusOf(k) = StatusOf(jobs[o]) => Status' = Status
      /\ Lifecycle!Moves(o, StatusOf(jobs[o]), StatusOf(k))
      /\ o \in Lifecycle!Occ
  BY MovesRow DEF Occ, Lifecycle!Occ
<1>2. StatusOf(jobs[o]) \in {"waiting", "running"} => o = series.latest
  BY LatestRow
<1>3. StatusOf(jobs[o]) = "waiting" => SeriesOpen
  BY LatestRow
<1>4. CASE StatusOf(k) = StatusOf(jobs[o])
  BY <1>1, <1>4 DEF LifecycleStep
<1>5. CASE StatusOf(jobs[o]) = "waiting" /\ StatusOf(k) = "running"
  <2>1. Lifecycle!Run(o)
    BY <1>1, <1>2, <1>3, <1>5 DEF Lifecycle!Run, Lifecycle!Open, SeriesOpen
  <2>. QED
    BY <1>1, <2>1 DEF LifecycleStep, Lifecycle!Next
<1>6. CASE /\ StatusOf(jobs[o]) = "running" /\ SeriesOpen
           /\ StatusOf(k) \in {"waiting", "parked"}
  <2>1. Lifecycle!Return(o) \/ Lifecycle!Park(o)
    BY <1>1, <1>6 DEF Lifecycle!Return, Lifecycle!Park, Lifecycle!Open, SeriesOpen
  <2>. QED
    BY <1>1, <2>1 DEF LifecycleStep, Lifecycle!Next
<1>7. CASE /\ StatusOf(jobs[o]) = "running" /\ series.state = "CANCELLED"
           /\ StatusOf(k) = "cancelled"
  <2>1. Lifecycle!CancelAttempt(o)
    BY <1>1, <1>7 DEF Lifecycle!CancelAttempt
  <2>. QED
    BY <1>1, <2>1 DEF LifecycleStep, Lifecycle!Next
<1>. QED
  BY <1>4, <1>5, <1>6, <1>7

\* The write that finishes a dead letter fails an active series.
LEMMA DeadLifecycle ==
    ASSUME TypeOK, NEW o \in Occ, NEW k,
           jobs' = [jobs EXCEPT ![o] = k], series' = FailActiveSeries,
           StatusOf(jobs[o]) = "waiting", StatusOf(k) = "dead"
    PROVE  LifecycleStep
<1>1. Lifecycle!Moves(o, "waiting", "dead") /\ o \in Lifecycle!Occ
  BY MovesRow DEF Occ, Lifecycle!Occ
<1>2. Lifecycle!DeadLetter(o)
  BY <1>1 DEF Lifecycle!DeadLetter, FailActiveSeries
<1>. QED
  BY <1>1, <1>2 DEF LifecycleStep, Lifecycle!Next

\* _guarded_series_update of a running row is a return, a cancelled attempt
\* or nothing; of a waiting row, which no ended series has, it is nothing.
LEMMA GuardedLifecycle ==
    ASSUME TypeOK, Consistent, NEW o \in Occ, NEW matches \in BOOLEAN, NEW new,
           jobs' = [jobs EXCEPT ![o] = GuardedUpdate(jobs[o], matches, new)],
           series' = series,
           matches => StatusOf(jobs[o]) \in {"running", "waiting"}
                      /\ StatusOf(new) = "waiting"
    PROVE  LifecycleStep
<1> DEFINE k == GuardedUpdate(jobs[o], matches, new)
<1>1. jobs[o] \in Job /\ series.state \in SeriesStates \cup {None}
  BY DEF TypeOK
<1>2. StatusOf(Cancelled(jobs[o])) = "cancelled"
  BY <1>1 DEF StatusOf, Cancelled, HandlerOutcomeUnknown, Job
<1>3. CASE ~Updatable(matches)
  BY <1>3, RowLifecycle DEF GuardedUpdate
<1>4. CASE Updatable(matches) /\ series.state = "CANCELLED"
  <2>1. k = Cancelled(jobs[o])
    BY <1>4 DEF GuardedUpdate
  <2>2. StatusOf(jobs[o]) = "running"
    <3>1. ~SeriesOpen
      BY <1>4, NoneAssumption DEF SeriesOpen, SeriesStates
    <3>. QED
      BY <1>4, <3>1, LatestRow DEF Updatable
  <2>. QED
    BY <1>2, <1>4, <2>1, <2>2, RowLifecycle
<1>5. CASE Updatable(matches) /\ series.state # "CANCELLED"
  <2>1. k = new
    BY <1>5 DEF GuardedUpdate
  <2>2. SeriesOpen
    BY <1>5 DEF Updatable, SeriesOpen
  <2>. QED
    BY <1>5, <2>1, <2>2, RowLifecycle DEF Updatable
<1>. QED
  BY <1>3, <1>4, <1>5
-----------------------------------------------------------------------------
(* Steps.                                                                  *)

\* Every step of a runner.
LEMMA RunnerLifecycle ==
    ASSUME TypeOK, StoreInv, Consistent, NEW p \in Publishers,
           RunnerStep(p) \/ RunnerFault(p)
    PROVE  LifecycleStep
<1>0. \A o \in Occ : jobs[o] \in Job /\ RowInv(jobs[o])
  BY DEF TypeOK, StoreInv
<1>1. ASSUME NEW o \in Occ, ClaimJob(p, o) PROVE LifecycleStep
  <2>1. StatusOf(ClaimedJob(jobs[o])) = "waiting"
    <3>1. ClaimedJob(jobs[o]).state = "CLAIMED"
      BY <1>0 DEF ClaimedJob, Job
    <3>. QED
      BY <3>1 DEF StatusOf, HandlerOutcomeUnknown
  <2>2. StatusOf(jobs[o]) \in {"waiting", "running"}
    BY <1>0, <1>1, StatusFacts
       DEF ClaimJob, Claimable, Reclaimable, Reconciled, RowInv, HandlerOutcomeUnknown
  <2>3. /\ jobs' = [jobs EXCEPT ![o] = ClaimedJob(jobs[o])]
        /\ series' = series /\ SeriesOpen
    BY <1>1 DEF ClaimJob
  <2>. QED
    BY <2>1, <2>2, <2>3, RowLifecycle
<1>2. ASSUME NEW o \in Occ, ParkExhausted(p, o) PROVE LifecycleStep
  <2> DEFINE k == [jobs[o] EXCEPT !.state = "INDETERMINATE", !.due = FALSE,
                                  !.indeterminate_reason = "handler_outcome"]
  <2>1. StatusOf(k) = "parked"
    BY <1>0 DEF StatusOf, HandlerOutcomeUnknown, Job
  <2>2. StatusOf(jobs[o]) = "running"
    BY <1>0, <1>2, StatusFacts DEF ParkExhausted, Exhausted
  <2>3. jobs' = [jobs EXCEPT ![o] = k] /\ series' = series /\ SeriesOpen
    BY <1>2 DEF ParkExhausted, TypeOK
  <2>. HIDE DEF k
  <2>. QED
    BY <2>1, <2>2, <2>3, RowLifecycle
<1>3. ASSUME NEW o \in Occ, CancelReclaimable(p, o) PROVE LifecycleStep
  <2>1. StatusOf(Cancelled(jobs[o])) = "cancelled"
    BY <1>0 DEF StatusOf, Cancelled, HandlerOutcomeUnknown, Job
  <2>2. StatusOf(jobs[o]) = "running"
    <3>1. StatusOf(jobs[o]) \in {"waiting", "running", "parked"}
      BY <1>0, <1>3, StatusFacts DEF CancelReclaimable, Reclaimable, Reconciled
    <3>2. ~SeriesOpen
      BY <1>3, NoneAssumption DEF CancelReclaimable, SeriesOpen, SeriesStates
    <3>. QED
      BY <3>1, <3>2, LatestRow
  <2>. QED
    BY <1>3, <2>1, <2>2, RowLifecycle DEF CancelReclaimable
<1>4. ASSUME MarkPublished(p) PROVE LifecycleStep
  <2> DEFINE claim == pub[p].claim
             o == claim.copy.occ
             k == [DeadLetteredJob(jobs[o]) EXCEPT !.indeterminate_reason = None]
  <2>1. claim.copy.occ \in Occ
    BY <1>4, Carried DEF MarkPublished, Claim, Copy
  <2>2. ClaimOwns(claim, jobs[o]) => StatusOf(jobs[o]) = "waiting"
    BY <1>0, <2>1, StatusFacts DEF ClaimOwns
  <2>3. CASE ClaimOwns(claim, jobs[o]) /\ claim.settlement_status = "DEAD_LETTERED"
    <3>1. jobs' = [jobs EXCEPT ![o] = k] /\ series' = FailActiveSeries
      BY <1>4, <2>3 DEF MarkPublished
    <3>2. StatusOf(k) = "dead"
      BY <1>0, <2>1 DEF StatusOf, DeadLetteredJob, HandlerOutcomeUnknown, Job
    <3>. HIDE DEF k
    <3>. QED
      BY <2>1, <2>2, <2>3, <3>1, <3>2, DeadLifecycle
  <2>4. CASE ClaimOwns(claim, jobs[o]) /\ claim.settlement_status # "DEAD_LETTERED"
    <3>1. jobs' = [jobs EXCEPT ![o] = PublishedJob(claim, jobs[o])] /\ series' = series
      BY <1>4, <2>4 DEF MarkPublished
    <3>2. StatusOf(PublishedJob(claim, jobs[o])) = "waiting"
      BY <1>0, <2>1 DEF StatusOf, PublishedJob, HandlerOutcomeUnknown, Job
    <3>. QED
      BY <2>1, <2>2, <2>4, <3>1, <3>2, RowLifecycle
  <2>5. CASE ~ClaimOwns(claim, jobs[o])
    <3>1. jobs' = jobs /\ series' = series
      BY <1>4, <2>5 DEF MarkPublished, TypeOK
    <3>. QED
      BY <3>1, SameLifecycle
  <2>. QED
    BY <2>3, <2>4, <2>5
<1>5. ASSUME MarkPublishIndeterminate(p) PROVE LifecycleStep
  <2> DEFINE claim == pub[p].claim
             o == claim.copy.occ
             k == IF ClaimOwns(claim, jobs[o]) THEN IndeterminateJob(claim, jobs[o])
                                               ELSE jobs[o]
  <2>1. claim.copy.occ \in Occ
    BY <1>5, Carried DEF MarkPublishIndeterminate, Claim, Copy
  <2>2. ClaimOwns(claim, jobs[o]) => StatusOf(jobs[o]) = "waiting"
    BY <1>0, <2>1, StatusFacts DEF ClaimOwns
  <2>3. StatusOf(IndeterminateJob(claim, jobs[o])) = "waiting"
    BY <1>0, <2>1 DEF StatusOf, IndeterminateJob, HandlerOutcomeUnknown, Job
  <2>4. StatusOf(k) = StatusOf(jobs[o])
    BY <2>2, <2>3
  <2>5. jobs' = [jobs EXCEPT ![o] = k] /\ series' = series
    BY <1>5 DEF MarkPublishIndeterminate
  <2>. QED
    BY <2>1, <2>4, <2>5, RowLifecycle
<1>6. ASSUME Publish(p) \/ RunnerFault(p) PROVE LifecycleStep
  BY <1>6, SameLifecycle DEF Publish, RunnerFault, PublishRaises, RunnerCrash
<1>. QED
  BY <1>1, <1>2, <1>3, <1>4, <1>5, <1>6 DEF RunnerStep

\* A PROCEED of admit_delivery starts an attempt; it cancels no row, because
\* what a cancelled series leaves unfinished is running.
LEMMA AdmitLifecycle ==
    ASSUME TypeOK, Consistent, NEW c \in Consumers, NEW registered, Admit(c, registered)
    PROVE  LifecycleStep
<1> DEFINE m == con[c].msg
           j == jobs[m.occ]
           limit == CommandMax(registered)
           decision == Decision(j, m, limit)
           k == JobAfter(decision, j, m, limit)
<1>0. m.occ \in Occ /\ j \in Job
  BY Carried DEF Admit, Copy, TypeOK
<1>1. jobs' = [jobs EXCEPT ![m.occ] = k] /\ series' = series
  BY DEF Admit
<1>2. CASE decision = "PROCEED"
  <2>1. StatusOf(j) = "waiting"
    <3>1. /\ j.state \notin {"absent", "PENDING", "RUNNING"} \cup Terminal
          /\ ~HandlerOutcomeUnknown(j)
      BY <1>2 DEF Decision, Superseded
    <3>2. j.state \in JobStates
      BY <1>0 DEF Job
    <3>. QED
      BY <1>0, <3>1, <3>2, StatusFacts DEF JobStates, Reconciled, Terminal
  <2>2. k = AdmittedJob(j, limit)
    BY <1>2 DEF JobAfter
  <2>3. StatusOf(AdmittedJob(j, limit)) = "running"
    BY <1>0 DEF StatusOf, AdmittedJob, HandlerOutcomeUnknown, Job
  <2>. QED
    BY <1>0, <1>1, <2>1, <2>2, <2>3, RowLifecycle
<1>3. CASE decision # "PROCEED"
  <2>1. ~(decision = "DROP" /\ series.state = "CANCELLED" /\ ~Superseded(j, m))
    <3> SUFFICES ASSUME decision = "DROP", series.state = "CANCELLED",
                        ~Superseded(j, m)
                 PROVE  FALSE
      OBVIOUS
    <3>1. j.state \notin Terminal \cup {"RUNNING", "absent"}
      BY DEF Superseded, Decision
    <3>2. StatusOf(j) \in {"waiting", "parked"}
      <4>1. j.state \in JobStates
        BY <1>0 DEF Job
      <4>. QED
        BY <1>0, <3>1, <4>1, StatusFacts
           DEF JobStates, Reconciled, Terminal, HandlerOutcomeUnknown
    <3>3. ~SeriesOpen
      BY NoneAssumption DEF SeriesOpen, SeriesStates
    <3>. QED
      BY <1>0, <3>2, <3>3, LatestRow
  <2>2. k = j
    BY <1>3, <2>1 DEF JobAfter
  <2>. HIDE DEF k
  <2>. QED
    BY <1>0, <1>1, <2>2, RowLifecycle
<1>. QED
  BY <1>2, <1>3

\* complete_success ends the attempt, inserts the next occurrence or ends the
\* series, all in one step.
LEMMA SuccessLifecycle ==
    ASSUME TypeOK, Consistent, NEW c \in Consumers, NEW result, NEW over,
           CompleteSuccess(c, result, over)
    PROVE  LifecycleStep
<1> DEFINE o == con[c].msg.occ
           owns == DeliveryOwns(con[c].msg, jobs[o])
<1>0. /\ con[c].msg.occ \in Occ /\ jobs[o] \in Job
      /\ series \in [state: SeriesStates \cup {None}, latest: Occ]
  BY Carried DEF CompleteSuccess, Copy, TypeOK
<1>1. CASE ~owns
  <2>1. jobs' = jobs /\ series' = series
    BY <1>1 DEF CompleteSuccess, TypeOK
  <2>. QED
    BY <2>1, SameLifecycle
<1>2. CASE owns
  <2>1. StatusOf(jobs[o]) = "running" /\ Status[o] = "running"
    BY <1>0, <1>2, StatusFacts DEF DeliveryOwns, Status
  <2>2. o = series.latest /\ o \in Lifecycle!Occ
    BY <1>0, <2>1, LatestRow DEF Occ, Lifecycle!Occ
  <2>3. /\ StatusOf(SucceededJob(jobs[o])) = "succeeded"
        /\ StatusOf(PendingJob) = "waiting"
    BY <1>0 DEF StatusOf, SucceededJob, PendingJob, AbsentJob,
       HandlerOutcomeUnknown, Job
  <2>4. jobs' = [x \in Occ |->
               CASE x = o -> SucceededJob(jobs[x])
                 [] x # o /\ Advances(result, over) /\ x = o + 1 -> PendingJob
                 [] OTHER -> jobs[x]]
    BY <1>2, <2>2 DEF CompleteSuccess
  <2>5. series' = NextSeries(result, over)
    BY <1>2 DEF CompleteSuccess
  <2>6. CASE Advances(result, over)
    <3>1. /\ o + 1 \in Occ /\ o + 1 # o /\ o + 1 \in Lifecycle!Occ
          /\ series.state = "ACTIVE"
      BY <1>0, <2>2, <2>6, ConstantsAssumption DEF Advances, Occ, Lifecycle!Occ
    <3>2. Status' = [Status EXCEPT ![o] = "succeeded", ![o + 1] = "waiting"]
      BY <1>0, <2>3, <2>4, <2>6, <3>1 DEF Status
    <3>3. series' = [series EXCEPT !.latest = o + 1]
      BY <2>2, <2>5, <2>6, <3>1 DEF NextSeries
    <3>4. Lifecycle!Succeed(o)
      BY <2>1, <3>1, <3>2, <3>3 DEF Lifecycle!Succeed, Status
    <3>. QED
      BY <2>2, <3>4 DEF LifecycleStep, Lifecycle!Next
  <2>7. CASE ~Advances(result, over)
    <3>1. Status' = [Status EXCEPT ![o] = "succeeded"]
      BY <1>0, <2>3, <2>4, <2>7 DEF Status
    <3>2. series' = IF series.state = "ACTIVE" THEN [series EXCEPT !.state = "COMPLETED"]
                                               ELSE series
      BY <2>5, <2>7 DEF NextSeries
    <3>3. Lifecycle!Succeed(o)
      BY <2>1, <3>1, <3>2 DEF Lifecycle!Succeed, Status
    <3>. QED
      BY <2>2, <3>3 DEF LifecycleStep, Lifecycle!Next
  <2>. QED
    BY <2>6, <2>7
<1>. QED
  BY <1>1, <1>2

\* Checkpoints and released deliveries return the attempt; an outcome leaves
\* the row waiting or dead.
LEMMA SettleLifecycle ==
    ASSUME TypeOK, Consistent, NEW c \in Consumers,
           \/ ObserverRaises(c) \/ ApplyOutcome(c)
           \/ CheckpointRetry(c) \/ CheckpointDeadLetter(c) \/ CheckpointContinue(c)
    PROVE  LifecycleStep
<1> DEFINE m == con[c].msg
<1>0. con[c].pc # "idle" /\ m.occ \in Occ /\ jobs[m.occ] \in Job
  BY Carried DEF ObserverRaises, ApplyOutcome, CheckpointRetry, Retries,
     CheckpointDeadLetter, CheckpointContinue, Copy, TypeOK
<1>1. CASE ObserverRaises(c)
  <2> DEFINE new == [jobs[m.occ] EXCEPT !.state = "PUBLISHED", !.due = TRUE]
             matches == DeliveryOwns(m, jobs[m.occ])
  <2>1. StatusOf(new) = "waiting"
    BY <1>0 DEF StatusOf, HandlerOutcomeUnknown, Job
  <2>2. matches \in BOOLEAN /\ (matches => StatusOf(jobs[m.occ]) = "running")
    BY <1>0, StatusFacts DEF DeliveryOwns
  <2>3. /\ jobs' = [jobs EXCEPT ![m.occ] = GuardedUpdate(jobs[m.occ], matches, new)]
        /\ series' = series
    BY <1>1 DEF ObserverRaises
  <2>. HIDE DEF new, matches
  <2>. QED
    BY <1>0, <2>1, <2>2, <2>3, GuardedLifecycle
<1>2. ASSUME NEW out, NEW status, NEW max, Checkpoint(c, out, status, max)
      PROVE  LifecycleStep
  <2> DEFINE new == SettlingJob(jobs[m.occ], out, status)
             matches == CheckpointMatches(m, jobs[m.occ], out, max)
  <2>1. StatusOf(new) = "waiting"
    BY <1>0 DEF StatusOf, SettlingJob, HandlerOutcomeUnknown, Job
  <2>2. matches \in BOOLEAN /\ (matches => StatusOf(jobs[m.occ]) = "running")
    BY <1>0, StatusFacts DEF CheckpointMatches, DeliveryOwns
  <2>3. /\ jobs' = [jobs EXCEPT ![m.occ] = GuardedUpdate(jobs[m.occ], matches, new)]
        /\ series' = series
    BY <1>2 DEF Checkpoint
  <2>. HIDE DEF new, matches
  <2>. QED
    BY <1>0, <2>1, <2>2, <2>3, GuardedLifecycle
<1>3. CASE ApplyOutcome(c)
  <2> DEFINE out == con[c].out
             o == out.occ
             matches == OutcomeOwns(out, jobs[o])
             dead == con[c].status = "DEAD_LETTERED"
             k == [DeadLetteredJob(jobs[o]) EXCEPT !.queue = out.queue]
  <2>1. out.occ \in Occ /\ jobs[o] \in Job
    BY <1>3, Carried DEF ApplyOutcome, Copy, TypeOK
  <2>2. matches \in BOOLEAN /\ (matches => StatusOf(jobs[o]) = "waiting")
    BY <2>1, StatusFacts DEF OutcomeOwns
  <2>3. CASE dead /\ matches
    <3>1. jobs' = [jobs EXCEPT ![o] = k] /\ series' = FailActiveSeries
      BY <1>3, <2>3 DEF ApplyOutcome
    <3>2. StatusOf(k) = "dead"
      BY <2>1 DEF StatusOf, DeadLetteredJob, HandlerOutcomeUnknown, Job
    <3>. HIDE DEF k
    <3>. QED
      BY <2>1, <2>2, <2>3, <3>1, <3>2, DeadLifecycle
  <2>4. CASE dead /\ ~matches
    <3>1. jobs' = jobs /\ series' = series
      BY <1>3, <2>4 DEF ApplyOutcome, TypeOK
    <3>. QED
      BY <3>1, SameLifecycle
  <2>5. CASE ~dead
    <3>1. /\ jobs' = [jobs EXCEPT ![o] =
                         GuardedUpdate(jobs[o], matches, OutcomeJob(jobs[o], out))]
          /\ series' = series
      BY <1>3, <2>5 DEF ApplyOutcome
    <3>2. StatusOf(OutcomeJob(jobs[o], out)) = "waiting"
      BY <2>1 DEF StatusOf, OutcomeJob, HandlerOutcomeUnknown, Job
    <3>. HIDE DEF matches
    <3>. QED
      BY <2>1, <2>2, <3>1, <3>2, GuardedLifecycle
  <2>. QED
    BY <2>3, <2>4, <2>5
<1>. QED
  BY <1>1, <1>2, <1>3 DEF CheckpointRetry, CheckpointDeadLetter, CheckpointContinue

\* cancel_recurring ends the series and what is not running of it.
LEMMA CancelLifecycle ==
    ASSUME TypeOK, CancelRecurring
    PROVE  LifecycleStep
<1> DEFINE o == series.latest
           k == IF CancelsRow(jobs[o]) THEN Cancelled(jobs[o]) ELSE jobs[o]
<1>1. series.latest \in Occ /\ jobs[o] \in Job
  BY DEF TypeOK
<1>2. jobs' = [jobs EXCEPT ![o] = k]
  BY DEF CancelRecurring
<1>3. StatusOf(k) = IF Status[o] \in {"waiting", "parked"} THEN "cancelled" ELSE Status[o]
  <2>1. StatusOf(Cancelled(jobs[o])) = "cancelled" /\ Status[o] = StatusOf(jobs[o])
    BY <1>1 DEF StatusOf, Cancelled, HandlerOutcomeUnknown, Job, Status
  <2>2. CancelsRow(jobs[o]) <=> Status[o] \in {"waiting", "parked"}
    BY <1>1, <2>1, StatusFacts DEF CancelsRow, HandlerOutcomeUnknown
  <2>. QED
    BY <2>1, <2>2
<1>. HIDE DEF k
<1>4. Status' = [Status EXCEPT ![o] = StatusOf(k)]
  BY <1>1, <1>2, MovesRow
<1>5. Lifecycle!CancelSeries
  BY <1>3, <1>4 DEF CancelRecurring, Lifecycle!CancelSeries, Status
<1>. QED
  BY <1>5 DEF LifecycleStep, Lifecycle!Next

\* Every step of DurableJob is a step of JobLifecycle, or none.
LEMMA EveryStep ==
    ASSUME TypeOK, StoreInv, Consistent, [Next]_vars
    PROVE  LifecycleStep
<1>1. CASE UNCHANGED vars
  BY <1>1, SameLifecycle DEF vars
<1>2. ASSUME NEW c \in Consumers, ListenerStep(c) \/ ListenerFault(c)
      PROVE  LifecycleStep
  <2>1. CASE \/ \E m \in wire : Receive(c, m) \/ ReceiveDuplicate(c, m)
             \/ AdmitRaises(c) \/ StartHandler(c)
             \/ DecodeRaises(c) \/ HandlerRaises(c) \/ ContinueRefused(c)
             \/ \E q \in Queues : ContinueProcessing(c, q)
             \/ \E result \in Results : ResultRefused(c, result)
             \/ CheckpointRaises(c) \/ PublishSettlement(c) \/ Restore(c)
             \/ Ack(c) \/ Crash(c) \/ PublishedThenCrash(c) \/ ReclaimFromSlow(c)
    BY <2>1, SameLifecycle DEF Receive, ReceiveDuplicate, AdmitRaises,
       StartHandler, DecodeRaises, HandlerRaises, ContinueRefused,
       ContinueProcessing, ResultRefused, CheckpointRaises, PublishSettlement,
       Restore, Ack, Crash, PublishedThenCrash, ReclaimFromSlow
  <2>. QED
    BY <1>2, <2>1, AdmitLifecycle, SuccessLifecycle, SettleLifecycle
    DEF ListenerStep, ListenerFault, HandlerStep
<1>. QED
  BY <1>1, <1>2, RunnerLifecycle, CancelLifecycle DEF Next

LEMMA LifecycleInit == Init => Lifecycle!Init /\ Consistent
<1> SUFFICES ASSUME Init PROVE Lifecycle!Init /\ Consistent
  OBVIOUS
<1>1. StatusOf(PendingJob) = "waiting" /\ StatusOf(AbsentJob) = "absent"
  BY DEF StatusOf, PendingJob, AbsentJob, HandlerOutcomeUnknown
<1>2. Status = [o \in Occ |-> IF o = 1 THEN "waiting" ELSE "absent"]
  BY <1>1 DEF Init, Status
<1>3. series \in [state: {None, "ACTIVE"}, latest: {1}]
  BY ConstantsAssumption DEF Init
<1>4. Lifecycle!Init
  BY <1>2, <1>3 DEF Lifecycle!Init, Lifecycle!Occ, Occ, Status
<1>5. Consistent
  <2>1. 1 \in Occ /\ \A o \in Occ : ~(o < 1) /\ (o > 1 <=> o # 1)
    BY ConstantFacts DEF Occ
  <2>2. None \notin SeriesStates
    BY NoneAssumption
  <2>. QED
    BY <1>2, <1>3, <2>1, <2>2 DEF Consistent, SeriesStates
<1>. QED
  BY <1>4, <1>5

LEMMA ConsistentAlways == Spec => []Consistent
<1>1. TypeOK /\ StoreInv /\ Consistent /\ [Next]_vars => Consistent'
  BY EveryStep, ConsistentStep
<1>. QED
  BY <1>1, LifecycleInit, StoreInductive, TypeCorrect, PTL DEF Spec

\* The rows implement JobLifecycle for any number of listeners, runners,
\* occurrences and generations: crashes, repeated copies, expired deadlines
\* and late outcomes only ever show as its steps.
THEOREM Refinement == Spec => ImplementsLifecycle
<1>1. TypeOK /\ StoreInv /\ Consistent /\ [Next]_vars
         => [Lifecycle!Next]_(Lifecycle!vars)
  BY EveryStep DEF LifecycleStep, Lifecycle!vars, Status
<1>. QED
  BY <1>1, LifecycleInit, ConsistentAlways, StoreInductive, TypeCorrect, PTL
  DEF Spec, ImplementsLifecycle, Lifecycle!Spec

\* A series and its occurrences agree in every state, whatever the order in
\* which successes, dead letters and cancel_recurring reach the store.
THEOREM SeriesAgrees == Spec => []SeriesConsistent
<1>1. TypeOK /\ Consistent => SeriesConsistent
  <2> SUFFICES ASSUME TypeOK, Consistent PROVE SeriesConsistent
    OBVIOUS
  <2>1. \A o \in Occ : Status[o] = StatusOf(jobs[o]) /\ jobs[o] \in Job
    BY DEF TypeOK, Status
  <2>2. series.latest \in Occ
    BY DEF TypeOK
  <2>. QED
    BY <2>1, <2>2, StatusFacts DEF Consistent, SeriesConsistent, Terminal
<1>. QED
  BY <1>1, ConsistentAlways, TypeCorrect, PTL
=============================================================================
