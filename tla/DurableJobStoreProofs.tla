----------------------- MODULE DurableJobStoreProofs ------------------------
(***************************************************************************)
(* Proofs about the rows of DurableJob, for every value of its constants:  *)
(* no row is stranded, retry budgets hold, and a dead letter is published  *)
(* before its row says so; with one listener, retries never decrease and a *)
(* dead-letter intent is kept.                                             *)
(***************************************************************************)
EXTENDS DurableJobProofs

(***************************************************************************)
(* None of the three is inductive.  What a row promises by itself is       *)
(* RowInv: which states have a deadline, and what a row without a recorded *)
(* budget looks like.  Beyond that, a listener writes the retry count of   *)
(* its copy into the row, so copies in hand must be within the row's       *)
(* budget, which never changes once it is recorded (ListenerInv); and the  *)
(* intent to dead-letter travels from a row to a claim or an outcome       *)
(* together with the queue of its copy (RunnerInv, ListenerInv).           *)
(***************************************************************************)
RowInv(j) ==
    /\ j.state \in {"PUBLISHED", "RUNNING", "SETTLING"} => j.due
    /\ j.state = "INDETERMINATE"
          => (j.due <=> j.indeterminate_reason = "publication_acknowledgement")
    /\ j.state = "RUNNING" => j.max_retries # None
    /\ j.state = "absent" => j.max_retries = None
    /\ j.max_retries = None => j.retry_count = 0
    /\ j.max_retries # None => j.retry_count <= j.max_retries
    /\ j.settlement_status = "DEAD_LETTERED" => j.queue = DLQ

WithinBudget(n, j) == j.max_retries # None /\ n <= j.max_retries

ListenerInv(c) ==
    /\ Engaged(c) => WithinBudget(con[c].msg.retry_count, jobs[con[c].msg.occ])
    /\ con[c].pc \in {"continuing", "settling", "published"}
          => WithinBudget(con[c].out.retry_count, jobs[con[c].out.occ])
    /\ con[c].pc = "continuing" => con[c].out.occ = con[c].msg.occ
    /\ con[c].pc \in {"settling", "published"} /\ con[c].status = "DEAD_LETTERED"
          => con[c].out.queue = DLQ
    /\ con[c].pc = "published" /\ con[c].status = "DEAD_LETTERED"
          => con[c].out \in wire

RunnerInv(p) ==
    pub[p].pc # "idle" /\ pub[p].claim.settlement_status = "DEAD_LETTERED"
        => /\ pub[p].claim.copy.queue = DLQ
           /\ pub[p].pc = "sent" => pub[p].claim.copy \in wire

StoreInv ==
    /\ \A o \in Occ : RowInv(jobs[o])
    /\ \A c \in Consumers : ListenerInv(c)
    /\ \A p \in Publishers : RunnerInv(p)
    /\ DeadLetterIsPublished
-----------------------------------------------------------------------------
(* Rows.                                                                   *)

\* A write of a row that keeps a recorded budget and finishes no dead letter.
RowStep(j, k) ==
    /\ RowInv(k)
    /\ j.max_retries # None => k.max_retries = j.max_retries
    /\ k.state = "DEAD_LETTERED" => j.state = "DEAD_LETTERED"

\* The writes that need no more than the row.
LEMMA PlainWrites ==
    ASSUME NEW j \in Job, RowInv(j)
    PROVE  /\ RowStep(j, j)
           /\ RowStep(j, Cancelled(j))
           /\ RowStep(j, SucceededJob(j))
           /\ RowStep(j, [j EXCEPT !.state = "INDETERMINATE", !.due = FALSE,
                               !.indeterminate_reason = "handler_outcome"])
           /\ RowStep(j, [j EXCEPT !.state = "PUBLISHED", !.due = TRUE])
<1>1. RowStep(j, Cancelled(j))
  BY DEF RowInv, RowStep, Cancelled, Job
<1>2. RowStep(j, SucceededJob(j))
  BY DEF RowInv, RowStep, SucceededJob, Job
<1>3. RowStep(j, [j EXCEPT !.state = "INDETERMINATE", !.due = FALSE,
                           !.indeterminate_reason = "handler_outcome"])
  BY DEF RowInv, RowStep, Job
<1>4. RowStep(j, [j EXCEPT !.state = "PUBLISHED", !.due = TRUE])
  BY DEF RowInv, RowStep, Job
<1>. QED
  BY <1>1, <1>2, <1>3, <1>4 DEF RowStep

\* A new row, where there was none.
LEMMA PendingWrite ==
    ASSUME NEW j \in Job, RowInv(j), j.state = "absent"
    PROVE  RowStep(j, PendingJob)
<1>1. "DEAD_LETTERED" # None
  BY NoneAssumption DEF Statuses
<1>. QED
  BY <1>1 DEF RowInv, RowStep, PendingJob, AbsentJob

\* admit_delivery: the limit is new, or the one that is recorded.
LEMMA AdmittedWrite ==
    ASSUME NEW j \in Job, RowInv(j), NEW limit \in Nat, j.max_retries \in {None, limit}
    PROVE  /\ RowStep(j, AdmittedJob(j, limit))
           /\ AdmittedJob(j, limit).max_retries = limit
           /\ j.retry_count <= limit
<1>1. limit # None
  BY ConstantsAssumption
<1>2. j.retry_count <= limit
  BY <1>1 DEF RowInv, Job
<1>3. "DEAD_LETTERED" # None
  BY NoneAssumption DEF Statuses
<1>. QED
  BY <1>1, <1>2, <1>3 DEF RowInv, RowStep, AdmittedJob, Job

\* claim: an unfinished handler costs an attempt that the row still has.
LEMMA ClaimedWrite ==
    ASSUME NEW j \in Job, RowInv(j), ~Exhausted(j), j.state # "absent"
    PROVE  /\ RowStep(j, ClaimedJob(j))
           /\ ClaimedJob(j).queue = j.queue
           /\ ClaimedJob(j).settlement_status = j.settlement_status
<1>1. j.state = "RUNNING" => j.max_retries \in Nat /\ j.retry_count < j.max_retries
  BY DEF RowInv, Exhausted, Job
<1>2. /\ ClaimedJob(j).state = "CLAIMED"
      /\ ClaimedJob(j).max_retries = j.max_retries
      /\ ClaimedJob(j).queue = j.queue
      /\ ClaimedJob(j).settlement_status = j.settlement_status
      /\ ClaimedJob(j).retry_count
            = IF j.state = "RUNNING" THEN j.retry_count + 1 ELSE j.retry_count
  BY DEF ClaimedJob, Job
<1>3. j.retry_count \in Nat /\ j.max_retries \in Nat \cup {None}
  BY DEF Job
<1>. QED
  BY <1>1, <1>2, <1>3 DEF RowInv, RowStep

\* mark_published and mark_publish_indeterminate.
LEMMA MarkedWrites ==
    ASSUME NEW j \in Job, RowInv(j), NEW claim
    PROVE  /\ RowStep(j, PublishedJob(claim, j))
           /\ RowStep(j, IndeterminateJob(claim, j))
<1>1. "DEAD_LETTERED" # None
  BY NoneAssumption DEF Statuses
<1>2. RowStep(j, PublishedJob(claim, j))
  BY <1>1 DEF RowInv, RowStep, PublishedJob, Job
<1>3. RowStep(j, IndeterminateJob(claim, j))
  BY DEF RowInv, RowStep, IndeterminateJob, Job
<1>. QED
  BY <1>2, <1>3

\* checkpoint_settlement and apply_outcome: the copy is within the budget.
LEMMA SettledWrites ==
    ASSUME NEW j \in Job, RowInv(j), NEW out \in Copy, NEW status,
           WithinBudget(out.retry_count, j),
           status = "DEAD_LETTERED" => out.queue = DLQ
    PROVE  /\ RowStep(j, SettlingJob(j, out, status))
           /\ RowStep(j, OutcomeJob(j, out))
<1>0. out.retry_count \in Nat
  BY DEF Copy
<1>1. "DEAD_LETTERED" # None
  BY NoneAssumption DEF Statuses
<1>2. RowStep(j, SettlingJob(j, out, status))
  BY <1>0 DEF RowInv, RowStep, SettlingJob, Job, WithinBudget
<1>3. RowStep(j, OutcomeJob(j, out))
  BY <1>0, <1>1 DEF RowInv, RowStep, OutcomeJob, Job, WithinBudget
<1>. QED
  BY <1>2, <1>3

\* The two writes that finish a dead letter.
LEMMA DeadLetterWrites ==
    ASSUME NEW j \in Job, RowInv(j)
    PROVE  /\ RowInv([DeadLetteredJob(j) EXCEPT !.indeterminate_reason = None])
           /\ RowInv([DeadLetteredJob(j) EXCEPT !.queue = DLQ])
           /\ [DeadLetteredJob(j) EXCEPT !.indeterminate_reason = None].max_retries
                 = j.max_retries
           /\ [DeadLetteredJob(j) EXCEPT !.queue = DLQ].max_retries = j.max_retries
<1>1. /\ RowInv([DeadLetteredJob(j) EXCEPT !.indeterminate_reason = None])
      /\ [DeadLetteredJob(j) EXCEPT !.indeterminate_reason = None].max_retries
            = j.max_retries
  BY DEF RowInv, DeadLetteredJob, Job
<1>2. /\ RowInv([DeadLetteredJob(j) EXCEPT !.queue = DLQ])
      /\ [DeadLetteredJob(j) EXCEPT !.queue = DLQ].max_retries = j.max_retries
  BY DEF RowInv, DeadLetteredJob, Job
<1>. QED
  BY <1>1, <1>2

\* _guarded_series_update writes the new row, cancels the old or does nothing.
LEMMA GuardedWrite ==
    ASSUME NEW j \in Job, RowInv(j), NEW matches \in BOOLEAN, NEW new,
           matches => RowStep(j, new)
    PROVE  RowStep(j, GuardedUpdate(j, matches, new))
BY PlainWrites DEF GuardedUpdate, Updatable
-----------------------------------------------------------------------------
(* Frames.                                                                 *)

\* What every step does to the rows.
RowsKept ==
    \A o \in Occ :
        /\ RowInv(jobs'[o])
        /\ jobs[o].max_retries # None => jobs'[o].max_retries = jobs[o].max_retries
        /\ jobs'[o].state = "DEAD_LETTERED"
              => \/ jobs[o].state = "DEAD_LETTERED"
                 \/ \E m \in wire : m.queue = DLQ /\ m.occ = o

\* ... and to the dead-letter queue, which no listener consumes.
KeepsDeadLetters == \A m \in wire : m.queue = DLQ => m \in wire'

\* One row is written.
LEMMA WriteRow ==
    ASSUME TypeOK, StoreInv, NEW o \in Occ, NEW k, RowStep(jobs[o], k),
           jobs' = [jobs EXCEPT ![o] = k]
    PROVE  RowsKept
BY DEF TypeOK, StoreInv, RowStep, RowsKept

LEMMA SameRows ==
    ASSUME StoreInv, jobs' = jobs
    PROVE  RowsKept
BY DEF StoreInv, RowsKept

\* A thread that does not move keeps its part of the invariant, whoever moves.
LEMMA StoreFrame ==
    ASSUME TypeOK, StoreInv, RowsKept, KeepsDeadLetters,
           \A d \in Consumers : con'[d] = con[d] \/ ListenerInv(d)',
           \A q \in Publishers : pub'[q] = pub[q] \/ RunnerInv(q)'
    PROVE  StoreInv'
<1>1. ASSUME NEW d \in Consumers, con'[d] = con[d] PROVE ListenerInv(d)'
  <2>1. ListenerInv(d)
    BY DEF StoreInv
  <2>2. /\ con[d].pc # "idle" => con[d].msg.occ \in Occ
        /\ con[d].pc \in {"continuing", "settling", "published"}
              => con[d].out.occ \in Occ
    BY Carried DEF Copy
  <2>3. Engaged(d)' => Engaged(d) /\ con[d].pc # "idle"
    BY <1>1 DEF Engaged
  <2>4. ASSUME NEW n, NEW o \in Occ, WithinBudget(n, jobs[o])
        PROVE  WithinBudget(n, jobs'[o])
    BY <2>4 DEF WithinBudget, RowsKept
  <2>. QED
    BY <1>1, <2>1, <2>2, <2>3, <2>4 DEF ListenerInv, KeepsDeadLetters
<1>2. ASSUME NEW q \in Publishers, pub'[q] = pub[q] PROVE RunnerInv(q)'
  BY <1>2 DEF StoreInv, RunnerInv, KeepsDeadLetters
<1>3. DeadLetterIsPublished'
  BY DEF StoreInv, DeadLetterIsPublished, RowsKept, KeepsDeadLetters
<1>4. \A o \in Occ : RowInv(jobs'[o])
  BY DEF RowsKept
<1>5. \A d \in Consumers : ListenerInv(d)'
  BY <1>1
<1>6. \A q \in Publishers : RunnerInv(q)'
  BY <1>2
<1>. QED
  BY <1>3, <1>4, <1>5, <1>6 DEF StoreInv, RowInv
-----------------------------------------------------------------------------
(* Steps.                                                                  *)

\* Every step of a runner.
LEMMA RunnerStore ==
    ASSUME TypeOK, TypeOK', StoreInv, NEW p \in Publishers, RunnerStep(p) \/ RunnerFault(p)
    PROVE  StoreInv'
<1>0. /\ \A o \in Occ : jobs[o] \in Job /\ RowInv(jobs[o])
      /\ "DEAD_LETTERED" # None
  BY NoneAssumption DEF TypeOK, StoreInv, Statuses
<1>1. con' = con /\ \A q \in Publishers \ {p} : pub'[q] = pub[q]
  BY DEF RunnerStep, RunnerFault, ClaimJob, ParkExhausted, CancelReclaimable,
     Publish, PublishRaises, MarkPublished, MarkPublishIndeterminate,
     RunnerCrash, TypeOK
<1>2. KeepsDeadLetters
  BY DEF RunnerStep, RunnerFault, ClaimJob, ParkExhausted, CancelReclaimable,
     Publish, PublishRaises, MarkPublished, MarkPublishIndeterminate,
     RunnerCrash, KeepsDeadLetters
<1>3. SUFFICES RowsKept /\ RunnerInv(p)'
  BY <1>1, <1>2, StoreFrame
<1>4. ASSUME pub'[p] = pub[p] \/ pub'[p] = NoClaim PROVE RunnerInv(p)'
  BY <1>2, <1>4 DEF StoreInv, RunnerInv, KeepsDeadLetters, NoClaim
<1>5. CASE \E o \in Occ : ClaimJob(p, o)
  <2>1. PICK o \in Occ : ClaimJob(p, o)
    BY <1>5
  <2>2. jobs[o].state # "absent" /\ ~Exhausted(jobs[o])
    BY <2>1 DEF ClaimJob, Claimable, Reclaimable, Reconciled
  <2>3. /\ RowStep(jobs[o], ClaimedJob(jobs[o]))
        /\ ClaimedJob(jobs[o]).queue = jobs[o].queue
        /\ ClaimedJob(jobs[o]).settlement_status = jobs[o].settlement_status
    BY <1>0, <2>2, ClaimedWrite
  <2>4. RowsKept
    BY <2>1, <2>3, WriteRow DEF ClaimJob
  <2>5. /\ pub'[p].pc = "claimed"
        /\ pub'[p].claim.copy.queue = jobs[o].queue
        /\ pub'[p].claim.settlement_status = jobs[o].settlement_status
    BY <2>1, <2>3 DEF ClaimJob, ClaimOf, TypeOK
  <2>6. RunnerInv(p)'
    BY <1>0, <2>5 DEF RunnerInv, RowInv
  <2>. QED
    BY <2>4, <2>6
<1>6. CASE \E o \in Occ : ParkExhausted(p, o)
  <2>1. PICK o \in Occ : ParkExhausted(p, o)
    BY <1>6
  <2> DEFINE k == [jobs[o] EXCEPT !.state = "INDETERMINATE", !.due = FALSE,
                                  !.indeterminate_reason = "handler_outcome"]
  <2>2. jobs' = [jobs EXCEPT ![o] = k] /\ pub' = pub
    BY <2>1 DEF ParkExhausted, TypeOK
  <2>3. RowStep(jobs[o], k)
    BY <1>0, PlainWrites
  <2>. HIDE DEF k
  <2>. QED
    BY <1>4, <2>2, <2>3, WriteRow
<1>7. CASE \E o \in Occ : CancelReclaimable(p, o)
  BY <1>0, <1>4, <1>7, PlainWrites, WriteRow DEF CancelReclaimable
<1>8. CASE Publish(p) \/ PublishRaises(p)
  <2>1. RowsKept
    BY <1>8, SameRows DEF Publish, PublishRaises
  <2>2. RunnerInv(p)'
    BY <1>8 DEF Publish, PublishRaises, StoreInv, RunnerInv, TypeOK, Publisher
  <2>. QED
    BY <2>1, <2>2
<1>9. CASE MarkPublished(p)
  <2> DEFINE claim == pub[p].claim
             o == claim.copy.occ
             k == [DeadLetteredJob(jobs[o]) EXCEPT !.indeterminate_reason = None]
  <2>1. claim.copy.occ \in Occ
    BY <1>9, Carried DEF MarkPublished, Claim, Copy
  <2>2. CASE ClaimOwns(claim, jobs[o]) /\ claim.settlement_status = "DEAD_LETTERED"
    <3>1. jobs' = [jobs EXCEPT ![o] = k]
      BY <1>9, <2>2 DEF MarkPublished
    <3>2. RowInv(k) /\ k.max_retries = jobs[o].max_retries
      BY <1>0, <2>1, DeadLetterWrites
    <3>3. claim.copy \in wire /\ claim.copy.queue = DLQ
      BY <1>9, <2>2 DEF MarkPublished, StoreInv, RunnerInv
    <3>. HIDE DEF k
    <3>4. RowsKept
      BY <2>1, <3>1, <3>2, <3>3 DEF TypeOK, StoreInv, RowsKept
    <3>. QED
      BY <1>4, <1>9, <3>4 DEF MarkPublished, TypeOK
  <2>3. CASE ClaimOwns(claim, jobs[o]) /\ claim.settlement_status # "DEAD_LETTERED"
    <3>1. jobs' = [jobs EXCEPT ![o] = PublishedJob(claim, jobs[o])]
      BY <1>9, <2>3 DEF MarkPublished
    <3>2. RowStep(jobs[o], PublishedJob(claim, jobs[o]))
      BY <1>0, <2>1, MarkedWrites
    <3>. QED
      BY <1>4, <1>9, <2>1, <3>1, <3>2, WriteRow DEF MarkPublished, TypeOK
  <2>4. CASE ~ClaimOwns(claim, jobs[o])
    <3>1. jobs' = jobs
      BY <1>9, <2>4 DEF MarkPublished, TypeOK
    <3>. QED
      BY <1>4, <1>9, <3>1, SameRows DEF MarkPublished, TypeOK
  <2>. QED
    BY <2>2, <2>3, <2>4
<1>10. CASE MarkPublishIndeterminate(p)
  <2> DEFINE claim == pub[p].claim
             o == claim.copy.occ
             k == IF ClaimOwns(claim, jobs[o]) THEN IndeterminateJob(claim, jobs[o])
                                               ELSE jobs[o]
  <2>1. claim.copy.occ \in Occ
    BY <1>10, Carried DEF MarkPublishIndeterminate, Claim, Copy
  <2>2. jobs' = [jobs EXCEPT ![o] = k]
    BY <1>10 DEF MarkPublishIndeterminate
  <2>3. RowStep(jobs[o], k)
    BY <1>0, <2>1, MarkedWrites, PlainWrites
  <2>4. RowsKept
    BY <2>1, <2>2, <2>3, WriteRow
  <2>. QED
    BY <1>4, <1>10, <2>4 DEF MarkPublishIndeterminate, TypeOK
<1>11. CASE RunnerCrash(p)
  BY <1>4, <1>11, SameRows DEF RunnerCrash, TypeOK
<1>. QED
  BY <1>5, <1>6, <1>7, <1>8, <1>9, <1>10, <1>11 DEF RunnerStep, RunnerFault

\* A listener that settles nothing and is engaged with what it had before.
LEMMA SameEngagement ==
    ASSUME TypeOK, StoreInv, RowsKept, KeepsDeadLetters, NEW c \in Consumers,
           \/ con'[c].pc \in {"idle", "received", "restoring", "acking"}
           \/ /\ Engaged(c) /\ con'[c].msg = con[c].msg
              /\ con'[c].pc \in EngagedPCs \ {"continuing"}
    PROVE  ListenerInv(c)'
<1>1. CASE con'[c].pc \in {"idle", "received", "restoring", "acking"}
  BY <1>1 DEF ListenerInv, Engaged
<1>2. CASE /\ Engaged(c) /\ con'[c].msg = con[c].msg
           /\ con'[c].pc \in EngagedPCs \ {"continuing"}
  <2>1. /\ WithinBudget(con[c].msg.retry_count, jobs[con[c].msg.occ])
        /\ con[c].msg.occ \in Occ
    BY <1>2, Carried DEF StoreInv, ListenerInv, Engaged, Copy
  <2>2. WithinBudget(con'[c].msg.retry_count, jobs'[con'[c].msg.occ])
    BY <1>2, <2>1 DEF WithinBudget, RowsKept
  <2>. QED
    BY <1>2, <2>2 DEF ListenerInv, Engaged, EngagedPCs
<1>. QED
  BY <1>1, <1>2

\* What a listener step leaves alone.
LEMMA ListenerFrame ==
    ASSUME TypeOK, NEW c \in Consumers, ListenerStep(c) \/ ListenerFault(c)
    PROVE  /\ pub' = pub
           /\ \A d \in Consumers : d # c => con'[d] = con[d]
           /\ KeepsDeadLetters
<1>1. pub' = pub /\ \A d \in Consumers : d # c => con'[d] = con[d]
  BY DEF ListenerStep, ListenerFault, HandlerStep, Receive, ReceiveDuplicate,
     Admit, AdmitRaises, StartHandler, DecodeRaises, ObserverRaises,
     HandlerRaises, ContinueProcessing, ContinueRefused, CompleteSuccess,
     ResultRefused, CheckpointRetry, CheckpointDeadLetter, CheckpointContinue,
     Checkpoint, CheckpointRaises, PublishSettlement, ApplyOutcome, Restore,
     Ack, Crash, PublishedThenCrash, ReclaimFromSlow, TypeOK
<1>2. ASSUME NEW m \in wire, Receive(c, m) PROVE KeepsDeadLetters
  BY <1>2, ConstantsAssumption DEF Receive, KeepsDeadLetters
<1>3. ASSUME \A m \in wire : ~Receive(c, m) PROVE KeepsDeadLetters
  <2>1. \A m \in wire : m \in wire'
    BY <1>3 DEF ListenerStep, ListenerFault, HandlerStep, ReceiveDuplicate,
       Admit, AdmitRaises, StartHandler, DecodeRaises, ObserverRaises,
       HandlerRaises, ContinueProcessing, ContinueRefused, CompleteSuccess,
       ResultRefused, CheckpointRetry, CheckpointDeadLetter, CheckpointContinue,
       Checkpoint, CheckpointRaises, PublishSettlement, ApplyOutcome, Restore,
       Ack, Crash, PublishedThenCrash, ReclaimFromSlow
  <2>. QED
    BY <2>1 DEF KeepsDeadLetters
<1>. QED
  BY <1>1, <1>2, <1>3

\* Listener steps that write no row.
LEMMA LocalStore ==
    ASSUME TypeOK, StoreInv, KeepsDeadLetters, NEW c \in Consumers,
           \/ \E m \in wire : Receive(c, m) \/ ReceiveDuplicate(c, m)
           \/ AdmitRaises(c) \/ StartHandler(c)
           \/ DecodeRaises(c) \/ HandlerRaises(c) \/ ContinueRefused(c)
           \/ \E q \in Queues : ContinueProcessing(c, q)
           \/ \E result \in Results : ResultRefused(c, result)
           \/ CheckpointRaises(c) \/ PublishSettlement(c) \/ Restore(c)
           \/ Ack(c) \/ Crash(c) \/ PublishedThenCrash(c) \/ ReclaimFromSlow(c)
    PROVE  RowsKept /\ ListenerInv(c)'
<1>0. con \in [Consumers -> Consumer] /\ con[c] \in Consumer
  BY DEF TypeOK
<1>1. jobs' = jobs
  BY DEF Receive, ReceiveDuplicate, AdmitRaises, StartHandler, DecodeRaises,
     HandlerRaises, ContinueRefused, ContinueProcessing, ResultRefused,
     CheckpointRaises, PublishSettlement, Restore, Ack, Crash,
     PublishedThenCrash, ReclaimFromSlow
<1>2. RowsKept
  BY <1>1, SameRows
<1>3. CASE \/ \E m \in wire : Receive(c, m) \/ ReceiveDuplicate(c, m)
           \/ Ack(c) \/ Crash(c) \/ PublishedThenCrash(c)
  <2>1. CASE \E m \in wire : Receive(c, m) \/ ReceiveDuplicate(c, m)
    BY <1>0, <1>2, <2>1, SameEngagement DEF Receive, ReceiveDuplicate, Idle
  <2>2. CASE Ack(c) \/ Crash(c) \/ PublishedThenCrash(c)
    BY <1>0, <1>2, <2>2, SameEngagement DEF Ack, Crash, PublishedThenCrash, Idle
  <2>. QED
    BY <1>3, <2>1, <2>2
<1>4. CASE AdmitRaises(c) \/ Restore(c) \/ CheckpointRaises(c)
  <2>1. con'[c].pc \in {"restoring", "acking"}
    BY <1>0, <1>4 DEF AdmitRaises, Restore, CheckpointRaises, Consumer
  <2>. QED
    BY <1>2, <2>1, SameEngagement
<1>5. CASE \/ StartHandler(c) \/ DecodeRaises(c) \/ HandlerRaises(c)
           \/ ContinueRefused(c)
           \/ \E result \in Results : ResultRefused(c, result)
  <2>1. /\ Engaged(c) /\ con'[c].msg = con[c].msg
        /\ con'[c].pc \in {"handling", "erroring", "failing"}
    BY <1>0, <1>5 DEF StartHandler, DecodeRaises, HandlerRaises,
       ContinueRefused, ResultRefused, Engaged, Consumer
  <2>. QED
    BY <1>2, <2>1, SameEngagement DEF EngagedPCs
<1>6. CASE \E q \in Queues : ContinueProcessing(c, q)
  <2>1. PICK q \in Queues : ContinueProcessing(c, q)
    BY <1>6
  <2>2. /\ WithinBudget(con[c].msg.retry_count, jobs[con[c].msg.occ])
        /\ con[c].msg \in Copy
    BY <2>1, Carried DEF ContinueProcessing, StoreInv, ListenerInv, Engaged
  <2>3. /\ con'[c].pc = "continuing" /\ con'[c].msg = con[c].msg
        /\ con'[c].out.occ = con[c].msg.occ
        /\ con'[c].out.retry_count = con[c].msg.retry_count
    BY <1>0, <2>1, <2>2 DEF ContinueProcessing, Consumer, Copy
  <2>. QED
    BY <1>1, <1>2, <2>2, <2>3 DEF ListenerInv, WithinBudget
<1>7. CASE PublishSettlement(c)
  <2>1. /\ con[c].pc = "settling" /\ con'[c].pc = "published"
        /\ con'[c].out = con[c].out /\ con'[c].status = con[c].status
        /\ con[c].out \in wire'
    BY <1>0, <1>7 DEF PublishSettlement, Consumer
  <2>2. ListenerInv(c)
    BY DEF StoreInv
  <2>. QED
    BY <1>1, <1>2, <2>1, <2>2 DEF ListenerInv, WithinBudget, Engaged
<1>8. CASE ReclaimFromSlow(c)
  <2>1. /\ con'[c].pc = con[c].pc /\ con'[c].msg = con[c].msg
        /\ con'[c].out = con[c].out /\ con'[c].status = con[c].status
        /\ wire \subseteq wire'
    BY <1>0, <1>8 DEF ReclaimFromSlow, Consumer
  <2>2. ListenerInv(c)
    BY DEF StoreInv
  <2>. QED
    BY <1>1, <1>2, <2>1, <2>2 DEF ListenerInv, WithinBudget, Engaged
<1>. QED
  BY <1>3, <1>4, <1>5, <1>6, <1>7, <1>8

\* admit_delivery records the budget of the command it lets run.
LEMMA AdmitStore ==
    ASSUME TypeOK, StoreInv, KeepsDeadLetters, NEW c \in Consumers,
           NEW registered \in BOOLEAN, Admit(c, registered)
    PROVE  RowsKept /\ ListenerInv(c)'
<1> DEFINE m == con[c].msg
           j == jobs[m.occ]
           limit == CommandMax(registered)
           decision == Decision(j, m, limit)
           k == JobAfter(decision, j, m, limit)
<1>0. /\ m \in Copy /\ m.occ \in Occ /\ j \in Job /\ RowInv(j) /\ limit \in Nat
      /\ con[c].pc = "received" /\ con \in [Consumers -> Consumer]
  BY Carried, ConstantFacts DEF Admit, Copy, TypeOK, StoreInv
<1>1. decision = "PROCEED"
         => j.max_retries \in {None, limit} /\ m.retry_count = j.retry_count
  BY <1>0 DEF Decision, Copy, Job
<1>2. decision \in {"PROCEED", "DROP", "ABORT"}
  BY DEF Decision
<1>3. jobs' = [jobs EXCEPT ![m.occ] = k]
  BY DEF Admit
<1>4. con'[c].pc = PCAfter(decision, registered) /\ con'[c].msg = m
  BY <1>0 DEF Admit, Consumer
<1>. HIDE DEF decision
<1>5. CASE decision = "PROCEED"
  <2>1. k = AdmittedJob(j, limit)
    BY <1>5 DEF JobAfter
  <2>2. /\ RowStep(j, AdmittedJob(j, limit))
        /\ AdmittedJob(j, limit).max_retries = limit
        /\ j.retry_count <= limit
    BY <1>0, <1>1, <1>5, AdmittedWrite
  <2>3. RowsKept
    BY <1>0, <1>3, <2>1, <2>2, WriteRow
  <2>4. jobs'[m.occ].max_retries = limit /\ limit # None
    BY <1>0, <1>3, <2>1, <2>2, ConstantsAssumption DEF TypeOK
  <2>5. con'[c].pc \in {"admitted", "missing"}
    BY <1>4, <1>5 DEF PCAfter
  <2>. QED
    BY <1>1, <1>4, <1>5, <2>2, <2>3, <2>4, <2>5 DEF ListenerInv, WithinBudget
<1>6. CASE decision # "PROCEED"
  <2>1. k \in {j, Cancelled(j)}
    BY <1>6 DEF JobAfter
  <2>2. RowsKept
    <3>. HIDE DEF k
    <3>. QED
      BY <1>0, <1>3, <2>1, WriteRow, PlainWrites
  <2>3. con'[c].pc \in {"restoring", "acking"}
    BY <1>2, <1>4, <1>6 DEF PCAfter
  <2>. QED
    BY <2>2, <2>3, SameEngagement
<1>. QED
  BY <1>5, <1>6

\* release_delivery gives the row back.
LEMMA ObserverStore ==
    ASSUME TypeOK, StoreInv, KeepsDeadLetters, NEW c \in Consumers, ObserverRaises(c)
    PROVE  RowsKept /\ ListenerInv(c)'
<1> DEFINE m == con[c].msg
           j == jobs[m.occ]
           matches == DeliveryOwns(m, j)
           new == [j EXCEPT !.state = "PUBLISHED", !.due = TRUE]
<1>0. m.occ \in Occ /\ j \in Job /\ RowInv(j) /\ con \in [Consumers -> Consumer]
  BY Carried DEF ObserverRaises, Copy, TypeOK, StoreInv
<1>1. RowStep(j, GuardedUpdate(j, matches, new))
  <2>1. RowStep(j, new)
    BY <1>0, PlainWrites
  <2>2. matches \in BOOLEAN
    BY DEF DeliveryOwns
  <2>. HIDE DEF new, matches
  <2>. QED
    BY <1>0, <2>1, <2>2, GuardedWrite
<1>2. jobs' = [jobs EXCEPT ![m.occ] = GuardedUpdate(j, matches, new)]
  BY DEF ObserverRaises
<1>3. RowsKept
  BY <1>0, <1>1, <1>2, WriteRow
<1>4. con'[c].pc \in {"restoring", "idle"}
  BY <1>0 DEF ObserverRaises, Consumer, Idle
<1>. QED
  BY <1>3, <1>4, SameEngagement

\* A success finishes its row and inserts the next one where there was none.
LEMMA SuccessStore ==
    ASSUME TypeOK, SuccessorIsAbsent, StoreInv, KeepsDeadLetters, NEW c \in Consumers,
           NEW result \in Results, NEW over \in BOOLEAN,
           CompleteSuccess(c, result, over)
    PROVE  RowsKept /\ ListenerInv(c)'
<1>1. ASSUME NEW o \in Occ PROVE RowStep(jobs[o], jobs'[o])
  <2>1. jobs[o] \in Job /\ RowInv(jobs[o])
    BY DEF TypeOK, StoreInv
  <2>2. jobs'[o] \in {jobs[o], SucceededJob(jobs[o])}
        \/ (jobs'[o] = PendingJob /\ o = series.latest + 1)
    BY DEF CompleteSuccess
  <2>3. o = series.latest + 1 => jobs[o].state = "absent"
    BY DEF SuccessorIsAbsent, TypeOK, Occ
  <2>. QED
    BY <2>1, <2>2, <2>3, PlainWrites, PendingWrite
<1>2. RowsKept
  BY <1>1 DEF RowsKept, RowStep
<1>3. con'[c].pc = "acking"
  BY DEF CompleteSuccess, TypeOK, Consumer
<1>. QED
  BY <1>2, <1>3, SameEngagement

\* checkpoint_settlement, for a copy within the budget that it compares.
LEMMA CheckpointStore ==
    ASSUME TypeOK, StoreInv, KeepsDeadLetters, NEW c \in Consumers,
           con[c].pc # "idle", NEW out \in Copy, NEW status, NEW max,
           out.occ = con[c].msg.occ,
           status = "DEAD_LETTERED" => out.queue = DLQ,
           CheckpointMatches(con[c].msg, jobs[con[c].msg.occ], out, max)
              => WithinBudget(out.retry_count, jobs[con[c].msg.occ]),
           Checkpoint(c, out, status, max)
    PROVE  RowsKept /\ ListenerInv(c)'
<1> DEFINE m == con[c].msg
           j == jobs[m.occ]
           matches == CheckpointMatches(m, j, out, max)
           new == SettlingJob(j, out, status)
<1>0. /\ m.occ \in Occ /\ j \in Job /\ RowInv(j)
      /\ con \in [Consumers -> Consumer] /\ con[c] \in Consumer
  BY Carried DEF Copy, TypeOK, StoreInv
<1>1. RowStep(j, GuardedUpdate(j, matches, new))
  <2>1. matches => RowStep(j, new)
    BY <1>0, SettledWrites
  <2>2. matches \in BOOLEAN
    BY DEF CheckpointMatches, DeliveryOwns
  <2>. HIDE DEF new, matches
  <2>. QED
    BY <1>0, <2>1, <2>2, GuardedWrite
<1>2. jobs' = [jobs EXCEPT ![m.occ] = GuardedUpdate(j, matches, new)]
  BY DEF Checkpoint
<1>3. RowsKept
  BY <1>0, <1>1, <1>2, WriteRow
<1>4. CASE Updatable(matches)
  <2>1. con'[c].pc = "settling" /\ con'[c].out = out /\ con'[c].status = status
    BY <1>0, <1>4 DEF Checkpoint, Consumer
  <2>2. WithinBudget(out.retry_count, j)
    BY <1>4 DEF Updatable
  <2>3. WithinBudget(out.retry_count, jobs'[m.occ])
    BY <1>0, <1>3, <2>2 DEF WithinBudget, RowsKept
  <2>. QED
    BY <1>3, <2>1, <2>3 DEF ListenerInv, Engaged
<1>5. CASE ~Updatable(matches)
  <2>1. con'[c].pc = "restoring"
    BY <1>0, <1>5 DEF Checkpoint, Consumer
  <2>. QED
    BY <1>3, <2>1, SameEngagement
<1>. QED
  BY <1>4, <1>5

\* apply_outcome finishes a dead letter, or hands the row to its copy.
LEMMA OutcomeStore ==
    ASSUME TypeOK, StoreInv, KeepsDeadLetters, NEW c \in Consumers, ApplyOutcome(c)
    PROVE  RowsKept /\ ListenerInv(c)'
<1> DEFINE out == con[c].out
           j == jobs[out.occ]
           matches == OutcomeOwns(out, j)
<1>0. /\ out \in Copy /\ out.occ \in Occ /\ j \in Job /\ RowInv(j)
      /\ con[c].pc = "published" /\ con \in [Consumers -> Consumer] /\ ListenerInv(c)
      /\ con' = [con EXCEPT ![c] = Idle]
  BY Carried DEF ApplyOutcome, Copy, TypeOK, StoreInv
<1>1. WithinBudget(out.retry_count, j)
  BY <1>0 DEF ListenerInv
<1>2. con'[c].pc = "idle"
  BY <1>0 DEF Idle
<1>3. CASE con[c].status = "DEAD_LETTERED" /\ matches
  <2> DEFINE k == [DeadLetteredJob(j) EXCEPT !.queue = DLQ]
  <2>1. out.queue = DLQ /\ out \in wire
    BY <1>0, <1>3 DEF ListenerInv
  <2>2. jobs' = [jobs EXCEPT ![out.occ] = k]
    BY <1>3, <2>1 DEF ApplyOutcome
  <2>3. RowInv(k) /\ k.max_retries = j.max_retries
    BY <1>0, DeadLetterWrites
  <2>. HIDE DEF k
  <2>4. RowsKept
    BY <1>0, <2>1, <2>2, <2>3 DEF TypeOK, StoreInv, RowsKept
  <2>. QED
    BY <1>2, <2>4, SameEngagement
<1>4. CASE con[c].status = "DEAD_LETTERED" /\ ~matches
  <2>1. jobs' = jobs
    BY <1>4 DEF ApplyOutcome, TypeOK
  <2>. QED
    BY <1>2, <2>1, SameRows, SameEngagement
<1>5. CASE con[c].status # "DEAD_LETTERED"
  <2>1. jobs' = [jobs EXCEPT ![out.occ] = GuardedUpdate(j, matches, OutcomeJob(j, out))]
    BY <1>5 DEF ApplyOutcome
  <2>2. RowStep(j, OutcomeJob(j, out))
    BY <1>0, <1>1, <1>5, SettledWrites
  <2>3. RowStep(j, GuardedUpdate(j, matches, OutcomeJob(j, out)))
    <3>1. matches \in BOOLEAN
      BY DEF OutcomeOwns
    <3>. QED
      BY <1>0, <2>2, <3>1, GuardedWrite
  <2>4. RowsKept
    BY <1>0, <2>1, <2>3, WriteRow
  <2>. QED
    BY <1>2, <2>4, SameEngagement
<1>. QED
  BY <1>3, <1>4, <1>5

\* Every step of a listener.
LEMMA ListenerStore ==
    ASSUME TypeOK, SuccessorIsAbsent, StoreInv, NEW c \in Consumers,
           ListenerStep(c) \/ ListenerFault(c)
    PROVE  StoreInv'
<1>1. /\ pub' = pub
      /\ \A d \in Consumers : d # c => con'[d] = con[d]
      /\ KeepsDeadLetters
  BY ListenerFrame
<1>2. SUFFICES RowsKept /\ ListenerInv(c)'
  BY <1>1, StoreFrame
<1>3. CASE \E registered \in Deployments : Admit(c, registered)
  BY <1>1, <1>3, AdmitStore, ConstantFacts
<1>4. CASE ObserverRaises(c)
  BY <1>1, <1>4, ObserverStore
<1>5. CASE \E result \in Results : \E over \in BOOLEAN : CompleteSuccess(c, result, over)
  BY <1>1, <1>5, SuccessStore
<1>6. CASE ApplyOutcome(c)
  BY <1>1, <1>6, OutcomeStore
<1> DEFINE m == con[c].msg
<1>7. CASE CheckpointRetry(c)
  <2>1. con[c].pc # "idle" /\ m \in Copy /\ SettleMax(c) \in Nat
    BY <1>7, Carried, ConstantFacts DEF CheckpointRetry, Retries, SettleMax
  <2>2. RetryCopy(m) \in Copy
    BY <1>7, <2>1, CopiesAreCopies DEF CheckpointRetry
  <2>3. /\ RetryCopy(m).occ = m.occ
        /\ RetryCopy(m).retry_count <= SettleMax(c)
    BY <1>7, <2>1 DEF CheckpointRetry, Retries, RetryCopy, Copy
  <2>4. CheckpointMatches(m, jobs[m.occ], RetryCopy(m), SettleMax(c))
           => WithinBudget(RetryCopy(m).retry_count, jobs[m.occ])
    BY <2>1, <2>3, ConstantsAssumption DEF CheckpointMatches, WithinBudget
  <2>. QED
    BY <1>1, <1>7, <2>1, <2>2, <2>3, <2>4, CheckpointStore DEF CheckpointRetry
<1>8. CASE CheckpointDeadLetter(c)
  <2> DEFINE out == [m EXCEPT !.queue = DLQ]
  <2>1. con[c].pc # "idle" /\ m \in Copy /\ Engaged(c)
    BY <1>8, Carried DEF CheckpointDeadLetter, Engaged
  <2>2. out \in Copy /\ out.occ = m.occ /\ out.queue = DLQ
        /\ out.retry_count = m.retry_count
    BY <2>1, CopiesAreCopies DEF Copy
  <2>3. WithinBudget(out.retry_count, jobs[m.occ])
    BY <2>1, <2>2 DEF StoreInv, ListenerInv
  <2>4. Checkpoint(c, out, "DEAD_LETTERED", SettleMax(c))
    BY <1>8 DEF CheckpointDeadLetter
  <2>. HIDE DEF out
  <2>. QED
    BY <1>1, <2>1, <2>2, <2>3, <2>4, CheckpointStore
<1>9. CASE CheckpointContinue(c)
  <2>1. con[c].pc = "continuing" /\ con[c].out \in Copy
    BY <1>9, Carried DEF CheckpointContinue
  <2>2. con[c].out.occ = m.occ /\ WithinBudget(con[c].out.retry_count, jobs[m.occ])
    BY <2>1 DEF StoreInv, ListenerInv
  <2>. QED
    BY <1>1, <1>9, <2>1, <2>2, CheckpointStore DEF CheckpointContinue
<1>10. CASE \/ \E x \in wire : Receive(c, x) \/ ReceiveDuplicate(c, x)
            \/ AdmitRaises(c) \/ StartHandler(c)
            \/ DecodeRaises(c) \/ HandlerRaises(c) \/ ContinueRefused(c)
            \/ \E q \in Queues : ContinueProcessing(c, q)
            \/ \E result \in Results : ResultRefused(c, result)
            \/ CheckpointRaises(c) \/ PublishSettlement(c) \/ Restore(c)
            \/ Ack(c) \/ Crash(c) \/ PublishedThenCrash(c) \/ ReclaimFromSlow(c)
  BY <1>1, <1>10, LocalStore
<1>. QED
  BY <1>3, <1>4, <1>5, <1>6, <1>7, <1>8, <1>9, <1>10
  DEF ListenerStep, ListenerFault, HandlerStep

\* cancel_recurring and stuttering.
LEMMA CancelStore ==
    ASSUME TypeOK, StoreInv, CancelRecurring
    PROVE  StoreInv'
<1> DEFINE o == series.latest
           k == IF CancelsRow(jobs[o]) THEN Cancelled(jobs[o]) ELSE jobs[o]
<1>1. o \in Occ /\ jobs[o] \in Job /\ RowInv(jobs[o])
  BY DEF TypeOK, StoreInv
<1>2. RowStep(jobs[o], k)
  BY <1>1, PlainWrites
<1>3. jobs' = [jobs EXCEPT ![o] = k] /\ UNCHANGED <<wire, pub, con>>
  BY DEF CancelRecurring
<1>4. RowsKept
  BY <1>1, <1>2, <1>3, WriteRow
<1>5. KeepsDeadLetters
  BY <1>3 DEF KeepsDeadLetters
<1>. QED
  BY <1>3, <1>4, <1>5, StoreFrame

LEMMA StoreStep ==
    ASSUME FenceInv, TypeOK', StoreInv, [Next]_vars
    PROVE  StoreInv'
<1>0. TypeOK /\ SuccessorIsAbsent
  BY DEF FenceInv
<1>1. CASE UNCHANGED vars
  <2>1. jobs' = jobs /\ wire' = wire /\ pub' = pub /\ con' = con
    BY <1>1 DEF vars
  <2>2. RowsKept /\ KeepsDeadLetters
    BY <2>1, SameRows DEF KeepsDeadLetters
  <2>. QED
    BY <1>0, <2>1, <2>2, StoreFrame
<1>. QED
  BY <1>0, <1>1, RunnerStore, ListenerStore, CancelStore DEF Next

LEMMA StoreInit == Init => StoreInv
<1> SUFFICES ASSUME Init PROVE StoreInv
  OBVIOUS
<1>1. "DEAD_LETTERED" # None
  BY NoneAssumption DEF Statuses
<1>2. RowInv(AbsentJob) /\ RowInv(PendingJob)
  BY <1>1 DEF RowInv, AbsentJob, PendingJob
<1>3. \A o \in Occ : RowInv(jobs[o])
  BY <1>2 DEF Init
<1>4. \A c \in Consumers : ListenerInv(c)
  BY DEF Init, Idle, ListenerInv, Engaged
<1>5. \A p \in Publishers : RunnerInv(p)
  BY DEF Init, NoClaim, RunnerInv
<1>6. DeadLetterIsPublished
  BY DEF Init, DeadLetterIsPublished, PendingJob, AbsentJob
<1>. QED
  BY <1>3, <1>4, <1>5, <1>6 DEF StoreInv

LEMMA StoreInductive == Spec => []StoreInv
<1>1. FenceInv /\ TypeOK' /\ StoreInv /\ [Next]_vars => StoreInv'
  BY StoreStep
<1>. QED
  BY <1>1, StoreInit, FenceInductive, TypeCorrect, PTL DEF Spec

\* No job is stranded: every row that store.py leaves unfinished and that is
\* not parked for an operator is one that a later poll of claim() selects.
THEOREM NothingStranded == Spec => []NoStrandedJob
<1>1. TypeOK /\ StoreInv => NoStrandedJob
  BY DEF TypeOK, StoreInv, RowInv, NoStrandedJob, Claimable, Reclaimable,
     HandlerOutcomeUnknown, Job, JobStates, Reconciled, Terminal
<1>. QED
  BY <1>1, StoreInductive, TypeCorrect, PTL

\* The budget that admit_delivery records is never exceeded, by any number of
\* listeners with any limits of their own, nor by claim's extra attempt.
THEOREM BudgetKept == Spec => []RetryBudget
<1>1. StoreInv => RetryBudget
  BY DEF StoreInv, RowInv, RetryBudget
<1>. QED
  BY <1>1, StoreInductive, PTL

\* The dead letter is on its queue before its row is DEAD_LETTERED, whichever
\* of mark_published and apply_outcome finishes it.
THEOREM DeadLetterFirst == Spec => []DeadLetterIsPublished
<1>1. StoreInv => DeadLetterIsPublished
  BY DEF StoreInv
<1>. QED
  BY <1>1, StoreInductive, PTL
-----------------------------------------------------------------------------
(* One listener.  Retries never decrease and a dead-letter intent is kept  *)
(* unless a late outcome overtakes the settlement of another listener at   *)
(* the same generation, so both are theorems for a single listener slot.   *)
(* Neither is inductive: apply_outcome and mark_published write what a     *)
(* thread remembers.  The row must still say what was reported (Reported), *)
(* a claim that owns its row must carry the row's intent (ClaimHolds), and *)
(* a row with an intent must be in a state in which no copy on an          *)
(* application queue is admitted (IntentRow, with RowInv's queue).         *)

OneListener == \A c, d \in Consumers : c = d

IntentRow(j) ==
    /\ j.state = "absent" => j.generation = 0 /\ j.settlement_status = None
    /\ j.settlement_status = "DEAD_LETTERED"
          => j.state \in {"CLAIMED", "SETTLING"} \cup Terminal

\* The outcome in hand is superseded, or it is the one the row waits for.
Reported(out, status, j) ==
    \/ j.generation > out.generation
    \/ j.state \in Terminal
    \/ /\ j.generation = out.generation
       /\ j.state = "SETTLING"
       /\ j.retry_count = out.retry_count
       /\ j.settlement_status = status

ReportHolds(c) ==
    /\ con[c].pc # "idle" => con[c].msg.queue \in Queues
    /\ con[c].pc = "continuing" => con[c].out.generation = con[c].msg.generation
    /\ con[c].pc \in {"settling", "published"}
          => Reported(con[c].out, con[c].status, jobs[con[c].out.occ])

ClaimAgrees(claim, j) ==
    /\ claim.copy.generation <= j.generation
    /\ ClaimOwns(claim, j) => claim.settlement_status = j.settlement_status

ClaimHolds(p) ==
    pub[p].pc # "idle" => ClaimAgrees(pub[p].claim, jobs[pub[p].claim.copy.occ])

IntentInv ==
    /\ \A o \in Occ : IntentRow(jobs[o])
    /\ \A c \in Consumers : ReportHolds(c)
    /\ \A p \in Publishers : ClaimHolds(p)

\* What every step does to a row.
IntentStep(j, k) ==
    /\ IntentRow(k)
    /\ k.retry_count >= j.retry_count
    /\ j.settlement_status = "DEAD_LETTERED" /\ j.state \notin Terminal
          => k.settlement_status = "DEAD_LETTERED"
    /\ k.generation >= j.generation
    /\ k.state = "CLAIMED" => k = j \/ k.generation > j.generation

\* ... and what a runner or a cancellation does to a row that is reported on.
SparesSettling(j, k) ==
    j.state = "SETTLING"
        => k = j \/ k.generation > j.generation \/ k.state \in Terminal

\* The writes that keep a row's count and intent: the row is finished, or it
\* is the RUNNING one that has none.
LEMMA IntentPlain ==
    ASSUME NEW j \in Job, IntentRow(j), j.state # "absent"
    PROVE  /\ IntentStep(j, j)
           /\ IntentStep(j, Cancelled(j))
           /\ Cancelled(j).state \in Terminal
           /\ IntentStep(j, SucceededJob(j))
           /\ IntentStep(j, [DeadLetteredJob(j) EXCEPT !.indeterminate_reason = None])
           /\ IntentStep(j, [DeadLetteredJob(j) EXCEPT !.queue = DLQ])
           /\ j.state = "RUNNING"
                 => /\ IntentStep(j, [j EXCEPT !.state = "PUBLISHED", !.due = TRUE])
                    /\ IntentStep(j, [j EXCEPT !.state = "INDETERMINATE", !.due = FALSE,
                                         !.indeterminate_reason = "handler_outcome"])
<1> USE DEF IntentRow, IntentStep, Terminal
<1>0. j.generation \in Nat /\ j.retry_count \in Nat
  BY DEF Job
<1>1. IntentStep(j, j)
  BY <1>0
<1>2. IntentStep(j, Cancelled(j)) /\ Cancelled(j).state \in Terminal
  BY <1>0 DEF Cancelled, Job
<1>3. IntentStep(j, SucceededJob(j))
  BY <1>0 DEF SucceededJob, Job
<1>4. IntentStep(j, [DeadLetteredJob(j) EXCEPT !.indeterminate_reason = None])
  BY <1>0 DEF DeadLetteredJob, Job
<1>5. IntentStep(j, [DeadLetteredJob(j) EXCEPT !.queue = DLQ])
  BY <1>0 DEF DeadLetteredJob, Job
<1>6. ASSUME j.state = "RUNNING"
      PROVE  /\ IntentStep(j, [j EXCEPT !.state = "PUBLISHED", !.due = TRUE])
             /\ IntentStep(j, [j EXCEPT !.state = "INDETERMINATE", !.due = FALSE,
                                  !.indeterminate_reason = "handler_outcome"])
  BY <1>0, <1>6 DEF Job
<1>. QED
  BY <1>1, <1>2, <1>3, <1>4, <1>5, <1>6

LEMMA IntentPending ==
    ASSUME NEW j \in Job, RowInv(j), IntentRow(j), j.state = "absent"
    PROVE  IntentStep(j, j) /\ IntentStep(j, PendingJob)
<1>1. j.generation = 0 /\ j.retry_count = 0 /\ j.settlement_status = None
  BY DEF IntentRow, RowInv
<1>2. "DEAD_LETTERED" # None
  BY NoneAssumption DEF Statuses
<1>3. IntentStep(j, j)
  BY <1>1, <1>2 DEF IntentRow, IntentStep
<1>4. IntentStep(j, PendingJob)
  BY <1>1, <1>2 DEF IntentRow, IntentStep, PendingJob, AbsentJob
<1>. QED
  BY <1>3, <1>4

\* claim keeps the intent and starts a generation of its own.
LEMMA IntentClaimed ==
    ASSUME NEW j \in Job, IntentRow(j), j.state # "absent"
    PROVE  /\ IntentStep(j, ClaimedJob(j))
           /\ ClaimedJob(j).generation > j.generation
           /\ ClaimedJob(j).settlement_status = j.settlement_status
<1>1. /\ ClaimedJob(j).state = "CLAIMED"
      /\ ClaimedJob(j).generation = j.generation + 1
      /\ ClaimedJob(j).settlement_status = j.settlement_status
      /\ ClaimedJob(j).retry_count
            = IF j.state = "RUNNING" THEN j.retry_count + 1 ELSE j.retry_count
  BY DEF ClaimedJob, Job
<1>2. j.retry_count \in Nat /\ j.generation \in Nat
  BY DEF Job
<1>. QED
  BY <1>1, <1>2 DEF IntentRow, IntentStep

\* mark_published and mark_publish_indeterminate, when the claim carries the
\* intent of the row it owns.
LEMMA IntentMarked ==
    ASSUME NEW j \in Job, IntentRow(j), NEW claim, ClaimOwns(claim, j),
           claim.settlement_status = j.settlement_status
    PROVE  /\ claim.settlement_status # "DEAD_LETTERED"
                 => IntentStep(j, PublishedJob(claim, j))
           /\ IntentStep(j, IndeterminateJob(claim, j))
<1>0. j.generation \in Nat /\ j.retry_count \in Nat /\ "DEAD_LETTERED" # None
  BY NoneAssumption DEF Job, Statuses
<1>1. ASSUME claim.settlement_status # "DEAD_LETTERED"
      PROVE  IntentStep(j, PublishedJob(claim, j))
  <2> DEFINE k == PublishedJob(claim, j)
  <2>1. /\ k.state = "PUBLISHED" /\ k.retry_count = j.retry_count
        /\ k.generation = j.generation /\ k.settlement_status # "DEAD_LETTERED"
    BY <1>0, <1>1 DEF PublishedJob, Job
  <2>. QED
    BY <1>0, <1>1, <2>1 DEF IntentRow, IntentStep
<1>2. IntentStep(j, IndeterminateJob(claim, j))
  <2> DEFINE k == IndeterminateJob(claim, j)
  <2>1. /\ k.retry_count = j.retry_count
        /\ k.generation = j.generation /\ k.settlement_status = j.settlement_status
        /\ k.state = IF j.settlement_status # None THEN "SETTLING" ELSE "INDETERMINATE"
    BY <1>0 DEF IndeterminateJob, Job
  <2>. QED
    BY <1>0, <2>1 DEF IntentRow, IntentStep
<1>. QED
  BY <1>1, <1>2

\* admit_delivery lets no copy run whose row waits to be dead-lettered: the
\* row is on the dead-letter queue, the copy is not.
LEMMA IntentAdmitted ==
    ASSUME NEW j \in Job, NEW limit, j.queue # DLQ, RowInv(j)
    PROVE  IntentStep(j, AdmittedJob(j, limit))
<1>1. /\ AdmittedJob(j, limit).state = "RUNNING"
      /\ AdmittedJob(j, limit).generation = j.generation
      /\ AdmittedJob(j, limit).retry_count = j.retry_count
      /\ AdmittedJob(j, limit).settlement_status = None
  BY DEF AdmittedJob, Job
<1>2. j.generation \in Nat /\ j.retry_count \in Nat /\ "DEAD_LETTERED" # None
  BY NoneAssumption DEF Job, Statuses
<1>. QED
  BY <1>1, <1>2 DEF IntentRow, IntentStep, RowInv

\* checkpoint_settlement compares the count of the row with the copy's.
LEMMA IntentSettling ==
    ASSUME NEW j \in Job, IntentRow(j), NEW m \in Copy, NEW out \in Copy, NEW status,
           NEW max, CheckpointMatches(m, j, out, max), out.generation = m.generation
    PROVE  /\ IntentStep(j, SettlingJob(j, out, status))
           /\ Reported(out, status, SettlingJob(j, out, status))
<1>1. /\ SettlingJob(j, out, status).state = "SETTLING"
      /\ SettlingJob(j, out, status).generation = j.generation
      /\ SettlingJob(j, out, status).retry_count = out.retry_count
      /\ SettlingJob(j, out, status).settlement_status = status
  BY DEF SettlingJob, Job
<1>2. /\ j.generation \in Nat /\ j.generation = m.generation
      /\ j.retry_count \in Nat /\ out.retry_count \in Nat
      /\ j.state = "RUNNING" /\ j.retry_count <= out.retry_count
  BY DEF CheckpointMatches, DeliveryOwns, Job, Copy
<1>3. j.settlement_status # "DEAD_LETTERED"
  BY <1>2 DEF IntentRow, Terminal
<1>. QED
  BY <1>1, <1>2, <1>3 DEF IntentRow, IntentStep, Reported

\* apply_outcome, when the row still says what was reported.
LEMMA IntentOutcome ==
    ASSUME NEW j \in Job, NEW out \in Copy, NEW status,
           status # "DEAD_LETTERED", OutcomeOwns(out, j), Reported(out, status, j)
    PROVE  IntentStep(j, OutcomeJob(j, out))
<1>1. /\ OutcomeJob(j, out).state = "PUBLISHED"
      /\ OutcomeJob(j, out).generation = j.generation
      /\ OutcomeJob(j, out).retry_count = out.retry_count
      /\ OutcomeJob(j, out).settlement_status = None
  BY DEF OutcomeJob, Job
<1>2. j.generation \in Nat /\ j.retry_count \in Nat /\ "DEAD_LETTERED" # None
  BY NoneAssumption DEF Job, Statuses
<1>3. j.retry_count = out.retry_count /\ j.settlement_status = status
  BY <1>2 DEF OutcomeOwns, Reported, Terminal
<1>. QED
  BY <1>1, <1>2, <1>3 DEF IntentRow, IntentStep

IntentRows == \A o \in Occ : IntentStep(jobs[o], jobs'[o])

\* A row that is not written.
LEMMA IntentStays ==
    ASSUME TypeOK, StoreInv, IntentInv, NEW o \in Occ
    PROVE  IntentStep(jobs[o], jobs[o])
<1>1. jobs[o] \in Job /\ RowInv(jobs[o]) /\ IntentRow(jobs[o])
  BY DEF TypeOK, StoreInv, IntentInv
<1>. QED
  BY <1>1, IntentPlain, IntentPending

LEMMA IntentWrite ==
    ASSUME TypeOK, StoreInv, IntentInv, NEW o \in Occ, NEW k, IntentStep(jobs[o], k),
           jobs' = [jobs EXCEPT ![o] = k]
    PROVE  IntentRows
BY IntentStays DEF TypeOK, IntentRows

LEMMA IntentSame ==
    ASSUME TypeOK, StoreInv, IntentInv, jobs' = jobs
    PROVE  IntentRows
BY IntentStays DEF IntentRows

\* A claim that is not written keeps its part, whoever writes the rows.
LEMMA IntentFrame ==
    ASSUME TypeOK, TypeOK', IntentInv, IntentRows,
           \A c \in Consumers : ReportHolds(c)',
           \A p \in Publishers : pub'[p] = pub[p] \/ ClaimHolds(p)'
    PROVE  IntentInv'
<1>1. \A o \in Occ : IntentRow(jobs'[o])
  BY DEF IntentRows, IntentStep
<1>2. ASSUME NEW p \in Publishers, pub'[p] = pub[p], pub[p].pc # "idle"
      PROVE  ClaimHolds(p)'
  <2> DEFINE claim == pub[p].claim
             o == claim.copy.occ
  <2>1. o \in Occ /\ claim.copy.generation \in Nat
    BY <1>2, Carried DEF Claim, Copy
  <2>2. jobs[o].generation \in Nat /\ jobs'[o].generation \in Nat
    BY <2>1 DEF TypeOK, Job
  <2>3. ClaimAgrees(claim, jobs[o])
    BY <1>2 DEF IntentInv, ClaimHolds
  <2>4. IntentStep(jobs[o], jobs'[o])
    BY <2>1 DEF IntentRows
  <2>5. ClaimAgrees(claim, jobs'[o])
    BY <2>1, <2>2, <2>3, <2>4 DEF ClaimAgrees, ClaimOwns, IntentStep
  <2>. QED
    BY <1>2, <2>5 DEF ClaimHolds
<1>3. \A p \in Publishers : ClaimHolds(p)'
  <2>1. ASSUME NEW p \in Publishers, pub'[p] = pub[p], pub[p].pc = "idle"
        PROVE  ClaimHolds(p)'
    BY <2>1 DEF ClaimHolds
  <2>. QED
    BY <1>2, <2>1
<1>. QED
  BY <1>1, <1>3 DEF IntentInv, IntentRow

\* Runners and cancellations leave every listener's report in force.
LEMMA ReportFrame ==
    ASSUME TypeOK, TypeOK', IntentInv, IntentRows, KeepsTerminal, con' = con,
           \A o \in Occ : SparesSettling(jobs[o], jobs'[o]), NEW c \in Consumers
    PROVE  ReportHolds(c)'
<1>0. ReportHolds(c)
  BY DEF IntentInv
<1>1. ASSUME con[c].pc \in {"settling", "published"}
      PROVE  Reported(con[c].out, con[c].status, jobs'[con[c].out.occ])
  <2> DEFINE out == con[c].out
             j == jobs[out.occ]
             k == jobs'[out.occ]
  <2>1. out.occ \in Occ /\ out.generation \in Nat
    BY <1>1, Carried DEF Copy
  <2>2. j.generation \in Nat /\ k.generation \in Nat
    BY <2>1 DEF TypeOK, Job
  <2>3. Reported(out, con[c].status, j)
    BY <1>0, <1>1 DEF ReportHolds
  <2>4. k.generation >= j.generation /\ SparesSettling(j, k)
        /\ (j.state \in Terminal => k = j)
    BY <2>1 DEF IntentRows, IntentStep, KeepsTerminal
  <2>. QED
    BY <2>1, <2>2, <2>3, <2>4 DEF Reported, SparesSettling
<1>. QED
  BY <1>0, <1>1 DEF ReportHolds

\* Every step of a runner.
LEMMA RunnerIntent ==
    ASSUME TypeOK, TypeOK', StoreInv, IntentInv, KeepsTerminal, NEW p \in Publishers,
           RunnerStep(p) \/ RunnerFault(p)
    PROVE  IntentRows /\ IntentInv'
<1>0. \A o \in Occ : jobs[o] \in Job /\ RowInv(jobs[o]) /\ IntentRow(jobs[o])
  BY DEF TypeOK, StoreInv, IntentInv
<1>1. con' = con /\ \A q \in Publishers \ {p} : pub'[q] = pub[q]
  BY DEF RunnerStep, RunnerFault, ClaimJob, ParkExhausted, CancelReclaimable,
     Publish, PublishRaises, MarkPublished, MarkPublishIndeterminate,
     RunnerCrash, TypeOK
<1>2. SUFFICES /\ IntentRows
               /\ \A o \in Occ : SparesSettling(jobs[o], jobs'[o])
               /\ pub'[p] = pub[p] \/ ClaimHolds(p)'
  <2>1. \A c \in Consumers : ReportHolds(c)'
    BY <1>1, <1>2, ReportFrame
  <2>. QED
    BY <1>1, <1>2, <2>1, IntentFrame
<1>3. ASSUME pub'[p] = NoClaim PROVE ClaimHolds(p)'
  BY <1>3 DEF ClaimHolds, NoClaim
<1>4. ASSUME NEW o \in Occ, NEW k, jobs' = [jobs EXCEPT ![o] = k],
             SparesSettling(jobs[o], k)
      PROVE  \A n \in Occ : SparesSettling(jobs[n], jobs'[n])
  BY <1>4 DEF TypeOK, SparesSettling
<1>5. CASE \E o \in Occ : ClaimJob(p, o)
  <2>1. PICK o \in Occ : ClaimJob(p, o)
    BY <1>5
  <2> DEFINE k == ClaimedJob(jobs[o])
  <2>2. jobs[o].state # "absent"
    BY <2>1 DEF ClaimJob, Claimable, Reclaimable, Reconciled
  <2>3. /\ IntentStep(jobs[o], k)
        /\ k.generation > jobs[o].generation
    BY <1>0, <2>2, IntentClaimed
  <2>4. jobs' = [jobs EXCEPT ![o] = k]
    BY <2>1 DEF ClaimJob
  <2>5. pub'[p].claim = ClaimOf(o, k)
    BY <2>1 DEF ClaimJob, TypeOK
  <2>6. jobs'[o] = k /\ k.generation \in Nat
    <3>1. jobs'[o] = k
      BY <2>4 DEF TypeOK
    <3>. QED
      BY <3>1 DEF TypeOK, Job
  <2>. HIDE DEF k
  <2>7. SparesSettling(jobs[o], k)
    BY <2>3 DEF SparesSettling
  <2>8. IntentRows /\ \A n \in Occ : SparesSettling(jobs[n], jobs'[n])
    BY <1>4, <2>3, <2>4, <2>7, IntentWrite
  <2>9. ClaimHolds(p)'
    BY <2>5, <2>6 DEF ClaimHolds, ClaimAgrees, ClaimOf
  <2>. QED
    BY <2>8, <2>9
<1>6. CASE \E o \in Occ : ParkExhausted(p, o)
  <2>1. PICK o \in Occ : ParkExhausted(p, o)
    BY <1>6
  <2> DEFINE k == [jobs[o] EXCEPT !.state = "INDETERMINATE", !.due = FALSE,
                                  !.indeterminate_reason = "handler_outcome"]
  <2>2. jobs' = [jobs EXCEPT ![o] = k] /\ pub' = pub
    BY <2>1 DEF ParkExhausted, TypeOK
  <2>3. jobs[o].state = "RUNNING"
    BY <2>1 DEF ParkExhausted, Exhausted
  <2>4. IntentStep(jobs[o], k)
    BY <1>0, <2>3, IntentPlain
  <2>. HIDE DEF k
  <2>5. SparesSettling(jobs[o], k)
    BY <2>3 DEF SparesSettling
  <2>. QED
    BY <1>4, <2>2, <2>4, <2>5, IntentWrite
<1>7. CASE \E o \in Occ : CancelReclaimable(p, o)
  <2>1. PICK o \in Occ : CancelReclaimable(p, o)
    BY <1>7
  <2>2. jobs[o].state # "absent"
    BY <2>1 DEF CancelReclaimable, Reclaimable, Reconciled
  <2>3. IntentStep(jobs[o], Cancelled(jobs[o])) /\ Cancelled(jobs[o]).state \in Terminal
    BY <1>0, <2>2, IntentPlain
  <2>4. jobs' = [jobs EXCEPT ![o] = Cancelled(jobs[o])] /\ pub' = pub
    BY <2>1 DEF CancelReclaimable
  <2>5. SparesSettling(jobs[o], Cancelled(jobs[o]))
    BY <2>3 DEF SparesSettling
  <2>. QED
    BY <1>4, <2>3, <2>4, <2>5, IntentWrite
<1>8. ASSUME jobs' = jobs
      PROVE  IntentRows /\ \A o \in Occ : SparesSettling(jobs[o], jobs'[o])
  BY <1>8, IntentSame DEF SparesSettling
<1>9. CASE Publish(p) \/ PublishRaises(p)
  <2>1. /\ jobs' = jobs /\ pub[p].pc = "claimed" /\ pub'[p].claim = pub[p].claim
    BY <1>9 DEF Publish, PublishRaises, TypeOK, Publisher
  <2>2. ClaimHolds(p)'
    BY <2>1 DEF IntentInv, ClaimHolds, ClaimAgrees, ClaimOwns
  <2>. QED
    BY <1>8, <2>1, <2>2
<1>10. CASE MarkPublished(p) \/ MarkPublishIndeterminate(p)
  <2> DEFINE claim == pub[p].claim
             o == claim.copy.occ
             j == jobs[o]
             d == [DeadLetteredJob(j) EXCEPT !.indeterminate_reason = None]
  <2>1. /\ o \in Occ /\ pub[p].pc # "idle" /\ j \in Job /\ RowInv(j) /\ IntentRow(j)
        /\ pub'[p] = NoClaim
    BY <1>0, <1>10, Carried DEF MarkPublished, MarkPublishIndeterminate, Claim, Copy, TypeOK
  <2>2. CASE ~ClaimOwns(claim, j)
    <3>1. jobs' = jobs
      BY <1>10, <2>2 DEF MarkPublished, MarkPublishIndeterminate, TypeOK
    <3>. QED
      BY <1>3, <1>8, <2>1, <3>1
  <2>3. CASE ClaimOwns(claim, j)
    <3>1. claim.settlement_status = j.settlement_status /\ j.state = "CLAIMED"
      BY <2>1, <2>3 DEF IntentInv, ClaimHolds, ClaimAgrees, ClaimOwns
    <3>2. \E k : IntentStep(j, k) /\ jobs' = [jobs EXCEPT ![o] = k]
      <4>1. CASE MarkPublishIndeterminate(p)
        <5>1. IntentStep(j, IndeterminateJob(claim, j))
          BY <2>1, <2>3, <3>1, IntentMarked
        <5>2. jobs' = [jobs EXCEPT ![o] = IndeterminateJob(claim, j)]
          BY <2>3, <4>1 DEF MarkPublishIndeterminate
        <5>. QED
          BY <5>1, <5>2
      <4>2. CASE MarkPublished(p) /\ claim.settlement_status = "DEAD_LETTERED"
        <5>1. IntentStep(j, d)
          BY <2>1, <3>1, IntentPlain
        <5>2. jobs' = [jobs EXCEPT ![o] = d]
          BY <2>3, <4>2 DEF MarkPublished
        <5>. QED
          BY <5>1, <5>2
      <4>3. CASE MarkPublished(p) /\ claim.settlement_status # "DEAD_LETTERED"
        <5>1. IntentStep(j, PublishedJob(claim, j))
          BY <2>1, <2>3, <3>1, <4>3, IntentMarked
        <5>2. jobs' = [jobs EXCEPT ![o] = PublishedJob(claim, j)]
          BY <2>3, <4>3 DEF MarkPublished
        <5>. QED
          BY <5>1, <5>2
      <4>. QED
        BY <1>10, <4>1, <4>2, <4>3
    <3>3. PICK k : IntentStep(j, k) /\ jobs' = [jobs EXCEPT ![o] = k]
      BY <3>2
    <3>4. SparesSettling(j, k)
      BY <3>1 DEF SparesSettling
    <3>. QED
      BY <1>3, <1>4, <2>1, <3>3, <3>4, IntentWrite
  <2>. QED
    BY <2>2, <2>3
<1>11. CASE RunnerCrash(p)
  BY <1>3, <1>8, <1>11 DEF RunnerCrash, TypeOK
<1>. QED
  BY <1>5, <1>6, <1>7, <1>9, <1>10, <1>11 DEF RunnerStep, RunnerFault

\* A listener that reports nothing and holds the copy it had.
LEMMA SameReport ==
    ASSUME TypeOK, IntentInv, NEW c \in Consumers,
           \/ con'[c].pc = "idle"
           \/ /\ con[c].pc # "idle" /\ con'[c].msg = con[c].msg
              /\ con'[c].pc \notin {"continuing", "settling", "published"}
    PROVE  ReportHolds(c)'
BY DEF IntentInv, ReportHolds

\* Listener steps that write no row.
LEMMA LocalIntent ==
    ASSUME TypeOK, StoreInv, IntentInv, NEW c \in Consumers,
           \/ \E m \in wire : Receive(c, m) \/ ReceiveDuplicate(c, m)
           \/ AdmitRaises(c) \/ StartHandler(c)
           \/ DecodeRaises(c) \/ HandlerRaises(c) \/ ContinueRefused(c)
           \/ \E q \in Queues : ContinueProcessing(c, q)
           \/ \E result \in Results : ResultRefused(c, result)
           \/ CheckpointRaises(c) \/ PublishSettlement(c) \/ Restore(c)
           \/ Ack(c) \/ Crash(c) \/ PublishedThenCrash(c) \/ ReclaimFromSlow(c)
    PROVE  IntentRows /\ ReportHolds(c)'
<1>0. con \in [Consumers -> Consumer] /\ con[c] \in Consumer /\ ReportHolds(c)
  BY DEF TypeOK, IntentInv
<1>1. jobs' = jobs
  BY DEF Receive, ReceiveDuplicate, AdmitRaises, StartHandler, DecodeRaises,
     HandlerRaises, ContinueRefused, ContinueProcessing, ResultRefused,
     CheckpointRaises, PublishSettlement, Restore, Ack, Crash,
     PublishedThenCrash, ReclaimFromSlow
<1>2. IntentRows
  BY <1>1, IntentSame
<1>3. CASE \E m \in wire : Receive(c, m) \/ ReceiveDuplicate(c, m)
  <2>1. con'[c].pc = "received" /\ con'[c].msg.queue \in Queues
    BY <1>0, <1>3 DEF Receive, ReceiveDuplicate, Idle
  <2>. QED
    BY <1>2, <2>1 DEF ReportHolds
<1>4. CASE Ack(c) \/ Crash(c) \/ PublishedThenCrash(c)
  <2>1. con'[c].pc = "idle"
    BY <1>0, <1>4 DEF Ack, Crash, PublishedThenCrash, Idle
  <2>. QED
    BY <1>2, <2>1, SameReport
<1>5. CASE AdmitRaises(c) \/ Restore(c) \/ CheckpointRaises(c)
  <2>1. /\ con[c].pc # "idle" /\ con'[c].msg = con[c].msg
        /\ con'[c].pc \in {"restoring", "acking"}
    BY <1>0, <1>5 DEF AdmitRaises, Restore, CheckpointRaises, Consumer
  <2>. QED
    BY <1>2, <2>1, SameReport
<1>6. CASE \/ StartHandler(c) \/ DecodeRaises(c) \/ HandlerRaises(c)
           \/ ContinueRefused(c)
           \/ \E result \in Results : ResultRefused(c, result)
  <2>1. /\ con[c].pc # "idle" /\ con'[c].msg = con[c].msg
        /\ con'[c].pc \in {"handling", "erroring", "failing"}
    BY <1>0, <1>6 DEF StartHandler, DecodeRaises, HandlerRaises,
       ContinueRefused, ResultRefused, Consumer
  <2>. QED
    BY <1>2, <2>1, SameReport
<1>7. CASE \E q \in Queues : ContinueProcessing(c, q)
  <2>1. PICK q \in Queues : ContinueProcessing(c, q)
    BY <1>7
  <2>2. con[c].pc = "handling" /\ con[c].msg \in Copy
    BY <2>1, Carried DEF ContinueProcessing
  <2>3. /\ con'[c].pc = "continuing" /\ con'[c].msg = con[c].msg
        /\ con'[c].out.generation = con[c].msg.generation
    BY <1>0, <2>1, <2>2 DEF ContinueProcessing, Consumer, Copy
  <2>. QED
    BY <1>0, <1>2, <2>2, <2>3 DEF ReportHolds
<1>8. CASE PublishSettlement(c) \/ ReclaimFromSlow(c)
  <2>1. /\ con'[c].msg = con[c].msg /\ con'[c].out = con[c].out
        /\ con'[c].status = con[c].status
        /\ \/ con'[c].pc = con[c].pc
           \/ con[c].pc = "settling" /\ con'[c].pc = "published"
    BY <1>0, <1>8 DEF PublishSettlement, ReclaimFromSlow, Consumer
  <2>2. \A out, status : Reported(out, status, jobs[out.occ])
                            => Reported(out, status, jobs'[out.occ])
    BY <1>1
  <2>. QED
    BY <1>0, <1>2, <2>1, <2>2 DEF ReportHolds
<1>. QED
  BY <1>3, <1>4, <1>5, <1>6, <1>7, <1>8

LEMMA AdmitIntent ==
    ASSUME TypeOK, StoreInv, IntentInv, NEW c \in Consumers,
           NEW registered \in BOOLEAN, Admit(c, registered)
    PROVE  IntentRows /\ ReportHolds(c)'
<1> DEFINE m == con[c].msg
           j == jobs[m.occ]
           limit == CommandMax(registered)
           decision == Decision(j, m, limit)
           k == JobAfter(decision, j, m, limit)
<1>0. /\ m \in Copy /\ m.occ \in Occ /\ j \in Job /\ RowInv(j) /\ IntentRow(j)
      /\ con[c].pc = "received" /\ con \in [Consumers -> Consumer]
      /\ m.queue \in Queues
  BY Carried DEF Admit, Copy, TypeOK, StoreInv, IntentInv, ReportHolds
<1>1. decision = "PROCEED" => j.queue = m.queue
  BY DEF Decision
<1>2. decision \in {"PROCEED", "DROP", "ABORT"} /\ (decision # "ABORT" => j.state # "absent")
  BY DEF Decision
<1>3. jobs' = [jobs EXCEPT ![m.occ] = k]
  BY DEF Admit
<1>4. con'[c].pc = PCAfter(decision, registered) /\ con'[c].msg = m
  BY <1>0 DEF Admit, Consumer
<1>. HIDE DEF decision
<1>5. IntentStep(j, k)
  <2>1. CASE decision = "PROCEED"
    <3>1. k = AdmittedJob(j, limit)
      BY <2>1 DEF JobAfter
    <3>2. j.queue # DLQ
      BY <1>0, <1>1, <2>1, ConstantsAssumption
    <3>. QED
      BY <1>0, <3>1, <3>2, IntentAdmitted
  <2>2. CASE decision # "PROCEED"
    <3>1. k = j \/ (k = Cancelled(j) /\ decision = "DROP")
      BY <2>2 DEF JobAfter
    <3>. QED
      BY <1>0, <1>2, <3>1, IntentPlain, IntentStays
  <2>. QED
    BY <2>1, <2>2
<1>6. con'[c].pc \in {"admitted", "missing", "acking", "restoring"}
  BY <1>2, <1>4 DEF PCAfter
<1>. HIDE DEF k
<1>. QED
  BY <1>0, <1>3, <1>4, <1>5, <1>6, IntentWrite, SameReport

\* _guarded_series_update on a row that exists.
LEMMA IntentGuarded ==
    ASSUME NEW j \in Job, IntentRow(j), NEW matches \in BOOLEAN, NEW new,
           IntentStep(j, j), matches => IntentStep(j, new) /\ j.state # "absent"
    PROVE  IntentStep(j, GuardedUpdate(j, matches, new))
BY IntentPlain DEF GuardedUpdate, Updatable

LEMMA ObserverIntent ==
    ASSUME TypeOK, StoreInv, IntentInv, NEW c \in Consumers, ObserverRaises(c)
    PROVE  IntentRows /\ ReportHolds(c)'
<1> DEFINE m == con[c].msg
           j == jobs[m.occ]
           matches == DeliveryOwns(m, j)
           new == [j EXCEPT !.state = "PUBLISHED", !.due = TRUE]
<1>0. /\ m.occ \in Occ /\ j \in Job /\ IntentRow(j) /\ con[c].pc = "admitted"
      /\ con \in [Consumers -> Consumer]
  BY Carried DEF ObserverRaises, Copy, TypeOK, IntentInv
<1>1. IntentStep(j, GuardedUpdate(j, matches, new))
  <2>1. matches => j.state = "RUNNING" /\ IntentStep(j, new)
    BY <1>0, IntentPlain DEF DeliveryOwns
  <2>2. matches \in BOOLEAN
    BY DEF DeliveryOwns
  <2>3. IntentStep(j, j)
    BY <1>0, IntentStays
  <2>. HIDE DEF new, matches
  <2>. QED
    BY <1>0, <2>1, <2>2, <2>3, IntentGuarded
<1>2. jobs' = [jobs EXCEPT ![m.occ] = GuardedUpdate(j, matches, new)]
  BY DEF ObserverRaises
<1>3. IntentRows
  BY <1>0, <1>1, <1>2, IntentWrite
<1>4. con'[c].pc = "idle" \/ (con'[c].pc = "restoring" /\ con'[c].msg = m)
  BY <1>0 DEF ObserverRaises, Consumer, Idle
<1>. QED
  BY <1>0, <1>3, <1>4, SameReport

LEMMA SuccessIntent ==
    ASSUME TypeOK, SuccessorIsAbsent, StoreInv, IntentInv, NEW c \in Consumers,
           NEW result \in Results, NEW over \in BOOLEAN,
           CompleteSuccess(c, result, over)
    PROVE  IntentRows /\ ReportHolds(c)'
<1>1. ASSUME NEW o \in Occ PROVE IntentStep(jobs[o], jobs'[o])
  <2>1. jobs[o] \in Job /\ RowInv(jobs[o]) /\ IntentRow(jobs[o])
    BY DEF TypeOK, StoreInv, IntentInv
  <2>2. \/ jobs'[o] = jobs[o]
        \/ jobs'[o] = SucceededJob(jobs[o]) /\ jobs[o].state = "RUNNING"
        \/ jobs'[o] = PendingJob /\ o = series.latest + 1
    BY DEF CompleteSuccess, DeliveryOwns
  <2>3. o = series.latest + 1 => jobs[o].state = "absent"
    BY DEF SuccessorIsAbsent, TypeOK, Occ
  <2>. QED
    BY <2>1, <2>2, <2>3, IntentStays, IntentPlain, IntentPending
<1>2. IntentRows
  BY <1>1 DEF IntentRows
<1>3. con[c].pc # "idle" /\ con'[c].pc = "acking" /\ con'[c].msg = con[c].msg
  BY DEF CompleteSuccess, TypeOK, Consumer
<1>. QED
  BY <1>2, <1>3, SameReport

\* checkpoint_settlement leaves the row waiting for what it will report.
LEMMA CheckpointIntent ==
    ASSUME TypeOK, StoreInv, IntentInv, NEW c \in Consumers,
           con[c].pc # "idle", NEW out \in Copy, NEW status, NEW max,
           out.occ = con[c].msg.occ, out.generation = con[c].msg.generation,
           Checkpoint(c, out, status, max)
    PROVE  IntentRows /\ ReportHolds(c)'
<1> DEFINE m == con[c].msg
           j == jobs[m.occ]
           matches == CheckpointMatches(m, j, out, max)
           new == SettlingJob(j, out, status)
           k == GuardedUpdate(j, matches, new)
<1>0. /\ m \in Copy /\ m.occ \in Occ /\ j \in Job /\ IntentRow(j)
      /\ con \in [Consumers -> Consumer] /\ con[c] \in Consumer
      /\ IntentStep(j, j) /\ m.queue \in Queues
  BY Carried, IntentStays DEF Copy, TypeOK, IntentInv, ReportHolds
<1>1. matches => /\ IntentStep(j, new) /\ Reported(out, status, new)
                 /\ j.state = "RUNNING"
  BY <1>0, IntentSettling DEF CheckpointMatches, DeliveryOwns
<1>2. matches \in BOOLEAN
  BY DEF CheckpointMatches, DeliveryOwns
<1>3. jobs' = [jobs EXCEPT ![m.occ] = k]
  BY DEF Checkpoint
<1>4. /\ con'[c].msg = m
      /\ Updatable(matches) => /\ con'[c].pc = "settling" /\ con'[c].out = out
                               /\ con'[c].status = status
      /\ ~Updatable(matches) => con'[c].pc = "restoring"
  BY <1>0 DEF Checkpoint, Consumer
<1>. HIDE DEF new, matches
<1>5. IntentStep(j, k)
  BY <1>0, <1>1, <1>2, IntentGuarded
<1>6. Updatable(matches) => Reported(out, status, k)
  <2>1. Cancelled(j).state \in Terminal
    BY <1>0 DEF Cancelled, Terminal, Job
  <2>. QED
    BY <1>1, <2>1 DEF GuardedUpdate, Updatable, Reported
<1>. HIDE DEF k
<1>7. IntentRows /\ jobs'[m.occ] = k
  BY <1>0, <1>3, <1>5, IntentWrite DEF TypeOK
<1>8. CASE Updatable(matches)
  BY <1>0, <1>4, <1>6, <1>7, <1>8 DEF ReportHolds
<1>9. CASE ~Updatable(matches)
  BY <1>4, <1>7, <1>9, SameReport
<1>. QED
  BY <1>8, <1>9

\* apply_outcome reports what the row waits for, or nothing.
LEMMA OutcomeIntent ==
    ASSUME TypeOK, StoreInv, IntentInv, NEW c \in Consumers, ApplyOutcome(c)
    PROVE  IntentRows /\ ReportHolds(c)'
<1> DEFINE out == con[c].out
           j == jobs[out.occ]
           matches == OutcomeOwns(out, j)
           d == [DeadLetteredJob(j) EXCEPT !.queue = DLQ]
<1>0. /\ out \in Copy /\ out.occ \in Occ /\ j \in Job /\ IntentRow(j)
      /\ IntentStep(j, j) /\ con[c].pc = "published" /\ ListenerInv(c)
      /\ Reported(out, con[c].status, j)
  BY Carried, IntentStays
  DEF ApplyOutcome, Copy, TypeOK, StoreInv, IntentInv, ReportHolds
<1>1. ReportHolds(c)'
  <2>1. con'[c].pc = "idle"
    BY DEF ApplyOutcome, TypeOK, Idle
  <2>. QED
    BY <2>1, SameReport
<1>2. matches => j.state = "SETTLING"
  BY DEF OutcomeOwns
<1>3. CASE con[c].status = "DEAD_LETTERED" /\ matches
  <2>1. out.queue = DLQ
    BY <1>0, <1>3 DEF ListenerInv
  <2>2. jobs' = [jobs EXCEPT ![out.occ] = d]
    BY <1>3, <2>1 DEF ApplyOutcome
  <2>3. IntentStep(j, d)
    BY <1>0, <1>2, <1>3, IntentPlain
  <2>. HIDE DEF d
  <2>. QED
    BY <1>0, <1>1, <2>2, <2>3, IntentWrite
<1>4. CASE con[c].status = "DEAD_LETTERED" /\ ~matches
  <2>1. jobs' = jobs
    BY <1>4 DEF ApplyOutcome, TypeOK
  <2>. QED
    BY <1>1, <2>1, IntentSame
<1>5. CASE con[c].status # "DEAD_LETTERED"
  <2> DEFINE new == OutcomeJob(j, out)
  <2>1. jobs' = [jobs EXCEPT ![out.occ] = GuardedUpdate(j, matches, new)]
    BY <1>5 DEF ApplyOutcome
  <2>2. matches => IntentStep(j, new) /\ j.state # "absent"
    BY <1>0, <1>2, <1>5, IntentOutcome
  <2>3. matches \in BOOLEAN
    BY DEF OutcomeOwns
  <2>. HIDE DEF new, matches
  <2>4. IntentStep(j, GuardedUpdate(j, matches, new))
    BY <1>0, <2>2, <2>3, IntentGuarded
  <2>. QED
    BY <1>0, <1>1, <2>1, <2>4, IntentWrite
<1>. QED
  BY <1>3, <1>4, <1>5

\* Every step of the only listener.
LEMMA ListenerIntent ==
    ASSUME OneListener, TypeOK, TypeOK', SuccessorIsAbsent, StoreInv, IntentInv,
           NEW c \in Consumers, ListenerStep(c) \/ ListenerFault(c)
    PROVE  IntentRows /\ IntentInv'
<1>1. SUFFICES IntentRows /\ ReportHolds(c)'
  <2>1. pub' = pub
    BY ListenerFrame
  <2>2. \A d \in Consumers : ReportHolds(d)'
    <3>1. ASSUME NEW d \in Consumers PROVE d = c
      BY DEF OneListener
    <3>. QED
      BY <1>1, <3>1
  <2>. QED
    BY <1>1, <2>1, <2>2, IntentFrame
<1> DEFINE m == con[c].msg
<1>2. CASE CheckpointRetry(c)
  <2>1. con[c].pc # "idle" /\ m \in Copy
    BY <1>2, Carried DEF CheckpointRetry, Retries
  <2>2. RetryCopy(m) \in Copy
    BY <1>2, <2>1, CopiesAreCopies DEF CheckpointRetry
  <2>3. RetryCopy(m).occ = m.occ /\ RetryCopy(m).generation = m.generation
    BY <2>1 DEF RetryCopy, Copy
  <2>. QED
    BY <1>2, <2>1, <2>2, <2>3, CheckpointIntent DEF CheckpointRetry
<1>3. CASE CheckpointDeadLetter(c)
  <2> DEFINE out == [m EXCEPT !.queue = DLQ]
  <2>1. con[c].pc # "idle" /\ m \in Copy
    BY <1>3, Carried DEF CheckpointDeadLetter
  <2>2. out \in Copy /\ out.occ = m.occ /\ out.generation = m.generation
    BY <2>1, CopiesAreCopies DEF Copy
  <2>3. Checkpoint(c, out, "DEAD_LETTERED", SettleMax(c))
    BY <1>3 DEF CheckpointDeadLetter
  <2>. HIDE DEF out
  <2>. QED
    BY <2>1, <2>2, <2>3, CheckpointIntent
<1>4. CASE CheckpointContinue(c)
  <2>1. con[c].pc = "continuing" /\ con[c].out \in Copy
    BY <1>4, Carried DEF CheckpointContinue
  <2>2. con[c].out.occ = m.occ /\ con[c].out.generation = m.generation
    BY <2>1 DEF StoreInv, ListenerInv, IntentInv, ReportHolds
  <2>. QED
    BY <1>4, <2>1, <2>2, CheckpointIntent DEF CheckpointContinue
<1>5. CASE \/ \E x \in wire : Receive(c, x) \/ ReceiveDuplicate(c, x)
           \/ AdmitRaises(c) \/ StartHandler(c)
           \/ DecodeRaises(c) \/ HandlerRaises(c) \/ ContinueRefused(c)
           \/ \E q \in Queues : ContinueProcessing(c, q)
           \/ \E result \in Results : ResultRefused(c, result)
           \/ CheckpointRaises(c) \/ PublishSettlement(c) \/ Restore(c)
           \/ Ack(c) \/ Crash(c) \/ PublishedThenCrash(c) \/ ReclaimFromSlow(c)
  BY <1>5, LocalIntent
<1>6. CASE \E registered \in Deployments : Admit(c, registered)
  BY <1>6, AdmitIntent, ConstantFacts
<1>7. CASE ObserverRaises(c)
  BY <1>7, ObserverIntent
<1>8. CASE \E result \in Results : \E over \in BOOLEAN : CompleteSuccess(c, result, over)
  BY <1>8, SuccessIntent
<1>9. CASE ApplyOutcome(c)
  BY <1>9, OutcomeIntent
<1>. QED
  BY <1>2, <1>3, <1>4, <1>5, <1>6, <1>7, <1>8, <1>9
  DEF ListenerStep, ListenerFault, HandlerStep

LEMMA CancelIntent ==
    ASSUME TypeOK, TypeOK', StoreInv, IntentInv, KeepsTerminal, CancelRecurring
    PROVE  IntentRows /\ IntentInv'
<1> DEFINE o == series.latest
           k == IF CancelsRow(jobs[o]) THEN Cancelled(jobs[o]) ELSE jobs[o]
<1>1. o \in Occ /\ jobs[o] \in Job /\ IntentRow(jobs[o]) /\ IntentStep(jobs[o], jobs[o])
  BY IntentStays DEF TypeOK, IntentInv
<1>2. IntentStep(jobs[o], k) /\ (k = jobs[o] \/ k.state \in Terminal)
  BY <1>1, IntentPlain DEF CancelsRow
<1>3. jobs' = [jobs EXCEPT ![o] = k] /\ UNCHANGED <<wire, pub, con>>
  BY DEF CancelRecurring
<1>. HIDE DEF k
<1>4. IntentRows
  BY <1>1, <1>2, <1>3, IntentWrite
<1>5. \A n \in Occ : SparesSettling(jobs[n], jobs'[n])
  BY <1>1, <1>2, <1>3 DEF TypeOK, SparesSettling
<1>6. \A c \in Consumers : ReportHolds(c)'
  BY <1>3, <1>4, <1>5, ReportFrame
<1>. QED
  BY <1>3, <1>4, <1>6, IntentFrame

LEMMA IntentPreserved ==
    ASSUME OneListener, FenceInv, TypeOK', StoreInv, IntentInv, [Next]_vars
    PROVE  IntentRows /\ IntentInv'
<1>0. TypeOK /\ SuccessorIsAbsent /\ KeepsTerminal
  BY FenceStep DEF FenceInv
<1>1. CASE UNCHANGED vars
  <2>1. jobs' = jobs /\ pub' = pub /\ con' = con
    BY <1>1 DEF vars
  <2>2. IntentRows /\ \A o \in Occ : SparesSettling(jobs[o], jobs'[o])
    BY <1>0, <2>1, IntentSame DEF SparesSettling
  <2>3. \A c \in Consumers : ReportHolds(c)'
    BY <1>0, <2>1, <2>2, ReportFrame
  <2>. QED
    BY <1>0, <2>1, <2>2, <2>3, IntentFrame
<1>. QED
  BY <1>0, <1>1, RunnerIntent, ListenerIntent, CancelIntent DEF Next

LEMMA IntentInit == Init => IntentInv
<1> SUFFICES ASSUME Init PROVE IntentInv
  OBVIOUS
<1>1. "DEAD_LETTERED" # None
  BY NoneAssumption DEF Statuses
<1>2. IntentRow(AbsentJob) /\ IntentRow(PendingJob)
  BY <1>1 DEF IntentRow, AbsentJob, PendingJob
<1>3. \A o \in Occ : IntentRow(jobs[o])
  BY <1>2 DEF Init
<1>4. \A c \in Consumers : ReportHolds(c)
  BY DEF Init, Idle, ReportHolds
<1>5. \A p \in Publishers : ClaimHolds(p)
  BY DEF Init, NoClaim, ClaimHolds
<1>. QED
  BY <1>3, <1>4, <1>5 DEF IntentInv

LEMMA IntentInductive ==
    ASSUME OneListener
    PROVE  Spec => []IntentInv
<1>1. FenceInv /\ TypeOK' /\ StoreInv /\ IntentInv /\ [Next]_vars => IntentInv'
  BY IntentPreserved
<1>. QED
  BY <1>1, IntentInit, StoreInductive, FenceInductive, TypeCorrect, PTL DEF Spec

\* With one listener slot, whatever is duplicated, lost, reclaimed or crashes,
\* no store method ever lowers the retry count of a row.  With two, a late
\* apply_outcome does.
THEOREM RetriesNeverDecrease ==
    ASSUME OneListener
    PROVE  Spec => RetryNeverDecreases
<1>1. FenceInv /\ TypeOK' /\ StoreInv /\ IntentInv /\ [Next]_vars
         => [\A o \in Occ : jobs'[o].retry_count >= jobs[o].retry_count]_vars
  BY IntentPreserved DEF IntentRows, IntentStep
<1>. QED
  BY <1>1, IntentInductive, StoreInductive, FenceInductive, TypeCorrect, PTL
  DEF Spec, RetryNeverDecreases

\* With one listener slot, a checkpointed intent to dead-letter stays on its
\* row until the row is finished, through any number of polls, claims, failed
\* publications, crashes and redelivered copies.
THEOREM IntentKept ==
    ASSUME OneListener
    PROVE  Spec => DeadLetterIntentKept
<1>1. FenceInv /\ TypeOK' /\ StoreInv /\ IntentInv /\ [Next]_vars
         => [\A o \in Occ :
               /\ jobs[o].settlement_status = "DEAD_LETTERED"
               /\ jobs[o].state \notin Terminal
               => jobs'[o].settlement_status = "DEAD_LETTERED"]_vars
  BY IntentPreserved DEF IntentRows, IntentStep
<1>. QED
  BY <1>1, IntentInductive, StoreInductive, FenceInductive, TypeCorrect, PTL
  DEF Spec, DeadLetterIntentKept
=============================================================================
