-------------------------- MODULE DurableJobProofs --------------------------
(***************************************************************************)
(* Proofs about DurableJob, for every value of its constants.              *)
(***************************************************************************)
EXTENDS DurableJob, TLAPS

\* Constants resolve to values of their kind.
LEMMA ConstantFacts ==
    /\ FirstQueue \in Queues
    /\ 1 \in Occ
    /\ Deployments \subseteq BOOLEAN
    /\ \A registered \in BOOLEAN : CommandMax(registered) \in Nat
    /\ PolicyMax \in Nat
<1>1. FirstQueue \in Queues /\ 1 \in Occ /\ PolicyMax \in Nat
  BY ConstantsAssumption DEF FirstQueue, Occ
<1>2. Deployments \subseteq BOOLEAN
  BY Zenon DEF Deployments
<1>3. SpecLimit # None => SpecLimit \in Nat
  BY ConstantsAssumption
<1>4. \A registered \in BOOLEAN : CommandMax(registered) \in Nat
  BY <1>1, <1>3 DEF CommandMax
<1>. QED
  BY <1>1, <1>2, <1>4

\* datetime.now() is a stamp.
LEMMA NowIsStamp ==
    ASSUME FreshStamps # {}
    PROVE  Now \in Stamps
BY DEF Now, FreshStamps

\* Every row the store writes is a row.
LEMMA RowsAreJobs ==
    ASSUME NEW j \in Job, NEW limit \in Nat
    PROVE  /\ Cancelled(j) \in Job
           /\ DeadLetteredJob(j) \in Job
           /\ SucceededJob(j) \in Job
           /\ AdmittedJob(j, limit) \in Job
           /\ [DeadLetteredJob(j) EXCEPT !.indeterminate_reason = None] \in Job
           /\ [j EXCEPT !.state = "PUBLISHED", !.due = TRUE] \in Job
           /\ [j EXCEPT !.state = "INDETERMINATE", !.due = FALSE,
                        !.indeterminate_reason = "handler_outcome"] \in Job
<1>1. Cancelled(j) \in Job /\ DeadLetteredJob(j) \in Job /\ SucceededJob(j) \in Job
  BY DEF Job, Cancelled, DeadLetteredJob, SucceededJob, JobStates, Terminal
<1>2. AdmittedJob(j, limit) \in Job
  BY DEF Job, AdmittedJob, JobStates, Reconciled
<1>3. [DeadLetteredJob(j) EXCEPT !.indeterminate_reason = None] \in Job
  BY <1>1 DEF Job
<1>4. [j EXCEPT !.state = "PUBLISHED", !.due = TRUE] \in Job
  BY DEF Job, JobStates, Reconciled
<1>5. [j EXCEPT !.state = "INDETERMINATE", !.due = FALSE,
                !.indeterminate_reason = "handler_outcome"] \in Job
  BY DEF Job, JobStates, Reconciled
<1>. QED
  BY <1>1, <1>2, <1>3, <1>4, <1>5

LEMMA InitialRows == AbsentJob \in Job /\ PendingJob \in Job
BY ConstantFacts DEF AbsentJob, PendingJob, Job, JobStates

LEMMA SettlingRows ==
    ASSUME NEW j \in Job, NEW out \in Copy, NEW status \in Statuses,
           status = "RETRY_SCHEDULED" => out.last_attempt \in Stamps
    PROVE  /\ SettlingJob(j, out, status) \in Job
           /\ OutcomeJob(j, out) \in Job
           /\ [DeadLetteredJob(j) EXCEPT !.queue = out.queue] \in Job
<1>1. /\ out.retry_count \in Nat
      /\ out.queue \in Queues \cup {DLQ}
  BY DEF Copy
<1>2. (IF status = "RETRY_SCHEDULED" THEN out.last_attempt
                                     ELSE j.last_attempt_at)
         \in Stamps \cup {None}
  BY DEF Job
<1>3. SettlingJob(j, out, status) \in Job
  BY <1>1, <1>2 DEF Job, SettlingJob, JobStates, Reconciled
<1>4. OutcomeJob(j, out) \in Job
  BY <1>1 DEF Job, OutcomeJob, JobStates, Reconciled
<1>5. [DeadLetteredJob(j) EXCEPT !.queue = out.queue] \in Job
  BY <1>1 DEF Job, DeadLetteredJob, JobStates, Terminal
<1>. QED
  BY <1>3, <1>4, <1>5

LEMMA ClaimRows ==
    ASSUME NEW j \in Job, NEW claim \in Claim
    PROVE  /\ PublishedJob(claim, j) \in Job
           /\ IndeterminateJob(claim, j) \in Job
BY DEF Job, Claim, PublishedJob, IndeterminateJob, JobStates, Terminal,
       Reconciled

LEMMA ClaimedRows ==
    ASSUME NEW j \in Job, NEW o \in Occ,
           j.state = "RUNNING" => FreshStamps # {}
    PROVE  /\ ClaimedJob(j) \in Job
           /\ ClaimOf(o, ClaimedJob(j)) \in Claim
<1>1. j.state = "RUNNING" => Now \in Stamps
  BY NowIsStamp
<1>2. ClaimedJob(j) \in Job
  <2>1. /\ (IF j.state = "RUNNING" THEN j.retry_count + 1 ELSE j.retry_count)
              \in Nat
        /\ (IF j.state = "RUNNING" THEN Now ELSE j.last_attempt_at)
              \in Stamps \cup {None}
        /\ j.generation + 1 \in Nat
    BY <1>1 DEF Job
  <2>2. ASSUME NEW r \in Nat, NEW t \in Stamps \cup {None}, NEW g \in Nat
        PROVE  [j EXCEPT !.state = "CLAIMED", !.generation = g,
                         !.retry_count = r, !.last_attempt_at = t,
                         !.due = FALSE, !.indeterminate_reason = None] \in Job
    BY DEF Job, JobStates
  <2>. QED
    BY <2>1, <2>2 DEF ClaimedJob
<1>. QED
  BY <1>2 DEF Job, ClaimOf, Claim, Copy

LEMMA CopiesAreCopies ==
    ASSUME NEW m \in Copy
    PROVE  /\ Reclaimed(m) \in Copy
           /\ FreshStamps # {} => RetryCopy(m) \in Copy
           /\ FreshStamps # {} => RetryCopy(m).last_attempt \in Stamps
           /\ [m EXCEPT !.queue = DLQ] \in Copy
           /\ \A q \in Queues : [m EXCEPT !.queue = q] \in Copy
<1>1. /\ m.retry_count + 1 \in Nat
      /\ FreshStamps # {} => Now \in Stamps
  BY NowIsStamp DEF Copy
<1>2. Reclaimed(m) \in Copy
  BY <1>1 DEF Copy, Reclaimed
<1>3. ASSUME FreshStamps # {}
      PROVE  RetryCopy(m) \in Copy /\ RetryCopy(m).last_attempt \in Stamps
  BY <1>1, <1>3 DEF Copy, RetryCopy
<1>4. \A q \in Queues \cup {DLQ} : [m EXCEPT !.queue = q] \in Copy
  BY DEF Copy
<1>. QED
  BY <1>2, <1>3, <1>4
-----------------------------------------------------------------------------
(* Type correctness.                                                       *)

\* A thread that carries a claim or a copy carries a well-formed one.
LEMMA Carried ==
    ASSUME TypeOK
    PROVE  /\ \A p \in Publishers : pub[p].pc # "idle" => pub[p].claim \in Claim
           /\ \A c \in Consumers : con[c].pc # "idle" => con[c].msg \in Copy
           /\ \A c \in Consumers :
                 con[c].pc \in {"continuing", "settling", "published"}
                    => con[c].out \in Copy /\ con[c].status \in Statuses
BY DEF TypeOK, CarriesClaim, CarriesCopies, Publisher, Consumer

LEMMA GuardedUpdateType ==
    ASSUME NEW j \in Job, NEW new \in Job, NEW matches \in BOOLEAN
    PROVE  GuardedUpdate(j, matches, new) \in Job
<1>1. Cancelled(j) \in Job
  BY RowsAreJobs DEF Job
<1>. QED
  BY <1>1 DEF GuardedUpdate

\* A listener that only moves its program counter.
LEMMA MovePC ==
    ASSUME TypeOK, NEW c \in Consumers, con[c].pc # "idle",
           NEW to \in ConsumerPCs \ {"continuing", "settling"},
           to = "published" => con[c].pc = "settling",
           con' = [con EXCEPT ![c].pc = to]
    PROVE  /\ con' \in [Consumers -> Consumer]
           /\ \A d \in Consumers : CarriesCopies(con'[d])
<1>1. con[c] \in Consumer
  BY DEF TypeOK
<1>2. [con[c] EXCEPT !.pc = to] \in Consumer
  BY <1>1 DEF Consumer
<1>3. CarriesCopies([con[c] EXCEPT !.pc = to])
  BY <1>1 DEF TypeOK, CarriesCopies, Consumer
<1>4. con' = [con EXCEPT ![c] = [con[c] EXCEPT !.pc = to]]
  BY DEF TypeOK
<1>. QED
  BY <1>2, <1>3, <1>4 DEF TypeOK

LEMMA SetConsumer ==
    ASSUME TypeOK, NEW c \in Consumers, NEW x \in Consumer, CarriesCopies(x),
           con' = [con EXCEPT ![c] = x]
    PROVE  /\ con' \in [Consumers -> Consumer]
           /\ \A d \in Consumers : CarriesCopies(con'[d])
BY DEF TypeOK

LEMMA IdleIsConsumer == Idle \in Consumer /\ CarriesCopies(Idle)
BY DEF Idle, Consumer, ConsumerPCs, CarriesCopies

LEMMA SetPublisher ==
    ASSUME TypeOK, NEW p \in Publishers, NEW x \in Publisher, CarriesClaim(x),
           pub' = [pub EXCEPT ![p] = x]
    PROVE  /\ pub' \in [Publishers -> Publisher]
           /\ \A q \in Publishers : CarriesClaim(pub'[q])
BY DEF TypeOK

LEMMA MovePublisher ==
    ASSUME TypeOK, NEW p \in Publishers, pub[p].pc # "idle",
           NEW to \in {"sent", "unsure"}, pub' = [pub EXCEPT ![p].pc = to]
    PROVE  /\ pub' \in [Publishers -> Publisher]
           /\ \A q \in Publishers : CarriesClaim(pub'[q])
<1>1. [pub[p] EXCEPT !.pc = to] \in Publisher
  BY DEF TypeOK, Publisher
<1>2. CarriesClaim([pub[p] EXCEPT !.pc = to])
  BY DEF TypeOK, Publisher, CarriesClaim
<1>. QED
  BY <1>1, <1>2 DEF TypeOK

\* What a listener step leaves of an unsettled claim is a copy.
LEMMA LeftBehindType ==
    ASSUME TypeOK, NEW c \in Consumers, con[c].pc # "idle",
           NEW left \in LeftBehind(c)
    PROVE  left \subseteq Copy
<1>1. Reclaimed(con[c].msg) \in Copy
  BY Carried, CopiesAreCopies
<1>2. left = {} \/ left = {Reclaimed(con[c].msg)}
  BY DEF LeftBehind
<1>. QED
  BY <1>1, <1>2

LEMMA FailActiveSeriesType ==
    ASSUME TypeOK
    PROVE  FailActiveSeries \in [state: SeriesStates \cup {None}, latest: Occ]
BY DEF TypeOK, FailActiveSeries, SeriesStates

\* Every runner step preserves the types.
LEMMA RunnerTypes ==
    ASSUME TypeOK, NEW p \in Publishers, RunnerStep(p) \/ RunnerFault(p)
    PROVE  TypeOK'
<1>0. NoClaim \in Publisher /\ CarriesClaim(NoClaim)
  BY DEF NoClaim, Publisher, CarriesClaim
<1>1. ASSUME NEW o \in Occ, ClaimJob(p, o) PROVE TypeOK'
  <2>1. /\ ClaimedJob(jobs[o]) \in Job
        /\ ClaimOf(o, ClaimedJob(jobs[o])) \in Claim
    BY <1>1, ClaimedRows DEF ClaimJob, TypeOK
  <2>2. jobs' \in [Occ -> Job]
    BY <1>1, <2>1 DEF ClaimJob, TypeOK
  <2> DEFINE x == [pc |-> "claimed", claim |-> ClaimOf(o, ClaimedJob(jobs[o]))]
  <2>3. x \in Publisher /\ CarriesClaim(x)
    <3>1. ClaimOf(o, ClaimedJob(jobs[o])) # None
      BY <2>1, NoneAssumption
    <3>. QED
      BY <2>1, <3>1 DEF Publisher, CarriesClaim
  <2>4. pub' = [pub EXCEPT ![p] = x]
    BY <1>1 DEF ClaimJob
  <2>5. pub' \in [Publishers -> Publisher] /\ \A q \in Publishers : CarriesClaim(pub'[q])
    BY <2>3, <2>4, SetPublisher
  <2>. QED
    BY <1>1, <2>2, <2>5 DEF ClaimJob, TypeOK
<1>2. ASSUME NEW o \in Occ, ParkExhausted(p, o) PROVE TypeOK'
  <2>1. jobs[o] \in Job
    BY DEF TypeOK
  <2>2. jobs' \in [Occ -> Job]
    BY <1>2, <2>1, RowsAreJobs DEF ParkExhausted, TypeOK
  <2>. QED
    BY <1>2, <2>2 DEF ParkExhausted, TypeOK
<1>3. ASSUME NEW o \in Occ, CancelReclaimable(p, o) PROVE TypeOK'
  BY <1>3, RowsAreJobs DEF CancelReclaimable, TypeOK
<1>4. ASSUME Publish(p) \/ PublishRaises(p) PROVE TypeOK'
  <2>1. pub[p].claim.copy \in Copy
    BY <1>4, Carried DEF Publish, PublishRaises, Claim
  <2>2. pub' \in [Publishers -> Publisher] /\ \A q \in Publishers : CarriesClaim(pub'[q])
    BY <1>4, MovePublisher DEF Publish, PublishRaises
  <2>. QED
    BY <1>4, <2>1, <2>2 DEF Publish, PublishRaises, TypeOK
<1>5. ASSUME MarkPublished(p) PROVE TypeOK'
  <2> DEFINE claim == pub[p].claim
             o == claim.copy.occ
  <2>1. claim \in Claim /\ o \in Occ /\ jobs[o] \in Job
    BY <1>5, Carried DEF MarkPublished, Claim, Copy, TypeOK
  <2>2. jobs' \in [Occ -> Job]
    <3>1. /\ PublishedJob(claim, jobs[o]) \in Job
          /\ [DeadLetteredJob(jobs[o]) EXCEPT !.indeterminate_reason = None] \in Job
      BY <2>1, RowsAreJobs, ClaimRows
    <3>. QED
      BY <1>5, <2>1, <3>1 DEF MarkPublished, TypeOK
  <2>3. series' \in [state: SeriesStates \cup {None}, latest: Occ]
    BY <1>5, FailActiveSeriesType DEF MarkPublished, TypeOK
  <2>4. pub' \in [Publishers -> Publisher] /\ \A q \in Publishers : CarriesClaim(pub'[q])
    BY <1>0, <1>5, SetPublisher DEF MarkPublished
  <2>. QED
    BY <1>5, <2>2, <2>3, <2>4 DEF MarkPublished, TypeOK
<1>6. ASSUME MarkPublishIndeterminate(p) PROVE TypeOK'
  <2> DEFINE claim == pub[p].claim
             o == claim.copy.occ
  <2>1. claim \in Claim /\ o \in Occ /\ jobs[o] \in Job
    BY <1>6, Carried DEF MarkPublishIndeterminate, Claim, Copy, TypeOK
  <2>2. jobs' \in [Occ -> Job]
    BY <1>6, <2>1, ClaimRows DEF MarkPublishIndeterminate, TypeOK
  <2>4. pub' \in [Publishers -> Publisher] /\ \A q \in Publishers : CarriesClaim(pub'[q])
    BY <1>0, <1>6, SetPublisher DEF MarkPublishIndeterminate
  <2>. QED
    BY <1>6, <2>2, <2>4 DEF MarkPublishIndeterminate, TypeOK
<1>7. ASSUME RunnerCrash(p) PROVE TypeOK'
  <2>1. pub' \in [Publishers -> Publisher] /\ \A q \in Publishers : CarriesClaim(pub'[q])
    BY <1>0, <1>7, SetPublisher DEF RunnerCrash
  <2>. QED
    BY <1>7, <2>1 DEF RunnerCrash, TypeOK
<1>. QED
  BY <1>1, <1>2, <1>3, <1>4, <1>5, <1>6, <1>7 DEF RunnerStep, RunnerFault

\* The steps of a listener that only move its program counter.
LEMMA LocalTypes ==
    ASSUME TypeOK, NEW c \in Consumers,
           \/ AdmitRaises(c) \/ StartHandler(c)
           \/ DecodeRaises(c) \/ HandlerRaises(c) \/ ContinueRefused(c)
           \/ \E result \in Results : ResultRefused(c, result)
           \/ PublishSettlement(c) \/ Restore(c)
    PROVE  TypeOK'
<1>1. /\ con' \in [Consumers -> Consumer]
      /\ \A d \in Consumers : CarriesCopies(con'[d])
  BY MovePC DEF AdmitRaises, StartHandler, DecodeRaises,
     HandlerRaises, ContinueRefused, ResultRefused, PublishSettlement, Restore,
     ConsumerPCs
<1>2. wire' \subseteq Copy
  BY Carried DEF TypeOK, AdmitRaises, StartHandler,
     DecodeRaises, HandlerRaises, ContinueRefused, ResultRefused,
     PublishSettlement, Restore
<1>3. UNCHANGED <<jobs, series, pub>>
  BY DEF AdmitRaises, StartHandler, DecodeRaises,
     HandlerRaises, ContinueRefused, ResultRefused, PublishSettlement, Restore
<1>. QED
  BY <1>1, <1>2, <1>3 DEF TypeOK

\* Receiving, acking and dying.
LEMMA TransportTypes ==
    ASSUME TypeOK, NEW c \in Consumers,
           \/ \E m \in wire : Receive(c, m) \/ ReceiveDuplicate(c, m)
           \/ Ack(c) \/ Crash(c) \/ PublishedThenCrash(c)
    PROVE  TypeOK'
<1>1. ASSUME NEW m \in wire, Receive(c, m) \/ ReceiveDuplicate(c, m)
      PROVE  TypeOK'
  <2> DEFINE x == [Idle EXCEPT !.pc = "received", !.msg = m, !.holds = TRUE]
  <2>1. m \in Copy /\ m # None
    BY NoneAssumption DEF TypeOK
  <2>2. x \in Consumer /\ CarriesCopies(x)
    BY <2>1 DEF Idle, Consumer, ConsumerPCs, CarriesCopies
  <2>3. con' = [con EXCEPT ![c] = x]
    BY <1>1 DEF Receive, ReceiveDuplicate
  <2>4. con' \in [Consumers -> Consumer] /\ \A d \in Consumers : CarriesCopies(con'[d])
    BY <2>2, <2>3, SetConsumer
  <2>. QED
    BY <1>1, <2>4 DEF Receive, ReceiveDuplicate, TypeOK
<1>2. ASSUME Ack(c) \/ Crash(c) \/ PublishedThenCrash(c) PROVE TypeOK'
  <2>1. con' \in [Consumers -> Consumer] /\ \A d \in Consumers : CarriesCopies(con'[d])
    BY <1>2, SetConsumer, IdleIsConsumer DEF Ack, Crash, PublishedThenCrash
  <2>2. wire' \subseteq Copy
    <3>1. CASE Ack(c)
      BY <3>1 DEF Ack, TypeOK
    <3>2. CASE Crash(c)
      BY <3>2, LeftBehindType DEF Crash, TypeOK
    <3>3. CASE PublishedThenCrash(c)
      <4>1. (IF con[c].pc = "settling" THEN con[c].out ELSE con[c].msg) \in Copy
        BY <3>3, Carried DEF PublishedThenCrash
      <4>. QED
        BY <3>3, <4>1, LeftBehindType DEF PublishedThenCrash, TypeOK
    <3>. QED
      BY <1>2, <3>1, <3>2, <3>3
  <2>. QED
    BY <1>2, <2>1, <2>2 DEF Ack, Crash, PublishedThenCrash, TypeOK
<1>. QED
  BY <1>1, <1>2

\* checkpoint_settlement, whatever the settlement.
LEMMA CheckpointTypes ==
    ASSUME TypeOK, NEW c \in Consumers, con[c].pc # "idle",
           NEW out \in Copy, NEW status \in Statuses, NEW max \in Nat,
           status = "RETRY_SCHEDULED" => out.last_attempt \in Stamps,
           Checkpoint(c, out, status, max)
    PROVE  TypeOK'
<1> DEFINE m == con[c].msg
           matches == CheckpointMatches(m, jobs[m.occ], out, max)
           x == IF Updatable(matches)
                THEN [con[c] EXCEPT !.pc = "settling", !.out = out, !.status = status]
                ELSE [con[c] EXCEPT !.pc = "restoring", !.out = None, !.status = None]
<1>1. m \in Copy /\ m.occ \in Occ /\ jobs[m.occ] \in Job /\ m # None
  BY Carried, NoneAssumption DEF Copy, TypeOK
<1>2. con[c] \in Consumer
  BY DEF TypeOK
<1>3. x \in Consumer /\ CarriesCopies(x)
  <2>1. out # None /\ status # None
    BY NoneAssumption
  <2>. QED
    BY <1>1, <1>2, <2>1 DEF Consumer, ConsumerPCs, CarriesCopies
<1>4. con' \in [Consumers -> Consumer] /\ \A d \in Consumers : CarriesCopies(con'[d])
  <2>1. con' = [con EXCEPT ![c] = x]
    BY DEF Checkpoint, TypeOK
  <2>. QED
    BY <1>3, <2>1, SetConsumer
<1>5. SettlingJob(jobs[m.occ], out, status) \in Job
  BY <1>1, SettlingRows
<1>6. GuardedUpdate(jobs[m.occ], matches, SettlingJob(jobs[m.occ], out, status)) \in Job
  <2>1. matches \in BOOLEAN
    BY DEF CheckpointMatches, DeliveryOwns
  <2>. QED
    BY <1>1, <1>5, <2>1, GuardedUpdateType
<1>7. jobs' \in [Occ -> Job]
  BY <1>1, <1>6 DEF Checkpoint, TypeOK
<1>. QED
  BY <1>4, <1>7 DEF Checkpoint, TypeOK

\* Every listener step preserves the types.
LEMMA ListenerTypes ==
    ASSUME TypeOK, NEW c \in Consumers, ListenerStep(c) \/ ListenerFault(c)
    PROVE  TypeOK'
<1> DEFINE m == con[c].msg
<1>0. con[c].pc # "idle"
         => m \in Copy /\ m.occ \in Occ /\ jobs[m.occ] \in Job /\ con[c] \in Consumer
  BY Carried DEF Copy, TypeOK
<1>1. ASSUME NEW registered \in BOOLEAN, Admit(c, registered) PROVE TypeOK'
  <2> DEFINE decision == Decision(jobs[m.occ], m, CommandMax(registered))
  <2>1. decision \in {"PROCEED", "DROP", "ABORT"}
    BY DEF Decision
  <2>2. con' \in [Consumers -> Consumer] /\ \A d \in Consumers : CarriesCopies(con'[d])
    <3>1. PCAfter(decision, registered) \in {"admitted", "missing", "acking", "restoring"}
      BY <2>1 DEF PCAfter
    <3>. HIDE DEF decision
    <3>. QED
      BY <1>1, <3>1, MovePC DEF Admit, ConsumerPCs, decision
  <2>3. JobAfter(decision, jobs[m.occ], m, CommandMax(registered)) \in Job
    <3>1. jobs[m.occ] \in Job /\ CommandMax(registered) \in Nat
      BY <1>0, <1>1, ConstantFacts DEF Admit
    <3>2. AdmittedJob(jobs[m.occ], CommandMax(registered)) \in Job /\ Cancelled(jobs[m.occ]) \in Job
      BY <3>1, RowsAreJobs
    <3>. QED
      BY <3>1, <3>2 DEF JobAfter
  <2>4. jobs' \in [Occ -> Job]
    BY <1>0, <1>1, <2>3 DEF Admit, TypeOK
  <2>. QED
    BY <1>1, <2>2, <2>4 DEF Admit, TypeOK
<1>2. ASSUME NEW q \in Queues, ContinueProcessing(c, q) PROVE TypeOK'
  <2> DEFINE x == [con[c] EXCEPT !.pc = "continuing", !.status = "CONTINUED",
                                 !.out = [m EXCEPT !.queue = q]]
  <2>1. [m EXCEPT !.queue = q] \in Copy /\ [m EXCEPT !.queue = q] # None
    BY <1>0, <1>2, CopiesAreCopies, NoneAssumption DEF ContinueProcessing
  <2>2. m # None /\ "CONTINUED" # None
    BY <1>0, <1>2, NoneAssumption DEF ContinueProcessing, Statuses
  <2>3. x \in Consumer /\ CarriesCopies(x)
    BY <1>0, <1>2, <2>1, <2>2
       DEF ContinueProcessing, Consumer, ConsumerPCs, CarriesCopies, Statuses
  <2>4. con' = [con EXCEPT ![c] = x]
    BY <1>2 DEF ContinueProcessing, TypeOK
  <2>5. con' \in [Consumers -> Consumer] /\ \A d \in Consumers : CarriesCopies(con'[d])
    BY <2>3, <2>4, SetConsumer
  <2>. QED
    BY <1>2, <2>5 DEF ContinueProcessing, TypeOK
<1>3. ASSUME NEW result \in Results, NEW over \in BOOLEAN,
             CompleteSuccess(c, result, over)
      PROVE  TypeOK'
  <2>1. con' \in [Consumers -> Consumer] /\ \A d \in Consumers : CarriesCopies(con'[d])
    BY <1>3, MovePC DEF CompleteSuccess, ConsumerPCs
  <2>2. \A o \in Occ : SucceededJob(jobs[o]) \in Job /\ jobs[o] \in Job
    BY RowsAreJobs DEF TypeOK
  <2>3. jobs' \in [Occ -> Job]
    BY <1>3, <2>2, InitialRows DEF CompleteSuccess
  <2>4. series' \in [state: SeriesStates \cup {None}, latest: Occ]
    <3>1. NextSeries(result, over) \in [state: SeriesStates \cup {None}, latest: Occ]
      BY ConstantsAssumption DEF NextSeries, Advances, TypeOK, SeriesStates, Occ
    <3>. QED
      BY <1>3, <3>1 DEF CompleteSuccess, TypeOK
  <2>. QED
    BY <1>3, <2>1, <2>3, <2>4 DEF CompleteSuccess, TypeOK
<1>4. ASSUME CheckpointRetry(c) PROVE TypeOK'
  <2>1. con[c].pc # "idle" /\ SettleMax(c) \in Nat
    BY <1>4, ConstantFacts DEF CheckpointRetry, Retries, SettleMax
  <2>2. RetryCopy(m) \in Copy /\ RetryCopy(m).last_attempt \in Stamps
    BY <1>0, <1>4, <2>1, CopiesAreCopies DEF CheckpointRetry
  <2>. QED
    BY <1>4, <2>1, <2>2, CheckpointTypes DEF CheckpointRetry, Statuses
<1>5. ASSUME CheckpointDeadLetter(c) PROVE TypeOK'
  <2>1. con[c].pc # "idle" /\ SettleMax(c) \in Nat
    BY <1>5, ConstantFacts DEF CheckpointDeadLetter, SettleMax
  <2>2. [m EXCEPT !.queue = DLQ] \in Copy
    BY <1>0, <2>1, CopiesAreCopies
  <2>. QED
    BY <1>5, <2>1, <2>2, CheckpointTypes DEF CheckpointDeadLetter, Statuses
<1>6. ASSUME CheckpointContinue(c) PROVE TypeOK'
  <2>1. con[c].pc # "idle" /\ CommandMax(TRUE) \in Nat /\ con[c].out \in Copy
    BY <1>6, ConstantFacts, Carried DEF CheckpointContinue
  <2>. QED
    BY <1>6, <2>1, CheckpointTypes DEF CheckpointContinue, Statuses
<1>7. ASSUME CheckpointRaises(c) PROVE TypeOK'
  <2> DEFINE x == [con[c] EXCEPT !.pc = "restoring", !.out = None, !.status = None]
  <2>1. x \in Consumer /\ CarriesCopies(x)
    BY <1>0, <1>7, NoneAssumption
       DEF CheckpointRaises, Consumer, ConsumerPCs, CarriesCopies
  <2>2. con' = [con EXCEPT ![c] = x]
    BY <1>7 DEF CheckpointRaises, TypeOK
  <2>3. con' \in [Consumers -> Consumer] /\ \A d \in Consumers : CarriesCopies(con'[d])
    BY <2>1, <2>2, SetConsumer
  <2>. QED
    BY <1>7, <2>3 DEF CheckpointRaises, TypeOK
<1>8. ASSUME ApplyOutcome(c) PROVE TypeOK'
  <2> DEFINE out == con[c].out
             matches == OutcomeOwns(out, jobs[out.occ])
  <2>1. out \in Copy /\ out.occ \in Occ /\ jobs[out.occ] \in Job
    BY <1>8, Carried DEF ApplyOutcome, Copy, TypeOK
  <2>2. /\ OutcomeJob(jobs[out.occ], out) \in Job
        /\ [DeadLetteredJob(jobs[out.occ]) EXCEPT !.queue = out.queue] \in Job
    <3>1. "CONTINUED" \in Statuses
      BY DEF Statuses
    <3>. QED
      BY <2>1, <3>1, SettlingRows
  <2>3. GuardedUpdate(jobs[out.occ], matches, OutcomeJob(jobs[out.occ], out)) \in Job
    <3>1. matches \in BOOLEAN
      BY DEF OutcomeOwns
    <3>. QED
      BY <2>1, <2>2, <3>1, GuardedUpdateType
  <2>4. jobs' \in [Occ -> Job]
    BY <1>8, <2>1, <2>2, <2>3 DEF ApplyOutcome, TypeOK
  <2>5. series' \in [state: SeriesStates \cup {None}, latest: Occ]
    BY <1>8, FailActiveSeriesType DEF ApplyOutcome, TypeOK
  <2>6. con' \in [Consumers -> Consumer] /\ \A d \in Consumers : CarriesCopies(con'[d])
    BY <1>8, SetConsumer, IdleIsConsumer DEF ApplyOutcome
  <2>. QED
    BY <1>8, <2>4, <2>5, <2>6 DEF ApplyOutcome, TypeOK
<1>9. ASSUME ObserverRaises(c) PROVE TypeOK'
  <2> DEFINE matches == DeliveryOwns(m, jobs[m.occ])
  <2>0. con[c].pc # "idle"
    BY <1>9 DEF ObserverRaises
  <2>1. jobs' \in [Occ -> Job]
    <3>1. matches \in BOOLEAN
      BY DEF DeliveryOwns
    <3>2. [jobs[m.occ] EXCEPT !.state = "PUBLISHED", !.due = TRUE] \in Job
      BY <1>0, <2>0, RowsAreJobs
    <3>3. GuardedUpdate(jobs[m.occ], matches,
             [jobs[m.occ] EXCEPT !.state = "PUBLISHED", !.due = TRUE]) \in Job
      BY <1>0, <2>0, <3>1, <3>2, GuardedUpdateType
    <3>. QED
      BY <1>0, <1>9, <2>0, <3>3 DEF ObserverRaises, TypeOK
  <2>2. con' \in [Consumers -> Consumer] /\ \A d \in Consumers : CarriesCopies(con'[d])
    <3>1. CASE Updatable(matches)
      BY <1>9, <2>0, <3>1, MovePC DEF ObserverRaises, ConsumerPCs
    <3>2. CASE ~Updatable(matches)
      BY <1>9, <3>2, SetConsumer, IdleIsConsumer DEF ObserverRaises
    <3>. QED
      BY <3>1, <3>2
  <2>3. wire' \subseteq Copy
    BY <1>9, <2>0, LeftBehindType DEF ObserverRaises, TypeOK
  <2>. QED
    BY <1>9, <2>1, <2>2, <2>3 DEF ObserverRaises, TypeOK
<1>10. ASSUME ReclaimFromSlow(c) PROVE TypeOK'
  <2> DEFINE x == [con[c] EXCEPT !.holds = FALSE]
  <2>1. Reclaimed(m) \in Copy
    BY <1>0, <1>10, CopiesAreCopies DEF ReclaimFromSlow
  <2>2. x \in Consumer /\ CarriesCopies(x)
    BY <1>0, <1>10 DEF ReclaimFromSlow, Consumer, CarriesCopies, TypeOK
  <2>3. con' = [con EXCEPT ![c] = x]
    BY <1>10 DEF ReclaimFromSlow, TypeOK
  <2>4. con' \in [Consumers -> Consumer] /\ \A d \in Consumers : CarriesCopies(con'[d])
    BY <2>2, <2>3, SetConsumer
  <2>. QED
    BY <1>10, <2>1, <2>4 DEF ReclaimFromSlow, TypeOK
<1>. QED
  BY <1>1, <1>2, <1>3, <1>4, <1>5, <1>6, <1>7, <1>8, <1>9, <1>10,
     LocalTypes, TransportTypes, ConstantFacts
     DEF ListenerStep, ListenerFault, HandlerStep

LEMMA TypeInit == Init => TypeOK
  BY ConstantFacts, InitialRows, IdleIsConsumer, NoneAssumption
     DEF Init, TypeOK, NoClaim, Publisher, CarriesClaim, SeriesStates

\* Every reachable state has the types of TypeOK, for any number of listeners,
\* runners, queues, occurrences and generations.
THEOREM TypeCorrect == Spec => []TypeOK
<1>2. TypeOK /\ [Next]_vars => TypeOK'
  <2> SUFFICES ASSUME TypeOK, [Next]_vars PROVE TypeOK'
    OBVIOUS
  <2>1. ASSUME CancelRecurring PROVE TypeOK'
    <3>1. \A o \in Occ : Cancelled(jobs[o]) \in Job /\ jobs[o] \in Job
      BY RowsAreJobs DEF TypeOK
    <3>. QED
      BY <2>1, <3>1 DEF CancelRecurring, TypeOK, SeriesStates
  <2>2. CASE UNCHANGED vars
    BY <2>2 DEF vars, TypeOK
  <2>. QED
    BY <2>1, <2>2, RunnerTypes, ListenerTypes DEF Next
<1>. QED
  BY TypeInit, <1>2, PTL DEF Spec
-----------------------------------------------------------------------------
(* Fencing.  OneHandlerPerGeneration is not inductive: a second admission  *)
(* is refused because of the row's state, so the invariant must say what   *)
(* state the row of an engaged listener is in (EngagedRowIsFenced), that a *)
(* later claim cannot catch up with its generation (EngagedIsNotAhead),    *)
(* and that a successor row, which starts at generation 0, is not one that *)
(* somebody already works on (SuccessorIsAbsent).                          *)

EngagedIsNotAhead ==
    \A c \in Consumers : Engaged(c) =>
        /\ con[c].msg.generation <= jobs[con[c].msg.occ].generation
        /\ jobs[con[c].msg.occ].state # "absent"

SuccessorIsAbsent ==
    \A o \in Occ : o > series.latest => jobs[o].state = "absent"

FenceInv ==
    /\ TypeOK
    /\ SuccessorIsAbsent
    /\ EngagedIsNotAhead
    /\ EngagedRowIsFenced
    /\ OneHandlerPerGeneration

EngagedPCs == {"admitted", "handling", "failing", "erroring", "missing",
               "continuing"}

\* What a step may do to a row while others are engaged on it.
RowOK(j, k) ==
    /\ j.state = "absent" => k = j
    /\ j.state # "absent" => k.state # "absent"
    /\ k.generation >= j.generation
    /\ k.generation = j.generation /\ Fenced(j) => Fenced(k)
    /\ j.state \in Terminal => k = j

\* What the listener that was admitted with m may do to its row.
RowLeft(j, k, m) ==
    /\ DeliveryOwns(m, j)
    /\ k.generation = j.generation
    /\ k.state # "absent"

\* A step in which nobody becomes engaged and every row is treated well.
LEMMA QuietStep ==
    ASSUME FenceInv, TypeOK', series'.latest = series.latest,
           \A c \in Consumers : Engaged(c)' => Engaged(c) /\ con'[c].msg = con[c].msg,
           \A o \in Occ : RowOK(jobs[o], jobs'[o])
    PROVE  FenceInv'
<1>0. \A c \in Consumers : Engaged(c) =>
         /\ con[c].msg.occ \in Occ
         /\ con[c].msg.generation \in Nat
         /\ jobs[con[c].msg.occ].generation \in Nat
         /\ jobs'[con[c].msg.occ].generation \in Nat
  BY Carried DEF FenceInv, Engaged, Copy, TypeOK, Job
<1>1. SuccessorIsAbsent'
  BY DEF FenceInv, SuccessorIsAbsent, RowOK
<1>2. EngagedIsNotAhead'
  BY <1>0 DEF FenceInv, EngagedIsNotAhead, RowOK
<1>3. EngagedRowIsFenced'
  <2> SUFFICES ASSUME NEW c \in Consumers, Engaged(c)',
                      con'[c].msg.generation = jobs'[con'[c].msg.occ].generation
               PROVE  Fenced(jobs'[con'[c].msg.occ])
    BY DEF EngagedRowIsFenced, Fenced, HandlerOutcomeUnknown
  <2> DEFINE o == con[c].msg.occ
  <2>1. Engaged(c) /\ con'[c].msg = con[c].msg /\ o \in Occ
    BY <1>0
  <2>2. jobs'[o].generation = jobs[o].generation
    BY <1>0, <2>1 DEF FenceInv, EngagedIsNotAhead, RowOK
  <2>. QED
    BY <2>1, <2>2 DEF FenceInv, EngagedRowIsFenced, RowOK
<1>4. OneHandlerPerGeneration'
  BY DEF FenceInv, OneHandlerPerGeneration
<1>. QED
  BY <1>1, <1>2, <1>3, <1>4 DEF FenceInv

\* The engaged listener c lets go of its row, in whatever state; the others
\* that are engaged on the same row are at other generations.
LetsGo(c) ==
    /\ Engaged(c)
    /\ con'[c].pc \in ConsumerPCs \ EngagedPCs
    /\ \A d \in Consumers \ {c} : con'[d] = con[d]
    /\ \A o \in Occ : \/ RowOK(jobs[o], jobs'[o])
                      \/ o = con[c].msg.occ /\ RowLeft(jobs[o], jobs'[o], con[c].msg)
                      \/ jobs[o].state = "absent"

LEMMA LeaveStep ==
    ASSUME FenceInv, TypeOK', NEW c \in Consumers, LetsGo(c), SuccessorIsAbsent'
    PROVE  FenceInv'
<1> USE DEF LetsGo
<1>0. \A d \in Consumers : Engaged(d) =>
         /\ con[d].msg.occ \in Occ
         /\ con[d].msg.generation \in Nat
         /\ jobs[con[d].msg.occ].generation \in Nat
         /\ jobs'[con[d].msg.occ].generation \in Nat
  BY Carried DEF FenceInv, Engaged, Copy, TypeOK, Job
<1>1. ASSUME NEW d \in Consumers, Engaged(d)'
      PROVE  LET o == con[d].msg.occ
             IN  /\ d # c /\ Engaged(d) /\ con'[d].msg = con[d].msg
                 /\ \/ RowOK(jobs[o], jobs'[o])
                    \/ /\ jobs'[o].generation = jobs[o].generation
                       /\ jobs[o].generation # con[d].msg.generation
                       /\ jobs'[o].state # "absent"
  <2>1. d # c /\ Engaged(d) /\ con'[d].msg = con[d].msg
    BY <1>1 DEF Engaged, EngagedPCs
  <2>2. con[d].msg.occ \in Occ /\ jobs[con[d].msg.occ].state # "absent"
    BY <1>0, <2>1 DEF FenceInv, EngagedIsNotAhead
  <2>3. con[d].msg.occ = con[c].msg.occ
           => con[d].msg.generation # con[c].msg.generation
    BY <2>1 DEF FenceInv, OneHandlerPerGeneration
  <2>. QED
    BY <2>1, <2>2, <2>3 DEF RowLeft, DeliveryOwns
<1>2. EngagedIsNotAhead'
  BY <1>0, <1>1 DEF FenceInv, EngagedIsNotAhead, RowOK
<1>3. EngagedRowIsFenced'
  <2> SUFFICES ASSUME NEW d \in Consumers, Engaged(d)',
                      con'[d].msg.generation = jobs'[con'[d].msg.occ].generation
               PROVE  Fenced(jobs'[con'[d].msg.occ])
    BY DEF EngagedRowIsFenced, Fenced, HandlerOutcomeUnknown
  <2> DEFINE o == con[d].msg.occ
  <2>1. Engaged(d) /\ con'[d].msg = con[d].msg /\ o \in Occ /\ RowOK(jobs[o], jobs'[o])
    BY <1>0, <1>1
  <2>2. jobs'[o].generation = jobs[o].generation
    BY <1>0, <2>1 DEF FenceInv, EngagedIsNotAhead, RowOK
  <2>. QED
    BY <2>1, <2>2 DEF FenceInv, EngagedRowIsFenced, RowOK
<1>4. OneHandlerPerGeneration'
  BY <1>1 DEF FenceInv, OneHandlerPerGeneration
<1>. QED
  BY <1>2, <1>3, <1>4 DEF FenceInv

\* The rewrites of a row that anybody may make.
LEMMA GoodRows ==
    ASSUME NEW j \in Job
    PROVE  /\ RowOK(j, j)
           /\ j.state \notin Terminal \cup {"absent"} => RowOK(j, Cancelled(j))
<1>1. RowOK(j, j)
  BY DEF RowOK, Job
<1>2. ASSUME j.state \notin Terminal \cup {"absent"} PROVE RowOK(j, Cancelled(j))
  BY <1>2 DEF RowOK, Job, Cancelled, Fenced, Terminal
<1>. QED
  BY <1>1, <1>2

LEMMA RunnerRows ==
    ASSUME TypeOK, NEW p \in Publishers, RunnerStep(p) \/ RunnerFault(p)
    PROVE  \A o \in Occ : RowOK(jobs[o], jobs'[o])
<1>0. \A o \in Occ : jobs[o] \in Job /\ RowOK(jobs[o], jobs[o])
  BY GoodRows DEF TypeOK
<1>1. ASSUME NEW o \in Occ, ClaimJob(p, o) PROVE RowOK(jobs[o], ClaimedJob(jobs[o]))
  <2>1. /\ ClaimedJob(jobs[o]).state = "CLAIMED"
        /\ ClaimedJob(jobs[o]).generation = jobs[o].generation + 1
    BY <1>0 DEF ClaimedJob, Job
  <2>2. jobs[o].state \notin Terminal \cup {"absent"}
    BY <1>1 DEF ClaimJob, Claimable, Reclaimable, Reconciled, Terminal
  <2>3. jobs[o].generation \in Nat
    BY <1>0 DEF Job
  <2>. QED
    BY <2>1, <2>2, <2>3 DEF RowOK
<1>2. ASSUME NEW o \in Occ, ParkExhausted(p, o)
      PROVE  RowOK(jobs[o], [jobs[o] EXCEPT !.state = "INDETERMINATE", !.due = FALSE,
                                !.indeterminate_reason = "handler_outcome"])
  BY <1>0, <1>2 DEF ParkExhausted, Exhausted, RowOK, Job, Fenced,
     HandlerOutcomeUnknown, Terminal
<1>3. ASSUME NEW o \in Occ, CancelReclaimable(p, o)
      PROVE  RowOK(jobs[o], Cancelled(jobs[o]))
  BY <1>0, <1>3, GoodRows DEF CancelReclaimable, Reclaimable, Reconciled, Terminal
<1>4. ASSUME NEW claim \in Claim, NEW o \in Occ, ClaimOwns(claim, jobs[o])
      PROVE  /\ RowOK(jobs[o], PublishedJob(claim, jobs[o]))
             /\ RowOK(jobs[o], IndeterminateJob(claim, jobs[o]))
             /\ RowOK(jobs[o], [DeadLetteredJob(jobs[o]) EXCEPT
                                   !.indeterminate_reason = None])
  <2>1. jobs[o] \in Job /\ jobs[o].state = "CLAIMED" /\ ~Fenced(jobs[o])
    BY <1>0, <1>4 DEF ClaimOwns, Fenced, HandlerOutcomeUnknown
  <2>2. RowOK(jobs[o], PublishedJob(claim, jobs[o]))
    BY <2>1 DEF RowOK, Job, PublishedJob, Terminal
  <2>3. RowOK(jobs[o], IndeterminateJob(claim, jobs[o]))
    BY <2>1 DEF RowOK, Job, IndeterminateJob, Terminal
  <2>4. RowOK(jobs[o], [DeadLetteredJob(jobs[o]) EXCEPT !.indeterminate_reason = None])
    BY <2>1 DEF RowOK, Job, DeadLetteredJob, Terminal
  <2>. QED
    BY <2>2, <2>3, <2>4
<1>5. CASE \E o \in Occ : ClaimJob(p, o)
  <2>1. PICK o \in Occ : ClaimJob(p, o)
    BY <1>5
  <2>2. jobs' = [jobs EXCEPT ![o] = ClaimedJob(jobs[o])]
    BY <2>1 DEF ClaimJob
  <2>3. RowOK(jobs[o], ClaimedJob(jobs[o]))
    BY <1>1, <2>1
  <2>. QED
    BY <1>0, <2>2, <2>3 DEF TypeOK
<1>6. CASE \E o \in Occ : ParkExhausted(p, o)
  <2>1. PICK o \in Occ : ParkExhausted(p, o)
    BY <1>6
  <2> DEFINE k == [jobs[o] EXCEPT !.state = "INDETERMINATE", !.due = FALSE,
                                  !.indeterminate_reason = "handler_outcome"]
  <2>2. jobs' = [jobs EXCEPT ![o] = k]
    BY <2>1 DEF ParkExhausted, TypeOK
  <2>3. RowOK(jobs[o], k)
    BY <1>2, <2>1
  <2>. HIDE DEF k
  <2>. QED
    BY <1>0, <2>2, <2>3 DEF TypeOK
<1>7. CASE \E o \in Occ : CancelReclaimable(p, o)
  BY <1>0, <1>3, <1>7 DEF CancelReclaimable, TypeOK
<1>8. CASE MarkPublished(p)
  <2>1. pub[p].claim \in Claim /\ pub[p].claim.copy.occ \in Occ
    BY <1>8, Carried DEF MarkPublished, Claim, Copy
  <2>. QED
    BY <1>0, <1>4, <1>8, <2>1 DEF MarkPublished, TypeOK
<1>9. CASE MarkPublishIndeterminate(p)
  <2>1. pub[p].claim \in Claim /\ pub[p].claim.copy.occ \in Occ
    BY <1>9, Carried DEF MarkPublishIndeterminate, Claim, Copy
  <2>. QED
    BY <1>0, <1>4, <1>9, <2>1 DEF MarkPublishIndeterminate, TypeOK
<1>10. CASE Publish(p) \/ RunnerFault(p)
  BY <1>0, <1>10 DEF Publish, RunnerFault, PublishRaises, RunnerCrash
<1>. QED
  BY <1>5, <1>6, <1>7, <1>8, <1>9, <1>10 DEF RunnerStep

\* No step touches a finished row.
KeepsTerminal == \A o \in Occ : jobs[o].state \in Terminal => jobs'[o] = jobs[o]

\* Listener steps that write no row: nobody becomes engaged.
LEMMA LocalFence ==
    ASSUME FenceInv, TypeOK', NEW c \in Consumers,
           \/ \E m \in wire : Receive(c, m) \/ ReceiveDuplicate(c, m)
           \/ AdmitRaises(c) \/ StartHandler(c)
           \/ DecodeRaises(c) \/ HandlerRaises(c) \/ ContinueRefused(c)
           \/ \E q \in Queues : ContinueProcessing(c, q)
           \/ \E result \in Results : ResultRefused(c, result)
           \/ CheckpointRaises(c) \/ PublishSettlement(c) \/ Restore(c)
           \/ Ack(c) \/ Crash(c) \/ PublishedThenCrash(c) \/ ReclaimFromSlow(c)
    PROVE  FenceInv' /\ KeepsTerminal
<1> USE DEF FenceInv
<1>1. UNCHANGED <<jobs, series>>
  BY DEF Receive, ReceiveDuplicate, AdmitRaises, StartHandler,
     DecodeRaises, HandlerRaises, ContinueRefused, ContinueProcessing,
     ResultRefused, CheckpointRaises, PublishSettlement, Restore, Ack, Crash,
     PublishedThenCrash, ReclaimFromSlow
<1>2. \A o \in Occ : RowOK(jobs[o], jobs'[o])
  BY <1>1, GoodRows DEF TypeOK
<1>3. con[c] \in Consumer /\ con \in [Consumers -> Consumer]
  BY DEF TypeOK
<1>4. \A d \in Consumers : Engaged(d)' => Engaged(d) /\ con'[d].msg = con[d].msg
  <2>1. CASE \E m \in wire : Receive(c, m) \/ ReceiveDuplicate(c, m)
    <3>1. PICK m : con' = [con EXCEPT ![c] = [Idle EXCEPT !.pc = "received", !.msg = m,
                                                        !.holds = TRUE]]
      BY <2>1 DEF Receive, ReceiveDuplicate
    <3>2. con'[c].pc = "received"
      BY <1>3, <3>1 DEF Idle
    <3>. QED
      BY <1>3, <3>1, <3>2 DEF Engaged
  <2>2. CASE Ack(c) \/ Crash(c) \/ PublishedThenCrash(c)
    <3>1. con' = [con EXCEPT ![c] = Idle]
      BY <2>2 DEF Ack, Crash, PublishedThenCrash
    <3>2. con'[c].pc = "idle"
      BY <1>3, <3>1 DEF Idle
    <3>. QED
      BY <1>3, <3>1, <3>2 DEF Engaged
  <2>3. CASE AdmitRaises(c) \/ PublishSettlement(c) \/ Restore(c)
    <3>1. /\ con'[c].pc \in {"restoring", "published", "acking"}
          /\ \A d \in Consumers \ {c} : con'[d] = con[d]
      BY <1>3, <2>3 DEF AdmitRaises, PublishSettlement, Restore, Consumer
    <3>. QED
      BY <3>1 DEF Engaged
  <2>4. CASE \/ StartHandler(c) \/ DecodeRaises(c)
             \/ HandlerRaises(c) \/ ContinueRefused(c)
             \/ \E result \in Results : ResultRefused(c, result)
    <3>1. con[c].pc \in {"admitted", "handling"}
      BY <2>4 DEF StartHandler, DecodeRaises, HandlerRaises,
         ContinueRefused, ResultRefused
    <3>2. con'[c].msg = con[c].msg /\ \A d \in Consumers \ {c} : con'[d] = con[d]
      BY <1>3, <2>4 DEF StartHandler, DecodeRaises, HandlerRaises,
         ContinueRefused, ResultRefused, Consumer
    <3>. QED
      BY <3>1, <3>2 DEF Engaged
  <2>5. CASE CheckpointRaises(c)
    <3>1. con'[c].pc = "restoring" /\ \A d \in Consumers \ {c} : con'[d] = con[d]
      BY <1>3, <2>5 DEF CheckpointRaises, Consumer
    <3>. QED
      BY <3>1 DEF Engaged
  <2>6. CASE \E q \in Queues : ContinueProcessing(c, q)
    <3>1. PICK q \in Queues : ContinueProcessing(c, q)
      BY <2>6
    <3> DEFINE x == [con[c].msg EXCEPT !.queue = q]
    <3>2. /\ con[c].pc = "handling"
          /\ con' = [con EXCEPT ![c].pc = "continuing", ![c].status = "CONTINUED",
                                ![c].out = x]
      BY <3>1 DEF ContinueProcessing
    <3>. HIDE DEF x
    <3>3. con'[c].msg = con[c].msg /\ \A d \in Consumers \ {c} : con'[d] = con[d]
      BY <1>3, <3>2 DEF Consumer
    <3>. QED
      BY <3>2, <3>3 DEF Engaged
  <2>7. CASE ReclaimFromSlow(c)
    <3>1. /\ con'[c].pc = con[c].pc /\ con'[c].msg = con[c].msg
          /\ \A d \in Consumers \ {c} : con'[d] = con[d]
      BY <1>3, <2>7 DEF ReclaimFromSlow, Consumer
    <3>. QED
      BY <3>1 DEF Engaged
  <2>. QED
    BY <2>1, <2>2, <2>3, <2>4, <2>5, <2>6, <2>7
<1>. QED
  BY <1>1, <1>2, <1>4, QuietStep DEF KeepsTerminal

LEMMA AdmitFence ==
    ASSUME FenceInv, TypeOK', NEW c \in Consumers,
           NEW registered \in BOOLEAN, Admit(c, registered)
    PROVE  FenceInv' /\ KeepsTerminal
<1> USE DEF FenceInv
<1> DEFINE m == con[c].msg
           j == jobs[m.occ]
           decision == Decision(j, m, CommandMax(registered))
<1>1. m \in Copy /\ m.occ \in Occ /\ j \in Job
  BY Carried DEF Admit, Copy, TypeOK
<1>2. /\ jobs' = [jobs EXCEPT ![m.occ] = JobAfter(decision, j, m, CommandMax(registered))]
      /\ con' = [con EXCEPT ![c].pc = PCAfter(decision, registered)]
      /\ UNCHANGED series
  BY DEF Admit
<1>3. con \in [Consumers -> Consumer] /\ con[c] \in Consumer /\ con[c].pc = "received"
  BY DEF TypeOK, Admit
<1>4. /\ \A d \in Consumers \ {c} : con'[d] = con[d]
      /\ con'[c].pc = PCAfter(decision, registered)
      /\ con'[c].msg = m
  BY <1>2, <1>3 DEF Consumer
<1>5. ~Engaged(c)
  BY <1>3 DEF Engaged
<1>6. \A d \in Consumers \ {c} : Engaged(d)' <=> Engaged(d)
  BY <1>4 DEF Engaged
<1>7. decision \in {"PROCEED", "DROP", "ABORT"}
  BY DEF Decision
<1>8. CASE decision # "PROCEED"
  <2>1. PCAfter(decision, registered) \in {"acking", "restoring"}
    BY <1>7, <1>8 DEF PCAfter
  <2>2. \A d \in Consumers : Engaged(d)' => Engaged(d) /\ con'[d].msg = con[d].msg
    BY <1>4, <1>6, <2>1 DEF Engaged
  <2>3. JobAfter(decision, j, m, CommandMax(registered)) = j
           \/ /\ JobAfter(decision, j, m, CommandMax(registered)) = Cancelled(j)
              /\ j.state \notin Terminal \cup {"absent"}
    <3>1. decision = "DROP" => j.state # "absent"
      BY DEF Decision
    <3>. HIDE DEF decision
    <3>. QED
      BY <1>8, <3>1 DEF JobAfter, Superseded
  <2>4. RowOK(j, JobAfter(decision, j, m, CommandMax(registered)))
    BY <1>1, <2>3, GoodRows
  <2>5. \A o \in Occ : RowOK(jobs[o], jobs'[o])
    <3>. HIDE DEF decision
    <3>. QED
      BY <1>1, <1>2, <2>4, GoodRows DEF TypeOK
  <2>6. KeepsTerminal
    BY <2>5 DEF KeepsTerminal, RowOK
  <2>. QED
    BY <1>2, <2>2, <2>5, <2>6, QuietStep
<1>9. CASE decision = "PROCEED"
  <2>1. /\ m.generation = j.generation
        /\ j.state \notin Terminal \cup {"absent", "RUNNING"}
        /\ ~HandlerOutcomeUnknown(j)
    <3>1. m.generation \in Nat /\ j.generation \in Nat
      BY <1>1 DEF Copy, Job
    <3>. QED
      BY <1>9, <3>1 DEF Decision, Superseded
  <2>2. ~Fenced(j)
    BY <2>1 DEF Fenced, Terminal
  <2> DEFINE k == AdmittedJob(j, CommandMax(registered))
  <2>3. jobs' = [jobs EXCEPT ![m.occ] = k]
    BY <1>2, <1>9 DEF JobAfter
  <2>4. k.state = "RUNNING" /\ k.generation = j.generation
    BY <1>1 DEF AdmittedJob, Job
  <2>5. PCAfter(decision, registered) \in {"admitted", "missing"}
    BY <1>9 DEF PCAfter
  <2>. HIDE DEF k, decision
  <2>6. /\ \A o \in Occ \ {m.occ} : jobs'[o] = jobs[o]
        /\ jobs'[m.occ] = k
    BY <1>1, <2>3 DEF TypeOK
  <2>7. ASSUME NEW d \in Consumers \ {c}, Engaged(d), con[d].msg.occ = m.occ
        PROVE  con[d].msg.generation < m.generation
    <3>1. con[d].msg.generation # j.generation
      BY <2>2, <2>7 DEF EngagedRowIsFenced
    <3>2. con[d].msg.generation <= j.generation
      BY <2>7 DEF EngagedIsNotAhead
    <3>3. con[d].msg.generation \in Nat /\ j.generation \in Nat
      BY <1>1, <2>7, Carried DEF Engaged, Copy, Job
    <3>. QED
      BY <2>1, <3>1, <3>2, <3>3
  <2>8. \A d \in Consumers : Engaged(d) => con[d].msg.occ \in Occ /\ con[d].msg.generation \in Nat
    BY Carried DEF Engaged, Copy
  <2>9. m.generation \in Nat
    BY <1>1 DEF Copy
  <2>10. SuccessorIsAbsent'
    BY <1>1, <1>2, <2>1, <2>6 DEF SuccessorIsAbsent
  <2>11. EngagedIsNotAhead'
    <3> SUFFICES ASSUME NEW d \in Consumers, Engaged(d)'
                 PROVE  /\ con'[d].msg.generation <= jobs'[con'[d].msg.occ].generation
                        /\ jobs'[con'[d].msg.occ].state # "absent"
      BY DEF EngagedIsNotAhead
    <3>1. CASE d = c
      BY <1>4, <2>1, <2>4, <2>6, <2>9, <3>1
    <3>2. CASE d # c /\ con[d].msg.occ = m.occ
      BY <1>4, <1>6, <2>1, <2>4, <2>6, <2>7, <2>8, <2>9, <3>2
    <3>3. CASE d # c /\ con[d].msg.occ # m.occ
      BY <1>4, <1>6, <2>6, <2>8, <3>3 DEF EngagedIsNotAhead
    <3>. QED
      BY <3>1, <3>2, <3>3
  <2>12. EngagedRowIsFenced'
    <3> SUFFICES ASSUME NEW d \in Consumers, Engaged(d)',
                        con'[d].msg.generation = jobs'[con'[d].msg.occ].generation
                 PROVE  Fenced(jobs'[con'[d].msg.occ])
      BY DEF EngagedRowIsFenced, Fenced, HandlerOutcomeUnknown
    <3>1. CASE d = c \/ con[d].msg.occ = m.occ
      BY <1>4, <2>4, <2>6, <3>1 DEF Fenced
    <3>2. CASE d # c /\ con[d].msg.occ # m.occ
      BY <1>4, <1>6, <2>6, <2>8, <3>2 DEF EngagedRowIsFenced
    <3>. QED
      BY <3>1, <3>2
  <2>13. OneHandlerPerGeneration'
    <3> SUFFICES ASSUME NEW d \in Consumers, NEW e \in Consumers, d # e,
                        Engaged(d)', Engaged(e)', con'[d].msg.occ = con'[e].msg.occ
                 PROVE  con'[d].msg.generation # con'[e].msg.generation
      BY DEF OneHandlerPerGeneration
    <3>1. CASE d = c
      BY <1>4, <1>6, <2>7, <2>8, <2>9, <3>1
    <3>2. CASE e = c
      BY <1>4, <1>6, <2>7, <2>8, <2>9, <3>2
    <3>3. CASE d # c /\ e # c
      BY <1>4, <1>6, <3>3 DEF OneHandlerPerGeneration
    <3>. QED
      BY <3>1, <3>2, <3>3
  <2>14. KeepsTerminal
    BY <2>1, <2>6 DEF KeepsTerminal
  <2>. QED
    BY <2>10, <2>11, <2>12, <2>13, <2>14
<1>. QED
  BY <1>8, <1>9

\* Settling a delivery: the listener lets go of its row.
LEMMA CheckpointFence ==
    ASSUME FenceInv, TypeOK', NEW c \in Consumers, Engaged(c),
           NEW out, NEW status, NEW max, Checkpoint(c, out, status, max)
    PROVE  FenceInv' /\ KeepsTerminal
<1> USE DEF FenceInv
<1> DEFINE m == con[c].msg
           j == jobs[m.occ]
           matches == CheckpointMatches(m, j, out, max)
           k == GuardedUpdate(j, matches, SettlingJob(j, out, status))
<1>1. m \in Copy /\ m.occ \in Occ /\ j \in Job
  BY Carried DEF Engaged, Copy, TypeOK
<1>2. con \in [Consumers -> Consumer] /\ con[c] \in Consumer
  BY DEF TypeOK
<1>3. /\ \A d \in Consumers \ {c} : con'[d] = con[d]
      /\ con'[c].pc \in {"settling", "restoring"}
  BY <1>2 DEF Checkpoint, Consumer
<1>5. jobs' = [jobs EXCEPT ![m.occ] = k] /\ UNCHANGED series
  BY DEF Checkpoint
<1>6. k = j \/ RowLeft(j, k, m)
  <2>1. CASE ~matches
    BY <2>1 DEF GuardedUpdate, Updatable
  <2>2. CASE matches
    <3>1. DeliveryOwns(m, j)
      BY <2>2 DEF CheckpointMatches
    <3>2. /\ Cancelled(j).generation = j.generation
          /\ Cancelled(j).state = "CANCELLED"
          /\ SettlingJob(j, out, status).generation = j.generation
          /\ SettlingJob(j, out, status).state = "SETTLING"
      BY <1>1 DEF Cancelled, SettlingJob, Job
    <3>. QED
      BY <3>1, <3>2 DEF GuardedUpdate, RowLeft
  <2>. QED
    BY <2>1, <2>2
<1>. HIDE DEF k, matches
<1>7. jobs'[m.occ] = k /\ \A o \in Occ \ {m.occ} : jobs'[o] = jobs[o]
  BY <1>1, <1>5 DEF TypeOK
<1>8. \A o \in Occ : jobs[o] \in Job /\ RowOK(jobs[o], jobs[o])
  BY GoodRows DEF TypeOK
<1>9. \A o \in Occ : \/ RowOK(jobs[o], jobs'[o])
                     \/ o = m.occ /\ RowLeft(jobs[o], jobs'[o], m)
  BY <1>6, <1>7, <1>8
<1>10. SuccessorIsAbsent'
  BY <1>5, <1>6, <1>7 DEF SuccessorIsAbsent, RowLeft, DeliveryOwns
<1>11. KeepsTerminal
  BY <1>6, <1>7 DEF KeepsTerminal, RowLeft, DeliveryOwns, Terminal
<1>12. LetsGo(c)
  BY <1>3, <1>9 DEF LetsGo, ConsumerPCs, EngagedPCs
<1>. HIDE DEF FenceInv
<1>. QED
  BY <1>10, <1>11, <1>12, LeaveStep

LEMMA ObserverFence ==
    ASSUME FenceInv, TypeOK', NEW c \in Consumers, ObserverRaises(c)
    PROVE  FenceInv' /\ KeepsTerminal
<1> USE DEF FenceInv
<1> DEFINE m == con[c].msg
           j == jobs[m.occ]
           matches == DeliveryOwns(m, j)
           released == [j EXCEPT !.state = "PUBLISHED", !.due = TRUE]
           k == GuardedUpdate(j, matches, released)
<1>0. Engaged(c)
  BY DEF ObserverRaises, Engaged
<1>1. m \in Copy /\ m.occ \in Occ /\ j \in Job
  BY <1>0, Carried DEF Engaged, Copy, TypeOK
<1>2. con \in [Consumers -> Consumer] /\ con[c] \in Consumer
  BY DEF TypeOK
<1>3. /\ \A d \in Consumers \ {c} : con'[d] = con[d]
      /\ con'[c].pc \in {"idle", "restoring"}
  <2>1. CASE con' = [con EXCEPT ![c].pc = "restoring"]
    BY <1>2, <2>1 DEF Consumer
  <2>2. CASE con' = [con EXCEPT ![c] = Idle]
    BY <1>2, <2>2 DEF Idle
  <2>. QED
    BY <2>1, <2>2 DEF ObserverRaises
<1>5. jobs' = [jobs EXCEPT ![m.occ] = k] /\ UNCHANGED series
  BY DEF ObserverRaises
<1>6. k = j \/ RowLeft(j, k, m)
  <2>1. /\ Cancelled(j).generation = j.generation
        /\ Cancelled(j).state = "CANCELLED"
        /\ released.generation = j.generation
        /\ released.state = "PUBLISHED"
    BY <1>1 DEF Cancelled, Job
  <2>. HIDE DEF released
  <2>. QED
    BY <2>1 DEF GuardedUpdate, Updatable, RowLeft
<1>. HIDE DEF k, matches
<1>7. jobs'[m.occ] = k /\ \A o \in Occ \ {m.occ} : jobs'[o] = jobs[o]
  BY <1>1, <1>5 DEF TypeOK
<1>8. \A o \in Occ : jobs[o] \in Job /\ RowOK(jobs[o], jobs[o])
  BY GoodRows DEF TypeOK
<1>9. \A o \in Occ : \/ RowOK(jobs[o], jobs'[o])
                     \/ o = m.occ /\ RowLeft(jobs[o], jobs'[o], m)
  BY <1>6, <1>7, <1>8
<1>10. SuccessorIsAbsent'
  BY <1>5, <1>6, <1>7 DEF SuccessorIsAbsent, RowLeft, DeliveryOwns
<1>11. KeepsTerminal
  BY <1>6, <1>7 DEF KeepsTerminal, RowLeft, DeliveryOwns, Terminal
<1>12. LetsGo(c)
  BY <1>0, <1>3, <1>9 DEF LetsGo, ConsumerPCs, EngagedPCs
<1>. HIDE DEF FenceInv
<1>. QED
  BY <1>10, <1>11, <1>12, LeaveStep

\* Success: the row is finished, and the successor's row was absent.
LEMMA SuccessFence ==
    ASSUME FenceInv, TypeOK', NEW c \in Consumers, NEW result, NEW over,
           CompleteSuccess(c, result, over)
    PROVE  FenceInv' /\ KeepsTerminal
<1> USE DEF FenceInv
<1> DEFINE m == con[c].msg
           owns == DeliveryOwns(m, jobs[m.occ])
           advances == Advances(result, over)
<1>0. Engaged(c) /\ con[c].pc = "handling"
  BY DEF CompleteSuccess, Engaged
<1>1. m \in Copy /\ m.occ \in Occ /\ jobs[m.occ] \in Job
  BY <1>0, Carried DEF Engaged, Copy, TypeOK
<1>2. con \in [Consumers -> Consumer] /\ con[c] \in Consumer
  BY DEF TypeOK
<1>3. /\ \A d \in Consumers \ {c} : con'[d] = con[d]
      /\ con'[c].pc = "acking"
  BY <1>2 DEF CompleteSuccess, Consumer
<1>5. \A o \in Occ : jobs'[o] =
         CASE owns /\ o = m.occ -> SucceededJob(jobs[o])
           [] owns /\ o # m.occ /\ advances /\ o = series.latest + 1 -> PendingJob
           [] OTHER -> jobs[o]
  BY DEF CompleteSuccess
<1>6. series' = IF owns THEN NextSeries(result, over) ELSE series
  BY DEF CompleteSuccess
<1>7. series.latest \in Nat /\ Occ \subseteq Nat
  BY ConstantFacts DEF TypeOK, Occ
<1>8. /\ owns /\ advances => series'.latest = series.latest + 1
      /\ ~(owns /\ advances) => series'.latest = series.latest
  BY <1>6 DEF NextSeries, Advances, TypeOK
<1>9. owns => RowLeft(jobs[m.occ], jobs'[m.occ], m)
  BY <1>1, <1>5 DEF RowLeft, SucceededJob, Job
<1>. HIDE DEF owns, advances
<1>10. \A o \in Occ : \/ jobs'[o] = jobs[o]
                      \/ o = m.occ /\ owns
                      \/ o = series.latest + 1 /\ owns /\ advances
  BY <1>5
<1>11. \A o \in Occ : o = series.latest + 1 => jobs[o].state = "absent"
  BY <1>7 DEF SuccessorIsAbsent
<1>12. \A o \in Occ : \/ RowOK(jobs[o], jobs'[o])
                      \/ o = m.occ /\ RowLeft(jobs[o], jobs'[o], m)
                      \/ jobs[o].state = "absent"
  <2>1. \A o \in Occ : RowOK(jobs[o], jobs[o])
    BY GoodRows DEF TypeOK
  <2>. QED
    BY <1>9, <1>10, <1>11, <2>1
<1>13. SuccessorIsAbsent'
  <2> SUFFICES ASSUME NEW o \in Occ, o > series'.latest PROVE jobs'[o].state = "absent"
    BY DEF SuccessorIsAbsent
  <2>1. o > series.latest
    BY <1>7, <1>8
  <2>2. jobs[o].state = "absent"
    BY <2>1 DEF SuccessorIsAbsent
  <2>3. ~(o = m.occ /\ owns)
    BY <2>2 DEF owns, DeliveryOwns
  <2>4. ~(o = series.latest + 1 /\ owns /\ advances)
    BY <1>7, <1>8
  <2>. QED
    BY <1>10, <2>2, <2>3, <2>4
<1>14. KeepsTerminal
  <2>1. owns => jobs[m.occ].state \notin Terminal
    BY DEF owns, DeliveryOwns, Terminal
  <2>. QED
    BY <1>10, <1>11, <2>1 DEF KeepsTerminal, Terminal
<1>15. LetsGo(c)
  BY <1>0, <1>3, <1>12 DEF LetsGo, ConsumerPCs, EngagedPCs
<1>. HIDE DEF FenceInv
<1>. QED
  BY <1>13, <1>14, <1>15, LeaveStep

\* A late outcome finds its row SETTLING, so nobody is engaged on it.
LEMMA OutcomeFence ==
    ASSUME FenceInv, TypeOK', NEW c \in Consumers, ApplyOutcome(c)
    PROVE  FenceInv' /\ KeepsTerminal
<1> USE DEF FenceInv
<1> DEFINE out == con[c].out
           j == jobs[out.occ]
           matches == OutcomeOwns(out, j)
           dead == [DeadLetteredJob(j) EXCEPT !.queue = out.queue]
           k == IF con[c].status = "DEAD_LETTERED"
                THEN IF matches THEN dead ELSE j
                ELSE GuardedUpdate(j, matches, OutcomeJob(j, out))
<1>1. out \in Copy /\ out.occ \in Occ /\ j \in Job
  BY Carried DEF ApplyOutcome, Copy, TypeOK
<1>2. con \in [Consumers -> Consumer] /\ con[c] \in Consumer
  BY DEF TypeOK
<1>3. \A d \in Consumers : Engaged(d)' => Engaged(d) /\ con'[d].msg = con[d].msg
  <2>1. con'[c].pc = "idle" /\ \A d \in Consumers \ {c} : con'[d] = con[d]
    BY <1>2 DEF ApplyOutcome, Idle
  <2>. QED
    BY <2>1 DEF Engaged
<1>4. jobs' = [jobs EXCEPT ![out.occ] = k]
  BY DEF ApplyOutcome
<1>5. RowOK(j, k)
  <2>1. CASE ~matches
    BY <1>1, <2>1, GoodRows DEF GuardedUpdate, Updatable
  <2>2. CASE matches
    <3>1. j.state = "SETTLING"
      BY <2>2 DEF OutcomeOwns
    <3>2. RowOK(j, Cancelled(j))
      BY <1>1, <3>1, GoodRows DEF Terminal
    <3>3. RowOK(j, OutcomeJob(j, out))
      BY <1>1, <3>1 DEF RowOK, OutcomeJob, Job, Fenced, HandlerOutcomeUnknown, Terminal
    <3>4. RowOK(j, dead)
      BY <1>1, <3>1 DEF RowOK, DeadLetteredJob, Job, Fenced, HandlerOutcomeUnknown, Terminal
    <3>5. RowOK(j, j)
      BY <1>1, GoodRows
    <3>. QED
      BY <3>2, <3>3, <3>4, <3>5 DEF GuardedUpdate
  <2>. QED
    BY <2>1, <2>2
<1>. HIDE DEF k
<1>6. \A o \in Occ : RowOK(jobs[o], jobs'[o])
  BY <1>1, <1>4, <1>5, GoodRows DEF TypeOK
<1>7. series'.latest = series.latest
  BY DEF ApplyOutcome, FailActiveSeries, TypeOK
<1>8. KeepsTerminal
  BY <1>6 DEF KeepsTerminal, RowOK
<1>. QED
  BY <1>3, <1>6, <1>7, <1>8, QuietStep

LEMMA RunnerFence ==
    ASSUME FenceInv, TypeOK', NEW p \in Publishers, RunnerStep(p) \/ RunnerFault(p)
    PROVE  FenceInv' /\ KeepsTerminal
<1> USE DEF FenceInv
<1>1. \A o \in Occ : RowOK(jobs[o], jobs'[o])
  BY RunnerRows
<1>2. UNCHANGED con
  BY DEF RunnerStep, RunnerFault, ClaimJob, ParkExhausted, CancelReclaimable,
     Publish, MarkPublished, MarkPublishIndeterminate, PublishRaises, RunnerCrash
<1>3. series'.latest = series.latest
  BY DEF RunnerStep, RunnerFault, ClaimJob, ParkExhausted, CancelReclaimable,
     Publish, MarkPublished, MarkPublishIndeterminate, PublishRaises, RunnerCrash,
     FailActiveSeries, TypeOK
<1>4. \A d \in Consumers : Engaged(d)' => Engaged(d) /\ con'[d].msg = con[d].msg
  BY <1>2 DEF Engaged
<1>5. KeepsTerminal
  BY <1>1 DEF KeepsTerminal, RowOK
<1>. QED
  BY <1>1, <1>3, <1>4, <1>5, QuietStep

LEMMA CancelFence ==
    ASSUME FenceInv, TypeOK', CancelRecurring
    PROVE  FenceInv' /\ KeepsTerminal
<1> USE DEF FenceInv
<1> DEFINE j == jobs[series.latest]
           k == IF CancelsRow(j) THEN Cancelled(j) ELSE j
<1>1. series.latest \in Occ /\ j \in Job
  BY DEF TypeOK
<1>2. RowOK(j, k)
  BY <1>1, GoodRows DEF CancelsRow, Terminal
<1>3. jobs' = [jobs EXCEPT ![series.latest] = k]
  BY DEF CancelRecurring
<1>. HIDE DEF k
<1>4. \A o \in Occ : RowOK(jobs[o], jobs'[o])
  BY <1>1, <1>2, <1>3, GoodRows DEF TypeOK
<1>5. series'.latest = series.latest
  BY DEF CancelRecurring, TypeOK
<1>6. \A d \in Consumers : Engaged(d)' => Engaged(d) /\ con'[d].msg = con[d].msg
  BY DEF CancelRecurring, Engaged
<1>7. KeepsTerminal
  BY <1>4 DEF KeepsTerminal, RowOK
<1>. QED
  BY <1>4, <1>5, <1>6, <1>7, QuietStep

LEMMA FenceStep ==
    ASSUME FenceInv, TypeOK', [Next]_vars
    PROVE  FenceInv' /\ KeepsTerminal
<1>1. CASE \E p \in Publishers : RunnerStep(p) \/ RunnerFault(p)
  BY <1>1, RunnerFence
<1>2. ASSUME NEW c \in Consumers, ListenerStep(c) \/ ListenerFault(c)
      PROVE  FenceInv' /\ KeepsTerminal
  <2>1. CASE \E registered \in Deployments : Admit(c, registered)
    BY <2>1, AdmitFence, ConstantFacts
  <2>2. CASE ApplyOutcome(c)
    BY <2>2, OutcomeFence
  <2>3. CASE ObserverRaises(c)
    BY <2>3, ObserverFence
  <2>4. CASE \E result \in Results, over \in BOOLEAN : CompleteSuccess(c, result, over)
    BY <2>4, SuccessFence
  <2>5. CASE CheckpointRetry(c)
    <3>1. Engaged(c)
      BY <2>5 DEF CheckpointRetry, Retries, Engaged
    <3>. QED
      BY <2>5, <3>1, CheckpointFence DEF CheckpointRetry
  <2>6. CASE CheckpointDeadLetter(c)
    <3>1. Engaged(c)
      BY <2>6 DEF CheckpointDeadLetter, Engaged
    <3>. QED
      BY <2>6, <3>1, CheckpointFence DEF CheckpointDeadLetter
  <2>7. CASE CheckpointContinue(c)
    <3>1. Engaged(c)
      BY <2>7 DEF CheckpointContinue, Engaged
    <3>. QED
      BY <2>7, <3>1, CheckpointFence DEF CheckpointContinue
  <2>8. CASE \/ \E m \in wire : Receive(c, m) \/ ReceiveDuplicate(c, m)
             \/ AdmitRaises(c) \/ StartHandler(c)
             \/ DecodeRaises(c) \/ HandlerRaises(c) \/ ContinueRefused(c)
             \/ \E q \in Queues : ContinueProcessing(c, q)
             \/ \E result \in Results : ResultRefused(c, result)
             \/ CheckpointRaises(c) \/ PublishSettlement(c) \/ Restore(c)
             \/ Ack(c) \/ Crash(c) \/ PublishedThenCrash(c) \/ ReclaimFromSlow(c)
    BY <2>8, LocalFence
  <2>. QED
    BY <1>2, <2>1, <2>2, <2>3, <2>4, <2>5, <2>6, <2>7, <2>8
    DEF ListenerStep, ListenerFault, HandlerStep
<1>3. CASE CancelRecurring
  BY <1>3, CancelFence
<1>4. CASE UNCHANGED vars
  <2>1. KeepsTerminal
    BY <1>4 DEF vars, KeepsTerminal
  <2>2. \A o \in Occ : RowOK(jobs[o], jobs'[o])
    BY <1>4, GoodRows DEF vars, FenceInv, TypeOK
  <2>3. \A d \in Consumers : Engaged(d)' => Engaged(d) /\ con'[d].msg = con[d].msg
    BY <1>4 DEF vars, Engaged
  <2>4. series'.latest = series.latest
    BY <1>4 DEF vars
  <2>. QED
    BY <2>1, <2>2, <2>3, <2>4, QuietStep
<1>. QED
  BY <1>1, <1>2, <1>3, <1>4 DEF Next

LEMMA FenceInit == Init => FenceInv
<1> SUFFICES ASSUME Init PROVE FenceInv
  OBVIOUS
<1>1. TypeOK
  BY TypeInit
<1>2. \A c \in Consumers : ~Engaged(c)
  BY DEF Init, Idle, Engaged
<1>3. SuccessorIsAbsent
  BY ConstantFacts DEF Init, SuccessorIsAbsent, AbsentJob, Occ
<1>. QED
  BY <1>1, <1>2, <1>3 DEF FenceInv, EngagedIsNotAhead, EngagedRowIsFenced,
     OneHandlerPerGeneration

\* The strengthened invariant that carries the three theorems below.
LEMMA FenceInductive == Spec => []FenceInv
<1>1. FenceInv /\ TypeOK' /\ [Next]_vars => FenceInv'
  BY FenceStep
<1>. QED
  BY <1>1, FenceInit, TypeCorrect, PTL DEF Spec

\* Fencing: whatever the transport duplicates, whatever deadlines pass and
\* whichever threads die, admit_delivery and claim never let two listeners be
\* engaged on one occurrence at one generation.
THEOREM Fencing == Spec => []OneHandlerPerGeneration
<1>1. FenceInv => OneHandlerPerGeneration
  BY DEF FenceInv
<1>. QED
  BY <1>1, FenceInductive, PTL

\* The row of an engaged listener cannot be admitted again at its generation.
THEOREM EngagedFenced == Spec => []EngagedRowIsFenced
<1>1. FenceInv => EngagedRowIsFenced
  BY DEF FenceInv
<1>. QED
  BY <1>1, FenceInductive, PTL

\* Every write of store.py leaves a finished row alone: late publication
\* marks, late outcomes, cancellations and polls are no-ops on it.
THEOREM TerminalStays == Spec => TerminalIsFinal
<1>1. FenceInv /\ TypeOK' /\ [Next]_vars
         => [\A o \in Occ : jobs[o].state \in Terminal => jobs'[o] = jobs[o]]_vars
  BY FenceStep DEF KeepsTerminal
<1>. QED
  BY <1>1, FenceInductive, TypeCorrect, PTL DEF Spec, TerminalIsFinal
=============================================================================
