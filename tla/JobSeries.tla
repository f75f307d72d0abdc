----------------------------- MODULE JobSeries ------------------------------
(***************************************************************************)
(* schedule_command and the life of a series (bus.py, store.py): clients   *)
(* schedule one-off and recurring jobs under ONE idempotency key, in       *)
(* transactions that may still be rolled back; the occurrences of the      *)
(* series succeed, one after the other, at instants that the clock gives.  *)
(*                                                                         *)
(* How an occurrence is delivered is the subject of DurableJob; here it    *)
(* runs and succeeds at any time from its available_at on.                 *)
(***************************************************************************)
EXTENDS Recurrence

CONSTANTS
    Clients,
    Workloads,   \* bound.  What a behaviour is about: by client, the arguments of
                 \* schedule_command it may choose, [payload, run_at, recurrence]
    Leads,       \* how far ahead a handler asks for its next occurrence
    CallBy,      \* bound: the last instant at which a call begins
    Horizon      \* bound: the last instant of the clock

\* A request has passed the checks of schedule_command and of Recurrence.
ASSUME SeriesAssumption ==
    /\ Horizon \in Nat /\ Leads \subseteq Int
    /\ \A w \in Workloads : \A c \in Clients : \A request \in w[c] :
          /\ request.run_at \in Nat \cup {None}
          /\ request.recurrence \in Recurrences \cup {None}

VARIABLES
    workload,    \* one of Workloads, which never changes
    clock,
    client,      \* by client: where its call is, its request, available_at of the
                 \* draft, and its result: the client whose rows the handle names
    jobRows,     \* the clients that inserted a DurableJob row with the key
    seriesRows,  \* the clients that inserted a JobSeries row with the key
    committed,   \* the clients whose transaction is committed
    series       \* the life of the committed series, or None

vars == <<workload, clock, client, jobRows, seriesRows, committed, series>>

NoRequest == [pc |-> "idle", request |-> None, at |-> None, result |-> None]

Init ==
    /\ workload \in Workloads
    /\ clock = 0
    /\ client = [c \in Clients |-> NoRequest]
    /\ jobRows = {} /\ seriesRows = {} /\ committed = {}
    /\ series = None
-----------------------------------------------------------------------------
(* schedule_command, schedule and schedule_recurring.                      *)

\* normalized_run_at
RunAt(request, now) == IF request.run_at = None THEN now ELSE request.run_at

\* run_at must be before ends_at.
Acceptable(request, now) ==
    request.recurrence # None /\ request.recurrence.ends # None =>
        RunAt(request, now) < request.recurrence.ends

\* Mutant of Fingerprint: the time of the call is part of it.
FingerprintTimed(c) == <<client[c].request, client[c].at>>

\* Everything the caller passed; a run_at that was left out stays out.
Fingerprint(c) == client[c].request

Call(c, request) ==
    /\ client[c].pc = "idle"
    /\ clock <= CallBy
    /\ Acceptable(request, clock)
    /\ client' = [client EXCEPT ![c] =
            [pc |-> IF request.recurrence = None THEN "job" ELSE "series",
             request |-> request, at |-> RunAt(request, clock), result |-> None]]
    /\ UNCHANGED <<clock, jobRows, seriesRows, committed, series>>

\* An INSERT with the unique key: it waits for an open transaction that has
\* inserted the key, and fails if a committed row has it.
Free(rows) == rows = {}
Taken(rows) == rows \cap committed # {}

InsertSeries(c) ==
    /\ client[c].pc = "series"
    /\ Free(seriesRows)
    /\ seriesRows' = seriesRows \cup {c}
    /\ client' = [client EXCEPT ![c].pc = "job"]
    /\ UNCHANGED <<clock, jobRows, committed, series>>

\* Mutant of InsertJob: the first occurrence of a series goes without the key.
InsertJobKeyless(c) ==
    /\ client[c].pc = "job"
    /\ client[c].request.recurrence # None \/ Free(jobRows)
    /\ jobRows' = IF client[c].request.recurrence # None THEN jobRows ELSE jobRows \cup {c}
    /\ client' = [client EXCEPT ![c].pc = "inserted", ![c].result = c]
    /\ UNCHANGED <<clock, seriesRows, committed, series>>

InsertJob(c) ==
    /\ client[c].pc = "job"
    /\ Free(jobRows)
    /\ jobRows' = jobRows \cup {c}
    /\ client' = [client EXCEPT ![c].pc = "inserted", ![c].result = c]
    /\ UNCHANGED <<clock, seriesRows, committed, series>>

\* IntegrityError: the block is rolled back, the series of it included.
InsertFails(c) ==
    /\ \/ client[c].pc = "series" /\ Taken(seriesRows)
       \/ client[c].pc = "job" /\ Taken(jobRows)
    /\ seriesRows' = seriesRows \ {c}
    /\ client' = [client EXCEPT ![c].pc = "lookup"]
    /\ UNCHANGED <<clock, jobRows, committed, series>>

\* The row of the key and its fingerprint.  A one-off call finds the first
\* occurrence of a series among the jobs, with the fingerprint of the series.
Lookup(c) ==
    LET rows == committed \cap (IF client[c].request.recurrence = None
                                THEN jobRows ELSE seriesRows)
        same == {d \in rows : Fingerprint(d) = Fingerprint(c)}
    IN  /\ client[c].pc = "lookup"
        /\ client' = [client EXCEPT ![c].pc = IF same = {} THEN "conflict" ELSE "found",
                                    ![c].result = IF same = {} THEN None
                                                  ELSE CHOOSE d \in same : TRUE]
        /\ UNCHANGED <<clock, jobRows, seriesRows, committed, series>>

\* The transaction of the caller ends.
Commit(c) ==
    /\ client[c].pc = "inserted"
    /\ committed' = committed \cup {c}
    /\ client' = [client EXCEPT ![c].pc = "scheduled"]
    /\ series' = IF c \notin seriesRows THEN series
                 ELSE [state |-> "active", recurrence |-> client[c].request.recurrence,
                       starts |-> client[c].at, run |-> client[c].at, by |-> "start"]
    /\ UNCHANGED <<clock, jobRows, seriesRows>>

Rollback(c) ==
    /\ client[c].pc = "inserted"
    /\ jobRows' = jobRows \ {c}
    /\ seriesRows' = seriesRows \ {c}
    /\ client' = [client EXCEPT ![c] = NoRequest]
    /\ UNCHANGED <<clock, committed, series>>
-----------------------------------------------------------------------------
(* complete_recurring_success and cancel_recurring.                        *)

Running ==
    /\ series # None
    /\ series.state = "active"
    /\ series.run <= clock

Finished(state) == [series EXCEPT !.state = state]

\* Mutant of Ended: ends_at itself still counts.
EndedInclusive(at) == series.recurrence.ends # None /\ at > series.recurrence.ends

Ended(at) == series.recurrence.ends # None /\ at >= series.recurrence.ends

\* The handler returned None.
CompleteNone ==
    LET next == NextCadenceAt(series.recurrence, series.starts, clock)
    IN  /\ Running
        /\ series' = IF next = None THEN Finished("completed")
                     ELSE [series EXCEPT !.run = next, !.by = "cadence"]
        /\ UNCHANGED <<clock, client, jobRows, seriesRows, committed>>

\* It returned ScheduleNextOccurrence(at); an instant that is not in the future
\* is refused and leaves the occurrence to be retried.
CompleteNext(lead) ==
    LET next == clock + lead
    IN  /\ Running
        /\ lead > 0
        /\ series' = IF Ended(next) THEN Finished("completed")
                     ELSE [series EXCEPT !.run = next, !.by = "handler"]
        /\ UNCHANGED <<clock, client, jobRows, seriesRows, committed>>

\* It returned EndRecurrence.
CompleteEnd ==
    /\ Running
    /\ series' = Finished("completed")
    /\ UNCHANGED <<clock, client, jobRows, seriesRows, committed>>

Cancel ==
    /\ series # None
    /\ series.state = "active"
    /\ series' = Finished("cancelled")
    /\ UNCHANGED <<clock, client, jobRows, seriesRows, committed>>

Tick ==
    /\ clock < Horizon
    /\ clock' = clock + 1
    /\ UNCHANGED <<client, jobRows, seriesRows, committed, series>>

Next ==
    /\ \/ \E c \in Clients :
             \/ \E request \in workload[c] : Call(c, request)
             \/ InsertSeries(c) \/ InsertJob(c) \/ InsertFails(c) \/ Lookup(c)
             \/ Commit(c) \/ Rollback(c)
       \/ CompleteNone \/ CompleteEnd \/ Cancel
       \/ \E lead \in Leads : CompleteNext(lead)
       \/ Tick
    /\ UNCHANGED workload

Spec == Init /\ [][Next]_vars
-----------------------------------------------------------------------------
(* Properties.                                                             *)

PCs == {"idle", "series", "job", "inserted", "scheduled", "lookup", "found", "conflict"}

\* Every row and every call holds values of its kind; a series has a next run
\* before its end.
TypeOK ==
    /\ clock \in 0..Horizon
    /\ \A c \in Clients :
          /\ DOMAIN client[c] = {"pc", "request", "at", "result"}
          /\ client[c].pc \in PCs
          /\ client[c].request \in workload[c] \cup {None}
          /\ client[c].at \in Nat \cup {None}
          /\ client[c].result \in Clients \cup {None}
    /\ jobRows \subseteq Clients /\ seriesRows \subseteq Clients /\ committed \subseteq Clients
    /\ series # None =>
          /\ series.state \in {"active", "completed", "cancelled"}
          /\ series.recurrence.ends # None => series.run < series.recurrence.ends

Successful == {c \in Clients : client[c].pc \in {"scheduled", "found"}}

\* A key identifies one job or one series, however calls and their transactions
\* interleave: calls that succeed asked for the same thing and got the same
\* lineage, and none of them was rolled back.
OneJobPerKey ==
    \A c, d \in Successful :
        /\ client[c].request = client[d].request
        /\ client[c].result = client[d].result
        /\ client[c].result \in committed

\* A repeated call is answered: one that asks for what a committed call asked
\* for does not end in a conflict, whenever it is made.
SameRequestIsFound ==
    \A c, d \in Clients :
        client[c].pc = "conflict" /\ d \in committed => client[c].request # client[d].request

\* The slots of the series that a gap does not move to another day, among the
\* instants from u to v.
Slots(u, v) ==
    LET z == series.recurrence.zone
        anchor == Local(z, series.starts)
        walls == {w \in Local(z, u) - DayLength..Local(z, v) + DayLength :
                    IsSlot(series.recurrence.cadence, anchor, w)}
    IN  {s \in u..v : \E w \in walls : IsInstantOf(z, s, w) /\ Date(Local(z, s)) = Date(w)}

\* "Successful None creates the first anchored slot strictly after completion,
\* skipping missed slots" (api-contract.md:502-504), before the exclusive ends_at:
\* whatever the delay, no slot lies between the completion and the next run, and a
\* series ends only when no slot is left.  A slot that a timezone gap moves to the
\* following day is the exception: next_cadence_at starts from the index of that day.
NextIsFirstSlot ==
    [][CompleteNone =>
          LET last == IF series'.state = "active" THEN series'.run - 1
                      ELSE series.recurrence.ends - 1
          IN  Slots(clock + 1, last) = {}]_vars

\* "preserve the first run's local wall-clock anchor.  Monthly schedules clamp
\* missing days without drift; timezone gaps move forward by the transition gap and
\* folds choose the earlier instant" (api-contract.md:500-502): every run that the
\* cadence has chosen is the instant of a slot of the first run, also after runs at
\* times that handlers chose.
KeepsWallClock ==
    series # None /\ series.by = "cadence" =>
        LET z == series.recurrence.zone
        IN  \E wall \in Local(z, series.run) - DayLength..Local(z, series.run) :
                /\ IsSlot(series.recurrence.cadence, Local(z, series.starts), wall)
                /\ IsInstantOf(z, series.run, wall)
=============================================================================
