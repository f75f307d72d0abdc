---------------------------- MODULE JobLifecycle ----------------------------
(***************************************************************************)
(* What the durable-job machinery promises the caller of a lineage, with   *)
(* no database, transport, generation, lease or crash in it: occurrences   *)
(* run one after the other, an attempt that may have had its effect is not *)
(* repeated once it is parked, and the fate of an occurrence and of its    *)
(* series are decided in the same step.                                    *)
(*                                                                         *)
(* DurableJobRefinement shows that DurableJob implements it.               *)
(***************************************************************************)
EXTENDS Naturals

CONSTANTS
    MaxOcc,    \* bound: occurrences of the series
    None       \* the state of the series of a one-off job

VARIABLES
    status,    \* by occurrence
    series     \* the state of the series and its latest occurrence

vars == <<status, series>>

Occ == 1..MaxOcc

Finished == {"succeeded", "dead", "cancelled"}
Statuses == {"absent", "waiting", "running", "parked"} \cup Finished

TypeOK ==
    /\ status \in [Occ -> Statuses]
    /\ series \in [state: {None, "ACTIVE", "CANCELLED", "COMPLETED", "FAILED"},
                   latest: Occ]

Init ==
    /\ status = [o \in Occ |-> IF o = 1 THEN "waiting" ELSE "absent"]
    /\ series \in [state: {None, "ACTIVE"}, latest: {1}]
-----------------------------------------------------------------------------
Moves(o, from, to) ==
    /\ status[o] = from
    /\ status' = [status EXCEPT ![o] = to]

\* A one-off job, or a series that has not ended.
Open == series.state \in {None, "ACTIVE"}

\* Only an open lineage starts an attempt, and only of its latest occurrence.
Run(o) ==
    /\ Open
    /\ o = series.latest
    /\ Moves(o, "waiting", "running")
    /\ UNCHANGED series

\* The attempt ended without success: what waits is another attempt, a
\* continuation or the dead letter.  Nothing waits once the series has ended.
Return(o) ==
    /\ Open
    /\ Moves(o, "running", "waiting")
    /\ UNCHANGED series

\* The last attempt is left for an operator: nobody knows whether it had its
\* effect.
Park(o) ==
    /\ Open
    /\ Moves(o, "running", "parked")
    /\ UNCHANGED series

\* Success and the next occurrence, or the end of the series, are one step.
Succeed(o) ==
    /\ status[o] = "running"
    /\ \/ /\ series.state # "ACTIVE"
          /\ status' = [status EXCEPT ![o] = "succeeded"]
          /\ UNCHANGED series
       \/ /\ series.state = "ACTIVE"
          /\ status' = [status EXCEPT ![o] = "succeeded"]
          /\ series' = [series EXCEPT !.state = "COMPLETED"]
       \/ /\ series.state = "ACTIVE"
          /\ o + 1 \in Occ
          /\ status' = [status EXCEPT ![o] = "succeeded", ![o + 1] = "waiting"]
          /\ series' = [series EXCEPT !.latest = o + 1]

\* The dead letter is published and fails its series.
DeadLetter(o) ==
    /\ Moves(o, "waiting", "dead")
    /\ series' = IF series.state = "ACTIVE" THEN [series EXCEPT !.state = "FAILED"] ELSE series

\* A cancellation takes what is not running; a running attempt may succeed.
CancelSeries ==
    /\ series.state = "ACTIVE"
    /\ series' = [series EXCEPT !.state = "CANCELLED"]
    /\ status' = [status EXCEPT ![series.latest] =
                     IF @ \in {"waiting", "parked"} THEN "cancelled" ELSE @]

\* The attempt that was running when its series was cancelled did not succeed.
CancelAttempt(o) ==
    /\ series.state = "CANCELLED"
    /\ Moves(o, "running", "cancelled")
    /\ UNCHANGED series

Next ==
    \/ \E o \in Occ : Run(o) \/ Return(o) \/ Park(o) \/ Succeed(o)
                      \/ DeadLetter(o) \/ CancelAttempt(o)
    \/ CancelSeries

Spec == Init /\ [][Next]_vars
=============================================================================
