---------------------------- MODULE MCJobSeries -----------------------------
(* Values of JobSeries' constants for TLC.                                 *)
EXTENDS JobSeries, TLC

CONSTANTS p1, p2, a, b, c

RunMonths == <<3, 2>>

\* No transition; half a day forward and back, at several times of the day.
RunZones ==
    {[before |-> 0, after |-> 0, at |-> 0]}
    \cup {[before |-> 0, after |-> 2, at |-> t] : t \in {9, 10, 12}}
    \cup {[before |-> 2, after |-> 0, at |-> t] : t \in {9, 10, 12}}

Recur(cadence, zone, ends) == [cadence |-> cadence, zone |-> zone, ends |-> ends]
Ask(p, at, recurrence) == [payload |-> p, run_at |-> at, recurrence |-> recurrence]

UTC == [before |-> 0, after |-> 0, at |-> 0]

Daily == Ask(p1, None, Recur("daily", UTC, None))

\* One client and a series with any cadence, zone and time of the first run; or
\* clients that contend for the key with the same and with different jobs.
RunWorkloads ==
    {(a :> {Ask(p1, t, Recur(k, z, e)) :
               t \in {1, 2, 3, 7}, k \in Cadences, z \in RunZones, e \in {None, 22}})
     @@ (b :> {}) @@ (c :> {}),
     (a :> {Daily}) @@ (b :> {Daily, Ask(p2, None, None)}) @@ (c :> {Ask(p1, None, None)})}
=============================================================================
