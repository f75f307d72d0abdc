-------------------------- MODULE JobSeriesProofs ---------------------------
(***************************************************************************)
(* Proofs about JobSeries, for any number of clients and any requests: the *)
(* idempotency key, and the runs that next_cadence_at chooses, for any     *)
(* calendar and any transition of the zone.                                *)
(***************************************************************************)
EXTENDS JobSeries, WellFoundedInduction, TLAPS

(***************************************************************************)
(* Which rows exist is a function of where the calls are, and at most one  *)
(* row of each table has the key, committed or not.  A call that is past   *)
(* its INSERT has met a committed row, so nobody inserts any more; and the *)
(* row that it found asked for the same.                                   *)
(***************************************************************************)
Asked == UNION {UNION {w[c] : c \in Clients} : w \in Workloads}
Calls == [pc: PCs, request: Asked \cup {None},
          at: {request.run_at : request \in Asked} \cup Nat \cup {None},
          result: Clients \cup {None}]

At(c, pcs) == client[c].pc \in pcs

CallsOK ==
    /\ workload \in Workloads /\ clock \in Nat
    /\ client \in [Clients -> Calls]
    /\ \A c \in Clients : At(c, {"series"}) => client[c].request.recurrence # None
    /\ \A c \in Clients : At(c, {"inserted", "scheduled"}) => client[c].result = c

RowsOK ==
    /\ jobRows = {c \in Clients : At(c, {"inserted", "scheduled"})}
    /\ seriesRows = {c \in Clients : /\ At(c, {"job", "inserted", "scheduled"})
                                     /\ client[c].request.recurrence # None}
    /\ committed = {c \in Clients : At(c, {"scheduled"})}

KeyIsUnique ==
    /\ \A c, d \in jobRows : c = d
    /\ \A c, d \in seriesRows : c = d

AnswersOK ==
    /\ \A c \in Clients : At(c, {"lookup", "found", "conflict"}) => committed # {}
    /\ \A c \in Clients : At(c, {"found"}) =>
          /\ client[c].result \in committed
          /\ client[client[c].result].request = client[c].request

KeyInv == CallsOK /\ RowsOK /\ KeyIsUnique /\ AnswersOK /\ SameRequestIsFound
-----------------------------------------------------------------------------
LEMMA CallGoes ==
    ASSUME KeyInv, NEW c \in Clients, NEW s \in Calls,
           client' = [client EXCEPT ![c] = s]
    PROVE  /\ client' \in [Clients -> Calls]
           /\ client'[c] = s
           /\ \A d \in Clients \ {c} : client'[d] = client[d]
  BY DEF KeyInv, CallsOK

LEMMA CallStep ==
    ASSUME KeyInv, NEW c \in Clients, NEW request \in workload[c], Call(c, request),
           UNCHANGED workload
    PROVE  KeyInv'
<1> DEFINE s == [pc |-> IF request.recurrence = None THEN "job" ELSE "series",
                 request |-> request, at |-> RunAt(request, clock), result |-> None]
<1>0. CallsOK /\ RowsOK /\ KeyIsUnique /\ AnswersOK /\ SameRequestIsFound
  BY DEF KeyInv
<1>1. s \in Calls
  <2>1. request \in Asked /\ clock \in Nat
    BY <1>0 DEF Asked, CallsOK
  <2>2. RunAt(request, clock) \in {q.run_at : q \in Asked} \cup Nat \cup {None}
    BY <2>1 DEF RunAt
  <2>. QED
    BY <2>1, <2>2 DEF Calls, PCs
<1>2. /\ client' = [client EXCEPT ![c] = s] /\ client[c].pc = "idle"
      /\ UNCHANGED <<workload, clock, jobRows, seriesRows, committed>>
  BY DEF Call
<1>3. /\ s.pc \in {"job", "series"} /\ s.request = request
      /\ (s.pc = "job" <=> request.recurrence = None)
  OBVIOUS
<1>. HIDE DEF s
<1>4. /\ client' \in [Clients -> Calls] /\ client'[c] = s
      /\ \A d \in Clients \ {c} : client'[d] = client[d]
  BY <1>1, <1>2, CallGoes
<1>5. CallsOK'
  BY <1>0, <1>2, <1>3, <1>4 DEF CallsOK, At
<1>6. RowsOK'
  BY <1>0, <1>2, <1>3, <1>4 DEF RowsOK, At
<1>7. KeyIsUnique'
  BY <1>0, <1>2 DEF KeyIsUnique
<1>8. c \notin committed
  BY <1>0, <1>2 DEF RowsOK, At
<1>9. AnswersOK'
  <2>1. \A d \in Clients : At(d, {"lookup", "found", "conflict"})' => committed' # {}
    BY <1>0, <1>2, <1>3, <1>4 DEF AnswersOK, At
  <2>2. committed \subseteq Clients
    BY <1>0 DEF RowsOK
  <2>. QED
    BY <1>0, <1>2, <1>3, <1>4, <1>8, <2>1, <2>2 DEF AnswersOK, At
<1>10. SameRequestIsFound'
  BY <1>0, <1>2, <1>3, <1>4, <1>8 DEF SameRequestIsFound
<1>. QED
  BY <1>5, <1>6, <1>7, <1>9, <1>10 DEF KeyInv

LEMMA InsertStep ==
    ASSUME KeyInv, NEW c \in Clients, InsertSeries(c) \/ InsertJob(c), UNCHANGED workload
    PROVE  KeyInv'
<1>0. /\ CallsOK /\ RowsOK /\ KeyIsUnique /\ AnswersOK /\ SameRequestIsFound
      /\ client \in [Clients -> Calls]
  BY DEF KeyInv, CallsOK
<1>1. PICK s \in Calls :
         /\ client' = [client EXCEPT ![c] = s] /\ s.request = client[c].request
         /\ \/ InsertSeries(c) /\ s.pc = "job"
            \/ InsertJob(c) /\ s.pc = "inserted" /\ s.result = c
  <2>1. CASE InsertSeries(c)
    <3> DEFINE s == [client[c] EXCEPT !.pc = "job"]
    <3>1. s \in Calls /\ s.request = client[c].request /\ s.pc = "job"
      BY <1>0 DEF Calls, PCs
    <3>2. client' = [client EXCEPT ![c] = s]
      BY <1>0, <2>1 DEF InsertSeries
    <3>. QED
      BY <2>1, <3>1, <3>2
  <2>2. CASE InsertJob(c)
    <3> DEFINE s == [client[c] EXCEPT !.pc = "inserted", !.result = c]
    <3>1. s \in Calls /\ s.request = client[c].request /\ s.pc = "inserted" /\ s.result = c
      BY <1>0 DEF Calls, PCs
    <3>2. client' = [client EXCEPT ![c] = s]
      BY <1>0, <2>2 DEF InsertJob
    <3>. QED
      BY <2>2, <3>1, <3>2
  <2>. QED
    BY <2>1, <2>2
<1>2. /\ client' \in [Clients -> Calls] /\ client'[c] = s
      /\ \A d \in Clients \ {c} : client'[d] = client[d]
  BY <1>1, CallGoes
<1>3. /\ UNCHANGED <<workload, clock, committed>> /\ client[c].pc \in {"series", "job"}
      /\ c \notin committed /\ committed \subseteq Clients
  BY <1>0, <1>1 DEF InsertSeries, InsertJob, RowsOK, At
<1>4. CallsOK'
  BY <1>0, <1>1, <1>2, <1>3 DEF CallsOK, At
<1>5. RowsOK' /\ KeyIsUnique'
  <2>1. CASE InsertSeries(c) /\ s.pc = "job"
    <3>1. /\ client[c].pc = "series" /\ seriesRows = {} /\ seriesRows' = {c} /\ jobRows' = jobRows
          /\ client[c].request.recurrence # None
      BY <1>0, <2>1 DEF InsertSeries, Free, CallsOK, At
    <3>. QED
      BY <1>0, <1>1, <1>2, <1>3, <2>1, <3>1 DEF RowsOK, KeyIsUnique, At
  <2>2. CASE InsertJob(c) /\ s.pc = "inserted"
    <3>1. /\ client[c].pc = "job" /\ jobRows = {} /\ jobRows' = {c} /\ seriesRows' = seriesRows
      BY <1>0, <2>2 DEF InsertJob, Free
    <3>. QED
      BY <1>0, <1>1, <1>2, <1>3, <2>2, <3>1 DEF RowsOK, KeyIsUnique, At
  <2>. QED
    BY <1>1, <2>1, <2>2
<1>6. AnswersOK'
  BY <1>0, <1>1, <1>2, <1>3 DEF AnswersOK, At
<1>7. SameRequestIsFound'
  BY <1>0, <1>1, <1>2, <1>3 DEF SameRequestIsFound
<1>. QED
  BY <1>4, <1>5, <1>6, <1>7 DEF KeyInv

LEMMA InsertFailsStep ==
    ASSUME KeyInv, NEW c \in Clients, InsertFails(c), UNCHANGED workload
    PROVE  KeyInv'
<1> DEFINE s == [client[c] EXCEPT !.pc = "lookup"]
<1>0. /\ CallsOK /\ RowsOK /\ KeyIsUnique /\ AnswersOK /\ SameRequestIsFound
      /\ client \in [Clients -> Calls]
  BY DEF KeyInv, CallsOK
<1>1. s \in Calls /\ s.request = client[c].request /\ s.pc = "lookup"
  BY <1>0 DEF Calls, PCs
<1>2. client' = [client EXCEPT ![c] = s]
  BY <1>0 DEF InsertFails
<1>. HIDE DEF s
<1>3. /\ client' \in [Clients -> Calls] /\ client'[c] = s
      /\ \A d \in Clients \ {c} : client'[d] = client[d]
  BY <1>1, <1>2, CallGoes
<1>4. /\ UNCHANGED <<workload, clock, committed, jobRows>> /\ client[c].pc \in {"series", "job"}
      /\ seriesRows' = seriesRows \ {c} /\ committed # {}
  BY DEF InsertFails, Taken
<1>5. c \notin committed /\ committed \subseteq Clients
  BY <1>0, <1>4 DEF RowsOK, At
<1>6. CallsOK'
  BY <1>0, <1>1, <1>3, <1>4 DEF CallsOK, At
<1>7. RowsOK' /\ KeyIsUnique'
  BY <1>0, <1>1, <1>3, <1>4 DEF RowsOK, KeyIsUnique, At
<1>8. AnswersOK'
  BY <1>0, <1>1, <1>3, <1>4, <1>5 DEF AnswersOK, At
<1>9. SameRequestIsFound'
  BY <1>0, <1>1, <1>3, <1>4, <1>5 DEF SameRequestIsFound
<1>. QED
  BY <1>6, <1>7, <1>8, <1>9 DEF KeyInv

LEMMA LookupStep ==
    ASSUME KeyInv, NEW c \in Clients, Lookup(c), UNCHANGED workload
    PROVE  KeyInv'
<1> DEFINE rows == committed \cap (IF client[c].request.recurrence = None
                                   THEN jobRows ELSE seriesRows)
           same == {d \in rows : client[d].request = client[c].request}
           s == [client[c] EXCEPT !.pc = IF same = {} THEN "conflict" ELSE "found",
                                  !.result = IF same = {} THEN None
                                             ELSE CHOOSE d \in same : TRUE]
<1>0. /\ CallsOK /\ RowsOK /\ KeyIsUnique /\ AnswersOK /\ SameRequestIsFound
      /\ client \in [Clients -> Calls] /\ committed \subseteq Clients
  BY DEF KeyInv, CallsOK, RowsOK
<1>1. client' = [client EXCEPT ![c] = s] /\ client[c].pc = "lookup"
      /\ UNCHANGED <<workload, clock, jobRows, seriesRows, committed>>
  BY <1>0 DEF Lookup, Fingerprint
<1>2. same = {} => \A d \in committed : client[d].request # client[c].request
  BY <1>0 DEF RowsOK, At
<1>3. same # {} => (CHOOSE d \in same : TRUE) \in same
  OBVIOUS
<1>4. /\ s \in Calls /\ s.request = client[c].request
      /\ \/ same = {} /\ s.pc = "conflict"
         \/ same # {} /\ s.pc = "found" /\ s.result \in same
  BY <1>0, <1>3 DEF Calls, PCs
<1>5. \A d \in same : d \in committed /\ client[d].request = client[c].request
  OBVIOUS
<1>. HIDE DEF s, same, rows
<1>6. /\ client' \in [Clients -> Calls] /\ client'[c] = s
      /\ \A d \in Clients \ {c} : client'[d] = client[d]
  BY <1>1, <1>4, CallGoes
<1>7. c \notin committed /\ s.pc \in {"conflict", "found"}
  BY <1>0, <1>1, <1>4 DEF RowsOK, At
<1>8. CallsOK'
  BY <1>0, <1>1, <1>6, <1>7 DEF CallsOK, At
<1>9. RowsOK' /\ KeyIsUnique'
  BY <1>0, <1>1, <1>6, <1>7 DEF RowsOK, KeyIsUnique, At
<1>10. AnswersOK'
  <2>1. committed # {}
    BY <1>0, <1>1 DEF AnswersOK, At
  <2>. QED
    BY <1>0, <1>1, <1>4, <1>5, <1>6, <1>7, <2>1 DEF AnswersOK, At
<1>11. SameRequestIsFound'
  BY <1>0, <1>1, <1>2, <1>4, <1>6, <1>7 DEF SameRequestIsFound
<1>. QED
  BY <1>8, <1>9, <1>10, <1>11 DEF KeyInv

\* The row of c is the only one, so nothing else was committed and no other call
\* has failed yet.
LEMMA EndStep ==
    ASSUME KeyInv, NEW c \in Clients, Commit(c) \/ Rollback(c), UNCHANGED workload
    PROVE  KeyInv'
<1>0. /\ CallsOK /\ RowsOK /\ KeyIsUnique /\ AnswersOK /\ SameRequestIsFound
      /\ client \in [Clients -> Calls]
  BY DEF KeyInv, CallsOK
<1>1. /\ client[c].pc = "inserted" /\ client[c].result = c
      /\ UNCHANGED <<workload, clock>>
  BY <1>0 DEF Commit, Rollback, CallsOK, At
<1>2. jobRows = {c} /\ committed = {}
  BY <1>0, <1>1 DEF RowsOK, KeyIsUnique, At
<1>3. \A d \in Clients : client[d].pc \notin {"lookup", "found", "conflict"}
  BY <1>0, <1>2 DEF AnswersOK, At
<1>4. CASE Commit(c)
  <2> DEFINE s == [client[c] EXCEPT !.pc = "scheduled"]
  <2>1. s \in Calls /\ s.request = client[c].request /\ s.pc = "scheduled" /\ s.result = c
    BY <1>0, <1>1 DEF Calls, PCs
  <2>2. client' = [client EXCEPT ![c] = s]
    BY <1>0, <1>4 DEF Commit
  <2>. HIDE DEF s
  <2>3. /\ client' \in [Clients -> Calls] /\ client'[c] = s
        /\ \A d \in Clients \ {c} : client'[d] = client[d]
    BY <2>1, <2>2, CallGoes
  <2>4. committed' = {c} /\ UNCHANGED <<jobRows, seriesRows>>
    BY <1>2, <1>4 DEF Commit
  <2>5. CallsOK'
    BY <1>0, <1>1, <2>1, <2>3 DEF CallsOK, At
  <2>6. RowsOK' /\ KeyIsUnique'
    BY <1>0, <1>1, <1>2, <2>1, <2>3, <2>4 DEF RowsOK, KeyIsUnique, At
  <2>7. AnswersOK' /\ SameRequestIsFound'
    BY <1>3, <2>1, <2>3 DEF AnswersOK, SameRequestIsFound, At
  <2>. QED
    BY <2>5, <2>6, <2>7 DEF KeyInv
<1>5. CASE Rollback(c)
  <2>1. NoRequest \in Calls /\ NoRequest.pc = "idle"
    BY DEF NoRequest, Calls, PCs
  <2>2. client' = [client EXCEPT ![c] = NoRequest]
    BY <1>5 DEF Rollback
  <2>3. /\ client' \in [Clients -> Calls] /\ client'[c].pc = "idle"
        /\ \A d \in Clients \ {c} : client'[d] = client[d]
    BY <2>1, <2>2, CallGoes
  <2>4. jobRows' = {} /\ seriesRows' = seriesRows \ {c} /\ UNCHANGED committed
    BY <1>2, <1>5 DEF Rollback
  <2>5. CallsOK'
    BY <1>0, <1>1, <2>3 DEF CallsOK, At
  <2>6. RowsOK' /\ KeyIsUnique'
    BY <1>0, <1>1, <1>2, <2>3, <2>4 DEF RowsOK, KeyIsUnique, At
  <2>7. AnswersOK' /\ SameRequestIsFound'
    BY <1>3, <2>3 DEF AnswersOK, SameRequestIsFound, At
  <2>. QED
    BY <2>5, <2>6, <2>7 DEF KeyInv
<1>. QED
  BY <1>4, <1>5

LEMMA KeyInductive == Spec => []KeyInv
<1>1. Init => KeyInv
  <2> SUFFICES ASSUME Init PROVE KeyInv
    OBVIOUS
  <2>1. NoRequest \in Calls /\ NoRequest.pc = "idle"
    BY DEF NoRequest, Calls, PCs
  <2>2. \A c \in Clients : client[c].pc = "idle"
    BY <2>1 DEF Init
  <2>3. CallsOK
    BY <2>1, <2>2 DEF Init, CallsOK, At
  <2>4. RowsOK /\ KeyIsUnique
    BY <2>2 DEF Init, RowsOK, KeyIsUnique, At
  <2>5. AnswersOK /\ SameRequestIsFound
    BY <2>2 DEF AnswersOK, SameRequestIsFound, At
  <2>. QED
    BY <2>3, <2>4, <2>5 DEF KeyInv
<1>2. KeyInv /\ [Next]_vars => KeyInv'
  <2> SUFFICES ASSUME KeyInv, [Next]_vars PROVE KeyInv'
    OBVIOUS
  <2>1. ASSUME UNCHANGED <<workload, client, jobRows, seriesRows, committed>>, clock' \in Nat
        PROVE  KeyInv'
    BY <2>1 DEF KeyInv, CallsOK, RowsOK, KeyIsUnique, AnswersOK, SameRequestIsFound, At
  <2>2. clock \in Nat
    BY DEF KeyInv, CallsOK
  <2>3. CASE UNCHANGED vars
    BY <2>1, <2>2, <2>3 DEF vars
  <2>4. CASE UNCHANGED workload /\ (CompleteNone \/ CompleteEnd \/ Cancel
                                      \/ \E lead \in Leads : CompleteNext(lead))
    BY <2>1, <2>2, <2>4 DEF CompleteNone, CompleteEnd, Cancel, CompleteNext
  <2>5. CASE UNCHANGED workload /\ Tick
    BY <2>1, <2>2, <2>5 DEF Tick
  <2>. QED
    BY <2>3, <2>4, <2>5, CallStep, InsertStep, InsertFailsStep, LookupStep, EndStep DEF Next
<1>. QED
  BY <1>1, <1>2, PTL DEF Spec

\* However any number of calls and transactions with one key interleave, those
\* that succeed asked for the same and name one committed lineage.
THEOREM KeyNamesOneJob == Spec => []OneJobPerKey
<1>1. KeyInv => OneJobPerKey
  <2> SUFFICES ASSUME KeyInv, NEW c \in Successful, NEW d \in Successful
               PROVE  /\ client[c].request = client[d].request
                      /\ client[c].result = client[d].result
                      /\ client[c].result \in committed
    BY DEF OneJobPerKey
  <2>1. ASSUME NEW e \in Successful
        PROVE  client[e].result \in committed /\ client[client[e].result].request = client[e].request
    BY <2>1 DEF Successful, KeyInv, CallsOK, RowsOK, AnswersOK, At
  <2>2. committed \subseteq jobRows
    BY DEF KeyInv, RowsOK, At
  <2>3. client[c].result = client[d].result
    BY <2>1, <2>2 DEF KeyInv, KeyIsUnique
  <2>. QED
    BY <2>1, <2>3
<1>. QED
  BY <1>1, KeyInductive, PTL

\* A call that asks for what a committed call asked for never ends in a conflict,
\* also when it met the key before the other call was committed.
THEOREM RepeatedCallIsAnswered == Spec => []SameRequestIsFound
<1>1. KeyInv => SameRequestIsFound
  BY DEF KeyInv
<1>. QED
  BY <1>1, KeyInductive, PTL
-----------------------------------------------------------------------------
(***************************************************************************)
(* Numbers.  A statement about all of them is proved from the least one    *)
(* that it fails for.                                                      *)
(***************************************************************************)
LEMMA Least ==
    ASSUME NEW T, T \subseteq Nat, T # {}
    PROVE  \E x \in T : \A y \in T : x <= y
<1> DEFINE R == OpToRel(<, Nat)
<1>1. IsWellFoundedOn(R, Nat)
  BY NatLessThanWellFounded
<1>2. \A x, y \in Nat : x < y => <<x, y>> \in R
  BY DEF OpToRel
<1>. HIDE DEF R
<1>3. PICK x \in T : \A y \in T : ~ (<<y, x>> \in R)
  BY <1>1, WFMin
<1>4. ASSUME NEW y \in T PROVE x <= y
  <2>1. x \in Nat /\ y \in Nat
    OBVIOUS
  <2>2. ~(y < x)
    BY <1>2, <1>3, <2>1, Zenon
  <2>. QED
    BY <2>1, <2>2
<1>. QED
  BY <1>4

LEMMA DivMod ==
    ASSUME NEW d \in Nat \ {0}, NEW n \in Int
    PROVE  /\ n \div d \in Int
           /\ n % d \in 0..d - 1
           /\ n = d * (n \div d) + (n % d)
  OBVIOUS

LEMMA DivUnique ==
    ASSUME NEW d \in Nat \ {0}, NEW q \in Int, NEW r \in 0..d - 1
    PROVE  (d * q + r) \div d = q /\ (d * q + r) % d = r
<1> DEFINE n == d * q + r
           p == n \div d
           s == n % d
<1>0. n \in Int
  OBVIOUS
<1>1. p \in Int /\ s \in 0..d - 1 /\ n = d * p + s
  BY <1>0, DivMod
<1>. HIDE DEF p, s
<1>2. d * (p - q) = r - s
  BY <1>1
<1>3. p - q > 0 => d * (p - q) >= d
  BY <1>1
<1>4. p - q < 0 => d * (p - q) <= -d
  BY <1>1
<1>5. p = q
  BY <1>1, <1>2, <1>3, <1>4
<1>6. s = r
  BY <1>1, <1>5
<1>. QED
  BY <1>5, <1>6 DEF p, s

LEMMA Units ==
    /\ DayLength \in Nat \ {0} /\ DaysPerWeek \in Nat \ {0}
    /\ Lookahead \in Nat /\ Lookahead >= 2
  BY RecurrenceAssumption

-----------------------------------------------------------------------------
(* The calendar: months follow one another, and every date is in one.      *)

LEMMA MonthLengthType ==
    ASSUME NEW m \in Nat
    PROVE  MonthLength(m) \in Nat \ {0}
<1>1. Len(MonthLengths) \in Nat \ {0}
  BY RecurrenceAssumption
<1>2. m % Len(MonthLengths) \in 0..Len(MonthLengths) - 1
  BY <1>1
<1>3. (m % Len(MonthLengths)) + 1 \in 1..Len(MonthLengths)
  BY <1>1, <1>2
<1>4. MonthLengths \in Seq(Nat \ {0})
  BY RecurrenceAssumption
<1>5. \A i \in 1..Len(MonthLengths) : MonthLengths[i] \in Nat \ {0}
  BY <1>4
<1>. QED
  BY <1>3, <1>5 DEF MonthLength

\* Functions that satisfy the definition of MonthStart up to n: there is one
\* for every n, so the definition has a solution.
StartsUpTo(n) ==
    {g \in [0..n -> Nat] :
        g[0] = 0 /\ \A m \in 1..n : g[m] = g[m - 1] + MonthLength(m - 1)}

LEMMA StartsAgree ==
    ASSUME NEW n \in Nat, NEW k \in Nat, NEW g \in StartsUpTo(n), NEW h \in StartsUpTo(k),
           NEW m \in 0..n, m <= k
    PROVE  g[m] = h[m]
<1> DEFINE T == {i \in 0..n : i <= k /\ g[i] # h[i]}
<1>1. SUFFICES ASSUME T # {} PROVE FALSE
  OBVIOUS
<1>2. PICK i \in T : \A j \in T : i <= j
  <2>1. T \subseteq Nat
    OBVIOUS
  <2>. HIDE DEF T
  <2>. QED
    BY <1>1, <2>1, Least
<1>3. i # 0
  BY DEF StartsUpTo
<1>4. i \in 1..n /\ i \in 1..k /\ i - 1 \notin T
  BY <1>2, <1>3
<1>5. g[i - 1] = h[i - 1]
  BY <1>4
<1>. QED
  BY <1>4, <1>5 DEF StartsUpTo

LEMMA StartsExist ==
    ASSUME NEW n \in Nat
    PROVE  StartsUpTo(n) # {}
<1> DEFINE T == {i \in Nat : StartsUpTo(i) = {}}
<1>1. SUFFICES ASSUME T # {} PROVE FALSE
  OBVIOUS
<1>2. PICK i \in T : \A j \in T : i <= j
  BY <1>1, Least
<1>3. CASE i = 0
  <2>1. [j \in 0..0 |-> 0] \in StartsUpTo(0)
    BY DEF StartsUpTo
  <2>. QED
    BY <1>3, <2>1
<1>4. CASE i # 0
  <2>1. i - 1 \in Nat /\ StartsUpTo(i - 1) # {}
    BY <1>2, <1>4
  <2>2. PICK g : g \in StartsUpTo(i - 1)
    BY <2>1
  <2> DEFINE next == g[i - 1] + MonthLength(i - 1)
             h == [j \in 0..i |-> IF j = i THEN next ELSE g[j]]
  <2>3. g \in [0..i - 1 -> Nat] /\ next \in Nat
    <3>1. g \in [0..i - 1 -> Nat]
      BY <2>2 DEF StartsUpTo
    <3>2. MonthLength(i - 1) \in Nat
      BY <2>1, MonthLengthType
    <3>3. g[i - 1] \in Nat
      BY <2>1, <3>1
    <3>. QED
      BY <3>1, <3>2, <3>3
  <2>4. h \in [0..i -> Nat] /\ h[0] = 0
    BY <1>4, <2>1, <2>2, <2>3 DEF StartsUpTo
  <2>5. ASSUME NEW m \in 1..i PROVE h[m] = h[m - 1] + MonthLength(m - 1)
    <3>1. CASE m = i
      BY <2>1, <3>1
    <3>2. CASE m # i
      BY <2>1, <2>2, <3>2 DEF StartsUpTo
    <3>. QED
      BY <3>1, <3>2
  <2>. HIDE DEF h
  <2>6. h \in StartsUpTo(i)
    BY <2>4, <2>5 DEF StartsUpTo
  <2>. QED
    BY <2>6
<1>. QED
  BY <1>3, <1>4

LEMMA MonthStartDef ==
    MonthStart = [m \in Nat |-> IF m = 0 THEN 0 ELSE MonthStart[m - 1] + MonthLength(m - 1)]
<1> DEFINE G(n) == CHOOSE g \in StartsUpTo(n) : TRUE
           f == [n \in Nat |-> G(n)[n]]
<1>1. \A n \in Nat : G(n) \in StartsUpTo(n)
  BY StartsExist
<1>. HIDE DEF G
<1>2. f[0] = 0
  BY <1>1 DEF StartsUpTo
<1>3. ASSUME NEW m \in Nat \ {0} PROVE f[m] = f[m - 1] + MonthLength(m - 1)
  <2>1. m - 1 \in Nat /\ m \in 1..m
    OBVIOUS
  <2>2. G(m)[m] = G(m)[m - 1] + MonthLength(m - 1)
    BY <1>1, <2>1 DEF StartsUpTo
  <2>3. G(m)[m - 1] = G(m - 1)[m - 1]
    BY <1>1, <2>1, StartsAgree
  <2>. QED
    BY <2>1, <2>2, <2>3
<1>4. f = [m \in Nat |-> IF m = 0 THEN 0 ELSE f[m - 1] + MonthLength(m - 1)]
  BY <1>2, <1>3
<1>5. \E g : g = [m \in Nat |-> IF m = 0 THEN 0 ELSE g[m - 1] + MonthLength(m - 1)]
  <2>. HIDE DEF f
  <2>. QED
    BY <1>4
<1>. QED
  BY <1>5 DEF MonthStart

LEMMA MonthStarts ==
    /\ MonthStart[0] = 0
    /\ \A m \in Nat : /\ MonthStart[m] \in Nat
                      /\ MonthStart[m + 1] = MonthStart[m] + MonthLength(m)
                      /\ MonthStart[m + 1] > MonthStart[m]
                      /\ MonthStart[m] >= m
<1>1. MonthStart[0] = 0
  BY MonthStartDef
<1>2. ASSUME NEW m \in Nat PROVE MonthStart[m + 1] = MonthStart[m] + MonthLength(m)
  <2>1. m + 1 \in Nat /\ m + 1 # 0 /\ (m + 1) - 1 = m
    OBVIOUS
  <2>2. MonthStart[m + 1] = MonthStart[(m + 1) - 1] + MonthLength((m + 1) - 1)
    BY <2>1, MonthStartDef
  <2>. QED
    BY <2>1, <2>2
<1>3. ASSUME NEW n \in Nat PROVE MonthStart[n] \in Nat /\ MonthStart[n] >= n
  <2> DEFINE T == {i \in Nat : ~(MonthStart[i] \in Nat /\ MonthStart[i] >= i)}
  <2>1. SUFFICES ASSUME T # {} PROVE FALSE
    OBVIOUS
  <2>2. PICK i \in T : \A j \in T : i <= j
    BY <2>1, Least
  <2>3. i # 0
    BY <1>1
  <2>4. i - 1 \in Nat /\ i - 1 \notin T
    BY <2>2, <2>3
  <2>5. MonthStart[i - 1] \in Nat /\ MonthStart[i - 1] >= i - 1
    BY <2>4
  <2>6. MonthStart[i] = MonthStart[i - 1] + MonthLength(i - 1)
    <3>1. (i - 1) + 1 = i
      BY <2>4
    <3>. QED
      BY <1>2, <2>4, <3>1
  <2>7. MonthLength(i - 1) \in Nat \ {0}
    BY <2>4, MonthLengthType
  <2>. QED
    BY <2>5, <2>6, <2>7
<1>. QED
  BY <1>1, <1>2, <1>3, MonthLengthType

LEMMA StartsIncrease ==
    ASSUME NEW m \in Nat, NEW n \in Nat, m < n
    PROVE  MonthStart[m + 1] <= MonthStart[n]
<1> DEFINE T == {i \in Nat : i > m /\ ~(MonthStart[m + 1] <= MonthStart[i])}
<1>1. SUFFICES ASSUME T # {} PROVE FALSE
  OBVIOUS
<1>2. PICK i \in T : \A j \in T : i <= j
  BY <1>1, Least
<1>3. i \in Nat /\ i > m /\ ~(MonthStart[m + 1] <= MonthStart[i])
  OBVIOUS
<1>4. m + 1 \in Nat /\ MonthStart[m + 1] \in Nat /\ MonthStart[i] \in Nat
  BY <1>3, MonthStarts
<1>5. i # m + 1
  BY <1>3, <1>4
<1>6. i - 1 \in Nat /\ i - 1 > m /\ i - 1 \notin T /\ (i - 1) + 1 = i
  BY <1>2, <1>3, <1>5
<1>7. MonthStart[m + 1] <= MonthStart[i - 1] /\ MonthStart[i - 1] \in Nat
  BY <1>6, MonthStarts
<1>8. MonthStart[i] > MonthStart[i - 1]
  BY <1>6, MonthStarts
<1>. QED
  BY <1>3, <1>4, <1>7, <1>8

LEMMA MonthUnique ==
    ASSUME NEW date \in Nat, NEW m \in Nat,
           MonthStart[m] <= date, date < MonthStart[m + 1]
    PROVE  Month(date) = m
<1>1. m \in 0..date
  BY MonthStarts
<1>2. ASSUME NEW n \in Nat, MonthStart[n] <= date, date < MonthStart[n + 1]
      PROVE  n = m
  <2>1. /\ MonthStart[m] \in Nat /\ MonthStart[n] \in Nat
        /\ MonthStart[m + 1] \in Nat /\ MonthStart[n + 1] \in Nat
    BY MonthStarts
  <2>2. ~(n < m)
    BY <1>2, <2>1, StartsIncrease
  <2>3. ~(m < n)
    BY <1>2, <2>1, StartsIncrease
  <2>. QED
    BY <2>2, <2>3
<1>. QED
  BY <1>1, <1>2 DEF Month

LEMMA MonthIs ==
    ASSUME NEW date \in Nat
    PROVE  /\ Month(date) \in Nat
           /\ MonthStart[Month(date)] <= date
           /\ date < MonthStart[Month(date) + 1]
           /\ Day(date) \in 0..MonthLength(Month(date)) - 1
<1> DEFINE T == {i \in Nat : MonthStart[i] > date}
<1>1. date + 1 \in T
  BY MonthStarts
<1>2. PICK i \in T : \A j \in T : i <= j
  BY <1>1, Least
<1>3. i \in Nat /\ MonthStart[i] > date /\ i # 0
  BY MonthStarts
<1>4. i - 1 \in Nat /\ i - 1 \notin T /\ (i - 1) + 1 = i
  BY <1>2, <1>3
<1>5. MonthStart[i - 1] \in Nat /\ ~(MonthStart[i - 1] > date)
  BY <1>4, MonthStarts
<1>6. MonthStart[i - 1] <= date /\ date < MonthStart[(i - 1) + 1]
  BY <1>3, <1>4, <1>5
<1>7. Month(date) = i - 1
  BY <1>4, <1>6, MonthUnique
<1>8. /\ Month(date) \in Nat /\ MonthStart[Month(date)] <= date
      /\ date < MonthStart[Month(date) + 1]
  BY <1>4, <1>6, <1>7
<1>9. /\ MonthStart[Month(date)] \in Nat /\ MonthLength(Month(date)) \in Nat
      /\ MonthStart[Month(date) + 1] = MonthStart[Month(date)] + MonthLength(Month(date))
  BY <1>8, MonthStarts, MonthLengthType
<1>10. Day(date) \in 0..MonthLength(Month(date)) - 1
  BY <1>8, <1>9 DEF Day
<1>. QED
  BY <1>8, <1>10

LEMMA MonthsInOrder ==
    ASSUME NEW d \in Nat, NEW e \in Nat, d <= e
    PROVE  Month(d) <= Month(e)
<1> DEFINE m == Month(d)
           n == Month(e)
<1>1. /\ m \in Nat /\ MonthStart[m] <= d /\ d < MonthStart[m + 1]
      /\ n \in Nat /\ MonthStart[n] <= e /\ e < MonthStart[n + 1]
  BY MonthIs
<1>2. MonthStart[m] \in Nat /\ MonthStart[n + 1] \in Nat
  BY <1>1, MonthStarts
<1>3. n < m => MonthStart[n + 1] <= MonthStart[m]
  BY <1>1, StartsIncrease
<1>. QED
  BY <1>1, <1>2, <1>3

-----------------------------------------------------------------------------
(* Zones: the instant of a wall clock time, and the order of instants.     *)

LEMMA ZoneFields ==
    ASSUME NEW z \in Zones
    PROVE  /\ z.before \in Nat /\ z.after \in Nat /\ z.at \in Int
           /\ z.after - z.before <= DayLength /\ z.before - z.after <= DayLength
           /\ \A u \in Int : Local(z, u) \in Int
           /\ \A u \in Nat : Local(z, u) \in Nat
<1>1. /\ z.before \in Nat /\ z.after \in Nat /\ z.at \in Int
      /\ z.after - z.before \in -DayLength..DayLength
  BY DEF Zones
<1>2. z.after - z.before <= DayLength /\ z.before - z.after <= DayLength
  BY <1>1, RecurrenceAssumption
<1>3. \A u \in Int : Local(z, u) \in Int
  BY <1>1 DEF Local
<1>4. \A u \in Nat : Local(z, u) \in Nat
  BY <1>1 DEF Local
<1>. QED
  BY <1>1, <1>2, <1>3, <1>4

LEMMA MinOfOne ==
    ASSUME NEW x \in Int
    PROVE  Min({x}) = x /\ Max({x}) = x
BY DEF Min, Max

LEMMA MinOfTwo ==
    ASSUME NEW x \in Int, NEW y \in Int, x <= y
    PROVE  Min({x, y}) = x /\ Max({x, y}) = y
BY DEF Min, Max

\* What _resolve_local computes: the reading before the transition if there is
\* one, else the reading after it, else the first moved forward by the gap.
Resolved(z, wall) ==
    IF wall - z.before < z.at \/ wall - z.after < z.at
    THEN wall - z.before ELSE wall - z.after

LEMMA ResolvedIs ==
    ASSUME NEW z \in Zones, NEW wall \in Int
    PROVE  ResolveLocal(z, wall) = Resolved(z, wall)
<1> DEFINE b == wall - z.before
           a == wall - z.after
           instants == {u \in {b, a} : Local(z, u) = wall}
<1>0. b \in Int /\ a \in Int /\ z.before \in Nat /\ z.after \in Nat /\ z.at \in Int
  BY ZoneFields
<1>1. Local(z, b) = wall <=> b < z.at \/ b = a
  BY <1>0 DEF Local
<1>2. Local(z, a) = wall <=> a >= z.at \/ b = a
  BY <1>0 DEF Local
<1>3. CASE b < z.at /\ a >= z.at
  <2>1. instants = {b, a}
    BY <1>1, <1>2, <1>3
  <2>2. UtcOf(z, wall, 0) = b
    BY <1>0, <1>3, <2>1, MinOfTwo DEF UtcOf
  <2>. QED
    BY <1>0, <1>1, <1>3, <2>2 DEF ResolveLocal, Resolved
<1>4. CASE b < z.at /\ a < z.at
  <2>1. instants = {b}
    BY <1>0, <1>1, <1>2, <1>4
  <2>2. UtcOf(z, wall, 0) = b
    BY <1>0, <2>1, MinOfOne DEF UtcOf
  <2>. QED
    BY <1>0, <1>1, <1>4, <2>2 DEF ResolveLocal, Resolved
<1>5. CASE b >= z.at /\ a >= z.at
  <2>1. instants = {a}
    BY <1>0, <1>1, <1>2, <1>5
  <2>2. UtcOf(z, wall, 0) = a
    BY <1>0, <2>1, MinOfOne DEF UtcOf
  <2>. QED
    BY <1>0, <1>2, <1>5, <2>2 DEF ResolveLocal, Resolved
<1>6. CASE b >= z.at /\ a < z.at
  <2>1. instants = {}
    BY <1>0, <1>1, <1>2, <1>6
  <2>2. UtcOf(z, wall, 0) = b /\ UtcOf(z, wall, 1) = a
    BY <2>1 DEF UtcOf
  <2>3. Local(z, b) > wall /\ ~(Local(z, a) > wall)
    BY <1>0, <1>6 DEF Local
  <2>4. {u \in {b, a} : Local(z, u) > wall} = {b}
    BY <2>3
  <2>. QED
    BY <1>0, <1>1, <1>2, <1>6, <2>2, <2>4, MinOfOne DEF ResolveLocal, Resolved
<1>. QED
  BY <1>0, <1>3, <1>4, <1>5, <1>6

\* The reference names the same instant, and no other.
LEMMA InstantIs ==
    ASSUME NEW z \in Zones, NEW wall \in Int, NEW u \in Int
    PROVE  IsInstantOf(z, u, wall) <=> u = Resolved(z, wall)
<1> DEFINE b == wall - z.before
           a == wall - z.after
<1>0. b \in Int /\ a \in Int /\ z.before \in Nat /\ z.after \in Nat /\ z.at \in Int
  BY ZoneFields
<1>1. Local(z, b) = wall <=> b < z.at \/ b = a
  BY <1>0 DEF Local
<1>2. Local(z, a) = wall <=> a >= z.at \/ b = a
  BY <1>0 DEF Local
<1>3. Local(z, u) = wall <=> (u = b /\ b < z.at) \/ (u = a /\ a >= z.at)
  BY <1>0 DEF Local
<1>4. CASE b >= z.at /\ a < z.at
  BY <1>0, <1>1, <1>2, <1>4 DEF IsInstantOf, Resolved, Local
<1>5. CASE ~(b >= z.at /\ a < z.at)
  <2>1. \E v \in {b, a} : Local(z, v) = wall
    BY <1>0, <1>1, <1>2, <1>5
  <2>2. IsInstantOf(z, u, wall) <=>
           /\ Local(z, u) = wall
           /\ \A v \in {b, a} : Local(z, v) = wall => u <= v
    BY <2>1 DEF IsInstantOf
  <2>. QED
    BY <1>0, <1>1, <1>2, <1>3, <1>5, <2>2 DEF Resolved
<1>. QED
  BY <1>4, <1>5

\* Slots a day apart keep their order; a slot long after is later.
LEMMA ResolvedOrder ==
    ASSUME NEW z \in Zones, NEW v \in Int, NEW w \in Int, v + DayLength <= w
    PROVE  Resolved(z, v) <= Resolved(z, w)
<1>1. DayLength \in Nat \ {0}
  BY Units
<1>. QED
  BY <1>1, ZoneFields DEF Resolved

LEMMA ResolvedLate ==
    ASSUME NEW z \in Zones, NEW u \in Int, NEW w \in Int, Local(z, u) + DayLength < w
    PROVE  Resolved(z, w) > u
<1>1. DayLength \in Nat \ {0}
  BY Units
<1>. QED
  BY <1>1, ZoneFields DEF Resolved, Local

\* The wall clock of the instant of a slot: its own, or moved forward.
LEMMA ResolvedLocal ==
    ASSUME NEW z \in Zones, NEW w \in Int
    PROVE  /\ Resolved(z, w) \in Int
           /\ w \in Local(z, Resolved(z, w)) - DayLength..Local(z, Resolved(z, w))
<1>1. DayLength \in Nat \ {0}
  BY Units
<1>. QED
  BY <1>1, ZoneFields DEF Resolved, Local

\* The wall clock may go back, but not from one instant to that of a slot.
LEMMA ResolvedForward ==
    ASSUME NEW z \in Zones, NEW u \in Int, NEW w \in Int, u < Resolved(z, w)
    PROVE  Local(z, u) <= Local(z, Resolved(z, w))
BY ZoneFields DEF Resolved, Local

-----------------------------------------------------------------------------
(* Dates and times of the wall clock.                                      *)

LEMMA Scaled ==
    ASSUME NEW d \in Nat \ {0}, NEW a \in Int, NEW b \in Int
    PROVE  /\ d * a \in Int
           /\ a < b => d * a + d <= d * b
           /\ a + 2 <= b => d * a + d + d <= d * b
<1> DEFINE n == b - a
<1>1. n \in Int /\ d * b = d * a + d * n
  OBVIOUS
<1>2. (n > 0 => d * n >= d) /\ (n >= 2 => d * n >= d + d) /\ d * n \in Int
  <2>1. n \in Int
    BY <1>1
  <2>. HIDE DEF n
  <2>. QED
    BY <2>1
<1>3. d * a \in Int /\ d * b \in Int
  OBVIOUS
<1>4. (a < b => n > 0) /\ (a + 2 <= b => n >= 2)
  OBVIOUS
<1> DEFINE x == d * a
           y == d * b
           w == d * n
<1>5. y = x + w /\ x \in Int /\ w \in Int /\ (n > 0 => w >= d) /\ (n >= 2 => w >= d + d)
  BY <1>1, <1>2, <1>3
<1>. HIDE DEF x, y, w, n
<1>6. x \in Int /\ (a < b => x + d <= y) /\ (a + 2 <= b => x + d + d <= y)
  BY <1>4, <1>5
<1>. QED
  BY <1>6 DEF x, y

LEMMA WallTypes ==
    ASSUME NEW wall \in Int
    PROVE  Date(wall) \in Int /\ Time(wall) \in 0..DayLength - 1
<1>1. DayLength \in Nat \ {0}
  BY Units
<1>. QED
  BY <1>1, DivMod DEF Date, Time

LEMMA WallParts ==
    ASSUME NEW wall \in Int
    PROVE  wall = DayLength * Date(wall) + Time(wall)
<1>1. DayLength \in Nat \ {0}
  BY Units
<1>. QED
  BY <1>1, DivMod DEF Date, Time

LEMMA WallOf ==
    ASSUME NEW date \in Int, NEW t \in 0..DayLength - 1
    PROVE  /\ Date(DayLength * date + t) = date /\ Time(DayLength * date + t) = t
           /\ DayLength * date + t \in Int
           /\ date \in Nat => DayLength * date + t \in Nat
<1>1. DayLength \in Nat \ {0}
  BY Units
<1>2. Date(DayLength * date + t) = date /\ Time(DayLength * date + t) = t
  BY <1>1, DivUnique DEF Date, Time
<1>. QED
  BY <1>1, <1>2

\* Later days have later times.
LEMMA DatesInOrder ==
    ASSUME NEW v \in Int, NEW w \in Int
    PROVE  /\ v <= w => Date(v) <= Date(w)
           /\ Date(v) < Date(w) /\ Time(v) = Time(w) => v + DayLength <= w
           /\ Date(v) + 2 <= Date(w) => v + DayLength < w
<1>1. DayLength \in Nat \ {0}
  BY Units
<1> DEFINE x == DayLength * Date(v)
           y == DayLength * Date(w)
<1>2. /\ Date(v) \in Int /\ Time(v) \in 0..DayLength - 1
      /\ Date(w) \in Int /\ Time(w) \in 0..DayLength - 1
  BY WallTypes
<1>3. v = x + Time(v) /\ w = y + Time(w)
  BY WallParts
<1>4. /\ x \in Int /\ y \in Int
      /\ Date(v) < Date(w) => x + DayLength <= y
      /\ Date(w) < Date(v) => y + DayLength <= x
      /\ Date(v) + 2 <= Date(w) => x + DayLength + DayLength <= y
  BY <1>1, <1>2, Scaled
<1>. HIDE DEF x, y
<1>5. v <= w => Date(v) <= Date(w)
  BY <1>1, <1>2, <1>3, <1>4
<1>6. Date(v) < Date(w) /\ Time(v) = Time(w) => v + DayLength <= w
  BY <1>1, <1>2, <1>3, <1>4
<1>7. Date(v) + 2 <= Date(w) => v + DayLength < w
  BY <1>1, <1>2, <1>3, <1>4
<1>. QED
  BY <1>5, <1>6, <1>7

\* Time starts with the calendar.
LEMMA DateIsNat ==
    ASSUME NEW wall \in Nat
    PROVE  Date(wall) \in Nat
<1>1. DayLength \in Nat \ {0}
  BY Units
<1>2. Date(0) = 0
  <2>1. 0 \in 0..DayLength - 1 /\ DayLength * 0 + 0 = 0
    BY <1>1
  <2>. QED
    BY <2>1, WallOf
<1>. QED
  BY <1>2, DatesInOrder, WallTypes

-----------------------------------------------------------------------------
(* Slots and their indices.                                                *)

\* The date of the slot with an index.
SlotDate(cadence, anchor, index) ==
    LET month == Month(Date(anchor)) + index
    IN  CASE cadence = "daily"   -> Date(anchor) + index
          [] cadence = "weekly"  -> Date(anchor) + index * DaysPerWeek
          [] cadence = "monthly" ->
                MonthStart[month] + Min({Day(Date(anchor)), MonthLength(month) - 1})

\* The day of the anchor in a month, or the last day.
LEMMA MonthSlot ==
    ASSUME NEW anchor \in Nat, NEW index \in Nat
    PROVE  LET month == Month(Date(anchor)) + index
               date == SlotDate("monthly", anchor, index)
           IN  /\ month \in Nat /\ date \in Nat /\ Month(date) = month
               /\ \/ Day(date) = Day(Date(anchor))
                  \/ /\ Day(date) < Day(Date(anchor))
                     /\ Day(date) = MonthLength(month) - 1
<1> DEFINE first == Date(anchor)
           month == Month(first) + index
           last == MonthLength(month) - 1
           day == Min({Day(first), last})
           date == SlotDate("monthly", anchor, index)
<1>1. first \in Nat /\ Month(first) \in Nat /\ Day(first) \in Nat
  <2>1. first \in Nat
    BY DateIsNat
  <2>. QED
    BY <2>1, MonthIs, MonthLengthType
<1>2. month \in Nat /\ last \in Nat
  <2>1. month \in Nat
    BY <1>1
  <2>. HIDE DEF month
  <2>. QED
    BY <2>1, MonthLengthType
<1>3. /\ day \in 0..last
      /\ day = Day(first) \/ (day < Day(first) /\ day = last)
  <2>1. CASE Day(first) <= last
    BY <1>1, <1>2, <2>1, MinOfTwo
  <2>2. CASE last < Day(first)
    <3>1. {Day(first), last} = {last, Day(first)}
      OBVIOUS
    <3>. QED
      BY <1>1, <1>2, <2>2, <3>1, MinOfTwo
  <2>. QED
    BY <1>1, <1>2, <2>1, <2>2
<1>4. date = MonthStart[month] + day
  BY DEF SlotDate
<1>. HIDE DEF month, day, date, first
<1>5. /\ MonthStart[month] \in Nat
      /\ MonthStart[month + 1] = MonthStart[month] + MonthLength(month)
      /\ MonthLength(month) \in Nat
  BY <1>2, MonthStarts, MonthLengthType
<1>6. date \in Nat /\ MonthStart[month] <= date /\ date < MonthStart[month + 1]
  BY <1>3, <1>4, <1>5
<1>7. Month(date) = month
  BY <1>2, <1>6, MonthUnique
<1>8. Day(date) = day
  BY <1>3, <1>4, <1>5, <1>7 DEF Day
<1>. QED
  BY <1>2, <1>3, <1>6, <1>7, <1>8 DEF month, date, first

LEMMA MonthlyOrder ==
    ASSUME NEW anchor \in Nat, NEW i \in Nat, NEW j \in Nat, i < j
    PROVE  SlotDate("monthly", anchor, i) < SlotDate("monthly", anchor, j)
<1> DEFINE d == SlotDate("monthly", anchor, i)
           e == SlotDate("monthly", anchor, j)
<1>1. d \in Nat /\ e \in Nat /\ Month(d) < Month(e)
  <2>1. Month(Date(anchor)) \in Nat
    BY DateIsNat, MonthIs
  <2>2. /\ d \in Nat /\ Month(d) = Month(Date(anchor)) + i
        /\ e \in Nat /\ Month(e) = Month(Date(anchor)) + j
    BY MonthSlot
  <2>. QED
    BY <2>1, <2>2
<1>2. e <= d => Month(e) <= Month(d)
  BY <1>1, MonthsInOrder
<1>3. Month(d) \in Nat /\ Month(e) \in Nat
  BY <1>1, MonthIs
<1>. QED
  BY <1>1, <1>2, <1>3

LEMMA SlotDates ==
    ASSUME NEW cadence \in Cadences, NEW anchor \in Nat, NEW i \in Nat
    PROVE  /\ SlotDate(cadence, anchor, i) \in Nat
           /\ i > 0 => SlotDate(cadence, anchor, i) > Date(anchor)
           /\ \A j \in Nat : i < j =>
                 SlotDate(cadence, anchor, i) < SlotDate(cadence, anchor, j)
<1>0. Date(anchor) \in Nat /\ DaysPerWeek \in Nat \ {0}
  BY DateIsNat, Units
<1>1. CASE cadence = "daily"
  BY <1>0, <1>1 DEF SlotDate
<1>2. CASE cadence = "weekly"
  <2> DEFINE P(n) == n * DaysPerWeek
  <2>1. P(i) \in Nat /\ (i > 0 => P(i) > 0)
    BY <1>0
  <2>2. ASSUME NEW j \in Nat, i < j PROVE P(i) < P(j) /\ P(j) \in Nat
    BY <1>0, <2>2
  <2>3. \A n \in Nat : SlotDate(cadence, anchor, n) = Date(anchor) + P(n)
    BY <1>2 DEF SlotDate
  <2>. HIDE DEF P
  <2>. QED
    BY <1>0, <2>1, <2>2, <2>3
<1>3. CASE cadence = "monthly"
  <2>1. SlotDate("monthly", anchor, i) \in Nat
    BY MonthSlot
  <2>2. ASSUME i > 0 PROVE SlotDate("monthly", anchor, i) > Date(anchor)
    <3> DEFINE d == SlotDate("monthly", anchor, i)
    <3>1. Month(Date(anchor)) \in Nat /\ Month(d) = Month(Date(anchor)) + i
      BY <1>0, MonthIs, MonthSlot
    <3>2. d <= Date(anchor) => Month(d) <= Month(Date(anchor))
      BY <1>0, <2>1, MonthsInOrder
    <3>. HIDE DEF d
    <3>3. d > Date(anchor) \/ d <= Date(anchor)
      BY <1>0, <2>1 DEF d
    <3>4. d > Date(anchor)
      BY <2>2, <3>1, <3>2, <3>3
    <3>. QED
      BY <3>4 DEF d
  <2>. QED
    BY <1>3, <2>1, <2>2, MonthlyOrder
<1>. QED
  BY <1>1, <1>2, <1>3 DEF Cadences

\* _candidate_local is the anchor's time of the day on the slot's date.
LEMMA CandidateIs ==
    ASSUME NEW cadence \in Cadences, NEW anchor \in Nat, NEW i \in Nat
    PROVE  /\ CandidateLocal(cadence, anchor, i)
                 = DayLength * SlotDate(cadence, anchor, i) + Time(anchor)
           /\ CandidateLocal(cadence, anchor, i) \in Nat
           /\ Date(CandidateLocal(cadence, anchor, i)) = SlotDate(cadence, anchor, i)
           /\ Time(CandidateLocal(cadence, anchor, i)) = Time(anchor)
<1> DEFINE w == CandidateLocal(cadence, anchor, i)
           d == SlotDate(cadence, anchor, i)
<1>0. /\ Date(anchor) \in Nat /\ DaysPerWeek \in Nat \ {0} /\ DayLength \in Nat \ {0}
      /\ Time(anchor) \in 0..DayLength - 1
  BY DateIsNat, WallTypes, Units
<1>1. d \in Nat
  BY SlotDates
<1>2. \A n \in Nat : anchor + n * DayLength = DayLength * (Date(anchor) + n) + Time(anchor)
  <2>1. anchor = DayLength * Date(anchor) + Time(anchor)
    BY WallParts
  <2>. QED
    BY <1>0, <2>1
<1>3. w = DayLength * d + Time(anchor)
  <2>1. CASE cadence = "daily"
    BY <1>2, <2>1 DEF CandidateLocal, SlotDate
  <2>2. CASE cadence = "weekly"
    <3>1. i * DaysPerWeek \in Nat
      BY <1>0
    <3>. QED
      BY <1>2, <2>2, <3>1 DEF CandidateLocal, SlotDate
  <2>3. CASE cadence = "monthly"
    <3>1. w = d * DayLength + Time(anchor)
      BY <2>3 DEF CandidateLocal, SlotDate
    <3>2. d * DayLength = DayLength * d
      BY <1>0, <1>1
    <3>. QED
      BY <3>1, <3>2
  <2>. QED
    BY <2>1, <2>2, <2>3 DEF Cadences
<1>. HIDE DEF w, d
<1>4. w \in Nat /\ Date(w) = d /\ Time(w) = Time(anchor)
  <2>1. Time(anchor) \in 0..DayLength - 1 /\ d \in Int
    BY <1>0, <1>1
  <2>. QED
    BY <1>1, <1>3, <2>1, WallOf
<1>. QED
  BY <1>3, <1>4 DEF w, d

\* Every candidate is a slot.
LEMMA CandidateIsSlot ==
    ASSUME NEW cadence \in Cadences, NEW anchor \in Nat, NEW i \in Nat \ {0}
    PROVE  IsSlot(cadence, anchor, CandidateLocal(cadence, anchor, i))
<1> DEFINE w == CandidateLocal(cadence, anchor, i)
           first == Date(anchor)
<1>1. /\ Date(w) = SlotDate(cadence, anchor, i) /\ Time(w) = Time(anchor)
      /\ Date(w) > first /\ first \in Nat /\ Date(w) \in Nat
  BY CandidateIs, SlotDates, DateIsNat
<1>2. CASE cadence = "daily"
  BY <1>1, <1>2 DEF IsSlot
<1>3. CASE cadence = "weekly"
  <2>1. DaysPerWeek \in Nat \ {0}
    BY Units
  <2>2. Date(w) = first + i * DaysPerWeek
    BY <1>1, <1>3 DEF SlotDate
  <2>3. i * DaysPerWeek = DaysPerWeek * i + 0 /\ i * DaysPerWeek \in Nat
        /\ 0 \in 0..DaysPerWeek - 1
    BY <2>1
  <2>4. (i * DaysPerWeek) % DaysPerWeek = 0
    BY <2>1, <2>3, DivUnique
  <2>5. Date(w) - first = i * DaysPerWeek
    BY <1>1, <2>2, <2>3
  <2>. QED
    BY <1>1, <1>3, <2>4, <2>5 DEF IsSlot
<1>4. CASE cadence = "monthly"
  <2>1. Month(first) \in Nat
    BY <1>1, MonthIs
  <2>2. /\ Month(Date(w)) = Month(first) + i
        /\ \/ Day(Date(w)) = Day(first)
           \/ /\ Day(Date(w)) < Day(first)
              /\ Day(Date(w)) = MonthLength(Month(Date(w))) - 1
    BY <1>1, <1>4, MonthSlot
  <2>. HIDE DEF w, first
  <2>3. Month(Date(w)) > Month(first)
    BY <2>1, <2>2
  <2>. QED
    BY <1>1, <1>4, <2>2, <2>3 DEF IsSlot, w, first
<1>. QED
  BY <1>2, <1>3, <1>4 DEF Cadences

\* Where _initial_index starts.
Elapsed(cadence, anchor, after) ==
    LET days == Date(after) - Date(anchor)
    IN  CASE cadence = "daily"   -> days
          [] cadence = "weekly"  -> days \div DaysPerWeek
          [] cadence = "monthly" -> Month(Date(after)) - Month(Date(anchor))

LEMMA InitialIs ==
    ASSUME NEW cadence \in Cadences, NEW anchor \in Nat, NEW after \in Nat
    PROVE  /\ Elapsed(cadence, anchor, after) \in Int
           /\ InitialIndex(cadence, anchor, after) \in Nat \ {0}
           /\ InitialIndex(cadence, anchor, after) >= Elapsed(cadence, anchor, after)
           /\ \/ InitialIndex(cadence, anchor, after) = 1
              \/ InitialIndex(cadence, anchor, after) = Elapsed(cadence, anchor, after)
<1> DEFINE n == Elapsed(cadence, anchor, after)
<1>0. Date(anchor) \in Nat /\ Date(after) \in Nat /\ DaysPerWeek \in Nat \ {0}
  BY DateIsNat, Units
<1>1. n \in Int
  <2>1. CASE cadence = "daily"
    BY <1>0, <2>1 DEF Elapsed
  <2>2. CASE cadence = "weekly"
    BY <1>0, <2>2, DivMod DEF Elapsed
  <2>3. CASE cadence = "monthly"
    BY <1>0, <2>3, MonthIs DEF Elapsed
  <2>. QED
    BY <2>1, <2>2, <2>3 DEF Cadences
<1>2. InitialIndex(cadence, anchor, after) = Max({1, n})
  BY DEF InitialIndex, Elapsed, Cadences
<1>. HIDE DEF n
<1>3. CASE 1 <= n
  <2>1. Max({1, n}) = n
    BY <1>1, <1>3, MinOfTwo
  <2>. QED
    BY <1>1, <1>2, <1>3, <2>1 DEF n
<1>4. CASE n < 1
  <2>1. {1, n} = {n, 1}
    OBVIOUS
  <2>2. Max({1, n}) = 1
    BY <1>1, <1>4, <2>1, MinOfTwo
  <2>. QED
    BY <1>1, <1>2, <1>4, <2>2 DEF n
<1>. QED
  BY <1>1, <1>3, <1>4

\* Two indices on, the slot is two days ahead: the loop of next_cadence_at ends.
LEMMA SlotAhead ==
    ASSUME NEW cadence \in Cadences, NEW anchor \in Nat, NEW after \in Nat
    PROVE  SlotDate(cadence, anchor, InitialIndex(cadence, anchor, after) + 2)
              >= Date(after) + 2
<1> DEFINE n == Elapsed(cadence, anchor, after)
           i == InitialIndex(cadence, anchor, after)
           first == Date(anchor)
           da == Date(after)
           d == SlotDate(cadence, anchor, i + 2)
<1>0. first \in Nat /\ da \in Nat /\ DaysPerWeek \in Nat \ {0} /\ n \in Int
      /\ i \in Nat /\ i >= n
  BY DateIsNat, Units, InitialIs
<1>1. CASE cadence = "daily"
  <2>1. d = first + (i + 2) /\ n = da - first
    BY <1>1 DEF SlotDate, Elapsed
  <2>. HIDE DEF d, i, n, first, da
  <2>2. d >= da + 2
    BY <1>0, <2>1
  <2>. QED
    BY <2>2 DEF d, i, n, first, da
<1>2. CASE cadence = "weekly"
  <2> DEFINE r == (da - first) % DaysPerWeek
             x == DaysPerWeek * n
             y == (i + 2) * DaysPerWeek
  <2>1. d = first + y /\ n = (da - first) \div DaysPerWeek
    BY <1>2 DEF SlotDate, Elapsed
  <2>2. da - first \in Int
    BY <1>0
  <2>3. da - first = x + r /\ r \in 0..DaysPerWeek - 1
    BY <1>0, <2>1, <2>2, DivMod
  <2>4. x \in Int /\ x + DaysPerWeek + DaysPerWeek <= DaysPerWeek * (i + 2)
        /\ y = DaysPerWeek * (i + 2)
    <3>. HIDE DEF i, n
    <3>1. i + 2 \in Int /\ n + 2 <= i + 2
      BY <1>0
    <3>. QED
      BY <1>0, <3>1, Scaled
  <2>. HIDE DEF d, i, n, first, da, r, x, y
  <2>5. x + DaysPerWeek + DaysPerWeek <= y /\ y \in Int
    BY <1>0, <2>4
  <2>6. d >= da + 2
    BY <1>0, <2>1, <2>3, <2>4, <2>5
  <2>. QED
    BY <2>6 DEF d, i, n, first, da
<1>3. CASE cadence = "monthly"
  <2> DEFINE m == Month(da)
  <2>1. /\ Month(d) = Month(first) + (i + 2) /\ n = m - Month(first)
        /\ d \in Nat /\ i + 2 \in Nat
    BY <1>0, <1>3, MonthSlot DEF Elapsed
  <2>2. /\ Month(first) \in Nat /\ m \in Nat /\ da < MonthStart[m + 1]
        /\ Month(d) \in Nat /\ MonthStart[Month(d)] <= d
    BY <1>0, <2>1, MonthIs
  <2>. HIDE DEF d, i, n, first, da, m
  <2>3. m + 1 < Month(d) /\ m + 1 \in Nat /\ (m + 1) + 1 \in Nat
    BY <1>0, <2>1, <2>2
  <2>4. /\ MonthStart[(m + 1) + 1] <= MonthStart[Month(d)]
        /\ MonthStart[m + 1] < MonthStart[(m + 1) + 1]
        /\ MonthStart[m + 1] \in Nat /\ MonthStart[(m + 1) + 1] \in Nat
        /\ MonthStart[Month(d)] \in Nat
    BY <2>2, <2>3, StartsIncrease, MonthStarts
  <2>5. d >= da + 2
    BY <1>0, <2>1, <2>2, <2>4
  <2>. QED
    BY <2>5 DEF d, i, n, first, da
<1>. QED
  BY <1>1, <1>2, <1>3 DEF Cadences

\* Every slot is the candidate of an index, and no search that starts on its date
\* or earlier starts behind that index.
LEMMA SlotHasIndex ==
    ASSUME NEW cadence \in Cadences, NEW anchor \in Nat, NEW w \in Int,
           IsSlot(cadence, anchor, w)
    PROVE  \E i \in Nat \ {0} :
              /\ w = CandidateLocal(cadence, anchor, i)
              /\ \A after \in Nat : Date(after) <= Date(w)
                    => InitialIndex(cadence, anchor, after) <= i
<1> DEFINE first == Date(anchor)
           date == Date(w)
<1>0. /\ first \in Nat /\ date \in Nat /\ date > first /\ DaysPerWeek \in Nat \ {0}
      /\ Time(w) = Time(anchor)
  <2>1. first \in Nat /\ date \in Int /\ date > first /\ Time(w) = Time(anchor)
    BY DateIsNat, WallTypes DEF IsSlot
  <2>. HIDE DEF first, date
  <2>. QED
    BY <2>1, Units
<1>1. SUFFICES \E i \in Nat \ {0} :
                  /\ date = SlotDate(cadence, anchor, i)
                  /\ \A after \in Nat : Date(after) <= date
                        => Elapsed(cadence, anchor, after) <= i
  <2>1. PICK i \in Nat \ {0} :
                  /\ date = SlotDate(cadence, anchor, i)
                  /\ \A after \in Nat : Date(after) <= date
                        => Elapsed(cadence, anchor, after) <= i
    BY <1>1
  <2>2. w = CandidateLocal(cadence, anchor, i)
    BY <1>0, <2>1, WallParts, CandidateIs
  <2>3. ASSUME NEW after \in Nat, Date(after) <= date
        PROVE  InitialIndex(cadence, anchor, after) <= i
    <3>1. Elapsed(cadence, anchor, after) <= i
      BY <2>1, <2>3
    <3>2. \/ InitialIndex(cadence, anchor, after) = 1
          \/ InitialIndex(cadence, anchor, after) = Elapsed(cadence, anchor, after)
      BY InitialIs
    <3>3. 1 <= i
      OBVIOUS
    <3>. QED
      BY <3>1, <3>2, <3>3
  <2>. QED
    BY <2>2, <2>3
<1>2. CASE cadence = "daily"
  <2> DEFINE i == date - first
  <2>1. i \in Nat \ {0} /\ first + i = date
    BY <1>0
  <2>2. date = SlotDate(cadence, anchor, i)
    BY <1>2, <2>1 DEF SlotDate
  <2>3. ASSUME NEW after \in Nat, Date(after) <= date
        PROVE  Elapsed(cadence, anchor, after) <= i
    <3>1. Elapsed(cadence, anchor, after) = Date(after) - first /\ Date(after) \in Nat
      BY <1>2, DateIsNat DEF Elapsed
    <3>. QED
      BY <1>0, <2>3, <3>1
  <2>. HIDE DEF i
  <2>. QED
    BY <2>1, <2>2, <2>3
<1>3. CASE cadence = "weekly"
  <2> DEFINE i == (date - first) \div DaysPerWeek
             x == DaysPerWeek * i
  <2>1. date - first \in Int /\ (date - first) % DaysPerWeek = 0
    BY <1>0, <1>3 DEF IsSlot
  <2>2. date - first = x /\ i \in Int
    <3>1. date - first = x + ((date - first) % DaysPerWeek) /\ i \in Int
      BY <1>0, <2>1, DivMod
    <3>2. x \in Int
      BY <1>0, <3>1, Scaled
    <3>. HIDE DEF x, i
    <3>. QED
      BY <2>1, <3>1, <3>2
  <2>. HIDE DEF i
  <2>3. i \in Nat \ {0}
    <3>1. i \in Int
      BY <2>2
    <3>2. i <= 0 => x <= 0
      BY <1>0, <3>1
    <3>3. x > 0 /\ x \in Int
      BY <1>0, <2>2
    <3>4. ~(i <= 0)
      <4>. HIDE DEF x
      <4>. QED
        BY <3>2, <3>3
    <3>. QED
      BY <3>1, <3>4
  <2>4. date = SlotDate(cadence, anchor, i)
    <3>1. SlotDate(cadence, anchor, i) = first + i * DaysPerWeek
      BY <1>3 DEF SlotDate
    <3>2. i * DaysPerWeek = x /\ x \in Int
      BY <1>0, <2>2
    <3>. HIDE DEF x
    <3>. QED
      BY <1>0, <2>2, <3>1, <3>2
  <2>5. ASSUME NEW after \in Nat, Date(after) <= date
        PROVE  Elapsed(cadence, anchor, after) <= i
    <3> DEFINE days == Date(after) - first
               q == days \div DaysPerWeek
               y == DaysPerWeek * q
               r == days % DaysPerWeek
    <3>1. Elapsed(cadence, anchor, after) = q
      BY <1>3 DEF Elapsed
    <3>2. Date(after) \in Nat
      BY DateIsNat
    <3>3. days \in Int /\ days <= date - first
      BY <1>0, <2>5, <3>2
    <3>4. days = y + r /\ q \in Int /\ r \in 0..DaysPerWeek - 1
      BY <1>0, <3>3, DivMod
    <3>. HIDE DEF days, q, r
    <3>5. i < q => x + DaysPerWeek <= y
      BY <1>0, <2>2, <3>4, Scaled
    <3>6. y \in Int /\ x \in Int
      BY <1>0, <2>2, <3>4, Scaled
    <3>. HIDE DEF x, y
    <3>7. ~(i < q)
      BY <1>0, <2>2, <3>3, <3>4, <3>5, <3>6
    <3>8. q <= i
      BY <2>2, <3>4, <3>7
    <3>. QED
      BY <3>1, <3>8
  <2>. QED
    BY <2>3, <2>4, <2>5
<1>4. CASE cadence = "monthly"
  <2> DEFINE i == Month(date) - Month(first)
  <2>1. /\ Month(date) > Month(first)
        /\ \/ Day(date) = Day(first)
           \/ /\ Day(date) < Day(first)
              /\ Day(date) = MonthLength(Month(date)) - 1
    BY <1>4 DEF IsSlot
  <2>2. /\ Month(date) \in Nat /\ Month(first) \in Nat
        /\ Day(date) \in 0..MonthLength(Month(date)) - 1
        /\ Day(first) \in 0..MonthLength(Month(first)) - 1
    BY <1>0, MonthIs
  <2>3. i \in Nat \ {0} /\ Month(first) + i = Month(date)
    <3>. HIDE DEF first, date
    <3>. QED
      BY <2>1, <2>2 DEF i
  <2> DEFINE d == SlotDate("monthly", anchor, i)
  <2>4. /\ d \in Nat /\ Month(d) = Month(date)
        /\ \/ Day(d) = Day(first)
           \/ /\ Day(d) < Day(first)
              /\ Day(d) = MonthLength(Month(date)) - 1
    <3>. HIDE DEF i
    <3>. QED
      BY <2>3, MonthSlot
  <2>. HIDE DEF i
  <2>5. Day(d) \in 0..MonthLength(Month(date)) - 1
    BY <2>4, MonthIs
  <2>6. MonthLength(Month(date)) \in Nat /\ MonthLength(Month(first)) \in Nat
    BY <2>2, MonthLengthType
  <2>7. Day(d) = Day(date)
    <3>. HIDE DEF d, date, first
    <3>. QED
      BY <2>1, <2>2, <2>4, <2>5, <2>6
  <2>8. d = date
    <3>1. MonthStart[Month(date)] \in Nat
      BY <2>2, MonthStarts
    <3>2. /\ Day(d) = d - MonthStart[Month(date)]
          /\ Day(date) = date - MonthStart[Month(date)]
      BY <2>4 DEF Day
    <3>. QED
      BY <1>0, <2>4, <2>7, <3>1, <3>2
  <2>9. ASSUME NEW after \in Nat, Date(after) <= date
        PROVE  Elapsed(cadence, anchor, after) <= i
    <3>1. Date(after) \in Nat
      BY DateIsNat
    <3>2. Month(Date(after)) <= Month(date) /\ Month(Date(after)) \in Nat
      BY <1>0, <2>9, <3>1, MonthsInOrder, MonthIs
    <3>3. Elapsed(cadence, anchor, after) = Month(Date(after)) - Month(first)
      BY <1>4 DEF Elapsed
    <3>. QED
      BY <2>2, <3>2, <3>3 DEF i
  <2>. QED
    BY <1>4, <2>3, <2>8, <2>9
<1>. QED
  BY <1>2, <1>3, <1>4 DEF Cadences

\* next_cadence_at tries indices until one is late enough; the slot two indices on
\* is two days ahead, and no transition takes more than one of them back.
LEMMA NextIs ==
    ASSUME NEW recurrence \in Recurrences, NEW starts \in Nat, NEW after \in Nat
    PROVE  LET z == recurrence.zone
               anchor == Local(z, starts)
               initial == InitialIndex(recurrence.cadence, anchor, Local(z, after))
               candidate(i) == Resolved(z, CandidateLocal(recurrence.cadence, anchor, i))
           IN  \E index \in Nat \ {0} :
                  /\ initial <= index
                  /\ candidate(index) > after
                  /\ \A i \in initial..index - 1 : candidate(i) <= after
                  /\ NextCadenceAt(recurrence, starts, after)
                       = IF recurrence.ends # None /\ candidate(index) >= recurrence.ends
                         THEN None ELSE candidate(index)
<1> DEFINE z == recurrence.zone
           cadence == recurrence.cadence
           anchor == Local(z, starts)
           now == Local(z, after)
           initial == InitialIndex(cadence, anchor, now)
           wall(i) == CandidateLocal(cadence, anchor, i)
           candidate(i) == Resolved(z, wall(i))
           S == {i \in initial..initial + Lookahead : candidate(i) > after}
           T == {i \in initial..initial + Lookahead : ResolveLocal(z, wall(i)) > after}
           index == Min(T)
<1>0. z \in Zones /\ cadence \in Cadences
  BY DEF Recurrences
<1>. HIDE DEF z, cadence
<1>1. anchor \in Nat /\ now \in Nat
  BY <1>0, ZoneFields
<1>. HIDE DEF anchor, now
<1>2. initial \in Nat \ {0}
  BY <1>0, <1>1, InitialIs
<1>3. \A i \in Nat : wall(i) \in Int /\ ResolveLocal(z, wall(i)) = candidate(i)
                    /\ candidate(i) \in Int
  BY <1>0, <1>1, CandidateIs, ResolvedIs, ResolvedLocal
<1>4. candidate(initial + 2) > after
  <2>1. SlotDate(cadence, anchor, initial + 2) >= Date(now) + 2
    BY <1>0, <1>1, SlotAhead
  <2>. HIDE DEF initial
  <2>2. Date(wall(initial + 2)) = SlotDate(cadence, anchor, initial + 2)
    BY <1>0, <1>1, <1>2, CandidateIs
  <2>3. wall(initial + 2) \in Int /\ Date(now) \in Int /\ Date(wall(initial + 2)) \in Int
    BY <1>1, <1>2, <1>3, WallTypes
  <2>. HIDE DEF wall
  <2>4. Date(now) + 2 <= Date(wall(initial + 2))
    BY <2>1, <2>2, <2>3
  <2>5. now + DayLength < wall(initial + 2)
    BY <1>1, <2>3, <2>4, DatesInOrder
  <2>. QED
    BY <1>0, <2>3, <2>5, ResolvedLate DEF now
<1>. HIDE DEF initial, wall
<1>5. S = T
  BY <1>2, <1>3, Units
<1>. HIDE DEF candidate
<1>6. initial + 2 \in S /\ S \subseteq Nat
  BY <1>2, <1>4, Units
<1>7. index \in S /\ \A j \in S : index <= j
  <2>1. \E i \in S : \A j \in S : i <= j
    BY <1>6, Least
  <2>. QED
    BY <1>5, <2>1 DEF Min
<1>8. /\ index \in Nat \ {0} /\ initial <= index /\ candidate(index) > after
      /\ \A i \in initial..index - 1 : candidate(i) <= after
  <2>. HIDE DEF index
  <2>1. index \in Nat \ {0} /\ initial <= index /\ candidate(index) > after
        /\ index <= initial + Lookahead
    BY <1>2, <1>7, Units
  <2>2. ASSUME NEW i \in initial..index - 1 PROVE candidate(i) <= after
    <3>1. i \in Nat /\ i \in initial..initial + Lookahead /\ ~(index <= i)
      BY <1>2, <2>1, Units
    <3>2. ~(candidate(i) > after)
      BY <1>7, <3>1
    <3>3. candidate(i) \in Int
      BY <1>3, <3>1
    <3>. QED
      BY <3>2, <3>3
  <2>. QED
    BY <2>1, <2>2
<1>9. NextCadenceAt(recurrence, starts, after)
        = IF recurrence.ends # None /\ candidate(index) >= recurrence.ends
          THEN None ELSE candidate(index)
  <2>1. NextCadenceAt(recurrence, starts, after)
        = IF recurrence.ends # None /\ ResolveLocal(z, wall(index)) >= recurrence.ends
          THEN None ELSE ResolveLocal(z, wall(index))
    BY DEF NextCadenceAt, z, cadence, anchor, now, initial, wall
  <2>. HIDE DEF index
  <2>. QED
    BY <1>3, <1>8, <2>1
<1>. HIDE DEF index
<1>. QED
  BY <1>8, <1>9 DEF candidate, wall, initial, anchor, now, z, cadence
-----------------------------------------------------------------------------
(***************************************************************************)
(* A call that was accepted keeps what it was accepted with until its rows *)
(* are committed, so the first run of a series is before its end; and what *)
(* a run was chosen by decides where it is.                                *)
(***************************************************************************)
RequestsOK ==
    /\ clock \in 0..Horizon
    /\ \A c \in Clients :
          /\ client[c].request \in workload[c] \cup {None}
          /\ client[c].at \in Nat \cup {None}
          /\ At(c, {"series", "job", "inserted"}) =>
                LET recurrence == client[c].request.recurrence
                IN  /\ client[c].request \in workload[c] /\ client[c].at \in Nat
                    /\ recurrence # None /\ recurrence.ends # None =>
                          client[c].at < recurrence.ends

Lives == [state: {"active", "completed", "cancelled"}, recurrence: Recurrences,
          starts: Nat, run: Nat, by: {"start", "cadence", "handler"}]

\* The instant of the i-th slot.
SlotInstant(recurrence, starts, i) ==
    Resolved(recurrence.zone,
             CandidateLocal(recurrence.cadence, Local(recurrence.zone, starts), i))

SeriesOK ==
    series # None =>
        /\ series \in Lives
        /\ series.recurrence.ends # None => series.run < series.recurrence.ends
        /\ series.by = "cadence" =>
              \E i \in Nat \ {0} : series.run = SlotInstant(series.recurrence, series.starts, i)

SeriesInv == KeyInv /\ RequestsOK /\ SeriesOK

\* A request that a client may make has the fields of one.
LEMMA RequestFields ==
    ASSUME workload \in Workloads, NEW c \in Clients, NEW request \in workload[c]
    PROVE  /\ request.run_at \in Nat \cup {None}
           /\ request.recurrence \in Recurrences \cup {None}
BY SeriesAssumption

\* What a call keeps on its way to the commit.
LEMMA RequestsStep ==
    ASSUME KeyInv, RequestsOK, Next
    PROVE  RequestsOK'
<1>0. /\ client \in [Clients -> Calls] /\ workload \in Workloads /\ workload' = workload
      /\ clock \in 0..Horizon /\ Horizon \in Nat
  BY SeriesAssumption DEF KeyInv, CallsOK, RequestsOK, Next
<1>1. ASSUME UNCHANGED client, clock' \in 0..Horizon PROVE RequestsOK'
  BY <1>0, <1>1 DEF RequestsOK, At
<1>2. ASSUME NEW c \in Clients, NEW s,
             client' = [client EXCEPT ![c] = s], UNCHANGED clock,
             s.request \in workload[c] \cup {None}, s.at \in Nat \cup {None},
             s.pc \in {"series", "job", "inserted"} =>
                /\ s.request \in workload[c] /\ s.at \in Nat
                /\ s.request.recurrence # None /\ s.request.recurrence.ends # None =>
                      s.at < s.request.recurrence.ends
      PROVE  RequestsOK'
  <2>1. client'[c] = s /\ \A d \in Clients \ {c} : client'[d] = client[d]
    BY <1>0, <1>2
  <2>. QED
    BY <1>0, <1>2, <2>1 DEF RequestsOK, At
<1>3. ASSUME NEW c \in Clients, NEW request \in workload[c], Call(c, request)
      PROVE  RequestsOK'
  <2> DEFINE s == [pc |-> IF request.recurrence = None THEN "job" ELSE "series",
                   request |-> request, at |-> RunAt(request, clock), result |-> None]
  <2>1. s.at \in Nat
    BY <1>0, RequestFields DEF RunAt
  <2>2. s.request = request /\ s.at = RunAt(request, clock)
    OBVIOUS
  <2>3. client' = [client EXCEPT ![c] = s] /\ UNCHANGED clock
    BY <1>3 DEF Call
  <2>4. request.recurrence # None /\ request.recurrence.ends # None =>
           RunAt(request, clock) < request.recurrence.ends
    BY <1>3 DEF Call, Acceptable
  <2>. HIDE DEF s
  <2>. QED
    BY <1>2, <2>1, <2>2, <2>3, <2>4
<1>4. ASSUME NEW c \in Clients, NEW s,
             client' = [client EXCEPT ![c] = s], UNCHANGED clock,
             s.request = client[c].request, s.at = client[c].at,
             s.pc \in {"series", "job", "inserted"} => At(c, {"series", "job"})
      PROVE  RequestsOK'
  BY <1>2, <1>4 DEF RequestsOK, At
<1>5. ASSUME NEW c \in Clients,
             InsertSeries(c) \/ InsertJob(c) \/ InsertFails(c) \/ Lookup(c) \/ Commit(c)
      PROVE  RequestsOK'
  <2>1. PICK pc, result :
           /\ client' = [client EXCEPT ![c] = [client[c] EXCEPT !.pc = pc, !.result = result]]
           /\ UNCHANGED clock
           /\ pc \in {"series", "job", "inserted"} => At(c, {"series", "job"})
    <3>1. \A pc : [client[c] EXCEPT !.pc = pc]
                    = [client[c] EXCEPT !.pc = pc, !.result = client[c].result]
      BY <1>0 DEF Calls
    <3>2. CASE InsertSeries(c)
      BY <1>0, <3>1, <3>2 DEF InsertSeries, At
    <3>3. CASE InsertJob(c)
      BY <1>0, <3>3 DEF InsertJob, At
    <3>4. CASE InsertFails(c)
      BY <1>0, <3>1, <3>4 DEF InsertFails, At
    <3>5. CASE Lookup(c)
      <4>1. PICK pc, result :
               /\ client' = [client EXCEPT ![c].pc = pc, ![c].result = result]
               /\ pc \in {"conflict", "found"} /\ UNCHANGED clock
        BY <3>5 DEF Lookup
      <4>. QED
        BY <1>0, <4>1
    <3>6. CASE Commit(c)
      <4>1. client' = [client EXCEPT ![c].pc = "scheduled"] /\ UNCHANGED clock
        BY <3>6 DEF Commit
      <4>2. client' = [client EXCEPT ![c] = [client[c] EXCEPT !.pc = "scheduled",
                                                              !.result = client[c].result]]
        BY <1>0, <3>1, <4>1
      <4>3. "scheduled" \notin {"series", "job", "inserted"}
        OBVIOUS
      <4>. QED
        BY <4>1, <4>2, <4>3
    <3>. QED
      BY <1>5, <3>2, <3>3, <3>4, <3>5, <3>6
  <2> DEFINE s == [client[c] EXCEPT !.pc = pc, !.result = result]
  <2>2. s.request = client[c].request /\ s.at = client[c].at /\ s.pc = pc
    BY <1>0 DEF Calls
  <2>. HIDE DEF s
  <2>. QED
    BY <1>4, <2>1, <2>2 DEF s
<1>6. ASSUME NEW c \in Clients, Rollback(c) PROVE RequestsOK'
  <2>1. client' = [client EXCEPT ![c] = NoRequest] /\ UNCHANGED clock
    BY <1>6 DEF Rollback
  <2>2. NoRequest.request = None /\ NoRequest.at = None /\ NoRequest.pc = "idle"
    BY DEF NoRequest
  <2>. QED
    BY <1>2, <2>1, <2>2
<1>7. CASE CompleteNone \/ CompleteEnd \/ Cancel \/ \E lead \in Leads : CompleteNext(lead)
  BY <1>0, <1>1, <1>7 DEF CompleteNone, CompleteEnd, Cancel, CompleteNext
<1>8. CASE Tick
  BY <1>0, <1>1, <1>8 DEF Tick
<1>. QED
  BY <1>3, <1>5, <1>6, <1>7, <1>8 DEF Next

\* An instant is a number.
LEMMA SlotInstantIs ==
    ASSUME NEW r \in Recurrences, NEW starts \in Nat, NEW i \in Nat
    PROVE  SlotInstant(r, starts, i) \in Int
<1>1. r.zone \in Zones /\ r.cadence \in Cadences
  BY DEF Recurrences
<1>2. Local(r.zone, starts) \in Nat
  BY <1>1, ZoneFields
<1>3. CandidateLocal(r.cadence, Local(r.zone, starts), i) \in Int
  BY <1>1, <1>2, CandidateIs
<1>. QED
  BY <1>1, <1>3, ResolvedLocal DEF SlotInstant

\* The next run by the cadence is the instant of a slot and after the completion;
\* a series with an end goes on only before it.
LEMMA CadenceStep ==
    ASSUME KeyInv, SeriesOK, CompleteNone
    PROVE  SeriesOK'
<1> DEFINE r == series.recurrence
           next == NextCadenceAt(r, series.starts, clock)
<1>0. series # None /\ series \in Lives /\ clock \in Nat
  BY DEF SeriesOK, CompleteNone, Running, KeyInv, CallsOK
<1>1. r \in Recurrences /\ series.starts \in Nat /\ r.ends \in Nat \cup {None} /\ None \notin Int
  BY <1>0, RecurrenceAssumption DEF Lives, Recurrences
<1>2. PICK i \in Nat \ {0} :
         /\ SlotInstant(r, series.starts, i) > clock
         /\ next = IF r.ends # None /\ SlotInstant(r, series.starts, i) >= r.ends
                   THEN None ELSE SlotInstant(r, series.starts, i)
  <2>. HIDE DEF r
  <2>. QED
    BY <1>0, <1>1, NextIs DEF SlotInstant
<1> DEFINE u == SlotInstant(r, series.starts, i)
<1>3. u \in Int
  BY <1>1, SlotInstantIs
<1>. HIDE DEF next, u
<1>4. CASE next = None
  <2>1. series' = [series EXCEPT !.state = "completed"]
    BY <1>4 DEF CompleteNone, Finished, next
  <2>. QED
    BY <1>0, <2>1 DEF SeriesOK, Lives
<1>5. CASE next # None
  <2>1. next = u /\ u \in Nat /\ (r.ends # None => u < r.ends)
    BY <1>0, <1>1, <1>2, <1>3, <1>5 DEF u
  <2>2. series' = [series EXCEPT !.run = u, !.by = "cadence"]
    BY <1>5, <2>1 DEF CompleteNone, next
  <2>3. /\ series' \in Lives /\ series'.recurrence = r /\ series'.starts = series.starts
        /\ series'.run = u
    BY <1>0, <2>1, <2>2 DEF Lives
  <2>. QED
    BY <2>1, <2>3 DEF SeriesOK, u
<1>. QED
  BY <1>4, <1>5

LEMMA SeriesStep ==
    ASSUME KeyInv, RequestsOK, SeriesOK, Next
    PROVE  SeriesOK'
<1>0. clock \in Nat /\ workload \in Workloads /\ None \notin Int
  BY RecurrenceAssumption DEF KeyInv, CallsOK
<1>1. ASSUME UNCHANGED series PROVE SeriesOK'
  BY <1>1 DEF SeriesOK
<1>2. ASSUME NEW c \in Clients, Commit(c) PROVE SeriesOK'
  <2>1. CASE c \notin seriesRows
    BY <1>1, <1>2, <2>1 DEF Commit
  <2>2. CASE c \in seriesRows
    <3> DEFINE r == client[c].request.recurrence
    <3>1. /\ client[c].request \in workload[c] /\ client[c].at \in Nat /\ r # None
          /\ r.ends # None => client[c].at < r.ends
      BY <1>2, <2>2 DEF Commit, RequestsOK, KeyInv, RowsOK, At
    <3>2. r \in Recurrences
      BY <1>0, <3>1, RequestFields
    <3>3. series' = [state |-> "active", recurrence |-> r, starts |-> client[c].at,
                     run |-> client[c].at, by |-> "start"]
      BY <1>2, <2>2 DEF Commit
    <3>. HIDE DEF r
    <3>. QED
      BY <3>1, <3>2, <3>3 DEF SeriesOK, Lives
  <2>. QED
    BY <2>1, <2>2
<1>3. ASSUME NEW state \in {"completed", "cancelled"}, series # None,
             series' = Finished(state)
      PROVE  SeriesOK'
  <2>1. /\ series' \in Lives /\ series'.recurrence = series.recurrence
        /\ series'.run = series.run /\ series'.starts = series.starts
        /\ series'.by = series.by
    BY <1>3 DEF SeriesOK, Finished, Lives
  <2>. QED
    BY <1>3, <2>1 DEF SeriesOK
<1>4. ASSUME NEW lead \in Leads, CompleteNext(lead) PROVE SeriesOK'
  <2>1. series # None /\ series \in Lives /\ lead \in Int /\ lead > 0
    BY <1>4, SeriesAssumption DEF SeriesOK, CompleteNext, Running
  <2>2. CASE Ended(clock + lead)
    BY <1>3, <1>4, <2>1, <2>2 DEF CompleteNext
  <2>3. CASE ~Ended(clock + lead)
    <3>1. series' = [series EXCEPT !.run = clock + lead, !.by = "handler"]
      BY <1>4, <2>3 DEF CompleteNext
    <3>2. clock + lead \in Nat
      BY <1>0, <2>1
    <3>3. series.recurrence.ends # None => clock + lead < series.recurrence.ends
      BY <2>1, <2>3, <3>2 DEF Ended, Lives, Recurrences
    <3>4. /\ series' \in Lives /\ series'.recurrence = series.recurrence
          /\ series'.run = clock + lead /\ series'.by = "handler"
      BY <2>1, <3>1, <3>2 DEF Lives
    <3>. QED
      BY <3>3, <3>4 DEF SeriesOK
  <2>. QED
    BY <2>2, <2>3
<1>5. CASE CompleteEnd
  BY <1>3, <1>5 DEF CompleteEnd, Running
<1>6. CASE Cancel
  BY <1>3, <1>6 DEF Cancel
<1>7. CASE Tick
  BY <1>1, <1>7 DEF Tick
<1>8. ASSUME NEW c \in Clients,
             \/ \E request \in workload[c] : Call(c, request)
             \/ InsertSeries(c) \/ InsertJob(c) \/ InsertFails(c) \/ Lookup(c) \/ Rollback(c)
      PROVE  SeriesOK'
  BY <1>1, <1>8 DEF Call, InsertSeries, InsertJob, InsertFails, Lookup, Rollback
<1>. QED
  BY <1>2, <1>4, <1>5, <1>6, <1>7, <1>8, CadenceStep DEF Next

LEMMA SeriesInductive == Spec => []SeriesInv
<1>1. Init => RequestsOK /\ SeriesOK
  <2> SUFFICES ASSUME Init PROVE RequestsOK /\ SeriesOK
    OBVIOUS
  <2>1. /\ NoRequest.request = None /\ NoRequest.at = None /\ NoRequest.pc = "idle"
    BY DEF NoRequest
  <2>2. RequestsOK
    BY <2>1, SeriesAssumption DEF Init, RequestsOK, At
  <2>. QED
    BY <2>2 DEF Init, SeriesOK
<1>2. KeyInv /\ RequestsOK /\ SeriesOK /\ [Next]_vars => RequestsOK' /\ SeriesOK'
  <2>1. CASE UNCHANGED vars
    BY <2>1 DEF vars, RequestsOK, SeriesOK, At
  <2>. QED
    BY <2>1, RequestsStep, SeriesStep
<1>. QED
  BY <1>1, <1>2, KeyInductive, PTL DEF Spec, SeriesInv

\* Calls, rows and the series always hold values of their kind, and the next run of
\* a series is before its end, whoever chose it.
THEOREM SeriesTypeCorrect == Spec => []TypeOK
<1>1. SeriesInv => TypeOK
  <2> SUFFICES ASSUME SeriesInv PROVE TypeOK
    OBVIOUS
  <2>1. ASSUME NEW c \in Clients
        PROVE  /\ DOMAIN client[c] = {"pc", "request", "at", "result"}
               /\ client[c].pc \in PCs
               /\ client[c].result \in Clients \cup {None}
    <3>1. client[c] \in Calls
      BY DEF SeriesInv, KeyInv, CallsOK
    <3>. QED
      BY <3>1 DEF Calls
  <2>2. jobRows \subseteq Clients /\ seriesRows \subseteq Clients /\ committed \subseteq Clients
    BY DEF SeriesInv, KeyInv, RowsOK
  <2>3. series # None =>
          /\ series.state \in {"active", "completed", "cancelled"}
          /\ series.recurrence.ends # None => series.run < series.recurrence.ends
    BY DEF SeriesInv, SeriesOK, Lives
  <2>. QED
    BY <2>1, <2>2, <2>3 DEF TypeOK, SeriesInv, RequestsOK
<1>. QED
  BY <1>1, SeriesInductive, PTL

\* Every run that next_cadence_at has chosen is the instant of a slot of the first
\* run's wall clock time, in any calendar and for any transition of the zone.
THEOREM WallClockKept == Spec => []KeepsWallClock
<1>1. SeriesInv => KeepsWallClock
  <2> SUFFICES ASSUME SeriesInv, series # None, series.by = "cadence"
               PROVE  LET z == series.recurrence.zone
                      IN  \E wall \in Local(z, series.run) - DayLength..Local(z, series.run) :
                            /\ IsSlot(series.recurrence.cadence, Local(z, series.starts), wall)
                            /\ IsInstantOf(z, series.run, wall)
    BY DEF KeepsWallClock
  <2> DEFINE r == series.recurrence
             z == r.zone
             anchor == Local(z, series.starts)
  <2>1. PICK i \in Nat \ {0} : series.run = SlotInstant(r, series.starts, i)
    BY DEF SeriesInv, SeriesOK
  <2>2. /\ r.cadence \in Cadences /\ z \in Zones /\ series.starts \in Nat /\ series.run \in Nat
    BY DEF SeriesInv, SeriesOK, Lives, Recurrences
  <2>3. anchor \in Nat
    BY <2>2, ZoneFields
  <2> DEFINE wall == CandidateLocal(r.cadence, anchor, i)
  <2>4. series.run = Resolved(z, wall)
    BY <2>1 DEF SlotInstant
  <2>. HIDE DEF r, z, anchor
  <2>5. wall \in Int /\ IsSlot(r.cadence, anchor, wall)
    <3>1. wall \in Nat
      BY <2>2, <2>3, CandidateIs
    <3>2. IsSlot(r.cadence, anchor, wall)
      BY <2>2, <2>3, CandidateIsSlot
    <3>. QED
      BY <3>1, <3>2
  <2>. HIDE DEF wall
  <2>6. IsInstantOf(z, series.run, wall)
    BY <2>2, <2>4, <2>5, InstantIs
  <2>7. wall \in Local(z, series.run) - DayLength..Local(z, series.run)
    BY <2>2, <2>4, <2>5, ResolvedLocal
  <2>. QED
    BY <2>5, <2>6, <2>7 DEF r, z, anchor
<1>. QED
  BY <1>1, SeriesInductive, PTL

\* No slot lies between a completion and the run that next_cadence_at chooses, or
\* the end of the series when it chooses none.
THEOREM FirstSlotTaken == Spec => NextIsFirstSlot
<1>1. ASSUME SeriesInv, CompleteNone
      PROVE  LET last == IF series'.state = "active" THEN series'.run - 1
                         ELSE series.recurrence.ends - 1
             IN  Slots(clock + 1, last) = {}
  <2> DEFINE r == series.recurrence
             z == r.zone
             cadence == r.cadence
             anchor == Local(z, series.starts)
             now == Local(z, clock)
             initial == InitialIndex(cadence, anchor, now)
             wall(i) == CandidateLocal(cadence, anchor, i)
             next == NextCadenceAt(r, series.starts, clock)
             last == IF series'.state = "active" THEN series'.run - 1 ELSE r.ends - 1
  <2>0. /\ series # None /\ series \in Lives /\ clock \in Nat /\ series.state = "active"
        /\ r \in Recurrences /\ series.starts \in Nat
    BY <1>1 DEF SeriesInv, SeriesOK, CompleteNone, Running, KeyInv, CallsOK, Lives
  <2>1. z \in Zones /\ cadence \in Cadences /\ r.ends \in Nat \cup {None} /\ None \notin Int
    BY <2>0, RecurrenceAssumption DEF Recurrences
  <2>2. PICK index \in Nat \ {0} :
           /\ initial <= index
           /\ \A i \in initial..index - 1 : Resolved(z, wall(i)) <= clock
           /\ next = IF r.ends # None /\ Resolved(z, wall(index)) >= r.ends
                     THEN None ELSE Resolved(z, wall(index))
    <3>. HIDE DEF r
    <3>. QED
      BY <2>0, NextIs
  <2>3. \/ next = None /\ series' = [series EXCEPT !.state = "completed"]
        \/ next # None /\ series' = [series EXCEPT !.run = next, !.by = "cadence"]
    BY <1>1 DEF CompleteNone, Finished
  <2>4. \/ next = None /\ last = r.ends - 1
        \/ next # None /\ last = next - 1
    <3>. HIDE DEF next
    <3>. QED
      BY <2>0, <2>3 DEF Lives
  <2>. HIDE DEF r, z, cadence, anchor, now, initial, wall, next
  <2>5. anchor \in Nat /\ now \in Nat
    BY <2>0, <2>1, ZoneFields DEF anchor, now
  <2>6. \A i \in Nat : wall(i) \in Nat /\ Resolved(z, wall(i)) \in Int
    BY <2>1, <2>5, CandidateIs, ResolvedLocal DEF wall
  <2>7. last \in Int /\ last < Resolved(z, wall(index))
    <3>1. Resolved(z, wall(index)) \in Int
      BY <2>6
    <3>. HIDE DEF last
    <3>. QED
      BY <2>1, <2>2, <2>4, <3>1
  <2>. HIDE DEF last
  <2>8. ASSUME NEW s \in clock + 1..last, NEW w \in Int, IsSlot(cadence, anchor, w),
               IsInstantOf(z, s, w), Date(Local(z, s)) = Date(w)
        PROVE  FALSE
    <3>1. s \in Int /\ clock < s /\ s < Resolved(z, wall(index))
      <4>1. Resolved(z, wall(index)) \in Int
        BY <2>6
      <4>. QED
        BY <2>0, <2>7, <4>1
    <3>2. s = Resolved(z, w)
      BY <2>1, <2>8, <3>1, InstantIs
    <3>3. now <= Local(z, s)
      BY <2>0, <2>1, <3>1, <3>2, ResolvedForward DEF now
    <3>4. Date(now) <= Date(w)
      BY <2>1, <2>5, <2>8, <3>1, <3>3, ZoneFields, DatesInOrder
    <3>5. PICK i \in Nat \ {0} : w = wall(i) /\ initial <= i
      BY <2>1, <2>5, <2>8, <3>4, SlotHasIndex DEF wall, initial
    <3>6. ~(i < index)
      <4> SUFFICES ASSUME i < index PROVE FALSE
        OBVIOUS
      <4>1. i \in initial..index - 1
        BY <2>1, <2>5, <3>5, InitialIs DEF initial
      <4>2. s <= clock
        BY <2>2, <3>2, <3>5, <4>1
      <4>. QED
        BY <2>0, <3>1, <4>2
    <3>7. ~(index < i)
      <4> SUFFICES ASSUME index < i PROVE FALSE
        OBVIOUS
      <4>1. Date(wall(index)) < Date(wall(i)) /\ Time(wall(index)) = Time(wall(i))
        <5>1. SlotDate(cadence, anchor, index) < SlotDate(cadence, anchor, i)
          BY <2>1, <2>5, SlotDates
        <5>2. \A j \in Nat : /\ Date(wall(j)) = SlotDate(cadence, anchor, j)
                             /\ Time(wall(j)) = Time(anchor)
          BY <2>1, <2>5, CandidateIs DEF wall
        <5>. QED
          BY <5>1, <5>2
      <4>2. wall(index) + DayLength <= wall(i)
        BY <2>6, <4>1, DatesInOrder
      <4>3. Resolved(z, wall(index)) <= s
        BY <2>1, <2>6, <3>2, <3>5, <4>2, ResolvedOrder
      <4>4. Resolved(z, wall(index)) \in Int
        BY <2>6
      <4>. QED
        BY <3>1, <4>3, <4>4
    <3>8. i = index
      BY <3>6, <3>7
    <3>. QED
      BY <3>1, <3>2, <3>5, <3>8
  <2>9. Slots(clock + 1, last) = {}
    <3> SUFFICES ASSUME NEW s \in Slots(clock + 1, last) PROVE FALSE
      OBVIOUS
    <3>1. PICK w \in Local(z, clock + 1) - DayLength..Local(z, last) + DayLength :
             /\ s \in clock + 1..last
             /\ IsSlot(cadence, anchor, w)
             /\ IsInstantOf(z, s, w) /\ Date(Local(z, s)) = Date(w)
      BY DEF Slots, z, cadence, anchor, r
    <3>2. w \in Int
      BY <2>0, <2>1, <2>7, Units, ZoneFields
    <3>. QED
      BY <2>8, <3>1, <3>2
  <2>. QED
    BY <2>9 DEF last, r
<1>. QED
  BY <1>1, SeriesInductive, PTL DEF Spec, NextIsFirstSlot
=============================================================================
