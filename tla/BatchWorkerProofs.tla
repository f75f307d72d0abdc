------------------------- MODULE BatchWorkerProofs --------------------------
(***************************************************************************)
(* Proofs about BatchWorker, for any number of workers, any number of      *)
(* hooks, any backlog and any number of faults and mishaps.                *)
(***************************************************************************)
EXTENDS BatchWorker, TLAPS

WF == INSTANCE WellFoundedInduction
FS == INSTANCE FiniteSetTheorems

(***************************************************************************)
(* The worker loop by itself.  The hooks that are open are the first ones, *)
(* up to started; run starts with none of them.                            *)
(***************************************************************************)
WorkerInv ==
    /\ WorkerTypeOK
    /\ HooksBalanced
    /\ \A w \in Workers :
          /\ worker[w].pc = "down" => worker[w].started = 0
          /\ worker[w].pc = "starting" => worker[w].started < Hooks[w]

\* The steps of worker.py.
WorkerAction(w) ==
    \/ Run(w) \/ StartHook(w) \/ StartHookRaises(w) \/ Cycle(w)
    \/ \E error \in Errors : BeforePollRaises(w, error)
    \/ AdmitPoll(w) \/ RefusePoll(w)
    \/ \E error \in Errors \cup {None} : PollEnds(w, error)
    \/ \E polled \in Errors \cup {None} : \E raised \in Errors : AfterPollRaises(w, polled, raised)
    \/ PollInterrupted(w) \/ Report(w) \/ Wait(w)
    \/ StopHook(w) \/ StopHookRaises(w) \/ EndRun(w) \/ Stop(w) \/ Kill(w)

WorkerRecords == [pc: PCs, started: Nat, error: Errors \cup {None}]
ListenRecords == [pc: ListenPCs, msg: Seq(Copies), batch: Seq(Copies),
                  buffered: BOOLEAN, requeued: BOOLEAN]

(***************************************************************************)
(* The listener.  Where listen_once is says which claims it has: none of   *)
(* the buffer while it consumes, at least one while it settles a batch;    *)
(* msg while it settles that, and not a second time once it is buffered.   *)
(* A batch that is acked has been handled.                                 *)
(***************************************************************************)
Holding(s, h) ==
    /\ s.pc \in {"flush", "consume", "sizing", "buffering", "failing", "done", "error"}
          => s.batch = <<>>
    /\ s.pc = "claiming" => Len(s.batch) < BatchSize
    /\ s.pc \in {"decoding", "acking", "retrying"} => s.batch # <<>>
    /\ s.pc \in {"idle", "consume", "sizing", "buffering"} => ~s.buffered
    /\ s.pc \in {"flush", "claiming", "decoding", "acking", "retrying", "consume",
                  "done", "error"} => s.buffered \/ s.msg = <<>>
    /\ s.pc \in {"sizing", "buffering", "failing"} => s.msg # <<>>
    /\ s.pc \in {"flush", "claiming", "decoding", "acking", "retrying"} /\ s.buffered
          => s.msg # <<>>
    /\ s.pc = "acking" => \A i \in DOMAIN s.batch : s.batch[i].event \in h

\* Claims outlive a poll only on the way out of the loop.
Leaving(w) ==
    \/ worker[w].pc \in {"polling", "stopping"}
    \/ worker[w].pc = "reporting" /\ worker[w].error = "abort"

Tied(w) ==
    /\ worker[w].pc = "polling" <=> listener[w].pc # "idle"
    /\ Leaving(w) \/ (listener[w].batch = <<>> /\ listener[w].msg = <<>>)

ListenInv ==
    /\ BatchTypeOK
    /\ listener \in [Listeners -> ListenRecords]
    /\ \A l \in Listeners : Holding(listener[l], handled) /\ Tied(l)

\* The inductive invariant.
BatchInv ==
    /\ WorkerInv /\ ListenInv /\ NoEventLost
    /\ scenario \in Scenarios /\ mishaps \in Nat
-----------------------------------------------------------------------------
\* A step that opens and closes no hook.
LEMMA HooksStay ==
    ASSUME WorkerInv, NEW w \in Workers, NEW s \in WorkerRecords,
           worker' = [worker EXCEPT ![w] = s], s.started = worker[w].started,
           s.pc \notin {"down", "starting"} \/ (s.pc = "starting" /\ s.started < Hooks[w]),
           UNCHANGED open, stop' \in [Workers -> BOOLEAN]
    PROVE  WorkerInv'
<1>1. worker \in [Workers -> WorkerRecords]
  BY DEF WorkerInv, WorkerTypeOK, WorkerRecords
<1>2. /\ worker' \in [Workers -> WorkerRecords] /\ worker'[w] = s
      /\ \A v \in Workers : /\ worker'[v].started = worker[v].started
                            /\ v # w => worker'[v] = worker[v]
  BY <1>1
<1>. QED
  BY <1>2 DEF WorkerInv, WorkerTypeOK, WorkerRecords, HooksBalanced

LEMMA HooksChange ==
    ASSUME WorkerInv, NEW w \in Workers, NEW s \in WorkerRecords,
           worker' = [worker EXCEPT ![w] = s], s.started <= Hooks[w],
           s.pc = "starting" => s.started < Hooks[w],
           s.pc = "down" => s.started = 0,
           open' = [open EXCEPT ![w] = 1..s.started], UNCHANGED stop
    PROVE  WorkerInv'
<1>1. worker \in [Workers -> WorkerRecords] /\ open \in [Workers -> SUBSET Nat]
  BY DEF WorkerInv, WorkerTypeOK, WorkerRecords
<1>2. /\ worker' \in [Workers -> WorkerRecords] /\ worker'[w] = s
      /\ \A v \in Workers \ {w} : worker'[v] = worker[v]
  BY <1>1
<1>3. /\ open' \in [Workers -> SUBSET Nat] /\ open'[w] = 1..s.started
      /\ \A v \in Workers \ {w} : open'[v] = open[v]
  BY <1>1 DEF WorkerRecords
<1>4. HooksBalanced'
  BY <1>2, <1>3 DEF WorkerInv, HooksBalanced
<1>. QED
  BY <1>2, <1>3, <1>4 DEF WorkerInv, WorkerTypeOK, WorkerRecords

LEMMA WorkerPreserves ==
    ASSUME WorkerInv, NEW w \in Workers, WorkerAction(w)
    PROVE  WorkerInv'
<1>0. /\ worker[w] \in WorkerRecords /\ worker \in [Workers -> WorkerRecords]
      /\ stop \in [Workers -> BOOLEAN] /\ open \in [Workers -> SUBSET Nat]
      /\ open[w] = 1..worker[w].started /\ worker[w].started \in Nat
      /\ worker[w].started <= Hooks[w] /\ Hooks[w] \in Nat
  BY WorkerAssumption DEF WorkerInv, WorkerTypeOK, WorkerRecords, HooksBalanced
<1>1. ASSUME NEW pc \in PCs, NEW error \in Errors \cup {None},
             worker' = [worker EXCEPT ![w].pc = pc, ![w].error = error],
             pc \notin {"down", "starting"} \/ (pc = "starting" /\ worker[w].started < Hooks[w]),
             UNCHANGED open, stop' \in [Workers -> BOOLEAN]
      PROVE  WorkerInv'
  <2> DEFINE s == [worker[w] EXCEPT !.pc = pc, !.error = error]
  <2>1. s \in WorkerRecords /\ s.started = worker[w].started /\ s.pc = pc
    BY <1>0 DEF WorkerRecords
  <2>2. worker' = [worker EXCEPT ![w] = s]
    BY <1>0, <1>1
  <2>. HIDE DEF s
  <2>. QED
    BY <1>1, <2>1, <2>2, HooksStay
<1>2. ASSUME NEW pc \in PCs, Goto(w, pc),
             pc \notin {"down", "starting"} \/ (pc = "starting" /\ worker[w].started < Hooks[w]),
             UNCHANGED open, stop' \in [Workers -> BOOLEAN]
      PROVE  WorkerInv'
  <2>1. worker' = [worker EXCEPT ![w].pc = pc, ![w].error = worker[w].error]
    BY <1>0, <1>2 DEF Goto, WorkerRecords
  <2>2. worker[w].error \in Errors \cup {None}
    BY <1>0 DEF WorkerRecords
  <2>. QED
    BY <1>1, <1>2, <2>1, <2>2
<1>3. CASE Run(w)
  <2>1. worker[w].started = 0 /\ stop' \in [Workers -> BOOLEAN] /\ UNCHANGED open
    BY <1>0, <1>3 DEF Run, WorkerInv
  <2>. QED
    BY <1>0, <1>2, <1>3, <2>1 DEF Run, PCs
<1>4. CASE StartHook(w)
  <2> DEFINE n == worker[w].started + 1
             s == [worker[w] EXCEPT !.started = n,
                      !.pc = IF n = Hooks[w] THEN "looping" ELSE worker[w].pc]
  <2>1. worker[w].pc = "starting" /\ worker[w].started < Hooks[w] /\ UNCHANGED stop
    BY <1>4 DEF StartHook, WorkerInv
  <2>2. n \in Nat /\ n <= Hooks[w] /\ (n # Hooks[w] => n < Hooks[w])
    BY <1>0, <2>1
  <2>3. s \in WorkerRecords /\ s.started = n /\ (s.pc = "starting" => n < Hooks[w]) /\ s.pc # "down"
    BY <1>0, <2>1, <2>2 DEF WorkerRecords, PCs
  <2>4. worker' = [worker EXCEPT ![w] = s]
    BY <1>0, <1>4 DEF StartHook
  <2>5. open' = [open EXCEPT ![w] = 1..n]
    <3>1. (1..worker[w].started) \cup {n} = 1..n
      BY <1>0
    <3>. QED
      BY <1>0, <1>4, <3>1 DEF StartHook
  <2>. HIDE DEF s, n
  <2>. QED
    BY <2>1, <2>2, <2>3, <2>4, <2>5, HooksChange
<1>5. CASE StartHookRaises(w) \/ PollInterrupted(w)
  BY <1>0, <1>2, <1>5 DEF StartHookRaises, PollInterrupted, Goto, PCs
<1>6. CASE Cycle(w) \/ AdmitPoll(w) \/ RefusePoll(w) \/ Wait(w)
  BY <1>0, <1>2, <1>6 DEF Cycle, AdmitPoll, RefusePoll, Wait, PCs
<1>7. ASSUME NEW error \in Errors, BeforePollRaises(w, error) PROVE WorkerInv'
  BY <1>0, <1>1, <1>7 DEF BeforePollRaises, PCs
<1>8. ASSUME NEW error \in Errors \cup {None}, PollEnds(w, error) PROVE WorkerInv'
  BY <1>0, <1>1, <1>8 DEF PollEnds, PCs
<1>9. ASSUME NEW polled \in Errors \cup {None}, NEW raised \in Errors,
             AfterPollRaises(w, polled, raised)
      PROVE  WorkerInv'
  BY <1>0, <1>1, <1>9 DEF AfterPollRaises, CycleError, PCs
<1>10. CASE Report(w)
  BY <1>0, <1>1, <1>10 DEF Report, PCs
<1>11. CASE StopHook(w) \/ StopHookRaises(w)
  <2> DEFINE n == worker[w].started - 1
             s == [worker[w] EXCEPT !.started = n]
  <2>1. worker[w].pc = "stopping" /\ worker[w].started > 0 /\ UNCHANGED stop
    BY <1>11 DEF StopHook, StopHookRaises
  <2>2. n \in Nat /\ n <= Hooks[w]
    BY <1>0, <2>1
  <2>3. s \in WorkerRecords /\ s.started = n /\ s.pc = "stopping"
    BY <1>0, <2>1, <2>2 DEF WorkerRecords
  <2>4. worker' = [worker EXCEPT ![w] = s]
    BY <1>0, <1>11 DEF StopHook, StopHookRaises
  <2>5. open' = [open EXCEPT ![w] = 1..n]
    <3>1. (1..worker[w].started) \ {worker[w].started} = 1..n
      BY <1>0, <2>2
    <3>2. open' = [open EXCEPT ![w] = open[w] \ {worker[w].started}]
      BY <1>11 DEF StopHook, StopHookRaises
    <3>. QED
      BY <1>0, <3>1, <3>2
  <2>. HIDE DEF s, n
  <2>. QED
    BY <2>1, <2>2, <2>3, <2>4, <2>5, HooksChange
<1>12. CASE EndRun(w) \/ Kill(w)
  <2>1. Down \in WorkerRecords /\ Down.started = 0 /\ Down.pc = "down"
    BY DEF Down, WorkerRecords, PCs
  <2>2. 1..0 = {} /\ open' = [open EXCEPT ![w] = {}] /\ UNCHANGED stop
    <3>1. CASE EndRun(w)
      BY <1>0, <3>1 DEF EndRun
    <3>2. CASE Kill(w)
      BY <3>2 DEF Kill
    <3>. QED
      BY <1>12, <3>1, <3>2
  <2>3. worker' = [worker EXCEPT ![w] = Down]
    BY <1>12 DEF EndRun, Kill
  <2>. QED
    <3>1. Down.started <= Hooks[w] /\ open' = [open EXCEPT ![w] = 1..Down.started]
      BY <1>0, <2>1, <2>2
    <3>. QED
      BY <2>1, <2>2, <2>3, <3>1, HooksChange
<1>13. CASE Stop(w)
  BY <1>0, <1>13 DEF Stop, WorkerInv, WorkerTypeOK, HooksBalanced
<1>. QED
  BY <1>3, <1>4, <1>5, <1>6, <1>7, <1>8, <1>9, <1>10, <1>11, <1>12, <1>13 DEF WorkerAction
-----------------------------------------------------------------------------
(* Sequences of copies.                                                    *)

In(s, e) == \E i \in DOMAIN s : s[i].event = e

LEMMA SeqAppend ==
    ASSUME NEW s \in Seq(Copies), NEW x \in Copies
    PROVE  /\ Append(s, x) \in Seq(Copies) /\ Len(Append(s, x)) = Len(s) + 1
           /\ Append(s, x) # <<>>
           /\ \A e : In(Append(s, x), e) <=> In(s, e) \/ x.event = e
<1>1. /\ Append(s, x) \in Seq(Copies) /\ Len(Append(s, x)) = Len(s) + 1
      /\ Len(s) \in Nat /\ DOMAIN s = 1..Len(s)
      /\ Append(s, x) # <<>>
      /\ DOMAIN Append(s, x) = 1..(Len(s) + 1)
      /\ \A i \in 1..Len(s) : Append(s, x)[i] = s[i]
      /\ Append(s, x)[Len(s) + 1] = x
  OBVIOUS
<1>2. 1..(Len(s) + 1) = (1..Len(s)) \cup {Len(s) + 1}
  BY <1>1
<1>. QED
  BY <1>1, <1>2 DEF In

LEMMA SeqTail ==
    ASSUME NEW s \in Seq(Copies), s # <<>>
    PROVE  /\ Head(s) \in Copies /\ Tail(s) \in Seq(Copies)
           /\ Len(Tail(s)) = Len(s) - 1 /\ Len(s) \in Nat \ {0}
           /\ \A e : In(s, e) <=> In(Tail(s), e) \/ Head(s).event = e
<1>1. /\ Head(s) \in Copies /\ Tail(s) \in Seq(Copies) /\ Len(s) \in Nat \ {0}
      /\ Len(Tail(s)) = Len(s) - 1 /\ Head(s) = s[1]
      /\ DOMAIN s = 1..Len(s) /\ DOMAIN Tail(s) = 1..(Len(s) - 1)
      /\ \A i \in 1..(Len(s) - 1) : Tail(s)[i] = s[i + 1]
  OBVIOUS
<1>2. ASSUME NEW e, In(s, e) PROVE In(Tail(s), e) \/ Head(s).event = e
  <2>1. PICK i \in 1..Len(s) : s[i].event = e
    BY <1>1, <1>2 DEF In
  <2>2. CASE i = 1
    BY <1>1, <2>1, <2>2
  <2>3. CASE i # 1
    <3>1. i - 1 \in 1..(Len(s) - 1) /\ (i - 1) + 1 = i
      BY <1>1, <2>3
    <3>2. Tail(s)[i - 1] = s[i]
      BY <1>1, <3>1
    <3>. QED
      BY <1>1, <2>1, <3>1, <3>2 DEF In
  <2>. QED
    BY <2>2, <2>3
<1>3. ASSUME NEW e, In(Tail(s), e) PROVE In(s, e)
  <2>1. PICK i \in 1..(Len(s) - 1) : Tail(s)[i].event = e
    BY <1>1, <1>3 DEF In
  <2>2. i + 1 \in DOMAIN s /\ s[i + 1].event = e
    BY <1>1, <2>1
  <2>. QED
    BY <2>2 DEF In
<1>4. ASSUME NEW e, Head(s).event = e PROVE In(s, e)
  BY <1>1, <1>4 DEF In
<1>. QED
  BY <1>1, <1>2, <1>3, <1>4

LEMMA Concatenation ==
    ASSUME NEW S, NEW a \in Seq(S), NEW b \in Seq(S)
    PROVE  /\ a \o b \in Seq(S) /\ Len(a \o b) = Len(a) + Len(b)
           /\ DOMAIN (a \o b) = 1..(Len(a) + Len(b))
           /\ \A j \in 1..(Len(a) + Len(b)) :
                 (a \o b)[j] = IF j <= Len(a) THEN a[j] ELSE b[j - Len(a)]
<1>1. a \o b \in Seq(S) /\ Len(a \o b) = Len(a) + Len(b)
  OBVIOUS
<1>2. DOMAIN (a \o b) = 1..(Len(a) + Len(b))
  BY <1>1
<1>3. \A j \in 1..(Len(a) + Len(b)) :
         (a \o b)[j] = IF j <= Len(a) THEN a[j] ELSE b[j - Len(a)]
  OBVIOUS
<1>. QED
  BY <1>1, <1>2, <1>3

LEMMA Removed ==
    ASSUME NEW s \in Seq(Copies), NEW i \in DOMAIN s
    PROVE  /\ Len(s) \in Nat \ {0} /\ DOMAIN s = 1..Len(s) /\ i \in 1..Len(s) /\ s[i] \in Copies
           /\ RemoveAt(s, i) \in Seq(Copies) /\ Len(RemoveAt(s, i)) = Len(s) - 1
           /\ DOMAIN RemoveAt(s, i) = 1..(Len(s) - 1)
           /\ \A j \in 1..(Len(s) - 1) : RemoveAt(s, i)[j] = IF j < i THEN s[j] ELSE s[j + 1]
<1> DEFINE a == SubSeq(s, 1, i - 1)
           b == SubSeq(s, i + 1, Len(s))
           r == RemoveAt(s, i)
<1>0. Len(s) \in Nat \ {0} /\ DOMAIN s = 1..Len(s) /\ i \in 1..Len(s) /\ s[i] \in Copies
  OBVIOUS
<1>1. /\ a \in Seq(Copies) /\ Len(a) = i - 1
      /\ \A j \in 1..(i - 1) : a[j] = s[j]
  BY <1>0
<1>2. /\ b \in Seq(Copies) /\ Len(b) = Len(s) - i
      /\ \A j \in 1..(Len(s) - i) : b[j] = s[i + j]
  BY <1>0
<1>3. r = a \o b
  BY DEF RemoveAt
<1>. HIDE DEF a, b, r
<1>4. /\ r \in Seq(Copies) /\ Len(r) = Len(s) - 1 /\ DOMAIN r = 1..(Len(s) - 1)
      /\ \A j \in 1..(Len(s) - 1) : r[j] = IF j <= i - 1 THEN a[j] ELSE b[j - (i - 1)]
  <2>1. Len(a) + Len(b) = Len(s) - 1
    BY <1>0, <1>1, <1>2
  <2>2. /\ a \o b \in Seq(Copies) /\ Len(a \o b) = Len(a) + Len(b)
        /\ DOMAIN (a \o b) = 1..(Len(a) + Len(b))
        /\ \A j \in 1..(Len(a) + Len(b)) :
              (a \o b)[j] = IF j <= Len(a) THEN a[j] ELSE b[j - Len(a)]
    BY <1>1, <1>2, Concatenation
  <2>. QED
    BY <1>1, <1>3, <2>1, <2>2
<1>5. \A j \in 1..(Len(s) - 1) : r[j] = IF j < i THEN s[j] ELSE s[j + 1]
  <2> SUFFICES ASSUME NEW j \in 1..(Len(s) - 1)
               PROVE  r[j] = IF j < i THEN s[j] ELSE s[j + 1]
    OBVIOUS
  <2>1. CASE j < i
    BY <1>0, <1>1, <1>4, <2>1
  <2>2. CASE ~(j < i)
    <3>1. j - (i - 1) \in 1..(Len(s) - i) /\ i + (j - (i - 1)) = j + 1
      BY <1>0, <2>2
    <3>. QED
      <4>1. ~(j <= i - 1)
        BY <1>0, <2>2
      <4>2. r[j] = b[j - (i - 1)]
        BY <1>4, <4>1
      <4>. QED
        BY <1>2, <2>2, <3>1, <4>2
  <2>. QED
    BY <2>1, <2>2
<1>. QED
  BY <1>0, <1>4, <1>5 DEF r

LEMMA SeqRemove ==
    ASSUME NEW s \in Seq(Copies), NEW i \in DOMAIN s
    PROVE  /\ s[i] \in Copies /\ RemoveAt(s, i) \in Seq(Copies)
           /\ Len(RemoveAt(s, i)) = Len(s) - 1 /\ Len(s) \in Nat \ {0}
           /\ \A e : In(s, e) <=> In(RemoveAt(s, i), e) \/ s[i].event = e
<1> DEFINE r == RemoveAt(s, i)
<1>0. Len(s) \in Nat \ {0} /\ DOMAIN s = 1..Len(s) /\ i \in 1..Len(s) /\ s[i] \in Copies
  BY Removed
<1>4. r \in Seq(Copies) /\ Len(r) = Len(s) - 1 /\ DOMAIN r = 1..(Len(s) - 1)
  BY Removed
<1>5. \A j \in 1..(Len(s) - 1) : r[j] = IF j < i THEN s[j] ELSE s[j + 1]
  BY Removed
<1>. HIDE DEF r
<1>6. ASSUME NEW e, In(s, e) PROVE In(r, e) \/ s[i].event = e
  <2>1. PICK j \in 1..Len(s) : s[j].event = e
    BY <1>0, <1>6 DEF In
  <2>2. CASE j < i
    <3>1. j \in 1..(Len(s) - 1) /\ r[j] = s[j]
      BY <1>0, <1>5, <2>2
    <3>. QED
      BY <1>4, <2>1, <3>1 DEF In
  <2>3. CASE j > i
    <3>1. j - 1 \in 1..(Len(s) - 1) /\ ~(j - 1 < i) /\ (j - 1) + 1 = j
      BY <1>0, <2>3
    <3>2. r[j - 1] = s[j]
      BY <1>5, <3>1
    <3>. QED
      BY <1>4, <2>1, <3>1, <3>2 DEF In
  <2>. QED
    BY <1>0, <2>1, <2>2, <2>3
<1>7. ASSUME NEW e, In(r, e) PROVE In(s, e)
  <2>1. PICK j \in 1..(Len(s) - 1) : r[j].event = e
    BY <1>4, <1>7 DEF In
  <2>2. j \in DOMAIN s /\ j + 1 \in DOMAIN s
    BY <1>0, <2>1
  <2>. QED
    BY <1>5, <2>1, <2>2 DEF In
<1>8. s[i].event = s[i].event /\ \A e : s[i].event = e => In(s, e)
  BY DEF In
<1>. QED
  BY <1>0, <1>4, <1>6, <1>7, <1>8 DEF r

\* The first of the copies that cannot be decoded.
LEMMA LeastOf ==
    ASSUME NEW S \in SUBSET Nat, S # {}
    PROVE  Min(S) \in S
<1> DEFINE R == WF!OpToRel(<, Nat)
<1>1. WF!IsWellFoundedOn(R, Nat)
  BY WF!NatLessThanWellFounded
<1>2. PICK k \in S : \A n \in S : ~(<<n, k>> \in R)
  <2>. HIDE DEF R
  <2>. QED
    BY <1>1, WF!WFMin
<1>3. \A n \in S : ~(n < k)
  BY <1>2 DEF WF!OpToRel
<1>4. \E m \in S : \A n \in S : m =< n
  BY <1>3
<1>. QED
  BY <1>4 DEF Min
-----------------------------------------------------------------------------
(* Where an event is.                                                      *)

Claim == [channel: {"queue", "buffer"}, copy: Copies]

ClaimsOf(s) ==
    [i \in DOMAIN s.batch |-> [channel |-> "buffer", copy |-> s.batch[i]]]
    \o (IF s.buffered \/ s.msg = <<>> THEN <<>>
        ELSE <<[channel |-> "queue", copy |-> s.msg[1]]>>)

Has(s, e) == In(s.batch, e) \/ (~s.buffered /\ In(s.msg, e))
Orphaned(bag, e) == \E claim \in DOMAIN bag : claim.copy.event = e

LEMMA ClaimsAre ==
    ASSUME NEW s \in ListenRecords, Len(s.msg) <= 1
    PROVE  /\ ClaimsOf(s) \in Seq(Claim)
           /\ \A e : Has(s, e) <=> \E claim \in ToSet(ClaimsOf(s)) : claim.copy.event = e
           /\ s.batch = <<>> /\ (s.buffered \/ s.msg = <<>>) => ClaimsOf(s) = <<>>
<1> DEFINE a == [i \in DOMAIN s.batch |-> [channel |-> "buffer", copy |-> s.batch[i]]]
           b == IF s.buffered \/ s.msg = <<>> THEN <<>>
                ELSE <<[channel |-> "queue", copy |-> s.msg[1]]>>
<1>0. /\ s.batch \in Seq(Copies) /\ s.msg \in Seq(Copies) /\ s.buffered \in BOOLEAN
      /\ Len(s.batch) \in Nat /\ DOMAIN s.batch = 1..Len(s.batch)
      /\ \A i \in DOMAIN s.batch : s.batch[i] \in Copies
  BY DEF ListenRecords
<1>1. a \in Seq(Claim) /\ Len(a) = Len(s.batch) /\ DOMAIN a = DOMAIN s.batch
      /\ \A i \in DOMAIN a : a[i] = [channel |-> "buffer", copy |-> s.batch[i]]
  <2>1. a \in [1..Len(s.batch) -> Claim]
    BY <1>0 DEF Claim
  <2>. QED
    BY <1>0, <2>1
<1>2. s.msg # <<>> => DOMAIN s.msg = {1} /\ s.msg[1] \in Copies
  BY <1>0
<1>3. /\ b \in Seq(Claim)
      /\ \/ (s.buffered \/ s.msg = <<>>) /\ b = <<>> /\ Len(b) = 0
         \/ /\ ~s.buffered /\ s.msg # <<>> /\ Len(b) = 1
            /\ b[1] = [channel |-> "queue", copy |-> s.msg[1]]
  <2>1. CASE s.buffered \/ s.msg = <<>>
    BY <2>1
  <2>2. CASE ~(s.buffered \/ s.msg = <<>>)
    <3>1. b = <<[channel |-> "queue", copy |-> s.msg[1]]>>
      BY <2>2
    <3>2. [channel |-> "queue", copy |-> s.msg[1]] \in Claim
      BY <1>2, <2>2 DEF Claim
    <3>. QED
      BY <2>2, <3>1, <3>2
  <2>. QED
    BY <2>1, <2>2
<1>4. ClaimsOf(s) = a \o b
  BY DEF ClaimsOf
<1>. HIDE DEF a, b
<1>5. /\ ClaimsOf(s) \in Seq(Claim)
      /\ DOMAIN ClaimsOf(s) = 1..(Len(a) + Len(b)) /\ Len(ClaimsOf(s)) = Len(a) + Len(b)
      /\ \A j \in 1..(Len(a) + Len(b)) :
            ClaimsOf(s)[j] = IF j <= Len(a) THEN a[j] ELSE b[j - Len(a)]
  <2>1. a \in Seq(Claim) /\ b \in Seq(Claim)
    BY <1>1, <1>3
  <2>. QED
    BY <1>4, <2>1, Concatenation
<1>6. ASSUME NEW e, In(s.batch, e) PROVE \E claim \in ToSet(ClaimsOf(s)) : claim.copy.event = e
  <2>1. PICK i \in DOMAIN s.batch : s.batch[i].event = e
    BY <1>6 DEF In
  <2>2. i \in DOMAIN ClaimsOf(s) /\ ClaimsOf(s)[i] = a[i]
    BY <1>0, <1>1, <1>3, <1>5
  <2>. QED
    <3>1. a[i] = [channel |-> "buffer", copy |-> s.batch[i]]
      BY <1>1
    <3>2. a[i].copy = s.batch[i]
      BY <3>1
    <3>. QED
      BY <2>1, <2>2, <3>2 DEF ToSet
<1>7. ASSUME NEW e, ~s.buffered, In(s.msg, e)
      PROVE  \E claim \in ToSet(ClaimsOf(s)) : claim.copy.event = e
  <2>1. s.msg # <<>> /\ s.msg[1].event = e
    BY <1>0, <1>2, <1>7 DEF In
  <2>2. Len(b) = 1 /\ b[1].copy = s.msg[1]
    BY <1>3, <1>7, <2>1
  <2>3. Len(a) + 1 \in DOMAIN ClaimsOf(s) /\ ClaimsOf(s)[Len(a) + 1] = b[1]
    BY <1>0, <1>1, <1>5, <2>2
  <2>. QED
    BY <2>1, <2>2, <2>3 DEF ToSet
<1>8. ASSUME NEW e, NEW claim \in ToSet(ClaimsOf(s)), claim.copy.event = e PROVE Has(s, e)
  <2>1. PICK j \in 1..(Len(a) + Len(b)) : claim = ClaimsOf(s)[j]
    BY <1>5 DEF ToSet
  <2>2. CASE j <= Len(a)
    <3>1. j \in DOMAIN s.batch /\ claim = a[j]
      BY <1>0, <1>1, <1>3, <1>5, <2>1, <2>2
    <3>2. a[j] = [channel |-> "buffer", copy |-> s.batch[j]]
      BY <1>1, <3>1
    <3>3. claim.copy = s.batch[j]
      BY <3>1, <3>2
    <3>. QED
      BY <1>8, <3>1, <3>3 DEF Has, In
  <2>3. CASE ~(j <= Len(a))
    <3>1. Len(b) = 1 /\ j - Len(a) = 1
      BY <1>0, <1>1, <1>3, <2>3
    <3>2. claim = b[1]
      BY <1>5, <2>1, <2>3, <3>1
    <3>3. ~s.buffered /\ s.msg # <<>> /\ s.msg[1].event = e
      BY <1>3, <1>8, <3>1, <3>2
    <3>. QED
      BY <1>2, <3>3 DEF Has, In
  <2>. QED
    BY <2>2, <2>3
<1>9. ASSUME s.batch = <<>>, s.buffered \/ s.msg = <<>> PROVE ClaimsOf(s) = <<>>
  <2>1. Len(a) = 0 /\ Len(b) = 0
    BY <1>1, <1>3, <1>9
  <2>. QED
    BY <1>5, <2>1
<1>. QED
  BY <1>5, <1>6, <1>7, <1>8, <1>9 DEF Has

Records(ls) ==
    /\ ls \in [Listeners -> ListenRecords]
    /\ \A l \in Listeners : Len(ls[l].msg) <= 1

\* NoEventLost, by event.
Kept(e, q, b, o, ls, h, d) ==
    \/ e \in h \/ e \in d \/ In(q, e) \/ In(b, e) \/ Orphaned(o, e)
    \/ \E l \in Listeners : Has(ls[l], e)

KeptNow(e) == Kept(e, queue, buffer, orphans, listener, handled, dead)

LEMMA LostOrKept ==
    /\ Records(listener) => (NoEventLost <=> \A e \in Events : KeptNow(e))
    /\ Records(listener)' => (NoEventLost' <=> \A e \in Events : KeptNow(e)')
<1> DEFINE Places(q, b, o, ls) ==
       {copy.event : copy \in ToSet(q) \cup ToSet(b)}
       \cup {claim.copy.event :
               claim \in DOMAIN o \cup UNION {ToSet(ClaimsOf(ls[l])) : l \in Listeners}}
<1>1. ASSUME NEW q, NEW b, NEW o, NEW ls, Records(ls), NEW e
      PROVE  e \in Places(q, b, o, ls) <=>
                \/ In(q, e) \/ In(b, e) \/ Orphaned(o, e)
                \/ \E l \in Listeners : Has(ls[l], e)
  <2>1. \A l \in Listeners :
           Has(ls[l], e) <=> \E claim \in ToSet(ClaimsOf(ls[l])) : claim.copy.event = e
    BY <1>1, ClaimsAre DEF Records
  <2>2. \A s : In(s, e) <=> \E copy \in ToSet(s) : copy.event = e
    BY DEF In, ToSet
  <2>3. e \in Places(q, b, o, ls) <=>
           \/ \E copy \in ToSet(q) : copy.event = e
           \/ \E copy \in ToSet(b) : copy.event = e
           \/ \E claim \in DOMAIN o : claim.copy.event = e
           \/ \E l \in Listeners : \E claim \in ToSet(ClaimsOf(ls[l])) : claim.copy.event = e
    OBVIOUS
  <2>. QED
    BY <2>1, <2>2, <2>3 DEF Orphaned
<1>2. /\ \A l : Claims(l) = ClaimsOf(listener[l])
      /\ \A l : Claims(l)' = ClaimsOf(listener'[l])
  BY DEF Claims, ClaimsOf
<1>3. UnderWay = Places(queue, buffer, orphans, listener)
  BY <1>2 DEF UnderWay, BagToSet
<1>4. UnderWay' = Places(queue', buffer', orphans', listener')
  BY <1>2 DEF UnderWay, BagToSet
<1>. HIDE DEF Places
<1>5. Records(listener) => (NoEventLost <=> \A e \in Events : KeptNow(e))
  BY <1>1, <1>3 DEF NoEventLost, KeptNow, Kept
<1>6. Records(listener)' => (NoEventLost' <=> \A e \in Events : KeptNow(e)')
  BY <1>1, <1>4 DEF NoEventLost, KeptNow, Kept, Records
<1>. QED
  BY <1>5, <1>6
-----------------------------------------------------------------------------
(* A step of one worker and its listener.                                  *)

ListsOK ==
    /\ queue \in Seq(Copies) /\ buffer \in Seq(Copies)
    /\ DOMAIN orphans \subseteq Claim
    /\ handled \subseteq Events /\ dead \subseteq Events
    /\ started \in [Listeners -> {"none", "running", "over"}]
    /\ backoff \in [Listeners -> BOOLEAN]
    /\ faults \in Nat

Sized(s) == Len(s.msg) <= 1 /\ Len(s.batch) <= BatchSize

LEMMA TypeIs ==
    /\ BatchTypeOK <=> /\ ListsOK
                       /\ \A l \in Listeners : listener[l] \in ListenRecords /\ Sized(listener[l])
    /\ BatchTypeOK' <=> /\ ListsOK'
                        /\ \A l \in Listeners : listener'[l] \in ListenRecords /\ Sized(listener'[l])
  BY DEF BatchTypeOK, ListsOK, Sized, ListenRecords, Claim, BagToSet

LEMMA HandledMore ==
    ASSUME NEW s, NEW h, NEW k, h \subseteq k, Holding(s, h)
    PROVE  Holding(s, k)
  BY DEF Holding

LEMMA ListenerStep ==
    ASSUME BatchInv, NEW l \in Listeners, WorkerInv', ListsOK',
           NEW s \in ListenRecords, Sized(s), Holding(s, handled'),
           listener' = [listener EXCEPT ![l] = s], Tied(l)',
           \A k \in Listeners \ {l} : worker'[k] = worker[k],
           handled \subseteq handled', dead \subseteq dead',
           \A e : In(queue, e) \/ In(buffer, e) \/ Orphaned(orphans, e) \/ Has(listener[l], e)
                    => \/ e \in handled' \/ e \in dead' \/ In(queue', e) \/ In(buffer', e)
                       \/ Orphaned(orphans', e) \/ Has(s, e),
           UNCHANGED scenario, mishaps' \in Nat
    PROVE  BatchInv'
<1>1. /\ listener \in [Listeners -> ListenRecords] /\ BatchTypeOK
      /\ \A k \in Listeners : Holding(listener[k], handled) /\ Tied(k)
      /\ NoEventLost /\ \A k \in Listeners : Sized(listener[k])
  BY TypeIs DEF BatchInv, ListenInv
<1>2. /\ listener' \in [Listeners -> ListenRecords] /\ listener'[l] = s
      /\ \A k \in Listeners \ {l} : listener'[k] = listener[k]
  BY <1>1
<1>3. \A k \in Listeners : Holding(listener'[k], handled')
  BY <1>1, <1>2, HandledMore
<1>4. \A k \in Listeners : Tied(k)'
  BY <1>1, <1>2 DEF Tied, Leaving
<1>5. BatchTypeOK'
  BY <1>1, <1>2, TypeIs
<1>6. ListenInv'
  BY <1>2, <1>3, <1>4, <1>5 DEF ListenInv
<1>7. Records(listener) /\ Records(listener)'
  BY <1>1, <1>2 DEF Records, Sized
<1>8. \A e \in Events : KeptNow(e)
  BY <1>1, <1>7, LostOrKept
<1>9. ASSUME NEW e \in Events PROVE KeptNow(e)'
  <2>1. CASE e \in handled \/ e \in dead
    BY <2>1 DEF KeptNow, Kept
  <2>2. CASE In(queue, e) \/ In(buffer, e) \/ Orphaned(orphans, e) \/ Has(listener[l], e)
    <3>1. \/ e \in handled' \/ e \in dead' \/ In(queue', e) \/ In(buffer', e)
          \/ Orphaned(orphans', e) \/ Has(listener'[l], e)
      BY <1>2, <2>2
    <3>. QED
      BY <3>1 DEF KeptNow, Kept
  <2>3. ASSUME NEW k \in Listeners \ {l}, Has(listener[k], e) PROVE KeptNow(e)'
    <3>1. Has(listener'[k], e)
      BY <1>2, <2>3
    <3>. QED
      BY <3>1 DEF KeptNow, Kept
  <2>. QED
    BY <1>8, <2>1, <2>2, <2>3 DEF KeptNow, Kept
<1>10. NoEventLost'
  BY <1>7, <1>9, LostOrKept
<1>. QED
  BY <1>6, <1>10 DEF BatchInv

\* A step of listen_once that moves no event.
LEMMA QuietStep ==
    ASSUME BatchInv, NEW l \in Listeners, NEW s \in ListenRecords,
           s.msg = listener[l].msg, s.batch = listener[l].batch,
           s.buffered = listener[l].buffered,
           listener[l].pc # "idle", s.pc # "idle", Holding(s, handled),
           listener' = [listener EXCEPT ![l] = s], UNCHANGED <<lists, wvars, scenario>>,
           started' \in [Listeners -> {"none", "running", "over"}],
           backoff' \in [Listeners -> BOOLEAN], faults' \in Nat, mishaps' \in Nat
    PROVE  BatchInv'
<1>1. /\ Sized(listener[l]) /\ ListsOK /\ Tied(l) /\ WorkerInv
      /\ listener \in [Listeners -> ListenRecords]
  BY TypeIs DEF BatchInv, ListenInv
<1>2. UNCHANGED <<queue, buffer, orphans, handled, dead, worker, stop, open, scenario>>
  BY DEF lists, wvars
<1>3. WorkerInv'
  BY <1>1, <1>2 DEF WorkerInv, WorkerTypeOK, HooksBalanced
<1>4. ListsOK'
  BY <1>1, <1>2 DEF ListsOK
<1>5. Tied(l)'
  <2>1. listener'[l] = s
    BY <1>1
  <2>. QED
    BY <1>1, <1>2, <2>1 DEF Tied, Leaving
<1>6. Sized(s) /\ \A e : Has(listener[l], e) => Has(s, e)
  BY <1>1 DEF Sized, Has
<1>7. \A e : In(queue, e) \/ In(buffer, e) \/ Orphaned(orphans, e) \/ Has(listener[l], e)
         => \/ e \in handled' \/ e \in dead' \/ In(queue', e) \/ In(buffer', e)
            \/ Orphaned(orphans', e) \/ Has(s, e)
  BY <1>2, <1>6
<1>. QED
  BY <1>2, <1>3, <1>4, <1>5, <1>6, <1>7, ListenerStep
LEMMA QuietMove ==
    ASSUME BatchInv, NEW l \in Listeners, NEW pc \in ListenPCs, pc # "idle",
           listener[l].pc # "idle", Goes(l, pc),
           Holding([listener[l] EXCEPT !.pc = pc], handled),
           UNCHANGED <<lists, wvars, scenario>>,
           started' \in [Listeners -> {"none", "running", "over"}],
           backoff' \in [Listeners -> BOOLEAN], faults' \in Nat, mishaps' \in Nat
    PROVE  BatchInv'
<1> DEFINE s == [listener[l] EXCEPT !.pc = pc]
<1>1. listener \in [Listeners -> ListenRecords]
  BY DEF BatchInv, ListenInv
<1>2. /\ s \in ListenRecords /\ s.msg = listener[l].msg /\ s.batch = listener[l].batch
      /\ s.buffered = listener[l].buffered /\ s.pc = pc
  BY <1>1 DEF ListenRecords
<1>3. listener' = [listener EXCEPT ![l] = s]
  BY <1>1 DEF Goes
<1>. HIDE DEF s
<1>4. Holding(s, handled)
  BY DEF s
<1>. QED
  BY <1>2, <1>3, <1>4, QuietStep

LEMMA QuietListening ==
    ASSUME BatchInv, NEW l \in Listeners, UNCHANGED <<wvars, scenario>>, mishaps' \in Nat,
           \/ InBackoff(l) \/ ReadSize(l) \/ ReadSizeRaises(l) \/ ClaimsEnd(l)
           \/ HandlerRaises(l) \/ ConsumeNone(l) \/ FirstInBuffer(l)
           \/ FirstInBufferRaises(l)
           \/ /\ listener[l].pc \in {"claiming", "consume"} \/ Settling(l)
              /\ Goes(l, "abort") /\ Fault /\ UNCHANGED <<lists, timers>>
    PROVE  BatchInv'
<1> DEFINE self == listener[l]
           to(pc) == [self EXCEPT !.pc = pc]
<1>1. /\ self \in ListenRecords /\ Holding(self, handled) /\ ListsOK
      /\ self.batch \in Seq(Copies) /\ self.buffered \in BOOLEAN
      /\ faults \in Nat /\ BatchSize \in Nat \ {0}
      /\ started \in [Listeners -> {"none", "running", "over"}]
      /\ backoff \in [Listeners -> BOOLEAN]
  BY TypeIs, BatchAssumption DEF BatchInv, ListenInv, ListenRecords, ListsOK
<1>2. \A pc \in ListenPCs :
         /\ to(pc).pc = pc /\ to(pc).msg = self.msg
         /\ to(pc).batch = self.batch /\ to(pc).buffered = self.buffered
  BY <1>1 DEF ListenRecords
<1>3. faults' \in Nat
  BY <1>1 DEF InBackoff, ReadSize, ReadSizeRaises, ClaimsEnd, HandlerRaises, ConsumeNone,
              FirstInBuffer, FirstInBufferRaises, Fault
<1>4. started' \in [Listeners -> {"none", "running", "over"}]
  BY <1>1 DEF InBackoff, ReadSize, ReadSizeRaises, ClaimsEnd, HandlerRaises, ConsumeNone,
              FirstInBuffer, FirstInBufferRaises, StartedAt, timers
<1>5. backoff' \in [Listeners -> BOOLEAN]
  BY <1>1 DEF InBackoff, ReadSize, ReadSizeRaises, ClaimsEnd, HandlerRaises, ConsumeNone,
              FirstInBuffer, FirstInBufferRaises, timers
<1>6. UNCHANGED lists
  BY DEF InBackoff, ReadSize, ReadSizeRaises, ClaimsEnd, HandlerRaises, ConsumeNone,
         FirstInBuffer, FirstInBufferRaises
<1>7. AfterFlush(l) = IF self.buffered THEN "done" ELSE "consume"
  BY DEF AfterFlush
<1>8. ASSUME NEW pc \in ListenPCs, pc # "idle", self.pc # "idle", Goes(l, pc),
             Holding(to(pc), handled)
      PROVE  BatchInv'
  BY <1>3, <1>4, <1>5, <1>6, <1>8, QuietMove
<1>. HIDE DEF to
<1>9. CASE self.pc = "flush" /\ Goes(l, AfterFlush(l))
  <2>1. AfterFlush(l) \in ListenPCs /\ AfterFlush(l) # "idle"
    BY <1>7 DEF ListenPCs
  <2>2. Holding(to(AfterFlush(l)), handled)
    BY <1>1, <1>2, <1>7, <1>9, <2>1 DEF Holding
  <2>. QED
    BY <1>8, <1>9, <2>1, <2>2
<1>10. CASE self.pc = "flush" /\ Goes(l, "claiming")
  <2>1. "claiming" \in ListenPCs
    BY DEF ListenPCs
  <2>2. self.batch = <<>> /\ Len(self.batch) < BatchSize
    BY <1>1, <1>10 DEF Holding
  <2>3. Holding(to("claiming"), handled)
    BY <1>1, <1>2, <1>10, <2>1, <2>2 DEF Holding
  <2>. QED
    BY <1>8, <1>10, <2>1, <2>3
<1>11. CASE ReadSizeRaises(l)
  <2>1. "failing" \in ListenPCs /\ "error" \in ListenPCs
    BY DEF ListenPCs
  <2>2. self.pc = "flush" /\ Goes(l, IF self.buffered THEN "failing" ELSE "error")
    BY <1>11 DEF ReadSizeRaises
  <2>3. Holding(to(IF self.buffered THEN "failing" ELSE "error"), handled)
    BY <1>1, <1>2, <2>1, <2>2 DEF Holding
  <2>. QED
    BY <1>8, <2>1, <2>2, <2>3
<1>12. CASE ClaimsEnd(l)
  <2>1. "decoding" \in ListenPCs /\ AfterFlush(l) \in ListenPCs /\ AfterFlush(l) # "idle"
    BY <1>7 DEF ListenPCs
  <2>2. self.pc = "claiming" /\ Goes(l, IF self.batch = <<>> THEN AfterFlush(l) ELSE "decoding")
    BY <1>12 DEF ClaimsEnd
  <2>3. Holding(to(IF self.batch = <<>> THEN AfterFlush(l) ELSE "decoding"), handled)
    BY <1>1, <1>2, <1>7, <2>1, <2>2 DEF Holding
  <2>. QED
    BY <1>8, <2>1, <2>2, <2>3
<1>13. CASE HandlerRaises(l)
  <2> DEFINE s == [self EXCEPT !.pc = "retrying", !.requeued = FALSE]
  <2>1. /\ s \in ListenRecords /\ s.msg = self.msg /\ s.batch = self.batch
        /\ s.buffered = self.buffered /\ s.pc = "retrying"
    BY <1>1 DEF ListenRecords, ListenPCs
  <2>2. listener' = [listener EXCEPT ![l] = s] /\ self.pc = "decoding"
    BY <1>13 DEF HandlerRaises, BatchInv, ListenInv
  <2>. HIDE DEF s
  <2>3. Holding(s, handled)
    BY <1>1, <2>1, <2>2 DEF Holding
  <2>. QED
    BY <1>3, <1>4, <1>5, <1>6, <2>1, <2>2, <2>3, QuietStep
<1>14. CASE ConsumeNone(l)
  <2>1. "done" \in ListenPCs /\ self.pc = "consume" /\ Goes(l, "done")
    BY <1>14 DEF ListenPCs, ConsumeNone
  <2>2. Holding(to("done"), handled)
    BY <1>1, <1>2, <2>1 DEF Holding
  <2>. QED
    BY <1>8, <2>1, <2>2
<1>15. CASE FirstInBuffer(l)
  <2>1. "buffering" \in ListenPCs /\ self.pc = "sizing" /\ Goes(l, "buffering")
    BY <1>15 DEF ListenPCs, FirstInBuffer
  <2>2. Holding(to("buffering"), handled)
    BY <1>1, <1>2, <2>1 DEF Holding
  <2>. QED
    BY <1>8, <2>1, <2>2
<1>16. CASE FirstInBufferRaises(l)
  <2>1. "failing" \in ListenPCs /\ self.pc = "sizing" /\ Goes(l, "failing")
    BY <1>16 DEF ListenPCs, FirstInBufferRaises
  <2>2. Holding(to("failing"), handled)
    BY <1>1, <1>2, <2>1 DEF Holding
  <2>. QED
    BY <1>8, <2>1, <2>2
<1>17. CASE Goes(l, "abort") /\ (self.pc \in {"claiming", "consume"} \/ Settling(l))
  <2>1. "abort" \in ListenPCs /\ self.pc # "idle"
    BY <1>17 DEF ListenPCs, Settling
  <2>2. Holding(to("abort"), handled)
    BY <1>2, <2>1 DEF Holding
  <2>. QED
    BY <1>8, <1>17, <2>1, <2>2
<1>. QED
  <2>1. CASE InBackoff(l)
    BY <1>9, <2>1 DEF InBackoff
  <2>2. CASE ReadSize(l)
    BY <1>9, <1>10, <2>2 DEF ReadSize
  <2>. QED
    BY <1>11, <1>12, <1>13, <1>14, <1>15, <1>16, <1>17, <2>1, <2>2
-----------------------------------------------------------------------------
(* Publications and settlements.                                           *)

\* A publication adds to the lists, and event x is on one of them.
Published(x) ==
    /\ queue' \in Seq(Copies) /\ buffer' \in Seq(Copies)
    /\ dead' \subseteq Events /\ dead \subseteq dead'
    /\ \A e : (In(queue, e) => In(queue', e)) /\ (In(buffer, e) => In(buffer', e))
    /\ x \in dead' \/ In(queue', x) \/ In(buffer', x)

LEMMA PutPublishes ==
    ASSUME ListsOK, NEW channel \in {"queue", "buffer"}, NEW x \in Copies,
           Put(channel, x), UNCHANGED dead
    PROVE  Published(x.event)
<1>1. CASE channel = "queue"
  <2>1. queue' = Append(queue, x) /\ UNCHANGED buffer
    BY <1>1 DEF Put
  <2>2. queue' \in Seq(Copies) /\ \A e : In(queue', e) <=> In(queue, e) \/ x.event = e
    BY <2>1, SeqAppend DEF ListsOK
  <2>. QED
    BY <2>1, <2>2 DEF ListsOK, Published
<1>2. CASE channel = "buffer"
  <2>1. buffer' = Append(buffer, x) /\ UNCHANGED queue
    BY <1>2 DEF Put
  <2>2. buffer' \in Seq(Copies) /\ \A e : In(buffer', e) <=> In(buffer, e) \/ x.event = e
    BY <2>1, SeqAppend DEF ListsOK
  <2>. QED
    BY <2>1, <2>2 DEF ListsOK, Published
<1>. QED
  BY <1>1, <1>2

LEMMA FailedPublishes ==
    ASSUME ListsOK, NEW channel \in {"queue", "buffer"}, NEW x \in Copies, NEW limit,
           Failed(channel, x, limit)
    PROVE  Published(x.event)
<1>1. CASE x.retries < limit
  <2>1. Bump(x) \in Copies /\ Bump(x).event = x.event
    BY DEF Bump, Copies
  <2>2. Put(channel, Bump(x)) /\ UNCHANGED dead
    BY <1>1 DEF Failed
  <2>. QED
    BY <2>1, <2>2, PutPublishes
<1>2. CASE ~(x.retries < limit)
  <2>1. dead' = dead \cup {x.event} /\ UNCHANGED <<queue, buffer>>
    BY <1>2 DEF Failed
  <2>2. x.event \in Events
    BY DEF Copies
  <2>. QED
    BY <2>1, <2>2 DEF ListsOK, Published
<1>. QED
  BY <1>1, <1>2

\* A listener that settles: the claim it settles is published, unless its event
\* has been handled, before it is acked.
LEMMA Settlement ==
    ASSUME BatchInv, NEW l \in Listeners, Settling(l), Publication(l)
    PROVE  \E x : /\ Published(x) \/ (x \in handled /\ UNCHANGED <<queue, buffer, dead>>)
                 /\ Acked(l) \in ListenRecords /\ Sized(Acked(l)) /\ Acked(l).pc # "idle"
                 /\ Holding(Acked(l), handled)
                 /\ \A e : Has(listener[l], e) => Has(Acked(l), e) \/ e = x
<1> DEFINE self == listener[l]
<1>1. /\ self \in ListenRecords /\ Sized(self) /\ Holding(self, handled) /\ ListsOK
      /\ self.msg \in Seq(Copies) /\ self.batch \in Seq(Copies) /\ self.buffered \in BOOLEAN
      /\ BatchSize \in Nat
  BY TypeIs, BatchAssumption DEF BatchInv, ListenInv, ListenRecords
<1>0. <<>> \in Seq(Copies)
  OBVIOUS
<1>2. CASE self.pc \in {"buffering", "failing"}
  <2>1. /\ self.batch = <<>> /\ self.msg # <<>> /\ Len(self.msg) <= 1
    BY <1>1, <1>2 DEF Holding, Sized
  <2>2. DOMAIN self.msg = {1} /\ self.msg[1] \in Copies
    BY <1>1, <2>1
  <2>3. \A e : In(self.msg, e) => e = self.msg[1].event
    BY <2>2 DEF In
  <2>4. \A e : ~In(<<>>, e)
    BY DEF In
  <2>5. \A e : Has(self, e) => e = self.msg[1].event
    BY <2>1, <2>3, <2>4 DEF Has
  <2>6. Published(self.msg[1].event)
    <3>1. CASE self.pc = "buffering"
      <4>1. Put("buffer", self.msg[1]) /\ UNCHANGED dead
        BY <3>1 DEF Publication
      <4>. QED
        BY <1>1, <2>2, <4>1, PutPublishes
    <3>2. CASE self.pc = "failing"
      <4>1. Failed("queue", self.msg[1], PolicyMax)
        BY <3>2 DEF Publication
      <4>. QED
        BY <1>1, <2>2, <4>1, FailedPublishes
    <3>. QED
      BY <1>2, <3>1, <3>2
  <2>7. /\ Acked(l) \in ListenRecords /\ Sized(Acked(l)) /\ Acked(l).pc # "idle"
        /\ Holding(Acked(l), handled)
    <3>1. CASE self.pc = "buffering"
      <4>1. Acked(l) = [self EXCEPT !.buffered = TRUE, !.pc = "flush"]
        BY <3>1 DEF Acked
      <4>. QED
        BY <1>1, <2>1, <4>1 DEF ListenRecords, ListenPCs, Sized, Holding
    <3>2. CASE self.pc = "failing"
      <4>1. Acked(l) = [self EXCEPT !.msg = <<>>, !.pc = "done"]
        BY <3>2 DEF Acked
      <4>2. Acked(l) \in ListenRecords
        <5>. HIDE DEF self
        <5>. QED
          BY <1>0, <1>1, <4>1 DEF ListenRecords, ListenPCs
      <4>3. /\ Acked(l).pc = "done" /\ Acked(l).msg = <<>>
            /\ Acked(l).batch = self.batch /\ Acked(l).buffered = self.buffered
        BY <1>1, <4>1 DEF ListenRecords
      <4>4. Sized(Acked(l))
        BY <1>1, <4>3 DEF Sized
      <4>5. Holding(Acked(l), handled)
        BY <2>1, <4>3 DEF Holding
      <4>. QED
        BY <4>2, <4>3, <4>4, <4>5
    <3>. QED
      BY <1>2, <3>1, <3>2
  <2>. QED
    BY <2>5, <2>6, <2>7
<1>3. CASE self.pc \in {"decoding", "acking", "retrying"}
  <2>1. self.batch # <<>> /\ (self.buffered \/ self.msg = <<>>)
    BY <1>1, <1>3 DEF Holding
  <2>2. PICK x \in Copies :
           /\ Rest(l) \in Seq(Copies) /\ Len(Rest(l)) = Len(self.batch) - 1
           /\ \A e : In(self.batch, e) <=> In(Rest(l), e) \/ x.event = e
           /\ Published(x.event) \/ (x.event \in handled /\ UNCHANGED <<queue, buffer, dead>>)
    <3>1. CASE self.pc = "decoding"
      <4> DEFINE i == Min(Poisonous(l))
      <4>1. Poisonous(l) # {} /\ Poisonous(l) \in SUBSET Nat /\ Poisonous(l) \subseteq DOMAIN self.batch
        BY <1>1, <3>1 DEF Settling, Poisonous
      <4>2. i \in DOMAIN self.batch
        BY <4>1, LeastOf
      <4>3. Rest(l) = RemoveAt(self.batch, i)
        BY <3>1 DEF Rest
      <4>4. dead' = dead \cup {self.batch[i].event} /\ UNCHANGED <<queue, buffer>>
        BY <3>1 DEF Publication
      <4>. HIDE DEF i
      <4>5. /\ self.batch[i] \in Copies /\ Rest(l) \in Seq(Copies)
            /\ Len(Rest(l)) = Len(self.batch) - 1
            /\ \A e : In(self.batch, e) <=> In(Rest(l), e) \/ self.batch[i].event = e
        <5>1. \A s \in Seq(Copies) : \A j \in DOMAIN s :
                 /\ s[j] \in Copies /\ RemoveAt(s, j) \in Seq(Copies)
                 /\ Len(RemoveAt(s, j)) = Len(s) - 1
                 /\ \A e : In(s, e) <=> In(RemoveAt(s, j), e) \/ s[j].event = e
          BY SeqRemove
        <5>. QED
          BY <1>1, <4>2, <4>3, <5>1
      <4>6. Published(self.batch[i].event)
        BY <1>1, <4>4, <4>5 DEF Published, ListsOK, Copies
      <4>. QED
        BY <4>5, <4>6
    <3>2. CASE self.pc \in {"acking", "retrying"}
      <4>1. Rest(l) = Tail(self.batch)
        BY <3>2 DEF Rest
      <4>2. /\ Head(self.batch) \in Copies /\ Rest(l) \in Seq(Copies)
            /\ Len(Rest(l)) = Len(self.batch) - 1
            /\ \A e : In(self.batch, e) <=> In(Rest(l), e) \/ Head(self.batch).event = e
        BY <1>1, <2>1, <4>1, SeqTail
      <4>3. CASE self.pc = "retrying"
        <5>1. Failed("buffer", Head(self.batch), Limit)
          BY <4>3 DEF Publication
        <5>2. Published(Head(self.batch).event)
          BY <1>1, <4>2, <5>1, FailedPublishes
        <5>. QED
          BY <4>2, <5>2
      <4>4. CASE self.pc = "acking"
        <5>1. UNCHANGED <<queue, buffer, dead>>
          BY <4>4 DEF Publication
        <5>2. Head(self.batch) = self.batch[1] /\ 1 \in DOMAIN self.batch
          BY <1>1, <2>1
        <5>3. Head(self.batch).event \in handled
          BY <1>1, <4>4, <5>2 DEF Holding
        <5>. QED
          BY <4>2, <5>1, <5>3
      <4>. QED
        BY <3>2, <4>3, <4>4
    <3>. QED
      BY <1>3, <3>1, <3>2
  <2>3. CASE Rest(l) = <<>>
    <3>1. Acked(l) = [self EXCEPT !.batch = <<>>, !.requeued = FALSE, !.pc = AfterFlush(l)]
      BY <1>3, <2>3 DEF Acked
    <3>2. AfterFlush(l) \in {"done", "consume"} /\ (AfterFlush(l) = "consume" => ~self.buffered)
      BY DEF AfterFlush
    <3>3. /\ Acked(l) \in ListenRecords /\ Sized(Acked(l)) /\ Acked(l).pc # "idle"
          /\ Holding(Acked(l), handled)
      <4>1. Acked(l) \in ListenRecords
        <5>. HIDE DEF self
        <5>. QED
          BY <1>0, <1>1, <3>1, <3>2 DEF ListenRecords, ListenPCs
      <4>2. /\ Acked(l).pc = AfterFlush(l) /\ Acked(l).batch = <<>>
            /\ Acked(l).msg = self.msg /\ Acked(l).buffered = self.buffered
        BY <1>1, <3>1 DEF ListenRecords
      <4>3. Sized(Acked(l))
        BY <1>1, <4>2 DEF Sized
      <4>4. Holding(Acked(l), handled)
        BY <2>1, <3>2, <4>2 DEF Holding
      <4>. QED
        BY <3>2, <4>1, <4>2, <4>3, <4>4
    <3>4. \A e : ~In(<<>>, e)
      BY DEF In
    <3>5. \A e : Has(self, e) => e = x.event
      BY <2>1, <2>2, <2>3, <3>4 DEF Has
    <3>. QED
      BY <2>2, <3>3, <3>5
  <2>4. CASE Rest(l) # <<>>
    <3>1. Acked(l) = [self EXCEPT !.batch = Rest(l), !.requeued = Requeued(l)]
      BY <1>3, <2>4 DEF Acked
    <3>2. Requeued(l) \in BOOLEAN
      BY DEF Requeued
    <3>3. Len(Rest(l)) <= BatchSize /\ Len(self.msg) <= 1
      BY <1>1, <2>1, <2>2 DEF Sized
    <3>4. /\ Acked(l) \in ListenRecords /\ Sized(Acked(l)) /\ Acked(l).pc = self.pc
          /\ Acked(l).batch = Rest(l) /\ Acked(l).msg = self.msg
          /\ Acked(l).buffered = self.buffered
      BY <1>1, <2>2, <3>1, <3>2, <3>3 DEF ListenRecords, Sized
    <3>5. self.pc = "acking" => \A i \in DOMAIN Rest(l) : Rest(l)[i].event \in handled
      <4> SUFFICES ASSUME self.pc = "acking", NEW i \in DOMAIN Rest(l)
                   PROVE  Rest(l)[i].event \in handled
        OBVIOUS
      <4>1. In(Rest(l), Rest(l)[i].event)
        BY DEF In
      <4>2. In(self.batch, Rest(l)[i].event)
        BY <2>2, <4>1
      <4>. QED
        BY <1>1, <4>2 DEF In, Holding
    <3>6. Holding(Acked(l), handled)
      BY <1>1, <1>3, <2>1, <2>4, <3>4, <3>5 DEF Holding
    <3>7. \A e : Has(self, e) => Has(Acked(l), e) \/ e = x.event
      BY <2>2, <3>4 DEF Has
    <3>. QED
      BY <1>3, <2>2, <3>4, <3>6, <3>7
  <2>. QED
    BY <2>3, <2>4
<1>. QED
  BY <1>2, <1>3 DEF Settling
-----------------------------------------------------------------------------
(* The steps of listen_once.                                               *)

TimersOK ==
    /\ started \in [Listeners -> {"none", "running", "over"}]
    /\ backoff \in [Listeners -> BOOLEAN]
    /\ faults \in Nat

LEMMA ListenMove ==
    ASSUME BatchInv, NEW l \in Listeners, UNCHANGED <<wvars, scenario, orphans>>,
           mishaps' \in Nat, TimersOK',
           NEW s \in ListenRecords, Sized(s), Holding(s, handled'),
           listener[l].pc # "idle", s.pc # "idle", listener' = [listener EXCEPT ![l] = s],
           queue' \in Seq(Copies), buffer' \in Seq(Copies),
           handled' \subseteq Events, dead' \subseteq Events,
           handled \subseteq handled', dead \subseteq dead',
           \A e : In(queue, e) \/ In(buffer, e) \/ Has(listener[l], e)
                    => \/ e \in handled' \/ e \in dead' \/ In(queue', e) \/ In(buffer', e)
                       \/ Has(s, e)
    PROVE  BatchInv'
<1>1. /\ ListsOK /\ Tied(l) /\ WorkerInv /\ listener \in [Listeners -> ListenRecords]
  BY TypeIs DEF BatchInv, ListenInv
<1>2. UNCHANGED <<orphans, worker, stop, open, scenario>>
  BY DEF wvars
<1>3. WorkerInv'
  BY <1>1, <1>2 DEF WorkerInv, WorkerTypeOK, HooksBalanced
<1>4. ListsOK'
  BY <1>1, <1>2 DEF ListsOK, TimersOK
<1>5. Tied(l)'
  <2>1. listener'[l] = s
    BY <1>1
  <2>. QED
    BY <1>1, <1>2, <2>1 DEF Tied, Leaving
<1>6. \A e : In(queue, e) \/ In(buffer, e) \/ Orphaned(orphans, e) \/ Has(listener[l], e)
         => \/ e \in handled' \/ e \in dead' \/ In(queue', e) \/ In(buffer', e)
            \/ Orphaned(orphans', e) \/ Has(s, e)
  BY <1>2
<1>. QED
  BY <1>2, <1>3, <1>4, <1>5, <1>6, ListenerStep

\* A claim of the buffer: it moves from there to the batch.
LEMMA Claiming ==
    ASSUME BatchInv, NEW l \in Listeners, UNCHANGED <<wvars, scenario>>, mishaps' \in Nat,
           listener[l].pc = "claiming", buffer # <<>>, NEW pc \in {"claiming", "decoding", "abort"},
           pc = "claiming" => Len(Joined(l)) # BatchSize,
           listener' = [listener EXCEPT ![l].batch = Joined(l), ![l].pc = pc],
           buffer' = Tail(buffer), UNCHANGED <<queue, orphans, handled, dead>>, TimersOK'
    PROVE  BatchInv'
<1> DEFINE self == listener[l]
           s == [self EXCEPT !.batch = Joined(l), !.pc = pc]
<1>1. /\ self \in ListenRecords /\ Sized(self) /\ Holding(self, handled) /\ ListsOK
      /\ self.batch \in Seq(Copies) /\ self.buffered \in BOOLEAN /\ BatchSize \in Nat
      /\ buffer \in Seq(Copies) /\ listener \in [Listeners -> ListenRecords]
  BY TypeIs, BatchAssumption DEF BatchInv, ListenInv, ListenRecords, ListsOK
<1>2. /\ Head(buffer) \in Copies /\ buffer' \in Seq(Copies)
      /\ \A e : In(buffer, e) <=> In(buffer', e) \/ Head(buffer).event = e
  BY <1>1, SeqTail
<1>3. /\ Joined(l) \in Seq(Copies) /\ Len(Joined(l)) = Len(self.batch) + 1
      /\ Joined(l) # <<>>
      /\ \A e : In(Joined(l), e) <=> In(self.batch, e) \/ Head(buffer).event = e
  BY <1>1, <1>2, SeqAppend DEF Joined
<1>4. Len(self.batch) < BatchSize /\ Len(self.batch) \in Nat
  BY <1>1 DEF Holding
<1>5. /\ s \in ListenRecords /\ s.msg = self.msg /\ s.buffered = self.buffered
      /\ s.batch = Joined(l) /\ s.pc = pc
  BY <1>1, <1>3 DEF ListenRecords, ListenPCs
<1>6. listener' = [listener EXCEPT ![l] = s]
  BY <1>1
<1>. HIDE DEF s
<1>7. Sized(s)
  BY <1>1, <1>3, <1>4, <1>5 DEF Sized
<1>8. Holding(s, handled')
  <2>1. pc = "claiming" => Len(Joined(l)) < BatchSize
    BY <1>1, <1>3, <1>4
  <2>. QED
    BY <1>1, <1>3, <1>5, <2>1 DEF Holding
<1>9. \A e : In(queue, e) \/ In(buffer, e) \/ Has(self, e)
         => \/ e \in handled' \/ e \in dead' \/ In(queue', e) \/ In(buffer', e)
            \/ Has(s, e)
  BY <1>2, <1>3, <1>5 DEF Has
<1>10. queue' \in Seq(Copies) /\ handled' \subseteq Events /\ dead' \subseteq Events
  BY <1>1 DEF ListsOK
<1>. QED
  BY <1>2, <1>5, <1>6, <1>7, <1>8, <1>9, <1>10, ListenMove

\* A message of the queue: it moves from there to msg.
LEMMA Consuming ==
    ASSUME BatchInv, NEW l \in Listeners, UNCHANGED <<wvars, scenario>>, mishaps' \in Nat,
           listener[l].pc = "consume", queue # <<>>, NEW pc \in {"failing", "sizing", "abort"},
           listener' = [listener EXCEPT ![l].msg = <<Head(queue)>>, ![l].pc = pc],
           queue' = Tail(queue), UNCHANGED <<buffer, orphans, handled, dead>>, TimersOK'
    PROVE  BatchInv'
<1> DEFINE self == listener[l]
           m == <<Head(queue)>>
           s == [self EXCEPT !.msg = m, !.pc = pc]
<1>1. /\ self \in ListenRecords /\ Sized(self) /\ Holding(self, handled) /\ ListsOK
      /\ queue \in Seq(Copies) /\ listener \in [Listeners -> ListenRecords]
  BY TypeIs DEF BatchInv, ListenInv, ListsOK
<1>2. /\ Head(queue) \in Copies /\ queue' \in Seq(Copies)
      /\ \A e : In(queue, e) <=> In(queue', e) \/ Head(queue).event = e
  BY <1>1, SeqTail
<1>3. /\ m \in Seq(Copies) /\ Len(m) = 1 /\ m # <<>> /\ 1 \in DOMAIN m /\ m[1] = Head(queue)
  BY <1>2
<1>4. listener' = [listener EXCEPT ![l] = s]
  BY <1>1
<1>. HIDE DEF m
<1>5. /\ s \in ListenRecords /\ s.msg = m /\ s.buffered = self.buffered
      /\ s.batch = self.batch /\ s.pc = pc
  BY <1>1, <1>3 DEF ListenRecords, ListenPCs
<1>. HIDE DEF s
<1>6. self.batch = <<>> /\ ~self.buffered /\ self.msg = <<>>
  BY <1>1 DEF Holding
<1>7. Sized(s)
  <2>1. Len(s.msg) = 1
    BY <1>3, <1>5
  <2>2. Len(s.batch) <= BatchSize
    BY <1>1, <1>5 DEF Sized
  <2>. QED
    BY <2>1, <2>2 DEF Sized
<1>8. Holding(s, handled')
  BY <1>3, <1>5, <1>6 DEF Holding
<1>9. In(m, Head(queue).event) /\ \A e : ~In(<<>>, e)
  BY <1>3 DEF In
<1>10. \A e : In(queue, e) \/ In(buffer, e) \/ Has(self, e)
         => \/ e \in handled' \/ e \in dead' \/ In(queue', e) \/ In(buffer', e)
            \/ Has(s, e)
  BY <1>2, <1>5, <1>6, <1>9 DEF Has
<1>11. buffer' \in Seq(Copies) /\ handled' \subseteq Events /\ dead' \subseteq Events
  BY <1>1 DEF ListsOK
<1>. QED
  BY <1>2, <1>4, <1>5, <1>7, <1>8, <1>10, <1>11, ListenMove

LEMMA Accepting ==
    ASSUME BatchInv, NEW l \in Listeners, UNCHANGED <<wvars, scenario>>, mishaps' \in Nat,
           HandlerAccepts(l)
    PROVE  BatchInv'
<1> DEFINE self == listener[l]
           s == [self EXCEPT !.pc = "acking"]
<1>1. /\ self \in ListenRecords /\ Sized(self) /\ Holding(self, handled) /\ ListsOK
      /\ self.batch \in Seq(Copies) /\ listener \in [Listeners -> ListenRecords]
  BY TypeIs DEF BatchInv, ListenInv, ListenRecords
<1>2. /\ self.pc = "decoding" /\ listener' = [listener EXCEPT ![l] = s]
      /\ handled' = handled \cup {copy.event : copy \in ToSet(self.batch)}
      /\ UNCHANGED <<queue, buffer, orphans, dead, started, backoff, faults>>
  BY <1>1 DEF HandlerAccepts, Goes, timers
<1>3. \A i \in DOMAIN self.batch : self.batch[i] \in Copies /\ self.batch[i] \in ToSet(self.batch)
  BY <1>1 DEF ToSet
<1>4. \A copy \in ToSet(self.batch) : copy.event \in Events
  <2>1. \A copy \in ToSet(self.batch) : \E i \in DOMAIN self.batch : copy = self.batch[i]
    BY DEF ToSet
  <2>2. \A copy \in ToSet(self.batch) : copy \in Copies
    BY <1>3, <2>1
  <2>. QED
    BY <2>2 DEF Copies
<1>5. handled \subseteq handled' /\ handled' \subseteq Events
  BY <1>1, <1>2, <1>4 DEF ListsOK
<1>6. \A i \in DOMAIN self.batch : self.batch[i].event \in handled'
  BY <1>2, <1>3
<1>7. /\ s \in ListenRecords /\ s.msg = self.msg /\ s.buffered = self.buffered
      /\ s.batch = self.batch /\ s.pc = "acking"
  BY <1>1 DEF ListenRecords, ListenPCs
<1>. HIDE DEF s
<1>8. Sized(s) /\ Holding(s, handled')
  BY <1>1, <1>2, <1>6, <1>7 DEF Sized, Holding
<1>9. \A e : In(queue, e) \/ In(buffer, e) \/ Has(self, e)
         => \/ e \in handled' \/ e \in dead' \/ In(queue', e) \/ In(buffer', e)
            \/ Has(s, e)
  BY <1>2, <1>7 DEF Has
<1>10. /\ queue' \in Seq(Copies) /\ buffer' \in Seq(Copies) /\ dead' \subseteq Events
       /\ dead \subseteq dead' /\ TimersOK'
  BY <1>1, <1>2 DEF ListsOK, TimersOK
<1>. QED
  BY <1>2, <1>5, <1>7, <1>8, <1>9, <1>10, ListenMove

\* A settlement that takes effect, at least in part: a claim that is given up
\* has been published or handled.
LEMMA SettlingStep ==
    ASSUME BatchInv, NEW l \in Listeners, UNCHANGED <<wvars, scenario, orphans, handled>>,
           mishaps' \in Nat, Settling(l), Publication(l), TimersOK',
           NEW s \in {Acked(l), [Acked(l) EXCEPT !.pc = "abort"], Unsettled(l)},
           listener' = [listener EXCEPT ![l] = s]
    PROVE  BatchInv'
<1> DEFINE self == listener[l]
<1>1. /\ self \in ListenRecords /\ Sized(self) /\ ListsOK
  BY TypeIs DEF BatchInv, ListenInv
<1>2. PICK x : /\ Published(x) \/ (x \in handled /\ UNCHANGED <<queue, buffer, dead>>)
               /\ Acked(l) \in ListenRecords /\ Sized(Acked(l)) /\ Acked(l).pc # "idle"
               /\ Holding(Acked(l), handled)
               /\ \A e : Has(self, e) => Has(Acked(l), e) \/ e = x
  BY Settlement
<1>3. /\ queue' \in Seq(Copies) /\ buffer' \in Seq(Copies)
      /\ handled' \subseteq Events /\ dead' \subseteq Events
      /\ handled \subseteq handled' /\ dead \subseteq dead'
      /\ \A e : (In(queue, e) => In(queue', e)) /\ (In(buffer, e) => In(buffer', e))
      /\ x \in handled' \/ x \in dead' \/ In(queue', x) \/ In(buffer', x)
  BY <1>1, <1>2 DEF Published, ListsOK
<1>4. /\ s \in ListenRecords /\ Sized(s) /\ s.pc # "idle" /\ Holding(s, handled')
      /\ \A e : Has(self, e) => Has(s, e) \/ e = x
  <2>1. CASE s = Acked(l)
    BY <1>2, <2>1
  <2>2. ASSUME NEW r \in ListenRecords, Sized(r), s = [r EXCEPT !.pc = "abort"],
               \A e : Has(self, e) => Has(r, e) \/ e = x
        PROVE  /\ s \in ListenRecords /\ Sized(s) /\ s.pc # "idle" /\ Holding(s, handled')
               /\ \A e : Has(self, e) => Has(s, e) \/ e = x
    <3>1. /\ s \in ListenRecords /\ s.pc = "abort" /\ s.msg = r.msg /\ s.batch = r.batch
          /\ s.buffered = r.buffered
      BY <2>2 DEF ListenRecords, ListenPCs
    <3>. QED
      BY <2>2, <3>1 DEF Sized, Holding, Has
  <2>3. CASE s = [Acked(l) EXCEPT !.pc = "abort"]
    BY <1>2, <2>2, <2>3
  <2>4. CASE s = Unsettled(l)
    BY <1>1, <2>2, <2>4 DEF Unsettled
  <2>. QED
    BY <2>1, <2>3, <2>4
<1>5. self.pc # "idle"
  BY DEF Settling
<1>6. \A e : In(queue, e) \/ In(buffer, e) \/ Has(self, e)
         => \/ e \in handled' \/ e \in dead' \/ In(queue', e) \/ In(buffer', e)
            \/ Has(s, e)
  BY <1>3, <1>4
<1>. QED
  BY <1>3, <1>4, <1>5, <1>6, ListenMove

LEMMA ListenPreserves ==
    ASSUME BatchInv, NEW l \in Listeners, UNCHANGED <<wvars, scenario, mishaps>>,
           ListenStep(l) \/ ListenFault(l)
    PROVE  BatchInv'
<1>1. mishaps' \in Nat /\ TimersOK /\ ListsOK /\ UNCHANGED <<wvars, scenario>>
  BY TypeIs DEF BatchInv, ListenInv, ListsOK, TimersOK
<1>2. CASE InBackoff(l) \/ ReadSize(l) \/ ReadSizeRaises(l) \/ ClaimsEnd(l)
           \/ HandlerRaises(l) \/ ConsumeNone(l) \/ FirstInBuffer(l)
           \/ FirstInBufferRaises(l)
  BY <1>1, <1>2, QuietListening
<1>3. CASE /\ listener[l].pc \in {"claiming", "consume"} \/ Settling(l)
           /\ Goes(l, "abort") /\ Fault /\ UNCHANGED <<lists, timers>>
  BY <1>1, <1>3, QuietListening
<1>4. CASE ClaimMember(l)
  <2> DEFINE pc == IF Len(Joined(l)) = BatchSize THEN "decoding" ELSE "claiming"
  <2>1. /\ listener[l].pc = "claiming" /\ buffer # <<>> /\ buffer' = Tail(buffer)
        /\ listener' = [listener EXCEPT ![l].batch = Joined(l), ![l].pc = pc]
        /\ UNCHANGED <<queue, orphans, handled, dead, started, backoff, faults>>
    <3>1. listener[l] \in ListenRecords /\ listener \in [Listeners -> ListenRecords]
      BY DEF BatchInv, ListenInv
    <3>. QED
      BY <1>4, <3>1 DEF ClaimMember, timers, ListenRecords
  <2>2. pc \in {"claiming", "decoding", "abort"} /\ (pc = "claiming" => Len(Joined(l)) # BatchSize)
    OBVIOUS
  <2>. HIDE DEF pc
  <2>3. TimersOK'
    BY <1>1, <2>1 DEF TimersOK
  <2>. QED
    BY <1>1, <2>1, <2>2, <2>3, Claiming
<1>5. CASE ClaimMemberRaises(l)
  <2>1. /\ listener[l].pc = "claiming" /\ buffer # <<>> /\ Fault
        /\ UNCHANGED <<queue, orphans, handled, dead, timers>>
    BY <1>5 DEF ClaimMemberRaises
  <2>2. TimersOK'
    BY <1>1, <2>1 DEF TimersOK, timers, Fault
  <2>3. CASE /\ listener' = [listener EXCEPT ![l].batch = Joined(l), ![l].pc = "abort"]
             /\ buffer' = Tail(buffer)
    BY <1>1, <2>1, <2>2, <2>3, Claiming
  <2>4. CASE Goes(l, "abort") /\ UNCHANGED buffer
    BY <1>3, <2>1, <2>4 DEF lists
  <2>. QED
    BY <1>5, <2>3, <2>4 DEF ClaimMemberRaises
<1>6. CASE Consume(l)
  <2> DEFINE pc == IF Undecodable(l, Head(queue)) THEN "failing" ELSE "sizing"
  <2>1. /\ listener[l].pc = "consume" /\ queue # <<>> /\ queue' = Tail(queue)
        /\ listener' = [listener EXCEPT ![l].msg = <<Head(queue)>>, ![l].pc = pc]
        /\ UNCHANGED <<buffer, orphans, handled, dead, started, backoff, faults>>
    BY <1>6 DEF Consume, timers
  <2>2. pc \in {"failing", "sizing", "abort"}
    OBVIOUS
  <2>. HIDE DEF pc
  <2>3. TimersOK'
    BY <1>1, <2>1 DEF TimersOK
  <2>. QED
    BY <1>1, <2>1, <2>2, <2>3, Consuming
<1>7. CASE ConsumeRaises(l)
  <2>1. /\ listener[l].pc = "consume" /\ queue # <<>> /\ Fault
        /\ UNCHANGED <<buffer, orphans, handled, dead, timers>>
    BY <1>7 DEF ConsumeRaises
  <2>2. TimersOK'
    BY <1>1, <2>1 DEF TimersOK, timers, Fault
  <2>3. CASE /\ listener' = [listener EXCEPT ![l].msg = <<Head(queue)>>, ![l].pc = "abort"]
             /\ queue' = Tail(queue)
    BY <1>1, <2>1, <2>2, <2>3, Consuming
  <2>4. CASE Goes(l, "abort") /\ UNCHANGED queue
    BY <1>3, <2>1, <2>4 DEF lists
  <2>. QED
    BY <1>7, <2>3, <2>4 DEF ConsumeRaises
<1>8. CASE HandlerAccepts(l)
  BY <1>1, <1>8, Accepting
<1>9. CASE Settle(l)
  <2>1. /\ Settling(l) /\ Publication(l) /\ listener' = [listener EXCEPT ![l] = Acked(l)]
        /\ TimersAfter(l) /\ UNCHANGED <<orphans, handled, faults>>
    BY <1>9 DEF Settle
  <2>2. TimersOK'
    <3>1. Requeued(l) \in BOOLEAN
      BY DEF Requeued
    <3>. HIDE DEF Requeued
    <3>. QED
      BY <1>1, <2>1, <3>1 DEF TimersAfter, TimersOK, PopTimers, timers
  <2>. QED
    BY <1>1, <2>1, <2>2, SettlingStep
<1>10. CASE SettleRaises(l)
  <2>1. Settling(l) /\ Fault /\ UNCHANGED <<orphans, handled, timers>>
    BY <1>10 DEF SettleRaises
  <2>2. TimersOK'
    BY <1>1, <2>1 DEF TimersOK, timers, Fault
  <2>3. CASE UNCHANGED <<queue, buffer, dead>> /\ listener' = [listener EXCEPT ![l] = Unsettled(l)]
    <3>1. Goes(l, "abort")
      BY <2>3 DEF Goes, Unsettled, BatchInv, ListenInv
    <3>. QED
      BY <1>3, <2>1, <2>3, <3>1 DEF lists
  <2>4. CASE Publication(l) /\ listener' = [listener EXCEPT ![l] = Unsettled(l)]
    BY <1>1, <2>1, <2>2, <2>4, SettlingStep
  <2>5. CASE Publication(l) /\ listener' = [listener EXCEPT ![l] = [Acked(l) EXCEPT !.pc = "abort"]]
    BY <1>1, <2>1, <2>2, <2>5, SettlingStep
  <2>. QED
    BY <1>10, <2>3, <2>4, <2>5 DEF SettleRaises
<1>. QED
  BY <1>2, <1>4, <1>5, <1>6, <1>7, <1>8, <1>9, <1>10 DEF ListenStep, ListenFault
-----------------------------------------------------------------------------
(* The steps of a worker and its listener together.                        *)

LEMMA OneWorker ==
    ASSUME WorkerInv, NEW w \in Workers, WorkerAction(w)
    PROVE  \A k \in Workers \ {w} : worker'[k] = worker[k]
<1>1. worker \in [Workers -> WorkerRecords]
  BY DEF WorkerInv, WorkerTypeOK, WorkerRecords
<1>2. \/ \E r : worker' = [worker EXCEPT ![w] = r]
      \/ UNCHANGED worker
  BY <1>1 DEF WorkerAction, Run, StartHook, StartHookRaises, Cycle, BeforePollRaises,
         AdmitPoll, RefusePoll, PollEnds, AfterPollRaises, PollInterrupted, Report, Wait,
         StopHook, StopHookRaises, EndRun, Stop, Kill, Goto
<1>. QED
  BY <1>1, <1>2

\* A step that leaves the listeners and the lists alone.
LEMMA StayingStep ==
    ASSUME BatchInv, NEW w \in Listeners, WorkerInv',
           \A k \in Listeners \ {w} : worker'[k] = worker[k],
           UNCHANGED <<lists, listener, scenario>>, TimersOK', mishaps' \in Nat, Tied(w)'
    PROVE  BatchInv'
<1>1. /\ ListsOK /\ listener[w] \in ListenRecords /\ Sized(listener[w])
      /\ Holding(listener[w], handled) /\ listener \in [Listeners -> ListenRecords]
  BY TypeIs DEF BatchInv, ListenInv
<1>2. UNCHANGED <<queue, buffer, orphans, handled, dead>>
  BY DEF lists
<1>3. ListsOK'
  BY <1>1, <1>2 DEF ListsOK, TimersOK
<1>4. listener' = [listener EXCEPT ![w] = listener[w]]
  BY <1>1
<1>. QED
  BY <1>1, <1>2, <1>3, <1>4, ListenerStep

LEMMA FreeIs ==
    /\ Free \in ListenRecords /\ Free.pc = "idle" /\ Free.msg = <<>> /\ Free.batch = <<>>
    /\ Free.buffered = FALSE
<1>1. <<>> \in Seq(Copies)
  OBVIOUS
<1>. QED
  BY <1>1 DEF Free, ListenRecords, ListenPCs

\* The end of a poll: claims survive it on the way out of the loop only.
LEMMA EndingStep ==
    ASSUME BatchInv, NEW w \in Listeners, WorkerInv',
           \A k \in Listeners \ {w} : worker'[k] = worker[k],
           EndPoll(w), worker'[w].pc # "polling",
           Leaving(w)' \/ listener[w].pc \in {"done", "error"},
           faults' \in Nat, UNCHANGED scenario, mishaps' \in Nat
    PROVE  BatchInv'
<1> DEFINE self == listener[w]
           m == IF self.buffered THEN <<>> ELSE self.msg
           s == [Free EXCEPT !.batch = self.batch, !.msg = m]
<1>1. /\ ListsOK /\ self \in ListenRecords /\ Sized(self)
      /\ Holding(self, handled) /\ listener \in [Listeners -> ListenRecords]
      /\ self.batch \in Seq(Copies) /\ self.msg \in Seq(Copies) /\ self.buffered \in BOOLEAN
  BY TypeIs DEF BatchInv, ListenInv, ListenRecords
<1>2. /\ listener' = [listener EXCEPT ![w] = s]
      /\ UNCHANGED <<queue, buffer, orphans, handled, dead, started, backoff>>
  BY DEF EndPoll, lists, timers
<1>3. m \in Seq(Copies) /\ Len(m) <= 1
  <2>1. CASE self.buffered
    BY <2>1
  <2>2. CASE ~self.buffered
    BY <1>1, <2>2 DEF Sized
  <2>. QED
    BY <2>1, <2>2
<1>4. ~self.buffered => m = self.msg
  OBVIOUS
<1>5. self.buffered \/ self.msg = <<>> => m = <<>>
  OBVIOUS
<1>. HIDE DEF m
<1>6. s \in ListenRecords
  BY <1>1, <1>3, FreeIs DEF ListenRecords
<1>8. s.pc = "idle" /\ s.msg = m /\ s.batch = self.batch /\ s.buffered = FALSE
  BY FreeIs DEF ListenRecords
<1>. HIDE DEF s
<1>9. Sized(s) /\ Holding(s, handled')
  BY <1>1, <1>3, <1>8 DEF Sized, Holding
<1>10. ListsOK'
  BY <1>1, <1>2 DEF ListsOK
<1>11. Tied(w)'
  <2>1. listener'[w] = s
    BY <1>1, <1>2
  <2>2. CASE Leaving(w)'
    BY <1>8, <2>1, <2>2 DEF Tied
  <2>3. CASE self.pc \in {"done", "error"}
    <3>1. self.batch = <<>> /\ m = <<>>
      BY <1>1, <1>5, <2>3 DEF Holding
    <3>. QED
      BY <1>8, <2>1, <3>1 DEF Tied
  <2>. QED
    BY <2>2, <2>3
<1>12. \A e : Has(self, e) => Has(s, e)
  BY <1>1, <1>4, <1>8 DEF Has
<1>13. \A e : In(queue, e) \/ In(buffer, e) \/ Orphaned(orphans, e) \/ Has(self, e)
         => \/ e \in handled' \/ e \in dead' \/ In(queue', e) \/ In(buffer', e)
            \/ Orphaned(orphans', e) \/ Has(s, e)
  BY <1>2, <1>12
<1>. QED
  BY <1>2, <1>6, <1>9, <1>10, <1>11, <1>13, ListenerStep

LEMMA Adoption ==
    ASSUME NEW bag, DOMAIN bag \subseteq Claim, NEW s \in Seq(Claim)
    PROVE  /\ DOMAIN (bag (+) ToBag(s)) \subseteq Claim
           /\ \A e : Orphaned(bag (+) ToBag(s), e)
                       <=> Orphaned(bag, e) \/ \E claim \in ToSet(s) : claim.copy.event = e
<1>1. DOMAIN (bag (+) ToBag(s)) = DOMAIN bag \cup DOMAIN ToBag(s)
  BY DEF (+)
<1>2. DOMAIN ToBag(s) = ToSet(s)
  <2>1. DOMAIN ToBag(s) = Range(s)
    BY DEF ToBag
  <2>2. Range(s) = ToSet(s)
    BY DEF Range, ToSet
  <2>. QED
    BY <2>1, <2>2
<1>3. ToSet(s) \subseteq Claim
  BY DEF ToSet
<1>. QED
  BY <1>1, <1>2, <1>3 DEF Orphaned

LEMMA AbandonStep ==
    ASSUME BatchInv, NEW w \in Listeners, WorkerInv',
           \A k \in Listeners \ {w} : worker'[k] = worker[k],
           Abandon(w), worker'[w].pc = "down",
           faults' \in Nat, UNCHANGED scenario, mishaps' \in Nat
    PROVE  BatchInv'
<1> DEFINE self == listener[w]
<1>1. /\ ListsOK /\ self \in ListenRecords /\ Sized(self)
      /\ listener \in [Listeners -> ListenRecords] /\ DOMAIN orphans \subseteq Claim
  BY TypeIs DEF BatchInv, ListenInv, ListsOK
<1>2. /\ listener' = [listener EXCEPT ![w] = Free]
      /\ orphans' = orphans (+) ToBag(Claims(w))
      /\ UNCHANGED <<queue, buffer, handled, dead, started, backoff>>
  BY DEF Abandon, timers
<1>3. Claims(w) = ClaimsOf(self)
  BY DEF Claims, ClaimsOf
<1>4. /\ ClaimsOf(self) \in Seq(Claim)
      /\ \A e : Has(self, e) <=> \E claim \in ToSet(ClaimsOf(self)) : claim.copy.event = e
  BY <1>1, ClaimsAre DEF Sized
<1>5. /\ DOMAIN orphans' \subseteq Claim
      /\ \A e : Orphaned(orphans', e) <=> Orphaned(orphans, e) \/ Has(self, e)
  BY <1>1, <1>2, <1>3, <1>4, Adoption
<1>6. /\ Free \in ListenRecords /\ Free.pc = "idle" /\ Free.msg = <<>> /\ Free.batch = <<>>
      /\ Free.buffered = FALSE
  BY FreeIs
<1>7. Sized(Free) /\ Holding(Free, handled')
  BY <1>6, BatchAssumption DEF Sized, Holding
<1>8. ListsOK'
  BY <1>1, <1>2, <1>5 DEF ListsOK
<1>9. Tied(w)'
  <2>1. listener'[w] = Free
    BY <1>1, <1>2
  <2>. QED
    BY <1>6, <2>1 DEF Tied
<1>. QED
  BY <1>2, <1>5, <1>6, <1>7, <1>8, <1>9, ListenerStep

\* The reaper publishes the claim that it takes off the orphans.
LEMMA SweepPreserves ==
    ASSUME BatchInv, Sweep, UNCHANGED scenario
    PROVE  BatchInv'
<1>1. /\ ListsOK /\ listener \in [Listeners -> ListenRecords] /\ WorkerInv
      /\ \A l \in Listeners : Sized(listener[l]) /\ Holding(listener[l], handled) /\ Tied(l)
      /\ NoEventLost /\ DOMAIN orphans \subseteq Claim
  BY TypeIs DEF BatchInv, ListenInv, ListsOK
<1>2. PICK claim \in DOMAIN orphans : Reap(claim)
  BY DEF Sweep, BagToSet
<1>3. /\ Failed(claim.channel, claim.copy, MaxReclaim) /\ orphans' = BagRemove(orphans, claim)
      /\ UNCHANGED <<handled, listener, started, backoff, faults, worker, stop, open, mishaps>>
  BY <1>2 DEF Reap, Sweep, timers, wvars
<1>4. claim.channel \in {"queue", "buffer"} /\ claim.copy \in Copies
  BY <1>1 DEF Claim
<1>5. Published(claim.copy.event)
  BY <1>1, <1>3, <1>4, FailedPublishes
<1>6. DOMAIN orphans' \subseteq DOMAIN orphans /\ DOMAIN orphans \subseteq DOMAIN orphans' \cup {claim}
  BY <1>3 DEF BagRemove
<1>7. \A e : Orphaned(orphans, e) => Orphaned(orphans', e) \/ e = claim.copy.event
  BY <1>6 DEF Orphaned
<1>8. ListsOK'
  BY <1>1, <1>3, <1>5, <1>6 DEF ListsOK, Published
<1>9. BatchTypeOK'
  BY <1>1, <1>3, <1>8, TypeIs
<1>10. ListenInv'
  BY <1>1, <1>3, <1>9 DEF ListenInv, Tied, Leaving
<1>11. WorkerInv'
  BY <1>1, <1>3 DEF WorkerInv, WorkerTypeOK, HooksBalanced
<1>12. Records(listener) /\ Records(listener)'
  BY <1>1, <1>3 DEF Records, Sized
<1>13. \A e \in Events : KeptNow(e)
  BY <1>1, <1>12, LostOrKept
<1>14. ASSUME NEW e \in Events PROVE KeptNow(e)'
  BY <1>3, <1>5, <1>7, <1>13 DEF KeptNow, Kept, Published
<1>15. NoEventLost'
  BY <1>12, <1>14, LostOrKept
<1>. QED
  BY <1>3, <1>10, <1>11, <1>15 DEF BatchInv

\* A step of the worker alone.
LEMMA WorkerAlone ==
    ASSUME BatchInv, NEW w \in Listeners, WorkerStep(w) \/ WorkerMishap(w),
           UNCHANGED <<bvars, scenario>>, mishaps' \in Nat
    PROVE  BatchInv'
<1>1. /\ Workers = Listeners /\ WorkerInv /\ ListsOK /\ Tied(w)
      /\ worker \in [Workers -> WorkerRecords] /\ w \in Workers
  BY ComposedAssumption, TypeIs DEF BatchInv, ListenInv, WorkerInv, WorkerTypeOK, WorkerRecords
<1>2. WorkerAction(w)
  BY DEF WorkerStep, WorkerMishap, WorkerAction
<1>3. WorkerInv' /\ \A k \in Listeners \ {w} : worker'[k] = worker[k]
  BY <1>1, <1>2, OneWorker, WorkerPreserves
<1>4. UNCHANGED <<lists, listener, scenario, started, backoff, faults>>
  BY DEF bvars, timers
<1>5. TimersOK'
  BY <1>1, <1>4 DEF ListsOK, TimersOK
<1>6. Tied(w)'
  <2>1. /\ worker[w].pc # "polling" /\ worker'[w].pc # "polling"
        /\ Leaving(w) => Leaving(w)'
     \/ UNCHANGED worker
    <3>1. CASE StartHook(w)
      BY <1>1, <3>1 DEF StartHook, Leaving, WorkerRecords
    <3>2. CASE Cycle(w) \/ RefusePoll(w) \/ Wait(w)
      BY <1>1, <3>2 DEF Cycle, RefusePoll, Wait, Goto, Leaving, WorkerRecords
    <3>3. CASE Report(w)
      BY <1>1, <3>3 DEF Report, Leaving, WorkerRecords
    <3>4. CASE StopHook(w) \/ StopHookRaises(w)
      BY <1>1, <3>4 DEF StopHook, StopHookRaises, Leaving, WorkerRecords
    <3>5. CASE StartHookRaises(w)
      BY <1>1, <3>5 DEF StartHookRaises, Leaving, WorkerRecords
    <3>6. CASE Stop(w)
      BY <3>6 DEF Stop
    <3>7. ASSUME NEW error \in Errors, BeforePollRaises(w, error)
          PROVE  /\ worker[w].pc # "polling" /\ worker'[w].pc # "polling"
                 /\ Leaving(w) => Leaving(w)'
      BY <1>1, <3>7 DEF BeforePollRaises, Leaving, WorkerRecords
    <3>. QED
      BY <3>1, <3>2, <3>3, <3>4, <3>5, <3>6, <3>7 DEF WorkerStep, WorkerMishap
  <2>. QED
    BY <1>1, <1>4, <2>1 DEF Tied, Leaving
<1>. QED
  BY <1>3, <1>4, <1>5, <1>6, StayingStep

LEMMA PollPreserves ==
    ASSUME BatchInv, NEW w \in Listeners, UNCHANGED scenario, mishaps' \in Nat,
           Poll(w) \/ Return(w) \/ ReturnHookRaises(w) \/ Interrupt(w)
    PROVE  BatchInv'
<1> DEFINE self == listener[w]
<1>1. /\ Workers = Listeners /\ WorkerInv /\ ListsOK /\ Tied(w)
      /\ worker \in [Workers -> WorkerRecords] /\ w \in Workers
      /\ self \in ListenRecords /\ Sized(self) /\ Holding(self, handled)
      /\ listener \in [Listeners -> ListenRecords] /\ faults \in Nat
  BY ComposedAssumption, TypeIs
     DEF BatchInv, ListenInv, ListsOK, WorkerInv, WorkerTypeOK, WorkerRecords
<1>2. self.pc \in {"done", "error", "abort"} =>
         /\ Raised(w) \in Errors \cup {None}
         /\ self.pc = "abort" => Raised(w) = "abort"
  BY DEF Raised, Errors
<1>3. WorkerAction(w)
  BY <1>2 DEF Poll, Return, ReturnHookRaises, Interrupt, WorkerAction
<1>4. WorkerInv' /\ \A k \in Listeners \ {w} : worker'[k] = worker[k]
  BY <1>1, <1>3, OneWorker, WorkerPreserves
<1>5. CASE Poll(w)
  <2> DEFINE s == [self EXCEPT !.pc = "flush"]
  <2>1. /\ listener' = [listener EXCEPT ![w] = s] /\ self.pc = "idle"
        /\ UNCHANGED <<queue, buffer, orphans, handled, dead, started, backoff, faults>>
    BY <1>1, <1>5 DEF Poll, BeginPoll, Goes, lists, timers
  <2>2. worker[w].pc = "admitting" /\ worker'[w].pc = "polling"
    BY <1>1, <1>5 DEF Poll, AdmitPoll, Goto, WorkerRecords
  <2>3. self.batch = <<>> /\ self.msg = <<>> /\ ~self.buffered
    BY <1>1, <2>1, <2>2 DEF Tied, Leaving, Holding
  <2>4. /\ s \in ListenRecords /\ s.pc = "flush" /\ s.msg = self.msg /\ s.batch = self.batch
        /\ s.buffered = self.buffered
    BY <1>1 DEF ListenRecords, ListenPCs
  <2>. HIDE DEF s
  <2>5. Sized(s) /\ Holding(s, handled')
    BY <1>1, <2>3, <2>4 DEF Sized, Holding
  <2>6. ListsOK'
    BY <1>1, <2>1 DEF ListsOK
  <2>7. Tied(w)'
    <3>1. listener'[w] = s
      BY <1>1, <2>1
    <3>. QED
      BY <2>2, <2>4, <3>1 DEF Tied, Leaving
  <2>8. \A e : Has(self, e) => Has(s, e)
    BY <2>4 DEF Has
  <2>9. \A e : In(queue, e) \/ In(buffer, e) \/ Orphaned(orphans, e) \/ Has(self, e)
           => \/ e \in handled' \/ e \in dead' \/ In(queue', e) \/ In(buffer', e)
              \/ Orphaned(orphans', e) \/ Has(s, e)
    BY <2>1, <2>8
  <2>. QED
    BY <1>4, <2>1, <2>4, <2>5, <2>6, <2>7, <2>9, ListenerStep
<1>6. CASE Return(w) \/ ReturnHookRaises(w) \/ Interrupt(w)
  <2>1. EndPoll(w) /\ faults' \in Nat
    BY <1>1, <1>6 DEF Return, ReturnHookRaises, Interrupt, Fault
  <2>2. worker'[w].pc # "polling" /\ (Leaving(w)' \/ self.pc \in {"done", "error"})
    <3>1. CASE Return(w)
      BY <1>1, <1>2, <3>1, WorkerAssumption DEF Return, PollEnds, Leaving, WorkerRecords
    <3>2. CASE ReturnHookRaises(w)
      BY <1>1, <1>2, <3>2, WorkerAssumption
         DEF ReturnHookRaises, AfterPollRaises, CycleError, Leaving, WorkerRecords
    <3>3. CASE Interrupt(w)
      BY <1>1, <3>3 DEF Interrupt, PollInterrupted, Leaving, WorkerRecords
    <3>. QED
      BY <1>6, <3>1, <3>2, <3>3
  <2>. QED
    BY <1>4, <2>1, <2>2, EndingStep
<1>. QED
  BY <1>5, <1>6

LEMMA LifePreserves ==
    ASSUME BatchInv, NEW w \in Listeners, UNCHANGED <<scenario, mishaps>>,
           Supervise(w) \/ Leave(w) \/ Die(w) \/ Clock(w)
    PROVE  BatchInv'
<1>1. /\ Workers = Listeners /\ WorkerInv /\ ListsOK /\ Tied(w) /\ mishaps' \in Nat
      /\ worker \in [Workers -> WorkerRecords] /\ w \in Workers /\ faults \in Nat
      /\ started \in [Listeners -> {"none", "running", "over"}]
      /\ backoff \in [Listeners -> BOOLEAN]
  BY ComposedAssumption, TypeIs
     DEF BatchInv, ListenInv, ListsOK, WorkerInv, WorkerTypeOK, WorkerRecords
<1>2. WorkerAction(w) => WorkerInv' /\ \A k \in Listeners \ {w} : worker'[k] = worker[k]
  BY <1>1, OneWorker, WorkerPreserves
<1>3. CASE Supervise(w)
  <2>1. Run(w) /\ PopTimers(w) /\ UNCHANGED <<lists, listener, faults>>
    BY <1>3 DEF Supervise, NewListener
  <2>2. TimersOK'
    BY <1>1, <2>1 DEF TimersOK, PopTimers
  <2>3. Tied(w)'
    <3>1. worker[w].pc = "down" /\ worker'[w].pc \in {"looping", "starting"}
      BY <1>1, <2>1 DEF Run, Goto, WorkerRecords
    <3>. QED
      BY <1>1, <2>1, <3>1 DEF Tied, Leaving
  <2>4. WorkerAction(w)
    BY <2>1 DEF WorkerAction
  <2>. QED
    BY <1>1, <1>2, <2>1, <2>2, <2>3, <2>4, StayingStep
<1>4. CASE Leave(w) \/ Die(w)
  <2>1. Abandon(w) /\ faults' \in Nat /\ WorkerAction(w)
    BY <1>1, <1>4 DEF Leave, Die, Fault, WorkerAction
  <2>2. worker'[w].pc = "down"
    BY <1>1, <1>4 DEF Leave, Die, EndRun, Kill, Down
  <2>. QED
    BY <1>1, <1>2, <2>1, <2>2, AbandonStep
<1>5. CASE Clock(w)
  <2>1. UNCHANGED <<worker, stop, open, lists, listener, faults>>
    BY <1>5 DEF Clock, WaitElapses, BackoffElapses, wvars
  <2>2. TimersOK'
    BY <1>1, <1>5, <2>1 DEF Clock, WaitElapses, BackoffElapses, TimersOK
  <2>3. WorkerInv' /\ Tied(w)'
    BY <1>1, <2>1 DEF WorkerInv, WorkerTypeOK, HooksBalanced, Tied, Leaving
  <2>. QED
    BY <1>1, <2>1, <2>2, <2>3, StayingStep
<1>. QED
  BY <1>3, <1>4, <1>5
-----------------------------------------------------------------------------
LEMMA BatchInitial == Init => BatchInv
<1> SUFFICES ASSUME Init PROVE BatchInv
  OBVIOUS
<1>1. Workers = Listeners
  BY ComposedAssumption
<1>2. WorkerInv
  <2>1. Down \in WorkerRecords /\ Down.pc = "down" /\ Down.started = 0
    BY DEF Down, WorkerRecords, PCs
  <2>2. /\ worker \in [Workers -> WorkerRecords] /\ stop \in [Workers -> BOOLEAN]
        /\ open \in [Workers -> SUBSET Nat]
        /\ \A w \in Workers : worker[w] = Down /\ open[w] = {}
    BY <2>1 DEF Init, WorkerInit
  <2>3. WorkerTypeOK
    BY <2>1, <2>2, WorkerAssumption DEF WorkerTypeOK, WorkerRecords
  <2>4. HooksBalanced
    <3>1. 1..0 = {}
      OBVIOUS
    <3>2. \A w \in Workers : worker[w].started = 0 /\ open[w] = {}
      BY <2>1, <2>2
    <3>. QED
      BY <3>1, <3>2 DEF HooksBalanced
  <2>. QED
    BY <2>1, <2>2, <2>3, <2>4 DEF WorkerInv
<1>3. /\ listener \in [Listeners -> ListenRecords]
      /\ \A l \in Listeners : listener[l] = Free
  BY FreeIs DEF Init, BatchInit
<1>4. /\ queue \in Seq(Copies) /\ DOMAIN queue = DOMAIN Backlog
      /\ \A i \in DOMAIN Backlog : queue[i].event = Backlog[i]
  <2>1. /\ Backlog \in Seq(Events) /\ Len(Backlog) \in Nat /\ DOMAIN Backlog = 1..Len(Backlog)
        /\ \A i \in DOMAIN Backlog : Backlog[i] \in Events
    BY BatchAssumption
  <2>2. queue = [i \in DOMAIN Backlog |-> [event |-> Backlog[i], retries |-> 0]]
    BY DEF Init, BatchInit
  <2>3. queue \in [1..Len(Backlog) -> Copies]
    BY <2>1, <2>2 DEF Copies
  <2>. QED
    BY <2>1, <2>2, <2>3
<1>5. DOMAIN orphans = {}
  BY DEF Init, BatchInit, EmptyBag, SetToBag
<1>6. ListsOK
  BY <1>4, <1>5 DEF Init, BatchInit, ListsOK
<1>7. Sized(Free) /\ \A h : Holding(Free, h)
  BY FreeIs, BatchAssumption DEF Sized, Holding
<1>8. \A l \in Listeners : Tied(l)
  <2>1. \A l \in Listeners : worker[l].pc = "down"
    BY <1>1 DEF Init, WorkerInit, Down
  <2>. QED
    BY <1>3, <2>1, FreeIs DEF Tied
<1>9. ListenInv
  BY <1>3, <1>6, <1>7, <1>8, TypeIs DEF ListenInv
<1>10. NoEventLost
  <2>1. Records(listener)
    BY <1>3, <1>7 DEF Records, Sized
  <2>2. \A e \in Events : In(queue, e)
    BY <1>4 DEF Events, ToSet, In
  <2>3. \A e \in Events : KeptNow(e)
    BY <2>2 DEF KeptNow, Kept
  <2>. QED
    BY <2>1, <2>3, LostOrKept
<1>. QED
  BY <1>2, <1>9, <1>10 DEF Init, BatchInv

LEMMA BatchPreserved == BatchInv /\ [Next]_vars => BatchInv'
<1> SUFFICES ASSUME BatchInv, [Next]_vars PROVE BatchInv'
  OBVIOUS
<1>1. CASE UNCHANGED vars
  <2>1. UNCHANGED <<worker, stop, open, queue, buffer, orphans, handled, dead, listener,
                    started, backoff, faults, scenario, mishaps>>
    BY <1>1 DEF vars, wvars, bvars, lists, timers
  <2>2. \A l : Claims(l)' = Claims(l)
    BY <2>1 DEF Claims
  <2>3. UnderWay' = UnderWay
    BY <2>1, <2>2 DEF UnderWay, BagToSet
  <2>. QED
    BY <2>1, <2>3 DEF BatchInv, WorkerInv, WorkerTypeOK, HooksBalanced, ListenInv, BatchTypeOK,
           BagToSet, Tied, Leaving, NoEventLost
<1>2. CASE Next
  <2>1. /\ UNCHANGED scenario /\ mishaps \in Nat
        /\ \A w \in scenario.crew \cup scenario.troubled : w \in Listeners
    BY <1>2, ComposedAssumption DEF Next, BatchInv
  <2>2. ASSUME NEW w \in scenario.crew, Step(w) PROVE BatchInv'
    <3>1. CASE WorkerStep(w) /\ UNCHANGED <<bvars, mishaps>>
      BY <2>1, <3>1, WorkerAlone
    <3>2. CASE (Poll(w) \/ Return(w)) /\ UNCHANGED mishaps
      BY <2>1, <3>2, PollPreserves
    <3>3. CASE Leave(w) /\ UNCHANGED mishaps
      BY <2>1, <3>3, LifePreserves
    <3>4. CASE ListenStep(w) /\ UNCHANGED <<wvars, mishaps>>
      BY <2>1, <3>4, ListenPreserves
    <3>. QED
      BY <2>2, <3>1, <3>2, <3>3, <3>4 DEF Step
  <2>3. ASSUME NEW w \in scenario.crew, Supervise(w) \/ Clock(w) PROVE BatchInv'
    BY <2>1, <2>3, LifePreserves DEF Supervise, Clock
  <2>4. ASSUME NEW w \in scenario.troubled, Trouble(w) PROVE BatchInv'
    <3>1. CASE WorkerMishap(w) /\ UNCHANGED bvars /\ mishaps' = mishaps + 1
      BY <2>1, <3>1, WorkerAlone
    <3>2. CASE ReturnHookRaises(w) /\ mishaps' = mishaps + 1
      BY <2>1, <3>2, PollPreserves
    <3>3. CASE Interrupt(w) /\ UNCHANGED mishaps
      BY <2>1, <3>3, PollPreserves
    <3>4. CASE Die(w) /\ UNCHANGED mishaps
      BY <2>1, <3>4, LifePreserves
    <3>5. CASE ListenFault(w) /\ UNCHANGED <<wvars, mishaps>>
      BY <2>1, <3>5, ListenPreserves
    <3>. QED
      BY <2>4, <3>1, <3>2, <3>3, <3>4, <3>5 DEF Trouble
  <2>5. CASE Sweep
    BY <2>1, <2>5, SweepPreserves
  <2>. QED
    BY <1>2, <2>2, <2>3, <2>4, <2>5 DEF Next
<1>. QED
  BY <1>1, <1>2

LEMMA BatchInductive == Spec => []BatchInv
  BY BatchInitial, BatchPreserved, PTL DEF Spec

\* Every step of the system is one of at most one worker.
LEMMA WorkerTurn ==
    ASSUME BatchInv, [Next]_vars
    PROVE  UNCHANGED wvars \/ \E w \in Workers : WorkerAction(w)
<1>1. CASE UNCHANGED vars
  BY <1>1 DEF vars
<1>2. CASE Next
  <2>1. \A w \in scenario.crew \cup scenario.troubled : w \in Workers
    BY <1>2, ComposedAssumption DEF BatchInv
  <2>2. ASSUME NEW w \in scenario.crew \cup scenario.troubled,
               Step(w) \/ Supervise(w) \/ Clock(w) \/ Trouble(w)
        PROVE  UNCHANGED wvars \/ WorkerAction(w)
    <3>1. CASE WorkerStep(w) \/ WorkerMishap(w)
      BY <3>1 DEF WorkerStep, WorkerMishap, WorkerAction
    <3>2. CASE Poll(w) \/ Return(w) \/ ReturnHookRaises(w) \/ Interrupt(w)
      <4>1. listener[w].pc \in {"done", "error", "abort"} => Raised(w) \in Errors \cup {None}
        BY DEF Raised, Errors
      <4>. QED
        BY <3>2, <4>1 DEF Poll, Return, ReturnHookRaises, Interrupt, WorkerAction
    <3>3. CASE Supervise(w) \/ Leave(w) \/ Die(w)
      BY <3>3 DEF Supervise, Leave, Die, WorkerAction
    <3>. QED
      BY <2>2, <3>1, <3>2, <3>3 DEF Step, Trouble, Clock
  <2>. QED
    BY <1>2, <2>1, <2>2 DEF Next, Sweep
<1>. QED
  BY <1>1, <1>2

\* A poll begins only where it is admitted.
LEMMA Admission ==
    ASSUME WorkerInv, NEW w \in Workers, NEW v \in Workers, WorkerAction(v),
           worker[w].pc # "polling", worker'[w].pc = "polling"
    PROVE  worker[w].pc = "admitting" /\ ~stop[w]
<1>1. w = v
  BY OneWorker
<1>2. worker \in [Workers -> WorkerRecords]
  BY DEF WorkerInv, WorkerTypeOK, WorkerRecords
<1>3. AdmitPoll(w)
  <2>1. ASSUME NEW pc, Goto(w, pc) PROVE worker'[w].pc = pc
    BY <1>2, <2>1 DEF Goto, WorkerRecords
  <2>2. ~Run(w) /\ ~Cycle(w) /\ ~RefusePoll(w) /\ ~Wait(w)
    BY <2>1 DEF Run, Cycle, RefusePoll, Wait
  <2>3. ~StartHook(w) /\ ~StopHook(w) /\ ~StopHookRaises(w)
    BY <1>2 DEF StartHook, StopHook, StopHookRaises, WorkerRecords
  <2>4. ~StartHookRaises(w) /\ ~PollInterrupted(w) /\ ~Report(w)
    BY <1>2 DEF StartHookRaises, PollInterrupted, Report, WorkerRecords
  <2>5. \A error : ~BeforePollRaises(w, error) /\ ~PollEnds(w, error)
    BY <1>2 DEF BeforePollRaises, PollEnds, WorkerRecords
  <2>6. \A polled, raised : ~AfterPollRaises(w, polled, raised)
    BY DEF AfterPollRaises
  <2>7. ~EndRun(w) /\ ~Kill(w) /\ ~Stop(w)
    BY <1>2 DEF EndRun, Kill, Stop, Down
  <2>. QED
    BY <1>1, <2>2, <2>3, <2>4, <2>5, <2>6, <2>7 DEF WorkerAction
<1>. QED
  BY <1>3 DEF AdmitPoll
-----------------------------------------------------------------------------
(***************************************************************************)
(* As long as nothing fails.  Without a fault no listener is in abort, so  *)
(* a claim never outlives its poll, nobody leaves an orphan, and nothing   *)
(* is requeued on top of a copy that is in the buffer already.  Then each  *)
(* event is in one place, and once there: on the queue, in the buffer,     *)
(* claimed by one listener that has not handled it, or over.               *)
(***************************************************************************)
Distinct(s) == \A i, j \in DOMAIN s : s[i].event = s[j].event => i = j

Pends(s, e) == s.pc # "acking" /\ Has(s, e)

Tidy(s) ==
    /\ s.pc # "abort"
    /\ s.pc = "idle" => s.batch = <<>> /\ s.msg = <<>>
    /\ s.pc = "failing" => ~s.buffered
    /\ Distinct(s.batch)

\* At most one of: e is on q, e is on b, e is over, s has it.
Apart(q, b, over, s, e) ==
    /\ ~(In(q, e) /\ In(b, e))
    /\ e \in over => ~In(q, e) /\ ~In(b, e)
    /\ Pends(s, e) => ~In(q, e) /\ ~In(b, e) /\ e \notin over

Single ==
    /\ DOMAIN orphans = {} /\ Distinct(queue) /\ Distinct(buffer)
    /\ \A e : Apart(queue, buffer, handled \cup dead, Free, e)
    /\ \A l \in Listeners :
          /\ Tidy(listener[l])
          /\ \A e : Apart(queue, buffer, handled \cup dead, listener[l], e)
    /\ \A k, l \in Listeners : \A e :
          Pends(listener[k], e) /\ Pends(listener[l], e) => k = l

\* The inductive invariant, together with BatchInv.
OnceInv == faults = 0 => Single

LEMMA DistinctAppend ==
    ASSUME NEW s \in Seq(Copies), NEW x \in Copies, Distinct(s), ~In(s, x.event)
    PROVE  Distinct(Append(s, x))
<1>1. /\ Len(s) \in Nat /\ DOMAIN s = 1..Len(s)
      /\ DOMAIN Append(s, x) = 1..(Len(s) + 1)
      /\ \A i \in 1..Len(s) : Append(s, x)[i] = s[i]
      /\ Append(s, x)[Len(s) + 1] = x
  OBVIOUS
<1>2. 1..(Len(s) + 1) = (1..Len(s)) \cup {Len(s) + 1}
  BY <1>1
<1>. QED
  BY <1>1, <1>2 DEF Distinct, In

LEMMA DistinctTail ==
    ASSUME NEW s \in Seq(Copies), s # <<>>, Distinct(s)
    PROVE  Distinct(Tail(s)) /\ ~In(Tail(s), Head(s).event)
<1>1. /\ Len(s) \in Nat \ {0} /\ DOMAIN s = 1..Len(s) /\ Head(s) = s[1]
      /\ DOMAIN Tail(s) = 1..(Len(s) - 1)
      /\ \A i \in 1..(Len(s) - 1) : Tail(s)[i] = s[i + 1]
  OBVIOUS
<1>2. \A i \in 1..(Len(s) - 1) : i + 1 \in DOMAIN s /\ i + 1 # 1 /\ i \in Int
  BY <1>1
<1>3. 1 \in DOMAIN s
  BY <1>1
<1>4. ASSUME NEW i \in DOMAIN Tail(s), NEW j \in DOMAIN Tail(s), Tail(s)[i].event = Tail(s)[j].event
      PROVE  i = j
  <2>1. s[i + 1].event = s[j + 1].event
    BY <1>1, <1>4
  <2>2. i + 1 = j + 1
    BY <1>1, <1>2, <2>1 DEF Distinct
  <2>. QED
    BY <1>1, <1>2, <2>2
<1>5. ASSUME NEW i \in DOMAIN Tail(s), Tail(s)[i].event = Head(s).event PROVE FALSE
  <2>1. s[i + 1].event = s[1].event
    BY <1>1, <1>5
  <2>. QED
    BY <1>1, <1>2, <1>3, <2>1 DEF Distinct
<1>. QED
  BY <1>4, <1>5 DEF Distinct, In

LEMMA DistinctRemove ==
    ASSUME NEW s \in Seq(Copies), NEW i \in DOMAIN s, Distinct(s)
    PROVE  Distinct(RemoveAt(s, i)) /\ ~In(RemoveAt(s, i), s[i].event)
<1> DEFINE r == RemoveAt(s, i)
           was(j) == IF j < i THEN j ELSE j + 1
<1>1. /\ Len(s) \in Nat \ {0} /\ DOMAIN s = 1..Len(s) /\ i \in 1..Len(s)
      /\ DOMAIN r = 1..(Len(s) - 1)
      /\ \A j \in 1..(Len(s) - 1) : r[j] = IF j < i THEN s[j] ELSE s[j + 1]
  BY Removed
<1>. HIDE DEF r
<1>2. \A j \in DOMAIN r : was(j) \in DOMAIN s /\ was(j) # i /\ r[j] = s[was(j)] /\ j \in Int
  BY <1>1
<1>3. \A j, k \in DOMAIN r : was(j) = was(k) => j = k
  BY <1>1
<1>. HIDE DEF was
<1>4. Distinct(r)
  BY <1>2, <1>3 DEF Distinct
<1>5. ~In(r, s[i].event)
  BY <1>1, <1>2 DEF Distinct, In
<1>. QED
  BY <1>4, <1>5 DEF r

LEMMA OnceStep ==
    ASSUME BatchInv, Single, NEW l \in Listeners, NEW s,
           listener' = [listener EXCEPT ![l] = s], Tidy(s),
           DOMAIN orphans' = {}, Distinct(queue'), Distinct(buffer'),
           \A e : In(queue', e) \/ In(buffer', e) \/ e \in handled' \cup dead' \/ Pends(s, e)
                    => \/ In(queue, e) \/ In(buffer, e) \/ e \in handled \cup dead
                       \/ Pends(listener[l], e),
           \A e : Apart(queue', buffer', handled' \cup dead', s, e)
    PROVE  Single'
<1>1. listener \in [Listeners -> ListenRecords]
  BY DEF BatchInv, ListenInv
<1>2. listener'[l] = s /\ \A k \in Listeners \ {l} : listener'[k] = listener[k]
  BY <1>1
<1>3. \A e : ~Pends(Free, e)
  BY FreeIs DEF Pends, Has, In
<1>4. \A e : Apart(queue', buffer', handled' \cup dead', Free, e)
  BY <1>3 DEF Apart
<1>5. ASSUME NEW k \in Listeners \ {l}, NEW e, Pends(listener[k], e)
      PROVE  /\ ~In(queue', e) /\ ~In(buffer', e) /\ e \notin handled' \cup dead'
             /\ ~Pends(s, e)
  <2>1. ~In(queue, e) /\ ~In(buffer, e) /\ e \notin handled \cup dead
    BY <1>5 DEF Single, Apart
  <2>2. ~Pends(listener[l], e)
    BY <1>5 DEF Single
  <2>. QED
    BY <2>1, <2>2
<1>6. \A k \in Listeners : /\ Tidy(listener'[k])
                           /\ \A e : Apart(queue', buffer', handled' \cup dead', listener'[k], e)
  <2> SUFFICES ASSUME NEW k \in Listeners
               PROVE  /\ Tidy(listener'[k])
                      /\ \A e : Apart(queue', buffer', handled' \cup dead', listener'[k], e)
    OBVIOUS
  <2>1. CASE k = l
    BY <1>2, <2>1
  <2>2. CASE k # l
    BY <1>2, <1>4, <1>5, <2>2 DEF Single, Apart
  <2>. QED
    BY <2>1, <2>2
<1>7. ASSUME NEW j \in Listeners, NEW k \in Listeners, NEW e,
             Pends(listener'[j], e), Pends(listener'[k], e)
      PROVE  j = k
  BY <1>2, <1>5, <1>7 DEF Single
<1>. QED
  BY <1>4, <1>6, <1>7 DEF Single

\* A step that leaves the lists alone and what the listener has.
LEMMA OnceQuiet ==
    ASSUME BatchInv, Single, NEW l \in Listeners, NEW s,
           listener' = [listener EXCEPT ![l] = s], Tidy(s),
           UNCHANGED <<queue, buffer, orphans, handled, dead>>,
           \A e : Pends(s, e) <=> Pends(listener[l], e)
    PROVE  Single'
<1>1. \A e : Apart(queue', buffer', handled' \cup dead', s, e)
  BY DEF Single, Apart
<1>. QED
  BY <1>1, OnceStep DEF Single

\* x is published once, on the queue, in the buffer or on the dead-letter channel.
Sent(x) ==
    \/ /\ dead' = dead \cup {x.event} /\ UNCHANGED <<queue, buffer>>
    \/ \E y \in Copies :
          /\ y.event = x.event /\ UNCHANGED dead
          /\ \/ queue' = Append(queue, y) /\ UNCHANGED buffer
             \/ buffer' = Append(buffer, y) /\ UNCHANGED queue

LEMMA FailedSends ==
    ASSUME NEW channel \in {"queue", "buffer"}, NEW x \in Copies, NEW limit,
           Failed(channel, x, limit)
    PROVE  Sent(x)
<1>1. CASE x.retries < limit
  <2>1. Bump(x) \in Copies /\ Bump(x).event = x.event
    BY DEF Bump, Copies
  <2>2. Put(channel, Bump(x)) /\ UNCHANGED dead
    BY <1>1 DEF Failed
  <2>. QED
    BY <2>1, <2>2 DEF Put, Sent
<1>2. CASE ~(x.retries < limit)
  BY <1>2 DEF Failed, Sent
<1>. QED
  BY <1>1, <1>2

\* A settlement hands one event over: what the listener gives up is published.
LEMMA OnceHanded ==
    ASSUME BatchInv, Single, NEW l \in Listeners, NEW s, NEW x \in Copies,
           listener' = [listener EXCEPT ![l] = s], Tidy(s),
           Sent(x), UNCHANGED <<orphans, handled>>, Pends(listener[l], x.event),
           \A e : Pends(s, e) => Pends(listener[l], e) /\ e # x.event
    PROVE  Single'
<1>1. queue \in Seq(Copies) /\ buffer \in Seq(Copies)
  BY TypeIs DEF BatchInv, ListenInv, ListsOK
<1>2. ~In(queue, x.event) /\ ~In(buffer, x.event) /\ x.event \notin handled \cup dead
  BY DEF Single, Apart
<1>3. \A e : Apart(queue, buffer, handled \cup dead, s, e)
  BY DEF Single, Apart
<1>4. CASE dead' = dead \cup {x.event} /\ UNCHANGED <<queue, buffer>>
  <2>1. \A e : Apart(queue', buffer', handled' \cup dead', s, e)
    BY <1>2, <1>3, <1>4 DEF Apart
  <2>. QED
    BY <1>4, <2>1, OnceStep DEF Single
<1>5. ASSUME NEW y \in Copies, y.event = x.event, UNCHANGED dead,
             queue' = Append(queue, y), UNCHANGED buffer
      PROVE  Single'
  <2>1. \A e : In(queue', e) <=> In(queue, e) \/ e = x.event
    BY <1>1, <1>5, SeqAppend
  <2>2. Distinct(queue')
    BY <1>1, <1>2, <1>5, DistinctAppend DEF Single
  <2>3. \A e : Apart(queue', buffer', handled' \cup dead', s, e)
    BY <1>2, <1>3, <1>5, <2>1 DEF Apart
  <2>. QED
    BY <1>5, <2>1, <2>2, <2>3, OnceStep DEF Single
<1>6. ASSUME NEW y \in Copies, y.event = x.event, UNCHANGED dead,
             buffer' = Append(buffer, y), UNCHANGED queue
      PROVE  Single'
  <2>1. \A e : In(buffer', e) <=> In(buffer, e) \/ e = x.event
    BY <1>1, <1>6, SeqAppend
  <2>2. Distinct(buffer')
    BY <1>1, <1>2, <1>6, DistinctAppend DEF Single
  <2>3. \A e : Apart(queue', buffer', handled' \cup dead', s, e)
    BY <1>2, <1>3, <1>6, <2>1 DEF Apart
  <2>. QED
    BY <1>6, <2>1, <2>2, <2>3, OnceStep DEF Single
<1>. QED
  BY <1>4, <1>5, <1>6 DEF Sent

LEMMA NothingIn == \A e : ~In(<<>>, e)
  BY DEF In

LEMMA OnceSettle ==
    ASSUME BatchInv, Single, NEW l \in Listeners, Settle(l)
    PROVE  Single'
<1> DEFINE self == listener[l]
           s == Acked(l)
<1>1. /\ self \in ListenRecords /\ Sized(self) /\ Holding(self, handled) /\ Tidy(self)
      /\ self.msg \in Seq(Copies) /\ self.batch \in Seq(Copies) /\ self.buffered \in BOOLEAN
      /\ Distinct(self.batch)
  BY TypeIs DEF BatchInv, ListenInv, ListenRecords, Single, Tidy
<1>2. /\ Settling(l) /\ Publication(l) /\ listener' = [listener EXCEPT ![l] = s]
      /\ UNCHANGED <<orphans, handled, faults>>
  BY DEF Settle
<1>3. Distinct(<<>>)
  BY DEF Distinct
<1>4. CASE self.pc \in {"buffering", "failing"}
  <2>1. self.batch = <<>> /\ self.msg # <<>> /\ Len(self.msg) <= 1 /\ ~self.buffered
    BY <1>1, <1>4 DEF Holding, Sized, Tidy
  <2>2. 1 \in DOMAIN self.msg /\ self.msg[1] \in Copies
    BY <1>1, <2>1
  <2>3. Pends(self, self.msg[1].event)
    BY <1>4, <2>1, <2>2 DEF Pends, Has, In
  <2>4. Sent(self.msg[1])
    <3>1. CASE self.pc = "buffering"
      <4>1. Put("buffer", self.msg[1]) /\ UNCHANGED dead
        BY <1>2, <3>1 DEF Publication
      <4>. QED
        BY <2>2, <4>1 DEF Put, Sent
    <3>2. CASE self.pc = "failing"
      <4>1. Failed("queue", self.msg[1], PolicyMax)
        BY <1>2, <3>2 DEF Publication
      <4>. QED
        BY <2>2, <4>1, FailedSends
    <3>. QED
      BY <1>4, <3>1, <3>2
  <2>5. /\ s.pc \in {"flush", "done"} /\ s.batch = <<>>
        /\ s.buffered \/ s.msg = <<>>
    <3>1. CASE self.pc = "buffering"
      <4>1. s = [self EXCEPT !.buffered = TRUE, !.pc = "flush"]
        BY <3>1 DEF Acked
      <4>. QED
        BY <1>1, <2>1, <4>1 DEF ListenRecords
    <3>2. CASE self.pc = "failing"
      <4>1. s = [self EXCEPT !.msg = <<>>, !.pc = "done"]
        BY <3>2 DEF Acked
      <4>. QED
        BY <1>1, <2>1, <4>1 DEF ListenRecords
    <3>. QED
      BY <1>4, <3>1, <3>2
  <2>6. Tidy(s) /\ \A e : ~Pends(s, e)
    BY <1>3, <2>5, NothingIn DEF Tidy, Pends, Has
  <2>. HIDE DEF s
  <2>. QED
    BY <1>2, <2>2, <2>3, <2>4, <2>6, OnceHanded
<1>5. CASE self.pc \in {"decoding", "acking", "retrying"}
  <2>1. self.batch # <<>> /\ (self.buffered \/ self.msg = <<>>)
    BY <1>1, <1>5 DEF Holding
  <2>2. \A e : Has(self, e) <=> In(self.batch, e)
    BY <2>1, NothingIn DEF Has
  <2>3. PICK x \in Copies : /\ Distinct(Rest(l)) /\ In(self.batch, x.event)
                            /\ \A e : In(Rest(l), e) => In(self.batch, e) /\ e # x.event
                            /\ self.pc # "acking" => Sent(x)
    <3>1. CASE self.pc = "decoding"
      <4> DEFINE i == Min(Poisonous(l))
      <4>1. Poisonous(l) # {} /\ Poisonous(l) \in SUBSET Nat /\ Poisonous(l) \subseteq DOMAIN self.batch
        BY <1>1, <1>2, <3>1 DEF Settling, Poisonous
      <4>2. i \in DOMAIN self.batch
        BY <4>1, LeastOf
      <4>3. Rest(l) = RemoveAt(self.batch, i)
        BY <3>1 DEF Rest
      <4>4. dead' = dead \cup {self.batch[i].event} /\ UNCHANGED <<queue, buffer>>
        BY <1>2, <3>1 DEF Publication
      <4>. HIDE DEF i
      <4>5. /\ self.batch[i] \in Copies
            /\ \A e : In(Rest(l), e) => In(self.batch, e)
        <5>1. \A t \in Seq(Copies) : \A j \in DOMAIN t :
                 /\ t[j] \in Copies
                 /\ \A e : In(t, e) <=> In(RemoveAt(t, j), e) \/ t[j].event = e
          BY SeqRemove
        <5>. QED
          BY <1>1, <4>2, <4>3, <5>1
      <4>6. Distinct(Rest(l)) /\ ~In(Rest(l), self.batch[i].event)
        <5>1. \A t \in Seq(Copies) : \A j \in DOMAIN t : Distinct(t) =>
                 Distinct(RemoveAt(t, j)) /\ ~In(RemoveAt(t, j), t[j].event)
          BY DistinctRemove
        <5>. QED
          BY <1>1, <4>2, <4>3, <5>1
      <4>7. In(self.batch, self.batch[i].event)
        BY <4>2 DEF In
      <4>8. Sent(self.batch[i])
        BY <4>4 DEF Sent
      <4>. QED
        BY <4>5, <4>6, <4>7, <4>8
    <3>2. CASE self.pc \in {"acking", "retrying"}
      <4>1. Rest(l) = Tail(self.batch)
        BY <3>2 DEF Rest
      <4>2. /\ Head(self.batch) \in Copies
            /\ \A e : In(self.batch, e) <=> In(Rest(l), e) \/ Head(self.batch).event = e
        BY <1>1, <2>1, <4>1, SeqTail
      <4>3. Distinct(Rest(l)) /\ ~In(Rest(l), Head(self.batch).event)
        BY <1>1, <2>1, <4>1, DistinctTail
      <4>4. self.pc # "acking" => Sent(Head(self.batch))
        <5>1. self.pc # "acking" => Failed("buffer", Head(self.batch), Limit)
          BY <1>2, <3>2 DEF Publication
        <5>. QED
          BY <4>2, <5>1, FailedSends
      <4>. QED
        BY <4>2, <4>3, <4>4
    <3>. QED
      BY <1>5, <3>1, <3>2
  <2>4. /\ s.batch = Rest(l) /\ s.msg = self.msg /\ s.buffered = self.buffered
        /\ \/ s.pc = self.pc
           \/ s.pc \in {"consume", "done"} /\ s.batch = <<>>
    <3>1. CASE Rest(l) = <<>>
      <4>1. s = [self EXCEPT !.batch = <<>>, !.requeued = FALSE, !.pc = AfterFlush(l)]
        BY <1>5, <3>1 DEF Acked
      <4>2. AfterFlush(l) \in {"done", "consume"}
        BY DEF AfterFlush
      <4>. QED
        BY <1>1, <3>1, <4>1, <4>2 DEF ListenRecords
    <3>2. CASE Rest(l) # <<>>
      <4>1. s = [self EXCEPT !.batch = Rest(l), !.requeued = Requeued(l)]
        BY <1>5, <3>2 DEF Acked
      <4>. QED
        BY <1>1, <4>1 DEF ListenRecords
    <3>. QED
      BY <3>1, <3>2
  <2>. HIDE DEF s
  <2>5. Tidy(s)
    BY <1>5, <2>3, <2>4 DEF Tidy
  <2>6. \A e : Has(s, e) <=> In(s.batch, e)
    BY <2>1, <2>4, NothingIn DEF Has
  <2>7. CASE self.pc = "acking"
    <3>1. \A e : Pends(s, e) <=> Pends(self, e)
      BY <2>4, <2>6, <2>7, NothingIn DEF Pends
    <3>2. UNCHANGED <<queue, buffer, dead>>
      BY <1>2, <2>7 DEF Publication
    <3>. QED
      BY <1>2, <2>5, <3>1, <3>2, OnceQuiet
  <2>8. CASE self.pc # "acking"
    <3>1. Pends(self, x.event) /\ Sent(x)
      BY <2>2, <2>3, <2>8 DEF Pends
    <3>2. \A e : Pends(s, e) => Pends(self, e) /\ e # x.event
      BY <2>2, <2>3, <2>4, <2>6, <2>8, NothingIn DEF Pends
    <3>. QED
      BY <1>2, <2>5, <3>1, <3>2, OnceHanded
  <2>. QED
    BY <2>7, <2>8
<1>. QED
  BY <1>2, <1>4, <1>5 DEF Settling

\* Without a fault, listen_once moves each event as a whole.
LEMMA OnceListen ==
    ASSUME BatchInv, Single, NEW l \in Listeners, ListenStep(l) \/ BeginPoll(l)
    PROVE  Single'
<1> DEFINE self == listener[l]
<1>1. /\ self \in ListenRecords /\ Holding(self, handled) /\ Tidy(self)
      /\ self.msg \in Seq(Copies) /\ self.batch \in Seq(Copies) /\ self.buffered \in BOOLEAN
      /\ Distinct(self.batch) /\ listener \in [Listeners -> ListenRecords]
      /\ queue \in Seq(Copies) /\ buffer \in Seq(Copies)
  BY TypeIs DEF BatchInv, ListenInv, ListenRecords, ListsOK, Single, Tidy
<1>2. /\ \A e : Apart(queue, buffer, handled \cup dead, self, e)
      /\ DOMAIN orphans = {} /\ Distinct(queue) /\ Distinct(buffer)
  BY DEF Single
<1>3. ASSUME NEW s \in ListenRecords, listener' = [listener EXCEPT ![l] = s], UNCHANGED lists,
             s.msg = self.msg, s.batch = self.batch, s.buffered = self.buffered,
             self.pc # "acking", s.pc \notin {"acking", "abort", "failing", "idle"}
      PROVE  Single'
  <2>1. Tidy(s) /\ \A e : Pends(s, e) <=> Pends(self, e)
    BY <1>1, <1>3 DEF Tidy, Pends, Has
  <2>2. UNCHANGED <<queue, buffer, orphans, handled, dead>>
    BY <1>3 DEF lists
  <2>. QED
    BY <1>3, <2>1, <2>2, OnceQuiet
<1>4. ASSUME NEW pc, Goes(l, pc), UNCHANGED lists, self.pc # "acking",
             pc \in {"flush", "claiming", "decoding", "consume", "done", "buffering"}
      PROVE  Single'
  <2> DEFINE s == [self EXCEPT !.pc = pc]
  <2>1. /\ s \in ListenRecords /\ s.msg = self.msg /\ s.batch = self.batch
        /\ s.buffered = self.buffered /\ s.pc = pc
    BY <1>1, <1>4 DEF ListenRecords, ListenPCs
  <2>2. listener' = [listener EXCEPT ![l] = s]
    BY <1>1, <1>4 DEF Goes
  <2>. HIDE DEF s
  <2>. QED
    BY <1>3, <1>4, <2>1, <2>2
<1>5. CASE \/ InBackoff(l) \/ ReadSize(l) \/ ClaimsEnd(l) \/ ConsumeNone(l)
           \/ FirstInBuffer(l) \/ BeginPoll(l)
  <2>1. AfterFlush(l) \in {"consume", "done"}
    BY DEF AfterFlush
  <2>2. self.pc # "acking" /\ UNCHANGED lists
    BY <1>5 DEF InBackoff, ReadSize, ClaimsEnd, ConsumeNone, FirstInBuffer, BeginPoll
  <2>3. \E pc \in {"flush", "claiming", "decoding", "consume", "done", "buffering"} : Goes(l, pc)
    BY <1>5, <2>1 DEF InBackoff, ReadSize, ClaimsEnd, ConsumeNone, FirstInBuffer, BeginPoll
  <2>. QED
    BY <1>4, <2>2, <2>3
<1>6. CASE HandlerRaises(l)
  <2> DEFINE s == [self EXCEPT !.pc = "retrying", !.requeued = FALSE]
  <2>1. /\ s \in ListenRecords /\ s.msg = self.msg /\ s.batch = self.batch
        /\ s.buffered = self.buffered /\ s.pc = "retrying"
    BY <1>1 DEF ListenRecords, ListenPCs
  <2>2. listener' = [listener EXCEPT ![l] = s] /\ self.pc = "decoding" /\ UNCHANGED lists
    BY <1>1, <1>6 DEF HandlerRaises
  <2>. HIDE DEF s
  <2>. QED
    BY <1>3, <2>1, <2>2
<1>7. CASE ClaimMember(l)
  <2> DEFINE pc == IF Len(Joined(l)) = BatchSize THEN "decoding" ELSE "claiming"
             s == [self EXCEPT !.batch = Joined(l), !.pc = pc]
  <2>1. /\ self.pc = "claiming" /\ buffer # <<>> /\ buffer' = Tail(buffer)
        /\ listener' = [listener EXCEPT ![l] = s]
        /\ UNCHANGED <<queue, orphans, handled, dead>>
    BY <1>1, <1>7 DEF ClaimMember, ListenRecords
  <2>2. pc \in {"claiming", "decoding"}
    OBVIOUS
  <2>. HIDE DEF pc
  <2>3. s.batch = Joined(l) /\ s.msg = self.msg /\ s.buffered = self.buffered /\ s.pc = pc
    BY <1>1 DEF ListenRecords
  <2>. HIDE DEF s
  <2>4. /\ Head(buffer) \in Copies
        /\ \A e : In(buffer, e) <=> In(buffer', e) \/ Head(buffer).event = e
    BY <1>1, <2>1, SeqTail
  <2>5. Distinct(buffer') /\ ~In(buffer', Head(buffer).event)
    BY <1>1, <1>2, <2>1, DistinctTail
  <2>6. self.buffered \/ self.msg = <<>>
    BY <1>1, <2>1 DEF Holding
  <2>7. \A e : Pends(self, e) <=> In(self.batch, e)
    BY <2>1, <2>6, NothingIn DEF Pends, Has
  <2>8. ~In(self.batch, Head(buffer).event)
    BY <1>2, <2>4, <2>7 DEF Apart
  <2>9. Distinct(Joined(l)) /\ \A e : In(Joined(l), e) <=> In(self.batch, e) \/ Head(buffer).event = e
    BY <1>1, <2>4, <2>8, SeqAppend, DistinctAppend DEF Joined
  <2>10. \A e : Pends(s, e) <=> Pends(self, e) \/ Head(buffer).event = e
    BY <2>2, <2>3, <2>6, <2>7, <2>9, NothingIn DEF Pends, Has
  <2>11. Tidy(s)
    BY <2>2, <2>3, <2>9 DEF Tidy
  <2>12. \A e : Apart(queue', buffer', handled' \cup dead', s, e)
    BY <1>2, <2>1, <2>4, <2>5, <2>10 DEF Apart
  <2>. QED
    BY <1>2, <2>1, <2>4, <2>5, <2>10, <2>11, <2>12, OnceStep
<1>8. CASE Consume(l)
  <2> DEFINE pc == IF Undecodable(l, Head(queue)) THEN "failing" ELSE "sizing"
             m == <<Head(queue)>>
             s == [self EXCEPT !.msg = m, !.pc = pc]
  <2>1. /\ self.pc = "consume" /\ queue # <<>> /\ queue' = Tail(queue)
        /\ listener' = [listener EXCEPT ![l] = s]
        /\ UNCHANGED <<buffer, orphans, handled, dead>>
    BY <1>1, <1>8 DEF Consume, ListenRecords
  <2>2. pc \in {"failing", "sizing"}
    OBVIOUS
  <2>. HIDE DEF pc
  <2>3. DOMAIN m = {1} /\ m[1] = Head(queue)
    OBVIOUS
  <2>. HIDE DEF m
  <2>4. s.batch = self.batch /\ s.msg = m /\ s.buffered = self.buffered /\ s.pc = pc
    BY <1>1 DEF ListenRecords
  <2>. HIDE DEF s
  <2>5. /\ Head(queue) \in Copies
        /\ \A e : In(queue, e) <=> In(queue', e) \/ Head(queue).event = e
    BY <1>1, <2>1, SeqTail
  <2>6. Distinct(queue') /\ ~In(queue', Head(queue).event)
    BY <1>1, <1>2, <2>1, DistinctTail
  <2>7. self.batch = <<>> /\ ~self.buffered
    BY <1>1, <2>1 DEF Holding
  <2>8. \A e : In(m, e) <=> Head(queue).event = e
    BY <2>3 DEF In
  <2>9. \A e : Pends(s, e) <=> Head(queue).event = e
    BY <2>2, <2>4, <2>7, <2>8, NothingIn DEF Pends, Has
  <2>10. Tidy(s)
    BY <1>1, <2>2, <2>4, <2>7 DEF Tidy
  <2>11. \A e : Apart(queue', buffer', handled' \cup dead', s, e)
    BY <1>2, <2>1, <2>5, <2>6, <2>9 DEF Apart
  <2>. QED
    BY <1>2, <2>1, <2>5, <2>6, <2>9, <2>10, <2>11, OnceStep
<1>9. CASE HandlerAccepts(l)
  <2> DEFINE s == [self EXCEPT !.pc = "acking"]
  <2>1. /\ self.pc = "decoding" /\ listener' = [listener EXCEPT ![l] = s]
        /\ handled' = handled \cup {copy.event : copy \in ToSet(self.batch)}
        /\ UNCHANGED <<queue, buffer, orphans, dead>>
    BY <1>1, <1>9 DEF HandlerAccepts, Goes
  <2>2. s.batch = self.batch /\ s.pc = "acking"
    BY <1>1 DEF ListenRecords
  <2>. HIDE DEF s
  <2>3. \A e : e \in handled' <=> e \in handled \/ In(self.batch, e)
    BY <2>1 DEF In, ToSet
  <2>4. \A e : In(self.batch, e) => Pends(self, e)
    BY <2>1 DEF Pends, Has
  <2>5. Tidy(s) /\ \A e : ~Pends(s, e)
    BY <1>1, <2>2 DEF Tidy, Pends
  <2>6. \A e : Apart(queue', buffer', handled' \cup dead', s, e)
    BY <1>2, <2>1, <2>3, <2>4, <2>5 DEF Apart
  <2>. QED
    BY <1>2, <2>1, <2>3, <2>4, <2>5, <2>6, OnceStep
<1>10. CASE Settle(l)
  BY <1>10, OnceSettle
<1>. QED
  BY <1>5, <1>6, <1>7, <1>8, <1>9, <1>10 DEF ListenStep

\* Without a fault a poll ends with nothing claimed, and nobody leaves a claim.
LEMMA OnceLife ==
    ASSUME BatchInv, Single, NEW w \in Listeners,
           Return(w) \/ ReturnHookRaises(w) \/ Leave(w)
    PROVE  Single'
<1> DEFINE self == listener[w]
<1>1. /\ self \in ListenRecords /\ Sized(self) /\ Holding(self, handled) /\ Tidy(self)
      /\ Tied(w) /\ w \in Workers /\ DOMAIN orphans = {} /\ self.buffered \in BOOLEAN
  BY ComposedAssumption, TypeIs DEF BatchInv, ListenInv, Single, ListenRecords
<1>2. Distinct(<<>>)
  BY DEF Distinct
<1>3. ASSUME NEW s, s.pc = "idle", s.batch = <<>>, s.msg = <<>>,
             self.batch = <<>>, self.buffered \/ self.msg = <<>>,
             listener' = [listener EXCEPT ![w] = s],
             DOMAIN orphans' = {}, UNCHANGED <<queue, buffer, handled, dead>>
      PROVE  Single'
  <2>1. Tidy(s) /\ \A e : ~Pends(s, e)
    BY <1>2, <1>3, NothingIn DEF Tidy, Pends, Has
  <2>2. \A e : Apart(queue', buffer', handled' \cup dead', s, e)
    BY <1>3, <2>1 DEF Single, Apart
  <2>. QED
    BY <1>3, <2>1, <2>2, OnceStep DEF Single
<1>4. CASE Return(w) \/ ReturnHookRaises(w)
  <2> DEFINE m == IF self.buffered THEN <<>> ELSE self.msg
             s == [Free EXCEPT !.batch = self.batch, !.msg = m]
  <2>1. /\ listener' = [listener EXCEPT ![w] = s]
        /\ UNCHANGED <<queue, buffer, orphans, handled, dead>>
    BY <1>4 DEF Return, ReturnHookRaises, EndPoll, lists
  <2>2. self.pc \in {"done", "error"}
    BY <1>1, <1>4 DEF Return, ReturnHookRaises, Tidy
  <2>3. self.batch = <<>> /\ (self.buffered \/ self.msg = <<>>)
    BY <1>1, <2>2 DEF Holding
  <2>4. m = <<>>
    BY <2>3
  <2>. HIDE DEF m
  <2>5. s.pc = "idle" /\ s.batch = <<>> /\ s.msg = <<>>
    BY <2>3, <2>4, FreeIs DEF ListenRecords
  <2>. HIDE DEF s
  <2>. QED
    BY <1>1, <1>3, <2>1, <2>3, <2>5
<1>5. CASE Leave(w)
  <2>1. /\ listener' = [listener EXCEPT ![w] = Free]
        /\ orphans' = orphans (+) ToBag(Claims(w))
        /\ UNCHANGED <<queue, buffer, handled, dead>> /\ EndRun(w)
    BY <1>5 DEF Leave, Abandon
  <2>2. self.pc = "idle"
    BY <1>1, <2>1 DEF EndRun, Tied
  <2>3. self.batch = <<>> /\ self.msg = <<>>
    BY <1>1, <2>2 DEF Tidy
  <2>4. /\ ClaimsOf(self) = <<>> /\ ClaimsOf(self) \in Seq(Claim)
        /\ \A e : Has(self, e) <=> \E claim \in ToSet(ClaimsOf(self)) : claim.copy.event = e
    BY <1>1, <2>3, ClaimsAre DEF Sized
  <2>5. Claims(w) = ClaimsOf(self)
    BY DEF Claims, ClaimsOf
  <2>6. \A e : Orphaned(orphans', e)
                 <=> Orphaned(orphans, e) \/ \E claim \in ToSet(ClaimsOf(self)) : claim.copy.event = e
    <3>1. orphans' = orphans (+) ToBag(ClaimsOf(self)) /\ DOMAIN orphans \subseteq Claim
      BY <1>1, <2>1, <2>5
    <3>2. \A c \in Seq(Claim) : \A e :
             Orphaned(orphans (+) ToBag(c), e)
               <=> Orphaned(orphans, e) \/ \E claim \in ToSet(c) : claim.copy.event = e
      BY <3>1, Adoption
    <3>3. \A e : Orphaned(orphans (+) ToBag(ClaimsOf(self)), e)
                   <=> \/ Orphaned(orphans, e)
                       \/ \E claim \in ToSet(ClaimsOf(self)) : claim.copy.event = e
      BY <2>4, <3>2
    <3>. QED
      BY <3>1, <3>3
  <2>7. \A e : ~Has(self, e)
    BY <2>3, NothingIn DEF Has
  <2>8. DOMAIN orphans' = {}
    BY <1>1, <2>4, <2>6, <2>7 DEF Orphaned
  <2>. QED
    BY <1>3, <2>1, <2>3, <2>8, FreeIs
<1>. QED
  BY <1>4, <1>5

LEMMA OnceInitial == Init => OnceInv
<1> SUFFICES ASSUME Init PROVE Single
  BY DEF OnceInv
<1>1. /\ queue = [i \in DOMAIN Backlog |-> [event |-> Backlog[i], retries |-> 0]]
      /\ buffer = <<>> /\ orphans = EmptyBag /\ handled = {} /\ dead = {}
      /\ \A l \in Listeners : listener[l] = Free
  BY DEF Init, BatchInit
<1>2. Distinct(queue)
  <2>1. DOMAIN queue = DOMAIN Backlog /\ \A i \in DOMAIN Backlog : queue[i].event = Backlog[i]
    BY <1>1
  <2>. QED
    BY <2>1, DistinctAssumption DEF Distinct
<1>3. Distinct(buffer) /\ Distinct(<<>>) /\ DOMAIN orphans = {}
  BY <1>1 DEF Distinct, EmptyBag, SetToBag
<1>4. Tidy(Free) /\ \A e : ~Pends(Free, e)
  BY <1>3, FreeIs, NothingIn DEF Tidy, Pends, Has
<1>5. \A e : Apart(queue, buffer, handled \cup dead, Free, e)
  BY <1>1, <1>4, NothingIn DEF Apart
<1>. QED
  BY <1>1, <1>2, <1>3, <1>4, <1>5 DEF Single

LEMMA OncePreserved == BatchInv /\ OnceInv /\ [Next]_vars => OnceInv'
<1> SUFFICES ASSUME BatchInv, OnceInv, [Next]_vars, faults' = 0 PROVE Single'
  BY DEF OnceInv
<1>1. faults \in Nat
  BY TypeIs DEF BatchInv, ListenInv, ListsOK
<1>2. ~Fault
  BY <1>1 DEF Fault
<1>3. CASE UNCHANGED <<lists, listener, faults>>
  <2>1. UNCHANGED <<queue, buffer, orphans, handled, dead, listener, faults>>
    BY <1>3 DEF lists
  <2>2. Single
    BY <2>1 DEF OnceInv
  <2>. QED
    BY <2>1, <2>2 DEF Single
<1>4. CASE ~UNCHANGED <<lists, listener, faults>>
  <2>1. Next
    BY <1>4 DEF vars, bvars
  <2>2. \A w \in scenario.crew \cup scenario.troubled : w \in Listeners
    BY ComposedAssumption DEF BatchInv
  <2>3. ASSUME NEW w \in scenario.crew, Step(w) PROVE Single'
    <3>1. CASE WorkerStep(w) /\ UNCHANGED <<bvars, mishaps>>
      BY <1>4, <3>1 DEF bvars
    <3>2. CASE Poll(w)
      <4>1. BeginPoll(w) /\ faults = 0
        BY <3>2 DEF Poll, BeginPoll
      <4>. QED
        BY <2>2, <4>1, OnceListen DEF OnceInv
    <3>3. CASE Return(w) \/ Leave(w)
      <4>1. faults = 0
        BY <3>3 DEF Return, Leave
      <4>. QED
        BY <2>2, <3>3, <4>1, OnceLife DEF OnceInv
    <3>4. CASE ListenStep(w)
      <4>1. faults = 0
        BY <3>4 DEF ListenStep, InBackoff, ReadSize, ClaimMember, ClaimsEnd, HandlerAccepts,
                    HandlerRaises, Consume, ConsumeNone, FirstInBuffer, Settle
      <4>. QED
        BY <2>2, <3>4, <4>1, OnceListen DEF OnceInv
    <3>. QED
      BY <2>3, <3>1, <3>2, <3>3, <3>4 DEF Step
  <2>4. ASSUME NEW w, Supervise(w) \/ Clock(w) PROVE FALSE
    BY <1>4, <2>4 DEF Supervise, NewListener, Clock, WaitElapses, BackoffElapses
  <2>5. ASSUME NEW w \in scenario.troubled, Trouble(w) PROVE Single'
    <3>1. CASE WorkerMishap(w) /\ UNCHANGED bvars
      BY <1>4, <3>1 DEF bvars
    <3>2. CASE ReturnHookRaises(w)
      <4>1. faults = 0
        BY <3>2 DEF ReturnHookRaises
      <4>. QED
        BY <2>2, <3>2, <4>1, OnceLife DEF OnceInv
    <3>3. ~Interrupt(w) /\ ~Die(w) /\ ~ListenFault(w)
      BY <1>2 DEF Interrupt, Die, ListenFault, ReadSizeRaises, ClaimMemberRaises,
                  ConsumeRaises, FirstInBufferRaises, SettleRaises
    <3>. QED
      BY <2>5, <3>1, <3>2, <3>3 DEF Trouble
  <2>6. ~Sweep
    <3> SUFFICES ASSUME Sweep PROVE FALSE
      OBVIOUS
    <3>1. PICK claim \in DOMAIN orphans : Reap(claim)
      BY DEF Sweep, BagToSet
    <3>2. faults = 0
      BY <3>1 DEF Reap
    <3>. QED
      BY <3>1, <3>2 DEF OnceInv, Single
  <2>. QED
    BY <2>1, <2>3, <2>4, <2>5, <2>6 DEF Next
<1>. QED
  BY <1>3, <1>4

LEMMA OnceInductive == Spec => [](BatchInv /\ OnceInv)
  BY BatchInitial, BatchPreserved, OnceInitial, OncePreserved, PTL DEF Spec

LEMMA SizeOfNone == Cardinality({}) = 0
<1>1. Cardinality({}) = FS!Cardinality({})
  BY DEF Cardinality, FS!Cardinality
<1>. QED
  BY <1>1, FS!FS_EmptySet

LEMMA SizeOfOne == ASSUME NEW x PROVE Cardinality({x}) = 1
<1>1. Cardinality({x}) = FS!Cardinality({x})
  BY DEF Cardinality, FS!Cardinality
<1>. QED
  BY <1>1, FS!FS_Singleton

\* A listener claims an event once: it holds a batch or a message, not both.
LEMMA ClaimsDistinct ==
    ASSUME NEW s \in ListenRecords, Sized(s), NEW h, Holding(s, h), Tidy(s),
           NEW i \in DOMAIN ClaimsOf(s), NEW j \in DOMAIN ClaimsOf(s),
           ClaimsOf(s)[i].copy.event = ClaimsOf(s)[j].copy.event
    PROVE  i = j
<1> DEFINE a == [n \in DOMAIN s.batch |-> [channel |-> "buffer", copy |-> s.batch[n]]]
           b == IF s.buffered \/ s.msg = <<>> THEN <<>>
                ELSE <<[channel |-> "queue", copy |-> s.msg[1]]>>
<1>1. /\ s.batch \in Seq(Copies) /\ s.msg \in Seq(Copies) /\ s.buffered \in BOOLEAN
      /\ Len(s.batch) \in Nat /\ DOMAIN s.batch = 1..Len(s.batch) /\ Distinct(s.batch)
      /\ \A n \in DOMAIN s.batch : s.batch[n] \in Copies
  BY DEF ListenRecords, Tidy
<1>2. a \in Seq(Claim) /\ Len(a) = Len(s.batch)
      /\ \A n \in 1..Len(a) : a[n].copy = s.batch[n]
  <2>1. a \in [1..Len(s.batch) -> Claim]
    BY <1>1 DEF Claim
  <2>. QED
    BY <1>1, <2>1
<1>3. /\ b \in Seq(Claim) /\ Len(b) \in {0, 1}
      /\ s.buffered \/ s.msg = <<>> => Len(b) = 0
  <2>1. CASE s.buffered \/ s.msg = <<>>
    BY <2>1
  <2>2. CASE ~(s.buffered \/ s.msg = <<>>)
    <3>1. b = <<[channel |-> "queue", copy |-> s.msg[1]]>>
      BY <2>2
    <3>2. [channel |-> "queue", copy |-> s.msg[1]] \in Claim
      BY <1>1, <2>2 DEF Claim
    <3>. QED
      BY <2>2, <3>1, <3>2
  <2>. QED
    BY <2>1, <2>2
<1>4. ClaimsOf(s) = a \o b
  BY DEF ClaimsOf
<1>. HIDE DEF a, b
<1>5. /\ DOMAIN ClaimsOf(s) = 1..(Len(a) + Len(b))
      /\ \A n \in 1..(Len(a) + Len(b)) :
            ClaimsOf(s)[n] = IF n <= Len(a) THEN a[n] ELSE b[n - Len(a)]
  <2>1. a \in Seq(Claim) /\ b \in Seq(Claim)
    BY <1>2, <1>3
  <2>. QED
    BY <1>4, <2>1, Concatenation
<1>6. Len(b) = 0 \/ (Len(a) = 0 /\ Len(b) = 1)
  <2>1. s.batch = <<>> \/ s.buffered \/ s.msg = <<>>
    BY DEF Holding, Tidy, ListenRecords, ListenPCs
  <2>2. Len(b) = 0 \/ Len(b) = 1
    BY <1>3
  <2>3. s.batch = <<>> => Len(a) = 0
    BY <1>2
  <2>4. CASE s.batch = <<>>
    BY <2>2, <2>3, <2>4
  <2>5. CASE s.buffered \/ s.msg = <<>>
    BY <1>3, <2>5
  <2>. QED
    BY <2>1, <2>4, <2>5
<1>7. CASE Len(b) = 0
  <2>1. i \in 1..Len(a) /\ j \in 1..Len(a)
    BY <1>1, <1>2, <1>5, <1>7
  <2>2. ClaimsOf(s)[i].copy = s.batch[i] /\ ClaimsOf(s)[j].copy = s.batch[j]
    BY <1>1, <1>2, <1>5, <1>7, <2>1
  <2>. QED
    BY <1>1, <1>2, <2>1, <2>2 DEF Distinct
<1>8. CASE Len(a) = 0 /\ Len(b) = 1
  BY <1>5, <1>8
<1>. QED
  BY <1>6, <1>7, <1>8

LEMMA OnceCounted == BatchInv /\ OnceInv => ExactlyOnce
<1> SUFFICES ASSUME BatchInv, OnceInv, faults = 0, NEW e \in Events
             PROVE  Cardinality(Pending(e)) = IF e \in handled \cup dead THEN 0 ELSE 1
  BY DEF ExactlyOnce
<1> DEFINE claims(l) == IF listener[l].pc = "acking" THEN <<>> ELSE Claims(l)
           Q == {<<"queue", i>> : i \in {i \in DOMAIN queue : queue[i].event = e}}
           B == {<<"buffer", i>> : i \in {i \in DOMAIN buffer : buffer[i].event = e}}
           P(l) == {<<l, i>> : i \in {i \in DOMAIN claims(l) : claims(l)[i].copy.event = e}}
<1>1. /\ Single /\ NoEventLost /\ listener \in [Listeners -> ListenRecords]
      /\ \A l \in Listeners : /\ Sized(listener[l]) /\ Holding(listener[l], handled)
                              /\ Tidy(listener[l])
  BY TypeIs DEF OnceInv, BatchInv, ListenInv, Single
<1>2. Pending(e) = Q \cup B \cup UNION {P(l) : l \in Listeners}
  BY DEF Pending
<1>3. ~In(queue, e) => Q = {}
  BY DEF In
<1>4. ~In(buffer, e) => B = {}
  BY DEF In
<1>5. In(queue, e) => \E x : Q = {x}
  <2> SUFFICES ASSUME In(queue, e) PROVE \E x : Q = {x}
    OBVIOUS
  <2>1. PICK i \in DOMAIN queue : queue[i].event = e
    BY DEF In
  <2>2. {j \in DOMAIN queue : queue[j].event = e} = {i}
    BY <1>1, <2>1 DEF Single, Distinct
  <2>3. Q = {<<"queue", i>>}
    BY <2>2
  <2>. QED
    BY <2>3
<1>6. In(buffer, e) => \E x : B = {x}
  <2> SUFFICES ASSUME In(buffer, e) PROVE \E x : B = {x}
    OBVIOUS
  <2>1. PICK i \in DOMAIN buffer : buffer[i].event = e
    BY DEF In
  <2>2. {j \in DOMAIN buffer : buffer[j].event = e} = {i}
    BY <1>1, <2>1 DEF Single, Distinct
  <2>3. B = {<<"buffer", i>>}
    BY <2>2
  <2>. QED
    BY <2>3
<1>7. ASSUME NEW l \in Listeners
      PROVE  /\ ~Pends(listener[l], e) => P(l) = {}
             /\ Pends(listener[l], e) => \E x : P(l) = {x}
  <2>1. Claims(l) = ClaimsOf(listener[l])
    BY DEF Claims, ClaimsOf
  <2>2. Has(listener[l], e) <=> \E i \in DOMAIN Claims(l) : Claims(l)[i].copy.event = e
    <3>1. Has(listener[l], e) <=> \E claim \in ToSet(ClaimsOf(listener[l])) : claim.copy.event = e
      BY <1>1, ClaimsAre DEF Sized
    <3>. QED
      BY <2>1, <3>1 DEF ToSet
  <2>3. ~Pends(listener[l], e) => P(l) = {}
    <3>1. CASE listener[l].pc = "acking"
      BY <3>1
    <3>2. CASE listener[l].pc # "acking"
      BY <2>2, <3>2 DEF Pends
    <3>. QED
      BY <3>1, <3>2
  <2>4. ASSUME Pends(listener[l], e) PROVE \E x : P(l) = {x}
    <3>1. claims(l) = Claims(l)
      BY <2>4 DEF Pends
    <3>2. PICK i \in DOMAIN Claims(l) : Claims(l)[i].copy.event = e
      BY <2>2, <2>4 DEF Pends
    <3>3. \A j \in DOMAIN Claims(l) : Claims(l)[j].copy.event = e => j = i
      BY <1>1, <2>1, <3>2, ClaimsDistinct
    <3>4. {j \in DOMAIN claims(l) : claims(l)[j].copy.event = e} = {i}
      BY <3>1, <3>2, <3>3
    <3>. HIDE DEF claims
    <3>5. P(l) = {<<l, i>>}
      BY <3>4
    <3>. QED
      BY <3>5
  <2>. QED
    BY <2>3, <2>4
<1>. HIDE DEF Q, B, P, claims
<1>8. \/ e \in handled \cup dead \/ In(queue, e) \/ In(buffer, e)
      \/ \E l \in Listeners : Pends(listener[l], e)
  <2>1. KeptNow(e)
    BY <1>1, LostOrKept DEF Records, Sized
  <2>2. ASSUME NEW l \in Listeners, Has(listener[l], e), listener[l].pc = "acking"
        PROVE  e \in handled
    BY <1>1, <2>2, NothingIn DEF Holding, Has, In
  <2>. QED
    BY <1>1, <2>1, <2>2 DEF KeptNow, Kept, Orphaned, Single, Pends
<1>9. /\ \A l \in Listeners : Apart(queue, buffer, handled \cup dead, listener[l], e)
      /\ Apart(queue, buffer, handled \cup dead, Free, e)
      /\ \A k, l \in Listeners : Pends(listener[k], e) /\ Pends(listener[l], e) => k = l
  BY <1>1 DEF Single
<1>10. CASE e \in handled \cup dead
  <2>1. Q = {} /\ B = {} /\ \A l \in Listeners : P(l) = {}
    BY <1>3, <1>4, <1>7, <1>9, <1>10 DEF Apart
  <2>2. Pending(e) = {}
    BY <1>2, <2>1
  <2>. QED
    BY <1>10, <2>2, SizeOfNone
<1>11. CASE e \notin handled \cup dead
  <2>1. \E x : Pending(e) = {x}
    <3>1. CASE In(queue, e)
      <4>1. B = {} /\ \A l \in Listeners : P(l) = {}
        BY <1>4, <1>7, <1>9, <3>1 DEF Apart
      <4>. QED
        BY <1>2, <1>5, <3>1, <4>1
    <3>2. CASE In(buffer, e)
      <4>1. Q = {} /\ \A l \in Listeners : P(l) = {}
        BY <1>3, <1>7, <1>9, <3>2 DEF Apart
      <4>. QED
        BY <1>2, <1>6, <3>2, <4>1
    <3>3. ASSUME NEW k \in Listeners, Pends(listener[k], e) PROVE \E x : Pending(e) = {x}
      <4>1. Q = {} /\ B = {} /\ \A l \in Listeners : l # k => P(l) = {}
        BY <1>3, <1>4, <1>7, <1>9, <3>3 DEF Apart
      <4>2. UNION {P(l) : l \in Listeners} = P(k)
        BY <4>1
      <4>. QED
        BY <1>2, <1>7, <3>3, <4>1, <4>2
    <3>. QED
      BY <1>8, <1>11, <3>1, <3>2, <3>3
  <2>. QED
    BY <1>11, <2>1, SizeOfOne
<1>. QED
  BY <1>10, <1>11
-----------------------------------------------------------------------------
(* The theorems.                                                           *)

\* Every list, timer, listener and worker holds values of its kind; no listener
\* claims more than one message and BatchSize members of the buffer, however the
\* claims of several listeners interleave.
THEOREM BatchTypeCorrect == Spec => []TypeOK
<1>1. BatchInv => TypeOK
  BY DEF BatchInv, WorkerInv, ListenInv, TypeOK
<1>. QED
  BY <1>1, BatchInductive, PTL

\* Worker.run: a hook is open exactly if its on_start returned and its on_stop
\* has not been called; none is open when run is over.
THEOREM HooksAreBalanced == Spec => []HooksBalanced
<1>1. BatchInv => HooksBalanced
  BY DEF BatchInv, WorkerInv
<1>. QED
  BY <1>1, BatchInductive, PTL

\* The listener settles a claim after its outcome is published: whatever call
\* raises, whoever dies and whatever the reaper sweeps, every event of the
\* backlog is handled, dead-lettered, on a list or claimed.
THEOREM EventsAreKept == Spec => []NoEventLost
<1>1. BatchInv => NoEventLost
  BY DEF BatchInv
<1>. QED
  BY <1>1, BatchInductive, PTL

\* Listener._flush_batch, _requeue and _dead_letter: until a transport call fails
\* or somebody dies, an event that is neither handled nor dead-lettered has one
\* copy, on the queue, in the buffer or in one listener's claim, and one that is
\* has none; however many listeners flush the buffer, stop and start.
THEOREM EventsAreSettledOnce == Spec => []ExactlyOnce
  BY OnceInductive, OnceCounted, PTL

\* Worker.stop: once the stop event is set, no poll begins.
THEOREM StopPreventsPolls == Spec => NoPollAfterStop
<1>1. BatchInv /\ [Next]_vars =>
         [\A w \in Workers : stop[w] /\ worker[w].pc # "polling"
            => worker'[w].pc # "polling"]_wvars
  <2> SUFFICES ASSUME BatchInv, [Next]_vars, NEW w \in Workers, ~UNCHANGED wvars,
                      stop[w], worker[w].pc # "polling", worker'[w].pc = "polling"
               PROVE  FALSE
    OBVIOUS
  <2>1. PICK v \in Workers : WorkerAction(v)
    BY WorkerTurn
  <2>. QED
    BY <2>1, Admission DEF BatchInv
<1>. QED
  BY <1>1, BatchInductive, PTL DEF Spec, NoPollAfterStop

\* Worker._run_cycle and Listener.listen_once together: a poll begins without a
\* claim that an earlier poll of the same run could not settle.
THEOREM ClosedOnFailure == Spec => FailClosed
<1>1. BatchInv /\ BatchInv' /\ [Next]_vars =>
         [\A w \in Workers : listener[w].pc = "idle" /\ listener'[w].pc # "idle"
            => Claims(w) = <<>>]_vars
  <2> SUFFICES ASSUME BatchInv, BatchInv', [Next]_vars, NEW w \in Workers,
                      listener[w].pc = "idle", listener'[w].pc # "idle"
               PROVE  Claims(w) = <<>>
    OBVIOUS
  <2>1. /\ Tied(w) /\ Tied(w)' /\ WorkerInv /\ listener[w] \in ListenRecords
        /\ Sized(listener[w])
    BY ComposedAssumption, TypeIs DEF BatchInv, ListenInv
  <2>2. worker[w].pc # "polling" /\ worker'[w].pc = "polling"
    BY <2>1 DEF Tied
  <2>3. ~UNCHANGED wvars
    BY <2>2 DEF wvars
  <2>4. PICK v \in Workers : WorkerAction(v)
    BY <2>3, WorkerTurn
  <2>5. worker[w].pc = "admitting"
    BY <2>1, <2>2, <2>4, Admission
  <2>6. listener[w].batch = <<>> /\ listener[w].msg = <<>>
    BY <2>1, <2>5 DEF Tied, Leaving
  <2>7. ClaimsOf(listener[w]) = <<>>
    BY <2>1, <2>6, ClaimsAre DEF Sized
  <2>. QED
    BY <2>7 DEF Claims, ClaimsOf
<1>. QED
  BY <1>1, BatchInductive, PTL DEF Spec, FailClosed
=============================================================================
