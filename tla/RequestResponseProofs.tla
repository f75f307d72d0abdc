------------------------ MODULE RequestResponseProofs ------------------------
(***************************************************************************)
(* Proofs about RequestResponse, for any number of threads and replies.    *)
(***************************************************************************)
EXTENDS RequestResponse, TLAPS

\* Only threads in wait_for_response register deadlines, so _evict_expired
\* never drops a reply that a polling thread waits for; and nobody is
\* answered before asking.
Registered ==
    /\ deadlines \subseteq Waiters \ Unbounded
    /\ \A r \in Pollers : pc[r] \notin {"requested", "waiting"}
    /\ \A r \in Requesters : pc[r] = "start" => answered[r] = 0

ReplyInv == TypeOK /\ Registered /\ NoReplyLost
-----------------------------------------------------------------------------
\* Every step preserves the types.
LEMMA ReplyTypes ==
    ASSUME TypeOK, NEW r \in Requesters,
           Request(r) \/ Respond(r) \/ Expire(r) \/ PollStep(r) \/ WaitStep(r) \/ Feed(r)
    PROVE  TypeOK'
<1>1. CASE Request(r) \/ RegisterDeadline(r)
  BY <1>1 DEF TypeOK, Request, RegisterDeadline, PCs
<1>2. CASE Respond(r)
  <2>1. answered[r] + 1 \in 0..MaxReplies /\ replies[r] + 1 \in Nat
    BY <1>2, RequestAssumption DEF TypeOK, Respond
  <2>. QED
    BY <1>2, <2>1 DEF TypeOK, Respond
<1>3. CASE Expire(r)
  BY <1>3 DEF TypeOK, Expire
<1>4. CASE TakeResponse(r)
  BY <1>4 DEF TypeOK, TakeResponse, AfterMiss, PCs
<1>5. CASE Consume(r)
  <2>1. PICK s \in Requesters :
           /\ replies[s] > 0
           /\ replies' = [replies EXCEPT ![s] = @ - 1]
           /\ holding' = [holding EXCEPT ![r] = s]
    BY <1>5 DEF Consume
  <2>2. replies[s] - 1 \in Nat /\ s # None
    BY <2>1, RequestAssumption DEF TypeOK
  <2>. QED
    BY <1>5, <2>1, <2>2 DEF TypeOK, Consume, PCs
<1>6. CASE ConsumeNothing(r)
  BY <1>6 DEF TypeOK, ConsumeNothing, PCs
<1>7. CASE Store(r)
  <2>1. holding[r] \in Requesters
    BY <1>7 DEF TypeOK, Store
  <2>2. responses' \subseteq Requesters /\ deadlines' \subseteq Requesters
    BY <1>7, <2>1 DEF TypeOK, Store, StoreResponse
  <2>. QED
    BY <1>7, <2>2 DEF TypeOK, Store, PCs
<1>8. CASE Feed(r)
  <2>1. replies[r] - 1 \in Nat
    BY <1>8 DEF TypeOK, Feed
  <2>2. responses' \subseteq Requesters /\ deadlines' \subseteq Requesters
    BY <1>8 DEF TypeOK, Feed, StoreResponse
  <2>. QED
    BY <1>8, <2>1, <2>2 DEF TypeOK, Feed
<1>9. CASE WaitReturns(r) \/ WaitTimesOut(r)
  BY <1>9 DEF TypeOK, WaitReturns, WaitTimesOut, PCs
<1>. QED
  BY <1>1, <1>2, <1>3, <1>4, <1>5, <1>6, <1>7, <1>8, <1>9 DEF PollStep, WaitStep

LEMMA RegisteredStep ==
    ASSUME TypeOK, Registered, NEW r \in Requesters,
           Request(r) \/ Respond(r) \/ Expire(r) \/ PollStep(r) \/ WaitStep(r) \/ Feed(r)
    PROVE  Registered'
<1>1. r \in Pollers \/ r \in Waiters
  BY DEF Requesters
<1>2. CASE Request(r)
  BY <1>1, <1>2, RequestAssumption DEF Registered, Request, TypeOK, Requesters
<1>3. CASE RegisterDeadline(r)
  BY <1>1, <1>3 DEF Registered, RegisterDeadline, TypeOK, Requesters
<1>4. CASE Respond(r) \/ Expire(r)
  BY <1>4 DEF Registered, Respond, Expire, TypeOK
<1>5. CASE PollStep(r)
  <2>1. deadlines' \subseteq deadlines
    BY <1>5 DEF PollStep, TakeResponse, Consume, ConsumeNothing, Store, StoreResponse
  <2>2. /\ answered' = answered
        /\ pc'[r] \in {"returned", "timed_out", "polling", "storing", "checking"}
        /\ \A s \in Requesters : s # r => pc'[s] = pc[s]
    BY <1>5 DEF PollStep, TakeResponse, Consume, ConsumeNothing, Store,
       AfterMiss, TypeOK
  <2>. QED
    BY <2>1, <2>2 DEF Registered, Requesters
<1>6. CASE WaitReturns(r) \/ WaitTimesOut(r) \/ Feed(r)
  <2>1. deadlines' \subseteq deadlines
    BY <1>6 DEF WaitReturns, WaitTimesOut, Feed, StoreResponse
  <2>2. /\ answered' = answered
        /\ pc'[r] \in {"returned", "timed_out", pc[r]}
        /\ \A s \in Requesters : s # r => pc'[s] = pc[s]
    BY <1>6 DEF WaitReturns, WaitTimesOut, Feed, TypeOK
  <2>. QED
    BY <2>1, <2>2 DEF Registered, Requesters
<1>. QED
  BY <1>2, <1>3, <1>4, <1>5, <1>6 DEF WaitStep
-----------------------------------------------------------------------------
\* The request of s is open, its reply was published, and its time is not up.
Waits(s) ==
    /\ pc[s] # "start" /\ ~Ended(s) /\ answered[s] > 0
    /\ s \in Waiters => s \notin expired

\* Where the reply to s is.
Somewhere(s) ==
    \/ replies[s] > 0
    \/ s \in responses
    \/ \E h \in Requesters : holding[h] = s

\* store_response evicts no reply that somebody waits for, and keeps the new one.
LEMMA StoreKeepsReplies ==
    ASSUME TypeOK, Registered, NEW s \in Requesters, StoreResponse(s),
           NEW t \in Requesters, t \in Waiters => t \notin expired
    PROVE  t \in responses \cup {s} => t \in responses'
BY RequestAssumption DEF Registered, StoreResponse, Evicted, TypeOK

LEMMA ReplyStep ==
    ASSUME ReplyInv, TypeOK', NEW r \in Requesters,
           Request(r) \/ Respond(r) \/ Expire(r) \/ PollStep(r) \/ WaitStep(r) \/ Feed(r)
    PROVE  NoReplyLost'
<1> SUFFICES ASSUME NEW s \in Requesters, Waits(s)' PROVE Somewhere(s)'
  BY DEF NoReplyLost, Waits, Somewhere, Ended
<1>0. TypeOK /\ Registered /\ (Waits(s) => Somewhere(s))
  BY DEF ReplyInv, NoReplyLost, Waits, Somewhere
<1>1. CASE Request(r)
  <2>1. s # r
    BY <1>0, <1>1 DEF Request, Registered, Waits, TypeOK
  <2>2. Waits(s)
    BY <1>0, <1>1, <2>1 DEF Request, Waits, Ended, TypeOK
  <2>. QED
    BY <1>0, <1>1, <2>2 DEF Request, Somewhere
<1>2. CASE Respond(r)
  <2>1. CASE s = r
    BY <1>0, <1>2, <2>1 DEF Respond, Somewhere, TypeOK
  <2>2. CASE s # r
    BY <1>0, <1>2, <2>2 DEF Respond, Somewhere, Waits, Ended, TypeOK
  <2>. QED
    BY <2>1, <2>2
<1>3. CASE Expire(r)
  BY <1>0, <1>3 DEF Expire, Somewhere, Waits, Ended
<1>4. CASE TakeResponse(r) \/ WaitReturns(r)
  <2>1. Waits(s) /\ (s = r => r \notin responses)
    BY <1>0, <1>4 DEF TakeResponse, WaitReturns, Waits, Ended, TypeOK
  <2>. QED
    BY <1>0, <1>4, <2>1 DEF TakeResponse, WaitReturns, Somewhere
<1>5. CASE Consume(r)
  <2>1. Waits(s)
    BY <1>0, <1>5 DEF Consume, Waits, Ended, TypeOK
  <2>2. PICK t \in Requesters :
           /\ replies[t] > 0
           /\ replies' = [replies EXCEPT ![t] = @ - 1]
           /\ holding' = [holding EXCEPT ![r] = t]
    BY <1>5 DEF Consume
  <2>3. holding[r] = None /\ holding'[r] = t
    BY <1>0, <1>5, <2>2 DEF Consume, TypeOK
  <2>4. CASE s = t
    BY <2>3, <2>4 DEF Somewhere
  <2>5. CASE s # t
    <3>1. replies'[s] = replies[s]
      BY <1>0, <2>2, <2>5 DEF TypeOK
    <3>2. \A h \in Requesters : holding[h] = s => holding'[h] = s
      BY <1>0, <2>2, <2>3, RequestAssumption DEF TypeOK
    <3>3. responses' = responses
      BY <1>5 DEF Consume
    <3>. QED
      BY <1>0, <2>1, <3>1, <3>2, <3>3 DEF Somewhere
  <2>. QED
    BY <2>4, <2>5
<1>6. CASE ConsumeNothing(r) \/ RegisterDeadline(r) \/ WaitTimesOut(r)
  <2>1. Waits(s)
    BY <1>0, <1>6 DEF ConsumeNothing, RegisterDeadline, WaitTimesOut, Waits, Ended, TypeOK
  <2>. QED
    BY <1>0, <1>6, <2>1 DEF ConsumeNothing, RegisterDeadline, WaitTimesOut, Somewhere
<1>7. CASE Store(r)
  <2>1. Waits(s) /\ holding[r] \in Requesters
    BY <1>0, <1>7 DEF Store, Waits, Ended, TypeOK
  <2>2. s \in responses \cup {holding[r]} => s \in responses'
    BY <1>0, <1>7, <2>1, StoreKeepsReplies DEF Store, Waits
  <2>3. /\ replies' = replies
        /\ \A h \in Requesters : h # r => holding'[h] = holding[h]
    BY <1>0, <1>7 DEF Store, TypeOK
  <2>. QED
    BY <1>0, <2>1, <2>2, <2>3 DEF Somewhere
<1>8. CASE Feed(r)
  <2>1. Waits(s)
    BY <1>8 DEF Feed, Waits, Ended
  <2>2. s \in responses \cup {r} => s \in responses'
    BY <1>0, <1>8, <2>1, StoreKeepsReplies DEF Feed, Waits
  <2>3. holding' = holding /\ (s # r => replies'[s] = replies[s])
    BY <1>0, <1>8 DEF Feed, TypeOK
  <2>. QED
    BY <1>0, <2>1, <2>2, <2>3 DEF Somewhere
<1>. QED
  BY <1>1, <1>2, <1>3, <1>4, <1>5, <1>6, <1>7, <1>8 DEF PollStep, WaitStep
-----------------------------------------------------------------------------
LEMMA ReplyInit == Init => ReplyInv
<1> SUFFICES ASSUME Init PROVE ReplyInv
  OBVIOUS
<1>1. TypeOK
  BY RequestAssumption DEF Init, TypeOK, PCs
<1>2. Registered /\ NoReplyLost
  BY DEF Init, Registered, NoReplyLost, Requesters
<1>. QED
  BY <1>1, <1>2 DEF ReplyInv

LEMMA ReplyInductive == Spec => []ReplyInv
<1>1. ReplyInv /\ [Next]_vars => ReplyInv'
  <2> SUFFICES ASSUME ReplyInv, [Next]_vars PROVE ReplyInv'
    OBVIOUS
  <2>1. CASE UNCHANGED vars
    BY <2>1 DEF vars, ReplyInv, TypeOK, Registered, NoReplyLost, Ended
  <2>2. ASSUME NEW r \in Requesters,
               Request(r) \/ Respond(r) \/ Expire(r) \/ PollStep(r) \/ WaitStep(r) \/ Feed(r)
        PROVE  ReplyInv'
    <3>1. TypeOK' /\ Registered'
      BY <2>2, ReplyTypes, RegisteredStep DEF ReplyInv
    <3>. QED
      BY <2>2, <3>1, ReplyStep DEF ReplyInv
  <2>. QED
    BY <2>1, <2>2 DEF Next
<1>. QED
  BY <1>1, ReplyInit, PTL DEF Spec

\* Every reachable state has the types of TypeOK, for any number of threads.
THEOREM ReplyTypeCorrect == Spec => []TypeOK
<1>1. ReplyInv => TypeOK
  BY DEF ReplyInv
<1>. QED
  BY <1>1, ReplyInductive, PTL

\* Whichever threads of the process consume from the shared reply queue, and
\* whatever _evict_expired drops, a reply that arrived in time stays within
\* reach of the thread that waits for it.
THEOREM RepliesAreKept == Spec => []NoReplyLost
<1>1. ReplyInv => NoReplyLost
  BY DEF ReplyInv
<1>. QED
  BY <1>1, ReplyInductive, PTL
=============================================================================
