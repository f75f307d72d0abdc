--------------------------- MODULE RequestResponse ---------------------------
(***************************************************************************)
(* Request/response over the bus: the threads of one process that wait for *)
(* replies (bus.py, request and _await_response; request_response.py,      *)
(* wait_for_response) and the RequestResponseCoordinator they share.  All  *)
(* of them read one reply queue, so a thread may consume the reply another *)
(* one waits for and hands it over through the coordinator's buffer.       *)
(*                                                                         *)
(* Every requester makes one request, and its name is the correlation id.  *)
(* A reply may arrive late, never, or more than once: the responder runs   *)
(* at least once, and since nobody acks a consumed reply, a Redis reaper   *)
(* delivers it again.  The coordinator's methods hold its condition's      *)
(* lock, so each is one step.                                              *)
(***************************************************************************)
EXTENDS Naturals, FiniteSets

CONSTANTS
    Pollers,      \* threads in Pybus.request: they poll the reply queue
    Waiters,      \* threads in coordinator.wait_for_response: they do not
    Unbounded,    \* the ones that wait without a timeout
    None,
    Feeding,      \* TRUE: application threads call store_response too
    MaxReplies    \* bound: replies to one request

Requesters == Pollers \cup Waiters

ASSUME RequestAssumption ==
    /\ Pollers \cap Waiters = {}
    /\ Unbounded \subseteq Requesters
    /\ None \notin Requesters
    /\ Feeding \in BOOLEAN
    /\ MaxReplies \in Nat

VARIABLES
    pc,         \* where each requester is
    holding,    \* the correlation id of the reply a poller has in hand
    replies,    \* replies on the reply queue, by correlation id
    answered,   \* replies published so far, by correlation id
    expired,    \* the requesters whose deadline has passed
    responses,  \* coordinator._responses: the correlation ids buffered
    deadlines   \* coordinator._deadlines: the correlation ids registered

vars == <<pc, holding, replies, answered, expired, responses, deadlines>>

Init ==
    /\ pc = [r \in Requesters |-> "start"]
    /\ holding = [r \in Requesters |-> None]
    /\ replies = [r \in Requesters |-> 0]
    /\ answered = [r \in Requesters |-> 0]
    /\ expired = {}
    /\ responses = {}
    /\ deadlines = {}

Ended(r) == pc[r] \in {"returned", "timed_out"}
-----------------------------------------------------------------------------
\* prepare_request and the publication of its envelope.
Request(r) ==
    /\ pc[r] = "start"
    /\ pc' = [pc EXCEPT ![r] = IF r \in Pollers THEN "checking" ELSE "requested"]
    /\ UNCHANGED <<holding, replies, answered, expired, responses, deadlines>>

\* wait_for_response is entered, perhaps after the reply was stored.
RegisterDeadline(r) ==
    /\ pc[r] = "requested"
    /\ pc' = [pc EXCEPT ![r] = "waiting"]
    /\ deadlines' = deadlines \cup ({r} \ Unbounded)
    /\ UNCHANGED <<holding, replies, answered, expired, responses>>

\* The listener that ran the request's handler: _publish_response.
Respond(r) ==
    /\ pc[r] # "start"
    /\ answered[r] < MaxReplies
    /\ answered' = [answered EXCEPT ![r] = @ + 1]
    /\ replies' = [replies EXCEPT ![r] = @ + 1]
    /\ UNCHANGED <<pc, holding, expired, responses, deadlines>>

\* The clock passes r's deadline.
Expire(r) ==
    /\ pc[r] \notin {"start", "requested"}
    /\ ~Ended(r)
    /\ r \notin Unbounded
    /\ expired' = expired \cup {r}
    /\ UNCHANGED <<pc, holding, replies, answered, responses, deadlines>>

\* Mutant of AfterMiss: the deadline is only looked at by the poll itself.
AfterMissNoDeadline(r) == "polling"

\* _await_response after take_response found nothing.
AfterMiss(r) == IF r \in expired THEN "timed_out" ELSE "polling"

TakeResponse(r) ==
    /\ pc[r] = "checking"
    /\ responses' = responses \ {r}
    /\ deadlines' = deadlines \ {r}
    /\ pc' = [pc EXCEPT ![r] = IF r \in responses THEN "returned" ELSE AfterMiss(r)]
    /\ UNCHANGED <<holding, replies, answered, expired>>

\* transport.consume returned a reply, of whoever.
Consume(r) ==
    /\ pc[r] = "polling"
    /\ \E s \in Requesters :
          /\ replies[s] > 0
          /\ replies' = [replies EXCEPT ![s] = @ - 1]
          /\ holding' = [holding EXCEPT ![r] = s]
    /\ pc' = [pc EXCEPT ![r] = "storing"]
    /\ UNCHANGED <<answered, expired, responses, deadlines>>

\* transport.consume timed out.
ConsumeNothing(r) ==
    /\ pc[r] = "polling"
    /\ \A s \in Requesters : replies[s] = 0
    /\ pc' = [pc EXCEPT ![r] = "checking"]
    /\ UNCHANGED <<holding, replies, answered, expired, responses, deadlines>>

\* _evict_expired
Evicted == deadlines \cap expired

\* Mutant of StoreResponse: the reply is kept only for a registered deadline.
StoreResponseRegistered(s) ==
    /\ responses' = (responses \ Evicted) \cup ({s} \cap (deadlines \ Evicted))
    /\ deadlines' = deadlines \ Evicted

\* store_response
StoreResponse(s) ==
    /\ responses' = (responses \ Evicted) \cup ({s} \ Evicted)
    /\ deadlines' = deadlines \ Evicted

\* Mutant of Store: the reply is stored again at the next one.
StoreKeeps(r) ==
    /\ pc[r] = "storing"
    /\ StoreResponse(holding[r])
    /\ pc' = [pc EXCEPT ![r] = "checking"]
    /\ UNCHANGED <<holding, replies, answered, expired>>

Store(r) ==
    /\ pc[r] = "storing"
    /\ StoreResponse(holding[r])
    /\ holding' = [holding EXCEPT ![r] = None]
    /\ pc' = [pc EXCEPT ![r] = "checking"]
    /\ UNCHANGED <<replies, answered, expired>>

\* A thread of the application consumes a reply and stores it.
Feed(s) ==
    /\ Feeding
    /\ replies[s] > 0
    /\ replies' = [replies EXCEPT ![s] = @ - 1]
    /\ StoreResponse(s)
    /\ UNCHANGED <<pc, holding, answered, expired>>

\* wait_for_response wakes up, notified or at its deadline.
WaitReturns(r) ==
    /\ pc[r] = "waiting"
    /\ r \in responses
    /\ responses' = responses \ {r}
    /\ deadlines' = deadlines \ {r}
    /\ pc' = [pc EXCEPT ![r] = "returned"]
    /\ UNCHANGED <<holding, replies, answered, expired>>

WaitTimesOut(r) ==
    /\ pc[r] = "waiting"
    /\ r \notin responses
    /\ r \in expired
    /\ pc' = [pc EXCEPT ![r] = "timed_out"]
    /\ UNCHANGED <<holding, replies, answered, expired, responses, deadlines>>
-----------------------------------------------------------------------------
PollStep(r) == TakeResponse(r) \/ Consume(r) \/ ConsumeNothing(r) \/ Store(r)
WaitStep(r) == RegisterDeadline(r) \/ WaitReturns(r) \/ WaitTimesOut(r)

Next ==
    \/ \E r \in Requesters : Request(r) \/ Respond(r) \/ Expire(r)
                             \/ PollStep(r) \/ WaitStep(r) \/ Feed(r)

Spec == Init /\ [][Next]_vars

\* Threads run, and clocks reach deadlines.
Fairness ==
    \A r \in Requesters :
        WF_vars(Request(r)) /\ WF_vars(Expire(r)) /\ WF_vars(PollStep(r))
        /\ WF_vars(WaitStep(r))

FairSpec == Spec /\ Fairness
-----------------------------------------------------------------------------
PCs == {"start", "checking", "polling", "storing", "requested", "waiting",
        "returned", "timed_out"}

\* Every variable holds values of its kind, and a poller that stores a reply
\* has one in hand.
TypeOK ==
    /\ pc \in [Requesters -> PCs]
    /\ holding \in [Requesters -> Requesters \cup {None}]
    /\ replies \in [Requesters -> Nat]
    /\ answered \in [Requesters -> 0..MaxReplies]
    /\ expired \subseteq Requesters
    /\ responses \subseteq Requesters
    /\ deadlines \subseteq Requesters
    /\ \A r \in Requesters : pc[r] = "storing" <=> holding[r] # None

\* A reply that arrives in time is not lost to the thread that waits for it,
\* whichever thread consumes it: it is on the queue, in a poller's hand or in
\* the coordinator's buffer until the requester returns.
NoReplyLost ==
    \A r \in Requesters :
        /\ pc[r] # "start" /\ ~Ended(r) /\ answered[r] > 0
        /\ r \in Waiters => r \notin expired
        => \/ replies[r] > 0
           \/ r \in responses
           \/ \E h \in Requesters : holding[h] = r

\* "timeout expiration must raise a documented exception" (api-contract.md:565):
\* a request with a timeout ends, however the threads hand replies around.
EveryRequestEnds == \A r \in Requesters \ Unbounded : <>Ended(r)

\* A polling request whose reply was published ends even without a timeout,
\* although other threads consume from the same queue.
AnsweredRequestEnds ==
    \A r \in Pollers : (answered[r] > 0) ~> Ended(r)

\* "late_response_after_timeout_does_not_leak" (test_reliability_helpers.py:121):
\* once a request has timed out, the buffer keeps no reply to it.
LateResponseDoesNotLeak ==
    \A r \in Requesters : pc[r] = "timed_out" => r \notin responses
=============================================================================
