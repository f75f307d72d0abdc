--------------------------- MODULE RedisTransport ---------------------------
(***************************************************************************)
(* The Redis transport and its reaper (integrations/redis.py): the queue   *)
(* list, the processing list, the claims hash, the claims index and the    *)
(* orphan-candidate markers of one channel, for the copies of ONE message, *)
(* with the consumers and reapers that work on them.  Messages have        *)
(* distinct ids, so the copies of another message share no bytes with      *)
(* these and never meet them in LREM, HSETNX or a claim.                   *)
(*                                                                         *)
(* A MULTI/EXEC pipeline and a single Redis command are one step each;     *)
(* everything between two of them interleaves.  The order of a list does   *)
(* not matter for one message's copies: the lists are bags.                *)
(***************************************************************************)
EXTENDS Integers, FiniteSets

CONSTANTS
    Consumers,     \* consumer slots (a batch consumer holds one per claim)
    Reapers,       \* RedisReaperRunner slots
    ClaimIds,      \* bound: claim ids in use at one time (uuid4 in the code)
    Stamps,        \* bound: instants a reaper writes as last_attempt
    None,          \* Python's None
    MaxReclaim,    \* RedisReaperPolicy.max_reclaim_attempts
    Prompt,        \* TRUE: a consumer that lives records its claim within
                   \* orphan_confirmation_delay and settles it within
                   \* visibility_timeout; a reaper ends its sweep within the
                   \* former
    MaxCopies      \* bound: equal copies on the lists at one time

VARIABLES
    queue,       \* <channel>: number of entries with each payload
    processing,  \* <channel>:processing, likewise
    claims,      \* <channel>:claims: the payload recorded for a claim id
    index,       \* <channel>:claims:index
    marker,      \* <channel>:claims:candidates, by payload digest: the age
                 \* of the first sighting, in confirmation delays, up to 2
    dlq,         \* the dead-letter channel has a copy
    done,        \* a consumer finished the message
    con, rea     \* program counter, payload and claim id of every slot

vars == <<queue, processing, claims, index, marker, dlq, done, con, rea>>

\* The bytes of a copy: its retries and last_attempt headers tell copies of
\* one message apart.
First == [retries |-> 0, stamp |-> None]
Payload == {First} \cup [retries: 1..MaxReclaim, stamp: Stamps]

ASSUME RedisAssumption ==
    /\ ClaimIds \subseteq Nat
    /\ MaxReclaim \in Nat
    /\ MaxCopies \in Nat
    /\ Prompt \in BOOLEAN
    /\ None \notin Stamps \cup ClaimIds \cup Nat
    /\ None \notin Payload

\* seen: the entries with payload y that a reaper's LRANGE returned.
\* ids: the claim ids that its ZRANGEBYSCORE returned.
\* age: the confirmation delays that passed since its sweep took "now".
Slot(pcs) == [pc: pcs, y: Payload, id: ClaimIds \cup {None}, seen: Nat,
              ids: SUBSET ClaimIds, age: 0..1]
Free == [pc |-> "idle", y |-> First, id |-> None, seen |-> 0, ids |-> {}, age |-> 0]

Init ==
    /\ queue = [y \in Payload |-> IF y = First THEN 1 ELSE 0]
    /\ processing = [y \in Payload |-> 0]
    /\ claims = [id \in ClaimIds |-> None]
    /\ index = {}
    /\ marker = [y \in Payload |-> None]
    /\ dlq = FALSE
    /\ done = FALSE
    /\ con = [c \in Consumers |-> Free]
    /\ rea = [r \in Reapers |-> Free]
-----------------------------------------------------------------------------
\* publish: LPUSH
Push(y) ==
    /\ queue[y] + processing[y] < MaxCopies
    /\ queue' = [queue EXCEPT ![y] = @ + 1]

\* uuid4: an id that no key and no thread knows.
FreshIds ==
    {id \in ClaimIds \ index :
        /\ claims[id] = None
        /\ \A c \in Consumers : con[c].id # id
        /\ \A r \in Reapers : rea[r].id # id /\ id \notin rea[r].ids}

\* Which of them makes no difference.
FreshId == CHOOSE id \in FreshIds : \A other \in FreshIds : id <= other

\* _claim: the pipeline that records a claim of y.
RecordClaim(id, y) ==
    /\ claims' = [claims EXCEPT ![id] = y]
    /\ index' = index \cup {id}
    /\ marker' = [marker EXCEPT ![y] = None]

\* _claim raised: any of the pipeline's commands may have taken effect;
\* _cleanup_failed_claim_attempt removes the hash field if it can.
RecordClaimFails(id, y) ==
    /\ \E landed \in {None, y} : claims' = [claims EXCEPT ![id] = landed]
    /\ \E landed \in {{}, {id}} : index' = index \cup landed
    /\ \E landed \in {marker[y], None} : marker' = [marker EXCEPT ![y] = landed]

\* Mutant of SettleClaim: LREM 0, which removes every equal entry.
SettleClaimEvery(id, y) ==
    /\ processing' = [processing EXCEPT ![y] = 0]
    /\ claims' = [claims EXCEPT ![id] = None]
    /\ index' = index \ {id}

\* Mutant of SettleClaim: an entry is taken off that may be gone already.
SettleClaimBlind(id, y) ==
    /\ processing' = [processing EXCEPT ![y] = @ - 1]
    /\ claims' = [claims EXCEPT ![id] = None]
    /\ index' = index \ {id}

\* _settle_claim
SettleClaim(id, y) ==
    /\ processing' = [processing EXCEPT ![y] = IF @ > 0 THEN @ - 1 ELSE 0]
    /\ claims' = [claims EXCEPT ![id] = None]
    /\ index' = index \ {id}

\* _settle_claim raised: any of its commands may have taken effect.
SettleClaimFails(id, y) ==
    /\ processing' \in {processing, [processing EXCEPT ![y] = IF @ > 0 THEN @ - 1 ELSE 0]}
    /\ claims' \in {claims, [claims EXCEPT ![id] = None]}
    /\ index' \in {index, index \ {id}}
-----------------------------------------------------------------------------
(* Consumers.                                                              *)

\* consume / consume_many: BLMOVE or LMOVE.
Move(c, y) ==
    /\ con[c].pc = "idle"
    /\ queue[y] > 0
    /\ queue' = [queue EXCEPT ![y] = @ - 1]
    /\ processing' = [processing EXCEPT ![y] = @ + 1]
    /\ con' = [con EXCEPT ![c] = [Free EXCEPT !.pc = "moved", !.y = y]]
    /\ UNCHANGED <<claims, index, marker, dlq, done, rea>>

Claim(c) ==
    /\ con[c].pc = "moved"
    /\ FreshIds # {}
    /\ RecordClaim(FreshId, con[c].y)
    /\ con' = [con EXCEPT ![c].pc = "working", ![c].id = FreshId]
    /\ UNCHANGED <<queue, processing, dlq, done, rea>>

ClaimFails(c) ==
    /\ con[c].pc = "moved"
    /\ FreshIds # {}
    /\ RecordClaimFails(FreshId, con[c].y)
    /\ con' = [con EXCEPT ![c] = Free]
    /\ UNCHANGED <<queue, processing, dlq, done, rea>>

\* The caller is finished with the message and will ack it.
Finish(c) ==
    /\ con[c].pc = "working"
    /\ done' = TRUE
    /\ con' = [con EXCEPT ![c].pc = "acking", ![c].y = First]
    /\ UNCHANGED <<queue, processing, claims, index, marker, dlq, rea>>

\* The caller publishes the unchanged copy and will ack the claimed one.
Restore(c) ==
    /\ con[c].pc = "working"
    /\ Push(con[c].y)
    /\ con' = [con EXCEPT ![c].pc = "acking", ![c].y = First]
    /\ UNCHANGED <<processing, claims, index, marker, dlq, done, rea>>

\* ack and nack: _lookup_claim; an unknown receipt is a no-op.
Lookup(slot, next) ==
    IF claims[slot.id] = None THEN Free
                              ELSE [slot EXCEPT !.pc = next, !.y = claims[slot.id]]

AckLookup(c) ==
    /\ con[c].pc = "acking"
    /\ con' = [con EXCEPT ![c] = Lookup(@, "settling")]
    /\ UNCHANGED <<queue, processing, claims, index, marker, dlq, done, rea>>

NackLookup(c) ==
    /\ con[c].pc = "working"
    /\ con' = [con EXCEPT ![c] = Lookup(@, "returning")]
    /\ UNCHANGED <<queue, processing, claims, index, marker, dlq, done, rea>>

NackRequeue(c) ==
    /\ con[c].pc = "returning"
    /\ Push(con[c].y)
    /\ con' = [con EXCEPT ![c].pc = "settling"]
    /\ UNCHANGED <<processing, claims, index, marker, dlq, done, rea>>

Settle(c) ==
    /\ con[c].pc = "settling"
    /\ SettleClaim(con[c].id, con[c].y)
    /\ con' = [con EXCEPT ![c] = Free]
    /\ UNCHANGED <<queue, marker, dlq, done, rea>>

SettleFails(c) ==
    /\ con[c].pc = "settling"
    /\ SettleClaimFails(con[c].id, con[c].y)
    /\ con' = [con EXCEPT ![c] = Free]
    /\ UNCHANGED <<queue, marker, dlq, done, rea>>

ConsumerCrash(c) ==
    /\ con[c].pc # "idle"
    /\ con' = [con EXCEPT ![c] = Free]
    /\ UNCHANGED <<queue, processing, claims, index, marker, dlq, done, rea>>
-----------------------------------------------------------------------------
(* Reapers: reconcile_orphaned_processing_entries.  A slot follows one     *)
(* payload of a sweep.                                                     *)

\* Mutant of Indexed: claims are counted by their hash field alone.
IndexedByHash(ids, y) == Cardinality({id \in ClaimIds : claims[id] = y})

\* Entries of y that unclaimed_processing_entries attributes to a claim.
Indexed(ids, y) == Cardinality({id \in ids : claims[id] = y})

\* LRANGE returned y.
List(r, y) ==
    /\ rea[r].pc = "idle"
    /\ processing[y] > 0
    /\ rea' = [rea EXCEPT ![r] = [Free EXCEPT !.pc = "listed", !.y = y,
                                             !.seen = processing[y]]]
    /\ UNCHANGED <<queue, processing, claims, index, marker, dlq, done, con>>

\* ZRANGEBYSCORE
ReadIndex(r) ==
    /\ rea[r].pc = "listed"
    /\ rea' = [rea EXCEPT ![r].pc = "indexed", ![r].ids = index]
    /\ UNCHANGED <<queue, processing, claims, index, marker, dlq, done, con>>

\* HGETALL: an entry is left over when every indexed claim of y took one.
Sight(r) ==
    /\ rea[r].pc = "indexed"
    /\ rea' = [rea EXCEPT ![r] = IF @.seen > Indexed(@.ids, @.y)
                                 THEN [@ EXCEPT !.pc = "sighted", !.seen = 0,
                                                !.ids = {}]
                                 ELSE Free]
    /\ UNCHANGED <<queue, processing, claims, index, marker, dlq, done, con>>

\* HSETNX: the first sighting only leaves a marker.
Record(r) ==
    LET y == rea[r].y
    IN  /\ rea[r].pc = "sighted"
        /\ marker' = [marker EXCEPT ![y] = IF @ = None THEN rea[r].age ELSE @]
        /\ rea' = [rea EXCEPT ![r] = IF marker[y] = None
                                     THEN Free ELSE [@ EXCEPT !.pc = "recorded"]]
        /\ UNCHANGED <<queue, processing, claims, index, dlq, done, con>>

\* HGET: go on only when the marker precedes this sweep's "now" by the delay.
Confirm(r) ==
    LET y == rea[r].y
        confirmed == marker[y] # None /\ marker[y] > rea[r].age
    IN
    /\ rea[r].pc = "recorded"
    /\ rea' = [rea EXCEPT ![r] = IF confirmed
                                 THEN [Free EXCEPT !.pc = "confirmed", !.y = y]
                                 ELSE Free]
    /\ UNCHANGED <<queue, processing, claims, index, marker, dlq, done, con>>

\* HDEL: the one that removes the marker may reindex.
WinMarker(r) ==
    LET y == rea[r].y
    IN  /\ rea[r].pc = "confirmed"
        /\ marker' = [marker EXCEPT ![y] = None]
        /\ rea' = [rea EXCEPT ![r] = IF marker[y] = None
                                     THEN Free ELSE [@ EXCEPT !.pc = "won"]]
        /\ UNCHANGED <<queue, processing, claims, index, dlq, done, con>>

\* reindex_orphaned_processing_entry
Reindex(r) ==
    /\ rea[r].pc = "won"
    /\ FreshIds # {}
    /\ RecordClaim(FreshId, rea[r].y)
    /\ rea' = [rea EXCEPT ![r] = Free]
    /\ UNCHANGED <<queue, processing, dlq, done, con>>

ReindexFails(r) ==
    /\ rea[r].pc = "won"
    /\ FreshIds # {}
    /\ RecordClaimFails(FreshId, rea[r].y)
    /\ rea' = [rea EXCEPT ![r] = Free]
    /\ UNCHANGED <<queue, processing, dlq, done, con>>

\* orphan_confirmation_delay passes.  Bound: at most once in a sweep.
Sweeping(r) == rea[r].pc \in {"listed", "indexed", "sighted", "recorded"}
Delay ==
    /\ \E y \in Payload : marker[y] \in 0..1
    /\ \A r \in Reapers : Sweeping(r) => ~Prompt /\ rea[r].age = 0
    /\ Prompt => \A c \in Consumers : con[c].pc # "moved"
    /\ marker' = [y \in Payload |-> IF marker[y] \in 0..1 THEN marker[y] + 1
                                                         ELSE marker[y]]
    /\ rea' = [r \in Reapers |-> IF Sweeping(r) THEN [rea[r] EXCEPT !.age = 1]
                                                ELSE rea[r]]
    /\ UNCHANGED <<queue, processing, claims, index, dlq, done, con>>
-----------------------------------------------------------------------------
(* Reapers: stale_claims and _reclaim.                                     *)

\* ZRANGEBYSCORE returned the id: the claim is older than visibility_timeout,
\* its consumer dead or slow.
FindStale(r, id) ==
    /\ rea[r].pc = "idle"
    /\ id \in index
    /\ Prompt => \A c \in Consumers : con[c].id # id
    /\ rea' = [rea EXCEPT ![r] = [Free EXCEPT !.pc = "stale", !.id = id]]
    /\ UNCHANGED <<queue, processing, claims, index, marker, dlq, done, con>>

\* HGET; an index entry without a payload is removed.
Resolve(r) ==
    LET id == rea[r].id
    IN  /\ rea[r].pc = "stale"
        /\ index' = IF claims[id] = None THEN index \ {id} ELSE index
        /\ rea' = [rea EXCEPT ![r] = Lookup(@, "reclaiming")]
        /\ UNCHANGED <<queue, processing, claims, marker, dlq, done, con>>

\* _reclaim.  A copy that cannot be decoded goes the way of an exhausted one
\* (_dead_letter_undecodable): for such a message MaxReclaim is 0.
Exhausted(y) == y.retries >= MaxReclaim

Redeliver(r) ==
    LET y == rea[r].y
    IN  /\ rea[r].pc = "reclaiming"
        /\ ~Exhausted(y)
        /\ \E t \in Stamps : Push([retries |-> y.retries + 1, stamp |-> t])
        /\ rea' = [rea EXCEPT ![r].pc = "acking", ![r].y = First]
        /\ UNCHANGED <<processing, claims, index, marker, dlq, done, con>>

DeadLetter(r) ==
    /\ rea[r].pc = "reclaiming"
    /\ Exhausted(rea[r].y)
    /\ dlq' = TRUE
    /\ rea' = [rea EXCEPT ![r].pc = "acking", ![r].y = First]
    /\ UNCHANGED <<queue, processing, claims, index, marker, done, con>>

ReaperLookup(r) ==
    /\ rea[r].pc = "acking"
    /\ rea' = [rea EXCEPT ![r] = Lookup(@, "settling")]
    /\ UNCHANGED <<queue, processing, claims, index, marker, dlq, done, con>>

ReaperSettle(r) ==
    /\ rea[r].pc = "settling"
    /\ SettleClaim(rea[r].id, rea[r].y)
    /\ rea' = [rea EXCEPT ![r] = Free]
    /\ UNCHANGED <<queue, marker, dlq, done, con>>

ReaperSettleFails(r) ==
    /\ rea[r].pc = "settling"
    /\ SettleClaimFails(rea[r].id, rea[r].y)
    /\ rea' = [rea EXCEPT ![r] = Free]
    /\ UNCHANGED <<queue, marker, dlq, done, con>>

\* The reaper dies or a Redis call raises: run_once is abandoned.
ReaperCrash(r) ==
    /\ rea[r].pc # "idle"
    /\ rea' = [rea EXCEPT ![r] = Free]
    /\ UNCHANGED <<queue, processing, claims, index, marker, dlq, done, con>>
-----------------------------------------------------------------------------
ConsumerStep(c) ==
    \/ \E y \in Payload : Move(c, y)
    \/ Claim(c)
    \/ Finish(c)
    \/ AckLookup(c)
    \/ NackRequeue(c)
    \/ Settle(c)

Return(c) == Restore(c) \/ NackLookup(c)

ConsumerFault(c) == ClaimFails(c) \/ SettleFails(c) \/ ConsumerCrash(c)

Reconcile(r) ==
    \/ \E y \in Payload : List(r, y)
    \/ ReadIndex(r)
    \/ Sight(r)
    \/ Record(r)
    \/ Confirm(r)
    \/ WinMarker(r)
    \/ Reindex(r)

Reclaim(r) ==
    \/ \E id \in ClaimIds : FindStale(r, id)
    \/ Resolve(r)
    \/ Redeliver(r)
    \/ DeadLetter(r)
    \/ ReaperLookup(r)
    \/ ReaperSettle(r)

ReaperFault(r) == ReindexFails(r) \/ ReaperSettleFails(r) \/ ReaperCrash(r)

Next ==
    \/ \E c \in Consumers : ConsumerStep(c) \/ Return(c) \/ ConsumerFault(c)
    \/ \E r \in Reapers : Reconcile(r) \/ Reclaim(r) \/ ReaperFault(r)
    \/ Delay

Spec == Init /\ [][Next]_vars
-----------------------------------------------------------------------------
(* Properties.                                                             *)

ConsumerPCs == {"idle", "moved", "working", "acking", "returning", "settling"}
ReaperPCs == {"idle", "listed", "indexed", "sighted", "recorded", "confirmed", "won",
              "stale", "reclaiming", "acking", "settling"}

\* Every key and every slot holds values of its kind.
TypeOK ==
    /\ queue \in [Payload -> Nat]
    /\ processing \in [Payload -> Nat]
    /\ claims \in [ClaimIds -> Payload \cup {None}]
    /\ index \subseteq ClaimIds
    /\ marker \in [Payload -> 0..2 \cup {None}]
    /\ dlq \in BOOLEAN
    /\ done \in BOOLEAN
    /\ con \in [Consumers -> Slot(ConsumerPCs)]
    /\ rea \in [Reapers -> Slot(ReaperPCs)]

\* "crash-safe at-least-once" (redis.py:99): until a consumer has finished the
\* message or it is on the dead-letter queue, a copy is on one of the lists,
\* whoever crashes between two commands and however often a claim is settled.
NoLoss == done \/ dlq \/ \E y \in Payload : queue[y] + processing[y] > 0

\* "a processing-list payload with no index entry, confirmed unclaimed for a
\* Redis-tracked grace period, is reindexed" (redis.py:109-111): while the
\* consumers record their claims within the delay, what a reaper reindexes is
\* an orphan, not the entry of a consumer that is about to record its claim.
ReindexesOrphansOnly ==
    [][\A r \in Reapers : Reindex(r)
          => LET y == rea[r].y
             IN  processing[y] >
                 Cardinality({c \in Consumers : con[c].pc # "idle" /\ con[c].y = y})]_vars
=============================================================================
