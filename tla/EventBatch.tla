----------------------------- MODULE EventBatch -----------------------------
(***************************************************************************)
(* Batched events in the listener (listener.py): listen_once moves an      *)
(* event from its queue to the buffer list of its type, and flushes the    *)
(* buffer to the batched handler when it is full or has waited long        *)
(* enough, before and after.  Several listeners share queue and buffer;    *)
(* the timers of a batch are private to each.                              *)
(*                                                                         *)
(* The transport is one that claims, as Redis does: what a listener has    *)
(* consumed and not acked stays claimed until a reaper puts it back.  The  *)
(* claims themselves are the subject of RedisTransport; here a consume, a  *)
(* size and a settlement (publish, then ack) are one step each, and a      *)
(* settlement that fails may have taken effect in part.                    *)
(***************************************************************************)
EXTENDS Naturals, Sequences, BagsExt, SequencesExt

CONSTANTS
    Listeners,
    Backlog,      \* the events that wait on the queue at first, oldest first
    BatchSize,    \* HandlerSpec.batch_size
    Limit,        \* HandlerSpec.retry_limit
    PolicyMax,    \* RetryPolicy.max_retries
    MaxReclaim,   \* RedisReaperPolicy.max_reclaim_attempts
    Swept,        \* the channels that the reaper is given
    Foreign       \* <<l, e>>: listener l cannot decode event e

Events == ToSet(Backlog)

ASSUME BatchAssumption ==
    /\ Backlog \in Seq(Events)
    /\ BatchSize \in Nat \ {0}
    /\ Limit \in Nat /\ PolicyMax \in Nat /\ MaxReclaim \in Nat
    /\ Swept \subseteq {"queue", "buffer"}
    /\ Foreign \subseteq Listeners \X Events

\* A backlog lists each event once: its elements stand for messages, which have
\* an id each, not for payloads.
ASSUME DistinctAssumption ==
    \A i, j \in DOMAIN Backlog : Backlog[i] = Backlog[j] => i = j

VARIABLES
    queue,      \* the events' queue, oldest first
    buffer,     \* batched_buffer_key(message_type), oldest first
    orphans,    \* bag of the claims nobody works on any more
    handled,    \* events of a batch its handler accepted
    dead,       \* events on the dead-letter channel, as themselves or as poison
    listener,   \* listen_once: where it is, and what it holds
    started,    \* _batch_started_at: "none", "running", or "over" past max_wait
    backoff,    \* _batch_retry_after lies ahead
    faults      \* transport calls that raised, and deaths, so far

lists == <<queue, buffer, orphans, handled, dead>>
timers == <<started, backoff>>
bvars == <<lists, listener, timers, faults>>

\* A copy of an event, with its retries header.
Copies == [event: Events, retries: Nat]

\* msg: the envelope of this poll, if any (<<>> or <<copy>>).
\* batch: claims of the buffer that are not settled yet.
\* buffered: msg is in the buffer and its claim is acked.
\* requeued: a message of the failed batch went back to the buffer.
Free == [pc |-> "idle", msg |-> <<>>, batch |-> <<>>, buffered |-> FALSE,
         requeued |-> FALSE]

BatchInit ==
    /\ queue = [i \in DOMAIN Backlog |-> [event |-> Backlog[i], retries |-> 0]]
    /\ buffer = <<>>
    /\ orphans = EmptyBag
    /\ handled = {}
    /\ dead = {}
    /\ listener = [l \in Listeners |-> Free]
    /\ started = [l \in Listeners |-> "none"]
    /\ backoff = [l \in Listeners |-> FALSE]
    /\ faults = 0
-----------------------------------------------------------------------------
Goes(l, pc) == listener' = [listener EXCEPT ![l].pc = pc]

\* After a flush: the first one is followed by the consume, the second one
\* ends the poll.
AfterFlush(l) == IF listener[l].buffered THEN "done" ELSE "consume"

PopTimers(l) ==
    /\ started' = [started EXCEPT ![l] = "none"]
    /\ backoff' = [backoff EXCEPT ![l] = FALSE]

Fault == faults' = faults + 1
-----------------------------------------------------------------------------
(* _flush_ready_batches, for the one batched handler.                      *)

BeginPoll(l) ==
    /\ listener[l].pc = "idle"
    /\ Goes(l, "flush")
    /\ UNCHANGED <<lists, timers, faults>>

InBackoff(l) ==
    /\ listener[l].pc = "flush"
    /\ backoff[l]
    /\ Goes(l, AfterFlush(l))
    /\ UNCHANGED <<lists, timers, faults>>

\* Mutant of StartedAt: only the listener that buffers starts the clock.
StartedAtUnset(l) == started[l]

\* The setdefault: a buffer that another listener, or an earlier life of this
\* one, has filled starts to wait when it is first seen.
StartedAt(l) == IF started[l] = "none" THEN "running" ELSE started[l]

Ready(l) == Len(buffer) >= BatchSize \/ StartedAt(l) = "over"

ReadSize(l) ==
    /\ listener[l].pc = "flush"
    /\ ~backoff[l]
    /\ started' = [started EXCEPT ![l] = IF buffer = <<>> THEN "none" ELSE StartedAt(l)]
    /\ Goes(l, IF buffer # <<>> /\ Ready(l) THEN "claiming" ELSE AfterFlush(l))
    /\ UNCHANGED <<lists, backoff, faults>>

\* size raises.  The first flush is outside the try of listen_once; the second
\* one is inside, where msg counts as failed although it is in the buffer.
ReadSizeRaises(l) ==
    /\ listener[l].pc = "flush"
    /\ ~backoff[l]
    /\ Fault
    /\ Goes(l, IF listener[l].buffered THEN "failing" ELSE "error")
    /\ UNCHANGED <<lists, timers>>

\* consume_many: one claim after the other, until the batch is full.
Joined(l) == Append(listener[l].batch, Head(buffer))

\* Mutant of ClaimMember: one claim more than batch_size.
ClaimMemberMore(l) ==
    /\ listener[l].pc = "claiming"
    /\ buffer # <<>>
    /\ listener' = [listener EXCEPT ![l].batch = Joined(l),
                        ![l].pc = IF Len(Joined(l)) > BatchSize THEN "decoding" ELSE @]
    /\ buffer' = Tail(buffer)
    /\ UNCHANGED <<queue, orphans, handled, dead, timers, faults>>

ClaimMember(l) ==
    /\ listener[l].pc = "claiming"
    /\ buffer # <<>>
    /\ listener' = [listener EXCEPT ![l].batch = Joined(l),
                        ![l].pc = IF Len(Joined(l)) = BatchSize THEN "decoding" ELSE @]
    /\ buffer' = Tail(buffer)
    /\ UNCHANGED <<queue, orphans, handled, dead, timers, faults>>

\* A claim raises: the entry may be on the processing list, and so are the
\* members claimed before.
ClaimMemberRaises(l) ==
    /\ listener[l].pc = "claiming"
    /\ buffer # <<>>
    /\ Fault
    /\ \/ /\ listener' = [listener EXCEPT ![l].batch = Joined(l), ![l].pc = "abort"]
          /\ buffer' = Tail(buffer)
       \/ /\ Goes(l, "abort")
          /\ UNCHANGED buffer
    /\ UNCHANGED <<queue, orphans, handled, dead, timers>>

\* The buffer is empty: another listener may have been faster.
ClaimsEnd(l) ==
    /\ listener[l].pc = "claiming"
    /\ buffer = <<>>
    /\ Goes(l, IF listener[l].batch = <<>> THEN AfterFlush(l) ELSE "decoding")
    /\ UNCHANGED <<lists, timers, faults>>

Undecodable(l, copy) == <<l, copy.event>> \in Foreign
Poisonous(l) == {i \in DOMAIN listener[l].batch : Undecodable(l, listener[l].batch[i])}

HandlerAccepts(l) ==
    /\ listener[l].pc = "decoding"
    /\ Poisonous(l) = {}
    /\ handled' = handled \cup {copy.event : copy \in ToSet(listener[l].batch)}
    /\ Goes(l, "acking")
    /\ UNCHANGED <<queue, buffer, orphans, dead, timers, faults>>

HandlerRaises(l) ==
    /\ listener[l].pc = "decoding"
    /\ Poisonous(l) = {}
    /\ listener' = [listener EXCEPT ![l].pc = "retrying", ![l].requeued = FALSE]
    /\ UNCHANGED <<lists, timers, faults>>

-----------------------------------------------------------------------------
(* The rest of listen_once.                                                *)

Consume(l) ==
    /\ listener[l].pc = "consume"
    /\ queue # <<>>
    /\ queue' = Tail(queue)
    /\ listener' = [listener EXCEPT ![l].msg = <<Head(queue)>>,
                        ![l].pc = IF Undecodable(l, Head(queue)) THEN "failing" ELSE "sizing"]
    /\ UNCHANGED <<buffer, orphans, handled, dead, timers, faults>>

\* The move into the processing list may have taken effect.
ConsumeRaises(l) ==
    /\ listener[l].pc = "consume"
    /\ queue # <<>>
    /\ Fault
    /\ \/ /\ queue' = Tail(queue)
          /\ listener' = [listener EXCEPT ![l].msg = <<Head(queue)>>, ![l].pc = "abort"]
       \/ /\ Goes(l, "abort")
          /\ UNCHANGED queue
    /\ UNCHANGED <<buffer, orphans, handled, dead, timers>>

ConsumeNone(l) ==
    /\ listener[l].pc = "consume"
    /\ queue = <<>>
    /\ Goes(l, "done")
    /\ UNCHANGED <<lists, timers, faults>>

\* _buffer_batched_message
FirstInBuffer(l) ==
    /\ listener[l].pc = "sizing"
    /\ started' = [started EXCEPT ![l] = IF buffer = <<>> THEN "running" ELSE @]
    /\ Goes(l, "buffering")
    /\ UNCHANGED <<lists, backoff, faults>>

FirstInBufferRaises(l) ==
    /\ listener[l].pc = "sizing"
    /\ Fault
    /\ Goes(l, "failing")
    /\ UNCHANGED <<lists, timers>>
-----------------------------------------------------------------------------
(* Settlements: a publication, if any, and the ack of the claim.           *)

Put(channel, copy) ==
    /\ queue' = IF channel = "queue" THEN Append(queue, copy) ELSE queue
    /\ buffer' = IF channel = "buffer" THEN Append(buffer, copy) ELSE buffer

Bump(copy) == [copy EXCEPT !.retries = @ + 1]

\* Mutant of Failed: a message at its limit is dead-lettered and requeued.
FailedTwice(channel, copy, limit) ==
    /\ Put(channel, Bump(copy))
    /\ dead' = IF copy.retries < limit THEN dead ELSE dead \cup {copy.event}

\* _requeue or _dead_letter; the reaper decides likewise.
Failed(channel, copy, limit) ==
    IF copy.retries < limit
    THEN Put(channel, Bump(copy)) /\ UNCHANGED dead
    ELSE dead' = dead \cup {copy.event} /\ UNCHANGED <<queue, buffer>>

Settling(l) ==
    \/ listener[l].pc \in {"buffering", "failing", "retrying", "acking"}
    \/ listener[l].pc = "decoding" /\ Poisonous(l) # {}

Publication(l) ==
    LET self == listener[l]
    IN  CASE self.pc = "buffering" -> Put("buffer", self.msg[1]) /\ UNCHANGED dead
          [] self.pc = "failing"   -> Failed("queue", self.msg[1], PolicyMax)
          [] self.pc = "decoding"  -> /\ dead' = dead \cup {self.batch[Min(Poisonous(l))].event}
                                      /\ UNCHANGED <<queue, buffer>>
          [] self.pc = "retrying"  -> Failed("buffer", Head(self.batch), Limit)
          [] self.pc = "acking"    -> UNCHANGED <<queue, buffer, dead>>

\* The claims of the batch that are left once the claim is acked.
Rest(l) ==
    LET self == listener[l]
    IN  IF self.pc = "decoding" THEN RemoveAt(self.batch, Min(Poisonous(l)))
                                ELSE Tail(self.batch)

Requeued(l) ==
    /\ listener[l].pc = "retrying"
    /\ listener[l].requeued \/ Head(listener[l].batch).retries < Limit

\* The listener once the claim is acked.  An envelope that the generic handler
\* of listen_once settles after it was buffered has no claim any more: its ack
\* does nothing.
Acked(l) ==
    LET self == listener[l]
    IN  CASE self.pc = "buffering" -> [self EXCEPT !.buffered = TRUE, !.pc = "flush"]
          [] self.pc = "failing"   -> [self EXCEPT !.msg = <<>>, !.pc = "done"]
          [] OTHER -> IF Rest(l) = <<>>
                      THEN [self EXCEPT !.batch = <<>>, !.requeued = FALSE,
                                        !.pc = AfterFlush(l)]
                      ELSE [self EXCEPT !.batch = Rest(l), !.requeued = Requeued(l)]

\* The end of a batch.  After a failed one, max_wait doubles as the delay before
\* the next attempt, and the time the batch started is kept.
TimersAfter(l) ==
    IF listener[l].pc \in {"buffering", "failing"} \/ Rest(l) # <<>>
    THEN UNCHANGED timers
    ELSE IF listener[l].pc = "retrying"
         THEN backoff' = [backoff EXCEPT ![l] = Requeued(l)] /\ UNCHANGED started
         ELSE PopTimers(l)

Settle(l) ==
    /\ Settling(l)
    /\ Publication(l)
    /\ listener' = [listener EXCEPT ![l] = Acked(l)]
    /\ TimersAfter(l)
    /\ UNCHANGED <<orphans, handled, faults>>

\* Mutant of Unsettled: the claim is acked although the publication failed.
UnsettledAcked(l) == [Acked(l) EXCEPT !.pc = "abort"]

\* The publication failed, or the ack failed after it.
Unsettled(l) == [listener[l] EXCEPT !.pc = "abort"]

\* IndeterminateDeliveryError: nothing, the publication, or all of it took effect.
SettleRaises(l) ==
    /\ Settling(l)
    /\ Fault
    /\ \/ /\ UNCHANGED <<queue, buffer, dead>>
          /\ listener' = [listener EXCEPT ![l] = Unsettled(l)]
       \/ /\ Publication(l)
          /\ listener' \in {[listener EXCEPT ![l] = Unsettled(l)],
                            [listener EXCEPT ![l] = [Acked(l) EXCEPT !.pc = "abort"]]}
    /\ UNCHANGED <<orphans, handled, timers>>
-----------------------------------------------------------------------------
(* The ends of a poll, the reaper and the clock.                           *)

\* What l has claimed and not acked.
Claims(l) ==
    LET self == listener[l]
    IN  [i \in DOMAIN self.batch |-> [channel |-> "buffer", copy |-> self.batch[i]]]
        \o (IF self.buffered \/ self.msg = <<>> THEN <<>>
            ELSE <<[channel |-> "queue", copy |-> self.msg[1]]>>)

\* listen_once returned or raised; claims it left unsettled stay with l.
EndPoll(l) ==
    LET self == listener[l]
    IN  /\ self.pc # "idle"
        /\ listener' = [listener EXCEPT ![l] =
                [Free EXCEPT !.batch = self.batch,
                             !.msg = IF self.buffered THEN <<>> ELSE self.msg]]
        /\ UNCHANGED <<lists, timers>>

\* The run of l is over: nobody works on its claims any more.
Abandon(l) ==
    /\ orphans' = orphans (+) ToBag(Claims(l))
    /\ listener' = [listener EXCEPT ![l] = Free]
    /\ UNCHANGED <<queue, buffer, handled, dead, timers>>

\* A new Listener: the timers of the old one are gone.
NewListener(l) ==
    /\ PopTimers(l)
    /\ UNCHANGED <<lists, listener, faults>>

\* RedisReaperRunner._reclaim, once visibility_timeout has passed.
Reap(claim) ==
    /\ BagIn(claim, orphans)
    /\ claim.channel \in Swept
    /\ Failed(claim.channel, claim.copy, MaxReclaim)
    /\ orphans' = BagRemove(orphans, claim)
    /\ UNCHANGED <<handled, listener, timers, faults>>

\* max_wait has passed since the batch started.
WaitElapses(l) ==
    /\ started[l] = "running"
    /\ started' = [started EXCEPT ![l] = "over"]
    /\ UNCHANGED <<lists, listener, backoff, faults>>

BackoffElapses(l) ==
    /\ backoff[l]
    /\ backoff' = [backoff EXCEPT ![l] = FALSE]
    /\ UNCHANGED <<lists, listener, started, faults>>

ListenStep(l) ==
    \/ InBackoff(l) \/ ReadSize(l)
    \/ ClaimMember(l) \/ ClaimsEnd(l) \/ HandlerAccepts(l) \/ HandlerRaises(l)
    \/ Consume(l) \/ ConsumeNone(l) \/ FirstInBuffer(l)
    \/ Settle(l)

ListenFault(l) ==
    \/ ReadSizeRaises(l) \/ ClaimMemberRaises(l) \/ ConsumeRaises(l)
    \/ FirstInBufferRaises(l) \/ SettleRaises(l)
-----------------------------------------------------------------------------
(* Properties.                                                             *)

ListenPCs == {"idle", "flush", "claiming", "decoding", "acking", "retrying", "consume",
              "sizing", "buffering", "failing", "done", "error", "abort"}

\* Every list, timer and listener holds values of its kind, and no listener
\* claims more than one message and one batch.
BatchTypeOK ==
    /\ queue \in Seq(Copies) /\ buffer \in Seq(Copies)
    /\ BagToSet(orphans) \subseteq [channel: {"queue", "buffer"}, copy: Copies]
    /\ handled \subseteq Events /\ dead \subseteq Events
    /\ started \in [Listeners -> {"none", "running", "over"}]
    /\ backoff \in [Listeners -> BOOLEAN]
    /\ faults \in Nat
    /\ \A l \in Listeners :
          /\ listener[l] \in [pc: ListenPCs, msg: Seq(Copies), batch: Seq(Copies),
                              buffered: BOOLEAN, requeued: BOOLEAN]
          /\ Len(listener[l].msg) <= 1 /\ Len(listener[l].batch) <= BatchSize

\* Events with a copy on a list or in somebody's claim.
UnderWay ==
    {copy.event : copy \in ToSet(queue) \cup ToSet(buffer)}
    \cup {claim.copy.event :
            claim \in BagToSet(orphans) \cup UNION {ToSet(Claims(l)) : l \in Listeners}}

\* Every event is handled, dead-lettered or still under way, whatever call
\* raises and whoever dies: no claim is acked before its outcome is published.
NoEventLost == Events \subseteq handled \cup dead \cup UnderWay

\* Copies of e that nobody has handled: on a list, or claimed by a listener that
\* is not acking an accepted batch.
Pending(e) ==
    LET claims(l) == IF listener[l].pc = "acking" THEN <<>> ELSE Claims(l)
    IN  {<<"queue", i>> : i \in {i \in DOMAIN queue : queue[i].event = e}}
        \cup {<<"buffer", i>> : i \in {i \in DOMAIN buffer : buffer[i].event = e}}
        \cup UNION {{<<l, i>> : i \in {i \in DOMAIN claims(l) : claims(l)[i].copy.event = e}} :
                     l \in Listeners}

\* "eligible envelopes are requeued while exhausted envelopes are dead-lettered
\* exactly once" (compatibility-contract.md:105-106) and "malformed batch members
\* become terminal decode-failure records without discarding valid siblings"
\* (109-110): as long as no transport call fails and nobody dies, each event is
\* in one place only, although several listeners flush one buffer and are
\* stopped and started at any time.
ExactlyOnce ==
    faults = 0 => \A e \in Events :
        Cardinality(Pending(e)) = IF e \in handled \cup dead THEN 0 ELSE 1
=============================================================================
