-------------------------- MODULE MCRedisTransport --------------------------
(* RedisTransport on small instances. *)
EXTENDS RedisTransport, FiniteSetsExt, TLC

CONSTANT MaxTotal   \* bound: copies of the message on the lists at one time

\* NoLoss holds for good once the message is finished or dead-lettered, so the
\* search stops there.
Unsettled == ~done /\ ~dlq

FewCopies ==
    MapThenSumSet(LAMBDA y : queue[y] + processing[y], Payload) <= MaxTotal

\* Slots and instants are interchangeable.
Symmetry == Permutations(Consumers) \cup Permutations(Reapers)
            \cup Permutations(Stamps)
=============================================================================
