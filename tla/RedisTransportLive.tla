------------------------- MODULE RedisTransportLive -------------------------
(***************************************************************************)
(* RedisTransport under the fairness its processes provide: consumers are  *)
(* restarted and keep consuming, a reaper sweeps forever and each of its   *)
(* sweeps visits every processing entry and every stale claim, and time    *)
(* passes.  Consumers may crash without end; the reaper's own failures,    *)
(* failed pipelines and copies handed back unchanged are bounded,          *)
(* because each of them may create a copy that costs no retry.             *)
(***************************************************************************)
EXTENDS RedisTransport

CONSTANT MaxFaults   \* bound: reaper faults, failed pipelines and returned copies

VARIABLE faults
liveVars == <<vars, faults>>

Fault ==
    \/ \E c \in Consumers : Return(c) \/ ClaimFails(c) \/ SettleFails(c)
    \/ \E r \in Reapers : ReaperFault(r)

LiveNext ==
    \/ /\ \/ \E c \in Consumers : ConsumerStep(c) \/ ConsumerCrash(c)
          \/ \E r \in Reapers : Reconcile(r) \/ Reclaim(r)
          \/ Delay
       /\ UNCHANGED faults
    \/ /\ faults < MaxFaults
       /\ Fault
       /\ faults' = faults + 1

\* What a started sweep still has to do for the payload or claim it is at.
SweepGoesOn(r) == rea[r].pc # "idle" /\ (Reconcile(r) \/ Reclaim(r))

Fairness ==
    /\ \A c \in Consumers : WF_liveVars(ConsumerStep(c) /\ UNCHANGED faults)
    /\ \A r \in Reapers :
          /\ WF_liveVars(SweepGoesOn(r) /\ UNCHANGED faults)
          /\ \A y \in Payload : SF_liveVars(List(r, y) /\ UNCHANGED faults)
          /\ \A id \in ClaimIds : SF_liveVars(FindStale(r, id) /\ UNCHANGED faults)
    /\ SF_liveVars(Delay /\ UNCHANGED faults)

LiveSpec == Init /\ faults = 0 /\ [][LiveNext]_liveVars /\ Fairness

\* "poison messages still terminate" (redis.py:501-502) and orphans are
\* "recoverable within one visibility-timeout window" (redis.py:111-112): even
\* if every consumer that touches the message dies, at whatever command, the
\* message is finished or dead-lettered and no list keeps a copy of it.
EventuallyDrained ==
    <>[](/\ done \/ dlq
         /\ \A y \in Payload : queue[y] = 0 /\ processing[y] = 0
         /\ index = {})
=============================================================================
