--------------------------- MODULE DurableJobLive ---------------------------
(***************************************************************************)
(* Progress of the durable-job state machine.  The steps are DurableJob's  *)
(* own; what is added is when they must happen.                            *)
(*                                                                         *)
(* Timing: lease_duration is longer than a publication and                 *)
(* reconciliation_delay longer than a delivery (30 seconds and 5 minutes   *)
(* by default), so a deadline passes only when nobody works on the row any *)
(* more and no copy that could still be admitted is on its way.  At most   *)
(* MaxFaults of the faults of DurableJob happen.                           *)
(*                                                                         *)
(* Fairness: the worker loops of worker.py poll again and again, so runner *)
(* and listener steps are weakly fair; the queues are FIFO lists, so a     *)
(* copy that keeps waiting is received although aborted copies are put     *)
(* back on the same list; a handler does not answer ContinueProcessing     *)
(* forever.                                                                *)
(***************************************************************************)
EXTENDS DurableJobRefinement

CONSTANT MaxFaults    \* bound: faults that happen in a behaviour

ASSUME MaxFaultsAssumption == MaxFaults \in Nat

VARIABLE faults       \* faults that have happened

lvars == <<vars, faults>>
-----------------------------------------------------------------------------
WouldProceed(m) ==
    \E registered \in Deployments :
        Decision(jobs[m.occ], m, CommandMax(registered)) = "PROCEED"

\* Nobody works on the row's current generation and no copy of it can be
\* admitted any more.
Quiet(o) ==
    /\ \A m \in wire : ~(m.occ = o /\ m.queue \in Queues /\ WouldProceed(m))
    /\ \A p \in Publishers : pub[p].pc = "idle"
    /\ \A c \in Consumers :
          con[c].pc # "idle" /\ con[c].msg.occ = o
          /\ con[c].msg.generation = jobs[o].generation
             => con[c].pc \in {"received", "restoring", "acking"}
                /\ ~WouldProceed(con[c].msg)

Poll(p, o) ==
    /\ jobs[o].state = "PENDING" \/ Quiet(o)
    /\ ClaimJob(p, o) \/ ParkExhausted(p, o) \/ CancelReclaimable(p, o)

TimelyRunnerStep(p) ==
    \/ \E o \in Occ : Poll(p, o)
    \/ Publish(p)
    \/ MarkPublished(p)
    \/ MarkPublishIndeterminate(p)

ReceiveAdmissible(c) ==
    \E m \in wire : WouldProceed(m) /\ Receive(c, m)

\* The handler stops continuing: it raises or returns.
HandlerFinishes(c) ==
    \/ HandlerRaises(c)
    \/ CompleteSuccess(c, "none", FALSE)
    \/ CompleteSuccess(c, "none", TRUE)

LiveInit == Init /\ faults = 0

LiveNext ==
    \/ /\ \/ \E p \in Publishers : TimelyRunnerStep(p)
          \/ \E c \in Consumers : ListenerStep(c)
          \/ CancelRecurring
       /\ UNCHANGED faults
    \/ /\ faults < MaxFaults
       /\ \/ \E p \in Publishers : RunnerFault(p)
          \/ \E c \in Consumers : ListenerFault(c)
       /\ faults' = faults + 1

Fairness ==
    /\ \A p \in Publishers : WF_lvars(TimelyRunnerStep(p) /\ UNCHANGED faults)
    /\ \A c \in Consumers :
          /\ WF_lvars(ListenerStep(c) /\ UNCHANGED faults)
          /\ SF_lvars(ReceiveAdmissible(c) /\ UNCHANGED faults)
          /\ SF_lvars(HandlerFinishes(c) /\ UNCHANGED faults)

LiveSpec == LiveInit /\ [][LiveNext]_lvars /\ Fairness
-----------------------------------------------------------------------------
\* Every occurrence is finished, or is parked for an operator because its
\* last permitted handler run has an unknown outcome.
Settled ==
    \A o \in Occ : \/ jobs[o].state \in Terminal \cup {"absent"}
                   \/ HandlerOutcomeUnknown(jobs[o])

\* Whatever MaxFaults faults hit the runners, the listeners and the transport,
\* and wherever, the job is eventually settled for good: the poll of
\* store.claim always finds it again.
EventuallySettled == <>[]Settled

\* A checkpointed dead-letter intent is eventually carried out.
IntentCarriedOut ==
    \A o \in Occ : jobs[o].settlement_status = "DEAD_LETTERED"
                       ~> jobs[o].state \in Terminal

\* After cancel_recurring the occurrence that was still running ends: it
\* finishes, or a poll cancels it.
CancelTakesEffect ==
    series.state = "CANCELLED" ~> jobs[series.latest].state \in Terminal
=============================================================================
