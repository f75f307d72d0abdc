---------------------------- MODULE BatchWorker ----------------------------
(***************************************************************************)
(* Workers that run listeners with a batched handler: Worker composed with *)
(* EventBatch.  A poll of a worker is a listen_once of its listener, and   *)
(* the way that ends decides whether the worker goes on: it must not drain *)
(* the queue further on top of a claim it could not settle.                *)
(***************************************************************************)
EXTENDS Worker, EventBatch

\* Bound.  What a behaviour is about: the workers that are deployed, those of
\* them that meet trouble, the number of transport calls that raise and of
\* deaths, and the number of mishaps, which are hooks that raise and calls of
\* stop.
CONSTANT Scenarios

ASSUME ComposedAssumption ==
    /\ Workers = Listeners
    /\ \A s \in Scenarios : /\ s.troubled \subseteq s.crew /\ s.crew \subseteq Workers
                            /\ s.faults \in Nat /\ s.mishaps \in Nat

VARIABLES
    scenario,   \* one of Scenarios, which never changes
    mishaps     \* mishaps so far

vars == <<wvars, bvars, scenario, mishaps>>

Init == WorkerInit /\ BatchInit /\ scenario \in Scenarios /\ mishaps = 0
-----------------------------------------------------------------------------
\* Poll outcomes as the worker sees them.
Raised(w) == IF listener[w].pc = "done" THEN None ELSE listener[w].pc

Poll(w) ==
    /\ AdmitPoll(w)
    /\ BeginPoll(w)

Return(w) ==
    /\ listener[w].pc \in {"done", "error", "abort"}
    /\ PollEnds(w, Raised(w))
    /\ EndPoll(w)
    /\ UNCHANGED faults

ReturnHookRaises(w) ==
    /\ listener[w].pc \in {"done", "error", "abort"}
    /\ \E error \in Errors : AfterPollRaises(w, Raised(w), error)
    /\ EndPoll(w)
    /\ UNCHANGED faults

\* KeyboardInterrupt, wherever listen_once is.
Interrupt(w) ==
    /\ PollInterrupted(w)
    /\ EndPoll(w)
    /\ Fault

\* A new process with a new Worker and a new Listener.
Supervise(w) == Run(w) /\ NewListener(w) /\ UNCHANGED mishaps

Leave(w) == EndRun(w) /\ Abandon(w) /\ UNCHANGED faults

Die(w) == Kill(w) /\ Abandon(w) /\ Fault

WorkerStep(w) ==
    \/ StartHook(w) \/ Cycle(w) \/ RefusePoll(w)
    \/ Report(w) \/ Wait(w) \/ StopHook(w)

WorkerMishap(w) ==
    \/ StartHookRaises(w) \/ StopHookRaises(w) \/ Stop(w)
    \/ \E error \in Errors : BeforePollRaises(w, error)

\* What w does by itself.
Step(w) ==
    \/ WorkerStep(w) /\ UNCHANGED <<bvars, mishaps>>
    \/ (Poll(w) \/ Return(w) \/ Leave(w)) /\ UNCHANGED mishaps
    \/ ListenStep(w) /\ UNCHANGED <<wvars, mishaps>>

Trouble(w) ==
    /\ \/ WorkerMishap(w) /\ UNCHANGED bvars /\ mishaps' = mishaps + 1
       \/ ReturnHookRaises(w) /\ mishaps' = mishaps + 1
       \/ (Interrupt(w) \/ Die(w)) /\ UNCHANGED mishaps
       \/ ListenFault(w) /\ UNCHANGED <<wvars, mishaps>>
    /\ faults' <= scenario.faults /\ mishaps' <= scenario.mishaps

Clock(w) ==
    /\ WaitElapses(w) \/ BackoffElapses(w)
    /\ UNCHANGED <<wvars, mishaps>>

Sweep ==
    /\ \E claim \in BagToSet(orphans) : Reap(claim)
    /\ UNCHANGED <<wvars, mishaps>>

Next ==
    /\ \/ \E w \in scenario.crew : Step(w) \/ Supervise(w) \/ Clock(w)
       \/ \E w \in scenario.troubled : Trouble(w)
       \/ Sweep
    /\ UNCHANGED scenario

\* Threads run, a supervisor restarts what is down, clocks advance, and the
\* reaper sweeps.
Fairness ==
    /\ \A w \in Workers :
          /\ WF_vars(w \in scenario.crew /\ Step(w) /\ UNCHANGED scenario)
          /\ WF_vars(w \in scenario.crew /\ Supervise(w) /\ UNCHANGED scenario)
          /\ WF_vars(w \in scenario.crew /\ Clock(w) /\ UNCHANGED scenario)
    /\ WF_vars(Sweep /\ UNCHANGED scenario)

Spec == Init /\ [][Next]_vars /\ Fairness
-----------------------------------------------------------------------------
(* Properties.                                                             *)

TypeOK == WorkerTypeOK /\ BatchTypeOK /\ scenario \in Scenarios /\ mishaps \in Nat

\* "aborts instead of consuming later messages" (api-contract.md:738-739): no
\* poll begins while an earlier one of the same run left a claim unsettled, not
\* even when an after_poll hook raises an ordinary error in between.
FailClosed ==
    [][\A w \in Workers : listener[w].pc = "idle" /\ listener'[w].pc # "idle"
          => Claims(w) = <<>>]_vars

\* Every event leaves the queue and the buffer for good, by way of the handler
\* or of the dead-letter channel: a buffer that nobody fills any more is flushed
\* by its max_wait, also by a listener that has just been restarted.
BuffersDrain == <>[](UnderWay = {})
=============================================================================
