------------------------------- MODULE Worker -------------------------------
(***************************************************************************)
(* The worker loop (worker.py): run, its cycles and lifecycle hooks, and   *)
(* stop, which another thread may call at any moment.  What one poll does  *)
(* is the listener's business; this module only knows how a poll ends.     *)
(*                                                                         *)
(* The stop event is set and, at the admission of a poll, read under       *)
(* _state_lock, so both are one step.  Hooks of one kind that only run     *)
(* one after the other are one step, except on_start and on_stop, where it *)
(* matters which of them have run.  run has no max_iterations, as in a     *)
(* deployed worker.                                                        *)
(***************************************************************************)
EXTENDS Naturals

CONSTANTS
    Workers,
    Hooks,      \* the number of hooks of each worker
    None        \* Python's None

ASSUME WorkerAssumption ==
    Hooks \in [Workers -> Nat] /\ None \notin {"error", "abort"}

VARIABLES
    worker,     \* where run is, its started_hooks and cycle_error
    stop,       \* the stop event
    open        \* hooks whose on_start returned and whose on_stop has not run

wvars == <<worker, stop, open>>

\* How a cycle may fail: with an error that the loop survives, or with an
\* IndeterminateDeliveryError or a WorkerAbortError.
Errors == {"error", "abort"}

Down == [pc |-> "down", started |-> 0, error |-> None]

WorkerInit ==
    /\ worker = [w \in Workers |-> Down]
    /\ stop = [w \in Workers |-> FALSE]
    /\ open = [w \in Workers |-> {}]

Goto(w, pc) == worker' = [worker EXCEPT ![w].pc = pc]
-----------------------------------------------------------------------------
\* A supervisor starts a process, which runs a new Worker.
Run(w) ==
    /\ worker[w].pc = "down"
    /\ Goto(w, IF Hooks[w] = 0 THEN "looping" ELSE "starting")
    /\ stop' = [stop EXCEPT ![w] = FALSE]
    /\ UNCHANGED open

StartHook(w) ==
    LET started == worker[w].started + 1
    IN  /\ worker[w].pc = "starting"
        /\ worker' = [worker EXCEPT ![w].started = started,
                         ![w].pc = IF started = Hooks[w] THEN "looping" ELSE @]
        /\ open' = [open EXCEPT ![w] = @ \cup {started}]
        /\ UNCHANGED stop

StartHookRaises(w) ==
    /\ worker[w].pc = "starting"
    /\ worker' = [worker EXCEPT ![w].pc = "stopping"]
    /\ UNCHANGED <<stop, open>>

\* Mutant of Cycle: the loop is left by an exception only.
CycleForever(w) ==
    /\ worker[w].pc = "looping"
    /\ Goto(w, "admitting")
    /\ UNCHANGED <<stop, open>>

\* The head of the loop, and the before_poll hooks.
Cycle(w) ==
    /\ worker[w].pc = "looping"
    /\ Goto(w, IF stop[w] THEN "stopping" ELSE "admitting")
    /\ UNCHANGED <<stop, open>>

BeforePollRaises(w, error) ==
    /\ worker[w].pc = "looping"
    /\ ~stop[w]
    /\ Hooks[w] > 0
    /\ worker' = [worker EXCEPT ![w].pc = "reporting", ![w].error = error]
    /\ UNCHANGED <<stop, open>>

\* Mutant of AdmitPoll: the stop event is read at the head of the loop only.
AdmitPollUnchecked(w) ==
    /\ worker[w].pc = "admitting"
    /\ Goto(w, "polling")
    /\ UNCHANGED <<stop, open>>

\* The last look at the stop event before listen_once.
AdmitPoll(w) ==
    /\ worker[w].pc = "admitting"
    /\ ~stop[w]
    /\ Goto(w, "polling")
    /\ UNCHANGED <<stop, open>>

RefusePoll(w) ==
    /\ worker[w].pc = "admitting"
    /\ stop[w]
    /\ Goto(w, "looping")
    /\ UNCHANGED <<stop, open>>

\* listen_once returned (error None) or raised; the after_poll hooks passed.
PollEnds(w, error) ==
    /\ worker[w].pc = "polling"
    /\ worker' = [worker EXCEPT ![w].pc = IF error = None THEN "looping" ELSE "reporting",
                                ![w].error = error]
    /\ UNCHANGED <<stop, open>>

\* Mutant of CycleError: the last exception of a cycle counts.
CycleErrorLast(polled, raised) == raised

\* An after_poll hook raised: its exception is the cycle's only if the poll
\* itself did not fail.
CycleError(polled, raised) == IF polled = None THEN raised ELSE polled

AfterPollRaises(w, polled, raised) ==
    /\ worker[w].pc = "polling"
    /\ Hooks[w] > 0
    /\ worker' = [worker EXCEPT ![w].pc = "reporting",
                                ![w].error = CycleError(polled, raised)]
    /\ UNCHANGED <<stop, open>>

\* A BaseException, such as KeyboardInterrupt, ends the poll and the run.
PollInterrupted(w) ==
    /\ worker[w].pc = "polling"
    /\ worker' = [worker EXCEPT ![w].pc = "stopping"]
    /\ UNCHANGED <<stop, open>>

\* _report_error: every on_error hook is tried.  An abort leaves the loop,
\* another error waits for error_delay.
Report(w) ==
    /\ worker[w].pc = "reporting"
    /\ LET aborts == worker[w].error = "abort"
       IN  worker' = [worker EXCEPT ![w].pc = IF aborts THEN "stopping" ELSE "waiting",
                                    ![w].error = None]
    /\ UNCHANGED <<stop, open>>

\* error_delay is over, or the stop event ends the wait.
Wait(w) ==
    /\ worker[w].pc = "waiting"
    /\ Goto(w, "looping")
    /\ UNCHANGED <<stop, open>>

\* on_stop of the hook that was started last.
StopHook(w) ==
    /\ worker[w].pc = "stopping"
    /\ worker[w].started > 0
    /\ worker' = [worker EXCEPT ![w].started = @ - 1]
    /\ open' = [open EXCEPT ![w] = @ \ {worker[w].started}]
    /\ UNCHANGED stop

\* Mutant of StopHookRaises: the exception ends the loop over the hooks.
StopHookRaisesEnds(w) ==
    /\ worker[w].pc = "stopping"
    /\ worker[w].started > 0
    /\ worker' = [worker EXCEPT ![w].started = 0]
    /\ open' = [open EXCEPT ![w] = @ \ {worker[w].started}]
    /\ UNCHANGED stop

\* It raised: logged, and raised again at the end of run unless another
\* exception is on its way.
StopHookRaises(w) ==
    /\ worker[w].pc = "stopping"
    /\ worker[w].started > 0
    /\ worker' = [worker EXCEPT ![w].started = @ - 1]
    /\ open' = [open EXCEPT ![w] = @ \ {worker[w].started}]
    /\ UNCHANGED stop

EndRun(w) ==
    /\ worker[w].pc = "stopping"
    /\ worker[w].started = 0
    /\ worker' = [worker EXCEPT ![w] = Down]
    /\ UNCHANGED <<stop, open>>

\* stop, from another thread or from a hook.
Stop(w) ==
    /\ ~stop[w]
    /\ stop' = [stop EXCEPT ![w] = TRUE]
    /\ UNCHANGED <<worker, open>>

\* The process dies, and with it everything a hook had opened.
Kill(w) ==
    /\ worker[w].pc # "down"
    /\ worker' = [worker EXCEPT ![w] = Down]
    /\ open' = [open EXCEPT ![w] = {}]
    /\ UNCHANGED stop
-----------------------------------------------------------------------------
PCs == {"down", "starting", "looping", "admitting", "polling", "reporting",
        "waiting", "stopping"}

WorkerTypeOK ==
    /\ worker \in [Workers -> [pc: PCs, started: Nat, error: Errors \cup {None}]]
    /\ stop \in [Workers -> BOOLEAN]
    /\ open \in [Workers -> SUBSET Nat]
    /\ \A w \in Workers : worker[w].started <= Hooks[w]

\* "on_stop once for successfully started hooks" (api-contract.md:721): when
\* run is over, whatever start, poll or stop hook raised and in whatever cycle,
\* every hook whose on_start returned has had its on_stop.
HooksBalanced ==
    \A w \in Workers : open[w] = 1..worker[w].started

\* "It prevents a new poll, while an already-running poll is allowed to finish"
\* (api-contract.md:723-724): from the moment stop has returned, no poll of that
\* worker begins, even if a cycle is past the head of the loop.
NoPollAfterStop ==
    [][\A w \in Workers : stop[w] /\ worker[w].pc # "polling"
          => worker'[w].pc # "polling"]_wvars

\* stop ends the run: no error, delay or hook keeps the loop alive.
StopEndsRun == \A w \in Workers : stop[w] ~> worker[w].pc = "down"
=============================================================================
