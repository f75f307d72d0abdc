------------------------ MODULE DurableJobRefinement ------------------------
(***************************************************************************)
(* The rows of DurableJob seen as the lifecycle of JobLifecycle: claims,   *)
(* publications, copies, crashes and late outcomes do not show.            *)
(***************************************************************************)
EXTENDS DurableJob

\* What a row means to the caller of its lineage.
StatusOf(j) ==
    CASE j.state = "absent" -> "absent"
      [] j.state = "RUNNING" -> "running"
      [] j.state = "SUCCEEDED" -> "succeeded"
      [] j.state = "DEAD_LETTERED" -> "dead"
      [] j.state = "CANCELLED" -> "cancelled"
      [] HandlerOutcomeUnknown(j) -> "parked"
      [] OTHER -> "waiting"

Lifecycle == INSTANCE JobLifecycle WITH
    status <- [o \in Occ |-> StatusOf(jobs[o])]

\* The rows implement the lifecycle: whatever crashes, lost or repeated copies,
\* expired deadlines and late outcomes come in between, an observer of the rows
\* sees attempts of the latest occurrence of an open lineage only, a parked
\* occurrence never run again, nothing after the end of an occurrence, and an
\* occurrence and its series decided in one step.
ImplementsLifecycle == Lifecycle!Spec
=============================================================================
