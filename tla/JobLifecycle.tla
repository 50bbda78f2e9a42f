---------------------------- MODULE JobLifecycle ----------------------------
(***************************************************************************)
(* What a job promises its requester, whatever process works on it: the    *)
(* status moves only along the edges of jobs/state.py, a cancellation that *)
(* was accepted is never answered with a success, and the output becomes   *)
(* available in the step that makes the job SUCCEEDED, and stays available *)
(* for as long as this abstraction watches it.                             *)
(***************************************************************************)

VARIABLES
    status,           \* Job.status
    cancelRequested,  \* Job.cancel_requested_at is not None
    delivered         \* the requester can fetch the result

vars == <<status, cancelRequested, delivered>>

JobStatus == {"created", "queued", "processing", "retryable_failed",
              "succeeded", "failed", "dead_lettered", "cancelled"}

Terminal == {"succeeded", "failed", "dead_lettered", "cancelled"}

\* The statuses in which _request_cancel cancels the job on the spot.
CancelledAtOnce == {"created", "queued", "retryable_failed"}

\* TRANSITIONS of jobs/state.py, as a relation.
Transitions ==
    ({"created"} \X {"queued", "cancelled", "failed"})
    \cup ({"queued"} \X {"processing", "cancelled", "failed", "dead_lettered"})
    \cup ({"processing"} \X {"succeeded", "failed", "retryable_failed", "cancelled"})
    \cup ({"retryable_failed"} \X {"queued", "failed", "dead_lettered", "cancelled"})

TypeOK ==
    /\ status \in JobStatus
    /\ cancelRequested \in BOOLEAN
    /\ delivered \in BOOLEAN

Init ==
    /\ status = "created"
    /\ cancelRequested = FALSE
    /\ delivered = FALSE

-----------------------------------------------------------------------------
RequestCancel ==
    /\ ~cancelRequested
    /\ status \notin Terminal
    /\ cancelRequested' = TRUE
    /\ status' = IF status \in CancelledAtOnce THEN "cancelled" ELSE status
    /\ UNCHANGED delivered

\* Every edge but the one into SUCCEEDED; a job is only ever cancelled for a
\* cancellation somebody asked for.
Advance(to) ==
    /\ <<status, to>> \in Transitions
    /\ to # "succeeded"
    /\ to = "cancelled" => cancelRequested
    /\ status' = to
    /\ UNCHANGED <<cancelRequested, delivered>>

Succeed ==
    /\ <<status, "succeeded">> \in Transitions
    /\ ~cancelRequested
    /\ status' = "succeeded"
    /\ delivered' = TRUE
    /\ UNCHANGED cancelRequested

Next ==
    \/ RequestCancel
    \/ \E to \in JobStatus : Advance(to)
    \/ Succeed

Spec == Init /\ [][Next]_vars
=============================================================================
