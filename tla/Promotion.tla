----------------------------- MODULE Promotion -----------------------------
(***************************************************************************)
(* One upload request: the browser's PUT, its confirmation, the API        *)
(* requests that try to make a job of it (reserve, copy the file to the    *)
(* job's input key, finalize), and the cleanup that deletes what they left *)
(* behind or what is past its retention window.                            *)
(*                                                                         *)
(* Reserve, finalize and each deletion are transactions that hold the row  *)
(* lock, so each is one action; a deletion calls the object store inside   *)
(* its transaction, which may then still roll back.  The copy runs between *)
(* two transactions, without a lock.                                       *)
(***************************************************************************)
EXTENDS Naturals

CONSTANTS
    Requests,     \* API requests, each at work on one create_... call at a time
    MaxAttempts   \* how often the storage client sends one CopyObject

ASSUME MaxAttemptsAssumption == MaxAttempts \in Nat

VARIABLES
    \* The UploadRequest row: its age, finalized_at, promotion_status, whether
    \* promotion_status_changed_at is an hour ago, and the deletion evidence.
    upload, finalized, promotion, stale, sourceDeleted, targetDeleted,
    \* The job created from it; "aged" once its retention window is over.
    job,
    \* Object storage: the uploaded file, the job's input, the browser's PUT,
    \* and the CopyObject calls sent and still under way.
    source, target, put, attempts, inFlight,
    \* Each request's place, and whether a rolled back cleanup has deleted the
    \* target (observed by the properties only).
    pc, erased

rowVars     == <<upload, finalized, promotion, stale, sourceDeleted, targetDeleted>>
storageVars == <<source, target, put, attempts, inFlight>>
vars == <<rowVars, job, storageVars, pc, erased>>

\* No row; before expires_at; after it; past the orphan_upload window.
Age == {"absent", "open", "expired", "orphaned"}

PromotionStatus == {"none", "copying", "attached", "failed"}

JobState == {"absent", "active", "terminal", "aged"}

PutState == {"none", "pending", "answered"}

\* Between the statements of _copy_then_finalize.
Place == {"idle", "copying", "finalizing", "compensating", "marking", "releasing"}

TypeOK ==
    /\ upload \in Age
    /\ finalized \in BOOLEAN
    /\ promotion \in PromotionStatus
    /\ stale \in BOOLEAN
    /\ sourceDeleted \in BOOLEAN
    /\ targetDeleted \in BOOLEAN
    /\ job \in JobState
    /\ source \in BOOLEAN
    /\ target \in BOOLEAN
    /\ put \in PutState
    /\ attempts \in 0 .. MaxAttempts
    /\ inFlight \in 0 .. MaxAttempts
    /\ pc \in [Requests -> Place]
    /\ erased \in BOOLEAN

Init ==
    /\ upload = "absent"
    /\ finalized = FALSE
    /\ promotion = "none"
    /\ stale = FALSE
    /\ sourceDeleted = FALSE
    /\ targetDeleted = FALSE
    /\ job = "absent"
    /\ source = FALSE
    /\ target = FALSE
    /\ put = "none"
    /\ attempts = 0
    /\ inFlight = 0
    /\ pc = [r \in Requests |-> "idle"]
    /\ erased = FALSE

Goto(r, place) == pc' = [pc EXCEPT ![r] = place]

\* The transitions save_promotion allows.
Allowed == {<<"none", "copying">>, <<"copying", "attached">>,
            <<"copying", "failed">>, <<"failed", "copying">>}

\* save_promotion: never on a row whose target was deleted.
SavePromotion(new) ==
    /\ ~targetDeleted
    /\ <<promotion, new>> \in Allowed
    /\ promotion' = new
    /\ stale' = FALSE
    /\ UNCHANGED <<upload, finalized, sourceDeleted, targetDeleted>>

-----------------------------------------------------------------------------
(* The browser, and the confirmation of its upload.                        *)

CreateUpload ==
    /\ upload = "absent"
    /\ upload' = "open"
    /\ UNCHANGED <<finalized, promotion, stale, sourceDeleted, targetDeleted,
                   job, storageVars, pc, erased>>

\* The client of this repository sends one PUT per intent.
SendPut ==
    /\ upload = "open"
    /\ put = "none"
    /\ put' = "pending"
    /\ UNCHANGED <<rowVars, job, source, target, attempts, inFlight, pc, erased>>

\* The PUT takes effect, or never does.
PutAnswered ==
    /\ put = "pending"
    /\ put' = "answered"
    /\ source' = TRUE \/ UNCHANGED source
    /\ UNCHANGED <<rowVars, job, target, attempts, inFlight, pc, erased>>

\* The row stays locked from the first check of expires_at, over the HEAD of
\* the source, to the second check.
CompleteUpload ==
    /\ upload = "open"
    /\ ~finalized
    /\ source
    /\ finalized' = TRUE
    /\ UNCHANGED <<upload, promotion, stale, sourceDeleted, targetDeleted, job,
                   storageVars, pc, erased>>

-----------------------------------------------------------------------------
(* One request for a job.                                                  *)

\* reserve_promotion; a refusal changes nothing.
Reserve(r) ==
    /\ pc[r] = "idle"
    /\ upload = "open"
    /\ finalized
    /\ promotion = "none"
    /\ SavePromotion("copying")
    /\ Goto(r, "copying")
    /\ UNCHANGED <<job, storageVars, erased>>

\* copy_object, which the storage client repeats when an answer is overdue.
SendCopy(r) ==
    /\ pc[r] = "copying"
    /\ attempts < MaxAttempts
    /\ attempts' = attempts + 1
    /\ inFlight' = inFlight + 1
    /\ UNCHANGED <<rowVars, job, source, target, put, pc, erased>>

\* A CopyObject takes effect, however late, or never does.
CopyLands ==
    /\ inFlight > 0
    /\ source
    /\ target' = TRUE
    /\ inFlight' = inFlight - 1
    /\ UNCHANGED <<rowVars, job, source, put, attempts, pc, erased>>

CopyLost ==
    /\ inFlight > 0
    /\ inFlight' = inFlight - 1
    /\ UNCHANGED <<rowVars, job, source, target, put, attempts, pc, erased>>

\* A variant with a bug: the copy is not looked up (noticed by IInv).
CopyUnverified(r) ==
    /\ pc[r] = "copying"
    /\ Goto(r, "finalizing")
    /\ UNCHANGED <<rowVars, job, storageVars, erased>>

\* The HEAD that ends copy_verified finds the copy.
CopySucceeds(r) ==
    /\ pc[r] = "copying"
    /\ target
    /\ Goto(r, "finalizing")
    /\ UNCHANGED <<rowVars, job, storageVars, erased>>

CopyFails(r) ==
    /\ pc[r] = "copying"
    /\ Goto(r, "compensating")
    /\ UNCHANGED <<rowVars, job, storageVars, erased>>

\* _lock_unchanged_reservation
Unchanged == promotion = "copying" /\ ~targetDeleted

\* Domain row, job, outbox event, audit event and ATTACHED in one transaction,
\* whose commit may be applied while the request sees an exception.
Finalize(r) ==
    /\ pc[r] = "finalizing"
    /\ Unchanged
    /\ SavePromotion("attached")
    /\ job' = "active"
    /\ Goto(r, "releasing") \/ Goto(r, "compensating")
    /\ UNCHANGED <<storageVars, erased>>

\* The reservation changed, or a write failed: everything rolls back.
FinalizeFails(r) ==
    /\ pc[r] = "finalizing"
    /\ Goto(r, "compensating")
    /\ UNCHANGED <<rowVars, job, storageVars, erased>>

\* A variant with a bug: a failed finalize takes its copy back, fenced or not
\* (noticed by ActiveJobHasItsInput).
CompensateAlways(r) ==
    /\ pc[r] = "compensating"
    /\ target' = FALSE \/ UNCHANGED target
    /\ Goto(r, "marking")
    /\ UNCHANGED <<rowVars, job, source, put, attempts, inFlight, erased>>

\* delete_fenced_promotion_target: deletes only what the cleanup has fenced;
\* a failure, with or without effect, is swallowed.
Compensate(r) ==
    /\ pc[r] = "compensating"
    /\ \/ targetDeleted /\ target' = FALSE
       \/ UNCHANGED target
    /\ Goto(r, "marking")
    /\ UNCHANGED <<rowVars, job, source, put, attempts, inFlight, erased>>

\* _mark_failed
MarkFailed(r) ==
    /\ pc[r] = "marking"
    /\ promotion = "copying"
    /\ SavePromotion("failed")
    /\ Goto(r, "idle")
    /\ UNCHANGED <<job, storageVars, erased>>

\* Nothing to mark, the row is fenced, or the transaction failed; the request
\* ends all the same.
MarkNothing(r) ==
    /\ pc[r] = "marking"
    /\ Goto(r, "idle")
    /\ UNCHANGED <<rowVars, job, storageVars, erased>>

\* delete_attached_orphan_source
ReleaseSource(r) ==
    /\ pc[r] = "releasing"
    /\ promotion = "attached"
    /\ ~sourceDeleted
    /\ source' = FALSE
    /\ sourceDeleted' = TRUE
    /\ Goto(r, "idle")
    /\ UNCHANGED <<upload, finalized, promotion, stale, targetDeleted, job,
                   target, put, attempts, inFlight, erased>>

\* The deletion or its transaction failed, with or without effect on the
\* object; the request succeeds and leaves the rest to the cleanup.
ReleaseDeferred(r) ==
    /\ pc[r] = "releasing"
    /\ source' = FALSE \/ UNCHANGED source
    /\ Goto(r, "idle")
    /\ UNCHANGED <<rowVars, job, target, put, attempts, inFlight, erased>>

\* The request ends with its process, or with an answer it never saw.
Stop(r) ==
    /\ pc[r] # "idle"
    /\ Goto(r, "idle")
    /\ UNCHANGED <<rowVars, job, storageVars, erased>>

-----------------------------------------------------------------------------
(* Cleanup: _delete_one per category, and the reconciliation of fenced     *)
(* targets.                                                                *)

\* Variants with a bug: the jobs of an attached input are not looked at (noticed
\* by ImplementsInputContract), an abandoned reservation is forgotten (noticed
\* by ReservationEnds).
EligibleWhateverTheJob ==
    \/ promotion \in {"failed", "copying"} /\ stale
    \/ promotion = "attached"

EligibleIfFailed ==
    \/ promotion = "failed" /\ stale
    \/ promotion = "attached" /\ job = "aged"

\* The categories stale_promotion, issuance_input and verification_input.
TargetEligible ==
    \/ promotion \in {"failed", "copying"} /\ stale
    \/ promotion = "attached" /\ job = "aged"

CleanTarget ==
    /\ ~targetDeleted
    /\ TargetEligible
    /\ target' = FALSE
    /\ targetDeleted' = TRUE
    /\ UNCHANGED <<upload, finalized, promotion, stale, sourceDeleted, job,
                   source, put, attempts, inFlight, pc, erased>>

\* The object is deleted, then the transaction fails or the process dies.
CleanTargetRollsBack ==
    /\ ~targetDeleted
    /\ TargetEligible
    /\ target' = FALSE
    /\ erased' = TRUE
    /\ UNCHANGED <<rowVars, job, source, put, attempts, inFlight, pc>>

CleanSource ==
    /\ ~sourceDeleted
    /\ upload = "orphaned"
    /\ source' = FALSE
    /\ sourceDeleted' = TRUE
    /\ UNCHANGED <<upload, finalized, promotion, stale, targetDeleted, job,
                   target, put, attempts, inFlight, pc, erased>>

CleanSourceRollsBack ==
    /\ ~sourceDeleted
    /\ upload = "orphaned"
    /\ source' = FALSE
    /\ UNCHANGED <<rowVars, job, target, put, attempts, inFlight, pc, erased>>

\* A variant with a bug: only failed reservations are reconciled (noticed by
\* NothingIsKeptForGood).
ReconcileFailed ==
    /\ targetDeleted
    /\ promotion = "failed"
    /\ target' = FALSE
    /\ UNCHANGED <<rowVars, job, source, put, attempts, inFlight, pc, erased>>

\* _attempt_reconciliation, again and again for every fenced row.
Reconcile ==
    /\ targetDeleted
    /\ target' = FALSE
    /\ UNCHANGED <<rowVars, job, source, put, attempts, inFlight, pc, erased>>

-----------------------------------------------------------------------------
(* Time, and the workers.                                                  *)

Expire ==
    /\ upload = "open"
    /\ upload' = "expired"
    /\ UNCHANGED <<finalized, promotion, stale, sourceDeleted, targetDeleted,
                   job, storageVars, pc, erased>>

\* STALE_COPYING_AGE is longer than UPLOAD_TTL.
BecomeStale ==
    /\ upload # "open"
    /\ promotion \in {"copying", "failed"}
    /\ stale' = TRUE
    /\ UNCHANGED <<upload, finalized, promotion, sourceDeleted, targetDeleted,
                   job, storageVars, pc, erased>>

\* The orphan_upload window, longer than STALE_COPYING_AGE, ends; a PUT is
\* answered before.
BecomeOrphaned ==
    /\ upload = "expired"
    /\ put # "pending"
    /\ promotion = "copying" => stale
    /\ upload' = "orphaned"
    /\ UNCHANGED <<finalized, promotion, stale, sourceDeleted, targetDeleted,
                   job, storageVars, pc, erased>>

JobMoves ==
    /\ \/ job = "active" /\ job' = "terminal"
       \/ job = "terminal" /\ job' = "aged"
    /\ UNCHANGED <<rowVars, storageVars, pc, erased>>

-----------------------------------------------------------------------------
Browser == CreateUpload \/ SendPut \/ PutAnswered \/ CompleteUpload

Create(r) ==
    \/ Reserve(r) \/ SendCopy(r) \/ CopySucceeds(r) \/ CopyFails(r)
    \/ Finalize(r) \/ FinalizeFails(r) \/ Compensate(r)
    \/ MarkFailed(r) \/ MarkNothing(r) \/ ReleaseSource(r) \/ ReleaseDeferred(r)

Cleanup ==
    \/ CleanTarget \/ CleanTargetRollsBack
    \/ CleanSource \/ CleanSourceRollsBack
    \/ Reconcile

Copy == CopyLands \/ CopyLost

Time == Expire \/ BecomeStale \/ BecomeOrphaned

Next ==
    \/ Browser
    \/ Copy
    \/ Time
    \/ JobMoves
    \/ Cleanup
    \/ \E r \in Requests : Create(r) \/ Stop(r)

Spec == Init /\ [][Next]_vars

\* Time passes, storage answers, a live request goes on, jobs end
\* (IssuanceWorker) and age.
Fairness ==
    /\ WF_vars(PutAnswered)
    /\ WF_vars(Copy)
    /\ WF_vars(Expire)
    /\ WF_vars(BecomeStale)
    /\ WF_vars(BecomeOrphaned)
    /\ WF_vars(JobMoves)
    /\ \A r \in Requests : WF_vars(Create(r))

\* cleanup_expired is called again and again, and not every attempt fails.
CleanupFairness == WF_vars(CleanTarget) /\ WF_vars(CleanSource) /\ WF_vars(Reconcile)

FairSpec == Spec /\ Fairness /\ CleanupFairness

\* What the deployment runs: nothing in it calls cleanup_expired.
DeployedNext ==
    \/ Browser
    \/ Copy
    \/ Time
    \/ JobMoves
    \/ \E r \in Requests : Create(r) \/ Stop(r)

DeployedSpec == Init /\ [][DeployedNext]_vars /\ Fairness

-----------------------------------------------------------------------------
(* What must hold.                                                         *)

\* A job that may still be worked on finds its input: no cleanup of a stale
\* reservation, compensation or reconciliation takes it away, however late the
\* request comes to finalize.  The one exception is an hour-old reservation
\* whose cleanup deleted the object and then rolled back.
\* (_copy_then_finalize against _delete_one and _attempt_reconciliation)
ActiveJobHasItsInput == job = "active" => target \/ erased

\* A job exists exactly if the upload was attached, and only before the
\* retention window has the attached input gone.
\* (_copy_then_finalize, _all_jobs_terminal_before)
JobMatchesPromotion ==
    /\ job # "absent" <=> promotion = "attached"
    /\ job \in {"active", "terminal"} => ~targetDeleted

\* The uploaded file is not deleted while a reservation may still need it, and
\* the evidence of its deletion is never wrong.
\* (delete_attached_orphan_source, _delete_one)
SourceKeptUntilUsed ==
    /\ sourceDeleted => ~source
    /\ sourceDeleted => promotion = "attached" \/ upload = "orphaned"

\* An upload request keeps its promise, whatever requests and cleanups meet on
\* its row: one job at most, and a fenced target is never attached.
Input == INSTANCE InputContract WITH
    input <- IF targetDeleted THEN "released"
             ELSE IF promotion \in {"copying", "failed"} THEN "reserved"
             ELSE promotion,
    job <- IF job \in {"terminal", "aged"} THEN "over" ELSE job
ImplementsInputContract == Input!Spec

\* Nothing outlives its retention window: whatever crashes, failures and late
\* copies an upload meets, in the end neither the file nor its copy is stored.
\* (cleanup_expired, with jobs/services.py)
NothingIsKeptForGood == <>[](~source /\ ~target)

\* A reservation that came to nothing is fenced, so that no late request can
\* use it.  (_delete_one, category stale_promotion)
ReservationEnds ==
    promotion \in {"copying", "failed"} ~> promotion = "attached" \/ targetDeleted

-----------------------------------------------------------------------------
(* Why it holds: the parts of an inductive invariant.                      *)

\* A copy that was found is still there, unless cleanup has fenced it.
CopyAtHand ==
    \A r \in Requests : pc[r] = "finalizing" /\ Unchanged => target \/ erased

RowInOrder ==
    /\ promotion # "none" => finalized
    /\ finalized => upload # "absent"
    /\ stale => promotion \in {"copying", "failed"}
    /\ targetDeleted => promotion # "none"
    /\ upload = "absent" => put = "none"
    /\ source \/ finalized => put = "answered"
    /\ inFlight <= attempts
    /\ inFlight > 0 \/ target => promotion # "none"
    /\ \A r \in Requests : pc[r] # "idle" => promotion # "none"
    /\ \A r \in Requests : pc[r] = "releasing" => promotion = "attached"
    /\ upload = "orphaned" => put # "pending"

IInv ==
    /\ TypeOK
    /\ CopyAtHand
    /\ RowInOrder
    /\ ActiveJobHasItsInput
    /\ JobMatchesPromotion
    /\ SourceKeptUntilUsed
=============================================================================
