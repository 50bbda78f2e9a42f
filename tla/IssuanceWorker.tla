--------------------------- MODULE IssuanceWorker ---------------------------
(***************************************************************************)
(* One issuance job from its creation to its terminal status: the worker   *)
(* processes that may claim it, the output object they upload, compensate  *)
(* or recover, and the rows that record who owns that object.              *)
(*                                                                         *)
(* Each database transaction is one action.  Storage calls are actions of  *)
(* their own, because no lock is held across them.  A transaction whose    *)
(* commit was applied while the process saw an exception is the choice     *)
(* reply = "lost"; a transaction that failed outright is one of the        *)
(* "...Fails" actions; a killed process is Stop.                           *)
(***************************************************************************)
EXTENDS Naturals, FiniteSets

CONSTANTS
    Workers,      \* the worker processes
    Tokens,       \* owner tokens (uuid4): one never drawn twice while held
    NoToken,      \* no owner
    MaxFailures   \* bound on the failed deletions of stale recoveries

ASSUME NoTokenAssumption == NoToken \notin Tokens
ASSUME MaxFailuresAssumption == MaxFailures \in Nat

VARIABLES
    \* The job row.
    status, cancelRequested,
    jobError,         \* safe_error_code is set
    aged,             \* updated_at lies before now - stale_age
    \* The DemoIssuanceResult row; outputState = "absent" before it exists.
    outputState, ownerToken, cleanupFailures, errorCode,
    \* Issuance.output_object_key and output_sha256, Document.page_count, the
    \* signed manifest and the receipt, which one transaction writes.
    published,
    \* Object storage: the object at the output key, and the one PUT to it.
    stored, put,
    \* Each process: where it is, the token of its claim, the cleanup_failures
    \* it carries, and why it compensates.
    pc, token, failures, cause

jobVars      == <<status, cancelRequested, jobError, aged>>
evidenceVars == <<outputState, ownerToken, cleanupFailures, errorCode>>
storageVars  == <<stored, put>>
localVars    == <<pc, token, failures, cause>>
vars == <<jobVars, evidenceVars, published, storageVars, localVars>>

JobStatus == {"created", "queued", "processing", "retryable_failed",
              "succeeded", "failed", "dead_lettered", "cancelled"}

Terminal == {"succeeded", "failed", "dead_lettered", "cancelled"}

OutputState == {"absent", "reserved", "uploading", "committed",
                "cleanup_required", "cleaned"}

\* safe_error_code of the evidence: none, DEMO_STALE_RECOVERY_FENCE_CODE, other.
ErrorCode == {"none", "fence", "error"}

\* The PUT: nobody waits any more for one that is "orphaned", which may still
\* take effect ("late") or never does.
PutState == {"none", "pending", "landed", "orphaned", "late"}

\* From the claim of the job to the end of its processing.
Processing == {"claimed", "building", "uploading", "committing",
               "compensating", "deleting", "cleaned", "uncleaned", "failing"}

\* Between the statements of _recover_stale_job for action "cleanup".
Recovering == {"staleAuthorizing", "staleDeleting", "staleAcking", "staleFailing"}

Place == {"down", "recovering", "ready", "tombstoneDeleting"}
            \cup Processing \cup Recovering

Cause == {"upload", "workspace", "commit", "cancelled"}

TypeOK ==
    /\ status \in JobStatus
    /\ cancelRequested \in BOOLEAN
    /\ jobError \in BOOLEAN
    /\ aged \in BOOLEAN
    /\ outputState \in OutputState
    /\ ownerToken \in Tokens \cup {NoToken}
    /\ cleanupFailures \in Nat
    /\ errorCode \in ErrorCode
    /\ published \in BOOLEAN
    /\ stored \in BOOLEAN
    /\ put \in PutState
    /\ pc \in [Workers -> Place]
    /\ token \in [Workers -> Tokens \cup {NoToken}]
    /\ failures \in [Workers -> Nat]
    /\ cause \in [Workers -> Cause]

Init ==
    /\ status = "created"
    /\ cancelRequested = FALSE
    /\ jobError = FALSE
    /\ aged = FALSE
    /\ outputState = "absent"
    /\ ownerToken = NoToken
    /\ cleanupFailures = 0
    /\ errorCode = "none"
    /\ published = FALSE
    /\ stored = FALSE
    /\ put = "none"
    /\ pc = [w \in Workers |-> "down"]
    /\ token = [w \in Workers |-> NoToken]
    /\ failures = [w \in Workers |-> 0]
    /\ cause = [w \in Workers |-> "upload"]

-----------------------------------------------------------------------------
(* Helpers.                                                                *)

Reply == {"ok", "lost"}

Goto(w, place) == pc' = [pc EXCEPT ![w] = place]

\* job.save(update_fields=["status", ..., "updated_at"])
SaveJob(new, error) ==
    /\ status' = new
    /\ jobError' = error
    /\ aged' = FALSE
    /\ UNCHANGED cancelRequested

\* evidence.save() by the row's owner.
SaveEvidence(state, code, count) ==
    /\ outputState' = state
    /\ errorCode' = code
    /\ cleanupFailures' = count
    /\ UNCHANGED ownerToken

\* A variant with a bug: the recovery token is not compared with the owner's
\* (noticed by IInv).
AnyToken == Tokens

FreshToken == Tokens \ ({ownerToken} \cup {token[w] : w \in Workers})

\* _locked_evidence(claim) finds the row of this claim's token.
Owns(w) == outputState # "absent" /\ ownerToken = token[w]

HasOutput == outputState \in {"uploading", "cleanup_required"}

\* A FAILED job whose evidence keeps the fence code: its key is deleted again
\* by every later recovery.
Tombstone ==
    /\ status = "failed"
    /\ outputState = "cleanup_required"
    /\ errorCode = "fence"

Stale ==
    /\ status = "processing"
    /\ outputState # "absent"
    /\ aged

\* Only a failed upload still has a workspace to remove afterwards.
LeftOver(w) == IF cause[w] = "upload" THEN 0..1 ELSE {0}

\* A variant with a bug: the uploaded object is forgotten (noticed by
\* UnpublishedObjectIsOnRecord).
FailedOutputForgotten == IF outputState \in {"reserved", "uploading"} THEN "cleaned"
                         ELSE outputState

\* What _record_failed_job makes of the output.
FailedOutput == IF outputState = "reserved" THEN "cleaned"
                ELSE IF outputState = "uploading" THEN "cleanup_required"
                ELSE outputState

-----------------------------------------------------------------------------
(* Variants with a bug.  No specification uses them: each shows that the    *)
(* property named beside it notices the bug.                                *)

\* PublishedOutputIsStored: the owner may clean up whatever the outcome was.
AuthorizeByOwner(w) ==
    /\ pc[w] = "compensating"
    /\ Owns(w)
    /\ Goto(w, "deleting")
    /\ UNCHANGED <<jobVars, evidenceVars, published, storageVars, token,
                   failures, cause>>

\* OneVerdict: a failure is recorded whatever the status is by now.
RecordFailureOfAnyJob(w) ==
    /\ pc[w] = "failing"
    /\ Owns(w)
    /\ SaveJob("failed", TRUE)
    /\ SaveEvidence(FailedOutput, "error", failures[w])
    /\ Goto(w, "ready")
    /\ UNCHANGED <<published, storageVars, token, failures, cause>>

\* FencedOwnerNeverWrites: the owner is not compared again after the deletion.
PersistAnyOwner(w) ==
    /\ pc[w] \in {"cleaned", "uncleaned"}
    /\ HasOutput
    /\ SaveEvidence(IF pc[w] = "cleaned" THEN "cleaned" ELSE "cleanup_required",
                    "error", failures[w])
    /\ Goto(w, "failing")
    /\ UNCHANGED <<jobVars, published, storageVars, token, failures, cause>>

\* TombstoneIsPermanent: the fence is checked, its owner and the status not.
AuthorizedByFence(w) ==
    /\ outputState = "cleanup_required"
    /\ errorCode = "fence"
    /\ cleanupFailures = failures[w]
    /\ ~published

\* ImplementsJobLifecycle: the commit does not look at the cancellation.
CommitDespiteCancel(w) ==
    /\ pc[w] = "committing"
    /\ status = "processing"
    /\ Owns(w)
    /\ outputState = "uploading"
    /\ published' = TRUE
    /\ SaveEvidence("committed", "none", 0)
    /\ SaveJob("succeeded", FALSE)
    /\ Goto(w, "ready")
    /\ UNCHANGED <<storageVars, token, failures, cause>>

\* ClaimedJobSettlesWithRestarts: an output whose deletion failed once is
\* not recovered again.
ClaimStaleUploadOnly(w) ==
    /\ pc[w] = "recovering"
    /\ Stale
    /\ outputState = "uploading"
    /\ \E t \in FreshToken :
         /\ ownerToken' = t
         /\ token' = [token EXCEPT ![w] = t]
    /\ outputState' = "cleanup_required"
    /\ errorCode' = "fence"
    /\ failures' = [failures EXCEPT ![w] = cleanupFailures]
    /\ Goto(w, "staleAuthorizing")
    /\ UNCHANGED <<jobVars, cleanupFailures, published, storageVars, cause>>

\* FencedOutputIsRemovedForGood: the acknowledgement lifts the tombstone.
AcknowledgeWithoutTombstone(w) ==
    /\ pc[w] = "staleAcking"
    /\ SaveEvidence("cleaned", "error", cleanupFailures)
    /\ SaveJob("failed", TRUE)
    /\ Goto(w, "ready")
    /\ UNCHANGED <<published, storageVars, token, failures, cause>>

-----------------------------------------------------------------------------
(* The API and the environment.                                            *)

RequestCancel ==
    /\ ~cancelRequested
    /\ status \notin Terminal
    /\ cancelRequested' = TRUE
    /\ status' = IF status = "processing" THEN status ELSE "cancelled"
    /\ aged' = FALSE
    /\ UNCHANGED <<jobError, evidenceVars, published, storageVars, localVars>>

\* The job's updated_at falls behind now - stale_age.
AgePasses ==
    /\ status = "processing"
    /\ ~aged
    /\ aged' = TRUE
    /\ UNCHANGED <<status, cancelRequested, jobError, evidenceVars, published,
                   storageVars, localVars>>

\* The object store applies the PUT, whether or not somebody still waits.
PutLands ==
    /\ put \in {"pending", "orphaned"}
    /\ put' = IF put = "pending" THEN "landed" ELSE "late"
    /\ stored' = TRUE
    /\ UNCHANGED <<jobVars, evidenceVars, published, localVars>>

Abandoned == IF put = "pending" THEN "orphaned" ELSE put

Start(w) ==
    /\ pc[w] = "down"
    /\ Goto(w, "recovering")
    /\ UNCHANGED <<jobVars, evidenceVars, published, storageVars, token,
                   failures, cause>>

\* The process is killed, is stopped by a rollout, or leaves on an exception
\* of its start-up recovery.  Whatever it held in memory is gone.
Stop(w) ==
    /\ pc[w] # "down"
    /\ Goto(w, "down")
    /\ put' = IF pc[w] = "uploading" THEN Abandoned ELSE put
    /\ UNCHANGED <<jobVars, evidenceVars, published, stored, token, failures,
                   cause>>

-----------------------------------------------------------------------------
(* The loop of run_integrity_worker: stage, then claim, then process.      *)

StageNextCreatedJob(w) ==
    /\ pc[w] = "ready"
    /\ status = "created"
    /\ SaveJob("queued", jobError)
    /\ UNCHANGED <<evidenceVars, published, storageVars, localVars>>

\* claim_next_job on a job whose cancellation, deadline or age ends it.
ClaimRejects(w) ==
    /\ pc[w] = "ready"
    /\ status = "queued"
    /\ IF cancelRequested THEN SaveJob("cancelled", jobError)
                          ELSE SaveJob("failed", TRUE)
    /\ UNCHANGED <<evidenceVars, published, storageVars, localVars>>

ClaimNextJob(w) ==
    /\ pc[w] = "ready"
    /\ status = "queued"
    /\ ~cancelRequested
    /\ SaveJob("processing", jobError)
    /\ \E t \in FreshToken, reply \in Reply :
         /\ ownerToken' = t
         /\ token' = [token EXCEPT ![w] = t]
         /\ Goto(w, IF reply = "ok" THEN "claimed" ELSE "ready")
    /\ outputState' = "reserved"
    /\ errorCode' = "none"
    /\ cleanupFailures' = 0
    /\ UNCHANGED <<published, storageVars, failures, cause>>

(* _acquire_processing_claim.                                              *)
AcquireCancelled(w) ==
    /\ pc[w] = "claimed"
    /\ status = "processing"
    /\ cancelRequested
    /\ SaveJob("cancelled", jobError)
    /\ Goto(w, "ready")
    /\ UNCHANGED <<evidenceVars, published, storageVars, token, failures, cause>>

Acquire(w) ==
    /\ pc[w] = "claimed"
    /\ status = "processing"
    /\ ~cancelRequested
    /\ Owns(w)
    /\ outputState = "reserved"
    /\ Goto(w, "building")
    /\ UNCHANGED <<jobVars, evidenceVars, published, storageVars, token,
                   failures, cause>>

\* The job left PROCESSING, or the evidence is no longer this claim's
\* reservation, or the transaction failed; the loop goes on.
AcquireFails(w) ==
    /\ pc[w] = "claimed"
    /\ Goto(w, "ready")
    /\ UNCHANGED <<jobVars, evidenceVars, published, storageVars, token,
                   failures, cause>>

\* Download, limits, rendering, encoding or a transaction raised; removing
\* the workspace may fail too and counts as a cleanup failure.
BuildFails(w) ==
    /\ pc[w] = "building"
    /\ \E n \in 0..1 : failures' = [failures EXCEPT ![w] = n]
    /\ Goto(w, "failing")
    /\ UNCHANGED <<jobVars, evidenceVars, published, storageVars, token, cause>>

(* _begin_output_upload; when it refuses, that is BuildFails.              *)
MayUpload(w) ==
    /\ pc[w] = "building"
    /\ status = "processing"
    /\ Owns(w)
    /\ outputState = "reserved"

BeginCancelled(w) ==
    /\ MayUpload(w)
    /\ cancelRequested
    /\ SaveJob("cancelled", jobError)
    /\ SaveEvidence("cleaned", errorCode, cleanupFailures)
    /\ Goto(w, "ready")
    /\ UNCHANGED <<published, storageVars, token, failures, cause>>

BeginOutputUpload(w) ==
    /\ MayUpload(w)
    /\ ~cancelRequested
    /\ SaveEvidence("uploading", errorCode, cleanupFailures)
    /\ \/ /\ Goto(w, "uploading")
          /\ put' = "pending"
          /\ UNCHANGED failures
       \/ /\ Goto(w, "failing")           \* the reply to the commit was lost
          /\ \E n \in 0..1 : failures' = [failures EXCEPT ![w] = n]
          /\ UNCHANGED put
    /\ UNCHANGED <<jobVars, published, stored, token, cause>>

-----------------------------------------------------------------------------
(* The upload and the commit.                                              *)

UploadSucceeds(w) ==
    /\ pc[w] = "uploading"
    /\ put = "landed"
    /\ Goto(w, "committing")
    /\ UNCHANGED <<jobVars, evidenceVars, published, storageVars, token,
                   failures, cause>>

Compensate(w, why, count) ==
    /\ Goto(w, "compensating")
    /\ cause' = [cause EXCEPT ![w] = why]
    /\ failures' = [failures EXCEPT ![w] = count]
    /\ UNCHANGED token

\* The upload returned but the workspace could not be removed.
WorkspaceCleanupFails(w) ==
    /\ pc[w] = "uploading"
    /\ put = "landed"
    /\ Compensate(w, "workspace", 1)
    /\ UNCHANGED <<jobVars, evidenceVars, published, storageVars>>

\* An error or a timeout of the upload says nothing about its effect.
UploadFails(w) ==
    /\ pc[w] = "uploading"
    /\ put' = Abandoned
    /\ Compensate(w, "upload", 0)
    /\ UNCHANGED <<jobVars, evidenceVars, published, stored>>

CommitCancelled(w) ==
    /\ pc[w] = "committing"
    /\ status = "processing"
    /\ Owns(w)
    /\ cancelRequested
    /\ SaveJob("cancelled", jobError)
    /\ \E why \in {"cancelled", "commit"} : Compensate(w, why, 0)
    /\ UNCHANGED <<evidenceVars, published, storageVars>>

CommitIssuanceResult(w) ==
    /\ pc[w] = "committing"
    /\ status = "processing"
    /\ Owns(w)
    /\ ~cancelRequested
    /\ outputState = "uploading"
    /\ ~published
    /\ published' = TRUE
    /\ SaveEvidence("committed", "none", 0)
    /\ SaveJob("succeeded", FALSE)
    /\ \/ /\ Goto(w, "ready")
          /\ UNCHANGED <<token, failures, cause>>
       \/ Compensate(w, "commit", 0)      \* the reply to the commit was lost
    /\ UNCHANGED storageVars

\* The binding, the owner, the status or the signing key was refused, or the
\* transaction failed.
CommitFails(w) ==
    /\ pc[w] = "committing"
    /\ Compensate(w, "commit", 0)
    /\ UNCHANGED <<jobVars, evidenceVars, published, storageVars>>

-----------------------------------------------------------------------------
(* _compensate_owned_output: authorize, delete, persist.                   *)

AuthorizeOutputCleanup(w) ==
    /\ pc[w] = "compensating"
    /\ Owns(w)
    /\ HasOutput
    /\ ~published
    /\ status # "succeeded"
    /\ Goto(w, "deleting")
    /\ UNCHANGED <<jobVars, evidenceVars, published, storageVars, token,
                   failures, cause>>

\* DEMO_OUTPUT_OWNERSHIP_INVALID, or the transaction failed: the exception
\* that leaves carries no cleanup failure but the workspace's.
CleanupRefused(w) ==
    /\ pc[w] \in {"compensating", "cleaned", "uncleaned"}
    /\ Goto(w, "failing")
    /\ \E n \in LeftOver(w) : failures' = [failures EXCEPT ![w] = n]
    /\ UNCHANGED <<jobVars, evidenceVars, published, storageVars, token, cause>>

DeleteOutput(w) ==
    /\ pc[w] = "deleting"
    /\ stored' = FALSE
    /\ Goto(w, "cleaned")
    /\ UNCHANGED <<jobVars, evidenceVars, published, put, token, failures, cause>>

\* An error of the deletion says nothing about its effect.
DeleteOutputFails(w) ==
    /\ pc[w] = "deleting"
    /\ stored' = FALSE \/ UNCHANGED stored
    /\ failures' = [failures EXCEPT ![w] = @ + 1]
    /\ Goto(w, "uncleaned")
    /\ UNCHANGED <<jobVars, evidenceVars, published, put, token, cause>>

\* A cancelled job is left as it is; any other outcome goes on to
\* _record_failed_job, as does a lost reply.
PersistOutputCleanup(w) ==
    /\ pc[w] \in {"cleaned", "uncleaned"}
    /\ Owns(w)
    /\ HasOutput
    /\ SaveEvidence(IF pc[w] = "cleaned" THEN "cleaned" ELSE "cleanup_required",
                    "error", failures[w])
    /\ IF status = "cancelled" THEN SaveJob(status, failures[w] > 0)
                               ELSE UNCHANGED jobVars
    /\ \E n \in LeftOver(w) :
         \/ /\ Goto(w, IF cause[w] = "cancelled" THEN "ready" ELSE "failing")
            /\ failures' = [failures EXCEPT ![w] = @ + n]
         \/ /\ Goto(w, "failing")         \* the reply to the commit was lost
            /\ failures' = [failures EXCEPT ![w] = n]
    /\ UNCHANGED <<published, storageVars, token, cause>>

(* _record_failed_job.  The model's clean() accepts CLEANUP_REQUIRED only  *)
(* with a cleanup failure to show (the code is not the fence), so a        *)
(* failure without one is rolled back and the job stays as it was.         *)
RecordFailedJob(w) ==
    /\ pc[w] = "failing"
    /\ Owns(w)
    /\ status = "processing"
    /\ FailedOutput = "cleanup_required" => failures[w] > 0
    /\ SaveJob("failed", TRUE)
    /\ SaveEvidence(FailedOutput, "error", failures[w])
    /\ Goto(w, "ready")
    /\ UNCHANGED <<published, storageVars, token, failures, cause>>

\* A fenced or no longer processing claim returns without writing; a refused
\* save or a failed transaction is logged.  Either way the loop goes on.
RecordNothing(w) ==
    /\ pc[w] = "failing"
    /\ Goto(w, "ready")
    /\ UNCHANGED <<jobVars, evidenceVars, published, storageVars, token,
                   failures, cause>>

-----------------------------------------------------------------------------
(* reconcile_stale_jobs, which a process runs once, when it starts.        *)

NothingStale(w) ==
    /\ pc[w] = "recovering"
    /\ ~Stale
    /\ ~Tombstone
    /\ Goto(w, "ready")
    /\ UNCHANGED <<jobVars, evidenceVars, published, storageVars, token,
                   failures, cause>>

\* Nothing was uploaded, or its deletion was already recorded, or the result
\* was committed.
SettleStale(w) ==
    /\ pc[w] = "recovering"
    /\ Stale
    /\ outputState \in {"reserved", "cleaned", "committed"}
    /\ IF outputState = "committed"
       THEN /\ IF published THEN SaveJob("succeeded", FALSE)
                            ELSE SaveJob("failed", TRUE)
            /\ UNCHANGED evidenceVars
       ELSE /\ SaveJob("failed", TRUE)
            /\ SaveEvidence("cleaned", "error", 0)
    /\ Goto(w, "ready")
    /\ UNCHANGED <<published, storageVars, token, failures, cause>>

\* _claim_stale_output_recovery: a new owner fences the old one.
ClaimStaleOutput(w) ==
    /\ pc[w] = "recovering"
    /\ Stale
    /\ HasOutput
    /\ ~published
    /\ \E t \in FreshToken :
         /\ ownerToken' = t
         /\ token' = [token EXCEPT ![w] = t]
    /\ outputState' = "cleanup_required"
    /\ errorCode' = "fence"
    /\ failures' = [failures EXCEPT ![w] = cleanupFailures]
    /\ Goto(w, "staleAuthorizing")
    /\ UNCHANGED <<jobVars, cleanupFailures, published, storageVars, cause>>

\* The condition of _authorize_stale_output_delete, which every later
\* transaction of the recovery repeats.
StaleDeleteAuthorized(w) ==
    /\ Owns(w)
    /\ status = "processing"
    /\ outputState = "cleanup_required"
    /\ errorCode = "fence"
    /\ cleanupFailures = failures[w]
    /\ ~published

AuthorizeStaleDelete(w) ==
    /\ pc[w] = "staleAuthorizing"
    /\ StaleDeleteAuthorized(w)
    /\ Goto(w, "staleDeleting")
    /\ UNCHANGED <<jobVars, evidenceVars, published, storageVars, token,
                   failures, cause>>

DeleteStaleOutput(w) ==
    /\ pc[w] = "staleDeleting"
    /\ stored' = FALSE
    /\ Goto(w, "staleAcking")
    /\ UNCHANGED <<jobVars, evidenceVars, published, put, token, failures, cause>>

DeleteStaleOutputFails(w) ==
    /\ pc[w] = "staleDeleting"
    /\ cleanupFailures < MaxFailures
    /\ stored' = FALSE \/ UNCHANGED stored
    /\ Goto(w, "staleFailing")
    /\ UNCHANGED <<jobVars, evidenceVars, published, put, token, failures, cause>>

\* The fence stays as a tombstone: the fenced owner's PUT may still land.
AcknowledgeStaleDelete(w) ==
    /\ pc[w] = "staleAcking"
    /\ StaleDeleteAuthorized(w)
    /\ SaveEvidence("cleanup_required", "fence", cleanupFailures)
    /\ SaveJob("failed", TRUE)
    /\ Goto(w, "ready")
    /\ UNCHANGED <<published, storageVars, token, failures, cause>>

RecordStaleDeleteFailure(w) ==
    /\ pc[w] = "staleFailing"
    /\ StaleDeleteAuthorized(w)
    /\ SaveEvidence(outputState, "error", failures[w] + 1)
    /\ Goto(w, "ready")
    /\ UNCHANGED <<jobVars, published, storageVars, token, failures, cause>>

\* Another process fenced this one: DemoIssuanceError leaves the command.
RecoveryRefused(w) ==
    /\ pc[w] \in Recovering \ {"staleDeleting"}
    /\ ~StaleDeleteAuthorized(w)
    /\ Goto(w, "down")
    /\ UNCHANGED <<jobVars, evidenceVars, published, storageVars, token,
                   failures, cause>>

RecoverTombstone(w) ==
    /\ pc[w] = "recovering"
    /\ Tombstone
    /\ Goto(w, "tombstoneDeleting")
    /\ UNCHANGED <<jobVars, evidenceVars, published, storageVars, token,
                   failures, cause>>

DeleteTombstoneOutput(w) ==
    /\ pc[w] = "tombstoneDeleting"
    /\ stored' = FALSE
    /\ Goto(w, "ready")
    /\ UNCHANGED <<jobVars, evidenceVars, published, put, token, failures, cause>>

DeleteTombstoneFails(w) ==
    /\ pc[w] = "tombstoneDeleting"
    /\ stored' = FALSE \/ UNCHANGED stored
    /\ Goto(w, "ready")
    /\ UNCHANGED <<jobVars, evidenceVars, published, put, token, failures, cause>>

-----------------------------------------------------------------------------
Process(w) ==
    \/ AcquireCancelled(w) \/ Acquire(w) \/ AcquireFails(w)
    \/ BuildFails(w) \/ BeginCancelled(w) \/ BeginOutputUpload(w)
    \/ UploadSucceeds(w) \/ WorkspaceCleanupFails(w) \/ UploadFails(w)
    \/ CommitCancelled(w) \/ CommitIssuanceResult(w) \/ CommitFails(w)
    \/ AuthorizeOutputCleanup(w) \/ CleanupRefused(w)
    \/ DeleteOutput(w) \/ DeleteOutputFails(w) \/ PersistOutputCleanup(w)
    \/ RecordFailedJob(w) \/ RecordNothing(w)

Recover(w) ==
    \/ NothingStale(w) \/ SettleStale(w) \/ ClaimStaleOutput(w)
    \/ AuthorizeStaleDelete(w) \/ DeleteStaleOutput(w) \/ DeleteStaleOutputFails(w)
    \/ AcknowledgeStaleDelete(w) \/ RecordStaleDeleteFailure(w)
    \/ RecoveryRefused(w)
    \/ RecoverTombstone(w) \/ DeleteTombstoneOutput(w) \/ DeleteTombstoneFails(w)

Loop(w) == StageNextCreatedJob(w) \/ ClaimRejects(w) \/ ClaimNextJob(w)

Next ==
    \/ RequestCancel
    \/ AgePasses
    \/ PutLands
    \/ \E w \in Workers : Start(w) \/ Stop(w) \/ Loop(w) \/ Process(w) \/ Recover(w)

Spec == Init /\ [][Next]_vars

\* A process that is up keeps running, one that is down is restarted by its
\* supervisor (restart: unless-stopped), storage answers, time passes.  Nothing
\* obliges a process to stop.  No crash hits the same step of a recovery, and
\* no storage error the same deletion, for ever.
Fairness ==
    /\ WF_vars(AgePasses)
    /\ WF_vars(PutLands)
    /\ \A w \in Workers :
         /\ WF_vars(Start(w))
         /\ WF_vars(Loop(w))
         /\ WF_vars(Process(w))
         /\ SF_vars(NothingStale(w))
         /\ SF_vars(SettleStale(w))
         /\ SF_vars(ClaimStaleOutput(w))
         /\ SF_vars(AuthorizeStaleDelete(w))
         /\ SF_vars(DeleteStaleOutput(w))
         /\ SF_vars(AcknowledgeStaleDelete(w))
         /\ SF_vars(RecoverTombstone(w))
         /\ SF_vars(DeleteTombstoneOutput(w))

FairSpec == Spec /\ Fairness

-----------------------------------------------------------------------------
(* What must hold.                                                         *)

\* The output a requester was promised is there: no compensation after a lost
\* commit reply, no stale recovery and no tombstone ever deletes it.
\* (_commit_issuance_result against every caller of storage.delete)
PublishedOutputIsStored == published => stored

\* Job, evidence and issuance tell the same outcome, whichever process wrote
\* last; so recovery never meets a PROCESSING job with committed evidence.
\* (_commit_issuance_result, _record_failed_job, _prepare_stale_recovery)
OneVerdict ==
    /\ published <=> status = "succeeded"
    /\ published <=> outputState = "committed"

\* An object nobody may fetch is one whose evidence still says that it may
\* exist, unless the PUT took effect after its sender had given up: CLEANED is
\* never recorded over an object that was there.
\* (_persist_output_cleanup, _record_failed_job, _begin_output_upload)
UnpublishedObjectIsOnRecord ==
    stored /\ ~published => HasOutput \/ put = "late"

\* A job that failed left no evidence claiming work in progress.
\* (_record_failed_job, _prepare_stale_recovery, _acknowledge_stale_output_delete)
FailedJobHasSettledEvidence ==
    status = "failed" => outputState \in {"absent", "cleaned", "cleanup_required"}

\* A process in its start-up recovery takes a step.
RecoveryMoves ==
    \E w \in Workers : pc[w] \in Recovering \cup {"recovering"} /\ pc'[w] # pc[w]

\* Once a recovery has fenced the output, the evidence is written by
\* recoveries only: a slow owner that wakes up changes nothing.
\* (_claim_stale_output_recovery, _locked_evidence)
FencedOwnerNeverWrites ==
    [][errorCode = "fence" /\ evidenceVars' # evidenceVars => RecoveryMoves]_vars

\* The tombstone of an acknowledged recovery is never lifted, by whichever
\* process comes late.  (_acknowledge_stale_output_delete)
TombstoneIsPermanent == [][Tombstone => Tombstone']_vars

\* issuance_result_evidence: the evidence, the job and the issuance must all say
\* that there is a result.
IssuanceResultEvidence ==
    /\ outputState = "committed"
    /\ status = "succeeded"
    /\ published

\* IssuanceResultView.get presigns a GET of the output, which storage answers
\* if it holds the object.
ResultIsServed == IssuanceResultEvidence /\ stored

\* The worker implements the job's promise; a delivered output is one that the
\* API offers and storage serves.
Job == INSTANCE JobLifecycle WITH delivered <- ResultIsServed
ImplementsJobLifecycle == Job!Spec

\* Some process keeps being restarted (rollouts, crashes).
RestartsGoOn == \E w \in Workers : []<>(pc[w] = "down")

\* As long as restarts go on, a claimed job reaches a terminal status, whatever
\* crashes, lost replies and storage errors it meets.  (reconcile_stale_jobs)
ClaimedJobSettlesWithRestarts ==
    RestartsGoOn => (status = "processing" ~> status \in Terminal)

\* As long as restarts go on, the object of a fenced job is removed for good,
\* even one that a PUT in flight creates after the recovery deleted it.
\* (_recover_stale_job, action "tombstone")
FencedOutputIsRemovedForGood ==
    RestartsGoOn => [](errorCode = "fence" => <>[](~stored))

\* A claimed job reaches a terminal status without waiting for a second
\* restart, as the test of reconcile_stale_jobs calls it: "crash immediately
\* after claim has durable bounded recovery".
ClaimedJobSettles == status = "processing" ~> status \in Terminal

-----------------------------------------------------------------------------
(* Why it holds: the parts of an inductive invariant.                      *)

\* The job is claimed once, so at most one process ever works on its output.
SingleOwner ==
    /\ \A v, w \in Workers : pc[v] \in Processing /\ pc[w] \in Processing => v = w
    /\ \A w \in Workers : pc[w] \in Processing =>
          status \notin {"created", "queued"} /\ outputState # "absent"
    /\ status \in {"created", "queued"} => outputState = "absent"
    /\ status \notin {"retryable_failed", "dead_lettered"}

\* While a recovery is under way or has left its fence, the claim that
\* uploaded does not own the evidence.
RecoveryFences ==
    errorCode = "fence" \/ (\E v \in Workers : pc[v] \in Recovering \cup {"tombstoneDeleting"})
    => /\ outputState = "cleanup_required"
       /\ \A w \in Workers : pc[w] \in Processing => token[w] # ownerToken

CancellationIsSeen ==
    cancelRequested => status \notin {"created", "queued", "succeeded"}

\* The owner that may still commit holds an object that nobody deletes.
OutputAtHand ==
    /\ \A w \in Workers : pc[w] = "deleting" => ~published
    /\ \A w \in Workers : pc[w] = "uploading" => put \in {"pending", "landed"} /\ HasOutput
    /\ \A w \in Workers : \/ pc[w] = "uploading" /\ put = "landed"
                          \/ pc[w] = "committing"
                          => (outputState = "uploading" => stored)

\* Where an object can come from.
PutOnRecord ==
    /\ put = "pending" => \E w \in Workers : pc[w] = "uploading"
    /\ put = "none" => ~stored
    /\ outputState \in {"absent", "reserved"} => put = "none"
    /\ \A w \in Workers : pc[w] = "cleaned" /\ stored => put = "late"

IInv ==
    /\ TypeOK
    /\ SingleOwner
    /\ RecoveryFences
    /\ CancellationIsSeen
    /\ OutputAtHand
    /\ PutOnRecord
    /\ PublishedOutputIsStored
    /\ OneVerdict
    /\ UnpublishedObjectIsOnRecord
    /\ FailedJobHasSettledEvidence
=============================================================================
