------------------------- MODULE VerificationWorker -------------------------
(***************************************************************************)
(* One verification job: a worker process claims it, downloads the suspect *)
(* file, inspects it, and commits a verdict that relates it to what the    *)
(* organization has issued; or the job is cancelled, fails, or is settled  *)
(* by a recovery.                                                          *)
(*                                                                         *)
(* Nothing is uploaded, so unlike an issuance a stale verification is      *)
(* settled in one transaction, under the token of the owner it replaces:   *)
(* what keeps a slow owner and a recovery apart is the job's status alone. *)
(***************************************************************************)
EXTENDS Naturals

CONSTANTS
    Workers,        \* the worker processes
    Tokens,         \* owner tokens (uuid4)
    NoToken,        \* no owner
    PageCounts,     \* the page counts that are tried
    MaxPdfPages,    \* MAX_PDF_PAGES of config/limits.py (50)
    EvidencePages,  \* DemoVerificationResult.clean: analyzed_page_count <= 5
    SourcePages,    \* DemoIssuanceResult.page_count: MaxValueValidator(5)
    ExactOnly       \* release mode with SPLITBIND_FINGERPRINT_ENABLED off

ASSUME VerificationTokens == NoToken \notin Tokens
ASSUME VerificationPages ==
    /\ PageCounts \subseteq Nat \ {0}
    /\ {MaxPdfPages, EvidencePages, SourcePages} \subseteq Nat
ASSUME VerificationMode == ExactOnly \in BOOLEAN

VARIABLES
    \* The job row.
    status, cancelRequested,
    jobError,         \* safe_error_code is set
    aged,             \* updated_at lies before now - stale_age
    \* The DemoVerificationResult row; resultState = "absent" before it exists.
    resultState, ownerToken,
    verdict,          \* Verification.status
    receipt,          \* the JobResultReceipt exists
    \* The suspect file; the retained issuance it leads to, if any, and what
    \* its signed manifest is worth.
    suspect, source, manifest,
    \* Each process: where it is and the token of its claim.
    pc, token

jobVars    == <<status, cancelRequested, jobError, aged>>
resultVars == <<resultState, ownerToken, verdict, receipt>>
fileVars   == <<suspect, source, manifest>>
localVars  == <<pc, token>>
vars == <<jobVars, resultVars, fileVars, localVars>>

JobStatus == {"created", "queued", "processing", "retryable_failed",
              "succeeded", "failed", "dead_lettered", "cancelled"}

Terminal == {"succeeded", "failed", "dead_lettered", "cancelled"}

ResultState == {"absent", "reserved", "committed", "failed", "cancelled"}

Conclusion == {"verified_intact", "source_identified_modified",
               "partial_evidence", "no_watermark", "invalid_manifest"}

\* pages = 0: no readable PDF, PNG or JPEG.  hash: how many issuances have the
\* file's SHA-256, two standing for more.  decode: what the fingerprint says,
\* that of a retained issuance, of none, of a part or of nothing.
Suspect == [pages : PageCounts \cup {0}, hash : 0..2,
            decode : {"retained", "unknown", "partial", "nothing"}]

\* sound: its job, evidence and receipt say that it was issued.
Source == [pages : PageCounts, sound : BOOLEAN]

Manifest == {"missing", "trusted", "untrusted"}

\* From the claim of the job to the end of its processing.
Processing == {"claimed", "acquired", "downloaded", "committing", "failing"}

Place == {"down", "recovering", "ready"} \cup Processing

TypeOK ==
    /\ status \in JobStatus
    /\ cancelRequested \in BOOLEAN
    /\ jobError \in BOOLEAN
    /\ aged \in BOOLEAN
    /\ resultState \in ResultState
    /\ ownerToken \in Tokens \cup {NoToken}
    /\ verdict \in Conclusion \cup {"none", "processing_failed"}
    /\ receipt \in BOOLEAN
    /\ suspect \in Suspect
    /\ source \in Source
    /\ manifest \in Manifest
    /\ pc \in [Workers -> Place]
    /\ token \in [Workers -> Tokens \cup {NoToken}]

\* An output hash is written by the commit of an issuance only, so the source
\* of a file found by it is sound and has the file's pages.
Init ==
    /\ status = "created"
    /\ cancelRequested = FALSE
    /\ jobError = FALSE
    /\ aged = FALSE
    /\ resultState = "absent"
    /\ ownerToken = NoToken
    /\ verdict = "none"
    /\ receipt = FALSE
    /\ suspect \in Suspect
    /\ source \in Source
    /\ manifest \in Manifest
    /\ suspect.hash > 0 => source.sound /\ suspect.pages = source.pages
    /\ pc = [w \in Workers |-> "down"]
    /\ token = [w \in Workers |-> NoToken]

-----------------------------------------------------------------------------
(* Helpers.                                                                *)

Reply == {"ok", "lost"}

Goto(w, place) == pc' = [pc EXCEPT ![w] = place]

SaveJob(new, error) ==
    /\ status' = new
    /\ jobError' = error
    /\ aged' = FALSE
    /\ UNCHANGED cancelRequested

\* DemoVerificationResult.save: only a reserved row can be settled, and its
\* owner never changes.
SettleResult(new) ==
    /\ resultState = "reserved"
    /\ resultState' = new
    /\ UNCHANGED ownerToken

FreshToken == Tokens \ ({ownerToken} \cup {token[w] : w \in Workers})

\* _locked_result(claim) finds the row of this claim's token.
Owns(w) == resultState # "absent" /\ ownerToken = token[w]

Stale ==
    /\ status = "processing"
    /\ resultState # "absent"
    /\ aged

\* _cancel_locked: the verification itself keeps no verdict.
CancelLocked ==
    /\ SaveJob("cancelled", FALSE)
    /\ SettleResult("cancelled")
    /\ UNCHANGED <<verdict, receipt>>

\* _record_failed_job once its checks have passed.
FailLocked ==
    /\ SaveJob("failed", TRUE)
    /\ SettleResult("failed")
    /\ verdict' = "processing_failed"
    /\ UNCHANGED receipt

-----------------------------------------------------------------------------
(* The verdict.                                                            *)

\* _validate_retained_source_locked, which validates the issuance's evidence
\* in full, its page_count included.
EvidenceValid == source.sound /\ source.pages <= SourcePages

SignatureAccepted ==
    \/ manifest = "trusted"
    \/ manifest = "missing" /\ ~ExactOnly

ByHash == IF EvidenceValid /\ SignatureAccepted THEN "verified_intact"
                                                ELSE "invalid_manifest"

ByFingerprint ==
    IF suspect.decode = "retained"
    THEN IF EvidenceValid /\ manifest # "untrusted"
         THEN "source_identified_modified" ELSE "invalid_manifest"
    ELSE IF suspect.decode = "nothing" THEN "no_watermark"
                                       ELSE "partial_evidence"

WithoutHash == IF ExactOnly THEN "no_watermark" ELSE ByFingerprint

\* A variant with a bug: the fingerprint is asked first (noticed by
\* DecoderNeverContradictsHash).
ResolveFingerprintFirst ==
    IF suspect.hash > 0 /\ suspect.decode = "nothing"
    THEN IF suspect.hash = 1 THEN ByHash ELSE "partial_evidence"
    ELSE WithoutHash

\* _resolve_source_locked: the exact hash decides first.
Resolve ==
    IF suspect.hash = 0 THEN WithoutHash
    ELSE IF suspect.hash = 1 THEN ByHash ELSE "partial_evidence"

-----------------------------------------------------------------------------
(* Variants with a bug, used by no specification.                          *)

\* VerdictIsFinal: the commit is no transaction, the verdict is saved first.
CommitFailsAfterTheVerdict(w) ==
    /\ pc[w] = "committing"
    /\ status = "processing"
    /\ Owns(w)
    /\ ~cancelRequested
    /\ verdict' = Resolve
    /\ Goto(w, "failing")
    /\ UNCHANGED <<jobVars, resultState, ownerToken, receipt, fileVars, token>>

\* ImplementsJobLifecycle: the commit does not look at the cancellation again.
CommitDespiteCancel(w) ==
    /\ pc[w] = "committing"
    /\ status = "processing"
    /\ Owns(w)
    /\ suspect.pages <= EvidencePages
    /\ verdict' = Resolve
    /\ receipt' = TRUE
    /\ SettleResult("committed")
    /\ SaveJob("succeeded", FALSE)
    /\ Goto(w, "ready")
    /\ UNCHANGED <<fileVars, token>>

\* ClaimedVerificationSettles: recovery leaves reservations to their owner.
SettleStaleCommitted(w) ==
    /\ pc[w] = "recovering"
    /\ Stale
    /\ resultState = "committed"
    /\ SaveJob("succeeded", FALSE)
    /\ Goto(w, "ready")
    /\ UNCHANGED <<resultVars, fileVars, token>>

\* IInv: recovery gives the stale job back to the queue.
SettleStaleByRequeue(w) ==
    /\ pc[w] = "recovering"
    /\ Stale
    /\ SaveJob("queued", FALSE)
    /\ Goto(w, "ready")
    /\ UNCHANGED <<resultVars, fileVars, token>>

-----------------------------------------------------------------------------
(* The API and the environment.                                            *)

RequestCancel ==
    /\ ~cancelRequested
    /\ status \notin Terminal
    /\ cancelRequested' = TRUE
    /\ status' = IF status = "processing" THEN status ELSE "cancelled"
    /\ aged' = FALSE
    /\ UNCHANGED <<jobError, resultVars, fileVars, localVars>>

\* The job's updated_at falls behind now - stale_age.
AgePasses ==
    /\ status = "processing"
    /\ ~aged
    /\ aged' = TRUE
    /\ UNCHANGED <<status, cancelRequested, jobError, resultVars, fileVars,
                   localVars>>

\* The signing key of the source is revoked or expires.
Distrust ==
    /\ manifest = "trusted"
    /\ manifest' = "untrusted"
    /\ UNCHANGED <<jobVars, resultVars, suspect, source, localVars>>

Start(w) ==
    /\ pc[w] = "down"
    /\ Goto(w, "recovering")
    /\ UNCHANGED <<jobVars, resultVars, fileVars, token>>

\* The process is killed, is stopped by a rollout, or leaves on an exception
\* of its start-up recovery.
Stop(w) ==
    /\ pc[w] # "down"
    /\ Goto(w, "down")
    /\ UNCHANGED <<jobVars, resultVars, fileVars, token>>

-----------------------------------------------------------------------------
(* The loop of run_integrity_worker: stage, then claim, then process.      *)

StageNextCreatedJob(w) ==
    /\ pc[w] = "ready"
    /\ status = "created"
    /\ SaveJob("queued", jobError)
    /\ UNCHANGED <<resultVars, fileVars, localVars>>

\* claim_next_job on a job whose cancellation, deadline or age ends it.
ClaimRejects(w) ==
    /\ pc[w] = "ready"
    /\ status = "queued"
    /\ IF cancelRequested THEN SaveJob("cancelled", jobError)
                          ELSE SaveJob("failed", TRUE)
    /\ UNCHANGED <<resultVars, fileVars, localVars>>

ClaimNextJob(w) ==
    /\ pc[w] = "ready"
    /\ status = "queued"
    /\ ~cancelRequested
    /\ SaveJob("processing", jobError)
    /\ \E t \in FreshToken, reply \in Reply :
         /\ ownerToken' = t
         /\ token' = [token EXCEPT ![w] = t]
         /\ Goto(w, IF reply = "ok" THEN "claimed" ELSE "ready")
    /\ resultState' = "reserved"
    /\ UNCHANGED <<verdict, receipt, fileVars>>

(* _acquire_processing_claim finds the reservation of claim_next_job; it   *)
(* does not look at the cancellation.                                      *)
Acquire(w) ==
    /\ pc[w] = "claimed"
    /\ status = "processing"
    /\ Owns(w)
    /\ resultState = "reserved"
    /\ Goto(w, "acquired")
    /\ UNCHANGED <<jobVars, resultVars, fileVars, token>>

\* The job left PROCESSING, the row is not this claim's reservation, or the
\* transaction failed; the loop goes on.
AcquireFails(w) ==
    /\ pc[w] = "claimed"
    /\ Goto(w, "ready")
    /\ UNCHANGED <<jobVars, resultVars, fileVars, token>>

\* _cancel_before_work, asked before the download and again after it.
MayWork(w) ==
    /\ pc[w] \in {"acquired", "downloaded"}
    /\ status = "processing"
    /\ Owns(w)

CancelBeforeWork(w) ==
    /\ MayWork(w)
    /\ cancelRequested
    /\ CancelLocked
    /\ \E reply \in Reply : Goto(w, IF reply = "ok" THEN "ready" ELSE "failing")
    /\ UNCHANGED <<fileVars, token>>

Download(w) ==
    /\ MayWork(w)
    /\ ~cancelRequested
    /\ pc[w] = "acquired"
    /\ Goto(w, "downloaded")
    /\ UNCHANGED <<jobVars, resultVars, fileVars, token>>

\* _inspect_integrity_content or _decode_content accepts the file.
Inspect(w) ==
    /\ MayWork(w)
    /\ ~cancelRequested
    /\ pc[w] = "downloaded"
    /\ suspect.pages \in 1 .. MaxPdfPages
    /\ Goto(w, "committing")
    /\ UNCHANGED <<jobVars, resultVars, fileVars, token>>

\* The checks, the download, the limits, the decoder, the workspace or a
\* transaction raised.
WorkFails(w) ==
    /\ pc[w] \in {"acquired", "downloaded"}
    /\ Goto(w, "failing")
    /\ UNCHANGED <<jobVars, resultVars, fileVars, token>>

(* _commit_verification_result.                                            *)
MayCommit(w) ==
    /\ pc[w] = "committing"
    /\ status = "processing"
    /\ Owns(w)

CommitCancelled(w) ==
    /\ MayCommit(w)
    /\ cancelRequested
    /\ CancelLocked
    /\ \E reply \in Reply : Goto(w, IF reply = "ok" THEN "ready" ELSE "failing")
    /\ UNCHANGED <<fileVars, token>>

CommitVerificationResult(w) ==
    /\ MayCommit(w)
    /\ ~cancelRequested
    /\ suspect.pages <= EvidencePages
    /\ verdict' = Resolve
    /\ receipt' = TRUE
    /\ SettleResult("committed")
    /\ SaveJob("succeeded", FALSE)
    /\ \E reply \in Reply : Goto(w, IF reply = "ok" THEN "ready" ELSE "failing")
    /\ UNCHANGED <<fileVars, token>>

\* The job left PROCESSING, the model's clean() refused the evidence (as it does
\* above EvidencePages), or the transaction failed: DEMO_RESULT_COMMIT_FAILED.
CommitFails(w) ==
    /\ pc[w] = "committing"
    /\ Goto(w, "failing")
    /\ UNCHANGED <<jobVars, resultVars, fileVars, token>>

\* _record_failed_job.
RecordFailedJob(w) ==
    /\ pc[w] = "failing"
    /\ Owns(w)
    /\ status = "processing"
    /\ FailLocked
    /\ Goto(w, "ready")
    /\ UNCHANGED <<fileVars, token>>

\* The job is no longer PROCESSING, or the transaction failed and the error is
\* logged; the loop goes on.
RecordNothing(w) ==
    /\ pc[w] = "failing"
    /\ Goto(w, "ready")
    /\ UNCHANGED <<jobVars, resultVars, fileVars, token>>

-----------------------------------------------------------------------------
(* reconcile_stale_jobs, which a process runs once, when it starts.        *)

NothingStale(w) ==
    /\ pc[w] = "recovering"
    /\ ~Stale
    /\ Goto(w, "ready")
    /\ UNCHANGED <<jobVars, resultVars, fileVars, token>>

\* A reservation fails with its owner's token; the branch for a committed
\* result is never reached (OneVerdict).
SettleStale(w) ==
    /\ pc[w] = "recovering"
    /\ Stale
    /\ IF resultState = "committed"
       THEN SaveJob("succeeded", FALSE) /\ UNCHANGED resultVars
       ELSE FailLocked
    /\ Goto(w, "ready")
    /\ UNCHANGED <<fileVars, token>>

-----------------------------------------------------------------------------
Loop(w) == StageNextCreatedJob(w) \/ ClaimRejects(w) \/ ClaimNextJob(w)

Process(w) ==
    \/ Acquire(w) \/ AcquireFails(w)
    \/ CancelBeforeWork(w) \/ Download(w) \/ Inspect(w) \/ WorkFails(w)
    \/ CommitCancelled(w) \/ CommitVerificationResult(w)
    \/ CommitFails(w)
    \/ RecordFailedJob(w) \/ RecordNothing(w)

Recover(w) == NothingStale(w) \/ SettleStale(w)

Next ==
    \/ RequestCancel
    \/ AgePasses
    \/ Distrust
    \/ \E w \in Workers : \/ Start(w) \/ Stop(w)
                          \/ Loop(w) \/ Process(w) \/ Recover(w)

Spec == Init /\ [][Next]_vars

\* As for IssuanceWorker: time passes, a process that is up keeps running, one
\* that is down is restarted, and no crash hits the same recovery for ever.
Fairness ==
    /\ WF_vars(AgePasses)
    /\ \A w \in Workers :
         /\ WF_vars(Start(w))
         /\ WF_vars(Loop(w))
         /\ WF_vars(Process(w))
         /\ SF_vars(SettleStale(w))

FairSpec == Spec /\ Fairness

-----------------------------------------------------------------------------
(* What must hold.                                                         *)

\* Job, result row, verification and receipt tell the same story, whichever of
\* a slow owner and a recovery under the same token came last.
\* (_commit_verification_result, _record_failed_job, _cancel_locked)
OneVerdict ==
    /\ status = "succeeded" <=> verdict \in Conclusion
    /\ status = "succeeded" <=> receipt
    /\ status = "succeeded" <=> resultState = "committed"
    /\ verdict = "processing_failed" <=> resultState = "failed"
    /\ resultState = "failed" => status = "failed"
    /\ resultState = "cancelled" => status = "cancelled"
    /\ status = "processing" <=> resultState = "reserved"

\* A verdict, once given, is never changed: not by an owner whose commit reply
\* was lost, not by a recovery, not by a key that is revoked afterwards.
\* (_record_failed_job, DemoVerificationResult.save)
VerdictIsFinal == [][verdict # "none" => verdict' = verdict]_vars

HashVerdicts ==
    IF suspect.hash = 1 THEN {"verified_intact", "invalid_manifest"}
                        ELSE {"partial_evidence"}

\* "it can never contradict the hash result" (ADR-003, of the decoder): a file
\* that is known by its hash is answered from the hash.
\* (_resolve_source_locked)
DecoderNeverContradictsHash ==
    status = "succeeded" /\ suspect.hash > 0 => verdict \in HashVerdicts

\* The worker implements the job's promise; what is delivered is the receipt
\* with a conclusive verdict.
Job == INSTANCE JobLifecycle WITH delivered <- receipt /\ verdict \in Conclusion
ImplementsJobLifecycle == Job!Spec

\* Some process keeps being restarted (rollouts, crashes).
RestartsGoOn == \E w \in Workers : []<>(pc[w] = "down")

\* As long as restarts go on, a claimed verification reaches a terminal status.
\* (reconcile_stale_jobs, _prepare_stale_recovery)
ClaimedVerificationSettles ==
    RestartsGoOn => (status = "processing" ~> status \in Terminal)

\* Whatever file the inspection lets through can be committed while the job is
\* this claim's and nobody cancelled it.
\* (_commit_verification_result, DemoVerificationResult.clean)
AcceptedFilesCommit ==
    \A w \in Workers : MayCommit(w) /\ ~cancelRequested =>
                        ENABLED CommitVerificationResult(w)

\* A file that leads to one issuance of this system, whose signed manifest is
\* trusted, is recognized.  (_validate_retained_source_locked)
GenuineSourceIsRecognized ==
    /\ status = "succeeded"
    /\ source.sound /\ manifest = "trusted"
    /\ \/ suspect.hash = 1
       \/ suspect.hash = 0 /\ suspect.decode = "retained" /\ ~ExactOnly
    => verdict \in {"verified_intact", "source_identified_modified"}

-----------------------------------------------------------------------------
(* Why it holds: the parts of an inductive invariant.                      *)

\* The job is claimed once: at most one process ever works on it, and it holds
\* the token of the row.
SingleOwner ==
    /\ \A v, w \in Workers :
          pc[v] \in Processing /\ pc[w] \in Processing => v = w
    /\ \A w \in Workers : pc[w] \in Processing =>
          status \notin {"created", "queued"} /\ Owns(w)
    /\ status \notin {"retryable_failed", "dead_lettered"}
    /\ status \in {"created", "queued"} => resultState = "absent"

CancellationIsSeen ==
    cancelRequested => status \notin {"created", "queued", "succeeded"}

IInv ==
    /\ TypeOK
    /\ SingleOwner
    /\ CancellationIsSeen
    /\ OneVerdict
    /\ DecoderNeverContradictsHash
=============================================================================
