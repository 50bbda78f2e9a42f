------------------------------ MODULE JobQueue ------------------------------
(***************************************************************************)
(* The queue of jobs and the process that serves it: jobs and their outbox *)
(* events (jobs/services.py, outbox/), the worker's start-up recovery of a *)
(* batch of stale jobs and its loop of staging, claiming and processing    *)
(* (demo/worker.py, release/worker.py, run_integrity_worker.py), and the   *)
(* registry of signing keys a commit signs its manifest with               *)
(* (access/services.py, demo/issuance.py, documents/manifests.py).         *)
(*                                                                         *)
(* There is one worker process at a time, as in the deployment; what two   *)
(* overlapping processes do to one job is the subject of IssuanceWorker    *)
(* and VerificationWorker, and one job's processing is summarised here by  *)
(* the transactions that change its row.  Jobs are numbered by created_at. *)
(***************************************************************************)
EXTENDS Naturals, Sequences, SequencesExt, FiniteSetsExt

CONSTANTS
    Jobs,            \* a set of numbers
    IssuanceJobs,    \* the jobs of kind "issuance"; the others verify
    Limit,           \* STALE_RECONCILIATION_LIMIT
    Registrations,   \* the key ids of the registry, in the order of key_id
    PublicKey,       \* the public key each id is registered with
    KeyFiles,        \* the private keys the worker is given, one after the other
    MaxFaults,       \* bound: crashes and failing calls
    MaxKeyChanges    \* bound: changes of keys

ASSUME QueueAssumption ==
    /\ Jobs \subseteq Nat /\ IssuanceJobs \subseteq Jobs
    /\ Limit \in Nat \ {0} /\ Len(KeyFiles) > 0
    /\ "none" \notin ToSet(Registrations)
    /\ MaxFaults \in Nat /\ MaxKeyChanges \in Nat

VARIABLES
    job,       \* the rows: status, cancel, result (the evidence) and stale
    outbox,    \* the outbox events
    touched,   \* the jobs in the order of updated_at
    worker,    \* the process
    keys,      \* the registry: status and window of every registration
    keyFile,   \* the index of the key file now in place
    manifest,  \* the manifests of the issuances
    faults,    \* number of faults so far
    changes    \* number of changes of keys so far

vars == <<job, outbox, touched, worker, keys, keyFile, manifest, faults, changes>>
keyVars == <<keys, keyFile, changes>>
rowVars == <<job, touched>>

KeyIds == ToSet(Registrations)
NoManifest == [key |-> "none", signer |-> "none"]
NoJob == [status |-> "absent", cancel |-> FALSE, result |-> "none", attempt |-> 0, stale |-> FALSE]
Down == [pc |-> "down", batch |-> <<>>, job |-> 0, signer |-> "none"]
Terminal == {"succeeded", "failed", "cancelled"}

Init ==
    /\ job = [j \in Jobs |-> NoJob]
    /\ outbox = {}
    /\ touched = <<>>
    /\ worker = Down
    /\ keys = [k \in KeyIds |->
                  [status |-> IF k = Head(Registrations) THEN "active" ELSE "absent", window |-> "open"]]
    /\ keyFile = 1
    /\ manifest = [j \in Jobs |-> NoManifest]
    /\ faults = 0 /\ changes = 0

---------------------------------------------------------------------------
(* Rows.                                                                    *)

Having(status) == {j \in Jobs : job[j].status = status}
Fenced == {j \in Jobs : job[j].status = "failed" /\ job[j].result = "fenced"}

(* save(update_fields=[..., "updated_at"]): the row becomes the youngest *)
Save(j, row) ==
    /\ job' = [job EXCEPT ![j] = row]
    /\ touched' = Append(Remove(touched, j), j)
Settle(j, status, result) ==
    Save(j, [job[j] EXCEPT !.status = status, !.result = result, !.stale = FALSE])

Fault == faults < MaxFaults /\ faults' = faults + 1

---------------------------------------------------------------------------
(* Requests.                                                                *)

(* An event that counts attempts from 1, as the rows do not. *)
JobEventFromOne(j, attempt) == [job |-> j, attempt |-> attempt + 1]

(* build_job_request() and create_job_event(): the event names the job and its attempt *)
JobEvent(j, attempt) == [job |-> j, attempt |-> attempt]

(* The transaction of _copy_then_finalize() that creates the job and its event; created_at
   orders the jobs *)
CreateJob(j) ==
    /\ job[j] = NoJob
    /\ \A i \in Jobs : i < j => job[i] # NoJob
    /\ Save(j, [NoJob EXCEPT !.status = "created"])
    /\ outbox' = outbox \cup {JobEvent(j, 0)}
    /\ UNCHANGED <<worker, manifest, faults>> /\ UNCHANGED keyVars

(* _request_cancel(): a job that waits ends at once, one that is processed only learns of it *)
RequestCancel(j) ==
    /\ job[j].status \in {"created", "queued", "processing"} /\ ~job[j].cancel
    /\ Save(j, [job[j] EXCEPT !.cancel = TRUE, !.stale = FALSE,
                              !.status = IF @ = "processing" THEN @ ELSE "cancelled"])
    /\ UNCHANGED <<outbox, worker, manifest, faults>> /\ UNCHANGED keyVars

(* JOB_TIMEOUT_SECONDS go by since updated_at *)
AgePasses(j) ==
    /\ job[j].status = "processing" /\ ~job[j].stale
    /\ job' = [job EXCEPT ![j].stale = TRUE]
    /\ UNCHANGED <<outbox, touched, worker, manifest, faults>> /\ UNCHANGED keyVars

---------------------------------------------------------------------------
(* The start of the worker: one batch of stale jobs is recovered.           *)

IsCandidate(j) == j \in Fenced \/ (job[j].status = "processing" /\ job[j].stale)

(* reconcile_stale_jobs(): the oldest candidates by updated_at, at most Limit of them *)
StaleBatch == LET all == SelectSeq(touched, IsCandidate) IN SubSeq(all, 1, Min({Len(all), Limit}))

Start ==
    /\ worker.pc = "down"
    /\ worker' = [worker EXCEPT !.pc = "recover", !.batch = StaleBatch]
    /\ UNCHANGED <<outbox, manifest, faults>> /\ UNCHANGED rowVars /\ UNCHANGED keyVars

(* _recover_stale_job() after _prepare_stale_recovery() looked at the row again: a tombstone's
   key is deleted once more and its row left as it is; a job that was touched since the batch
   was selected is passed over; an output that may have been stored is deleted and fenced *)
RecoverNext ==
    /\ worker.pc = "recover" /\ worker.batch # <<>>
    /\ worker' = [worker EXCEPT !.batch = Tail(@)]
    /\ LET j == Head(worker.batch)
       IN  \/ ~(job[j].status = "processing" /\ job[j].stale) /\ UNCHANGED rowVars /\ UNCHANGED faults
           \/ /\ job[j].status = "processing" /\ job[j].stale
              /\ job[j].result \in {"uploading", "kept"}
              /\ \/ Settle(j, "failed", "fenced") /\ UNCHANGED faults
                 \/ Fault /\ job' = [job EXCEPT ![j].result = "kept"] /\ UNCHANGED touched
           \/ /\ job[j].status = "processing" /\ job[j].stale
              /\ job[j].result = "reserved"
              /\ Settle(j, "failed", "cleaned") /\ UNCHANGED faults
    /\ UNCHANGED <<outbox, manifest>> /\ UNCHANGED keyVars

EnterLoop ==
    /\ worker.pc = "recover" /\ worker.batch = <<>>
    /\ worker' = [worker EXCEPT !.pc = "stage"]
    /\ UNCHANGED <<outbox, manifest, faults>> /\ UNCHANGED rowVars /\ UNCHANGED keyVars

---------------------------------------------------------------------------
(* One cycle of the loop: stage, claim, process.                            *)

(* _outbox_matches_job() *)
OutboxMatches(j) == {e \in outbox : e.job = j} = {[job |-> j, attempt |-> job[j].attempt]}

(* stage_next_created_job(): only the oldest created job is looked at *)
Stage ==
    /\ worker.pc = "stage"
    /\ worker' = [worker EXCEPT !.pc = "claim"]
    /\ \/ /\ Having("created") # {} /\ OutboxMatches(Min(Having("created")))
          /\ LET j == Min(Having("created")) IN Save(j, [job[j] EXCEPT !.status = "queued"])
       \/ /\ Having("created") # {} => ~OutboxMatches(Min(Having("created")))
          /\ UNCHANGED rowVars
    /\ UNCHANGED <<outbox, manifest, faults>> /\ UNCHANGED keyVars

(* claim_next_job() finds nothing, or ends a job whose deadline has passed *)
ClaimNothing ==
    /\ worker.pc = "claim"
    /\ worker' = [worker EXCEPT !.pc = "idle"]
    /\ \/ Having("queued") = {} /\ UNCHANGED rowVars
       \/ Having("queued") # {} /\ Settle(Min(Having("queued")), "failed", "none")
    /\ UNCHANGED <<outbox, manifest, faults>> /\ UNCHANGED keyVars

(* load_manifest_signing_key(), when the processing of an issuance begins *)
LoadSigningKey(j) == IF j \in IssuanceJobs THEN KeyFiles[keyFile] ELSE "none"

(* claim_next_job() claims the oldest queued job *)
ClaimNextJob ==
    /\ worker.pc = "claim" /\ Having("queued") # {}
    /\ LET j == Min(Having("queued"))
       IN  /\ Settle(j, "processing", "reserved")
           /\ worker' = [worker EXCEPT !.pc = "work", !.job = j,
                                     !.signer = LoadSigningKey(j)]
    /\ UNCHANGED <<outbox, manifest, faults>> /\ UNCHANGED keyVars

EndCycle == worker' = [Down EXCEPT !.pc = "idle"]

(* _begin_output_upload() *)
BeginUpload ==
    /\ worker.pc = "work" /\ worker.job \in IssuanceJobs /\ job[worker.job].result = "reserved"
    /\ \/ /\ job[worker.job].cancel
          /\ Settle(worker.job, "cancelled", "cleaned") /\ EndCycle
       \/ /\ ~job[worker.job].cancel
          /\ job' = [job EXCEPT ![worker.job].result = "uploading"] /\ UNCHANGED <<touched, worker>>
    /\ UNCHANGED <<outbox, manifest, faults>> /\ UNCHANGED keyVars

(* _compensate_owned_output(): the output is deleted, or the deletion fails *)
Compensate(status) ==
    /\ \/ Settle(worker.job, status, "cleaned") /\ UNCHANGED faults
       \/ Settle(worker.job, status, "kept") /\ Fault
    /\ EndCycle /\ UNCHANGED manifest

InForce(k) == keys[k].status = "active" /\ keys[k].window # "before"

(* The registrations among found that fewer than n others precede in the order of key_id *)
FirstKeys(found, n) ==
    {Registrations[i] : i \in {m \in DOMAIN Registrations :
        /\ Registrations[m] \in found
        /\ Cardinality({l \in 1..(m - 1) : Registrations[l] \in found}) < n}}

QueriedKeysOfAnyStatus(signer) ==
    FirstKeys({k \in KeyIds : PublicKey[k] = signer /\ keys[k].status # "absent"
                              /\ keys[k].window # "before"}, 2)
(* The query of _integrity_signing_key_locked(): at most two rows, in the order of key_id *)
QueriedKeys(signer) == FirstKeys({k \in KeyIds : PublicKey[k] = signer /\ InForce(k)}, 2)

(* The rest of it: an expired row is dropped afterwards, and one must remain *)
SigningKeys(signer) ==
    LET valid == {k \in QueriedKeys(signer) : keys[k].window = "open"}
    IN  IF Cardinality(valid) = 1 THEN valid ELSE {}

(* build_signed_issuance_manifest(): it names a registration and is signed with the key at hand *)
SignedManifest(k, signer) == [key |-> k, signer |-> signer]

(* _commit_issuance_result() *)
CommitIssuance ==
    /\ worker.pc = "work" /\ worker.job \in IssuanceJobs /\ job[worker.job].result = "uploading"
    /\ \/ job[worker.job].cancel /\ Compensate("cancelled")
       \/ ~job[worker.job].cancel /\ SigningKeys(worker.signer) = {} /\ Compensate("failed")
       \/ \E k \in SigningKeys(worker.signer) :
             /\ ~job[worker.job].cancel
             /\ manifest' = [manifest EXCEPT ![worker.job] = SignedManifest(k, worker.signer)]
             /\ Settle(worker.job, "succeeded", "committed")
             /\ EndCycle /\ UNCHANGED faults
    /\ UNCHANGED outbox /\ UNCHANGED keyVars

(* The commit of a verification *)
CommitVerification ==
    /\ worker.pc = "work" /\ worker.job \notin IssuanceJobs
    /\ \/ job[worker.job].cancel /\ Settle(worker.job, "cancelled", "cleaned")
       \/ ~job[worker.job].cancel /\ Settle(worker.job, "succeeded", "committed")
    /\ EndCycle
    /\ UNCHANGED <<outbox, manifest, faults>> /\ UNCHANGED keyVars

(* _record_failed_job() after the job's input or an upload was refused *)
FailWork ==
    /\ worker.pc = "work"
    /\ \/ /\ job[worker.job].result = "reserved"
          /\ Settle(worker.job, "failed", "cleaned") /\ EndCycle /\ UNCHANGED <<manifest, faults>>
       \/ job[worker.job].result = "uploading" /\ Compensate("failed")
    /\ UNCHANGED outbox /\ UNCHANGED keyVars

(* process_integrity_cycle() swallows what the recording of a failure raises: the row stays
   "processing" and the loop goes on *)
WorkGivesUp ==
    /\ worker.pc = "work" /\ Fault /\ EndCycle
    /\ UNCHANGED <<outbox, manifest>> /\ UNCHANGED rowVars /\ UNCHANGED keyVars

NextCycle ==
    /\ worker.pc = "idle"
    /\ worker' = [worker EXCEPT !.pc = "stage"]
    /\ UNCHANGED <<outbox, manifest, faults>> /\ UNCHANGED rowVars /\ UNCHANGED keyVars

(* --once, or the container is replaced between two cycles *)
Stop ==
    /\ worker.pc = "idle" /\ worker' = Down
    /\ UNCHANGED <<outbox, manifest, faults>> /\ UNCHANGED rowVars /\ UNCHANGED keyVars

(* The process dies elsewhere; so does a start whose recovery raises *)
Crash ==
    /\ worker.pc \in {"recover", "stage", "claim", "work"} /\ Fault
    /\ worker' = Down
    /\ UNCHANGED <<outbox, manifest>> /\ UNCHANGED rowVars /\ UNCHANGED keyVars

---------------------------------------------------------------------------
(* The registry of signing keys and the key file.                           *)

Change == changes < MaxKeyChanges /\ changes' = changes + 1

(* The command register_integrity_signing_key, and register_signing_key() *)
RegisterKey(k) ==
    /\ keys[k].status = "absent"
    /\ \E w \in {"before", "open"} : keys' = [keys EXCEPT ![k] = [status |-> "active", window |-> w]]
    /\ UNCHANGED keyFile

AllowedTransitions == {<<"active", "verify_only">>, <<"active", "revoked">>, <<"verify_only", "revoked">>}

TransitionSigningKey(k) ==
    /\ keys[k].window # "before"
    /\ \E to \in {"active", "verify_only", "revoked"} :
          /\ <<keys[k].status, to>> \in AllowedTransitions
          /\ keys' = [keys EXCEPT ![k].status = to]
    /\ UNCHANGED keyFile

(* valid_from is reached, and later valid_until if there is one *)
WindowMoves(k) ==
    /\ keys[k].status # "absent" /\ keys[k].window # "closed"
    /\ keys' = [keys EXCEPT ![k].window = IF @ = "before" THEN "open" ELSE "closed"]
    /\ UNCHANGED keyFile

RotateKeyFile == keyFile < Len(KeyFiles) /\ keyFile' = keyFile + 1 /\ UNCHANGED keys

ChangeKeys ==
    /\ Change
    /\ \/ RotateKeyFile
       \/ \E k \in KeyIds : RegisterKey(k) \/ TransitionSigningKey(k) \/ WindowMoves(k)
    /\ UNCHANGED <<outbox, worker, manifest, faults>> /\ UNCHANGED rowVars

---------------------------------------------------------------------------
Request == \E j \in Jobs : CreateJob(j) \/ RequestCancel(j)
Process == BeginUpload \/ CommitIssuance \/ CommitVerification \/ FailWork
Cycle == Stage \/ ClaimNothing \/ ClaimNextJob \/ Process \/ NextCycle
Recover == Start \/ RecoverNext \/ EnterLoop

Next ==
    \/ Request \/ (\E j \in Jobs : AgePasses(j))
    \/ Recover \/ Cycle \/ WorkGivesUp \/ Stop \/ Crash
    \/ ChangeKeys

(* The container is restarted, the process keeps running its own code, and time goes by *)
Fairness ==
    /\ WF_vars(Recover)
    /\ WF_vars(Cycle)
    /\ \A j \in Jobs : WF_vars(AgePasses(j))

Spec == Init /\ [][Next]_vars /\ Fairness

---------------------------------------------------------------------------
(* verify_stored_manifest() of a stored manifest at this moment *)
VerifyStoredManifest(j) ==
    LET k == manifest[j].key
    IN  IF manifest[j] = NoManifest THEN "none"
        ELSE IF PublicKey[k] # manifest[j].signer THEN "invalid_signature"
        ELSE IF keys[k].status = "revoked" THEN "valid_revoked"
        ELSE IF keys[k].window # "open" THEN "valid_untrusted_window"
        ELSE "valid_trusted"

(* The jobs no start ever reaches because Limit tombstones, which never stop being candidates
   and are never touched again, come before them *)
TombstonesBefore(j) == {i \in Fenced : SelectSeq(touched, LAMBDA x : x \in {i, j}) = <<i, j>>}

(* A job that was created ends, however it and its neighbours fail, are cancelled or are left
   behind by a worker that died: provided the worker is started again and again, and fewer
   tombstones than one batch holds are older than it (reconcile_stale_jobs() at
   demo/worker.py:542 takes the oldest candidates, and a tombstone stays one for ever). *)
EveryJobEnds ==
    []<>(worker.pc = "down")
    => \A j \in Jobs : job[j].status = "created"
                       ~> \/ job[j].status \in Terminal
                          \/ Cardinality(TombstonesBefore(j)) >= Limit

(* A manifest is trusted by verify_stored_manifest() at the moment it is committed, although
   the private key was read before the file was rotated and the registry changed; from then
   on its trust only ends, by the end of the window or by revocation, and never comes back
   (demo/issuance.py:1095, documents/manifests.py:78). *)
TrustOnlyEnds ==
    [][\A j \in Jobs :
          LET before == VerifyStoredManifest(j)
              after == VerifyStoredManifest(j)'
          IN  before # after =>
              <<before, after>> \in {<<"none", "valid_trusted">>,
                                     <<"valid_trusted", "valid_untrusted_window">>,
                                     <<"valid_trusted", "valid_revoked">>,
                                     <<"valid_untrusted_window", "valid_revoked">>}]_vars
=============================================================================
