# SplitBind: TLA+ models and proofs

SplitBind issues a per-recipient copy of a document, records signed evidence of
what it issued, and later answers where a suspect file comes from and whether
its bytes changed.  This directory models what decides whether those records
can be trusted: the Django control plane and its worker
(`services/api/splitbind`) with a PostgreSQL database and an S3-compatible
object store between them, the browser in front of it (`apps/web`), and the
research programs (`research/python`) whose evidence selects and releases the
fingerprint profile that is used.  Paths below are relative to
`src/services/api/splitbind` unless they start with `src/`.

## 1. The system

```
 browser --HTTP--> API (jobs, documents, uploads, access, audit)
                    |   \                          \
        direct PUT  |    rows in PostgreSQL         copy / delete
             v      |         ^      ^                  v
        object store <--------|------|------ worker process(es): demo/, release/
                              |      |
                              |      +------ cleanup command: retention/
```

API, worker and cleanup never talk to each other: they share rows, which they
lock with `SELECT ... FOR UPDATE` inside short transactions, and objects in the
store, which no lock protects.  Every storage call happens outside a
transaction, or inside one that can still roll back afterwards.

```
 runner (runner.py) --> SQLite checkpoint --> results.jsonl, .csv, summary.json
                                                  |                  |
                 pre-gate V2 / V3 --> selection file       promote_profile.py
                                          |                  |            |
                            run planned with the selection  report    release
```

The research programs share nothing with the service but the decoder and the
released profile.  They share one output directory with each other: a
checkpoint that is a database, and files that are replaced atomically, one at a
time.

| Component | State it keeps | Operations | What makes it correct |
|---|---|---|---|
| Upload intake (`uploads`) | `UploadRequest`: status, checksum, expiry, promotion fields | `create_upload`, `complete_upload`, `reserve_promotion`, promotion state changes | an upload is promoted once; a fenced target is never attached |
| Job creation (`jobs/services.py`) | `Document`, `Issuance`/`Verification`, `Job`, `OutboxEvent`, audit rows, copied object | `create_issuance`, `create_verification`: reserve, copy outside a transaction, finalize in one | no job without its input object; no double job; a refused finalize leaves no object that nobody owns |
| Job lifecycle (`jobs/state.py`) | `Job.status`, `attempt`, `cancel_requested_at` | `transition_job`, `request_cancel` | only the listed edges; no success after an accepted cancellation |
| Job queue (`demo/worker.py`, `release/worker.py`) | jobs by status, outbox rows | `stage_next_created_job`, `claim_next_job`, `_prepare_one_retry` | one claim per job; at most two attempts; no job starves |
| Issuance worker (`demo/issuance.py`) | `DemoIssuanceResult`, `Issuance.output_*`, `Manifest`, receipt, output object | acquire, build, begin upload, upload, commit, compensate, record failure | a published output is stored and stays; job, evidence and issuance agree |
| Verification worker (`demo/verification.py`) | `DemoVerificationResult`, receipt | acquire, resolve the source, decide, commit | verdict only from a valid manifest; job and evidence agree |
| Stale recovery (`demo/worker.py`) | the same rows | `reconcile_stale_jobs` at process start | two recoveries never fight; a fenced owner stays silent; no orphaned object for good |
| Retention (`retention/services.py`) | `CleanupScheduleState`, deletion evidence, reconciliation cursor, lease and token | `cleanup_expired`: ordinary and reconciliation lanes | nothing in use is deleted; every expired object is deleted eventually; one reconciliation at a time |
| Signing keys and manifests (`access/models.py`, `release/manifest.py`, `documents/manifests.py`) | `SigningKey` status and validity, `Manifest` | register, rotate, sign, verify | a manifest verifies exactly while its key was valid at signing |
| Access, audit, health, observability, OpenAPI | sessions, append-only `AuditEvent` | views, throttles, denial records | audit rows are never changed |
| Storage adapters (`integrations/storage`) | none | S3 calls with checksums | modelled by their contract where the callers use them |
| Document content (`demo/issuance.py`, `demo/verification.py`) | none (pure functions) | inspect, render, mark, encode; inspect, render, decode, aggregate | what was issued can be verified and names its issuance; a file names one issuance or none |
| Fingerprint research code (`src/research/python/src/splitbind_ref`) | none (pure functions) | payload, error correction, alignment, reading of tiles, votes, in three versions | decoding inverts encoding; a later version or more evidence refuses, it never names somebody else |
| Benchmark evidence and promotion (`src/research/python/src/splitbind_bench`, `scripts`) | checkpoint, exported files, selection, report, release | run, resume, export, pre-gate, load a selection, promote | a selection or a release stands on complete evidence that earns it, whatever dies in between |
| Web client (`src/apps/web`) | form, calls under way, query cache | submit, upload, confirm, create, poll, leave | who waits is answered; the pages say what is true; who leaves is forgotten |
| Infrastructure, contracts, fixtures, reports | deployment, data | | not modelled |

What is hard to test here: a reply to a commit or to a storage call that is
lost; a process killed between two transactions and restarted; an upload
reported as failed that takes effect later; a slow process that wakes up after
another one took over; cancellation at any of those points; a recovery that
itself crashes; a key that changes between building and signing; two benchmark
runs in one directory; a publication that stops between two files; a browser
that goes away while its calls go on; and, without any concurrency, boundaries
at which two pieces of code decide the same thing independently (what the
issuance may produce and the verification accept, what a runner may write and a
gate read).  `PROJECT.json` lists each such hazard at its line.

## 2. Modules

| Module | Models | Status |
|---|---|---|
| `JobLifecycle` | what a job promises its requester | abstract specification |
| `IssuanceWorker` | one issuance job, any number of worker processes, its evidence row and its output object; stale recovery; implements `JobLifecycle` | checked and proved |
| `VerificationWorker` | one verification job, any number of worker processes, its result row, and the decision from the suspect file to the verdict; stale recovery; implements `JobLifecycle` | checked and proved |
| `InputContract` | what an upload promises to the job made of it | abstract specification |
| `Promotion` | one upload: intent, PUT, confirmation, any number of requests that reserve, copy and finalize, and the deletions of the cleanup; implements `InputContract` | checked and proved |
| `CleanupSchedule` | any number of cleanup processes over the two lanes, the cursor and the leased claim of `CleanupScheduleState` | checked and proved |
| `WebClient` | a browser tab, with its calls, in front of `Promotion`, which it extends and implements | checked and proved |
| `JobQueue` | several jobs with their outbox events, the worker process from start to start, the registry of signing keys and the manifests | checked and proved |
| `IssuedContent` | the checks, rendering and marking of a source and the checks and decisions of both verifiers | checked over bounded files, and proved |
| `PayloadCode` | interleaver, shortened Reed-Solomon code, erasure ladder | checked over every damage, and proved |
| `PageAlignment` | the choice among alignment hypotheses, V1 to V3 | checked over bounded pages, and proved |
| `FingerprintDecode` | the reading of tiles and the votes, V1 to V3 | checked over bounded votes, and proved |
| `BenchmarkEvidence` | what the benchmark measures of a case and records in a row | checked over every case, and proved |
| `EvidenceGates` | what the readers of rows accept, and the scores and gates of a candidate | checked and proved with the two above and below |
| `EvidencePipeline` | benchmark runs, pre-gates, selection, its loader and the promotion script in one directory | checked and proved |
| `FingerprintProofs` | the theorems about `PageAlignment` and `FingerprintDecode` | proved |
| `EvidencePipelineProofs` | the theorems about `EvidencePipeline`, the modules it extends and `PayloadCode`; extends `FingerprintProofs` | proved |
| `JobQueueProofs` | the theorems about `JobQueue` and `IssuedContent`; extends `FingerprintProofs` | proved |
| other `...Proofs` | the theorems about the module of that name | proved |
| `MC...` | what a configuration needs (symmetry, values of constants), and the properties of pure operators with their bounded inputs; the other configurations run their module itself | |

How they fit: `Promotion` gives a job its input and ends where the job is
created; the two workers start there, each with one job; what `Promotion` says
of a job (`active`, `terminal`) is what `JobLifecycle` says of it.  In
`Promotion` the cleanup is a set of deletions that may be tried at any time;
`CleanupSchedule` is about which of them is tried when.  `WebClient` replaces
one of `Promotion`'s requests by the calls of a tab.  `JobQueue` has several
jobs instead of several processes: it summarises the processing of one job by
the transactions that change its row, which is what the two workers' modules
have in full.  `PageAlignment`, `FingerprintDecode`, `BenchmarkEvidence`,
`EvidenceGates` and `EvidencePipeline` extend each other in this order;
`IssuedContent` is the other user of `FingerprintDecode`, as `demo/` is of the
decoder.

### IssuanceWorker

State: the job row (`status`, `cancelRequested`, `jobError`, and `aged` for
"`updated_at` is older than the stale age"), the `DemoIssuanceResult` row
(`outputState`, `ownerToken`, `cleanupFailures`, `errorCode`), one flag
`published` for what `_commit_issuance_result` writes in one transaction
(`Issuance.output_*`, page count, signed manifest, receipt), the object
(`stored`) with the single PUT to it (`put`), and per process a program counter
and what its claim carries (`token`, `failures`, `cause`).

Each database transaction is one action: its rows are locked from its first
read to its commit, so other transactions see all of it or nothing.  Storage
calls are actions of their own.  Three things can go wrong at every point:

* the process is killed (`Stop`), which also stands for a rollout and for an
  exception that leaves the start-up recovery; whatever it held is lost;
* a transaction fails as a whole (`AcquireFails`, `CommitFails`,
  `CleanupRefused`, `RecordNothing`) or is applied while the process sees an
  exception (the choice marked "the reply was lost");
* a storage call fails, in which case it may or may not have had its effect; a
  PUT whose sender has given up may land at any later time (`PutLands`).

`errorCode` keeps of `safe_error_code` only what the code branches on: none, the
fence code, anything else.  `JobStatus` has every status; `retryable_failed`
and `dead_lettered` are unreachable for an issuance, because no code ever
produces `RETRYABLE_FAILED` (`IInv` includes this).  A claim in another
process's hands needs no extra guard: `SKIP LOCKED` at the candidate selection
of `reconcile_stale_jobs` equals that process running a moment earlier.
Retention (which deletes the output of a succeeded job after 30 days) is outside
this module's horizon.

### VerificationWorker

State: the job row as above, the `DemoVerificationResult` row (`resultState`,
`ownerToken`), `Verification.status` (`verdict`), the receipt, and per process a
program counter and the token of its claim.  Nothing is uploaded, so a stale
verification is settled in one transaction, under the token of the owner it
replaces: unlike for an issuance, no fence tells a slow owner from a recovery,
and only the job's status does.

What the file is and where it leads are inputs, any combination that the program
can meet: `suspect` (pages, how many issuances share its SHA-256, what the
fingerprint says), `source` (pages of the issuance it leads to, and whether that
one's rows are sound) and `manifest`, which may lose its trust at any time
(`Distrust`: the key is revoked or expires).  `Resolve` is the whole decision of
`_resolve_source_locked`, in the code's order.  The three page limits the code
has at three places are three constants.  The failures are those of
`IssuanceWorker`.

### Promotion

State: the `UploadRequest` row (its age class, confirmation,
`promotion_status`, deletion evidence), the job made of it, the objects at the
source and the target key, the browser's PUT, the copies still under way, and a
program counter per API request.

Reserve, finalize and each deletion hold the row lock and are one action.  A
deletion calls the store inside its transaction, which can still roll back:
then the object is gone and no evidence says so.  The one place where that
matters is an hour-old reservation whose request comes back afterwards; the
observer `erased` marks it, and `ActiveJobHasItsInput` excepts exactly it.  A
`CopyObject` that timed out is sent again, and any of its attempts may take
effect later, at worst after the target was fenced.  Age is a class (`absent`,
`open`, `expired`, `orphaned`), because the windows of `retention/policies.py`
are days apart.  The client sends one PUT per intent, and a PUT is answered
before its upload is a day old.

### CleanupSchedule

State: per upload whether it is eligible or fenced and whether its target
exists; the one row of `CleanupScheduleState` (lane, cursor, claim, token,
lease); per process its place in `cleanup_expired`, the iterations left and the
candidates tried.  Fenced rows take turns in the order of
`promotion_target_deleted_at`.  That is the time at which the run began that
fenced the row, so a row can be fenced *behind* the cursor: `stamp` draws that
order in advance, any order.  Rows are never unfenced, so the code's branches
for a claimed row that is gone are dead.  `served` (who had a turn since when) and
`cleared` (the claimed upload's target was deleted since the claim was made)
only observe.

### WebClient

State: the page that is mounted (`tab`), the form (`file`, `stage`, the request
on its way to the API `sent`, the answer on its way back, `aborted` for a
submission that was replaced, or whose form was left, while it still reads its
file, `adrift`) and the job page
(`shown`, the cached status, and `poll`).  A call is three steps: it is sent,
an action of `Promotion` handles it, its answer arrives; each can be lost, and
the tab can forget the call at any time, which does not stop the server.  The
answer to the call that creates the job comes only when the saga of `Promotion`
is through, or when its connection breaks.

`src/apps/web/src/app/queryClient.tsx` leaves the network mode of react-query as it
is, so a submission made offline is paused before its first line (`stage =
"paused"`) and `Resume` runs it when the browser is online again.  Only then does
it create its `AbortController`; a form that was left meanwhile can no longer
abort it, and it goes on by itself (`adrift`).

Bounds: the tab makes one upload, and opens neither the form nor the job page
while a submission is adrift (`NothingAdrift`).

### JobQueue

State: per job its row (`status`, `cancel`, `attempt`, what its evidence is
worth, `stale`), the order of `updated_at` (`touched`), the outbox, the worker
(place, remaining batch, job, the key it loaded), the registry (`keys`: status
and place in its validity window), the key file, the manifests.  One process at
a time, as the deployment runs it.  A start selects a batch of at most `Limit`
candidates, the oldest by `updated_at`, recovers them one by one and enters the
loop of staging, claiming and processing.  `SigningKeys` is the query of
`_integrity_signing_key_locked` with its truncation to two rows *before*
the filter on `valid_until`.

### IssuedContent

A file is what the libraries find in it: format, size, whether it opens, pages.
Lengths are whole `Ticks` of a point, so that the ceilings of the renderer and
the rounding of `_pdf_number` are exact.  `BuildIssuanceArtifact` is the
issuance, `InspectIntegrityContent` and `DecodeCode` the checks of the two
verifiers, `DecodeContent` the attribution.  A fingerprint is its identifier,
page index, profile and readable tiles.

### The fingerprint decoders

An attacked page is what the signal processing finds in it: where it lies, the
pilot's hypotheses with scores and the checks they fail, the ORB fit, what each
tile reads.  The control above that is kept: filters, suppression, caps,
fallbacks, ties, quorums, reasons, and the library errors: a page may have one
stage of `align_page_v2` at which the library raises, or raise wherever it is
called.  An error that is raised at a stage which is reached ends the alignment
whatever the other stages have found, as `AlignmentV2RuntimeError` does; V1 turns
it into a reason, and V3 into evidence of a search that failed.  A codeword in `PayloadCode` is a sequence of
positions, of which some are damaged; the Reed-Solomon library is external and
corrects w errors and e erasures exactly if 2w + e is within the parity.

### EvidencePipeline

State: the checkpoint (`identity` of the run it belongs to, `rows` by plan
ordinal), the files (`disk`), per benchmark run its place and what it holds in
memory, and one reader: the loader of a selection or the promotion script.  A
hash of a file is modelled by its content, so a comparison of hashes is one of
contents.  Every file operation is one action, every process can die before
each.  A file operation of the
promotion script may fail, before or after it had its effect, which leads to
the handler's cleanup.  A run may have a row budget (`max_rows`), resume, or belong to another
plan.  What the signal processing meets is the `world`: at most one case of the
plan deviates, in one of fifteen ways; a case whose decode fails may do so in
one run and succeed in the next, which a cell of the table records.

### Runs

Each module's type invariant and the parts that make its main invariant
inductive are conjuncts of its `IInv`, which the runs check where it is listed.

| Run | Bounds | Shows |
|---|---|---|
| `issuance_safety` | 2 processes, 4 tokens, at most 2 failed stale deletions | every safety property and the refinement |
| `issuance_liveness` | 1 process, 3 tokens, 1 failed stale deletion | a claimed job becomes terminal and a fenced object disappears for good, as long as the process keeps being restarted |
| `issuance_stuck` | the same | without that assumption the first of these is violated: see Findings |
| `verification` | 2 processes, 2 tokens, files of 1, 6 and 51 pages, fingerprint on | the records agree, a verdict is final, the hash decides, the refinement; and a claimed verification becomes terminal as long as processes keep being restarted |
| `verification_pages`, `verification_source` | 1 process, 1 and 6 pages | violated: see Findings |
| `promotion` | a tab with one upload, 1 more request, 2 attempts per copy | an active job has its input, nothing in use is deleted, the refinement; every reservation ends and nothing is stored for good; a submission is answered, its pages say what is true, a submission that was replaced or whose form was left asks for nothing (but for one that was paused offline) |
| `promotion_deployed` | 2 requests, no cleanup | violated: see Findings |
| `schedule_safety` | 2 processes, 3 tokens, 2 uploads, 1 slot a run | the claim has one holder, the cursor passes a claimed row only after its target was deleted, fenced rows take turns |
| `schedule_liveness` | 1 process, 2 uploads of which the store refuses one, 3 slots | the other one is deleted, and a late copy of it is removed although the refused upload heads the ordinary lane for ever |
| `queue` | 2 jobs (one issues, one verifies), batches of 1, 3 registrations of 2 public keys, 2 key files, 2 faults, 3 changes of keys | every job ends; a manifest's trust only ends. In the state before the queue starts: what is issued is recognized, a file names one issuance or none |
| `evidence` | 2 benchmark runs at a time and in all, budgets of 5 and 12 rows, a plan of 12 (2 pages, 2 candidates, 3 attacks), 1 reader, 5 settings of program and world | selections and releases are earned, a release has its report, committed rows are final. In one initial state: every row the runner can write is accepted (but for two cases, see below), later decoders only refuse, every correctable codeword is corrected, the ORB template costs no alignment but by an error of its own estimation |

Two processes or requests are enough for the conflicts there are (a slow owner
against a recovery, two recoveries, two finalizers, a holder and a takeover),
and the proofs cover any number.  Tokens are never drawn while somebody still
holds them, so a few more than processes never run out.  Two attempts give a
copy that lands after its request gave up and after a first one was cleaned up.
Pages 1, 6 and 51 lie on either side of every limit.  Two uploads are enough for
one to wait while the other has a turn; `TakesTurns` is proved for any number.
With one process `schedule_liveness` has no takeover, which `schedule_safety`
and the proofs have.  `MaxFailures` bounds a counter, `MaxAttempts` is a setting
of the storage client, `BatchSize` is the caller's.

In `queue`, a batch of 1 and two jobs give a tombstone in front of a stale job;
two faults make a tombstone out of a failed deletion and then crash; three
changes rotate the file and register, revoke or expire a key around it; three
registrations give a key of its own to each file and a second registration that
makes the first key ambiguous.  The truncation of the query to two rows would
need three registrations of one key and is not reached.  The limits of the content
are scaled down (a canvas of 4 by 9, 8 ticks to a point, a budget of 150
pixels), and the lengths lie on either side of each of them.  In `evidence`, a
budget of 5 stops a run inside the first page and inside a candidate's block,
12 is the whole plan; two runs are enough to resume, to collide and to come with
another plan.  The five settings are one world per path that the gates can
take: a candidate of poor quality, a decode that fails now and then, a foreign
name on a negative page, tiles in conflict, nothing unusual.  The gate of V3 on
false attributions is not exercised by a setting of its own.  `MaxStarts`,
`MaxReads`, `MaxFaults` and `MaxKeyChanges` are bounds of the models.

The deadlock check is on except for `promotion`, `promotion_deployed` and
`evidence`: there the life of one upload and that of one directory, with bounded
numbers of runs, end.

### Fairness

*Workers.*  Weak fairness of `Start` is the supervisor (`restart:
unless-stopped` in `src/infra/compose/compose.production.yaml`), of `Loop` and
`Process` the running process, of `PutLands` and `AgePasses` the store and time.
Strong fairness of the recovery's steps says that crashes and storage errors do
not hit the same step of every attempt.  Nothing obliges a process to stop, so
properties that need another start-up recovery assume it (`RestartsGoOn`).

*Promotion.*  Time passes, the store answers, a live request goes on, jobs end
and age.  `CleanupFairness` adds that somebody calls `cleanup_expired` again and
again; nothing in the repository does, so it is a conjunct of its own and
`DeployedSpec` leaves it out.

*WebClient.*  A live tab and a live server go on, every request reaches the API
or is refused, and what `Promotion` assumes.  Weak fairness of `Resume` says that
the browser comes online again and that the tab is looked at, as react-query
resumes in the foreground.  Strong fairness of the two steps of
a poll says that the API is not unreachable for good and that the tab is looked
at again, because polling pauses in the background.  Nothing obliges the user to
do anything.

*CleanupSchedule.*  The command is called again and again, crashes stop one day,
leases expire, and a deletion or an acknowledgement that is possible again and
again succeeds once; `Broken` names the uploads the store refuses for ever.

*JobQueue.*  A process that is down is started, a live one goes on, time passes.
Nothing obliges a process to stop, so `EveryJobEnds` assumes that it is down
again and again, for the reason of the finding `issuance_stuck`; and it excepts
jobs that have `Limit` tombstones in front of them, which no start ever reaches.

`EvidencePipeline` has safety properties only: nothing makes anybody run a
benchmark to its end.

## 3. What is proved

| Module | Theorems | For every |
|---|---|---|
| `IssuanceWorkerProofs` | types, `IInv`, every invariant and action property of `issuance_safety`, `ImplementsJobLifecycle` | set of processes and tokens, number of failures |
| `VerificationWorkerProofs` | types, `IInv`, `OneVerdict`, `DecoderNeverContradictsHash`, `VerdictIsFinal`, `ImplementsJobLifecycle` | set of processes and tokens, page counts and limits, both modes |
| `PromotionProofs` | types, `IInv`, every invariant of `promotion`, `ImplementsInputContract` | set of requests, number of attempts |
| `CleanupScheduleProofs` | types, `IInv`, `OneHolder`, `TakesTurns`, `LiveClaimIsKept`, `ClaimIsNotBypassed` | number of uploads, set of processes and tokens, batch size |
| `WebClientProofs` | `WebSpec => Spec`, hence every theorem of `PromotionProofs`; `JobPageTellsTheTruth`, `LeavingStopsTheForm` | set of other requests, number of attempts |
| `FingerprintProofs` | `TemplateNeverHides`, `LaterDecodersRefuse` | page and its hypotheses, evidence of finitely many tiles, identifiers, thresholds |
| `EvidencePipelineProofs` | `EvidenceIsFinal`, `ReleaseHasItsReport`, `SelectionIsEarned`, `ReleaseIsEarned` | plan, budgets, number of runs and readings, settings of program and world |
| | `OwnRowsAreAccepted`, `DecodersOnlyRefuse`, `TemplateOnlyHelps` | number of tiles, pages, identifiers, thresholds; the cases, votes and hypotheses are those the run enumerates |
| | `CodewordsAreRecovered` | length of the message, number of parity symbols, depth of the interleaver, damage, claim |
| `JobQueueProofs` | `ManifestsStaySigned`, `TrustOnlyEnds` | jobs, batch limit, registrations, public keys, key files, faults and changes of keys |
| | `AttributionIsUnanimous`, `IssuedContentIsRecognized` | identifiers, profiles, index hypotheses, limits, canvas, ticks and written digits; the files are those the run enumerates |

The only assumptions are the named `ASSUME`s of the modules: types of the
constants, that the token, identifier or key id which stands for none is not
one, and these, which the code's own constants meet: a pilot threshold is
positive (`AlignmentAssumption`), a page has at least two tiles and the plan
lists a page, a candidate or an attack once (`EvidenceAssumption`), a point is
a whole number of ticks of which the written digits show every so many
(`ContentAssumption`), and only the V1 directory has an older profile, which is
none of the candidates (`PipelineAssumption`).

*IssuanceWorker.*  A job is claimed once, because only `claim_next_job` leaves
QUEUED and nothing returns there; so at most one process works on its output
(`SingleOwner`).  A recovery replaces the owner token with a fresh one and puts
the fence code in place in the same transaction; from then on no process at work
owns the evidence (`RecoveryFences`), and every write of such a process starts
by comparing tokens.  Until then only the process itself deletes the object, and
by the time it is authorized to, it is past its commit (`OutputAtHand`).  So a
commit always publishes a stored object and no deletion follows.  `PutOnRecord`
says where an object can come from, and gives `UnpublishedObjectIsOnRecord`.
None of the properties is inductive alone: `PublishedOutputIsStored` needs to
know that nobody is about to delete, which needs to know who may be authorized.

*VerificationWorker.*  The same single owner, without a fence.  What replaces it
is the last conjunct of `OneVerdict`: the result row is reserved exactly while
the job is PROCESSING.  Whoever settles one settles both, so whoever comes
second, owner or recovery, finds neither.

*Promotion.*  A finalizer has seen the copy some time before it locks the row.
`CopyAtHand` says that what it has seen is still there, unless the cleanup has
meanwhile fenced the row (then finalize refuses) or rolled back after deleting.
Every deletion of a target goes through one of those.  `RowInOrder` collects how
the row's fields follow each other.

*CleanupSchedule.*  A token is held by one process (`TokensDiffer`), which gives
the single holder.  Whoever is about to acknowledge under the token in force has
deleted the claimed target (`AckFollowsDeletion`), whether it made the
claim itself or took it over; so the cursor passes no upload whose deletion
failed.  For the turns, going round the stamps is a cyclic order
(`Before`): if v has had a turn that u still waits for, the cursor lies between
the two, so the next candidate cannot be v again (`TurnsInOrder`).  That the
next candidate exists and is the least one uses the well-foundedness of the
natural numbers.

*WebClient.*  Every step of the tab or of its calls is a step or a stutter of
`Promotion`, so what `promotion` checks of `Promotion` behind a tab is proved
there.  The job page is right because what it has seen cannot be taken back: a
job that exists stays, and its end stays an end.  An answer under way, a cached
status and a redirection therefore stay true however late they arrive
(`WebInv`).  A page that is no form has no submission under way but one that is
adrift, and what asks for the next stage is always the one submission in force;
a file that is still read for a submission that was replaced or left ends at the
next look at its signal.

*EvidencePipeline.*  Rows are only inserted, by whichever run is first, and an
identity is written once.  For the release, the invariant follows the script
between its file operations: the report is in place before the release is
published, and the old release is gone before its report is replaced, except
where a failed deletion left it (`stuck`).

*Selections and releases.*  What deserves one is said of the pages alone
(`Deserves`): every cell is there, no row is an error, no page is named for
another issuance, enough positive pages survive each attack.  What a gate sees are
exported, counted and averaged rows.  `EarnedInv` bridges the two.  Its parts
say that every table a process or a file holds belongs to the checkpoint
(`IsExport`), which never replaces a row; that a run qualifies what deserves it
(`RunnersOK`); and that the selection file, the reader and the promotion
script's files name only such candidates (`SelectionOK`, `PromotionOK`).  So a
gate passed once stays earned, whichever process publishes the result and
however long after.  Under it lie that an ordinal of the plan names one case
(division with remainder), that counts and rates come down to numbers
of pages, and that the rank of a finite set of candidates has a first.

*Rows.*  `OwnRowsAreAccepted` compares two pieces of code that compute the same
field.  `PayloadVotesMeasure` says what a decision reports of itself: its votes
are tiles, and the status agrees with them (`IsMeasured`).  `PregateRows` and
`PromotionRows` then follow the readers check by check.

*The code.*  The interleaver puts every byte in a place of its own, also when
the last row is ragged (`EncodedFacts`), and the deinterleaver looks for it
there.  As places are as many as bytes, each is taken (`PlacesAreTaken`), so
damage and erasure claims weigh the same in either order (`DecoderFacts`).  The
ladder holds the receiver's claim, and its halvings come down to none
(`LadderEnds`).

*Decoders and alignment.*  V1 names the only identifier that has a quorum, V2
the only one there is a vote for if it has a quorum, V3 that one if the
strongest group has the quorum, so each refuses what the one before it refused.
That a strongest group exists needs the comparison of ratios by
cross-multiplication to be transitive, which needs totals that are not zero.
The template's hypothesis has score 0, below every pilot hypothesis that counts,
so it never displaces one.  What giving the template can cost is the error of
its own estimation, and only that (`TemplateNeverHides`, for V2 and for the
places V3 starts from).

*Content.*  A page read with the keys it was made with names its issuance if two
tiles are left, and is silent with other keys; the loops over profiles, page
indexes and pages end with a conclusive element if there is one
(`AttributionIsUnanimous`).  Rounding a length to the digits that are written
cannot lift it over a whole number of pixels, so no page is rendered larger than
it was issued, and the verifier's running total stays below that of the issuance
(`IssuedContentIsRecognized`).

Loops and sums are recursive functions.  As the induction theorems of the
library cannot be used here, a loop is shown to exist by `Iterates` and a
statement about it is proved by its least counterexample (`LeastNatural`).

*JobQueue.*  A manifest is written by one action only, for a job that is being
processed, and no step leads out of "succeeded"; so a manifest is never written
twice (`Signed`).  The registration it names is looked up in the transaction that
writes it, in force and with the public key of the private key at hand, so it is
trusted at that moment however old the private key is.  A registration that
exists only moves forward (`Forward`), which is all that trust depends on.

Theorems that the table names but that no run lists (types, `OneHolder`,
`JobMatchesPromotion`, `SourceKeptUntilUsed`, `FailedJobHasSettledEvidence` and
the `OneVerdict` of a verification) are about parts of `IInv`.

Only model-checked: the liveness properties, as fairness and ENABLED are beyond
the prover (`ClaimedJobSettlesWithRestarts`, `FencedOutputIsRemovedForGood`,
`ClaimedVerificationSettles`, `ReservationEnds`, `NothingIsKeptForGood`,
`SubmissionIsAnswered`, `OrdinaryIsNotStarved`, `LateCopyIsRemoved`,
`EveryJobEnds`).  Every safety property that a passing run checks is also a
theorem.
`AcceptedFilesCommit` and `GenuineSourceIsRecognized` are refuted, not
proved.

## 4. Findings

* `issuance_stuck`: `reconcile_stale_jobs` runs once, before the loop of
  `run_integrity_worker`.  A process killed after a claim and restarted at once
  finds its job not yet stale, and nothing looks at it again until some later
  restart, although ADR-002 states a timeout of 600 seconds.
* `promotion_deployed`: the README of the repository lists bounded retention as
  released, but nothing in the deployment calls `cleanup_expired`.
* `verification_pages`: `DemoVerificationResult.clean` refuses more than 5
  analyzed pages, the inspection accepts 50: a file of 6 to 50 pages fails at
  commit with DEMO_RESULT_COMMIT_FAILED.
* `verification_source`: `evidence.full_clean()` runs the field validator
  `MaxValueValidator(5)` of `DemoIssuanceResult.page_count`, which saving the
  row does not.  Every verification that leads to a genuine issuance of 6 to 50
  pages is answered INVALID_MANIFEST.

The following are no contradictions to what the repository says of itself, but a
maintainer should know them.  Where a model shows one, it is named.

*Workers and queue.*
* A tombstone (a failed issuance whose key must be deleted again at every start)
  keeps its `updated_at`, so with `Limit` of them the start-up recovery never
  reaches a stale job (the exception in `EveryJobEnds`).
* `_integrity_signing_key_locked` takes two rows before it drops expired ones
  (`demo/issuance.py:1163-1179`): two registrations of the same key, both
  expired, hide a third that is valid, and the commit fails.
* `_prepare_one_retry` waits for a status that no code produces.

*Cleanup.*  Ordinary candidates already tried are remembered within one run
only: if the store refuses at least half as many keys as the batch has slots,
the keys behind them are not tried.

*Content.*
* A page whose length rounds to zero in `_pdf_number` is issued and can never be
  verified; `IssuedContentIsRecognized` excepts it.
* An image is tried as one of the first five pages, so an image of a later page
  is never attributed.
* A JPEG that is not square and is stored turned is refused by the decoding
  verifier and accepted by the other one (`AttributionIsUnanimous`).
* The extension of an output key follows the type the upload declared, its
  content type the bytes.

*Benchmark.*
* The V1 loader expects no crop geometry of a failed case, while the runner
  records it when the decode failed after the crop: a complete benchmark is then
  refused as malformed instead of being reported as not promotable
  (`promotion.py:809`).  The V2 pre-gate refuses the negative confidence that a
  pilot correlation below zero gives.  Both are the exceptions of
  `OwnRowsAreAccepted`.
* When publication finds a different release in place, the script's handler
  deletes that release and the report.  When the evidence cannot be loaded, it
  deletes the release and leaves the old report; when a deletion fails, a release
  can stand beside a report that says there is none (`stuck` excepts it in
  `ReleaseHasItsReport`).
* A V2 or V3 run that turns out to belong to another plan has emptied a valid
  selection before it aborts.
* `build_execution_plan` hashes the selection file again after it was validated.

*Web client.*
* If the reply to the call that creates the job is lost, the form shows a
  failure although the job exists; trying again makes a second upload and job.
* The pages of a document, an issuance or a verification do not poll; only the
  job page does.
* A submission made offline is paused, and leaving its form does not stop it: it
  makes its upload and its job once the browser is online and takes the user to
  the job page from wherever he is (`LeavingStopsTheForm` excepts it).  Two
  paused submissions of two forms both run.

*Decoders.*  With a template, a library error in the ORB estimation loses a page
that the pilot alone aligns (`synchronization_v2.py:189-198`; the test
`src/research/python/tests/reference/test_synchronization_v2_geometry.py:716` expects the
error), and in V3 also the places that need no search.
`TemplateOnlyHelps` excepts exactly this.

## 5. Not modelled, and why

* Rendering, correlation, embedding and image codecs: numeric code; the models
  keep what it finds and whether it succeeds.
* `promotion_v2.py`: its pins name an empty selection and no full plan
  (`REQUIRED_SELECTION_IDS`, `REQUIRED_FULL_PLAN_SHA256`), so at this commit it
  can only remove a release and report that there is none; what it would do with
  rows cannot run.
* Sharded runs and the later experiment scripts of `src/research/python`: they
  combine outputs of the runs modelled here.
* Sessions, roles, throttles, `audit`, `health`, `observability`, `openapi`:
  request handling without interleaving state of its own; a refused request
  changes nothing.
* In the web client: the landing page, the session and its boundary, the lists,
  the capabilities that hide a form.
* `src/infra`, `src/contracts`, `src/reports`, fixtures and docs: deployment and
  data.
* A second attempt of a job: no code ever produces RETRYABLE_FAILED, and `IInv`
  of both workers includes that it never arises.
* A second PUT of a presigned URL (the client sends one), the two looks of
  `complete_upload` at the clock (one step here), and a fenced key that the store
  refuses for ever and that holds its lane (what the tests ask for, a consequence
  of `ClaimIsNotBypassed`).

`PROJECT.json` lists every hazard with the properties that cover it, and says of
those that no property covers why.

## 6. Plan

1. `promotion_v2.py` on `EvidencePipeline`, once its pins admit a full run.
2. `Promotion` with `IssuanceWorker` through `JobLifecycle`, instead of the three
   job states `Promotion` has now.
3. Liveness of the cleanup with two processes; the expiry checks around the
   storage call of `complete_upload`.
