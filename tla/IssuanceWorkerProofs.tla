------------------------ MODULE IssuanceWorkerProofs ------------------------
(***************************************************************************)
(* Proofs, for any number of processes and tokens, that the safety         *)
(* properties of IssuanceWorker hold and that it implements JobLifecycle.  *)
(*                                                                         *)
(* The argument: a job is claimed once, from QUEUED, so one process at     *)
(* most works on its output (SingleOwner).  A recovery takes the evidence  *)
(* away from it with a fresh token (RecoveryFences), after which the       *)
(* process can neither publish nor record anything.  Until then only the   *)
(* process itself deletes, and it is past its commit by then               *)
(* (OutputAtHand); so a published output stays.                            *)
(***************************************************************************)
EXTENDS IssuanceWorker, TLAPS

-----------------------------------------------------------------------------
(* Types.  The Boolean variables are kept apart from the others: Zenon does *)
(* better with the former, SMT with the latter.                            *)

FlagsOK ==
    /\ cancelRequested \in BOOLEAN
    /\ jobError \in BOOLEAN
    /\ aged \in BOOLEAN
    /\ published \in BOOLEAN
    /\ stored \in BOOLEAN

FieldsOK ==
    /\ status \in JobStatus
    /\ outputState \in OutputState
    /\ ownerToken \in Tokens \cup {NoToken}
    /\ cleanupFailures \in Nat
    /\ errorCode \in ErrorCode
    /\ put \in PutState
    /\ pc \in [Workers -> Place]
    /\ token \in [Workers -> Tokens \cup {NoToken}]
    /\ failures \in [Workers -> Nat]
    /\ cause \in [Workers -> Cause]

\* No step writes anything but a truth value to a flag.
LEMMA FlagsPreserved == FlagsOK /\ [Next]_vars => FlagsOK'
<1> SUFFICES ASSUME FlagsOK, [Next]_vars PROVE FlagsOK'
  OBVIOUS
<1> USE DEF FlagsOK, jobVars, evidenceVars, storageVars, localVars, SaveJob,
   SaveEvidence, Goto, Compensate
<1>1. CASE RequestCancel \/ AgePasses \/ PutLands
  BY <1>1, Zenon DEF RequestCancel, AgePasses, PutLands
<1>2. ASSUME NEW w \in Workers, Start(w) \/ Stop(w) \/ Loop(w)
      PROVE  FlagsOK'
  BY <1>2, Zenon DEF Start, Stop, Loop, StageNextCreatedJob, ClaimRejects,
     ClaimNextJob, FreshToken, Reply
<1>3. ASSUME NEW w \in Workers, Process(w)
      PROVE  FlagsOK'
  <2>1. CASE PersistOutputCleanup(w)
    <3>1. (failures[w] > 0) \in BOOLEAN
      OBVIOUS
    <3>4. jobError' = (failures[w] > 0) \/ jobError' = jobError
      BY <2>1, Zenon DEF PersistOutputCleanup
    <3>5. jobError' \in BOOLEAN
      BY <3>1, <3>4, Zenon
    <3>2. cancelRequested' = cancelRequested /\ aged' \in BOOLEAN
      BY <2>1, Zenon DEF PersistOutputCleanup
    <3>3. published' = published /\ stored' = stored
      BY <2>1, Zenon DEF PersistOutputCleanup
    <3> QED
      BY <3>5, <3>2, <3>3, Zenon
  <2>2. CASE ~PersistOutputCleanup(w)
    BY <1>3, <2>2, ZenonT(60) DEF Process, AcquireCancelled, Acquire,
       AcquireFails, BuildFails, BeginCancelled, BeginOutputUpload,
       UploadSucceeds, WorkspaceCleanupFails, UploadFails, CommitCancelled,
       CommitIssuanceResult, CommitFails, AuthorizeOutputCleanup,
       CleanupRefused, DeleteOutput, DeleteOutputFails, RecordFailedJob,
       RecordNothing, MayUpload
  <2> QED
    BY <2>1, <2>2
<1>4. ASSUME NEW w \in Workers, Recover(w)
      PROVE  FlagsOK'
  BY <1>4, ZenonT(60) DEF Recover, NothingStale, SettleStale,
     ClaimStaleOutput, AuthorizeStaleDelete, DeleteStaleOutput,
     DeleteStaleOutputFails, AcknowledgeStaleDelete, RecordStaleDeleteFailure,
     RecoveryRefused, RecoverTombstone, DeleteTombstoneOutput,
     DeleteTombstoneFails, FreshToken, Stale, Tombstone
<1>5. CASE UNCHANGED vars
  BY <1>5 DEF vars
<1> QED
  BY <1>1, <1>2, <1>3, <1>4, <1>5 DEF Next

\* Every other variable stays in its set.
LEMMA FieldsPreserved == FieldsOK /\ [Next]_vars => FieldsOK'
<1> SUFFICES ASSUME FieldsOK, [Next]_vars PROVE FieldsOK'
  OBVIOUS
<1> USE DEF FieldsOK, jobVars, evidenceVars, storageVars, localVars, SaveJob,
   SaveEvidence, Goto, Compensate, JobStatus, OutputState, ErrorCode,
   PutState, Place, Processing, Recovering, Cause
<1>1. CASE RequestCancel \/ AgePasses \/ PutLands
  BY <1>1 DEF RequestCancel, AgePasses, PutLands
<1>2. ASSUME NEW w \in Workers, Start(w) \/ Stop(w) \/ Loop(w)
      PROVE  FieldsOK'
  BY <1>2, SMTT(60) DEF Start, Stop, Abandoned, Loop, StageNextCreatedJob,
     ClaimRejects, ClaimNextJob, FreshToken, Reply
<1>3. ASSUME NEW w \in Workers, Process(w)
      PROVE  FieldsOK'
  BY <1>3, SMTT(60) DEF Process, AcquireCancelled, Acquire, AcquireFails,
     BuildFails, BeginCancelled, BeginOutputUpload, UploadSucceeds,
     WorkspaceCleanupFails, UploadFails, CommitCancelled,
     CommitIssuanceResult, CommitFails, AuthorizeOutputCleanup,
     CleanupRefused, DeleteOutput, DeleteOutputFails, PersistOutputCleanup,
     RecordFailedJob, RecordNothing, Abandoned, FailedOutput, LeftOver,
     MayUpload, Owns
<1>4. ASSUME NEW w \in Workers, Recover(w)
      PROVE  FieldsOK'
  BY <1>4, SMTT(60) DEF Recover, NothingStale, SettleStale, ClaimStaleOutput,
     AuthorizeStaleDelete, DeleteStaleOutput, DeleteStaleOutputFails,
     AcknowledgeStaleDelete, RecordStaleDeleteFailure, RecoveryRefused,
     RecoverTombstone, DeleteTombstoneOutput, DeleteTombstoneFails,
     FreshToken, Owns, Stale, StaleDeleteAuthorized, Tombstone
<1>5. CASE UNCHANGED vars
  BY <1>5 DEF vars
<1> QED
  BY <1>1, <1>2, <1>3, <1>4, <1>5 DEF Next

LEMMA TypeOKPreserved == TypeOK /\ [Next]_vars => TypeOK'
<1>1. TypeOK <=> FlagsOK /\ FieldsOK
  BY DEF TypeOK, FlagsOK, FieldsOK
<1>2. TypeOK' <=> FlagsOK' /\ FieldsOK'
  BY DEF TypeOK, FlagsOK, FieldsOK
<1> QED
  BY <1>1, <1>2, FlagsPreserved, FieldsPreserved

\* The initial state is well typed.
LEMMA InitTyped == Init => TypeOK
<1>1. Init => FlagsOK
  BY Zenon DEF Init, FlagsOK
<1>2. Init => FieldsOK
  BY DEF Init, FieldsOK, JobStatus, OutputState, ErrorCode, PutState, Place, Cause
<1> QED
  BY <1>1, <1>2 DEF TypeOK, FlagsOK, FieldsOK

\* Every variable keeps its type in every reachable state.
THEOREM TypeCorrect == Spec => []TypeOK
<1>1. Init => TypeOK
  BY InitTyped
<1> QED
  BY <1>1, TypeOKPreserved, PTL DEF Spec

-----------------------------------------------------------------------------
(* The inductive invariant, one step per action.  The hypothesis TypeOK'   *)
(* comes from the lemma above, so what is left to show is the rest of IInv'. *)

\* The requester, time, storage and the supervisor keep the invariant.
LEMMA EnvironmentKeepsIInv ==
  ASSUME IInv, TypeOK',
         RequestCancel \/ AgePasses \/ PutLands
           \/ \E w \in Workers : Start(w) \/ Stop(w)
  PROVE  IInv'
<1> USE DEF IInv, SingleOwner, RecoveryFences, CancellationIsSeen,
   OutputAtHand, PutOnRecord, PublishedOutputIsStored, OneVerdict,
   UnpublishedObjectIsOnRecord, FailedJobHasSettledEvidence, HasOutput,
   TypeOK, jobVars, evidenceVars, storageVars, localVars, JobStatus,
   OutputState, ErrorCode, PutState, Place, Processing, Recovering, Cause,
   SaveJob, SaveEvidence, Goto, Compensate
<1>1. CASE RequestCancel
  BY <1>1 DEF RequestCancel, Terminal
<1>2. CASE AgePasses
  BY <1>2 DEF AgePasses
\* A PUT waited for belongs to the one uploader; any other is "late".
<1>3. CASE PutLands
  BY <1>3 DEF PutLands
<1>4. ASSUME NEW w \in Workers, Start(w) PROVE IInv'
  BY <1>4 DEF Start
<1>5. ASSUME NEW w \in Workers, Stop(w) PROVE IInv'
  BY <1>5 DEF Stop, Abandoned
<1> QED
  BY <1>1, <1>2, <1>3, <1>4, <1>5

\* Staging and claiming keep the invariant.
LEMMA LoopKeepsIInv ==
  ASSUME IInv, TypeOK', NEW w \in Workers, Loop(w)
  PROVE  IInv'
<1> USE DEF IInv, SingleOwner, RecoveryFences, CancellationIsSeen,
   OutputAtHand, PutOnRecord, PublishedOutputIsStored, OneVerdict,
   UnpublishedObjectIsOnRecord, FailedJobHasSettledEvidence, HasOutput,
   TypeOK, jobVars, evidenceVars, storageVars, localVars, JobStatus,
   OutputState, ErrorCode, PutState, Place, Processing, Recovering, Cause,
   SaveJob, SaveEvidence, Goto, Compensate
<1>1. CASE StageNextCreatedJob(w)
  BY <1>1 DEF StageNextCreatedJob
<1>2. CASE ClaimRejects(w)
  BY <1>2 DEF ClaimRejects
\* A job that is still QUEUED has no evidence and no process at work.
<1>3. CASE ClaimNextJob(w)
  BY <1>3 DEF ClaimNextJob, FreshToken, Reply
<1> QED
  BY <1>1, <1>2, <1>3 DEF Loop

\* Processing a claim keeps the invariant.
LEMMA ProcessKeepsIInv ==
  ASSUME IInv, TypeOK', NEW w \in Workers, Process(w)
  PROVE  IInv'
<1> USE DEF IInv, SingleOwner, RecoveryFences, CancellationIsSeen,
   OutputAtHand, PutOnRecord, PublishedOutputIsStored, OneVerdict,
   UnpublishedObjectIsOnRecord, FailedJobHasSettledEvidence, HasOutput,
   TypeOK, jobVars, evidenceVars, storageVars, localVars, JobStatus,
   OutputState, ErrorCode, PutState, Place, Processing, Recovering, Cause,
   SaveJob, SaveEvidence, Goto, Compensate
<1>1. CASE AcquireCancelled(w)
  BY <1>1 DEF AcquireCancelled
<1>2. CASE Acquire(w)
  BY <1>2 DEF Acquire, Owns
<1>3. CASE AcquireFails(w)
  BY <1>3 DEF AcquireFails
<1>4. CASE BuildFails(w)
  BY <1>4 DEF BuildFails
<1>5. CASE BeginCancelled(w)
  BY <1>5 DEF BeginCancelled, MayUpload, Owns
<1>6. CASE BeginOutputUpload(w)
  BY <1>6 DEF BeginOutputUpload, MayUpload, Owns
<1>7. CASE UploadSucceeds(w)
  BY <1>7 DEF UploadSucceeds
<1>8. CASE WorkspaceCleanupFails(w)
  BY <1>8 DEF WorkspaceCleanupFails
<1>9. CASE UploadFails(w)
  BY <1>9 DEF UploadFails, Abandoned
<1>10. CASE CommitCancelled(w)
  BY <1>10 DEF CommitCancelled, Owns
\* The one uploader holds a landed PUT: OutputAtHand.
<1>11. CASE CommitIssuanceResult(w)
  BY <1>11 DEF CommitIssuanceResult, Owns
<1>12. CASE CommitFails(w)
  BY <1>12 DEF CommitFails
<1>13. CASE AuthorizeOutputCleanup(w)
  BY <1>13 DEF AuthorizeOutputCleanup, Owns
<1>14. CASE CleanupRefused(w)
  BY <1>14 DEF CleanupRefused, LeftOver
\* An authorized deletion cannot meet a publication: OutputAtHand.
<1>15. CASE DeleteOutput(w)
  BY <1>15 DEF DeleteOutput
<1>16. CASE DeleteOutputFails(w)
  BY <1>16 DEF DeleteOutputFails
\* The owner's write finds no fence: RecoveryFences.
<1>17. CASE PersistOutputCleanup(w)
  BY <1>17 DEF PersistOutputCleanup, LeftOver, Owns
\* A PROCESSING job is unpublished: OneVerdict.
<1>18. CASE RecordFailedJob(w)
  BY <1>18 DEF RecordFailedJob, FailedOutput, Owns
<1>19. CASE RecordNothing(w)
  BY <1>19 DEF RecordNothing
<1> QED
  BY <1>1, <1>2, <1>3, <1>4, <1>5, <1>6, <1>7, <1>8, <1>9, <1>10, <1>11,
     <1>12, <1>13, <1>14, <1>15, <1>16, <1>17, <1>18, <1>19 DEF Process

\* Start-up recovery keeps the invariant.
LEMMA RecoverKeepsIInv ==
  ASSUME IInv, TypeOK', NEW w \in Workers, Recover(w)
  PROVE  IInv'
<1> USE DEF IInv, SingleOwner, RecoveryFences, CancellationIsSeen,
   OutputAtHand, PutOnRecord, PublishedOutputIsStored, OneVerdict,
   UnpublishedObjectIsOnRecord, FailedJobHasSettledEvidence, HasOutput,
   TypeOK, jobVars, evidenceVars, storageVars, localVars, JobStatus,
   OutputState, ErrorCode, PutState, Place, Processing, Recovering, Cause,
   SaveJob, SaveEvidence, Goto, Compensate
<1>1. CASE NothingStale(w)
  BY <1>1 DEF NothingStale, Stale, Tombstone
\* The COMMITTED branch is dead: OneVerdict.
<1>2. CASE SettleStale(w)
  BY <1>2 DEF SettleStale, Stale
\* The token is fresh, so no process at work owns the evidence.
<1>3. CASE ClaimStaleOutput(w)
  BY <1>3 DEF ClaimStaleOutput, FreshToken, Stale
<1>4. CASE AuthorizeStaleDelete(w)
  BY <1>4 DEF AuthorizeStaleDelete, StaleDeleteAuthorized, Owns
\* A recovery under way means an unpublished output: RecoveryFences.
<1>5. CASE DeleteStaleOutput(w)
  BY <1>5 DEF DeleteStaleOutput
<1>6. CASE DeleteStaleOutputFails(w)
  BY <1>6 DEF DeleteStaleOutputFails
<1>7. CASE AcknowledgeStaleDelete(w)
  BY <1>7 DEF AcknowledgeStaleDelete, StaleDeleteAuthorized, Owns
<1>8. CASE RecordStaleDeleteFailure(w)
  BY <1>8 DEF RecordStaleDeleteFailure, StaleDeleteAuthorized, Owns
<1>9. CASE RecoveryRefused(w)
  BY <1>9 DEF RecoveryRefused, StaleDeleteAuthorized, Owns
<1>10. CASE RecoverTombstone(w)
  BY <1>10 DEF RecoverTombstone, Tombstone
\* A tombstone means an unpublished output: RecoveryFences.
<1>11. CASE DeleteTombstoneOutput(w)
  BY <1>11 DEF DeleteTombstoneOutput
<1>12. CASE DeleteTombstoneFails(w)
  BY <1>12 DEF DeleteTombstoneFails
<1> QED
  BY <1>1, <1>2, <1>3, <1>4, <1>5, <1>6, <1>7, <1>8, <1>9, <1>10, <1>11, <1>12
     DEF Recover

\* IInv is inductive.
LEMMA IInvPreserved == IInv /\ [Next]_vars => IInv'
<1> SUFFICES ASSUME IInv, [Next]_vars PROVE IInv'
  OBVIOUS
<1>1. TypeOK'
  BY TypeOKPreserved DEF IInv
<1>2. CASE UNCHANGED vars
  BY <1>2 DEF vars, IInv, SingleOwner, RecoveryFences, CancellationIsSeen,
     OutputAtHand, PutOnRecord, PublishedOutputIsStored, OneVerdict,
     UnpublishedObjectIsOnRecord, FailedJobHasSettledEvidence, HasOutput,
     TypeOK, jobVars, evidenceVars, storageVars, localVars
<1>3. CASE Next
  BY <1>1, <1>3, EnvironmentKeepsIInv, LoopKeepsIInv, ProcessKeepsIInv,
     RecoverKeepsIInv DEF Next
<1> QED
  BY <1>2, <1>3

\* The invariant holds of every reachable state.
THEOREM InductiveInvariant == Spec => []IInv
<1>1. Init => IInv
  BY InitTyped DEF Init, IInv, SingleOwner, RecoveryFences,
     CancellationIsSeen, OutputAtHand, PutOnRecord, PublishedOutputIsStored,
     OneVerdict, UnpublishedObjectIsOnRecord, FailedJobHasSettledEvidence,
     HasOutput, Processing, Recovering
<1> QED
  BY <1>1, IInvPreserved, PTL DEF Spec

-----------------------------------------------------------------------------
(* What the system promises.                                               *)

\* A published output is never deleted, by whichever of the three places that
\* call storage.delete.  (_commit_issuance_result)
THEOREM PublishedOutputStays == Spec => []PublishedOutputIsStored
<1>1. IInv => PublishedOutputIsStored
  BY DEF IInv
<1> QED
  BY <1>1, InductiveInvariant, PTL

\* Job, evidence and issuance never disagree on the outcome.
\* (_record_failed_job, _prepare_stale_recovery)
THEOREM VerdictsAgree == Spec => []OneVerdict
<1>1. IInv => OneVerdict
  BY DEF IInv
<1> QED
  BY <1>1, InductiveInvariant, PTL

\* CLEANED is never recorded over an object that was there.
\* (_persist_output_cleanup)
THEOREM ObjectsOnRecord == Spec => []UnpublishedObjectIsOnRecord
<1>1. IInv => UnpublishedObjectIsOnRecord
  BY DEF IInv
<1> QED
  BY <1>1, InductiveInvariant, PTL

\* A failed job leaves no evidence of work in progress.  (_record_failed_job)
THEOREM FailuresSettle == Spec => []FailedJobHasSettledEvidence
<1>1. IInv => FailedJobHasSettledEvidence
  BY DEF IInv
<1> QED
  BY <1>1, InductiveInvariant, PTL

\* A tombstone outlives every process that comes after it: its status is
\* terminal and only recoveries, which stop at a tombstone, could write its
\* evidence.  (_acknowledge_stale_output_delete)
THEOREM TombstoneStays == Spec => TombstoneIsPermanent
<1>1. ASSUME IInv, Tombstone, [Next]_vars
      PROVE  Tombstone'
  <2> USE DEF Tombstone, IInv, SingleOwner, RecoveryFences,
     CancellationIsSeen, OutputAtHand, PutOnRecord, PublishedOutputIsStored,
     OneVerdict, UnpublishedObjectIsOnRecord, FailedJobHasSettledEvidence,
     HasOutput, TypeOK, jobVars, evidenceVars, storageVars, localVars,
     JobStatus, OutputState, ErrorCode, PutState, Place, Processing,
     Recovering, Cause, SaveJob, SaveEvidence, Goto, Compensate
  <2>1. CASE RequestCancel \/ AgePasses \/ PutLands
    BY <1>1, <2>1 DEF RequestCancel, AgePasses, PutLands, Terminal
  <2>2. ASSUME NEW w \in Workers, Start(w) \/ Stop(w) \/ Loop(w)
        PROVE  Tombstone'
    BY <1>1, <2>2, SMTT(60) DEF Start, Stop, Loop, StageNextCreatedJob,
       ClaimRejects, ClaimNextJob, FreshToken, Reply
  <2>3. ASSUME NEW w \in Workers, Process(w)
        PROVE  Tombstone'
    BY <1>1, <2>3, SMTT(60) DEF Process, AcquireCancelled, Acquire,
       AcquireFails, BuildFails, BeginCancelled, BeginOutputUpload,
       UploadSucceeds, WorkspaceCleanupFails, UploadFails, CommitCancelled,
       CommitIssuanceResult, CommitFails, AuthorizeOutputCleanup,
       CleanupRefused, DeleteOutput, DeleteOutputFails, PersistOutputCleanup,
       RecordFailedJob, RecordNothing, Abandoned, FailedOutput, LeftOver,
       MayUpload, Owns
  <2>4. ASSUME NEW w \in Workers, Recover(w)
        PROVE  Tombstone'
    BY <1>1, <2>4, SMTT(60) DEF Recover, NothingStale, SettleStale,
       ClaimStaleOutput, AuthorizeStaleDelete, DeleteStaleOutput,
       DeleteStaleOutputFails, AcknowledgeStaleDelete,
       RecordStaleDeleteFailure, RecoveryRefused, RecoverTombstone,
       DeleteTombstoneOutput, DeleteTombstoneFails, FreshToken, Owns, Stale,
       StaleDeleteAuthorized
  <2>5. CASE UNCHANGED vars
    BY <1>1, <2>5 DEF vars
  <2> QED
    BY <1>1, <2>1, <2>2, <2>3, <2>4, <2>5 DEF Next
<1>2. IInv /\ [Next]_vars => [Tombstone => Tombstone']_vars
  BY <1>1
<1> QED
  BY <1>2, InductiveInvariant, PTL DEF Spec, TombstoneIsPermanent

\* Behind a fence nothing but a recovery writes the evidence: a process at work
\* does not own it.  (_locked_evidence)
THEOREM FencedOwnerIsSilent == Spec => FencedOwnerNeverWrites
<1>1. ASSUME IInv, errorCode = "fence", evidenceVars' # evidenceVars, [Next]_vars
      PROVE  RecoveryMoves
  <2> USE DEF IInv, SingleOwner, RecoveryFences, CancellationIsSeen,
     OutputAtHand, PutOnRecord, PublishedOutputIsStored, OneVerdict,
     UnpublishedObjectIsOnRecord, FailedJobHasSettledEvidence, HasOutput,
     TypeOK, jobVars, RecoveryMoves, storageVars, localVars, JobStatus,
     OutputState, ErrorCode, PutState, Place, Processing, Recovering, Cause,
     SaveJob, SaveEvidence, Goto, Compensate
  <2>1. CASE RequestCancel \/ AgePasses \/ PutLands
    BY <1>1, <2>1 DEF RequestCancel, AgePasses, PutLands, evidenceVars
  <2>2. ASSUME NEW w \in Workers, Start(w) \/ Stop(w) \/ Loop(w)
        PROVE  RecoveryMoves
    BY <1>1, <2>2, SMTT(60) DEF evidenceVars, Start, Stop, Loop,
       StageNextCreatedJob, ClaimRejects, ClaimNextJob, FreshToken, Reply
  <2>3. ASSUME NEW w \in Workers, Process(w)
        PROVE  RecoveryMoves
    BY <1>1, <2>3, SMTT(60) DEF evidenceVars, Process, AcquireCancelled,
       Acquire, AcquireFails, BuildFails, BeginCancelled, BeginOutputUpload,
       UploadSucceeds, WorkspaceCleanupFails, UploadFails, CommitCancelled,
       CommitIssuanceResult, CommitFails, AuthorizeOutputCleanup,
       CleanupRefused, DeleteOutput, DeleteOutputFails, PersistOutputCleanup,
       RecordFailedJob, RecordNothing, Abandoned, FailedOutput, LeftOver,
       MayUpload, Owns
  <2>4. ASSUME NEW w \in Workers, Recover(w)
        PROVE  RecoveryMoves
    BY <1>1, <2>4, SMTT(60) DEF evidenceVars, Recover, NothingStale,
       SettleStale, ClaimStaleOutput, AuthorizeStaleDelete, DeleteStaleOutput,
       DeleteStaleOutputFails, AcknowledgeStaleDelete,
       RecordStaleDeleteFailure, RecoveryRefused, RecoverTombstone,
       DeleteTombstoneOutput, DeleteTombstoneFails, FreshToken, Owns, Stale,
       StaleDeleteAuthorized, Tombstone
  <2>5. CASE UNCHANGED vars
    BY <1>1, <2>5 DEF vars
  <2> QED
    BY <1>1, <2>1, <2>2, <2>3, <2>4, <2>5 DEF Next
<1>2. IInv /\ [Next]_vars
        => [errorCode = "fence" /\ evidenceVars' # evidenceVars => RecoveryMoves]_vars
  BY <1>1
<1> QED
  BY <1>2, InductiveInvariant, PTL DEF Spec, FencedOwnerNeverWrites

-----------------------------------------------------------------------------
(* IssuanceWorker implements JobLifecycle.                                 *)

\* Every step is a step of the abstract job, or leaves it as it is.
LEMMA StepRefinesJob == IInv /\ IInv' /\ [Next]_vars => [Job!Next]_(Job!vars)
<1> SUFFICES ASSUME IInv, IInv', [Next]_vars
             PROVE  [Job!Next]_(Job!vars)
  OBVIOUS
<1> USE DEF Job!Next, Job!vars, Job!RequestCancel, Job!Advance, Job!Succeed,
   Job!Transitions, Job!Terminal, Job!CancelledAtOnce, Job!JobStatus, IInv,
   SingleOwner, RecoveryFences, CancellationIsSeen, OutputAtHand, PutOnRecord,
   PublishedOutputIsStored, OneVerdict, UnpublishedObjectIsOnRecord,
   FailedJobHasSettledEvidence, HasOutput, TypeOK, jobVars, evidenceVars,
   storageVars, localVars, JobStatus, OutputState, ErrorCode, PutState, Place,
   Processing, Recovering, Cause, SaveJob, SaveEvidence, Goto, Compensate,
   IssuanceResultEvidence, ResultIsServed
<1>1. CASE RequestCancel
  BY <1>1 DEF RequestCancel, Terminal
<1>2. CASE AgePasses
  BY <1>2 DEF AgePasses
\* A PUT that lands on a published output finds it stored already.
<1>3. CASE PutLands
  BY <1>3 DEF PutLands
<1>4. ASSUME NEW w \in Workers, Start(w) \/ Stop(w)
      PROVE  [Job!Next]_(Job!vars)
  BY <1>4 DEF Start, Stop, Abandoned
<1>5. ASSUME NEW w \in Workers, Loop(w)
      PROVE  [Job!Next]_(Job!vars)
  <2>1. CASE StageNextCreatedJob(w)
    BY <2>1 DEF StageNextCreatedJob
  <2>2. CASE ClaimRejects(w)
    BY <2>2 DEF ClaimRejects
  <2>3. CASE ClaimNextJob(w)
    BY <2>3 DEF ClaimNextJob, FreshToken, Reply
  <2> QED
    BY <1>5, <2>1, <2>2, <2>3 DEF Loop
<1>6. ASSUME NEW w \in Workers, Process(w)
      PROVE  [Job!Next]_(Job!vars)
  <2>1. CASE AcquireCancelled(w)
    BY <2>1 DEF AcquireCancelled
  <2>2. CASE Acquire(w)
    BY <2>2 DEF Acquire, Owns
  <2>3. CASE AcquireFails(w)
    BY <2>3 DEF AcquireFails
  <2>4. CASE BuildFails(w)
    BY <2>4 DEF BuildFails
  <2>5. CASE BeginCancelled(w)
    BY <2>5 DEF BeginCancelled, MayUpload, Owns
  <2>6. CASE BeginOutputUpload(w)
    BY <2>6 DEF BeginOutputUpload, MayUpload, Owns
  <2>7. CASE UploadSucceeds(w)
    BY <2>7 DEF UploadSucceeds
  <2>8. CASE WorkspaceCleanupFails(w)
    BY <2>8 DEF WorkspaceCleanupFails
  <2>9. CASE UploadFails(w)
    BY <2>9 DEF UploadFails, Abandoned
  <2>10. CASE CommitCancelled(w)
    BY <2>10 DEF CommitCancelled, Owns
  <2>11. CASE CommitIssuanceResult(w)
    BY <2>11 DEF CommitIssuanceResult, Owns
  <2>12. CASE CommitFails(w)
    BY <2>12 DEF CommitFails
  <2>13. CASE AuthorizeOutputCleanup(w)
    BY <2>13 DEF AuthorizeOutputCleanup, Owns
  <2>14. CASE CleanupRefused(w)
    BY <2>14 DEF CleanupRefused, LeftOver
  <2>15. CASE DeleteOutput(w)
    BY <2>15 DEF DeleteOutput
  <2>16. CASE DeleteOutputFails(w)
    BY <2>16 DEF DeleteOutputFails
  <2>17. CASE PersistOutputCleanup(w)
    BY <2>17 DEF PersistOutputCleanup, LeftOver, Owns
  <2>18. CASE RecordFailedJob(w)
    BY <2>18 DEF RecordFailedJob, FailedOutput, Owns
  <2>19. CASE RecordNothing(w)
    BY <2>19 DEF RecordNothing
  <2> QED
    BY <1>6, <2>1, <2>2, <2>3, <2>4, <2>5, <2>6, <2>7, <2>8, <2>9, <2>10,
       <2>11, <2>12, <2>13, <2>14, <2>15, <2>16, <2>17, <2>18, <2>19 DEF
       Process
<1>7. ASSUME NEW w \in Workers, Recover(w)
      PROVE  [Job!Next]_(Job!vars)
  <2>1. CASE NothingStale(w)
    BY <2>1 DEF NothingStale, Stale, Tombstone
  <2>2. CASE SettleStale(w)
    BY <2>2 DEF SettleStale, Stale
  <2>3. CASE ClaimStaleOutput(w)
    BY <2>3 DEF ClaimStaleOutput, FreshToken, Stale
  <2>4. CASE AuthorizeStaleDelete(w)
    BY <2>4 DEF AuthorizeStaleDelete, StaleDeleteAuthorized, Owns
  <2>5. CASE DeleteStaleOutput(w)
    BY <2>5 DEF DeleteStaleOutput
  <2>6. CASE DeleteStaleOutputFails(w)
    BY <2>6 DEF DeleteStaleOutputFails
  <2>7. CASE AcknowledgeStaleDelete(w)
    BY <2>7 DEF AcknowledgeStaleDelete, StaleDeleteAuthorized, Owns
  <2>8. CASE RecordStaleDeleteFailure(w)
    BY <2>8 DEF RecordStaleDeleteFailure, StaleDeleteAuthorized, Owns
  <2>9. CASE RecoveryRefused(w)
    BY <2>9 DEF RecoveryRefused, StaleDeleteAuthorized, Owns
  <2>10. CASE RecoverTombstone(w)
    BY <2>10 DEF RecoverTombstone, Tombstone
  <2>11. CASE DeleteTombstoneOutput(w)
    BY <2>11 DEF DeleteTombstoneOutput
  <2>12. CASE DeleteTombstoneFails(w)
    BY <2>12 DEF DeleteTombstoneFails
  <2> QED
    BY <1>7, <2>1, <2>2, <2>3, <2>4, <2>5, <2>6, <2>7, <2>8, <2>9, <2>10,
       <2>11, <2>12 DEF Recover
<1>8. CASE UNCHANGED vars
  BY <1>8 DEF vars
<1> QED
  BY <1>1, <1>2, <1>3, <1>4, <1>5, <1>6, <1>7, <1>8 DEF Next

\* Whatever crashes, lost replies, recoveries and late uploads do, the requester
\* sees a job that moves along the edges of jobs/state.py and whose output, once
\* delivered, stays.
THEOREM Refinement == Spec => ImplementsJobLifecycle
<1>1. Init => Job!Init
  BY DEF Init, Job!Init, IssuanceResultEvidence, ResultIsServed
<1> QED
  BY <1>1, StepRefinesJob, InductiveInvariant, PTL
     DEF Spec, ImplementsJobLifecycle, Job!Spec
=============================================================================
