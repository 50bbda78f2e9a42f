---------------------- MODULE VerificationWorkerProofs ----------------------
(***************************************************************************)
(* Proofs, for any number of processes, tokens and page counts, that the   *)
(* safety properties of VerificationWorker hold and that it implements     *)
(* JobLifecycle.                                                           *)
(*                                                                         *)
(* The argument: the job is claimed once (SingleOwner), and the reserved   *)
(* row goes with the status PROCESSING (OneVerdict).  Whoever settles the  *)
(* one settles the other in the same transaction, so the second of a slow  *)
(* owner and a recovery finds neither.                                     *)
(***************************************************************************)
EXTENDS VerificationWorker, TLAPS

-----------------------------------------------------------------------------
(* The verdict.                                                            *)

\* Whatever file and source the commit finds, _resolve_source_locked answers
\* with a conclusive verdict, and from the hash if the hash is known.
LEMMA ResolveConcludes ==
    ASSUME suspect \in Suspect
    PROVE  /\ Resolve \in Conclusion
           /\ suspect.hash > 0 => Resolve \in HashVerdicts
<1>1. suspect.hash \in 0..2
  BY DEF Suspect
<1>2. ByHash \in {"verified_intact", "invalid_manifest"}
  BY DEF ByHash
<1>3. ByFingerprint \in Conclusion
  BY DEF ByFingerprint, Conclusion
<1> QED
  BY <1>1, <1>2, <1>3 DEF Resolve, WithoutHash, Conclusion, HashVerdicts

-----------------------------------------------------------------------------
(* Types: the truth values, the files, and the rest.                       *)

FlagsOK ==
    /\ cancelRequested \in BOOLEAN
    /\ jobError \in BOOLEAN
    /\ aged \in BOOLEAN
    /\ receipt \in BOOLEAN

FilesOK == suspect \in Suspect /\ source \in Source /\ manifest \in Manifest

FieldsOK ==
    /\ status \in JobStatus
    /\ resultState \in ResultState
    /\ ownerToken \in Tokens \cup {NoToken}
    /\ verdict \in Conclusion \cup {"none", "processing_failed"}
    /\ pc \in [Workers -> Place]
    /\ token \in [Workers -> Tokens \cup {NoToken}]

\* No step writes anything but a truth value to a flag.
LEMMA FlagsPreserved == FlagsOK /\ [Next]_vars => FlagsOK'
<1> SUFFICES ASSUME FlagsOK, [Next]_vars PROVE FlagsOK'
  OBVIOUS
<1> USE DEF FlagsOK, jobVars, resultVars, fileVars, localVars, SaveJob
<1>1. CASE RequestCancel
  BY <1>1, Zenon DEF RequestCancel, Terminal
<1>2. CASE AgePasses
  BY <1>2, Zenon DEF AgePasses
<1>3. CASE Distrust
  BY <1>3, Zenon DEF Distrust
<1>4. ASSUME NEW w \in Workers, Start(w) \/ Stop(w)
      PROVE  FlagsOK'
  BY <1>4, Zenon DEF Start, Stop
<1>5. ASSUME NEW w \in Workers, Loop(w)
      PROVE  FlagsOK'
  <2>1. CASE StageNextCreatedJob(w)
    BY <2>1, Zenon DEF StageNextCreatedJob
  <2>2. CASE ClaimRejects(w)
    BY <2>2, Zenon DEF ClaimRejects
  <2>3. CASE ClaimNextJob(w)
    BY <2>3, Zenon DEF ClaimNextJob, FreshToken, Reply
  <2> QED
    BY <1>5, <2>1, <2>2, <2>3 DEF Loop
<1>6. ASSUME NEW w \in Workers, Process(w)
      PROVE  FlagsOK'
  <2>1. CASE Acquire(w)
    BY <2>1, Zenon DEF Acquire
  <2>2. CASE AcquireFails(w)
    BY <2>2, Zenon DEF AcquireFails
  <2>3. CASE CancelBeforeWork(w)
    BY <2>3, Zenon DEF CancelBeforeWork, MayWork, CancelLocked, SettleResult,
       Reply
  <2>4. CASE Download(w)
    BY <2>4, Zenon DEF Download, MayWork
  <2>5. CASE Inspect(w)
    BY <2>5, Zenon DEF Inspect, MayWork
  <2>6. CASE WorkFails(w)
    BY <2>6, Zenon DEF WorkFails
  <2>7. CASE CommitCancelled(w)
    BY <2>7, Zenon DEF CommitCancelled, MayCommit, CancelLocked, SettleResult,
       Reply
  <2>8. CASE CommitVerificationResult(w)
    BY <2>8, Zenon DEF CommitVerificationResult, MayCommit, SettleResult,
       Reply
  <2>9. CASE CommitFails(w)
    BY <2>9, Zenon DEF CommitFails
  <2>10. CASE RecordFailedJob(w)
    BY <2>10, Zenon DEF RecordFailedJob, FailLocked, SettleResult
  <2>11. CASE RecordNothing(w)
    BY <2>11, Zenon DEF RecordNothing
  <2> QED
    BY <1>6, <2>1, <2>2, <2>3, <2>4, <2>5, <2>6, <2>7, <2>8, <2>9, <2>10,
       <2>11 DEF Process
<1>7. ASSUME NEW w \in Workers, Recover(w)
      PROVE  FlagsOK'
  <2>1. CASE NothingStale(w)
    BY <2>1, Zenon DEF NothingStale, Stale
  <2>2. CASE SettleStale(w)
    BY <2>2, Zenon DEF SettleStale, Stale, FailLocked, SettleResult
  <2> QED
    BY <1>7, <2>1, <2>2 DEF Recover
<1>8. CASE UNCHANGED vars
  BY <1>8, Zenon DEF vars
<1> QED
  BY <1>1, <1>2, <1>3, <1>4, <1>5, <1>6, <1>7, <1>8 DEF Next

\* The files are what they are; only the source's manifest may lose its trust.
LEMMA FilesPreserved == FilesOK /\ [Next]_vars => FilesOK'
<1> SUFFICES ASSUME FilesOK, [Next]_vars PROVE FilesOK'
  OBVIOUS
<1> USE DEF FilesOK, jobVars, resultVars, fileVars, localVars
<1>1. CASE RequestCancel
  BY <1>1, Zenon DEF RequestCancel, Terminal
<1>2. CASE AgePasses
  BY <1>2, Zenon DEF AgePasses
<1>3. CASE Distrust
  BY <1>3, Zenon DEF Distrust, Manifest
<1>4. ASSUME NEW w \in Workers, Start(w) \/ Stop(w)
      PROVE  FilesOK'
  BY <1>4, Zenon DEF Start, Stop
<1>5. ASSUME NEW w \in Workers, Loop(w)
      PROVE  FilesOK'
  <2>1. CASE StageNextCreatedJob(w)
    BY <2>1, Zenon DEF StageNextCreatedJob
  <2>2. CASE ClaimRejects(w)
    BY <2>2, Zenon DEF ClaimRejects
  <2>3. CASE ClaimNextJob(w)
    BY <2>3, Zenon DEF ClaimNextJob, FreshToken, Reply
  <2> QED
    BY <1>5, <2>1, <2>2, <2>3 DEF Loop
<1>6. ASSUME NEW w \in Workers, Process(w)
      PROVE  FilesOK'
  <2>1. CASE Acquire(w)
    BY <2>1, Zenon DEF Acquire
  <2>2. CASE AcquireFails(w)
    BY <2>2, Zenon DEF AcquireFails
  <2>3. CASE CancelBeforeWork(w)
    BY <2>3, Zenon DEF CancelBeforeWork, MayWork, CancelLocked, SettleResult,
       Reply
  <2>4. CASE Download(w)
    BY <2>4, Zenon DEF Download, MayWork
  <2>5. CASE Inspect(w)
    BY <2>5, Zenon DEF Inspect, MayWork
  <2>6. CASE WorkFails(w)
    BY <2>6, Zenon DEF WorkFails
  <2>7. CASE CommitCancelled(w)
    BY <2>7, Zenon DEF CommitCancelled, MayCommit, CancelLocked, SettleResult,
       Reply
  <2>8. CASE CommitVerificationResult(w)
    BY <2>8, Zenon DEF CommitVerificationResult, MayCommit, SettleResult,
       Reply
  <2>9. CASE CommitFails(w)
    BY <2>9, Zenon DEF CommitFails
  <2>10. CASE RecordFailedJob(w)
    BY <2>10, Zenon DEF RecordFailedJob, FailLocked, SettleResult
  <2>11. CASE RecordNothing(w)
    BY <2>11, Zenon DEF RecordNothing
  <2> QED
    BY <1>6, <2>1, <2>2, <2>3, <2>4, <2>5, <2>6, <2>7, <2>8, <2>9, <2>10,
       <2>11 DEF Process
<1>7. ASSUME NEW w \in Workers, Recover(w)
      PROVE  FilesOK'
  <2>1. CASE NothingStale(w)
    BY <2>1, Zenon DEF NothingStale, Stale
  <2>2. CASE SettleStale(w)
    BY <2>2, Zenon DEF SettleStale, Stale, FailLocked, SettleResult
  <2> QED
    BY <1>7, <2>1, <2>2 DEF Recover
<1>8. CASE UNCHANGED vars
  BY <1>8, Zenon DEF vars
<1> QED
  BY <1>1, <1>2, <1>3, <1>4, <1>5, <1>6, <1>7, <1>8 DEF Next

\* Every other variable stays in its set.
LEMMA FieldsPreserved == FieldsOK /\ FilesOK /\ [Next]_vars => FieldsOK'
<1> SUFFICES ASSUME FieldsOK, FilesOK, [Next]_vars PROVE FieldsOK'
  OBVIOUS
<1> HIDE DEF FilesOK
<1> USE DEF FieldsOK, jobVars, resultVars, fileVars, localVars, SaveJob, Goto,
   JobStatus, ResultState, Place, Processing
<1>1. CASE RequestCancel
  BY <1>1 DEF RequestCancel, Terminal
<1>2. CASE AgePasses
  BY <1>2 DEF AgePasses
<1>3. CASE Distrust
  BY <1>3 DEF Distrust
<1>4. ASSUME NEW w \in Workers, Start(w) \/ Stop(w)
      PROVE  FieldsOK'
  BY <1>4 DEF Start, Stop
<1>5. ASSUME NEW w \in Workers, Loop(w)
      PROVE  FieldsOK'
  <2>1. CASE StageNextCreatedJob(w)
    BY <2>1 DEF StageNextCreatedJob
  <2>2. CASE ClaimRejects(w)
    BY <2>2 DEF ClaimRejects
  <2>3. CASE ClaimNextJob(w)
    BY <2>3 DEF ClaimNextJob, FreshToken, Reply
  <2> QED
    BY <1>5, <2>1, <2>2, <2>3 DEF Loop
<1>6. ASSUME NEW w \in Workers, Process(w)
      PROVE  FieldsOK'
  <2>1. CASE Acquire(w)
    BY <2>1 DEF Acquire
  <2>2. CASE AcquireFails(w)
    BY <2>2 DEF AcquireFails
  <2>3. CASE CancelBeforeWork(w)
    BY <2>3 DEF CancelBeforeWork, MayWork, CancelLocked, SettleResult, Reply
  <2>4. CASE Download(w)
    BY <2>4 DEF Download, MayWork
  <2>5. CASE Inspect(w)
    BY <2>5 DEF Inspect, MayWork
  <2>6. CASE WorkFails(w)
    BY <2>6 DEF WorkFails
  <2>7. CASE CommitCancelled(w)
    BY <2>7 DEF CommitCancelled, MayCommit, CancelLocked, SettleResult, Reply
  <2>8. CASE CommitVerificationResult(w)
    <3>1. Resolve \in Conclusion
      BY ResolveConcludes DEF FilesOK
    <3> QED
      BY <2>8, <3>1 DEF CommitVerificationResult, MayCommit, SettleResult, Reply
  <2>9. CASE CommitFails(w)
    BY <2>9 DEF CommitFails
  <2>10. CASE RecordFailedJob(w)
    BY <2>10 DEF RecordFailedJob, FailLocked, SettleResult
  <2>11. CASE RecordNothing(w)
    BY <2>11 DEF RecordNothing
  <2> QED
    BY <1>6, <2>1, <2>2, <2>3, <2>4, <2>5, <2>6, <2>7, <2>8, <2>9, <2>10,
       <2>11 DEF Process
<1>7. ASSUME NEW w \in Workers, Recover(w)
      PROVE  FieldsOK'
  <2>1. CASE NothingStale(w)
    BY <2>1 DEF NothingStale, Stale
  <2>2. CASE SettleStale(w)
    BY <2>2 DEF SettleStale, Stale, FailLocked, SettleResult
  <2> QED
    BY <1>7, <2>1, <2>2 DEF Recover
<1>8. CASE UNCHANGED vars
  BY <1>8 DEF vars
<1> QED
  BY <1>1, <1>2, <1>3, <1>4, <1>5, <1>6, <1>7, <1>8 DEF Next

LEMMA TypeOKPreserved == TypeOK /\ [Next]_vars => TypeOK'
<1>1. TypeOK <=> FlagsOK /\ FilesOK /\ FieldsOK
  BY DEF TypeOK, FlagsOK, FilesOK, FieldsOK
<1>2. TypeOK' <=> FlagsOK' /\ FilesOK' /\ FieldsOK'
  BY DEF TypeOK, FlagsOK, FilesOK, FieldsOK
<1> QED
  BY <1>1, <1>2, FlagsPreserved, FilesPreserved, FieldsPreserved

\* The initial state is well typed.
LEMMA InitTyped == Init => TypeOK
<1>1. Init => FlagsOK
  BY Zenon DEF Init, FlagsOK
<1>2. Init => FilesOK
  BY Zenon DEF Init, FilesOK
<1>3. Init => FieldsOK
  BY DEF Init, FieldsOK, JobStatus, ResultState, Place
<1> QED
  BY <1>1, <1>2, <1>3 DEF TypeOK, FlagsOK, FilesOK, FieldsOK

\* Every variable keeps its type in every reachable state.
THEOREM TypeCorrect == Spec => []TypeOK
<1> QED
  BY InitTyped, TypeOKPreserved, PTL DEF Spec

-----------------------------------------------------------------------------
(* The inductive invariant, one step per action.  FieldsOK and FilesOK are *)
(* what it needs of the types.                                             *)

Facts ==
    /\ FieldsOK
    /\ FilesOK
    /\ SingleOwner
    /\ CancellationIsSeen
    /\ OneVerdict
    /\ DecoderNeverContradictsHash

\* One process at most works on the job, and the row is its own.
LEMMA OwnerPreserved == Facts /\ [Next]_vars => SingleOwner'
<1> SUFFICES ASSUME Facts, [Next]_vars PROVE SingleOwner'
  OBVIOUS
<1> USE DEF Facts, FieldsOK, SingleOwner, OneVerdict, Owns, jobVars,
   resultVars, fileVars, localVars, SaveJob, Goto, Processing, Terminal
<1>1. CASE RequestCancel
  BY <1>1 DEF RequestCancel, Terminal
<1>2. CASE AgePasses
  BY <1>2 DEF AgePasses
<1>3. CASE Distrust
  BY <1>3 DEF Distrust
<1>4. ASSUME NEW w \in Workers, Start(w) \/ Stop(w)
      PROVE  SingleOwner'
  BY <1>4 DEF Start, Stop
<1>5. ASSUME NEW w \in Workers, Loop(w)
      PROVE  SingleOwner'
  <2>1. CASE StageNextCreatedJob(w)
    BY <2>1 DEF StageNextCreatedJob
  <2>2. CASE ClaimRejects(w)
    BY <2>2 DEF ClaimRejects
  <2>3. CASE ClaimNextJob(w)
    BY <2>3 DEF ClaimNextJob, FreshToken, Reply
  <2> QED
    BY <1>5, <2>1, <2>2, <2>3 DEF Loop
<1>6. ASSUME NEW w \in Workers, Process(w)
      PROVE  SingleOwner'
  <2>1. CASE Acquire(w)
    BY <2>1 DEF Acquire
  <2>2. CASE AcquireFails(w)
    BY <2>2 DEF AcquireFails
  <2>3. CASE CancelBeforeWork(w)
    BY <2>3 DEF CancelBeforeWork, MayWork, CancelLocked, SettleResult, Reply
  <2>4. CASE Download(w)
    BY <2>4 DEF Download, MayWork
  <2>5. CASE Inspect(w)
    BY <2>5 DEF Inspect, MayWork
  <2>6. CASE WorkFails(w)
    BY <2>6 DEF WorkFails
  <2>7. CASE CommitCancelled(w)
    BY <2>7 DEF CommitCancelled, MayCommit, CancelLocked, SettleResult, Reply
  <2>8. CASE CommitVerificationResult(w)
    BY <2>8 DEF CommitVerificationResult, MayCommit, SettleResult, Reply
  <2>9. CASE CommitFails(w)
    BY <2>9 DEF CommitFails
  <2>10. CASE RecordFailedJob(w)
    BY <2>10 DEF RecordFailedJob, FailLocked, SettleResult
  <2>11. CASE RecordNothing(w)
    BY <2>11 DEF RecordNothing
  <2> QED
    BY <1>6, <2>1, <2>2, <2>3, <2>4, <2>5, <2>6, <2>7, <2>8, <2>9, <2>10,
       <2>11 DEF Process
<1>7. ASSUME NEW w \in Workers, Recover(w)
      PROVE  SingleOwner'
  <2>1. CASE NothingStale(w)
    BY <2>1 DEF NothingStale, Stale
  <2>2. CASE SettleStale(w)
    BY <2>2 DEF SettleStale, Stale, FailLocked, SettleResult
  <2> QED
    BY <1>7, <2>1, <2>2 DEF Recover
<1>8. CASE UNCHANGED vars
  BY <1>8 DEF vars
<1> QED
  BY <1>1, <1>2, <1>3, <1>4, <1>5, <1>6, <1>7, <1>8 DEF Next

\* A cancelled request is not answered with a success.
LEMMA CancellationPreserved == Facts /\ [Next]_vars => CancellationIsSeen'
<1> SUFFICES ASSUME Facts, [Next]_vars PROVE CancellationIsSeen'
  OBVIOUS
<1> USE DEF Facts, FieldsOK, SingleOwner, CancellationIsSeen, jobVars,
   resultVars, fileVars, localVars, SaveJob, OneVerdict, JobStatus
<1>1. CASE RequestCancel
  BY <1>1 DEF RequestCancel, Terminal
<1>2. CASE AgePasses
  BY <1>2 DEF AgePasses
<1>3. CASE Distrust
  BY <1>3 DEF Distrust
<1>4. ASSUME NEW w \in Workers, Start(w) \/ Stop(w)
      PROVE  CancellationIsSeen'
  BY <1>4 DEF Start, Stop
<1>5. ASSUME NEW w \in Workers, Loop(w)
      PROVE  CancellationIsSeen'
  <2>1. CASE StageNextCreatedJob(w)
    BY <2>1 DEF StageNextCreatedJob
  <2>2. CASE ClaimRejects(w)
    BY <2>2 DEF ClaimRejects
  <2>3. CASE ClaimNextJob(w)
    BY <2>3 DEF ClaimNextJob, FreshToken, Reply
  <2> QED
    BY <1>5, <2>1, <2>2, <2>3 DEF Loop
<1>6. ASSUME NEW w \in Workers, Process(w)
      PROVE  CancellationIsSeen'
  <2>1. CASE Acquire(w)
    BY <2>1 DEF Acquire
  <2>2. CASE AcquireFails(w)
    BY <2>2 DEF AcquireFails
  <2>3. CASE CancelBeforeWork(w)
    BY <2>3 DEF CancelBeforeWork, MayWork, CancelLocked, SettleResult, Reply
  <2>4. CASE Download(w)
    BY <2>4 DEF Download, MayWork
  <2>5. CASE Inspect(w)
    BY <2>5 DEF Inspect, MayWork
  <2>6. CASE WorkFails(w)
    BY <2>6 DEF WorkFails
  <2>7. CASE CommitCancelled(w)
    BY <2>7 DEF CommitCancelled, MayCommit, CancelLocked, SettleResult, Reply
  <2>8. CASE CommitVerificationResult(w)
    BY <2>8 DEF CommitVerificationResult, MayCommit, SettleResult, Reply
  <2>9. CASE CommitFails(w)
    BY <2>9 DEF CommitFails
  <2>10. CASE RecordFailedJob(w)
    BY <2>10 DEF RecordFailedJob, FailLocked, SettleResult
  <2>11. CASE RecordNothing(w)
    BY <2>11 DEF RecordNothing
  <2> QED
    BY <1>6, <2>1, <2>2, <2>3, <2>4, <2>5, <2>6, <2>7, <2>8, <2>9, <2>10,
       <2>11 DEF Process
<1>7. ASSUME NEW w \in Workers, Recover(w)
      PROVE  CancellationIsSeen'
  <2>1. CASE NothingStale(w)
    BY <2>1 DEF NothingStale, Stale
  <2>2. CASE SettleStale(w)
    BY <2>2 DEF SettleStale, Stale, FailLocked, SettleResult
  <2> QED
    BY <1>7, <2>1, <2>2 DEF Recover
<1>8. CASE UNCHANGED vars
  BY <1>8 DEF vars
<1> QED
  BY <1>1, <1>2, <1>3, <1>4, <1>5, <1>6, <1>7, <1>8 DEF Next

\* Job, row, verification and receipt are settled together.
LEMMA VerdictPreserved == Facts /\ [Next]_vars => OneVerdict'
<1> SUFFICES ASSUME Facts, [Next]_vars PROVE OneVerdict'
  OBVIOUS
<1> USE DEF Facts, FieldsOK, SingleOwner, OneVerdict, jobVars, resultVars,
   fileVars, localVars, SaveJob, Conclusion, Processing, JobStatus
<1>1. CASE RequestCancel
  BY <1>1 DEF RequestCancel, Terminal
<1>2. CASE AgePasses
  BY <1>2 DEF AgePasses
<1>3. CASE Distrust
  BY <1>3 DEF Distrust
<1>4. ASSUME NEW w \in Workers, Start(w) \/ Stop(w)
      PROVE  OneVerdict'
  BY <1>4 DEF Start, Stop
<1>5. ASSUME NEW w \in Workers, Loop(w)
      PROVE  OneVerdict'
  <2>1. CASE StageNextCreatedJob(w)
    BY <2>1 DEF StageNextCreatedJob
  <2>2. CASE ClaimRejects(w)
    BY <2>2 DEF ClaimRejects
  <2>3. CASE ClaimNextJob(w)
    BY <2>3 DEF ClaimNextJob, FreshToken, Reply
  <2> QED
    BY <1>5, <2>1, <2>2, <2>3 DEF Loop
<1>6. ASSUME NEW w \in Workers, Process(w)
      PROVE  OneVerdict'
  <2>1. CASE Acquire(w)
    BY <2>1 DEF Acquire
  <2>2. CASE AcquireFails(w)
    BY <2>2 DEF AcquireFails
  <2>3. CASE CancelBeforeWork(w)
    BY <2>3 DEF CancelBeforeWork, MayWork, CancelLocked, SettleResult, Reply
  <2>4. CASE Download(w)
    BY <2>4 DEF Download, MayWork
  <2>5. CASE Inspect(w)
    BY <2>5 DEF Inspect, MayWork
  <2>6. CASE WorkFails(w)
    BY <2>6 DEF WorkFails
  <2>7. CASE CommitCancelled(w)
    BY <2>7 DEF CommitCancelled, MayCommit, CancelLocked, SettleResult, Reply
  <2>8. CASE CommitVerificationResult(w)
    <3>1. Resolve \in Conclusion
      BY ResolveConcludes DEF FilesOK
    <3> QED
      BY <2>8, <3>1 DEF CommitVerificationResult, MayCommit, SettleResult, Reply
  <2>9. CASE CommitFails(w)
    BY <2>9 DEF CommitFails
  <2>10. CASE RecordFailedJob(w)
    BY <2>10 DEF RecordFailedJob, FailLocked, SettleResult
  <2>11. CASE RecordNothing(w)
    BY <2>11 DEF RecordNothing
  <2> QED
    BY <1>6, <2>1, <2>2, <2>3, <2>4, <2>5, <2>6, <2>7, <2>8, <2>9, <2>10,
       <2>11 DEF Process
<1>7. ASSUME NEW w \in Workers, Recover(w)
      PROVE  OneVerdict'
  <2>1. CASE NothingStale(w)
    BY <2>1 DEF NothingStale, Stale
  <2>2. CASE SettleStale(w)
    BY <2>2 DEF SettleStale, Stale, FailLocked, SettleResult
  <2> QED
    BY <1>7, <2>1, <2>2 DEF Recover
<1>8. CASE UNCHANGED vars
  BY <1>8 DEF vars
<1> QED
  BY <1>1, <1>2, <1>3, <1>4, <1>5, <1>6, <1>7, <1>8 DEF Next

\* The verdict of a succeeded job agrees with the hash.
LEMMA DecoderPreserved == Facts /\ [Next]_vars => DecoderNeverContradictsHash'
<1> SUFFICES ASSUME Facts, [Next]_vars PROVE DecoderNeverContradictsHash'
  OBVIOUS
<1> USE DEF Facts, SingleOwner, OneVerdict, DecoderNeverContradictsHash,
   HashVerdicts, jobVars, resultVars, fileVars, localVars, SaveJob
<1>1. CASE RequestCancel
  BY <1>1 DEF RequestCancel, Terminal
<1>2. CASE AgePasses
  BY <1>2 DEF AgePasses
<1>3. CASE Distrust
  BY <1>3 DEF Distrust
<1>4. ASSUME NEW w \in Workers, Start(w) \/ Stop(w)
      PROVE  DecoderNeverContradictsHash'
  BY <1>4 DEF Start, Stop
<1>5. ASSUME NEW w \in Workers, Loop(w)
      PROVE  DecoderNeverContradictsHash'
  <2>1. CASE StageNextCreatedJob(w)
    BY <2>1 DEF StageNextCreatedJob
  <2>2. CASE ClaimRejects(w)
    BY <2>2 DEF ClaimRejects
  <2>3. CASE ClaimNextJob(w)
    BY <2>3 DEF ClaimNextJob, FreshToken, Reply
  <2> QED
    BY <1>5, <2>1, <2>2, <2>3 DEF Loop
<1>6. ASSUME NEW w \in Workers, Process(w)
      PROVE  DecoderNeverContradictsHash'
  <2>1. CASE Acquire(w)
    BY <2>1 DEF Acquire
  <2>2. CASE AcquireFails(w)
    BY <2>2 DEF AcquireFails
  <2>3. CASE CancelBeforeWork(w)
    BY <2>3 DEF CancelBeforeWork, MayWork, CancelLocked, SettleResult, Reply
  <2>4. CASE Download(w)
    BY <2>4 DEF Download, MayWork
  <2>5. CASE Inspect(w)
    BY <2>5 DEF Inspect, MayWork
  <2>6. CASE WorkFails(w)
    BY <2>6 DEF WorkFails
  <2>7. CASE CommitCancelled(w)
    BY <2>7 DEF CommitCancelled, MayCommit, CancelLocked, SettleResult, Reply
  <2>8. CASE CommitVerificationResult(w)
    <3>1. verdict' = Resolve /\ suspect' = suspect
      BY <2>8 DEF CommitVerificationResult
    <3>2. suspect.hash > 0 => Resolve \in HashVerdicts
      BY ResolveConcludes DEF FilesOK
    <3> QED
      BY <3>1, <3>2 DEF HashVerdicts
  <2>9. CASE CommitFails(w)
    BY <2>9 DEF CommitFails
  <2>10. CASE RecordFailedJob(w)
    BY <2>10 DEF RecordFailedJob, FailLocked, SettleResult
  <2>11. CASE RecordNothing(w)
    BY <2>11 DEF RecordNothing
  <2> QED
    BY <1>6, <2>1, <2>2, <2>3, <2>4, <2>5, <2>6, <2>7, <2>8, <2>9, <2>10,
       <2>11 DEF Process
<1>7. ASSUME NEW w \in Workers, Recover(w)
      PROVE  DecoderNeverContradictsHash'
  <2>1. CASE NothingStale(w)
    BY <2>1 DEF NothingStale, Stale
  <2>2. CASE SettleStale(w)
    BY <2>2 DEF SettleStale, Stale, FailLocked, SettleResult
  <2> QED
    BY <1>7, <2>1, <2>2 DEF Recover
<1>8. CASE UNCHANGED vars
  BY <1>8 DEF vars
<1> QED
  BY <1>1, <1>2, <1>3, <1>4, <1>5, <1>6, <1>7, <1>8 DEF Next

\* The invariant in terms of its parts.
LEMMA InvariantInParts == IInv <=> FlagsOK /\ Facts
  BY DEF IInv, TypeOK, FlagsOK, FilesOK, FieldsOK, Facts

\* It holds at first.
LEMMA InitFacts == Init => Facts
<1>1. Init => FieldsOK /\ FilesOK
  BY InitTyped DEF TypeOK, FieldsOK, FilesOK
<1>2. Init => SingleOwner /\ CancellationIsSeen
  BY DEF Init, SingleOwner, CancellationIsSeen, Processing
<1>3. Init => OneVerdict /\ DecoderNeverContradictsHash
  BY DEF Init, OneVerdict, DecoderNeverContradictsHash, Conclusion
<1> QED
  BY <1>1, <1>2, <1>3 DEF Facts

\* Every step of every process keeps it.
LEMMA FactsPreserved == Facts /\ [Next]_vars => Facts'
<1>1. Facts /\ [Next]_vars => FieldsOK' /\ FilesOK'
  BY FieldsPreserved, FilesPreserved DEF Facts
<1> QED
  BY <1>1, OwnerPreserved, CancellationPreserved, VerdictPreserved,
     DecoderPreserved DEF Facts

\* IInv holds in every reachable state.
THEOREM InductiveInvariant == Spec => []IInv
<1>1. Init => FlagsOK /\ Facts
  BY InitTyped, InitFacts DEF TypeOK, FlagsOK
<1>2. (FlagsOK /\ Facts) /\ [Next]_vars => (FlagsOK /\ Facts)'
  BY FlagsPreserved, FactsPreserved
<1>3. FlagsOK /\ Facts => IInv
  BY InvariantInParts
<1> QED
  BY <1>1, <1>2, <1>3, PTL DEF Spec

\* Job, result row, verification and receipt always tell the same story.
THEOREM VerdictsAgree == Spec => []OneVerdict
<1>1. IInv => OneVerdict
  BY DEF IInv
<1> QED
  BY <1>1, InductiveInvariant, PTL

\* A file that is known by its hash is answered from the hash.
THEOREM HashDecides == Spec => []DecoderNeverContradictsHash
<1>1. IInv => DecoderNeverContradictsHash
  BY DEF IInv
<1> QED
  BY <1>1, InductiveInvariant, PTL

-----------------------------------------------------------------------------
(* Steps.                                                                  *)

KeepsVerdict == verdict # "none" => verdict' = verdict

\* A step that writes a verdict finds the job PROCESSING, and so without one.
LEMMA VerdictStep == Facts /\ [Next]_vars => KeepsVerdict
<1> SUFFICES ASSUME Facts, [Next]_vars PROVE KeepsVerdict
  OBVIOUS
<1> USE DEF Facts, FieldsOK, SingleOwner, OneVerdict, KeepsVerdict,
   Conclusion, jobVars, resultVars, fileVars, localVars, SaveJob
<1>1. CASE RequestCancel
  BY <1>1 DEF RequestCancel, Terminal
<1>2. CASE AgePasses
  BY <1>2 DEF AgePasses
<1>3. CASE Distrust
  BY <1>3 DEF Distrust
<1>4. ASSUME NEW w \in Workers, Start(w) \/ Stop(w)
      PROVE  KeepsVerdict
  BY <1>4 DEF Start, Stop
<1>5. ASSUME NEW w \in Workers, Loop(w)
      PROVE  KeepsVerdict
  <2>1. CASE StageNextCreatedJob(w)
    BY <2>1 DEF StageNextCreatedJob
  <2>2. CASE ClaimRejects(w)
    BY <2>2 DEF ClaimRejects
  <2>3. CASE ClaimNextJob(w)
    BY <2>3 DEF ClaimNextJob, FreshToken, Reply
  <2> QED
    BY <1>5, <2>1, <2>2, <2>3 DEF Loop
<1>6. ASSUME NEW w \in Workers, Process(w)
      PROVE  KeepsVerdict
  <2>1. CASE Acquire(w)
    BY <2>1 DEF Acquire
  <2>2. CASE AcquireFails(w)
    BY <2>2 DEF AcquireFails
  <2>3. CASE CancelBeforeWork(w)
    BY <2>3 DEF CancelBeforeWork, MayWork, CancelLocked, SettleResult, Reply
  <2>4. CASE Download(w)
    BY <2>4 DEF Download, MayWork
  <2>5. CASE Inspect(w)
    BY <2>5 DEF Inspect, MayWork
  <2>6. CASE WorkFails(w)
    BY <2>6 DEF WorkFails
  <2>7. CASE CommitCancelled(w)
    BY <2>7 DEF CommitCancelled, MayCommit, CancelLocked, SettleResult, Reply
  <2>8. CASE CommitVerificationResult(w)
    BY <2>8 DEF CommitVerificationResult, MayCommit, SettleResult, Reply
  <2>9. CASE CommitFails(w)
    BY <2>9 DEF CommitFails
  <2>10. CASE RecordFailedJob(w)
    BY <2>10 DEF RecordFailedJob, FailLocked, SettleResult
  <2>11. CASE RecordNothing(w)
    BY <2>11 DEF RecordNothing
  <2> QED
    BY <1>6, <2>1, <2>2, <2>3, <2>4, <2>5, <2>6, <2>7, <2>8, <2>9, <2>10,
       <2>11 DEF Process
<1>7. ASSUME NEW w \in Workers, Recover(w)
      PROVE  KeepsVerdict
  <2>1. CASE NothingStale(w)
    BY <2>1 DEF NothingStale, Stale
  <2>2. CASE SettleStale(w)
    BY <2>2 DEF SettleStale, Stale, FailLocked, SettleResult
  <2> QED
    BY <1>7, <2>1, <2>2 DEF Recover
<1>8. CASE UNCHANGED vars
  BY <1>8 DEF vars
<1> QED
  BY <1>1, <1>2, <1>3, <1>4, <1>5, <1>6, <1>7, <1>8 DEF Next

\* No owner, recovery or revocation changes a verdict once it is given.
THEOREM VerdictStays == Spec => VerdictIsFinal
<1>1. Facts /\ [Next]_vars => [KeepsVerdict]_vars
  BY VerdictStep
<1>2. IInv => Facts
  BY InvariantInParts
<1>3. Spec => [][KeepsVerdict]_vars
  BY <1>1, <1>2, InductiveInvariant, PTL DEF Spec
<1> QED
  BY <1>3, PTL DEF VerdictIsFinal, KeepsVerdict

\* Every step is a step of the abstract job, or leaves it as it is.
LEMMA StepRefinesJob == Facts /\ Facts' /\ [Next]_vars => [Job!Next]_(Job!vars)
<1> SUFFICES ASSUME Facts, Facts', [Next]_vars
             PROVE  [Job!Next]_(Job!vars)
  OBVIOUS
<1> USE DEF Job!Next, Job!vars, Job!RequestCancel, Job!Advance, Job!Succeed,
   Job!Transitions, Job!Terminal, Job!CancelledAtOnce, Job!JobStatus, Facts,
   FieldsOK, SingleOwner, CancellationIsSeen, OneVerdict, jobVars, resultVars,
   fileVars, localVars, JobStatus, SaveJob
<1>1. CASE RequestCancel
  BY <1>1 DEF RequestCancel, Terminal
<1>2. CASE AgePasses
  BY <1>2 DEF AgePasses
<1>3. CASE Distrust
  BY <1>3 DEF Distrust
<1>4. ASSUME NEW w \in Workers, Start(w) \/ Stop(w)
      PROVE  [Job!Next]_(Job!vars)
  BY <1>4 DEF Start, Stop
<1>5. ASSUME NEW w \in Workers, Loop(w)
      PROVE  [Job!Next]_(Job!vars)
  <2>1. CASE StageNextCreatedJob(w)
    BY <2>1 DEF StageNextCreatedJob
  <2>2. CASE ClaimRejects(w)
    BY <2>2 DEF ClaimRejects
  <2>3. CASE ClaimNextJob(w)
    BY <2>3 DEF ClaimNextJob, FreshToken, Reply
  <2> QED
    BY <1>5, <2>1, <2>2, <2>3 DEF Loop
<1>6. ASSUME NEW w \in Workers, Process(w)
      PROVE  [Job!Next]_(Job!vars)
  <2>1. CASE Acquire(w)
    BY <2>1 DEF Acquire
  <2>2. CASE AcquireFails(w)
    BY <2>2 DEF AcquireFails
  <2>3. CASE CancelBeforeWork(w)
    BY <2>3 DEF CancelBeforeWork, MayWork, CancelLocked, SettleResult, Reply
  <2>4. CASE Download(w)
    BY <2>4 DEF Download, MayWork
  <2>5. CASE Inspect(w)
    BY <2>5 DEF Inspect, MayWork
  <2>6. CASE WorkFails(w)
    BY <2>6 DEF WorkFails
  <2>7. CASE CommitCancelled(w)
    BY <2>7 DEF CommitCancelled, MayCommit, CancelLocked, SettleResult, Reply
  <2>8. CASE CommitVerificationResult(w)
    BY <2>8 DEF CommitVerificationResult, MayCommit, SettleResult, Reply
  <2>9. CASE CommitFails(w)
    BY <2>9 DEF CommitFails
  <2>10. CASE RecordFailedJob(w)
    BY <2>10 DEF RecordFailedJob, FailLocked, SettleResult
  <2>11. CASE RecordNothing(w)
    BY <2>11 DEF RecordNothing
  <2> QED
    BY <1>6, <2>1, <2>2, <2>3, <2>4, <2>5, <2>6, <2>7, <2>8, <2>9, <2>10,
       <2>11 DEF Process
<1>7. ASSUME NEW w \in Workers, Recover(w)
      PROVE  [Job!Next]_(Job!vars)
  <2>1. CASE NothingStale(w)
    BY <2>1 DEF NothingStale, Stale
  <2>2. CASE SettleStale(w)
    BY <2>2 DEF SettleStale, Stale, FailLocked, SettleResult
  <2> QED
    BY <1>7, <2>1, <2>2 DEF Recover
<1>8. CASE UNCHANGED vars
  BY <1>8 DEF vars
<1> QED
  BY <1>1, <1>2, <1>3, <1>4, <1>5, <1>6, <1>7, <1>8 DEF Next

\* A verification moves along the edges of jobs/state.py, is never answered
\* after its cancellation, and its receipt and verdict, once there, stay.
THEOREM Refinement == Spec => ImplementsJobLifecycle
<1>1. Init => Job!Init
  BY DEF Init, Job!Init
<1>2. IInv => Facts
  BY InvariantInParts
<1> QED
  BY <1>1, <1>2, StepRefinesJob, InductiveInvariant, PTL
     DEF Spec, ImplementsJobLifecycle, Job!Spec
=============================================================================
