-------------------------- MODULE PromotionProofs --------------------------
(***************************************************************************)
(* Proofs, for any number of API requests and any retry bound, of the      *)
(* safety properties of Promotion, and that it implements InputContract.   *)
(*                                                                         *)
(* The argument: after a copy was found, only the cleanup of a stale       *)
(* reservation deletes the target, and it fences the row in the same       *)
(* transaction (CopyAtHand); so a reservation that can still be finalized  *)
(* has its target, and the job it becomes starts with it.  From then on    *)
(* the target is eligible only when the job's window is over, and          *)
(* compensation and reconciliation touch fenced rows only                  *)
(* (JobMatchesPromotion).                                                  *)
(***************************************************************************)
EXTENDS Promotion, TLAPS
-----------------------------------------------------------------------------
(* Types.  The Boolean variables are kept apart from the others.           *)

FlagsOK ==
    /\ finalized \in BOOLEAN
    /\ stale \in BOOLEAN
    /\ sourceDeleted \in BOOLEAN
    /\ targetDeleted \in BOOLEAN
    /\ source \in BOOLEAN
    /\ target \in BOOLEAN
    /\ erased \in BOOLEAN

FieldsOK ==
    /\ upload \in Age
    /\ promotion \in PromotionStatus
    /\ job \in JobState
    /\ put \in PutState
    /\ attempts \in 0 .. MaxAttempts
    /\ inFlight \in 0 .. attempts
    /\ pc \in [Requests -> Place]

\* No step writes anything but a truth value to a flag.
LEMMA FlagsPreserved == FlagsOK /\ [Next]_vars => FlagsOK'
<1> SUFFICES ASSUME FlagsOK, [Next]_vars PROVE FlagsOK'
  OBVIOUS
<1> USE DEF FlagsOK, rowVars, storageVars
<1>1. CASE Browser
  BY <1>1, ZenonT(30) DEF Browser, CreateUpload, SendPut, PutAnswered,
     CompleteUpload
<1>2. CASE Copy
  BY <1>2, ZenonT(30) DEF Copy, CopyLands, CopyLost
<1>3. CASE Time
  BY <1>3, ZenonT(30) DEF Time, Expire, BecomeStale, BecomeOrphaned
<1>4. CASE JobMoves
  BY <1>4, ZenonT(30) DEF JobMoves
<1>5. CASE Cleanup
  BY <1>5, ZenonT(30) DEF Cleanup, CleanTarget, CleanTargetRollsBack,
     CleanSource, CleanSourceRollsBack, Reconcile, TargetEligible
<1>6. ASSUME NEW r \in Requests, Create(r) \/ Stop(r)
      PROVE  FlagsOK'
  BY <1>6, ZenonT(30) DEF Create, Reserve, SendCopy, CopySucceeds, CopyFails,
     Finalize, FinalizeFails, Compensate, MarkFailed, MarkNothing,
     ReleaseSource, ReleaseDeferred, Stop, SavePromotion, Allowed, Goto,
     Unchanged
<1>7. CASE UNCHANGED vars
  BY <1>7, ZenonT(30) DEF vars
<1> QED
  BY <1>1, <1>2, <1>3, <1>4, <1>5, <1>6, <1>7 DEF Next

\* Every other variable stays in its set; no more copies are in flight than
\* were sent.
LEMMA FieldsPreserved == FieldsOK /\ [Next]_vars => FieldsOK'
<1> SUFFICES ASSUME FieldsOK, [Next]_vars PROVE FieldsOK'
  OBVIOUS
<1> USE MaxAttemptsAssumption DEF FieldsOK, rowVars, storageVars, Age,
   PromotionStatus, JobState, PutState, Place
<1>1. CASE Browser
  BY <1>1, SMTT(30) DEF Browser, CreateUpload, SendPut, PutAnswered,
     CompleteUpload
<1>2. CASE Copy
  BY <1>2, SMTT(30) DEF Copy, CopyLands, CopyLost
<1>3. CASE Time
  BY <1>3, SMTT(30) DEF Time, Expire, BecomeStale, BecomeOrphaned
<1>4. CASE JobMoves
  BY <1>4, SMTT(30) DEF JobMoves
<1>5. CASE Cleanup
  BY <1>5, SMTT(30) DEF Cleanup, CleanTarget, CleanTargetRollsBack,
     CleanSource, CleanSourceRollsBack, Reconcile, TargetEligible
<1>6. ASSUME NEW r \in Requests, Create(r) \/ Stop(r)
      PROVE  FieldsOK'
  BY <1>6, SMTT(30) DEF Create, Reserve, SendCopy, CopySucceeds, CopyFails,
     Finalize, FinalizeFails, Compensate, MarkFailed, MarkNothing,
     ReleaseSource, ReleaseDeferred, Stop, SavePromotion, Allowed, Goto,
     Unchanged
<1>7. CASE UNCHANGED vars
  BY <1>7, SMTT(30) DEF vars
<1> QED
  BY <1>1, <1>2, <1>3, <1>4, <1>5, <1>6, <1>7 DEF Next

Typed == FlagsOK /\ FieldsOK

LEMMA TypedPreserved == Typed /\ [Next]_vars => Typed'
  BY FlagsPreserved, FieldsPreserved DEF Typed

LEMMA TypedIsTypeOK == Typed => TypeOK
<1> SUFFICES ASSUME Typed PROVE TypeOK
  OBVIOUS
<1>1. attempts \in 0 .. MaxAttempts /\ inFlight \in 0 .. MaxAttempts
  BY MaxAttemptsAssumption DEF Typed, FieldsOK
<1> QED
  BY <1>1, Zenon DEF Typed, FlagsOK, FieldsOK, TypeOK

LEMMA InitTyped == Init => Typed
<1>1. Init => FlagsOK
  BY Zenon DEF Init, FlagsOK
<1>2. Init => FieldsOK
  BY MaxAttemptsAssumption DEF Init, FieldsOK, Age, PromotionStatus, JobState,
     PutState, Place
<1> QED
  BY <1>1, <1>2 DEF Typed

\* Every variable keeps its type, and the client sends no more copies than its
\* configuration allows.
THEOREM TypeCorrect == Spec => []TypeOK
<1>1. Init => Typed
  BY InitTyped
<1>2. Typed /\ [Next]_vars => Typed'
  BY TypedPreserved
<1>3. Typed => TypeOK
  BY TypedIsTypeOK
<1> QED
  BY <1>1, <1>2, <1>3, PTL DEF Spec

-----------------------------------------------------------------------------
(* The inductive invariant.                                                *)

\* IInv without its types.
Facts ==
    /\ CopyAtHand
    /\ RowInOrder
    /\ ActiveJobHasItsInput
    /\ JobMatchesPromotion
    /\ SourceKeptUntilUsed

\* One step per action; the parts of the invariant support each other.
LEMMA FactsPreserved == Typed /\ Facts /\ [Next]_vars => Facts'
<1> SUFFICES ASSUME Typed, Facts, [Next]_vars PROVE Facts'
  OBVIOUS
<1> USE DEF Typed, FieldsOK, FlagsOK, Facts, CopyAtHand, Unchanged, RowInOrder,
   ActiveJobHasItsInput, JobMatchesPromotion, SourceKeptUntilUsed, rowVars,
   storageVars, Age, PromotionStatus, JobState, PutState, Place
<1>1. CASE Browser
  <2>1. CASE CreateUpload
    BY <2>1 DEF CreateUpload
  <2>2. CASE SendPut
    BY <2>2 DEF SendPut
  <2>3. CASE PutAnswered
    BY <2>3 DEF PutAnswered
  <2>4. CASE CompleteUpload
    BY <2>4 DEF CompleteUpload
  <2> QED
    BY <1>1, <2>1, <2>2, <2>3, <2>4 DEF Browser
<1>2. CASE Copy
  <2>1. CASE CopyLands
    BY <2>1 DEF CopyLands
  <2>2. CASE CopyLost
    BY <2>2 DEF CopyLost
  <2> QED
    BY <1>2, <2>1, <2>2 DEF Copy
<1>3. CASE Time
  <2>1. CASE Expire
    BY <2>1 DEF Expire
  <2>2. CASE BecomeStale
    BY <2>2 DEF BecomeStale
  <2>3. CASE BecomeOrphaned
    BY <2>3 DEF BecomeOrphaned
  <2> QED
    BY <1>3, <2>1, <2>2, <2>3 DEF Time
<1>4. CASE JobMoves
  BY <1>4 DEF JobMoves
<1>5. CASE Cleanup
  \* An active job's input is not eligible; a reservation is fenced with it.
  <2>1. CASE CleanTarget
    BY <2>1 DEF CleanTarget, TargetEligible
  \* The one step that deletes a target without fencing it.
  <2>2. CASE CleanTargetRollsBack
    BY <2>2 DEF CleanTargetRollsBack, TargetEligible
  <2>3. CASE CleanSource
    BY <2>3 DEF CleanSource
  <2>4. CASE CleanSourceRollsBack
    BY <2>4 DEF CleanSourceRollsBack
  \* As above.
  <2>5. CASE Reconcile
    BY <2>5 DEF Reconcile
  <2> QED
    BY <1>5, <2>1, <2>2, <2>3, <2>4, <2>5 DEF Cleanup
<1>6. ASSUME NEW r \in Requests, Create(r) \/ Stop(r)
      PROVE  Facts'
  <2>1. CASE Reserve(r)
    BY <2>1 DEF Reserve, SavePromotion, Allowed, Goto
  <2>2. CASE SendCopy(r)
    BY <2>2 DEF SendCopy
  <2>3. CASE CopySucceeds(r)
    BY <2>3 DEF CopySucceeds, Goto
  <2>4. CASE CopyFails(r)
    BY <2>4 DEF CopyFails, Goto
  \* The copy that was found is still there: CopyAtHand.
  <2>5. CASE Finalize(r)
    BY <2>5 DEF Finalize, Unchanged, SavePromotion, Allowed, Goto
  <2>6. CASE FinalizeFails(r)
    BY <2>6 DEF FinalizeFails, Goto
  \* A fenced target has no active job: JobMatchesPromotion.
  <2>7. CASE Compensate(r)
    BY <2>7 DEF Compensate, Goto
  <2>8. CASE MarkFailed(r)
    BY <2>8 DEF MarkFailed, SavePromotion, Allowed, Goto
  <2>9. CASE MarkNothing(r)
    BY <2>9 DEF MarkNothing, Goto
  <2>10. CASE ReleaseSource(r)
    BY <2>10 DEF ReleaseSource, Goto
  <2>11. CASE ReleaseDeferred(r)
    BY <2>11 DEF ReleaseDeferred, Goto
  <2>12. CASE Stop(r)
    BY <2>12 DEF Stop, Goto
  <2> QED
    BY <1>6, <2>1, <2>2, <2>3, <2>4, <2>5, <2>6, <2>7, <2>8, <2>9, <2>10,
       <2>11, <2>12 DEF Create
<1>7. CASE UNCHANGED vars
  BY <1>7 DEF vars
<1> QED
  BY <1>1, <1>2, <1>3, <1>4, <1>5, <1>6, <1>7 DEF Next

\* The parts of IInv hold together in every reachable state.
THEOREM InductiveInvariant == Spec => []IInv
<1>1. Init => Typed /\ Facts
  BY InitTyped DEF Init, Facts, CopyAtHand, Unchanged, RowInOrder,
     ActiveJobHasItsInput, JobMatchesPromotion, SourceKeptUntilUsed
<1>2. (Typed /\ Facts) /\ [Next]_vars => (Typed /\ Facts)'
  BY TypedPreserved, FactsPreserved
<1>3. Typed /\ Facts => IInv
  BY TypedIsTypeOK DEF Facts, IInv
<1> QED
  BY <1>1, <1>2, <1>3, PTL DEF Spec

\* A job that may still be worked on finds its input, unless the cleanup of an
\* hour-old reservation was rolled back after its deletion.
THEOREM JobFindsItsInput == Spec => []ActiveJobHasItsInput
<1>1. IInv => ActiveJobHasItsInput
  BY DEF IInv
<1> QED
  BY <1>1, InductiveInvariant, PTL

\* Jobs and attached uploads correspond, and no retained input is deleted.
THEOREM JobsMatch == Spec => []JobMatchesPromotion
<1>1. IInv => JobMatchesPromotion
  BY DEF IInv
<1> QED
  BY <1>1, InductiveInvariant, PTL

\* The uploaded file stays for as long as a reservation may need it.
THEOREM SourceKept == Spec => []SourceKeptUntilUsed
<1>1. IInv => SourceKeptUntilUsed
  BY DEF IInv
<1> QED
  BY <1>1, InductiveInvariant, PTL

-----------------------------------------------------------------------------
(* Promotion implements InputContract.                                     *)

\* Every step is a step of the contract, or leaves it as it is.
LEMMA StepRefinesInput == IInv /\ [Next]_vars => [Input!Next]_(Input!vars)
<1> SUFFICES ASSUME IInv, [Next]_vars
             PROVE  [Input!Next]_(Input!vars)
  OBVIOUS
<1> USE DEF Input!Next, Input!vars, Input!Reserve, Input!Attach,
   Input!FinishJob, Input!Release, IInv, TypeOK, RowInOrder,
   JobMatchesPromotion, rowVars, storageVars, PromotionStatus, JobState
<1>1. CASE Browser
  <2>1. CASE CreateUpload
    BY <2>1 DEF CreateUpload
  <2>2. CASE SendPut
    BY <2>2 DEF SendPut
  <2>3. CASE PutAnswered
    BY <2>3 DEF PutAnswered
  <2>4. CASE CompleteUpload
    BY <2>4 DEF CompleteUpload
  <2> QED
    BY <1>1, <2>1, <2>2, <2>3, <2>4 DEF Browser
<1>2. CASE Copy
  <2>1. CASE CopyLands
    BY <2>1 DEF CopyLands
  <2>2. CASE CopyLost
    BY <2>2 DEF CopyLost
  <2> QED
    BY <1>2, <2>1, <2>2 DEF Copy
<1>3. CASE Time
  <2>1. CASE Expire
    BY <2>1 DEF Expire
  <2>2. CASE BecomeStale
    BY <2>2 DEF BecomeStale
  <2>3. CASE BecomeOrphaned
    BY <2>3 DEF BecomeOrphaned
  <2> QED
    BY <1>3, <2>1, <2>2, <2>3 DEF Time
<1>4. CASE JobMoves
  BY <1>4 DEF JobMoves
<1>5. CASE Cleanup
  <2>1. CASE CleanTarget
    BY <2>1 DEF CleanTarget, TargetEligible
  <2>2. CASE CleanTargetRollsBack
    BY <2>2 DEF CleanTargetRollsBack, TargetEligible
  <2>3. CASE CleanSource
    BY <2>3 DEF CleanSource
  <2>4. CASE CleanSourceRollsBack
    BY <2>4 DEF CleanSourceRollsBack
  <2>5. CASE Reconcile
    BY <2>5 DEF Reconcile
  <2> QED
    BY <1>5, <2>1, <2>2, <2>3, <2>4, <2>5 DEF Cleanup
<1>6. ASSUME NEW r \in Requests, Create(r) \/ Stop(r)
      PROVE  [Input!Next]_(Input!vars)
  <2>1. CASE Reserve(r)
    BY <2>1 DEF Reserve, SavePromotion, Allowed, Goto
  <2>2. CASE SendCopy(r)
    BY <2>2 DEF SendCopy
  <2>3. CASE CopySucceeds(r)
    BY <2>3 DEF CopySucceeds, Goto
  <2>4. CASE CopyFails(r)
    BY <2>4 DEF CopyFails, Goto
  <2>5. CASE Finalize(r)
    BY <2>5 DEF Finalize, Unchanged, SavePromotion, Allowed, Goto
  <2>6. CASE FinalizeFails(r)
    BY <2>6 DEF FinalizeFails, Goto
  <2>7. CASE Compensate(r)
    BY <2>7 DEF Compensate, Goto
  <2>8. CASE MarkFailed(r)
    BY <2>8 DEF MarkFailed, SavePromotion, Allowed, Goto
  <2>9. CASE MarkNothing(r)
    BY <2>9 DEF MarkNothing, Goto
  <2>10. CASE ReleaseSource(r)
    BY <2>10 DEF ReleaseSource, Goto
  <2>11. CASE ReleaseDeferred(r)
    BY <2>11 DEF ReleaseDeferred, Goto
  <2>12. CASE Stop(r)
    BY <2>12 DEF Stop, Goto
  <2> QED
    BY <1>6, <2>1, <2>2, <2>3, <2>4, <2>5, <2>6, <2>7, <2>8, <2>9, <2>10,
       <2>11, <2>12 DEF Create
<1>7. CASE UNCHANGED vars
  BY <1>7 DEF vars
<1> QED
  BY <1>1, <1>2, <1>3, <1>4, <1>5, <1>6, <1>7 DEF Next

\* An upload is promoted to the input of at most one job, which keeps it until
\* the job is over; an input that was given up is never attached.
THEOREM Refinement == Spec => ImplementsInputContract
<1>1. Init => Input!Init
  BY DEF Init, Input!Init
<1> QED
  BY <1>1, StepRefinesInput, InductiveInvariant, PTL
     DEF Spec, ImplementsInputContract, Input!Spec
=============================================================================
