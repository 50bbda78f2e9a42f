-------------------------- MODULE JobQueueProofs --------------------------
(***************************************************************************)
(* Proofs about the queue, for any number of jobs, registrations, key      *)
(* files, faults and changes of keys, and about the content of the files   *)
(* its jobs work on, for any limits, profiles and identifiers.             *)
(*                                                                         *)
(* The trust in a manifest only ends.  A manifest is written once, by the  *)
(* commit of the only process that works on its job, and the job never     *)
(* leaves "succeeded" (Signed).  The commit names a registration that was  *)
(* looked up in the same transaction, whose public key is that of the      *)
(* private key at hand, however old that one is.  From then on the         *)
(* registration only moves forward: it is never removed, activated again   *)
(* or moved back before its window.                                        *)
(*                                                                         *)
(* Attributions are unanimous.  A page read with the keys it was made with *)
(* names its issuance if two tiles are left; with other keys it is silent; *)
(* and the loops over profiles, indexes and pages end with a conclusive    *)
(* element if there is one.                                                *)
(*                                                                         *)
(* What is issued is recognized.  Rounding a length to the digits that are *)
(* written cannot lift it over a whole number of pixels, so no page is     *)
(* rendered larger than it was issued and the verifier's total stays below *)
(* that of the issuance after every page.                                  *)
(*                                                                         *)
(* A statement about a loop or a sum is proved by its least                *)
(* counterexample (LeastNatural).                                          *)
(***************************************************************************)
EXTENDS MCJobQueue, FingerprintProofs, TLAPS
-----------------------------------------------------------------------------
(* Rows and records.                                                       *)

IsRow(r) == r = [status |-> r.status, cancel |-> r.cancel, result |-> r.result,
                 attempt |-> r.attempt, stale |-> r.stale]
IsKey(r) == r = [status |-> r.status, window |-> r.window]

JobsOK == job = [j \in Jobs |-> job[j]] /\ \A j \in Jobs : IsRow(job[j])
KeysOK == keys = [k \in KeyIds |-> keys[k]] /\ \A k \in KeyIds : IsKey(keys[k])
ManifestsOK == manifest = [j \in Jobs |-> manifest[j]]
WorkerOK ==
    worker = [pc |-> worker.pc, batch |-> worker.batch, job |-> worker.job,
              signer |-> worker.signer]

\* A process at work works on a job that is being processed.
AtWork ==
    worker.pc = "work" => worker.job \in Jobs /\ job[worker.job].status = "processing"

\* A manifest belongs to a job that has succeeded, and names a registration
\* whose window has begun.
Signed ==
    \A j \in Jobs : manifest[j] # NoManifest =>
        /\ job[j].status = "succeeded"
        /\ manifest[j].key \in KeyIds
        /\ keys[manifest[j].key].status # "absent"
        /\ keys[manifest[j].key].window # "before"

QueueInv == JobsOK /\ KeysOK /\ ManifestsOK /\ WorkerOK /\ AtWork /\ Signed

\* What the three ways to write a row do to the statuses.
LEMMA SettleWrites ==
    ASSUME JobsOK, NEW j, NEW status, NEW result, Settle(j, status, result)
    PROVE  /\ JobsOK'
           /\ \A i \in Jobs : job'[i].status = IF i = j THEN status ELSE job[i].status
<1>1. job' = [job EXCEPT ![j] = [job[j] EXCEPT !.status = status, !.result = result,
                                               !.stale = FALSE]]
  BY DEF Settle, Save
<1>2. ASSUME NEW i \in Jobs, i # j PROVE job'[i] = job[i]
  BY <1>1, <1>2 DEF JobsOK
<1>3. ASSUME j \in Jobs
      PROVE  IsRow(job'[j]) /\ job'[j].status = status
  <2>1. job'[j] = [job[j] EXCEPT !.status = status, !.result = result, !.stale = FALSE]
    BY <1>1, <1>3 DEF JobsOK
  <2>2. job[j] = [status |-> job[j].status, cancel |-> job[j].cancel,
                  result |-> job[j].result, attempt |-> job[j].attempt,
                  stale |-> job[j].stale]
    BY <1>3 DEF JobsOK, IsRow
  <2>3. job'[j] = [status |-> status, cancel |-> job[j].cancel, result |-> result,
                   attempt |-> job[j].attempt, stale |-> FALSE]
    BY <2>1, <2>2
  <2> QED
    BY <2>3 DEF IsRow
<1>4. job' = [i \in Jobs |-> job'[i]]
  BY <1>1 DEF JobsOK
<1> QED
  BY <1>2, <1>3, <1>4 DEF JobsOK

\* A write of one field of a row that exists, whatever the field.
LEMMA FieldWrites ==
    ASSUME JobsOK, NEW j, NEW row,
           j \in Jobs => IsRow(row) /\ row.status = job[j].status,
           job' = [job EXCEPT ![j] = row]
    PROVE  JobsOK' /\ \A i \in Jobs : job'[i].status = job[i].status
<1>1. ASSUME NEW i \in Jobs
      PROVE  IsRow(job'[i]) /\ job'[i].status = job[i].status
  BY DEF JobsOK
<1>2. job' = [i \in Jobs |-> job'[i]]
  BY DEF JobsOK
<1> QED
  BY <1>1, <1>2 DEF JobsOK

LEMMA ResultWrites ==
    ASSUME JobsOK, NEW j, NEW result, job' = [job EXCEPT ![j].result = result]
    PROVE  JobsOK' /\ \A i \in Jobs : job'[i].status = job[i].status
<1> DEFINE row == [job[j] EXCEPT !.result = result]
<1>1. j \in Jobs => IsRow(row) /\ row.status = job[j].status
  <2> SUFFICES ASSUME j \in Jobs PROVE IsRow(row) /\ row.status = job[j].status
    OBVIOUS
  <2>1. IsRow(job[j])
    BY DEF JobsOK
  <2>2. row = [status |-> job[j].status, cancel |-> job[j].cancel, result |-> result, attempt |-> job[j].attempt, stale |-> job[j].stale]
    BY <2>1 DEF IsRow
  <2> QED
    BY <2>2 DEF IsRow
<1>2. job' = [job EXCEPT ![j] = row]
  OBVIOUS
<1> QED
  BY <1>1, <1>2, FieldWrites

LEMMA AgeWrites ==
    ASSUME JobsOK, NEW j, NEW stale, job' = [job EXCEPT ![j].stale = stale]
    PROVE  JobsOK' /\ \A i \in Jobs : job'[i].status = job[i].status
<1> DEFINE row == [job[j] EXCEPT !.stale = stale]
<1>1. j \in Jobs => IsRow(row) /\ row.status = job[j].status
  <2> SUFFICES ASSUME j \in Jobs PROVE IsRow(row) /\ row.status = job[j].status
    OBVIOUS
  <2>1. IsRow(job[j])
    BY DEF JobsOK
  <2>2. row = [status |-> job[j].status, cancel |-> job[j].cancel, result |-> job[j].result, attempt |-> job[j].attempt, stale |-> stale]
    BY <2>1 DEF IsRow
  <2> QED
    BY <2>2 DEF IsRow
<1>2. job' = [job EXCEPT ![j] = row]
  OBVIOUS
<1> HIDE DEF row
<1> QED
  BY <1>1, <1>2, FieldWrites

\* The oldest job of a set of jobs is one of them.
LEMMA OldestIsOne ==
    ASSUME NEW S, S \subseteq Jobs, S # {}
    PROVE  Min(S) \in S
<1>1. S \subseteq Nat
  BY QueueAssumption
<1>2. PICK x \in S : \A y \in S : ~(<<y, x>> \in OpToRel(<, Nat))
  BY <1>1, NatLessThanWellFounded, WFMin
<1>3. \A y \in S : x =< y
  <2> SUFFICES ASSUME NEW y \in S PROVE x =< y
    OBVIOUS
  <2>1. ~(y < x)
    BY <1>1, <1>2 DEF OpToRel
  <2> QED
    BY <1>1, <2>1
<1> QED
  BY <1>3 DEF Min

LEMMA OldestHas ==
    ASSUME NEW status, Having(status) # {}
    PROVE  /\ Min(Having(status)) \in Jobs
           /\ job[Min(Having(status))].status = status
<1>1. Min(Having(status)) \in Having(status)
  BY OldestIsOne DEF Having
<1> QED
  BY <1>1 DEF Having

-----------------------------------------------------------------------------
(* Jobs, and the process.                                                  *)

\* What a step of the queue does to the statuses: a job that has succeeded
\* stays so, and the job at work stays at work.
Steady ==
    /\ JobsOK'
    /\ \A j \in Jobs : job[j].status = "succeeded" => job'[j].status = "succeeded"

\* The order in which rows were written does not matter.
LEMMA SameRows == JobsOK /\ job' = job => Steady
  BY DEF JobsOK, Steady

LEMMA SteadySettle ==
    ASSUME JobsOK, NEW j, j \in Jobs => job[j].status # "succeeded",
           NEW status, NEW result, Settle(j, status, result)
    PROVE  Steady
  BY SettleWrites DEF Steady

LEMMA CreatedRow ==
    ASSUME NEW r, IsRow(r), NEW status
    PROVE  [r EXCEPT !.status = status]
             = [status |-> status, cancel |-> r.cancel, result |-> r.result,
                attempt |-> r.attempt, stale |-> r.stale]
  BY DEF IsRow

LEMMA SteadyCreate ==
    ASSUME JobsOK, NEW j \in Jobs, CreateJob(j)
    PROVE  Steady /\ job'[j].status = "created"
           /\ \A i \in Jobs : i # j => job'[i].status = job[i].status
<1>1. job' = [job EXCEPT ![j] = [NoJob EXCEPT !.status = "created"]]
  BY DEF CreateJob, Save
<1>2. [NoJob EXCEPT !.status = "created"]
        = [status |-> "created", cancel |-> NoJob.cancel, result |-> NoJob.result,
           attempt |-> NoJob.attempt, stale |-> NoJob.stale]
  <2>1. IsRow(NoJob)
    BY DEF NoJob, IsRow
  <2> QED
    BY <2>1, CreatedRow
<1>3. job[j].status = "absent"
  BY DEF CreateJob, NoJob
<1> HIDE DEF NoJob
<1>4. IsRow(job'[j]) /\ job'[j].status = "created"
  BY <1>1, <1>2 DEF JobsOK, IsRow
<1>5. \A i \in Jobs : i # j => job'[i] = job[i]
  BY <1>1 DEF JobsOK
<1>6. job' = [i \in Jobs |-> job'[i]]
  BY <1>1 DEF JobsOK
<1> QED
  BY <1>3, <1>4, <1>5, <1>6 DEF Steady, JobsOK

LEMMA SteadyCancel ==
    ASSUME JobsOK, NEW j \in Jobs, RequestCancel(j)
    PROVE  Steady /\ \A i \in Jobs : job[i].status = "processing" => job'[i].status = "processing"
<1> DEFINE new == IF job[j].status = "processing" THEN "processing" ELSE "cancelled"
<1>1. job' = [job EXCEPT ![j] = [job[j] EXCEPT !.cancel = TRUE, !.stale = FALSE,
                                              !.status = new]]
  BY DEF RequestCancel, Save
<1>2. IsRow(job[j])
  BY DEF JobsOK
<1>3. job'[j] = [job[j] EXCEPT !.cancel = TRUE, !.stale = FALSE, !.status = new]
  BY <1>1 DEF JobsOK
<1>4. job[j].status # "succeeded"
  BY DEF RequestCancel
<1> HIDE DEF new
<1>5. IsRow(job'[j]) /\ job'[j].status = new
  BY <1>2, <1>3 DEF IsRow
<1>6. \A i \in Jobs : i # j => job'[i] = job[i]
  BY <1>1 DEF JobsOK
<1>7. job' = [i \in Jobs |-> job'[i]]
  BY <1>1 DEF JobsOK
<1> QED
  BY <1>4, <1>5, <1>6, <1>7 DEF Steady, JobsOK, new

LEMMA SteadyStage ==
    ASSUME JobsOK, NEW j \in Jobs, job[j].status = "created",
           Save(j, [job[j] EXCEPT !.status = "queued"])
    PROVE  Steady
<1>1. job' = [job EXCEPT ![j] = [job[j] EXCEPT !.status = "queued"]]
  BY DEF Save
<1>2. IsRow(job[j])
  BY DEF JobsOK
<1>3. job'[j] = [job[j] EXCEPT !.status = "queued"]
  BY <1>1 DEF JobsOK
<1>4. IsRow(job'[j])
  BY <1>2, <1>3 DEF IsRow
<1>5. \A i \in Jobs : i # j => job'[i] = job[i]
  BY <1>1 DEF JobsOK
<1>6. job' = [i \in Jobs |-> job'[i]]
  BY <1>1 DEF JobsOK
<1> QED
  BY <1>4, <1>5, <1>6 DEF Steady, JobsOK

\* What every step does to jobs and process.
Orderly == Steady /\ WorkerOK' /\ AtWork'

LEMMA EndIsOrderly ==
    ASSUME Steady, EndCycle PROVE Orderly
  BY DEF EndCycle, Down, Orderly, WorkerOK, AtWork

LEMMA RequestsAreOrderly ==
    ASSUME JobsOK, WorkerOK, AtWork,
           Request \/ (\E j \in Jobs : AgePasses(j)) \/ ChangeKeys
    PROVE  Orderly
<1> USE DEF Orderly, WorkerOK, AtWork
<1>1. ASSUME NEW j \in Jobs, CreateJob(j) PROVE Orderly
  <2>1. job[j].status = "absent" /\ worker' = worker
    BY <1>1 DEF CreateJob, NoJob
  <2> QED
    BY <1>1, <2>1, SteadyCreate
<1>2. ASSUME NEW j \in Jobs, RequestCancel(j) PROVE Orderly
  <2>1. worker' = worker
    BY <1>2 DEF RequestCancel
  <2> QED
    BY <1>2, <2>1, SteadyCancel
<1>3. ASSUME NEW j \in Jobs, AgePasses(j) PROVE Orderly
  <2>1. worker' = worker /\ job' = [job EXCEPT ![j].stale = TRUE]
    BY <1>3 DEF AgePasses
  <2> QED
    BY <2>1, AgeWrites DEF Steady
<1>4. CASE ChangeKeys
  <2>1. worker' = worker /\ job' = job
    BY <1>4 DEF ChangeKeys, rowVars
  <2> QED
    BY <2>1, SameRows
<1> QED
  BY <1>1, <1>2, <1>3, <1>4 DEF Request

LEMMA StartIsOrderly ==
    ASSUME JobsOK, WorkerOK, AtWork, Recover PROVE Orderly
<1> USE DEF Orderly, WorkerOK, AtWork
<1>1. CASE Start \/ EnterLoop
  <2>1. job' = job
    BY <1>1 DEF Start, EnterLoop, rowVars
  <2>2. WorkerOK' /\ worker'.pc # "work"
    BY <1>1 DEF Start, EnterLoop
  <2> QED
    BY <2>1, <2>2, SameRows
<1>2. CASE RecoverNext
  <2> DEFINE h == Head(worker.batch)
  <2>1. WorkerOK' /\ worker'.pc # "work"
    BY <1>2 DEF RecoverNext
  <2>2. CASE job' = job
    BY <2>1, <2>2, SameRows
  <2>3. CASE job[h].status = "processing" /\ Settle(h, "failed", "fenced")
    BY <2>1, <2>3, SteadySettle
  <2>4. CASE job[h].status = "processing" /\ Settle(h, "failed", "cleaned")
    BY <2>1, <2>4, SteadySettle
  <2>5. CASE job' = [job EXCEPT ![h].result = "kept"]
    BY <2>1, <2>5, ResultWrites DEF Steady
  <2> QED
    BY <1>2, <2>2, <2>3, <2>4, <2>5 DEF RecoverNext, rowVars
<1> QED
  BY <1>1, <1>2 DEF Recover

LEMMA ClaimsAreOrderly ==
    ASSUME JobsOK, WorkerOK, AtWork,
           Stage \/ ClaimNothing \/ ClaimNextJob \/ NextCycle
    PROVE  Orderly
<1> USE DEF Orderly, WorkerOK, AtWork
<1>1. CASE Stage
  <2>1. WorkerOK' /\ worker'.pc # "work"
    BY <1>1 DEF Stage
  <2>2. CASE job' = job
    BY <2>1, <2>2, SameRows
  <2>3. ASSUME Having("created") # {},
               Save(Min(Having("created")),
                    [job[Min(Having("created"))] EXCEPT !.status = "queued"])
        PROVE  Orderly
    <3>1. Steady
      BY <2>3, OldestHas, SteadyStage
    <3> QED
      BY <2>1, <3>1
  <2> QED
    BY <1>1, <2>2, <2>3 DEF Stage, rowVars
<1>2. CASE ClaimNothing
  <2>1. WorkerOK' /\ worker'.pc # "work"
    BY <1>2 DEF ClaimNothing
  <2>2. CASE job' = job
    BY <2>1, <2>2, SameRows
  <2>3. CASE Having("queued") # {} /\ Settle(Min(Having("queued")), "failed", "none")
    <3>1. Steady
      BY <2>3, OldestHas, SteadySettle
    <3> QED
      BY <2>1, <3>1
  <2> QED
    BY <1>2, <2>2, <2>3 DEF ClaimNothing, rowVars
<1>3. CASE ClaimNextJob
  <2> DEFINE j == Min(Having("queued"))
  <2>1. j \in Jobs /\ job[j].status = "queued"
    BY <1>3, OldestHas DEF ClaimNextJob
  <2>2. Settle(j, "processing", "reserved")
    BY <1>3 DEF ClaimNextJob
  <2>3. WorkerOK' /\ worker'.job = j
    BY <1>3 DEF ClaimNextJob
  <2>4. Steady
    BY <2>1, <2>2, SteadySettle
  <2>5. job'[j].status = "processing"
    BY <2>1, <2>2, SettleWrites
  <2> QED
    BY <2>1, <2>3, <2>4, <2>5
<1>4. CASE NextCycle
  <2>1. job' = job /\ WorkerOK' /\ worker'.pc # "work"
    BY <1>4 DEF NextCycle, rowVars
  <2> QED
    BY <2>1, SameRows
<1> QED
  BY <1>1, <1>2, <1>3, <1>4

LEMMA CompensateIsOrderly ==
    ASSUME JobsOK, AtWork, worker.pc = "work", NEW status, Compensate(status)
    PROVE  Orderly
<1>1. EndCycle
  BY DEF Compensate
<1>2. CASE Settle(worker.job, status, "cleaned")
  BY <1>1, <1>2, SteadySettle, EndIsOrderly DEF AtWork
<1>3. CASE Settle(worker.job, status, "kept")
  BY <1>1, <1>3, SteadySettle, EndIsOrderly DEF AtWork
<1> QED
  BY <1>2, <1>3 DEF Compensate

LEMMA WorkIsOrderly ==
    ASSUME JobsOK, WorkerOK, AtWork, Process \/ WorkGivesUp \/ Stop \/ Crash
    PROVE  Orderly
<1>1. CASE BeginUpload
  <2>1. worker.job \in Jobs /\ job[worker.job].status = "processing"
    BY <1>1 DEF BeginUpload, AtWork
  <2>2. CASE Settle(worker.job, "cancelled", "cleaned") /\ EndCycle
    BY <2>1, <2>2, SteadySettle, EndIsOrderly
  <2>3. CASE /\ job' = [job EXCEPT ![worker.job].result = "uploading"]
             /\ worker' = worker
    BY <2>1, <2>3, ResultWrites DEF Orderly, Steady, WorkerOK, AtWork
  <2> QED
    BY <1>1, <2>2, <2>3 DEF BeginUpload
<1>2. CASE CommitIssuance
  <2>1. worker.pc = "work" /\ worker.job \in Jobs /\ job[worker.job].status = "processing"
    BY <1>2 DEF CommitIssuance, AtWork
  <2>2. CASE Compensate("cancelled")
    BY <2>1, <2>2, CompensateIsOrderly
  <2>3. CASE Compensate("failed")
    BY <2>1, <2>3, CompensateIsOrderly
  <2>4. CASE Settle(worker.job, "succeeded", "committed") /\ EndCycle
    BY <2>1, <2>4, SteadySettle, EndIsOrderly
  <2> QED
    BY <1>2, <2>2, <2>3, <2>4 DEF CommitIssuance
<1>3. CASE CommitVerification
  <2>1. worker.job \in Jobs /\ job[worker.job].status = "processing" /\ EndCycle
    BY <1>3 DEF CommitVerification, AtWork
  <2>2. CASE Settle(worker.job, "cancelled", "cleaned")
    BY <2>1, <2>2, SteadySettle, EndIsOrderly
  <2>3. CASE Settle(worker.job, "succeeded", "committed")
    BY <2>1, <2>3, SteadySettle, EndIsOrderly
  <2> QED
    BY <1>3, <2>2, <2>3 DEF CommitVerification
<1>4. CASE FailWork
  <2>1. worker.pc = "work" /\ worker.job \in Jobs /\ job[worker.job].status = "processing"
    BY <1>4 DEF FailWork, AtWork
  <2>2. CASE Compensate("failed")
    BY <2>1, <2>2, CompensateIsOrderly
  <2>3. CASE Settle(worker.job, "failed", "cleaned") /\ EndCycle
    BY <2>1, <2>3, SteadySettle, EndIsOrderly
  <2> QED
    BY <1>4, <2>2, <2>3 DEF FailWork
<1>5. CASE WorkGivesUp
  <2>1. job' = job /\ EndCycle
    BY <1>5 DEF WorkGivesUp, rowVars
  <2> QED
    BY <2>1, SameRows, EndIsOrderly
<1>6. CASE Stop \/ Crash
  <2>1. job' = job /\ worker' = Down
    BY <1>6 DEF Stop, Crash, rowVars
  <2> QED
    BY <2>1, SameRows DEF Orderly, WorkerOK, AtWork, Down
<1> QED
  BY <1>1, <1>2, <1>3, <1>4, <1>5, <1>6 DEF Process

LEMMA StepIsOrderly ==
    ASSUME JobsOK, WorkerOK, AtWork, [Next]_vars
    PROVE  Orderly
<1>1. CASE UNCHANGED vars
  <2>1. job' = job /\ worker' = worker
    BY <1>1 DEF vars
  <2> QED
    BY <2>1, SameRows DEF Orderly, WorkerOK, AtWork
<1> QED
  BY <1>1, RequestsAreOrderly, StartIsOrderly, ClaimsAreOrderly, WorkIsOrderly
     DEF Next, Cycle

-----------------------------------------------------------------------------
(* Keys and manifests.                                                     *)

\* A registration that exists only moves forward: by one transition once its
\* window has begun, or to the next part of its window.
Forward(a, b) ==
    \/ a = b
    \/ a.status = "absent"
    \/ /\ b.window = a.window
       /\ <<a.status, b.status>> \in AllowedTransitions
    \/ /\ b.status = a.status
       /\ a.window # "closed"
       /\ b.window = IF a.window = "before" THEN "open" ELSE "closed"
KeysForward == KeysOK' /\ \A k \in KeyIds : Forward(keys[k], keys'[k])

LEMMA SameKeys == KeysOK /\ keys' = keys => KeysForward
  BY DEF KeysOK, KeysForward, Forward

\* One registration is replaced.
LEMMA OneKeyMoves ==
    ASSUME KeysOK, NEW k \in KeyIds, NEW b, IsKey(b), Forward(keys[k], b),
           keys' = [keys EXCEPT ![k] = b]
    PROVE  KeysForward
<1>1. keys'[k] = b /\ \A i \in KeyIds : i # k => keys'[i] = keys[i]
  BY DEF KeysOK
<1>2. keys' = [i \in KeyIds |-> keys'[i]]
  BY DEF KeysOK
<1>3. \A i \in KeyIds : Forward(keys[i], keys'[i])
  BY <1>1 DEF Forward
<1>4. \A i \in KeyIds : IsKey(keys'[i])
  BY <1>1 DEF KeysOK
<1> QED
  BY <1>2, <1>3, <1>4 DEF KeysForward, KeysOK

LEMMA KeysMoveForward == KeysOK /\ [Next]_vars => KeysForward
<1> SUFFICES ASSUME KeysOK, [Next]_vars PROVE KeysForward
  OBVIOUS
<1>1. ASSUME NEW k \in KeyIds, RegisterKey(k) PROVE KeysForward
  <2>1. PICK w \in {"before", "open"} :
           keys' = [keys EXCEPT ![k] = [status |-> "active", window |-> w]]
    BY <1>1 DEF RegisterKey
  <2>2. Forward(keys[k], [status |-> "active", window |-> w])
    BY <1>1 DEF RegisterKey, Forward
  <2>3. IsKey([status |-> "active", window |-> w])
    BY DEF IsKey
  <2> QED
    BY <2>1, <2>2, <2>3, OneKeyMoves
<1>2. ASSUME NEW k \in KeyIds, TransitionSigningKey(k) PROVE KeysForward
  <2>1. PICK to \in {"active", "verify_only", "revoked"} :
           /\ <<keys[k].status, to>> \in AllowedTransitions
           /\ keys' = [keys EXCEPT ![k].status = to]
    BY <1>2 DEF TransitionSigningKey
  <2> DEFINE b == [keys[k] EXCEPT !.status = to]
  <2>2. IsKey(keys[k])
    BY DEF KeysOK
  <2>3. IsKey(b) /\ b.status = to /\ b.window = keys[k].window
    BY <2>2 DEF IsKey
  <2>4. keys' = [keys EXCEPT ![k] = b]
    BY <2>1
  <2> HIDE DEF b
  <2>5. Forward(keys[k], b)
    BY <2>1, <2>3 DEF Forward
  <2> QED
    BY <2>3, <2>4, <2>5, OneKeyMoves
<1>3. ASSUME NEW k \in KeyIds, WindowMoves(k) PROVE KeysForward
  <2> DEFINE w == IF keys[k].window = "before" THEN "open" ELSE "closed"
             b == [keys[k] EXCEPT !.window = w]
  <2>1. IsKey(keys[k])
    BY DEF KeysOK
  <2>2. IsKey(b) /\ b.status = keys[k].status /\ b.window = w
    BY <2>1 DEF IsKey
  <2>3. keys' = [keys EXCEPT ![k] = b]
    BY <1>3 DEF WindowMoves
  <2>4. keys[k].window # "closed"
    BY <1>3 DEF WindowMoves
  <2> HIDE DEF b
  <2>5. Forward(keys[k], b)
    BY <2>2, <2>4 DEF Forward
  <2> QED
    BY <2>2, <2>3, <2>5, OneKeyMoves
<1>4. CASE ChangeKeys
  <2>1. CASE RotateKeyFile
    BY <2>1, SameKeys DEF RotateKeyFile
  <2> QED
    BY <1>1, <1>2, <1>3, <1>4, <2>1 DEF ChangeKeys
<1>5. CASE ~ChangeKeys
  <2>1. keys' = keys
    BY <1>5 DEF Next, vars, keyVars, Request, CreateJob, RequestCancel, AgePasses,
       Recover, Start, RecoverNext, EnterLoop, Cycle, Stage, ClaimNothing,
       ClaimNextJob, Process, BeginUpload, CommitIssuance, CommitVerification,
       FailWork, NextCycle, WorkGivesUp, Stop, Crash
  <2> QED
    BY <2>1, SameKeys
<1> QED
  BY <1>4, <1>5

\* A registration that a commit may sign with is in force at that moment, and
\* has the public key of the private key at hand.
LEMMA SigningKeyIsInForce ==
    ASSUME NEW signer, NEW k \in SigningKeys(signer)
    PROVE  /\ k \in KeyIds
           /\ PublicKey[k] = signer
           /\ keys[k].status = "active" /\ keys[k].window = "open"
<1>1. k \in QueriedKeys(signer) /\ keys[k].window = "open"
  BY DEF SigningKeys
<1>2. k \in {x \in KeyIds : PublicKey[x] = signer /\ InForce(x)}
  BY <1>1 DEF QueriedKeys, FirstKeys
<1> QED
  BY <1>1, <1>2 DEF InForce

\* The commit of an issuance that finds its key.
Signs(k) ==
    /\ worker.job \in Jobs
    /\ job[worker.job].status = "processing" /\ job'[worker.job].status = "succeeded"
    /\ k \in SigningKeys(worker.signer)
    /\ manifest' = [manifest EXCEPT ![worker.job] = SignedManifest(k, worker.signer)]
    /\ keys' = keys

\* Manifests are written nowhere else.
LEMMA ManifestsAreSigned ==
    ASSUME JobsOK, AtWork, [Next]_vars
    PROVE  manifest' = manifest \/ \E k : Signs(k)
<1>1. CASE CommitIssuance
  <2>1. worker.pc = "work" /\ keys' = keys
    BY <1>1 DEF CommitIssuance, keyVars
  <2>2. worker.job \in Jobs /\ job[worker.job].status = "processing"
    BY <2>1 DEF AtWork
  <2>3. CASE Compensate("cancelled") \/ Compensate("failed")
    BY <2>3 DEF Compensate
  <2>4. ASSUME NEW k \in SigningKeys(worker.signer),
               manifest' = [manifest EXCEPT ![worker.job] = SignedManifest(k, worker.signer)],
               Settle(worker.job, "succeeded", "committed")
        PROVE  \E x : Signs(x)
    <3>1. job'[worker.job].status = "succeeded"
      BY <2>2, <2>4, SettleWrites
    <3> QED
      BY <2>1, <2>2, <2>4, <3>1 DEF Signs
  <2> QED
    BY <1>1, <2>3, <2>4 DEF CommitIssuance
<1>2. CASE ~CommitIssuance
  BY <1>2 DEF Next, vars, Request, CreateJob, RequestCancel, AgePasses, Recover, Start,
     RecoverNext, EnterLoop, Cycle, Stage, ClaimNothing, ClaimNextJob, Process,
     BeginUpload, CommitVerification, FailWork, Compensate, NextCycle, WorkGivesUp,
     Stop, Crash, ChangeKeys
<1> QED
  BY <1>1, <1>2

\* A registration in use stays in use.
LEMMA ForwardStaysInUse ==
    ASSUME NEW a, NEW b, Forward(a, b), a.status # "absent", a.window # "before"
    PROVE  b.status # "absent" /\ b.window # "before"
  BY DEF Forward, AllowedTransitions

\* What a commit does to the manifests.
LEMMA SignsOne ==
    ASSUME ManifestsOK, NEW k, Signs(k)
    PROVE  /\ ManifestsOK'
           /\ manifest'[worker.job] = SignedManifest(k, worker.signer)
           /\ \A j \in Jobs : j # worker.job => manifest'[j] = manifest[j]
  BY DEF Signs, ManifestsOK

LEMMA StaysSigned ==
    ASSUME QueueInv, [Next]_vars
    PROVE  ManifestsOK' /\ Signed'
<1>1. Steady /\ KeysForward
  BY StepIsOrderly, KeysMoveForward DEF QueueInv, Orderly
<1>2. ASSUME NEW j \in Jobs, manifest[j] # NoManifest, manifest'[j] = manifest[j]
      PROVE  /\ job'[j].status = "succeeded"
             /\ manifest'[j].key \in KeyIds
             /\ keys'[manifest'[j].key].status # "absent"
             /\ keys'[manifest'[j].key].window # "before"
  <2> DEFINE k == manifest[j].key
  <2>1. /\ job[j].status = "succeeded" /\ k \in KeyIds
        /\ keys[k].status # "absent" /\ keys[k].window # "before"
    BY <1>2 DEF QueueInv, Signed
  <2>2. keys'[k].status # "absent" /\ keys'[k].window # "before"
    BY <1>1, <2>1, ForwardStaysInUse DEF KeysForward
  <2> QED
    BY <1>1, <1>2, <2>1, <2>2 DEF Steady
<1>3. CASE manifest' = manifest
  BY <1>2, <1>3 DEF QueueInv, ManifestsOK, Signed
<1>4. ASSUME NEW k, Signs(k) PROVE ManifestsOK' /\ Signed'
  <2>1. /\ k \in KeyIds /\ keys[k].status = "active" /\ keys[k].window = "open"
        /\ job'[worker.job].status = "succeeded" /\ keys' = keys
    BY <1>4, SigningKeyIsInForce DEF Signs
  <2>2. manifest'[worker.job] = [key |-> k, signer |-> worker.signer]
    BY <1>4, SignsOne DEF QueueInv, SignedManifest
  <2>3. manifest'[worker.job].key = k
    BY <2>2
  <2>4. /\ ManifestsOK'
        /\ \A j \in Jobs : j # worker.job => manifest'[j] = manifest[j]
    BY <1>4, SignsOne DEF QueueInv
  <2> QED
    BY <1>2, <2>1, <2>3, <2>4 DEF Signed
<1> QED
  BY <1>3, <1>4, ManifestsAreSigned DEF QueueInv

LEMMA InitQueueInv == Init => QueueInv
<1> SUFFICES ASSUME Init PROVE QueueInv
  OBVIOUS
<1>1. JobsOK /\ ManifestsOK
  BY DEF Init, JobsOK, ManifestsOK, IsRow, NoJob
<1>2. KeysOK
  BY DEF Init, KeysOK, IsKey
<1>3. WorkerOK /\ AtWork
  BY DEF Init, WorkerOK, AtWork, Down
<1>4. Signed
  BY DEF Init, Signed
<1> QED
  BY <1>1, <1>2, <1>3, <1>4 DEF QueueInv

LEMMA NextQueueInv == QueueInv /\ [Next]_vars => QueueInv'
<1> SUFFICES ASSUME QueueInv, [Next]_vars PROVE QueueInv'
  OBVIOUS
<1>1. JobsOK' /\ WorkerOK' /\ AtWork'
  BY StepIsOrderly DEF QueueInv, Orderly, Steady
<1>2. KeysOK'
  BY KeysMoveForward DEF QueueInv, KeysForward
<1> QED
  BY <1>1, <1>2, StaysSigned DEF QueueInv

\* Rows, registrations and manifests keep their shape, a process at work has
\* a job that is being processed, and a manifest belongs to a job that has
\* succeeded and to a registration in use.
THEOREM ManifestsStaySigned == Spec => []QueueInv
  BY InitQueueInv, NextQueueInv, PTL DEF Spec

-----------------------------------------------------------------------------
(* Trust.                                                                  *)

\* What verify_stored_manifest() says of a manifest m when its registration is r.
Worth(m, r) ==
    IF m = NoManifest THEN "none"
    ELSE IF PublicKey[m.key] # m.signer THEN "invalid_signature"
    ELSE IF r.status = "revoked" THEN "valid_revoked"
    ELSE IF r.window # "open" THEN "valid_untrusted_window"
    ELSE "valid_trusted"

TrustEnd == {<<"none", "valid_trusted">>,
             <<"valid_trusted", "valid_untrusted_window">>,
             <<"valid_trusted", "valid_revoked">>,
             <<"valid_untrusted_window", "valid_revoked">>}

LEMMA WorthOnlyEnds ==
    ASSUME NEW m, NEW a, NEW b, Forward(a, b), a.status # "absent", a.window # "before"
    PROVE  Worth(m, a) = Worth(m, b) \/ <<Worth(m, a), Worth(m, b)>> \in TrustEnd
<1>1. CASE m = NoManifest \/ PublicKey[m.key] # m.signer
  BY <1>1 DEF Worth
<1>2. CASE m # NoManifest /\ PublicKey[m.key] = m.signer
  <2>1. CASE b.window = a.window /\ <<a.status, b.status>> \in AllowedTransitions
    BY <1>2, <2>1 DEF Worth, TrustEnd, AllowedTransitions
  <2>2. CASE b.status = a.status /\ b.window = "closed"
    BY <1>2, <2>2 DEF Worth, TrustEnd
  <2> QED
    BY <2>1, <2>2 DEF Forward
<1> QED
  BY <1>1, <1>2

LEMMA StepEndsTrust ==
    ASSUME QueueInv, [Next]_vars, NEW j \in Jobs
    PROVE  VerifyStoredManifest(j) # VerifyStoredManifest(j)'
           => <<VerifyStoredManifest(j), VerifyStoredManifest(j)'>> \in TrustEnd
<1>1. /\ VerifyStoredManifest(j) = Worth(manifest[j], keys[manifest[j].key])
      /\ VerifyStoredManifest(j)' = Worth(manifest'[j], keys'[manifest'[j].key])
  BY DEF VerifyStoredManifest, Worth
<1>2. CASE manifest'[j] = manifest[j]
  <2> DEFINE k == manifest[j].key
  <2>1. CASE manifest[j] = NoManifest
    BY <1>1, <1>2, <2>1 DEF Worth
  <2>2. CASE manifest[j] # NoManifest
    <3>1. k \in KeyIds /\ keys[k].status # "absent" /\ keys[k].window # "before"
      BY <2>2 DEF QueueInv, Signed
    <3>2. Forward(keys[k], keys'[k])
      BY <3>1, KeysMoveForward DEF QueueInv, KeysForward
    <3>3. \/ Worth(manifest[j], keys[k]) = Worth(manifest[j], keys'[k])
          \/ <<Worth(manifest[j], keys[k]), Worth(manifest[j], keys'[k])>> \in TrustEnd
      BY <3>1, <3>2, WorthOnlyEnds
    <3> QED
      BY <1>1, <1>2, <3>3
  <2> QED
    BY <2>1, <2>2
<1>3. ASSUME NEW k, Signs(k), j = worker.job
      PROVE  VerifyStoredManifest(j) = "none" /\ VerifyStoredManifest(j)' = "valid_trusted"
  <2>1. manifest[j] = NoManifest
    BY <1>3 DEF QueueInv, Signed, Signs
  <2>2. /\ k \in KeyIds /\ PublicKey[k] = worker.signer /\ keys' = keys
        /\ keys[k].status = "active" /\ keys[k].window = "open"
    BY <1>3, SigningKeyIsInForce DEF Signs
  <2>3. manifest'[j] = [key |-> k, signer |-> worker.signer]
    BY <1>3, SignsOne DEF QueueInv, SignedManifest
  <2>4. k # "none"
    BY <2>2, QueueAssumption DEF KeyIds
  <2>5. manifest'[j] # NoManifest /\ manifest'[j].key = k /\ manifest'[j].signer = worker.signer
    BY <2>3, <2>4 DEF NoManifest
  <2> QED
    BY <1>1, <2>1, <2>2, <2>5 DEF Worth
<1>4. CASE manifest' = manifest
  BY <1>2, <1>4
<1>5. ASSUME NEW k, Signs(k), j # worker.job PROVE manifest'[j] = manifest[j]
  BY <1>5, SignsOne DEF QueueInv
<1>6. CASE VerifyStoredManifest(j) = "none" /\ VerifyStoredManifest(j)' = "valid_trusted"
  BY <1>6 DEF TrustEnd
<1> QED
  BY <1>2, <1>3, <1>4, <1>5, <1>6, ManifestsAreSigned DEF QueueInv

\* A manifest is trusted at the moment it is committed, whatever became of
\* the key file and the registry since the private key was read; from then on
\* its trust only ends (demo/issuance.py:1095, documents/manifests.py:78).
THEOREM TrustEnds == Spec => TrustOnlyEnds
<1>1. QueueInv /\ [Next]_vars
      => [\A j \in Jobs :
            LET before == VerifyStoredManifest(j)
                after == VerifyStoredManifest(j)'
            IN  before # after =>
                <<before, after>> \in {<<"none", "valid_trusted">>,
                                       <<"valid_trusted", "valid_untrusted_window">>,
                                       <<"valid_trusted", "valid_revoked">>,
                                       <<"valid_untrusted_window", "valid_revoked">>}]_vars
  BY StepEndsTrust DEF TrustEnd
<1> QED
  BY <1>1, ManifestsStaySigned, PTL DEF Spec, TrustOnlyEnds
-----------------------------------------------------------------------------
(* What a page says.                                                       *)

\* What a receiver makes of a page with the keys of an index and a profile.
Seen(page, index, profile) == DecodeFingerprintV2(CanvasFor(page, index, profile))

\* A page as it is issued or comes back: it lies somewhere, and carries tiles
\* of one fingerprint or none.
IsSuspect(page) ==
    /\ page.mark.tiles \subseteq PayloadTiles
    /\ page.mark.id \in Ids \union {NoId}

\* The keys of the index and the profile are those of the page's fingerprint.
Bound(page, index, profile) ==
    /\ page.place = "identity"
    /\ page.mark.id # NoId /\ page.mark.index = index /\ page.mark.profile = profile

\* The three tiles of a page and any part of them.
LEMMA SizeOfTiles ==
    ASSUME NEW tiles \in SUBSET PayloadTiles
    PROVE  /\ IsFiniteSet(tiles) /\ Cardinality(tiles) \in 0..3
           /\ IsFiniteSet(PayloadTiles) /\ Cardinality(PayloadTiles) = 3
           /\ Cardinality(tiles) = 0 <=> tiles = {}
<1>1. IsFiniteSet(PayloadTiles) /\ Cardinality(PayloadTiles) = 3
  <2>1. \A n \in Nat : IsFiniteSet(1..n) /\ Cardinality(1..n) = n
    BY FS_Interval
  <2> QED
    BY <2>1 DEF PayloadTiles
<1>2. IsFiniteSet(tiles) /\ Cardinality(tiles) <= Cardinality(PayloadTiles)
  BY <1>1, FS_Subset
<1>3. Cardinality(tiles) \in Nat
  BY <1>2, FS_CardinalityType
<1>4. Cardinality(tiles) = 0 <=> tiles = {}
  BY <1>2, FS_EmptySet
<1> QED
  BY <1>1, <1>2, <1>3, <1>4

\* Without the keys it was made with, or moved, a page shows no pilot.
LEMMA UnboundIsSilent ==
    ASSUME NEW page, NEW index, NEW profile, ~Bound(page, index, profile)
    PROVE  /\ Seen(page, index, profile).reason = "insufficient_sync_evidence"
           /\ Seen(page, index, profile).id = NoId
<1> DEFINE canvas == CanvasFor(page, index, profile)
<1>1. canvas.peaks = {} /\ canvas.fault = "none"
  BY DEF CanvasFor, Bound
<1> HIDE DEF canvas
<1>2. PilotHypotheses(canvas) = {}
  BY <1>1 DEF PilotHypotheses, SuppressNeighbours, RefinedPeaks
<1>3. AlignPageV2(canvas, FALSE).reason = "insufficient_sync_evidence"
  BY <1>1, <1>2 DEF AlignPageV2, SelectAlignment, RaisesAt
<1> QED
  BY <1>3 DEF DecodeFingerprintV2, DecodeAlignedV2, Decision, Seen, canvas

\* With them the page lies where the pilot says.
LEMMA BoundIsAligned ==
    ASSUME NEW page, NEW index, NEW profile, Bound(page, index, profile)
    PROVE  AlignPageV2(CanvasFor(page, index, profile), FALSE)
              = [reason |-> "aligned",
                 winner |-> [at |-> "identity", score |-> 100, flaws |-> {}], score |-> 100]
<1> DEFINE canvas == CanvasFor(page, index, profile)
           h == [at |-> "identity", score |-> 100, flaws |-> {}]
<1>1. canvas.peaks = {h} /\ canvas.fault = "none"
  BY DEF CanvasFor, Bound
<1> HIDE DEF canvas
<1> h.at = "identity" /\ h.score = 100 /\ h.flaws = {}
  OBVIOUS
<1> HIDE DEF h
<1>2. RefinedPeaks(canvas) = {h}
  BY <1>1 DEF RefinedPeaks
<1>3. PilotHypotheses(canvas) = {h}
  <2>1. Cardinality({}) < MaxPilotHypotheses
    BY FS_EmptySet, AlignmentAssumption
  <2>2. {g \in {h} : SortsBefore(g, h)} = {}
    <3>1. ~SortsBefore(h, h)
      <4>1. PlaceRank["identity"] = 1
        BY DEF PlaceRank
      <4> QED
        BY <4>1 DEF SortsBefore
    <3> QED
      BY <3>1
  <2> DEFINE invertible == {g \in {h} : "inverse" \notin g.flaws}
             FitsAt(p) == {g \in invertible : g.at = p}
             best == {g \in invertible :
                        g = CHOOSE f \in FitsAt(g.at) : \A e \in FitsAt(g.at) : e.score <= f.score}
  <2>3. invertible = {h}
    OBVIOUS
  <2>4. best = {h}
    <3>1. FitsAt(h.at) = {h}
      BY <2>3
    <3>2. (CHOOSE f \in FitsAt(h.at) : \A e \in FitsAt(h.at) : e.score <= f.score) = h
      <4>1. \A e \in {h} : e.score <= h.score
        OBVIOUS
      <4> HIDE DEF FitsAt
      <4> QED
        BY <3>1, <4>1
    <3> HIDE DEF FitsAt, invertible
    <3> QED
      BY <2>3, <3>2
  <2>5. {g \in best : Cardinality({f \in best : SortsBefore(f, g)}) < MaxPilotHypotheses} = {h}
    <3> HIDE DEF best
    <3> QED
      BY <2>1, <2>2, <2>4
  <2> QED
    BY <1>2, <2>5 DEF PilotHypotheses, SuppressNeighbours
<1>4. GeometryIsAcceptableV2(h) /\ h.score >= PilotScoreMin
  BY AlignmentAssumption DEF GeometryIsAcceptableV2, CornersArePlausible
<1>5. ChooseWinner({h}, {}) = h
  <2>1. {h} # {} /\ \A o \in {} : \E g \in {h} : g.score >= o.score
    OBVIOUS
  <2>2. h.score <= h.score
    OBVIOUS
  <2>3. ChooseWinner({h}, {}) = CHOOSE x \in {h} : \A g \in {h} : g.score <= x.score
    BY <2>1, Zenon DEF ChooseWinner
  <2> QED
    BY <2>2, <2>3
<1>6. SelectAlignment({h}, {}) = [reason |-> "aligned", winner |-> h, score |-> h.score]
  <2> DEFINE strong == {g \in {h} : g.score >= PilotScoreMin}
             safe == {g \in strong : GeometryIsAcceptableV2(g)}
  <2>1. strong = {h} /\ safe = {h}
    BY <1>4
  <2>2. strong \union {} # {} /\ safe \union {} # {}
    BY <2>1
  <2> HIDE DEF strong, safe
  <2>3. SelectAlignment({h}, {})
          = [reason |-> "aligned", winner |-> ChooseWinner(safe, {}),
             score |-> ChooseWinner(safe, {}).score]
    BY <2>2 DEF SelectAlignment, strong, safe
  <2> QED
    BY <1>5, <2>1, <2>3
<1> QED
  <2> HIDE DEF canvas
  <2>1. AlignPageV2(canvas, FALSE) = SelectAlignment({h}, {})
    BY <1>1, <1>3 DEF AlignPageV2, RaisesAt
  <2> QED
    BY <1>6, <2>1 DEF canvas, h

\* A page read with its keys names its issuance if two tiles are left, and is
\* partial with one.
LEMMA BoundSpeaks ==
    ASSUME NEW page, IsSuspect(page), NEW index, NEW profile, Bound(page, index, profile)
    PROVE  LET d == Seen(page, index, profile)
           IN  /\ page.mark.tiles = {} => d.reason = "payload_not_detected" /\ d.id = NoId
               /\ Cardinality(page.mark.tiles) = 1 =>
                     d.reason = "partial_payload_evidence" /\ d.id = NoId
               /\ IsWhole(page.mark) => d.reason = "decoded" /\ d.id = page.mark.id
<1> DEFINE canvas == CanvasFor(page, index, profile)
           tiles == page.mark.tiles
           id == page.mark.id
           reads == [t \in PayloadTiles |-> IF t \in tiles THEN id ELSE "none"]
           found == [c \in {"candidate"} |-> reads]
           g == <<"candidate", id>>
           d == Seen(page, index, profile)
<1>1. id \in Ids /\ "none" \notin Ids /\ tiles \subseteq PayloadTiles
  BY IdsAssumption DEF IsSuspect, Bound
<1>2. canvas.place = "identity" /\ canvas.reads = reads
  BY DEF CanvasFor, Bound
<1>3. d = DecidePayloadVotes(found, 100)
  <2> DEFINE alignment == AlignPageV2(canvas, FALSE)
  <2>1. alignment = [reason |-> "aligned",
                     winner |-> [at |-> "identity", score |-> 100, flaws |-> {}], score |-> 100]
    BY BoundIsAligned
  <2> HIDE DEF alignment, canvas
  <2>2. alignment.reason = "aligned" /\ alignment.winner.at = "identity" /\ alignment.score = 100
    BY <2>1
  <2>3. ExtractTiles(canvas, alignment.winner.at) = reads
    BY <1>2, <2>2 DEF ExtractTiles
  <2>4. Clip(alignment.score) = 100
    BY <2>2 DEF Clip
  <2>5. DecodeAlignedV2(canvas, alignment) = DecidePayloadVotes(found, 100)
    BY <2>2, <2>3, <2>4 DEF DecodeAlignedV2
  <2> QED
    BY <2>5 DEF Seen, DecodeFingerprintV2, alignment, canvas
<1>4. /\ DOMAIN found = {"candidate"} /\ found["candidate"] = reads
      /\ DOMAIN reads = PayloadTiles
  OBVIOUS
<1>5. IsEvidence(found)
  <2>1. IsFiniteSet({"candidate"}) /\ IsFiniteSet(PayloadTiles) /\ PayloadTiles # {}
    <3>1. IsFiniteSet(PayloadTiles)
      BY SizeOfTiles
    <3>2. 1 \in PayloadTiles
      BY DEF PayloadTiles
    <3> QED
      BY <3>1, <3>2, FS_Singleton
  <2> HIDE DEF found, reads
  <2> QED
    BY <1>4, <2>1 DEF IsEvidence
<1>6. ASSUME NEW x \in Ids
      PROVE  Supporters(found, "candidate", x) = IF x = id THEN tiles ELSE {}
  <2>1. \A t \in PayloadTiles : reads[t] = x <=> t \in tiles /\ x = id
    BY <1>1
  <2> HIDE DEF reads, found
  <2> QED
    BY <1>1, <1>4, <2>1 DEF Supporters
<1> HIDE DEF found
<1>7. SupportGroups(found) = IF tiles = {} THEN {} ELSE {g}
  <2>1. ASSUME NEW x \in Ids
        PROVE  Support(found, <<"candidate", x>>) > 0 <=> x = id /\ tiles # {}
    <3>1. Support(found, <<"candidate", x>>) = Cardinality(IF x = id THEN tiles ELSE {})
      BY <1>6 DEF Support
    <3>2. Cardinality({}) = 0
      BY FS_EmptySet
    <3> QED
      BY <1>1, <3>1, <3>2, SizeOfTiles
  <2> QED
    BY <1>1, <1>4, <2>1 DEF SupportGroups
<1>8. tiles # {} => /\ Support(found, g) = Cardinality(tiles) /\ RepetitionsOf(found, g) = 3
                    /\ NamedBy({g}) = {id}
  <2>1. Cardinality(PayloadTiles) = 3
    BY SizeOfTiles
  <2>2. RepetitionsOf(found, g) = 3
    BY <1>4, <2>1 DEF RepetitionsOf
  <2>3. Support(found, g) = Cardinality(tiles)
    BY <1>1, <1>6 DEF Support
  <2> QED
    BY <2>2, <2>3 DEF NamedBy
<1> DEFINE eligible == EligibleGroups(found)
<1>9. tiles # {} => eligible = IF Cardinality(tiles) >= 2 THEN {g} ELSE {}
  <2>1. Cardinality(tiles) \in 0..3
    BY <1>1, SizeOfTiles
  <2>2. Quorum(Cardinality(tiles), 3) <=> Cardinality(tiles) >= 2
    BY <2>1 DEF Quorum
  <2> QED
    BY <1>7, <1>8, <2>2 DEF EligibleGroups
<1>10. CASE tiles = {}
  <2>1. d = Decision(NoId, 100, 0, FALSE, "payload_not_detected")
    BY <1>3, <1>7, <1>10 DEF DecidePayloadVotes
  <2>2. Cardinality(tiles) = 0
    BY <1>10, FS_EmptySet
  <2> QED
    BY <1>10, <2>1, <2>2 DEF Decision, IsWhole
<1>11. CASE tiles # {} /\ ~(Cardinality(tiles) >= 2)
  <2>1. eligible = {} /\ SupportGroups(found) # {}
    BY <1>7, <1>9, <1>11
  <2>2. d = DecisionOfGroup(found, Strongest(found, SupportGroups(found)), NoId,
                            "partial_payload_evidence")
    BY <1>3, <2>1, Zenon DEF DecidePayloadVotes
  <2> QED
    BY <1>11, <2>2 DEF DecisionOfGroup, Decision, IsWhole
<1>12. CASE tiles # {} /\ Cardinality(tiles) >= 2
  <2>1. eligible = {g} /\ SupportGroups(found) = {g}
    BY <1>7, <1>9, <1>12
  <2>2. Cardinality(NamedBy({g})) = 1
    BY <1>8, <1>12, FS_Singleton
  <2>3. Strongest(found, {g}) = g
    BY <1>5, <2>1, StrongestIsOne
  <2>4. d = DecisionOfGroup(found, g, g[2], "decoded")
    BY <1>3, <2>1, <2>2, <2>3 DEF DecidePayloadVotes
  <2>5. d.reason = "decoded" /\ d.id = id
    BY <2>4 DEF DecisionOfGroup, Decision
  <2> QED
    BY <1>12, <2>5, FS_Singleton DEF IsWhole
<1> QED
  BY <1>10, <1>11, <1>12

\* The first element of a sequence that has a property.
LEMMA FirstExists ==
    ASSUME NEW n \in Nat, NEW S \in SUBSET (1..n), S # {}
    PROVE  \E k \in S : \A j \in 1..(k - 1) : j \notin S
<1>1. PICK k \in S : \A j \in S : k <= j
  BY LeastNatural
<1> QED
  BY <1>1

\* The loops over profiles and over hypotheses end with a conclusive decision
\* if there is one, and with the first one otherwise.
LEMMA FirstConclusiveFacts ==
    ASSUME NEW n \in Nat \ {0}, NEW decisions, DOMAIN decisions = 1..n
    PROVE  /\ (\E k \in 1..n : IsConclusive(decisions[k])) =>
                 \E k \in 1..n : /\ IsConclusive(decisions[k])
                                 /\ FirstConclusive(decisions) = decisions[k]
           /\ (\A k \in 1..n : ~IsConclusive(decisions[k])) =>
                 FirstConclusive(decisions) = decisions[1]
<1>1. ASSUME \E k \in 1..n : IsConclusive(decisions[k])
      PROVE  \E k \in 1..n : /\ IsConclusive(decisions[k])
                             /\ FirstConclusive(decisions) = decisions[k]
  <2> DEFINE S == {k \in 1..n : IsConclusive(decisions[k])}
             first == CHOOSE k \in 1..n :
                         IsConclusive(decisions[k]) /\ \A j \in 1..(k - 1) : ~IsConclusive(decisions[j])
  <2>1. S \in SUBSET (1..n) /\ S # {}
    BY <1>1
  <2>2. \E k \in S : \A j \in 1..(k - 1) : j \notin S
    <3> HIDE DEF S
    <3> QED
      BY <2>1, FirstExists
  <2>3. \E k \in 1..n : IsConclusive(decisions[k]) /\ \A j \in 1..(k - 1) : ~IsConclusive(decisions[j])
    BY <2>2
  <2>4. first \in 1..n /\ IsConclusive(decisions[first])
    BY <2>3
  <2>5. FirstConclusive(decisions) = decisions[first]
    BY <1>1 DEF FirstConclusive
  <2> HIDE DEF first
  <2> QED
    BY <2>4, <2>5
<1>2. (\A k \in 1..n : ~IsConclusive(decisions[k])) => FirstConclusive(decisions) = decisions[1]
  BY DEF FirstConclusive
<1> QED
  BY <1>1, <1>2

\* What the accepted profiles make of one page at one index: a page that one
\* of them can read decides, whichever the others are.
LEMMA PageVerdict ==
    ASSUME NEW page, IsSuspect(page), NEW index
    PROVE  LET d == FirstConclusiveDecision(page, index)
           IN  IF page.place = "identity" /\ IsReadable(page.mark, {index})
               THEN /\ d.reason = IF IsWhole(page.mark) THEN "decoded" ELSE "partial_payload_evidence"
                    /\ d.id = IF IsWhole(page.mark) THEN page.mark.id ELSE NoId
               ELSE /\ d.reason \in {"payload_not_detected", "insufficient_sync_evidence"}
                    /\ d.id = NoId
<1> DEFINE n == Len(Profiles)
           decisions == [k \in DOMAIN AcceptedDecodeCandidates |->
                           Seen(page, index, AcceptedDecodeCandidates[k])]
           d == FirstConclusiveDecision(page, index)
           mark == page.mark
           readable == page.place = "identity" /\ IsReadable(page.mark, {index})
<1>1. n \in Nat \ {0} /\ DOMAIN Profiles = 1..n
  BY ContentAssumption
<1>2. DOMAIN decisions = 1..n /\ \A k \in 1..n : decisions[k] = Seen(page, index, Profiles[k])
  BY <1>1 DEF AcceptedDecodeCandidates
<1>3. d = FirstConclusive(decisions)
  BY DEF FirstConclusiveDecision, Seen
<1>4. mark.tiles \in SUBSET PayloadTiles
  BY DEF IsSuspect
<1>5. Cardinality(mark.tiles) \in 0..3 /\ (Cardinality(mark.tiles) = 0 <=> mark.tiles = {})
  BY <1>4, SizeOfTiles
<1>6. ASSUME NEW k \in 1..n, Bound(page, index, Profiles[k]), mark.tiles # {}
      PROVE  /\ decisions[k].reason = IF IsWhole(mark) THEN "decoded" ELSE "partial_payload_evidence"
             /\ decisions[k].id = IF IsWhole(mark) THEN mark.id ELSE NoId
             /\ IsConclusive(decisions[k])
  <2>1. Cardinality(mark.tiles) = 1 \/ IsWhole(mark)
    BY <1>5, <1>6 DEF IsWhole
  <2>2. Cardinality(mark.tiles) = 1 => ~IsWhole(mark)
    BY DEF IsWhole
  <2> HIDE DEF decisions
  <2> QED
    BY <1>2, <1>6, <2>1, <2>2, BoundSpeaks DEF IsConclusive
<1>7. ASSUME NEW k \in 1..n, ~Bound(page, index, Profiles[k]) \/ mark.tiles = {}
      PROVE  /\ decisions[k].reason \in {"payload_not_detected", "insufficient_sync_evidence"}
             /\ decisions[k].id = NoId
             /\ ~IsConclusive(decisions[k])
  <2> HIDE DEF decisions
  <2> QED
    BY <1>2, <1>7, BoundSpeaks, UnboundIsSilent DEF IsConclusive
<1>8. readable <=> mark.tiles # {} /\ \E k \in 1..n : Bound(page, index, Profiles[k])
  BY <1>1 DEF IsReadable, Bound, ProfilesInUse
<1> HIDE DEF decisions, readable, d
<1>9. ASSUME readable
      PROVE  /\ d.reason = IF IsWhole(mark) THEN "decoded" ELSE "partial_payload_evidence"
             /\ d.id = IF IsWhole(mark) THEN mark.id ELSE NoId
  <2>1. \E k \in 1..n : IsConclusive(decisions[k])
    BY <1>6, <1>8, <1>9
  <2>2. PICK k \in 1..n : IsConclusive(decisions[k]) /\ d = decisions[k]
    BY <1>1, <1>2, <1>3, <2>1, FirstConclusiveFacts
  <2> QED
    BY <1>6, <1>7, <2>2
<1>10. ASSUME ~readable
       PROVE  /\ d.reason \in {"payload_not_detected", "insufficient_sync_evidence"}
              /\ d.id = NoId
  <2>1. \A k \in 1..n : ~IsConclusive(decisions[k])
    BY <1>7, <1>8, <1>10
  <2>2. d = decisions[1] /\ 1 \in 1..n
    BY <1>1, <1>2, <1>3, <2>1, FirstConclusiveFacts
  <2> QED
    BY <1>7, <1>8, <1>10, <2>2
<1> QED
  BY <1>9, <1>10 DEF readable, d
-----------------------------------------------------------------------------
(* What a file says.                                                       *)

\* The first status of the order that occurs.
LEMMA KnownStatus ==
    ASSUME NEW known \in SUBSET DOMAIN StatusOrder, known # {}
    PROVE  /\ Min(known) \in known
           /\ StatusOrder[Min(known)] \in {"geometry_rejected", "payload_not_detected",
                                           "insufficient_sync_evidence"}
<1>1. known \in SUBSET Nat /\ known \subseteq 1..3
  BY DEF StatusOrder
<1>2. \E x \in known : \A y \in known : x =< y
  BY <1>1, LeastNatural
<1>3. Min(known) \in known
  BY <1>2 DEF Min
<1>4. Min(known) \in {1, 2, 3}
  BY <1>1, <1>3
<1> QED
  BY <1>3, <1>4 DEF StatusOrder

\* Several decisions name an issuance if they name one, and none is partial.
LEMMA AggregateFacts ==
    ASSUME NEW decisions, IsFiniteSet(DOMAIN decisions), DOMAIN decisions # {},
           \A k \in DOMAIN decisions :
              /\ decisions[k].reason \in {"decoded", "partial_payload_evidence",
                    "geometry_rejected", "payload_not_detected", "insufficient_sync_evidence"}
              /\ decisions[k].reason = "decoded" => decisions[k].id \in Ids
    PROVE  LET d == AggregateDecisions(decisions)
           IN  /\ d.reason # "DECODE_FAILED"
               /\ d = Summary(d.id, d.reason)
               /\ d.id \in Ids \union {NoId}
               /\ d.reason = "decoded" <=> d.id # NoId
               /\ IsConclusive(d) <=> \E k \in DOMAIN decisions : IsConclusive(decisions[k])
               /\ \A id \in Ids : d.id = id <=>
                     /\ \E k \in DOMAIN decisions : decisions[k].reason = "decoded"
                     /\ \A k \in DOMAIN decisions :
                           /\ decisions[k].reason # "partial_payload_evidence"
                           /\ decisions[k].reason = "decoded" => decisions[k].id = id
<1> DEFINE K == DOMAIN decisions
           statuses == {decisions[k].reason : k \in K}
           naming == {k \in K : decisions[k].reason = "decoded"}
           decoded == {decisions[k].id : k \in naming}
           known == {k \in DOMAIN StatusOrder : StatusOrder[k] \in statuses}
           partial == "partial_payload_evidence" \in statuses
           d == AggregateDecisions(decisions)
           f == [k \in naming |-> decisions[k].id]
<1>1. NoId \notin Ids
  BY IdsAssumption
<1>2. IsFiniteSet(decoded)
  <2>1. IsFiniteSet(naming)
    BY FS_Subset
  <2>2. f \in Surjection(naming, decoded)
    BY DEF Surjection
  <2> HIDE DEF f, naming, decoded
  <2> QED
    BY <2>1, <2>2, FS_Surjection
<1>3. decoded \subseteq Ids
  OBVIOUS
<1>4. /\ d = IF partial \/ Cardinality(decoded) > 1
             THEN Summary(NoId, "partial_payload_evidence")
             ELSE IF Cardinality(decoded) = 1
             THEN Summary(CHOOSE id \in decoded : TRUE, "decoded")
             ELSE Summary(NoId, IF known = {} THEN "DECODE_FAILED" ELSE StatusOrder[Min(known)])
  BY Zenon DEF AggregateDecisions
<1>5. partial <=> \E k \in K : decisions[k].reason = "partial_payload_evidence"
  OBVIOUS
<1>6. decoded = {} <=> \A k \in K : decisions[k].reason # "decoded"
  OBVIOUS
<1>7. \A id : decoded = {id} <=> /\ \E k \in K : decisions[k].reason = "decoded"
                                /\ \A k \in K : decisions[k].reason = "decoded" => decisions[k].id = id
  OBVIOUS
<1>8. ~partial /\ decoded = {} => known # {}
  <2>1. PICK k \in K : TRUE
    OBVIOUS
  <2>2. ASSUME ~partial, decoded = {}
        PROVE  decisions[k].reason \in {"geometry_rejected", "payload_not_detected",
                                       "insufficient_sync_evidence"}
    BY <2>2
  <2>3. /\ 1 \in DOMAIN StatusOrder /\ StatusOrder[1] = "geometry_rejected"
        /\ 2 \in DOMAIN StatusOrder /\ StatusOrder[2] = "payload_not_detected"
        /\ 3 \in DOMAIN StatusOrder /\ StatusOrder[3] = "insufficient_sync_evidence"
    BY DEF StatusOrder
  <2>4. decisions[k].reason \in statuses
    OBVIOUS
  <2> QED
    BY <2>2, <2>3, <2>4
<1>9. /\ Cardinality(decoded) \in Nat
      /\ Cardinality(decoded) = 0 <=> decoded = {}
      /\ Cardinality(decoded) = 1 <=> \E x : decoded = {x}
  BY <1>2, FS_EmptySet, FS_Singleton, FS_CardinalityType
<1>10. IsConclusive(d) <=> d.reason \in {"decoded", "partial_payload_evidence"}
  BY DEF IsConclusive
<1>11. (\E k \in K : IsConclusive(decisions[k])) <=> partial \/ decoded # {}
  BY <1>5, <1>6 DEF IsConclusive
<1>12. ASSUME NEW id \in Ids
       PROVE  /\ (/\ \E k \in K : decisions[k].reason = "decoded"
                  /\ \A k \in K : /\ decisions[k].reason # "partial_payload_evidence"
                                  /\ decisions[k].reason = "decoded" => decisions[k].id = id)
                 <=> ~partial /\ decoded = {id}
  BY <1>5, <1>7
<1> HIDE DEF decoded, partial, known, d
<1>13. CASE partial \/ Cardinality(decoded) > 1
  <2>1. d = Summary(NoId, "partial_payload_evidence")
    BY <1>4, <1>13
  <2>2. d.id = NoId /\ d.reason = "partial_payload_evidence" /\ d = Summary(d.id, d.reason)
    BY <2>1 DEF Summary
  <2>3. partial \/ decoded # {}
    BY <1>9, <1>13
  <2>4. \A id \in Ids : ~(~partial /\ decoded = {id})
    BY <1>9, <1>13
  <2> QED
    BY <1>1, <1>10, <1>11, <1>12, <2>2, <2>3, <2>4 DEF d
<1>14. CASE ~partial /\ Cardinality(decoded) = 1
  <2>1. PICK x : decoded = {x}
    BY <1>9, <1>14
  <2>2. d = Summary(CHOOSE id \in decoded : TRUE, "decoded")
    BY <1>4, <1>14
  <2>3. (CHOOSE id \in decoded : TRUE) = x
    BY <2>1
  <2>4. d.id = x /\ d.reason = "decoded" /\ d = Summary(d.id, d.reason)
    BY <2>2, <2>3 DEF Summary
  <2>5. x \in Ids /\ decoded # {} /\ \A id \in Ids : decoded = {id} <=> id = x
    BY <1>3, <2>1
  <2> QED
    BY <1>1, <1>10, <1>11, <1>12, <1>14, <2>4, <2>5 DEF d
<1>15. CASE ~partial /\ Cardinality(decoded) = 0
  <2>1. known # {} /\ decoded = {}
    BY <1>8, <1>9, <1>15
  <2>2. d = Summary(NoId, StatusOrder[Min(known)])
    BY <1>4, <1>15, <2>1
  <2>3. StatusOrder[Min(known)] \in {"geometry_rejected", "payload_not_detected",
                                      "insufficient_sync_evidence"}
    BY <2>1, KnownStatus DEF known
  <2>4. d.id = NoId /\ d.reason = StatusOrder[Min(known)] /\ d = Summary(d.id, d.reason)
    BY <2>2 DEF Summary
  <2> QED
    BY <1>1, <1>10, <1>11, <1>12, <1>15, <2>1, <2>3, <2>4 DEF d
<1> QED
  BY <1>9, <1>13, <1>14, <1>15

\* A document names an issuance if its readable pages all do, and whole.
LEMMA DocumentNames ==
    ASSUME NEW file, file.format = "pdf", NEW n \in Nat \ {0}, DOMAIN file.pages = 1..n,
           \A k \in 1..n : IsSuspect(file.pages[k]) /\ file.pages[k].place = "identity"
    PROVE  LET readable == {file.pages[k].mark :
                              k \in {j \in DOMAIN file.pages : IsReadable(file.pages[j].mark, {j - 1})}}
               decision == DecodeContent(file)
           IN  /\ decision.reason # "DECODE_FAILED"
               /\ decision = Summary(decision.id, decision.reason)
               /\ decision.reason = "decoded" <=> decision.id # NoId
               /\ IsConclusive(decision) <=> readable # {}
               /\ \A id \in Ids : decision.id = id <=>
                     readable # {} /\ \A m \in readable : m.id = id /\ IsWhole(m)
<1> DEFINE legible(k) == IsReadable(file.pages[k].mark, {k - 1})
           readable == {file.pages[k].mark : k \in {j \in DOMAIN file.pages : legible(j)}}
           decisions == [k \in DOMAIN file.pages |-> FirstConclusiveDecision(file.pages[k], k - 1)]
<1>1. DecodeContent(file) = AggregateDecisions(decisions)
  BY DEF DecodeContent, DecodePdf
<1>2. ASSUME NEW k \in 1..n
      PROVE  IF legible(k)
             THEN /\ decisions[k].reason = IF IsWhole(file.pages[k].mark) THEN "decoded"
                                           ELSE "partial_payload_evidence"
                  /\ decisions[k].id = IF IsWhole(file.pages[k].mark) THEN file.pages[k].mark.id
                                       ELSE NoId
             ELSE /\ decisions[k].reason \in {"payload_not_detected", "insufficient_sync_evidence"}
                  /\ decisions[k].id = NoId
  <2>1. decisions[k] = FirstConclusiveDecision(file.pages[k], k - 1)
    OBVIOUS
  <2> QED
    BY <2>1, PageVerdict
<1>3. ASSUME NEW k \in 1..n, legible(k) PROVE file.pages[k].mark.id \in Ids
  BY <1>3 DEF IsReadable, IsSuspect
<1>4. DOMAIN decisions = 1..n /\ IsFiniteSet(1..n) /\ 1..n # {}
  <2>1. IsFiniteSet(1..n)
    <3>1. 1 \in Int /\ n \in Int
      OBVIOUS
    <3> QED
      BY <3>1, FS_Interval
  <2>2. 1 \in 1..n
    OBVIOUS
  <2> QED
    BY <2>1, <2>2
<1> HIDE DEF decisions, legible
<1>5. \A k \in 1..n :
        /\ decisions[k].reason \in {"decoded", "partial_payload_evidence",
              "geometry_rejected", "payload_not_detected", "insufficient_sync_evidence"}
        /\ decisions[k].reason = "decoded" <=> legible(k) /\ IsWhole(file.pages[k].mark)
        /\ decisions[k].reason = "partial_payload_evidence"
              <=> legible(k) /\ ~IsWhole(file.pages[k].mark)
        /\ decisions[k].reason = "decoded" =>
              decisions[k].id = file.pages[k].mark.id /\ decisions[k].id \in Ids
  BY <1>2, <1>3
<1> DEFINE decision == AggregateDecisions(decisions)
<1>6. /\ decision.reason # "DECODE_FAILED"
      /\ decision = Summary(decision.id, decision.reason)
      /\ decision.reason = "decoded" <=> decision.id # NoId
      /\ IsConclusive(decision) <=> \E k \in 1..n : IsConclusive(decisions[k])
      /\ \A id \in Ids : decision.id = id <=>
            /\ \E k \in 1..n : decisions[k].reason = "decoded"
            /\ \A k \in 1..n :
                  /\ decisions[k].reason # "partial_payload_evidence"
                  /\ decisions[k].reason = "decoded" => decisions[k].id = id
  BY <1>4, <1>5, AggregateFacts
<1> HIDE DEF decision
<1>7. ASSUME NEW id \in Ids
      PROVE  (/\ \E k \in 1..n : decisions[k].reason = "decoded"
              /\ \A k \in 1..n :
                    /\ decisions[k].reason # "partial_payload_evidence"
                    /\ decisions[k].reason = "decoded" => decisions[k].id = id)
             <=> readable # {} /\ \A m \in readable : m.id = id /\ IsWhole(m)
  <2>1. readable # {} <=> \E k \in 1..n : legible(k)
    OBVIOUS
  <2>2. (\A m \in readable : m.id = id /\ IsWhole(m))
          <=> \A k \in 1..n : legible(k) => /\ file.pages[k].mark.id = id
                                            /\ IsWhole(file.pages[k].mark)
    OBVIOUS
  <2> HIDE DEF readable
  <2> QED
    BY <1>5, <2>1, <2>2
<1>8. \A id \in Ids : decision.id = id <=>
          readable # {} /\ \A m \in readable : m.id = id /\ IsWhole(m)
  <2> HIDE DEF readable
  <2> QED
    BY <1>6, <1>7
<1>9. IsConclusive(decision) <=> readable # {}
  <2>1. readable # {} <=> \E k \in 1..n : legible(k)
    BY <1>4
  <2> HIDE DEF readable
  <2> QED
    BY <1>5, <1>6, <2>1 DEF IsConclusive
<1> QED
  BY <1>1, <1>6, <1>8, <1>9, Zenon DEF legible, decision

\* What the indexes that are tried make of an image of a page.
LEMMA ImageVerdict ==
    ASSUME NEW page, IsSuspect(page)
    PROVE  LET d == AggregateUnknownPageDecisions(
                       [i \in 1..PageIndexHypotheses |-> FirstConclusiveDecision(page, i - 1)])
               readable == /\ page.place = "identity"
                           /\ IsReadable(page.mark, 0..(PageIndexHypotheses - 1))
           IN  /\ d.reason # "DECODE_FAILED"
               /\ d = Summary(d.id, d.reason)
               /\ d.reason = "decoded" <=> d.id # NoId
               /\ IsConclusive(d) <=> readable
               /\ d.id = IF readable /\ IsWhole(page.mark) THEN page.mark.id ELSE NoId
<1> DEFINE n == PageIndexHypotheses
           decisions == [i \in 1..n |-> FirstConclusiveDecision(page, i - 1)]
           mark == page.mark
           summary == AggregateDecisions(decisions)
           support == {k \in DOMAIN decisions :
                          decisions[k].reason = "decoded" /\ decisions[k].id = summary.id}
           legible(i) == page.place = "identity" /\ IsReadable(mark, {i - 1})
           readable == page.place = "identity" /\ IsReadable(mark, 0..(n - 1))
<1>1. n \in Nat \ {0}
  BY ContentAssumption
<1>2. ASSUME NEW i \in 1..n
      PROVE  IF legible(i)
             THEN /\ decisions[i].reason = IF IsWhole(mark) THEN "decoded"
                                           ELSE "partial_payload_evidence"
                  /\ decisions[i].id = IF IsWhole(mark) THEN mark.id ELSE NoId
             ELSE /\ decisions[i].reason \in {"payload_not_detected", "insufficient_sync_evidence"}
                  /\ decisions[i].id = NoId
  <2>1. decisions[i] = FirstConclusiveDecision(page, i - 1)
    OBVIOUS
  <2> QED
    BY <2>1, PageVerdict
<1>3. readable <=> \E i \in 1..n : legible(i)
  <2>1. ASSUME readable PROVE \E i \in 1..n : legible(i)
    <3>1. mark.index + 1 \in 1..n /\ mark.index = (mark.index + 1) - 1
      BY <1>1, <2>1 DEF IsReadable
    <3>2. legible(mark.index + 1)
      BY <2>1, <3>1 DEF IsReadable
    <3> QED
      BY <3>1, <3>2
  <2>2. ASSUME NEW i \in 1..n, legible(i) PROVE readable
    <3>1. i - 1 \in 0..(n - 1)
      BY <1>1
    <3> QED
      BY <2>2, <3>1 DEF IsReadable
  <2> QED
    BY <2>1, <2>2
<1>4. readable => mark.id \in Ids
  BY DEF IsReadable, IsSuspect
<1>5. DOMAIN decisions = 1..n /\ IsFiniteSet(1..n) /\ 1..n # {}
  <2>1. IsFiniteSet(1..n)
    BY <1>1, FS_Interval
  <2>2. 1 \in 1..n
    BY <1>1
  <2> QED
    BY <2>1, <2>2
<1> HIDE DEF decisions, legible, readable, n
<1>6. \A k \in 1..n :
        /\ decisions[k].reason \in {"decoded", "partial_payload_evidence",
              "geometry_rejected", "payload_not_detected", "insufficient_sync_evidence"}
        /\ decisions[k].reason = "decoded" <=> legible(k) /\ IsWhole(mark)
        /\ decisions[k].reason = "partial_payload_evidence" <=> legible(k) /\ ~IsWhole(mark)
        /\ decisions[k].reason = "decoded" => decisions[k].id = mark.id /\ decisions[k].id \in Ids
  BY <1>2, <1>3, <1>4
<1>7. /\ summary.reason # "DECODE_FAILED"
      /\ summary = Summary(summary.id, summary.reason)
      /\ summary.id \in Ids \union {NoId}
      /\ summary.reason = "decoded" <=> summary.id # NoId
      /\ IsConclusive(summary) <=> \E k \in 1..n : IsConclusive(decisions[k])
      /\ \A id \in Ids : summary.id = id <=>
            /\ \E k \in 1..n : decisions[k].reason = "decoded"
            /\ \A k \in 1..n :
                  /\ decisions[k].reason # "partial_payload_evidence"
                  /\ decisions[k].reason = "decoded" => decisions[k].id = id
  <2>1. /\ IsFiniteSet(DOMAIN decisions) /\ DOMAIN decisions # {}
        /\ \A k \in DOMAIN decisions :
              /\ decisions[k].reason \in {"decoded", "partial_payload_evidence",
                    "geometry_rejected", "payload_not_detected", "insufficient_sync_evidence"}
              /\ decisions[k].reason = "decoded" => decisions[k].id \in Ids
    BY <1>5, <1>6
  <2>2. /\ summary.reason # "DECODE_FAILED"
        /\ summary = Summary(summary.id, summary.reason)
        /\ summary.id \in Ids \union {NoId}
        /\ summary.reason = "decoded" <=> summary.id # NoId
        /\ IsConclusive(summary) <=> \E k \in DOMAIN decisions : IsConclusive(decisions[k])
        /\ \A id \in Ids : summary.id = id <=>
              /\ \E k \in DOMAIN decisions : decisions[k].reason = "decoded"
              /\ \A k \in DOMAIN decisions :
                    /\ decisions[k].reason # "partial_payload_evidence"
                    /\ decisions[k].reason = "decoded" => decisions[k].id = id
    BY <2>1, AggregateFacts
  <2> HIDE DEF summary
  <2> QED
    BY <1>5, <2>2
<1> HIDE DEF summary
<1>8. IsConclusive(summary) <=> readable
  BY <1>3, <1>6, <1>7 DEF IsConclusive
<1>9. summary.id = IF readable /\ IsWhole(mark) THEN mark.id ELSE NoId
  <2>1. CASE readable /\ IsWhole(mark)
    BY <1>3, <1>4, <1>6, <1>7, <2>1
  <2>2. CASE ~(readable /\ IsWhole(mark))
    <3>1. \A k \in 1..n : decisions[k].reason # "decoded"
      BY <1>3, <1>6, <2>2
    <3> QED
      BY <1>7, <2>2, <3>1
  <2> QED
    BY <2>1, <2>2
<1>10. AggregateUnknownPageDecisions(decisions) = summary
  <2>1. ASSUME summary.reason = "decoded"
        PROVE  ~(Cardinality(support) < UnknownPageMinConsistentDecodes)
    <3>1. PICK k \in 1..n : decisions[k].reason = "decoded"
      BY <1>7, <2>1
    <3>2. decisions[k].id = summary.id
      BY <1>7, <2>1, <3>1
    <3>3. k \in support /\ IsFiniteSet(support)
      BY <1>5, <3>1, <3>2, FS_Subset
    <3> HIDE DEF support
    <3>4. Cardinality(support) \in Nat /\ Cardinality(support) # 0
      BY <3>3, FS_CardinalityType, FS_EmptySet
    <3> QED
      BY <3>4 DEF UnknownPageMinConsistentDecodes
  <2>2. AggregateUnknownPageDecisions(decisions)
          = IF summary.reason = "decoded" /\ Cardinality(support) < UnknownPageMinConsistentDecodes
            THEN Summary(NoId, "partial_payload_evidence") ELSE summary
    BY Zenon DEF AggregateUnknownPageDecisions, summary
  <2> HIDE DEF support
  <2> QED
    BY <2>1, <2>2
<1> QED
  BY <1>7, <1>8, <1>9, <1>10 DEF decisions, readable, n

\* An image is read as it is, and once more without its border if it has one.
LEMMA ImageNames ==
    ASSUME NEW file, IsImage(file), NEW page, page = file.pages[1], IsSuspect(page),
           page = [width |-> page.width, height |-> page.height, unit |-> page.unit,
                   plain |-> page.plain, filter |-> page.filter, rotated |-> page.rotated,
                   place |-> page.place, mark |-> page.mark]
    PROVE  LET d == DecodeContent(file)
               readable == IsReadable(page.mark, 0..(PageIndexHypotheses - 1))
           IN  /\ d.reason # "DECODE_FAILED"
               /\ d = Summary(d.id, d.reason)
               /\ d.reason = "decoded" <=> d.id # NoId
               /\ IsConclusive(d) <=> page.place \in {"identity", "frame"} /\ readable
               /\ d.id = IF page.place \in {"identity", "frame"} /\ readable /\ IsWhole(page.mark)
                         THEN page.mark.id ELSE NoId
<1> DEFINE d == DecodeContent(file)
           readable == IsReadable(page.mark, 0..(PageIndexHypotheses - 1))
           pages == GeometryHypotheses(page)
           verdict(p) == AggregateUnknownPageDecisions(
                            [i \in 1..PageIndexHypotheses |-> FirstConclusiveDecision(p, i - 1)])
           decisions == [k \in DOMAIN pages |-> verdict(pages[k])]
           trimmed == [page EXCEPT !.place = "identity"]
<1>1. d = FirstConclusive(decisions)
  <2>1. file.format # "pdf"
    BY DEF IsImage
  <2> QED
    BY <2>1 DEF DecodeContent, DecodeImage
<1>2. /\ verdict(page).reason # "DECODE_FAILED"
      /\ verdict(page) = Summary(verdict(page).id, verdict(page).reason)
      /\ verdict(page).reason = "decoded" <=> verdict(page).id # NoId
      /\ IsConclusive(verdict(page)) <=> page.place = "identity" /\ readable
      /\ verdict(page).id = IF (page.place = "identity" /\ readable) /\ IsWhole(page.mark)
                            THEN page.mark.id ELSE NoId
  BY ImageVerdict
<1>3. trimmed.place = "identity" /\ trimmed.mark = page.mark
  OBVIOUS
<1>4. /\ verdict(trimmed).reason # "DECODE_FAILED"
      /\ verdict(trimmed) = Summary(verdict(trimmed).id, verdict(trimmed).reason)
      /\ verdict(trimmed).reason = "decoded" <=> verdict(trimmed).id # NoId
      /\ IsConclusive(verdict(trimmed)) <=> readable
      /\ verdict(trimmed).id = IF readable /\ IsWhole(page.mark) THEN page.mark.id ELSE NoId
  <2>1. IsSuspect(trimmed)
    BY <1>3 DEF IsSuspect
  <2> HIDE DEF trimmed
  <2> QED
    BY <1>3, <2>1, ImageVerdict
<1> HIDE DEF d, readable, verdict, trimmed
<1>5. CASE page.place # "frame"
  <2>1. pages = <<page>>
    BY <1>5 DEF GeometryHypotheses, RestoreFrame
  <2>2. DOMAIN decisions = 1..1 /\ decisions[1] = verdict(page)
    BY <2>1
  <2> HIDE DEF decisions, pages
  <2>3. \A k \in 1..1 : decisions[k] = verdict(page)
    BY <2>2
  <2>4. d = verdict(page)
    <3>1. 1 \in Nat \ {0} /\ 1 \in 1..1
      OBVIOUS
    <3>2. CASE IsConclusive(verdict(page))
      <4>1. \E k \in 1..1 : IsConclusive(decisions[k])
        BY <2>3, <3>1, <3>2, Zenon
      <4>2. \E k \in 1..1 : d = decisions[k]
        BY <1>1, <2>2, <3>1, <4>1, FirstConclusiveFacts, Zenon
      <4> QED
        BY <2>3, <4>2, Zenon
    <3>3. CASE ~IsConclusive(verdict(page))
      <4>1. \A k \in 1..1 : ~IsConclusive(decisions[k])
        BY <2>3, <3>3, Zenon
      <4> QED
        BY <1>1, <2>2, <3>1, <4>1, FirstConclusiveFacts, Zenon
    <3> QED
      BY <3>2, <3>3
  <2> QED
    BY <1>2, <1>5, <2>4 DEF d, readable
<1>6. CASE page.place = "frame"
  <2>1. pages = <<page, trimmed>>
    BY <1>6 DEF GeometryHypotheses, RestoreFrame, trimmed
  <2>2. DOMAIN decisions = 1..2 /\ decisions[1] = verdict(page) /\ decisions[2] = verdict(trimmed)
    BY <2>1
  <2>3. ~IsConclusive(verdict(page)) /\ verdict(page).id = NoId
    BY <1>2, <1>6
  <2> HIDE DEF decisions, pages
  <2>4. \A k \in 1..2 : k = 1 \/ k = 2
    OBVIOUS
  <2>5. CASE IsConclusive(verdict(trimmed))
    <3>1. 2 \in Nat \ {0} /\ 2 \in 1..2
      OBVIOUS
    <3>2. \E k \in 1..2 : IsConclusive(decisions[k])
      BY <2>2, <2>5, <3>1, Zenon
    <3>3. PICK k \in 1..2 : IsConclusive(decisions[k]) /\ d = decisions[k]
      BY <1>1, <2>2, <3>1, <3>2, FirstConclusiveFacts, Zenon
    <3>4. d = verdict(trimmed)
      BY <2>2, <2>3, <2>4, <3>3
    <3> QED
      BY <1>4, <1>6, <2>5, <3>4 DEF d, readable
  <2>6. CASE ~IsConclusive(verdict(trimmed))
    <3>1. \A k \in 1..2 : ~IsConclusive(decisions[k])
      BY <2>2, <2>3, <2>4, <2>6
    <3>2. 2 \in Nat \ {0}
      OBVIOUS
    <3>3. d = verdict(page)
      BY <1>1, <2>2, <3>2, <3>1, FirstConclusiveFacts, Zenon
    <3> QED
      BY <1>2, <1>4, <1>6, <2>3, <2>6, <3>3 DEF d, readable
  <2> QED
    BY <2>5, <2>6
<1> QED
  BY <1>5, <1>6
-----------------------------------------------------------------------------
(* What a file passes.                                                     *)

\* Checks in a row pass exactly if each of them does.
LEMMA FirstCodeFacts ==
    ASSUME NEW n \in Nat, NEW codes, DOMAIN codes = 1..n
    PROVE  FirstCode(codes) = "none" <=> \A k \in 1..n : codes[k] = "none"
<1> DEFINE S == {k \in 1..n : codes[k] # "none"}
           first == CHOOSE k \in DOMAIN codes :
                       codes[k] # "none" /\ \A j \in 1..(k - 1) : codes[j] = "none"
<1>1. ASSUME S # {} PROVE FirstCode(codes) # "none"
  <2>1. \E k \in S : \A j \in 1..(k - 1) : j \notin S
    <3>1. S \in SUBSET (1..n)
      OBVIOUS
    <3> HIDE DEF S
    <3> QED
      BY <1>1, <3>1, FirstExists
  <2>2. \E k \in DOMAIN codes : codes[k] # "none" /\ \A j \in 1..(k - 1) : codes[j] = "none"
    BY <2>1
  <2>3. codes[first] # "none"
    BY <2>2
  <2>4. FirstCode(codes) = codes[first]
    BY <1>1 DEF FirstCode
  <2> HIDE DEF first
  <2> QED
    BY <2>3, <2>4
<1>2. ASSUME S = {} PROVE FirstCode(codes) = "none"
  BY <1>2 DEF FirstCode
<1> QED
  BY <1>1, <1>2

\* The same for the rows of two and three checks there are.
LEMMA TwoCodes ==
    ASSUME NEW a, NEW b
    PROVE  FirstCode(<<a, b>>) = "none" <=> a = "none" /\ b = "none"
<1>1. DOMAIN <<a, b>> = 1..2 /\ <<a, b>>[1] = a /\ <<a, b>>[2] = b
  OBVIOUS
<1>2. FirstCode(<<a, b>>) = "none" <=> \A k \in 1..2 : <<a, b>>[k] = "none"
  BY <1>1, FirstCodeFacts
<1>3. \A k : k \in 1..2 <=> k = 1 \/ k = 2
  OBVIOUS
<1> QED
  BY <1>1, <1>2, <1>3

LEMMA ThreeCodes ==
    ASSUME NEW a, NEW b, NEW c
    PROVE  FirstCode(<<a, b, c>>) = "none" <=> a = "none" /\ b = "none" /\ c = "none"
<1>1. DOMAIN <<a, b, c>> = 1..3 /\ <<a, b, c>>[1] = a /\ <<a, b, c>>[2] = b /\ <<a, b, c>>[3] = c
  OBVIOUS
<1>2. FirstCode(<<a, b, c>>) = "none" <=> \A k \in 1..3 : <<a, b, c>>[k] = "none"
  BY <1>1, FirstCodeFacts
<1>3. \A k : k \in 1..3 <=> k = 1 \/ k = 2 \/ k = 3
  OBVIOUS
<1> QED
  BY <1>1, <1>2, <1>3

\* The two verifiers pass the same files, but for turned photographs.
LEMMA VerifiersAgree ==
    ASSUME NEW file, (InspectIntegrityContent(file) = "none") # (DecodeCode(file) = "none")
    PROVE  IsImage(file) /\ file.pages[1].rotated
<1> DEFINE page == file.pages[1]
<1>1. InspectIntegrityContent(file) = "none"
        <=> /\ FormatCode(file) = "none"
            /\ IF file.format = "pdf" THEN PdfCode(file) = "none"
               ELSE file.opens = "yes" /\ DimensionsCode(page) = "none"
  <2> DEFINE code == IF file.format = "pdf" THEN PdfCode(file)
                     ELSE IF file.opens # "yes" THEN "IMAGE_INVALID" ELSE DimensionsCode(page)
  <2>1. InspectIntegrityContent(file) = FirstCode(<<FormatCode(file), code>>)
    BY DEF InspectIntegrityContent
  <2>2. InspectIntegrityContent(file) = "none" <=> FormatCode(file) = "none" /\ code = "none"
    <3> HIDE DEF code
    <3> QED
      BY <2>1, TwoCodes
  <2> QED
    BY <2>2
<1>2. DecodeCode(file) = "none"
        <=> /\ FormatCode(file) = "none"
            /\ IF file.format = "pdf" THEN PdfCode(file) = "none" ELSE ImageCode(file) = "none"
  <2> DEFINE code == IF file.format = "pdf" THEN PdfCode(file) ELSE ImageCode(file)
  <2>1. DecodeCode(file) = FirstCode(<<FormatCode(file), code>>)
    BY DEF DecodeCode
  <2>2. DecodeCode(file) = "none" <=> FormatCode(file) = "none" /\ code = "none"
    <3> HIDE DEF code
    <3> QED
      BY <2>1, TwoCodes
  <2> QED
    BY <2>2
<1>3. ASSUME ~page.rotated
      PROVE  ImageCode(file) = "none" <=> file.opens = "yes" /\ DimensionsCode(page) = "none"
  <2> DEFINE header == IF HasDimensions(file) THEN "none" ELSE "IMAGE_INVALID"
             raster == IF \/ file.opens # "yes"
                          \/ <<Upright(page).height, Upright(page).width>> # JpegDimensions(page)
                       THEN "IMAGE_INVALID" ELSE "none"
  <2>1. ImageCode(file) = FirstCode(<<header, DimensionsCode(page), raster>>)
    BY DEF ImageCode
  <2>2. ImageCode(file) = "none" <=> header = "none" /\ DimensionsCode(page) = "none" /\ raster = "none"
    <3> HIDE DEF header, raster
    <3> QED
      BY <2>1, ThreeCodes
  <2>3. raster = "none" <=> file.opens = "yes"
    BY <1>3 DEF Upright, JpegDimensions
  <2>4. file.opens = "yes" => header = "none"
    BY DEF HasDimensions
  <2> HIDE DEF header, raster
  <2> QED
    BY <2>2, <2>3, <2>4
<1>4. FormatCode(file) = "none" => file.format \in {"pdf", "png", "jpeg"}
  BY DEF FormatCode
<1> QED
  BY <1>1, <1>2, <1>3, <1>4 DEF IsImage
-----------------------------------------------------------------------------
\* What the fingerprints of suspect pages name.
LEMMA MarkFacts ==
    ASSUME NEW m \in Marks
    PROVE  m.id \in Ids \union {NoId} /\ m.tiles \subseteq PayloadTiles
<1>1. CASE m = NoMark
  BY <1>1 DEF NoMark
<1>2. ASSUME NEW id \in Ids, NEW index, NEW profile, NEW tiles \in {{}, {2}, {1, 3}},
             m = [Mark(id, index, profile) EXCEPT !.tiles = tiles]
      PROVE  m.id \in Ids /\ m.tiles \subseteq PayloadTiles
  <2>1. m = [id |-> id, index |-> index, profile |-> profile, tiles |-> tiles]
    BY <1>2 DEF Mark
  <2>2. m.id = id /\ m.tiles = tiles
    BY <2>1
  <2>3. tiles \subseteq PayloadTiles
    BY DEF PayloadTiles
  <2> QED
    BY <2>2, <2>3
<1>3. m = NoMark \/ \E id \in Ids, index \in 0..PageIndexHypotheses,
                        profile \in ProfilesInUse \union {"retired"}, tiles \in {{}, {2}, {1, 3}} :
                        m = [Mark(id, index, profile) EXCEPT !.tiles = tiles]
  BY DEF Marks
<1> QED
  BY <1>1, <1>2, <1>3

(* A file names an issuance exactly if every readable page names it whole,  *)
(* an image at one of the indexes that are tried, and both verifiers pass   *)
(* the same files but for turned photographs: for every choice of           *)
(* identifiers, profiles, thresholds and limits (_aggregate_decisions(),    *)
(* _decode_image() and _inspect_integrity_content() of verification.py).    *)
THEOREM AttributionsAreUnanimous == Spec => []AttributionIsUnanimous
<1>1. ASSUME NEW m \in Marks, NEW place
      PROVE  /\ IsSuspect(Suspect(m, place))
             /\ Suspect(m, place).place = place
             /\ Suspect(m, place).mark = m
  <2>1. m.id \in Ids \union {NoId} /\ m.tiles \subseteq PayloadTiles
    BY MarkFacts
  <2>2. Suspect(m, place).place = place /\ Suspect(m, place).mark = m
    BY DEF Suspect, Page
  <2> QED
    BY <2>1, <2>2 DEF IsSuspect
<1>2. ASSUME NEW file \in Mixed
      PROVE  LET readable == {file.pages[k].mark :
                                k \in {j \in DOMAIN file.pages : IsReadable(file.pages[j].mark, {j - 1})}}
                 decision == DecodeContent(file)
             IN  /\ decision.reason # "DECODE_FAILED"
                 /\ \A id \in Ids : decision.id = id <=>
                       readable # {} /\ \A m \in readable : m.id = id /\ IsWhole(m)
  <2>1. PICK m \in Marks, n \in Marks :
           file = File("pdf", 1, "yes", <<Suspect(m, "identity"), Suspect(n, "identity")>>)
    BY DEF Mixed
  <2> DEFINE p == Suspect(m, "identity")
             q == Suspect(n, "identity")
  <2>2. IsSuspect(p) /\ p.place = "identity" /\ IsSuspect(q) /\ q.place = "identity"
    BY <1>1
  <2>3. file.format = "pdf" /\ file.pages = <<p, q>>
    BY <2>1 DEF File
  <2> HIDE DEF p, q
  <2>4. DOMAIN file.pages = 1..2 /\ file.pages[1] = p /\ file.pages[2] = q
    BY <2>3
  <2>5. ASSUME NEW k \in 1..2 PROVE IsSuspect(file.pages[k]) /\ file.pages[k].place = "identity"
    <3>1. k = 1 \/ k = 2
      OBVIOUS
    <3> QED
      BY <2>2, <2>4, <3>1
  <2>6. 2 \in Nat \ {0}
    OBVIOUS
  <2> QED
    BY <2>3, <2>4, <2>5, <2>6, DocumentNames, Zenon
<1>3. ASSUME NEW file \in Screenshots
      PROVE  LET mark     == file.pages[1].mark
                 decision == DecodeContent(file)
             IN  /\ decision.reason # "DECODE_FAILED"
                 /\ decision.id # NoId <=>
                       /\ IsReadable(mark, 0..(PageIndexHypotheses - 1)) /\ IsWhole(mark)
                       /\ file.pages[1].place \in {"identity", "frame"}
                 /\ decision.id \in {NoId, mark.id}
  <2>1. PICK m \in Marks, place \in {"identity", "frame", "crop"} :
           file = File("png", 1, "yes", <<Shot(m, place)>>)
    BY DEF Screenshots
  <2>2. PICK page : page = Shot(m, place)
    OBVIOUS
  <2>3. page = [width |-> 4, height |-> 9, unit |-> 1, plain |-> FALSE, filter |-> "none",
                rotated |-> FALSE, place |-> place, mark |-> m]
    BY <2>2 DEF Page, Shot
  <2>4. IsImage(file) /\ page = file.pages[1]
    BY <2>1, <2>2 DEF File, IsImage
  <2>5. m.id \in Ids \union {NoId} /\ m.tiles \subseteq PayloadTiles
    BY MarkFacts
  <2>6. IsSuspect(page) /\ page.mark = m /\ page.place = place
    BY <2>3, <2>5 DEF IsSuspect
  <2>7. page = [width |-> page.width, height |-> page.height, unit |-> page.unit,
                plain |-> page.plain, filter |-> page.filter, rotated |-> page.rotated,
                place |-> page.place, mark |-> page.mark]
    BY <2>3
  <2>8. /\ DecodeContent(file).reason # "DECODE_FAILED"
        /\ DecodeContent(file).id =
              IF /\ page.place \in {"identity", "frame"}
                 /\ IsReadable(page.mark, 0..(PageIndexHypotheses - 1)) /\ IsWhole(page.mark)
              THEN page.mark.id ELSE NoId
    BY <2>4, <2>6, <2>7, ImageNames
  <2>9. IsReadable(page.mark, 0..(PageIndexHypotheses - 1)) => page.mark.id # NoId
    BY DEF IsReadable
  <2> QED
    BY <2>4, <2>8, <2>9
<1>4. AttributionIsUnanimous
  BY <1>2, <1>3, VerifiersAgree DEF AttributionIsUnanimous
<1> QED
  BY <1>4, PTL
-----------------------------------------------------------------------------
(* Raster budgets.                                                         *)

\* The loop of the budget has a total after every page.
LEMMA TotalsExist ==
    ASSUME NEW n \in Nat, NEW cost
    PROVE  \E g : g = [k \in 0..n |-> IF k = 0 THEN 0 ELSE g[k - 1] + cost[k]]
<1> DEFINE Has(m) == \E g : g = [k \in 0..m |-> IF k = 0 THEN 0 ELSE g[k - 1] + cost[k]]
           S == {m \in Nat : ~Has(m)}
<1>1. ASSUME S # {} PROVE FALSE
  <2>1. PICK m \in S : \A j \in S : m <= j
    <3>1. S \in SUBSET Nat
      OBVIOUS
    <3> HIDE DEF S
    <3> QED
      BY <1>1, <3>1, LeastNatural
  <2>2. m \in Nat /\ ~Has(m)
    BY <2>1
  <2>3. m # 0
    <3> DEFINE g == [k \in 0..0 |-> 0]
    <3>1. g = [k \in 0..0 |-> IF k = 0 THEN 0 ELSE g[k - 1] + cost[k]]
      OBVIOUS
    <3>2. Has(0)
      <4> HIDE DEF g
      <4> QED
        BY <3>1
    <3> HIDE DEF Has
    <3> QED
      BY <2>2, <3>2
  <2>4. Has(m - 1)
    <3>1. m - 1 \in Nat /\ ~(m <= m - 1)
      BY <2>2, <2>3
    <3>2. m - 1 \notin S
      <4> HIDE DEF S
      <4> QED
        BY <2>1, <3>1
    <3> HIDE DEF Has
    <3> QED
      BY <3>1, <3>2
  <2>5. PICK g : g = [k \in 0..(m - 1) |-> IF k = 0 THEN 0 ELSE g[k - 1] + cost[k]]
    BY <2>4
  <2> DEFINE h == [k \in 0..m |-> IF k = m THEN g[m - 1] + cost[m] ELSE g[k]]
  <2>6. ASSUME NEW k \in 0..m
        PROVE  h[k] = IF k = 0 THEN 0 ELSE h[k - 1] + cost[k]
    <3>1. h[m] = g[m - 1] + cost[m] /\ \A j \in 0..(m - 1) : h[j] = g[j]
      BY <2>2, <2>3
    <3> HIDE DEF h
    <3>2. CASE k = m
      <4>1. m - 1 \in 0..(m - 1)
        BY <2>2, <2>3
      <4> QED
        BY <2>3, <3>1, <3>2, <4>1
    <3>3. CASE k \in 0..(m - 1) /\ k # 0
      <4>1. k - 1 \in 0..(m - 1)
        BY <2>2, <3>3
      <4>2. g[k] = g[k - 1] + cost[k]
        BY <2>5, <3>3
      <4> QED
        BY <3>1, <3>3, <4>1, <4>2
    <3>4. CASE k = 0
      <4>1. 0 \in 0..(m - 1)
        BY <2>2, <2>3
      <4>2. g[0] = 0
        BY <2>5, <4>1
      <4> QED
        BY <3>1, <3>4, <4>1, <4>2
    <3>5. k = m \/ k \in 0..(m - 1)
      BY <2>2
    <3> QED
      BY <3>2, <3>3, <3>4, <3>5
  <2>7. h = [k \in 0..m |-> h[k]]
    OBVIOUS
  <2>8. Has(m)
    <3>1. h = [k \in 0..m |-> IF k = 0 THEN 0 ELSE h[k - 1] + cost[k]]
      <4> HIDE DEF h
      <4> QED
        BY <2>6, <2>7
    <3> HIDE DEF h
    <3> QED
      BY <3>1
  <2> HIDE DEF Has
  <2> QED
    BY <2>2, <2>8
<1> HIDE DEF Has
<1>2. Has(n)
  BY <1>1
<1> QED
  BY <1>2 DEF Has

\* Every total is the one before it and the cost of its page.
LEMMA TotalFacts ==
    ASSUME NEW pages, Len(pages) \in Nat, NEW cost,
           \A k \in 1..Len(pages) : cost[k] \in Nat
    PROVE  LET total == RunningTotal(pages, cost)
           IN  /\ total[0] = 0
               /\ \A k \in 1..Len(pages) : total[k] = total[k - 1] + cost[k]
               /\ \A k \in 0..Len(pages) : total[k] \in Nat
<1> DEFINE n == Len(pages)
           total == RunningTotal(pages, cost)
<1>1. total = CHOOSE g : g = [k \in 0..n |-> IF k = 0 THEN 0 ELSE g[k - 1] + cost[k]]
  BY DEF RunningTotal
<1>2. total = [k \in 0..n |-> IF k = 0 THEN 0 ELSE total[k - 1] + cost[k]]
  <2> HIDE DEF total, n
  <2> QED
    BY <1>1, TotalsExist DEF n
<1> HIDE DEF total
<1>3. total[0] = 0 /\ \A k \in 1..n : total[k] = total[k - 1] + cost[k]
  BY <1>2
<1> DEFINE S == {k \in 0..n : total[k] \notin Nat}
<1>4. S = {}
  <2> SUFFICES ASSUME S # {} PROVE FALSE
    OBVIOUS
  <2>1. PICK k \in S : \A j \in S : k <= j
    <3>1. S \in SUBSET Nat
      OBVIOUS
    <3> HIDE DEF S
    <3> QED
      BY <3>1, LeastNatural
  <2>2. k \in 1..n /\ k - 1 \in 0..n
    BY <1>3, <2>1
  <2>3. total[k - 1] \in Nat
    BY <2>1, <2>2
  <2> QED
    BY <1>3, <2>1, <2>2, <2>3
<1> QED
  BY <1>3, <1>4 DEF total

\* Cheaper pages stay within a budget that the dearer ones kept.
LEMMA CheaperStaysWithin ==
    ASSUME NEW before, NEW after, Len(before) \in Nat, Len(after) = Len(before),
           NEW old, NEW new,
           \A k \in 1..Len(before) : old[k] \in Nat /\ new[k] \in Nat /\ new[k] <= old[k]
    PROVE  \A k \in 0..Len(before) : RunningTotal(after, new)[k] <= RunningTotal(before, old)[k]
<1> DEFINE n == Len(before)
           a == RunningTotal(after, new)
           b == RunningTotal(before, old)
           S == {k \in 0..n : ~(a[k] <= b[k])}
<1>1. /\ a[0] = 0 /\ \A k \in 1..n : a[k] = a[k - 1] + new[k]
      /\ \A k \in 0..n : a[k] \in Nat
  BY TotalFacts
<1>2. /\ b[0] = 0 /\ \A k \in 1..n : b[k] = b[k - 1] + old[k]
      /\ \A k \in 0..n : b[k] \in Nat
  BY TotalFacts
<1> HIDE DEF a, b
<1>3. S = {}
  <2> SUFFICES ASSUME S # {} PROVE FALSE
    OBVIOUS
  <2>1. PICK k \in S : \A j \in S : k <= j
    <3>1. S \in SUBSET Nat
      OBVIOUS
    <3> HIDE DEF S
    <3> QED
      BY <3>1, LeastNatural
  <2>2. k \in 1..n /\ k - 1 \in 0..n
    BY <1>1, <1>2, <2>1
  <2>3. a[k - 1] <= b[k - 1]
    BY <2>1, <2>2
  <2>4. /\ a[k] = a[k - 1] + new[k] /\ b[k] = b[k - 1] + old[k]
        /\ a[k - 1] \in Nat /\ b[k - 1] \in Nat
    BY <1>1, <1>2, <2>2
  <2>5. new[k] \in Nat /\ old[k] \in Nat /\ new[k] <= old[k]
    BY <2>2
  <2> QED
    BY <2>1, <2>3, <2>4, <2>5
<1> QED
  BY <1>3 DEF a, b
-----------------------------------------------------------------------------
(* Sizes.                                                                  *)

\* Rounding up a length to whole pixels.
LEMMA CeilingFacts ==
    ASSUME NEW a \in Nat, NEW b \in Nat \ {0}
    PROVE  /\ Ceiling(a, b) \in Nat
           /\ a <= Ceiling(a, b) * b
           /\ \A c \in Nat : a <= c * b => Ceiling(a, b) <= c
           /\ a > 0 <=> Ceiling(a, b) > 0
  BY Z3 DEF Ceiling

\* Rounding a length to the digits that are written does not pass a length
\* that can be written.
LEMMA PdfNumberFacts ==
    ASSUME NEW length \in Nat
    PROVE  /\ PdfNumber(length) \in Nat
           /\ \A m \in Nat : length <= m * Precision => PdfNumber(length) <= m * Precision
  BY ContentAssumption, Z3 DEF PdfNumber
-----------------------------------------------------------------------------
(* What is issued.                                                         *)

\* A row of checks that passes has passed each of them.
LEMMA FourCodes ==
    ASSUME NEW a, NEW b, NEW c, NEW d
    PROVE  FirstCode(<<a, b, c, d>>) = "none" => a = "none" /\ b = "none" /\ c = "none" /\ d = "none"
<1>1. DOMAIN <<a, b, c, d>> = 1..4
      /\ <<a, b, c, d>>[1] = a /\ <<a, b, c, d>>[2] = b
      /\ <<a, b, c, d>>[3] = c /\ <<a, b, c, d>>[4] = d
  OBVIOUS
<1>2. FirstCode(<<a, b, c, d>>) = "none" <=> \A k \in 1..4 : <<a, b, c, d>>[k] = "none"
  BY <1>1, FirstCodeFacts
<1>3. 1 \in 1..4 /\ 2 \in 1..4 /\ 3 \in 1..4 /\ 4 \in 1..4
  OBVIOUS
<1> QED
  BY <1>1, <1>2, <1>3

LEMMA SixCodes ==
    ASSUME NEW a, NEW b, NEW c, NEW d, NEW e, NEW f
    PROVE  FirstCode(<<a, b, c, d, e, f>>) = "none" =>
              /\ a = "none" /\ b = "none" /\ c = "none"
              /\ d = "none" /\ e = "none" /\ f = "none"
<1> DEFINE codes == <<a, b, c, d, e, f>>
<1>1. /\ DOMAIN codes = 1..6
      /\ codes[1] = a /\ codes[2] = b /\ codes[3] = c
      /\ codes[4] = d /\ codes[5] = e /\ codes[6] = f
  OBVIOUS
<1>2. FirstCode(codes) = "none" <=> \A k \in 1..6 : codes[k] = "none"
  BY <1>1, FirstCodeFacts
<1>3. 1 \in 1..6 /\ 2 \in 1..6 /\ 3 \in 1..6 /\ 4 \in 1..6 /\ 5 \in 1..6 /\ 6 \in 1..6
  OBVIOUS
<1> QED
  BY <1>1, <1>2, <1>3

\* Z3 needs to be told that products of naturals are naturals.
LEMMA Products ==
    ASSUME NEW a \in Nat, NEW b \in Nat PROVE a * b \in Nat
  OBVIOUS

\* A length in points, written with the digits there are and rendered again.
LEMMA RoundTrip ==
    ASSUME NEW width \in Nat, NEW unit \in Nat
    PROVE  LET length == width * unit
               issued == Ceiling(width * (SourceRenderScale * unit), Ticks)
               shown  == Ceiling(PdfNumber(length) * (PdfRenderScale * 1), Ticks)
           IN  /\ shown \in Nat /\ issued \in Nat /\ shown <= issued
               /\ PdfNumber(length) = length => shown = issued
<1> DEFINE q == Ticks \div (2 * Precision)
<1>1. /\ Ticks \in Nat \ {0} /\ Precision \in Nat \ {0}
      /\ q \in Nat /\ Ticks = q * (2 * Precision)
  <2>1. Ticks \in Nat \ {0} /\ Precision \in Nat \ {0} /\ Ticks % (2 * Precision) = 0
    BY ContentAssumption
  <2>2. ASSUME NEW t \in Nat \ {0}, NEW p \in Nat \ {0}, t % p = 0
        PROVE  t \div p \in Nat /\ t = (t \div p) * p
    BY <2>2, Z3
  <2>3. 2 * Precision \in Nat \ {0}
    BY <2>1
  <2> QED
    BY <2>1, <2>2, <2>3
<1> HIDE DEF q
<1>2. PICK length \in Nat : length = width * unit
  <2>1. width * unit \in Nat
    BY Products
  <2> QED
    BY <2>1, Zenon
<1>3. width * (SourceRenderScale * unit) = 2 * length
  BY <1>2, Z3 DEF SourceRenderScale
<1>4. PICK c \in Nat : c = Ceiling(2 * length, Ticks)
  <2>1. 2 * length \in Nat
    OBVIOUS
  <2>2. Ceiling(2 * length, Ticks) \in Nat
    BY <1>1, <2>1, CeilingFacts
  <2> QED
    BY <2>2, Zenon
<1>5. 2 * length <= c * Ticks
  <2>1. 2 * length \in Nat
    OBVIOUS
  <2> QED
    BY <1>1, <1>4, <2>1, CeilingFacts
<1>6. PICK m \in Nat : m = c * q
  <2>1. c * q \in Nat
    BY <1>1, Products
  <2> QED
    BY <2>1, Zenon
<1>7. c * Ticks = 2 * (m * Precision)
  BY <1>1, <1>6, Z3
<1>8. m * Precision \in Nat
  BY <1>1, Z3
<1>9. length <= m * Precision
  BY <1>5, <1>7, <1>8
<1>10. PdfNumber(length) \in Nat /\ PdfNumber(length) <= m * Precision
  BY <1>9, PdfNumberFacts
<1>11. PdfNumber(length) * (PdfRenderScale * 1) = 2 * PdfNumber(length)
  BY <1>10 DEF PdfRenderScale
<1>12. 2 * PdfNumber(length) \in Nat /\ 2 * PdfNumber(length) <= c * Ticks
  BY <1>7, <1>8, <1>10
<1>13. Ceiling(2 * PdfNumber(length), Ticks) \in Nat /\ Ceiling(2 * PdfNumber(length), Ticks) <= c
  BY <1>1, <1>12, CeilingFacts
<1> QED
  BY <1>2, <1>3, <1>4, <1>11, <1>13

\* A raster no wider and no higher has no more pixels.
LEMMA Areas ==
    ASSUME NEW a \in Nat, NEW b \in Nat, NEW c \in Nat, NEW d \in Nat, a <= c, b <= d
    PROVE  a * b \in Nat /\ c * d \in Nat /\ a * b <= c * d
<1>1. a * b \in Nat /\ c * d \in Nat /\ c * b \in Nat
  BY Z3
<1>2. a * b <= c * b
  BY Z3
<1>3. c * b <= c * d
  BY Z3
<1> QED
  BY <1>1, <1>2, <1>3

\* Max() of a page's rendering and the canvas.
LEMMA DearerCost ==
    ASSUME NEW a \in Nat, NEW b \in Nat
    PROVE  Max({a, b}) \in Nat /\ a <= Max({a, b})
<1>1. \E x \in {a, b} : \A y \in {a, b} : x >= y
  OBVIOUS
<1>2. Max({a, b}) \in {a, b} /\ \A y \in {a, b} : Max({a, b}) >= y
  BY <1>1 DEF Max
<1> QED
  BY <1>2

\* A page of a source, and a source, in the terms the proofs need.
IsSourcePage(page) ==
    /\ page.width \in Nat /\ page.height \in Nat /\ page.unit \in Nat
    /\ page = [width |-> page.width, height |-> page.height, unit |-> page.unit,
               plain |-> page.plain, filter |-> page.filter, rotated |-> page.rotated,
               place |-> "identity", mark |-> page.mark]

IsSource(source) ==
    \E n \in Nat :
        /\ DOMAIN source.pages = 1..n /\ Len(source.pages) = n
        /\ \A k \in 1..n : IsSourcePage(source.pages[k])
        /\ IsImage(source) => n = 1 /\ PageIsPositive(source.pages[1])

\* Every source that is issued from is one.
LEMMA NewPage ==
    ASSUME NEW width \in Nat, NEW height \in Nat, NEW unit \in Nat
    PROVE  IsSourcePage(Page(width, height, unit))
<1> DEFINE page == Page(width, height, unit)
<1>1. page = [width |-> width, height |-> height, unit |-> unit, plain |-> FALSE,
              filter |-> "none", rotated |-> FALSE, place |-> "identity", mark |-> NoMark]
  BY DEF Page
<1> HIDE DEF page
<1>2. /\ page.width = width /\ page.height = height /\ page.unit = unit
      /\ page.plain = FALSE /\ page.filter = "none" /\ page.rotated = FALSE
      /\ page.mark = NoMark
  BY <1>1
<1> QED
  BY <1>1, <1>2 DEF IsSourcePage, page

LEMMA LengthsAreNatural ==
    /\ Lengths \subseteq Nat /\ CanvasHeight * Ticks \in Nat
    /\ {2 * Ticks, 2 * Ticks + 3, 6 * Ticks, CanvasWidth * Ticks} \subseteq Nat
<1>1. Ticks \in Nat \ {0} /\ CanvasHeight \in Nat /\ CanvasWidth \in Nat
  BY ContentAssumption
<1>2. CanvasHeight * Ticks \in Nat /\ CanvasWidth * Ticks \in Nat
  BY <1>1, Products
<1>3. {2 * Ticks, 2 * Ticks + 3, 6 * Ticks, 2 * Ticks - 1, 2 * Ticks + 1} \subseteq Nat
  BY <1>1
<1> QED
  BY <1>2, <1>3 DEF Lengths

LEMMA SourcePages ==
    /\ \A page \in SourcePageSet : IsSourcePage(page)
    /\ \A page \in FewPages : IsSourcePage(page)
    /\ \A page \in Photographs : IsSourcePage(page) /\ PageIsPositive(page)
<1>1. ASSUME NEW page \in SourcePageSet PROVE IsSourcePage(page)
  <2>1. PICK w \in Lengths, h \in Lengths \union {CanvasHeight * Ticks}, u \in {1, 2, 4} :
           page = Page(w, h, u)
    BY DEF SourcePageSet
  <2>2. w \in Nat /\ h \in Nat /\ u \in Nat
    BY LengthsAreNatural
  <2> QED
    BY <2>1, <2>2, NewPage
<1>2. ASSUME NEW page \in FewPages PROVE IsSourcePage(page)
  <2>1. PICK w \in Nat, h \in Nat, u \in Nat : page = Page(w, h, u)
    <3>1. 0 \in Nat /\ 1 \in Nat /\ 2 \in Nat
      OBVIOUS
    <3>2. \/ page = Page(CanvasWidth * Ticks, CanvasHeight * Ticks, 1)
          \/ page = Page(2 * Ticks + 3, 2 * Ticks, 1)
          \/ page = Page(6 * Ticks, 6 * Ticks, 2) \/ page = Page(0, 1, 1)
      BY DEF FewPages
    <3>3. /\ CanvasWidth * Ticks \in Nat /\ CanvasHeight * Ticks \in Nat
          /\ 2 * Ticks + 3 \in Nat /\ 2 * Ticks \in Nat /\ 6 * Ticks \in Nat
      BY LengthsAreNatural
    <3> QED
      BY <3>1, <3>2, <3>3, Zenon
  <2> QED
    BY <2>1, NewPage
<1>3. ASSUME NEW page \in Photographs PROVE IsSourcePage(page) /\ PageIsPositive(page)
  <2>1. PICK w \in {1, 4, 9}, h \in {2, 4, 9}, r \in BOOLEAN :
           page = [Page(w, h, 1) EXCEPT !.rotated = r]
    BY DEF Photographs
  <2>2. page = [width |-> w, height |-> h, unit |-> 1, plain |-> FALSE, filter |-> "none",
                rotated |-> r, place |-> "identity", mark |-> NoMark]
    BY <2>1 DEF Page
  <2>3. /\ page.width = w /\ page.height = h /\ page.unit = 1 /\ page.plain = FALSE
        /\ page.filter = "none" /\ page.rotated = r /\ page.mark = NoMark
    BY <2>2
  <2>4. w \in Nat /\ h \in Nat /\ w > 0 /\ h > 0 /\ 1 \in Nat
    OBVIOUS
  <2>5. IsSourcePage(page)
    BY <2>2, <2>3, <2>4 DEF IsSourcePage
  <2> QED
    BY <2>3, <2>4, <2>5 DEF PageIsPositive
<1> QED
  BY <1>1, <1>2, <1>3

LEMMA SourceFacts ==
    ASSUME NEW source \in Sources
    PROVE  IsSource(source)
<1>1. ASSUME NEW page, IsSourcePage(page), source.pages = <<page>>,
             IsImage(source) => PageIsPositive(page)
      PROVE  IsSource(source)
  <2>1. 1 \in Nat /\ DOMAIN source.pages = 1..1 /\ Len(source.pages) = 1 /\ source.pages[1] = page
    BY <1>1
  <2>2. \A k \in 1..1 : k = 1
    OBVIOUS
  <2> QED
    BY <1>1, <2>1, <2>2 DEF IsSource
<1>2. ASSUME NEW p, NEW q, IsSourcePage(p), IsSourcePage(q), source.pages = <<p, q>>,
             ~IsImage(source)
      PROVE  IsSource(source)
  <2>1. /\ 2 \in Nat /\ DOMAIN source.pages = 1..2 /\ Len(source.pages) = 2
        /\ source.pages[1] = p /\ source.pages[2] = q
    BY <1>2
  <2>2. \A k \in 1..2 : k = 1 \/ k = 2
    OBVIOUS
  <2> QED
    BY <1>2, <2>1, <2>2 DEF IsSource
<1>3. ASSUME source.pages = <<>>, ~IsImage(source) PROVE IsSource(source)
  <2>1. 0 \in Nat /\ DOMAIN source.pages = 1..0 /\ Len(source.pages) = 0 /\ 1..0 = {}
    BY <1>3
  <2> QED
    BY <1>3, <2>1 DEF IsSource
<1>4. CASE \E b \in {1, MaxPdfBytes + 1}, p \in SourcePageSet : source = File("pdf", b, "yes", <<p>>)
  <2>1. PICK b \in {1, MaxPdfBytes + 1}, p \in SourcePageSet : source = File("pdf", b, "yes", <<p>>)
    BY <1>4
  <2>2. ~IsImage(source) /\ source.pages = <<p>>
    BY <2>1 DEF File, IsImage
  <2> QED
    BY <1>1, <2>2, SourcePages
<1>5. CASE \E p, q \in FewPages : source = File("pdf", 1, "yes", <<p, q>>)
  <2>1. PICK p \in FewPages, q \in FewPages : source = File("pdf", 1, "yes", <<p, q>>)
    BY <1>5
  <2>2. ~IsImage(source) /\ source.pages = <<p, q>>
    BY <2>1 DEF File, IsImage
  <2> QED
    BY <1>2, <2>2, SourcePages
<1>6. CASE \E opens \in {"yes", "no", "password"},
               pages \in {<<>>, <<CHOOSE p \in FewPages : p.unit = 2>>} :
               source = File("pdf", 1, opens, pages)
  <2>1. PICK opens \in {"yes", "no", "password"},
             pages \in {<<>>, <<CHOOSE p \in FewPages : p.unit = 2>>} :
           source = File("pdf", 1, opens, pages)
    BY <1>6
  <2>2. ~IsImage(source) /\ source.pages = pages
    BY <2>1 DEF File, IsImage
  <2>3. (CHOOSE p \in FewPages : p.unit = 2) \in FewPages
    <3>1. Page(6 * Ticks, 6 * Ticks, 2) \in FewPages
      BY DEF FewPages
    <3>2. Page(6 * Ticks, 6 * Ticks, 2).unit = 2
      BY DEF Page
    <3> QED
      BY <3>1, <3>2
  <2>4. IsSourcePage(CHOOSE p \in FewPages : p.unit = 2)
    BY <2>3, SourcePages
  <2> QED
    BY <1>1, <1>3, <2>1, <2>2, <2>4, Zenon
<1>7. CASE source = [File("pdf", 1, "yes", <<Page(2 * Ticks, 2 * Ticks, 1)>>) EXCEPT !.strict = FALSE]
  <2>1. ~IsImage(source) /\ source.pages = <<Page(2 * Ticks, 2 * Ticks, 1)>>
    BY <1>7 DEF File, IsImage
  <2>2. IsSourcePage(Page(2 * Ticks, 2 * Ticks, 1))
    BY LengthsAreNatural, NewPage
  <2> QED
    BY <1>1, <2>1, <2>2
<1>8. ASSUME NEW format, NEW opens, source \in ImagesOf(format, opens) PROVE IsSource(source)
  <2>1. PICK b \in {1, MaxPdfBytes + 1}, p \in Photographs : source = File(format, b, opens, <<p>>)
    BY <1>8 DEF ImagesOf
  <2>2. source.pages = <<p>>
    BY <2>1 DEF File
  <2> QED
    BY <1>1, <2>2, SourcePages
<1>9. source \in OnePage => IsSource(source)
  BY <1>4 DEF OnePage
<1>10. source \in TwoPages => IsSource(source)
  BY <1>5 DEF TwoPages
<1>11. source \in Unopened => IsSource(source)
  BY <1>6 DEF Unopened
<1>12. source \in Lenient => IsSource(source)
  BY <1>7 DEF Lenient
<1>13. source \in Images => IsSource(source)
  BY <1>8 DEF Images
<1> QED
  BY <1>9, <1>10, <1>11, <1>12, <1>13 DEF Sources

\* A page of the artifact against the page it was made of.
LEMMA PageShown ==
    ASSUME NEW page, IsSourcePage(page), NEW mark
    PROVE  LET out    == SerializePage(EncodeLosslessPage(page, mark))
               issued == Raster(page, SourceRenderScale * page.unit)
               shown  == Raster(out, RenderScale(out))
           IN  /\ out.unit = 1 /\ out.place = "identity" /\ out.mark = mark
               /\ shown.width \in Nat /\ shown.height \in Nat
               /\ issued.width \in Nat /\ issued.height \in Nat
               /\ shown.width <= issued.width /\ shown.height <= issued.height
               /\ /\ PdfNumber(page.width * page.unit) = page.width * page.unit
                  /\ PdfNumber(page.height * page.unit) = page.height * page.unit
                  => shown = issued
<1> DEFINE out    == SerializePage(EncodeLosslessPage(page, mark))
           issued == Raster(page, SourceRenderScale * page.unit)
           shown  == Raster(out, RenderScale(out))
           W == PdfNumber(page.width * page.unit)
           H == PdfNumber(page.height * page.unit)
<1>1. out = [width |-> W, height |-> H, unit |-> 1, plain |-> TRUE, filter |-> "flate",
             rotated |-> FALSE, place |-> "identity", mark |-> mark]
  <2>1. PICK w : w = page.width * page.unit
    OBVIOUS
  <2>2. PICK h : h = page.height * page.unit
    OBVIOUS
  <2>3. PICK e : e = EncodeLosslessPage(page, mark)
    OBVIOUS
  <2>4. e = [width |-> w, height |-> h, unit |-> 1, plain |-> FALSE, filter |-> "flate",
             rotated |-> FALSE, place |-> "identity", mark |-> mark]
    <3>1. e = [Page(w, h, 1) EXCEPT !.filter = "flate", !.mark = mark]
      BY <2>1, <2>2, <2>3, Zenon DEF EncodeLosslessPage
    <3> QED
      BY <3>1 DEF Page
  <2>5. PICK v : v = PdfNumber(w)
    OBVIOUS
  <2>6. PICK u : u = PdfNumber(h)
    OBVIOUS
  <2>7. e.width = w /\ e.height = h
    BY <2>4
  <2>8. out = [e EXCEPT !.plain = TRUE, !.width = PdfNumber(e.width), !.height = PdfNumber(e.height)]
    BY <2>3, <2>4 DEF SerializePage
  <2>9. out = [e EXCEPT !.plain = TRUE, !.width = v, !.height = u]
    BY <2>5, <2>6, <2>7, <2>8, Zenon
  <2>10. out = [width |-> v, height |-> u, unit |-> 1, plain |-> TRUE, filter |-> "flate",
                rotated |-> FALSE, place |-> "identity", mark |-> mark]
    <3> HIDE DEF out
    <3> QED
      BY <2>4, <2>9
  <2> QED
    BY <2>1, <2>2, <2>5, <2>6, <2>10, Zenon
<1> HIDE DEF out
<1>2. /\ out.width = W /\ out.height = H /\ out.unit = 1 /\ out.filter = "flate"
      /\ out.place = "identity" /\ out.mark = mark
  BY <1>1
<1>3. RenderScale(out) = PdfRenderScale * 1
  BY <1>2 DEF RenderScale, IsLegacyCanonicalPage
<1>4. shown = [width |-> Ceiling(W * (PdfRenderScale * 1), Ticks),
               height |-> Ceiling(H * (PdfRenderScale * 1), Ticks)]
  BY <1>2, <1>3, Zenon DEF Raster
<1>5. issued = [width |-> Ceiling(page.width * (SourceRenderScale * page.unit), Ticks),
                height |-> Ceiling(page.height * (SourceRenderScale * page.unit), Ticks)]
  BY DEF Raster
<1> HIDE DEF shown, issued
<1>6. /\ shown.width = Ceiling(W * (PdfRenderScale * 1), Ticks)
      /\ shown.height = Ceiling(H * (PdfRenderScale * 1), Ticks)
      /\ issued.width = Ceiling(page.width * (SourceRenderScale * page.unit), Ticks)
      /\ issued.height = Ceiling(page.height * (SourceRenderScale * page.unit), Ticks)
      /\ shown.width = issued.width /\ shown.height = issued.height => shown = issued
  <2> DEFINE a == Ceiling(W * (PdfRenderScale * 1), Ticks)
             b == Ceiling(H * (PdfRenderScale * 1), Ticks)
             c == Ceiling(page.width * (SourceRenderScale * page.unit), Ticks)
             d == Ceiling(page.height * (SourceRenderScale * page.unit), Ticks)
  <2>1. shown = [width |-> a, height |-> b] /\ issued = [width |-> c, height |-> d]
    BY <1>4, <1>5, Zenon
  <2> HIDE DEF a, b, c, d
  <2>2. /\ shown.width = a /\ shown.height = b /\ issued.width = c /\ issued.height = d
        /\ a = c /\ b = d => shown = issued
    BY <2>1
  <2> QED
    BY <2>2, Zenon DEF a, b, c, d
<1>7. page.width \in Nat /\ page.height \in Nat /\ page.unit \in Nat
  BY DEF IsSourcePage
<1>8. /\ shown.width \in Nat /\ issued.width \in Nat /\ shown.width <= issued.width
      /\ W = page.width * page.unit => shown.width = issued.width
  BY <1>6, <1>7, RoundTrip, Zenon
<1>9. /\ shown.height \in Nat /\ issued.height \in Nat /\ shown.height <= issued.height
      /\ H = page.height * page.unit => shown.height = issued.height
  BY <1>6, <1>7, RoundTrip, Zenon
<1> HIDE DEF W, H
<1>10. W = page.width * page.unit /\ H = page.height * page.unit => shown = issued
  BY <1>6, <1>8, <1>9, Zenon
<1>11. /\ out.unit = 1 /\ out.place = "identity" /\ out.mark = mark
       /\ shown.width \in Nat /\ shown.height \in Nat
       /\ issued.width \in Nat /\ issued.height \in Nat
       /\ shown.width <= issued.width /\ shown.height <= issued.height
  BY <1>2, <1>8, <1>9
<1> QED
  BY <1>10, <1>11, Zenon DEF out, shown, issued, W, H

\* What a page carries when it is issued.
LEMMA MarkingFacts ==
    ASSUME NEW id \in Ids, NEW k \in Nat, NEW visible \in BOOLEAN
    PROVE  LET mark == Marking(id, k, visible)
           IN  /\ mark.tiles \subseteq PayloadTiles /\ mark.id \in Ids \union {NoId}
               /\ visible => mark.id = NoId
               /\ ~visible => /\ mark.id = id /\ mark.index = k /\ IsWhole(mark)
                              /\ IsReadable(mark, {k})
<1> DEFINE mark == Marking(id, k, visible)
<1>1. CASE visible
  BY <1>1 DEF Marking, NoMark
<1>2. CASE ~visible
  <2>1. mark = [id |-> id, index |-> k, profile |-> Profiles[1], tiles |-> PayloadTiles]
    BY <1>2 DEF Marking, Mark, SelectFrozenCandidate
  <2> HIDE DEF mark
  <2>2. /\ mark.id = id /\ mark.index = k /\ mark.profile = Profiles[1]
        /\ mark.tiles = PayloadTiles
    BY <2>1
  <2>3. Cardinality(PayloadTiles) = 3 /\ PayloadTiles # {}
    <3>1. {} \in SUBSET PayloadTiles /\ 1 \in PayloadTiles
      BY DEF PayloadTiles
    <3> QED
      BY <3>1, SizeOfTiles
  <2>4. Profiles[1] \in ProfilesInUse
    <3>1. Profiles \in Seq({Profiles[j] : j \in DOMAIN Profiles}) /\ Profiles # <<>>
      BY ContentAssumption
    <3>2. 1 \in DOMAIN Profiles
      BY <3>1
    <3> QED
      BY <3>2 DEF ProfilesInUse
  <2>5. IsWhole(mark)
    BY <2>2, <2>3 DEF IsWhole
  <2>6. IsReadable(mark, {k})
    BY <2>2, <2>3, <2>4, IdsAssumption DEF IsReadable
  <2> QED
    BY <1>2, <2>2, <2>5, <2>6 DEF mark
<1> QED
  BY <1>1, <1>2

\* A budget passes if no page is out of line.
LEMMA BudgetFacts ==
    ASSUME NEW pages, NEW cost
    PROVE  BudgetCode(pages, cost) = "none" <=>
              \A k \in DOMAIN pages : /\ PageIsPositive(pages[k])
                                      /\ ~(RunningTotal(pages, cost)[k] > MaxRasterPixels)
  BY DEF BudgetCode

\* A document that was issued passes both verifiers, page by page.
LEMMA PdfIsRecognized ==
    ASSUME NEW source, IsSource(source), ~IsImage(source), NEW id \in Ids,
           NEW visible \in BOOLEAN, NEW size \in Nat,
           IsStored(BuildIssuanceArtifact(source, id, visible, size))
    PROVE  LET build == BuildIssuanceArtifact(source, id, visible, size)
               file  == build.file
           IN  /\ OutputExtension(TypeOf(source.format)) = ExtensionOf(build.type)
               /\ InspectIntegrityContent(file) = "none" <=> ~Vanishes(file)
               /\ DecodeCode(file) = "none" <=> ~Vanishes(file)
               /\ IF visible THEN ~IsConclusive(DecodeContent(file))
                  ELSE DecodeContent(file) = Summary(id, "decoded")
               /\ \A k \in DOMAIN file.pages :
                    LET page   == source.pages[k]
                        issued == Raster(page, SourceRenderScale * page.unit)
                        shown  == Raster(file.pages[k], RenderScale(file.pages[k]))
                        exact  == /\ PdfNumber(page.width * page.unit) = page.width * page.unit
                                  /\ PdfNumber(page.height * page.unit) = page.height * page.unit
                    IN  /\ shown.width <= issued.width /\ shown.height <= issued.height
                        /\ exact => shown = issued
<1> DEFINE build == BuildIssuanceArtifact(source, id, visible, size)
           file  == build.file
           pages == source.pages
           made  == [k \in DOMAIN pages |->
                        SerializePage(EncodeLosslessPage(pages[k], Marking(id, k - 1, visible)))]
           issued(k) == Raster(pages[k], SourceRenderScale * pages[k].unit)
           shown(k)  == Raster(made[k], RenderScale(made[k]))
           exact(k)  == /\ PdfNumber(pages[k].width * pages[k].unit) = pages[k].width * pages[k].unit
                        /\ PdfNumber(pages[k].height * pages[k].unit) = pages[k].height * pages[k].unit
           rasters == [k \in DOMAIN pages |-> issued(k)]
           code == FirstCode(<<
                      IF source.bytes > MaxPdfBytes THEN "PDF_FILE_LIMIT" ELSE "none",
                      IF source.format # "pdf" THEN "PDF_INVALID" ELSE "none",
                      OpenCode(source), UnitsCode(source), ValidateRasterBudget(pages),
                      MarkerCode(rasters, visible)>>)
<1>1. build = IF code # "none" THEN Refuse(code)
              ELSE Build("none", File("pdf", size, "yes", made), "application/pdf")
  BY Zenon DEF BuildIssuanceArtifact, BuildIssuancePdf
<1>2. build.code = "none" /\ build.file.bytes <= MaxPdfBytes
  BY DEF IsStored
<1>3. code = "none"
  <2> HIDE DEF code
  <2> QED
    BY <1>1, <1>2 DEF Refuse, Build
<1>4. build = [code |-> "none", file |-> File("pdf", size, "yes", made), type |-> "application/pdf"]
  <2> HIDE DEF code, build, made
  <2> QED
    BY <1>1, <1>3 DEF Build
<1>5. file = [format |-> "pdf", bytes |-> size, opens |-> "yes", strict |-> TRUE, pages |-> made]
      /\ build.type = "application/pdf"
  <2> HIDE DEF build, made
  <2> QED
    BY <1>4 DEF File
<1>6. /\ source.format = "pdf" /\ OpenCode(source) = "none"
      /\ ValidateRasterBudget(pages) = "none"
  <2> DEFINE a == IF source.bytes > MaxPdfBytes THEN "PDF_FILE_LIMIT" ELSE "none"
             b == IF source.format # "pdf" THEN "PDF_INVALID" ELSE "none"
             f == MarkerCode(rasters, visible)
  <2>1. FirstCode(<<a, b, OpenCode(source), UnitsCode(source), ValidateRasterBudget(pages), f>>) = "none"
    BY <1>3
  <2>2. b = "none" => source.format = "pdf"
    OBVIOUS
  <2> HIDE DEF a, b, f
  <2>3. b = "none" /\ OpenCode(source) = "none" /\ ValidateRasterBudget(pages) = "none"
    BY <2>1, SixCodes
  <2> QED
    BY <2>2, <2>3
<1> HIDE DEF code, rasters
<1>7. PICK n \in Nat : /\ DOMAIN pages = 1..n /\ Len(pages) = n
                       /\ \A k \in 1..n : IsSourcePage(pages[k])
  BY DEF IsSource
<1>8. n \in 1..MaxPdfPages
  BY <1>6, <1>7 DEF OpenCode
<1>9. DOMAIN made = 1..n /\ Len(made) = n
  BY <1>7
<1> DEFINE old == [k \in DOMAIN pages |-> SourceCost(pages[k])]
           new == [k \in DOMAIN made |-> Pixels(shown(k))]
<1>10. ASSUME NEW k \in 1..n
       PROVE  /\ made[k].unit = 1 /\ made[k].place = "identity"
              /\ made[k].mark = Marking(id, k - 1, visible)
              /\ shown(k).width <= issued(k).width /\ shown(k).height <= issued(k).height
              /\ exact(k) => shown(k) = issued(k)
              /\ old[k] \in Nat /\ new[k] \in Nat /\ new[k] <= old[k]
  <2>1. made[k] = SerializePage(EncodeLosslessPage(pages[k], Marking(id, k - 1, visible)))
    BY <1>7
  <2>2. IsSourcePage(pages[k])
    BY <1>7
  <2>3. /\ made[k].unit = 1 /\ made[k].place = "identity"
        /\ made[k].mark = Marking(id, k - 1, visible)
        /\ shown(k).width \in Nat /\ shown(k).height \in Nat
        /\ issued(k).width \in Nat /\ issued(k).height \in Nat
        /\ shown(k).width <= issued(k).width /\ shown(k).height <= issued(k).height
        /\ exact(k) => shown(k) = issued(k)
    <3>1. PICK mark : mark = Marking(id, k - 1, visible)
      OBVIOUS
    <3>2. PICK page : page = pages[k]
      OBVIOUS
    <3>3. PICK out : out = SerializePage(EncodeLosslessPage(page, mark))
      OBVIOUS
    <3>4. made[k] = out
      BY <2>1, <3>1, <3>2, <3>3, Zenon
    <3>5. LET i == Raster(page, SourceRenderScale * page.unit)
              s == Raster(out, RenderScale(out))
              e == /\ PdfNumber(page.width * page.unit) = page.width * page.unit
                   /\ PdfNumber(page.height * page.unit) = page.height * page.unit
          IN  /\ out.unit = 1 /\ out.place = "identity" /\ out.mark = mark
              /\ s.width \in Nat /\ s.height \in Nat /\ i.width \in Nat /\ i.height \in Nat
              /\ s.width <= i.width /\ s.height <= i.height
              /\ e => s = i
      BY <2>2, <3>2, <3>3, PageShown, Zenon
    <3> HIDE DEF made, pages
    <3> QED
      BY <3>1, <3>2, <3>4, <3>5, Zenon
  <2>4. old[k] = Max({Pixels(issued(k)), CanvasPixels}) /\ new[k] = Pixels(shown(k))
    <3>1. k \in DOMAIN pages /\ k \in DOMAIN made
      BY <1>7, <1>9
    <3> HIDE DEF made
    <3> QED
      BY <3>1, Zenon DEF SourceCost
  <2> HIDE DEF old, new, made, shown, issued, exact
  <2>5. /\ Pixels(shown(k)) \in Nat /\ Pixels(issued(k)) \in Nat
        /\ Pixels(shown(k)) <= Pixels(issued(k))
    BY <2>3, Areas, Zenon DEF Pixels
  <2>6. CanvasPixels \in Nat
    <3>1. CanvasHeight \in Nat /\ CanvasWidth \in Nat
      BY ContentAssumption
    <3> QED
      BY <3>1, Products DEF CanvasPixels
  <2>7. Max({Pixels(issued(k)), CanvasPixels}) \in Nat
        /\ Pixels(issued(k)) <= Max({Pixels(issued(k)), CanvasPixels})
    BY <2>5, <2>6, DearerCost
  <2>8. old[k] \in Nat /\ new[k] \in Nat /\ new[k] <= old[k]
    BY <2>4, <2>5, <2>7
  <2> QED
    BY <2>3, <2>8
<1> HIDE DEF old, new
<1>11. \A k \in 1..n : ~(RunningTotal(made, new)[k] > MaxRasterPixels)
  <2>1. \A k \in 0..n : RunningTotal(made, new)[k] <= RunningTotal(pages, old)[k]
    BY <1>7, <1>9, <1>10, CheaperStaysWithin
  <2>2. \A k \in 0..n : RunningTotal(made, new)[k] \in Nat /\ RunningTotal(pages, old)[k] \in Nat
    BY <1>7, <1>9, <1>10, TotalFacts
  <2>3. BudgetCode(pages, old) = "none"
    BY <1>6 DEF ValidateRasterBudget, old
  <2>4. \A k \in 1..n : ~(RunningTotal(pages, old)[k] > MaxRasterPixels)
    BY <1>7, <2>3, BudgetFacts
  <2>5. MaxRasterPixels \in Nat
    BY ContentAssumption
  <2>6. ASSUME NEW k \in 1..n PROVE ~(RunningTotal(made, new)[k] > MaxRasterPixels)
    <3>1. k \in 0..n
      OBVIOUS
    <3> QED
      BY <2>1, <2>2, <2>4, <2>5, <3>1
  <2> QED
    BY <2>6
<1>12. PdfCode(file) = "none" <=> \A k \in 1..n : PageIsPositive(made[k])
  <2>1. /\ file.opens = "yes" /\ file.strict = TRUE /\ file.pages = made
    <3> HIDE DEF file, made
    <3> QED
      BY <1>5
  <2> HIDE DEF file
  <2>2. OpenCode(file) = "none"
    BY <1>8, <1>9, <2>1 DEF OpenCode
  <2>3. UnitsCode(file) = "none"
    <3>1. 1 \in 1..MaxUserUnit
      BY ContentAssumption
    <3>2. \A k \in DOMAIN made : made[k].unit = 1
      BY <1>9, <1>10
    <3> HIDE DEF made
    <3> QED
      BY <2>1, <3>1, <3>2 DEF UnitsCode
  <2>4. ValidatePdfRasterBudget(file.pages) = BudgetCode(made, new)
    BY <2>1 DEF ValidatePdfRasterBudget, new
  <2>5. BudgetCode(made, new) = "none" <=> \A k \in 1..n : PageIsPositive(made[k])
    <3> HIDE DEF made
    <3> QED
      BY <1>9, <1>11, BudgetFacts
  <2>6. PdfCode(file) = FirstCode(<<OpenCode(file), UnitsCode(file), ValidatePdfRasterBudget(file.pages)>>)
    BY DEF PdfCode
  <2> HIDE DEF made
  <2> QED
    BY <2>2, <2>3, <2>4, <2>5, <2>6, ThreeCodes
<1>13. FormatCode(file) = "none" /\ file.format = "pdf" /\ file.pages = made
  <2>1. file.format = "pdf" /\ file.bytes = size /\ file.pages = made
    <3> HIDE DEF file, made
    <3> QED
      BY <1>5
  <2>2. size <= MaxPdfBytes /\ MaxPdfBytes \in Nat
    BY <1>2, <2>1, ContentAssumption
  <2> HIDE DEF file, made
  <2> QED
    BY <2>1, <2>2 DEF FormatCode
<1>14. Vanishes(file) <=> ~ \A k \in 1..n : PageIsPositive(made[k])
  <2> HIDE DEF file, made
  <2> QED
    BY <1>9, <1>13 DEF Vanishes
<1>15. /\ InspectIntegrityContent(file) = "none" <=> ~Vanishes(file)
       /\ DecodeCode(file) = "none" <=> ~Vanishes(file)
  <2> HIDE DEF file, made
  <2>1. /\ InspectIntegrityContent(file) = FirstCode(<<FormatCode(file), PdfCode(file)>>)
        /\ DecodeCode(file) = FirstCode(<<FormatCode(file), PdfCode(file)>>)
    BY <1>13 DEF InspectIntegrityContent, DecodeCode
  <2> QED
    BY <1>12, <1>13, <1>14, <2>1, TwoCodes
<1>16. IF visible THEN ~IsConclusive(DecodeContent(file))
       ELSE DecodeContent(file) = Summary(id, "decoded")
  <2> DEFINE readable == {file.pages[k].mark :
                            k \in {j \in DOMAIN file.pages : IsReadable(file.pages[j].mark, {j - 1})}}
             decision == DecodeContent(file)
  <2>1. DOMAIN file.pages = 1..n /\ n \in Nat \ {0}
    <3> HIDE DEF file, made
    <3> QED
      BY <1>8, <1>9, <1>13
  <2>2. ASSUME NEW k \in 1..n
        PROVE  /\ IsSuspect(file.pages[k]) /\ file.pages[k].place = "identity"
               /\ visible => file.pages[k].mark.id = NoId
               /\ ~visible => /\ file.pages[k].mark.id = id /\ IsWhole(file.pages[k].mark)
                              /\ IsReadable(file.pages[k].mark, {k - 1})
    <3>1. k - 1 \in Nat
      OBVIOUS
    <3>2. file.pages[k].place = "identity" /\ file.pages[k].mark = Marking(id, k - 1, visible)
      <4> HIDE DEF file, made
      <4> QED
        BY <1>10, <1>13
    <3> HIDE DEF file
    <3>3. PICK mark : mark = Marking(id, k - 1, visible)
      OBVIOUS
    <3>4. /\ mark.tiles \subseteq PayloadTiles /\ mark.id \in Ids \union {NoId}
          /\ visible => mark.id = NoId
          /\ ~visible => mark.id = id /\ IsWhole(mark) /\ IsReadable(mark, {k - 1})
      BY <3>1, <3>3, MarkingFacts, Zenon
    <3>5. file.pages[k].mark = mark
      BY <3>2, <3>3
    <3> QED
      BY <3>2, <3>4, <3>5, Zenon DEF IsSuspect
  <2> HIDE DEF file
  <2>3. /\ decision = Summary(decision.id, decision.reason)
        /\ decision.reason = "decoded" <=> decision.id # NoId
        /\ IsConclusive(decision) <=> readable # {}
        /\ \A x \in Ids : decision.id = x <=>
              readable # {} /\ \A m \in readable : m.id = x /\ IsWhole(m)
    BY <1>13, <2>1, <2>2, DocumentNames
  <2>4. visible => readable = {}
    BY <2>1, <2>2 DEF IsReadable
  <2>5. ~visible => readable # {} /\ \A m \in readable : m.id = id /\ IsWhole(m)
    <3>1. 1 \in 1..n
      BY <2>1
    <3> QED
      BY <2>1, <2>2, <3>1
  <2> HIDE DEF readable, decision
  <2>6. ~visible => decision.id = id /\ decision.reason = "decoded"
    BY <2>3, <2>5, IdsAssumption
  <2> QED
    BY <2>3, <2>4, <2>6 DEF decision
<1>17. OutputExtension(TypeOf(source.format)) = ExtensionOf(build.type)
  BY <1>5, <1>6 DEF OutputExtension, TypeOf, ExtensionOf
<1>18. ASSUME NEW k \in DOMAIN file.pages
       PROVE  LET page   == source.pages[k]
                  i == Raster(page, SourceRenderScale * page.unit)
                  s == Raster(file.pages[k], RenderScale(file.pages[k]))
                  e == /\ PdfNumber(page.width * page.unit) = page.width * page.unit
                       /\ PdfNumber(page.height * page.unit) = page.height * page.unit
              IN  s.width <= i.width /\ s.height <= i.height /\ (e => s = i)
  <2>1. k \in 1..n
    <3> HIDE DEF file, made
    <3> QED
      BY <1>9, <1>13
  <2>2. /\ shown(k).width <= issued(k).width /\ shown(k).height <= issued(k).height
        /\ exact(k) => shown(k) = issued(k)
    BY <1>10, <2>1
  <2> HIDE DEF file, made
  <2> QED
    BY <1>13, <2>2, Zenon
<1> QED
  BY <1>15, <1>16, <1>17, <1>18, Zenon

\* A photograph turned upright is one.
LEMMA UprightFacts ==
    ASSUME NEW page, IsSourcePage(page), PageIsPositive(page)
    PROVE  LET up == Upright(page)
           IN  IsSourcePage(up) /\ PageIsPositive(up) /\ ~up.rotated
<1> DEFINE up == Upright(page)
<1>1. CASE page.rotated
  <2>1. up = [width |-> page.height, height |-> page.width, unit |-> page.unit,
              plain |-> page.plain, filter |-> page.filter, rotated |-> FALSE,
              place |-> "identity", mark |-> page.mark]
    <3>1. up = [page EXCEPT !.width = page.height, !.height = page.width, !.rotated = FALSE]
      BY <1>1 DEF Upright
    <3> HIDE DEF up
    <3>2. PICK w : w = page.width
      OBVIOUS
    <3>3. PICK h : h = page.height
      OBVIOUS
    <3>4. PICK u, l, f, r, m, no :
             u = page.unit /\ l = page.plain /\ f = page.filter /\ r = page.rotated /\ m = page.mark
             /\ no = FALSE
      OBVIOUS
    <3>5. page = [width |-> w, height |-> h, unit |-> u, plain |-> l, filter |-> f, rotated |-> r,
                  place |-> "identity", mark |-> m]
      BY <3>2, <3>3, <3>4, Zenon DEF IsSourcePage
    <3>6. up = [page EXCEPT !.width = h, !.height = w, !.rotated = no]
      BY <3>1, <3>2, <3>3, <3>4, Zenon
    <3>7. up = [width |-> h, height |-> w, unit |-> u, plain |-> l, filter |-> f, rotated |-> no,
                place |-> "identity", mark |-> m]
      BY <3>5, <3>6
    <3> QED
      BY <3>2, <3>3, <3>4, <3>7, Zenon
  <2> HIDE DEF up
  <2>2. /\ up.width = page.height /\ up.height = page.width /\ up.unit = page.unit
        /\ up.plain = page.plain /\ up.filter = page.filter /\ up.rotated = FALSE
        /\ up.mark = page.mark
    BY <2>1
  <2> QED
    BY <2>1, <2>2 DEF IsSourcePage, PageIsPositive, up
<1>2. CASE ~page.rotated
  BY <1>2 DEF Upright
<1> QED
  BY <1>1, <1>2

\* An image that was issued passes both verifiers.
LEMMA ImageIsRecognized ==
    ASSUME NEW source, IsSource(source), IsImage(source), NEW id \in Ids,
           NEW visible \in BOOLEAN, NEW size \in Nat,
           IsStored(BuildIssuanceArtifact(source, id, visible, size))
    PROVE  LET build == BuildIssuanceArtifact(source, id, visible, size)
               file  == build.file
           IN  /\ OutputExtension(TypeOf(source.format)) = ExtensionOf(build.type)
               /\ InspectIntegrityContent(file) = "none" /\ DecodeCode(file) = "none"
               /\ ~Vanishes(file) /\ file.format = "png"
               /\ IF visible THEN ~IsConclusive(DecodeContent(file))
                  ELSE DecodeContent(file) = Summary(id, "decoded")
<1> DEFINE build == BuildIssuanceArtifact(source, id, visible, size)
           file  == build.file
           page  == Upright(source.pages[1])
           mark  == Marking(id, 0, visible)
           out   == [page EXCEPT !.mark = mark]
           limit == IF Pixels(page) > MaxImagePixels THEN "IMAGE_PIXEL_LIMIT" ELSE "none"
           code  == FirstCode(<<
                       IF source.bytes > MaxPdfBytes THEN "PDF_FILE_LIMIT" ELSE "none",
                       IF source.opens # "yes" THEN "IMAGE_INVALID" ELSE "none",
                       limit, MarkerCode(<<page>>, visible)>>)
<1>1. build = IF code # "none" THEN Refuse(code)
              ELSE Build("none", File("png", size, "yes", <<out>>), "image/png")
  BY Zenon DEF BuildIssuanceArtifact, BuildIssuanceImage
<1>2. build.code = "none" /\ build.file.bytes <= MaxPdfBytes
  BY DEF IsStored
<1>3. code = "none"
  <2> HIDE DEF code
  <2> QED
    BY <1>1, <1>2 DEF Refuse, Build
<1>4. limit = "none"
  <2> DEFINE a == IF source.bytes > MaxPdfBytes THEN "PDF_FILE_LIMIT" ELSE "none"
             b == IF source.opens # "yes" THEN "IMAGE_INVALID" ELSE "none"
             m == MarkerCode(<<page>>, visible)
  <2>1. FirstCode(<<a, b, limit, m>>) = "none"
    BY <1>3
  <2> HIDE DEF a, b, limit, m
  <2> QED
    BY <2>1, FourCodes
<1>5. ~(Pixels(page) > MaxImagePixels)
  BY <1>4
<1>6. build = [code |-> "none", file |-> File("png", size, "yes", <<out>>), type |-> "image/png"]
  <2> HIDE DEF code, build, out
  <2> QED
    BY <1>1, <1>3 DEF Build
<1>7. /\ file = [format |-> "png", bytes |-> size, opens |-> "yes", strict |-> TRUE, pages |-> <<out>>]
      /\ build.type = "image/png"
  <2> HIDE DEF build, out
  <2> QED
    BY <1>6 DEF File
<1> HIDE DEF code, limit
<1>8. IsSourcePage(source.pages[1]) /\ PageIsPositive(source.pages[1])
  <2>1. PICK n \in Nat : /\ \A k \in 1..n : IsSourcePage(source.pages[k])
                         /\ n = 1 /\ PageIsPositive(source.pages[1])
    BY DEF IsSource
  <2>2. 1 \in 1..n
    BY <2>1
  <2> QED
    BY <2>1, <2>2
<1>9. IsSourcePage(page) /\ PageIsPositive(page) /\ ~page.rotated
  BY <1>8, UprightFacts
<1> HIDE DEF page, mark
<1>10. out = [width |-> page.width, height |-> page.height, unit |-> page.unit,
              plain |-> page.plain, filter |-> page.filter, rotated |-> page.rotated,
              place |-> "identity", mark |-> mark]
  BY <1>9 DEF IsSourcePage
<1> HIDE DEF out
<1>11. /\ out.width = page.width /\ out.height = page.height /\ out.unit = page.unit
       /\ out.plain = page.plain /\ out.filter = page.filter /\ out.rotated = page.rotated
       /\ out.place = "identity" /\ out.mark = mark
  BY <1>10
<1>12. /\ file.format = "png" /\ file.bytes = size /\ file.opens = "yes"
       /\ file.pages = <<out>> /\ DOMAIN file.pages = {1} /\ file.pages[1] = out
  <2> HIDE DEF file
  <2>1. /\ file.format = "png" /\ file.bytes = size /\ file.opens = "yes"
        /\ file.pages = <<out>>
    BY <1>7
  <2> QED
    BY <2>1
<1>13. size <= MaxPdfBytes /\ MaxPdfBytes \in Nat
  BY <1>2, <1>12, ContentAssumption
<1> HIDE DEF file
<1>14. FormatCode(file) = "none"
  BY <1>12, <1>13 DEF FormatCode
<1>15. DimensionsCode(out) = "none"
  <2>1. Pixels(out) = Pixels(page) /\ PageIsPositive(out)
    BY <1>9, <1>11 DEF Pixels, PageIsPositive
  <2> QED
    BY <1>5, <2>1 DEF DimensionsCode
<1>16. ~Vanishes(file)
  BY <1>9, <1>11, <1>12 DEF Vanishes, PageIsPositive
<1>17. InspectIntegrityContent(file) = "none"
  <2>1. InspectIntegrityContent(file) = FirstCode(<<FormatCode(file), DimensionsCode(out)>>)
    BY <1>12 DEF InspectIntegrityContent
  <2> QED
    BY <1>14, <1>15, <2>1, TwoCodes
<1>18. DecodeCode(file) = "none"
  <2>1. (InspectIntegrityContent(file) = "none") # (DecodeCode(file) = "none")
           => file.pages[1].rotated
    BY VerifiersAgree
  <2> QED
    BY <1>9, <1>11, <1>12, <1>17, <2>1
<1>19. /\ mark.tiles \subseteq PayloadTiles /\ mark.id \in Ids \union {NoId}
       /\ visible => mark.id = NoId
       /\ ~visible => /\ mark.id = id /\ mark.index = 0 /\ IsWhole(mark)
                      /\ IsReadable(mark, {0})
  <2>1. 0 \in Nat
    OBVIOUS
  <2> QED
    BY <2>1, MarkingFacts, Zenon DEF mark
<1>20. IF visible THEN ~IsConclusive(DecodeContent(file))
       ELSE DecodeContent(file) = Summary(id, "decoded")
  <2> DEFINE d == DecodeContent(file)
             readable == IsReadable(out.mark, 0..(PageIndexHypotheses - 1))
  <2>1. IsImage(file) /\ out = file.pages[1] /\ IsSuspect(out)
    BY <1>11, <1>12, <1>19 DEF IsImage, IsSuspect
  <2>2. out = [width |-> out.width, height |-> out.height, unit |-> out.unit,
               plain |-> out.plain, filter |-> out.filter, rotated |-> out.rotated,
               place |-> out.place, mark |-> out.mark]
    BY <1>10, <1>11
  <2>3. /\ d = Summary(d.id, d.reason)
        /\ d.reason = "decoded" <=> d.id # NoId
        /\ IsConclusive(d) <=> out.place \in {"identity", "frame"} /\ readable
        /\ d.id = IF out.place \in {"identity", "frame"} /\ readable /\ IsWhole(out.mark)
                  THEN out.mark.id ELSE NoId
    BY <2>1, <2>2, ImageNames
  <2>4. visible => ~readable
    BY <1>11, <1>19 DEF IsReadable
  <2>5. ~visible => readable
    <3>1. 0 \in 0..(PageIndexHypotheses - 1)
      BY ContentAssumption
    <3> QED
      BY <1>11, <1>19, <3>1 DEF IsReadable
  <2> HIDE DEF d, readable
  <2>6. ~visible => d.id = id /\ d.reason = "decoded"
    BY <1>11, <1>19, <2>3, <2>5, IdsAssumption
  <2> QED
    BY <2>3, <2>4, <2>6 DEF d
<1>21. OutputExtension(TypeOf(source.format)) = ExtensionOf(build.type)
  <2>1. source.format = "png" \/ source.format = "jpeg"
    BY DEF IsImage
  <2> QED
    BY <1>7, <2>1 DEF OutputExtension, TypeOf, ExtensionOf
<1> QED
  BY <1>12, <1>16, <1>17, <1>18, <1>20, <1>21, Zenon DEF file

(* Whatever the limits, the canvas, the digits written and the profiles in  *)
(* use are, an artifact that reaches the store passes both verifiers, unless *)
(* a page is written with a length of zero, is rendered no larger than it   *)
(* was issued, names its issuance, and has the extension of its content     *)
(* (_build_issuance_artifact() of issuance.py against verification.py).     *)
THEOREM IssuedContentRecognized == Spec => []IssuedContentIsRecognized
<1>1. ASSUME NEW source \in Sources, NEW id \in Ids, NEW visible \in BOOLEAN,
             NEW size \in {1, MaxPdfBytes + 1},
             IsStored(BuildIssuanceArtifact(source, id, visible, size))
      PROVE  LET build == BuildIssuanceArtifact(source, id, visible, size)
                 file  == build.file
             IN  /\ OutputExtension(TypeOf(source.format)) = ExtensionOf(build.type)
                 /\ InspectIntegrityContent(file) = "none" <=> ~Vanishes(file)
                 /\ DecodeCode(file) = "none" <=> ~Vanishes(file)
                 /\ ~Vanishes(file) =>
                      IF visible THEN ~IsConclusive(DecodeContent(file))
                      ELSE DecodeContent(file) = Summary(id, "decoded")
                 /\ file.format = "pdf" /\ ~Vanishes(file) =>
                      \A k \in DOMAIN file.pages :
                         LET page   == source.pages[k]
                             issued == Raster(page, SourceRenderScale * page.unit)
                             shown  == Raster(file.pages[k], RenderScale(file.pages[k]))
                             exact  == /\ PdfNumber(page.width * page.unit) = page.width * page.unit
                                       /\ PdfNumber(page.height * page.unit) = page.height * page.unit
                         IN  /\ shown.width <= issued.width /\ shown.height <= issued.height
                             /\ exact => shown = issued
  <2>1. IsSource(source)
    BY SourceFacts
  <2>2. size \in Nat
    BY ContentAssumption
  <2>3. CASE IsImage(source)
    <3>1. "png" # "pdf"
      OBVIOUS
    <3> QED
      BY <1>1, <2>1, <2>2, <2>3, <3>1, ImageIsRecognized, Zenon
  <2>4. CASE ~IsImage(source)
    BY <1>1, <2>1, <2>2, <2>4, PdfIsRecognized, Zenon
  <2> QED
    BY <2>3, <2>4
<1>2. IssuedContentIsRecognized
  BY <1>1, Zenon DEF IssuedContentIsRecognized
<1> QED
  BY <1>2, PTL
=============================================================================
