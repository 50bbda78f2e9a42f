----------------------- MODULE EvidencePipelineProofs -----------------------
(***************************************************************************)
(* Proofs about the files of a benchmark directory, for any number of      *)
(* runs, any plan, any world and whatever the decoders make of it:         *)
(* committed evidence is final, a release has its report, and a selection  *)
(* or a release names only candidates that deserve it.                     *)
(*                                                                         *)
(* The report is written before the release, and the release is removed    *)
(* before the report.  In between, the script knows what it is about to    *)
(* publish: the preflight found no other release, and nobody else writes   *)
(* one, so the report and the release it names are the same (InPlace).     *)
(*                                                                         *)
(* What deserves a selection is said of the pages alone (Deserves); what   *)
(* the gates see are counted, sorted and averaged rows.  EarnedInv carries *)
(* the way from one to the other: every table a run or a file holds is     *)
(* part of the checkpoint's (IsExport), whose rows are never replaced, so  *)
(* that what was earned at the time of a gate is earned from then on.      *)
(*                                                                         *)
(* The rows themselves are what their readers expect (RowsAreAccepted):    *)
(* a decision's votes are tiles and agree with its status (IsMeasured),    *)
(* and a reader that recomputes a field comes to what the runner wrote.    *)
(*                                                                         *)
(* The interleaver puts every byte of a codeword into a place of its own   *)
(* (EncodedFacts), so damage and claims weigh after it what they weighed   *)
(* before, and the ladder holds the receiver's claim and none at all.      *)
(***************************************************************************)
EXTENDS MCEvidencePipeline, FingerprintProofs, FunctionTheorems, TLAPS
-----------------------------------------------------------------------------
(* Committed evidence.                                                     *)

EvidenceStands ==
    /\ \A o \in Present : o \in Present' /\ rows'[o] = rows[o]
    /\ identity # Null => identity' = identity

LEMMA UntouchedStands == UNCHANGED evidence => EvidenceStands
  BY DEF evidence, EvidenceStands, Present

\* The checkpoint's rows form a function on the ordinals of the plan.
RowsOK == rows = [o \in Ordinals |-> rows[o]]

\* Only two steps of a run write the checkpoint: opening it, which keeps the
\* identity that is there, and inserting a row where there is none.
LEMMA CheckpointStep ==
    RowsOK /\ [Next]_vars => RowsOK' /\ EvidenceStands
<1> SUFFICES ASSUME RowsOK, [Next]_vars PROVE RowsOK' /\ EvidenceStands
  OBVIOUS
<1>1. UNCHANGED evidence => RowsOK' /\ EvidenceStands
  BY UntouchedStands DEF evidence, RowsOK, Ordinals
<1>2. ASSUME NEW p \in Runners, OpenCheckpoint(p)
      PROVE  RowsOK' /\ EvidenceStands
  <2>1. rows' = rows /\ (identity # Null => identity' = identity)
    BY <1>2 DEF OpenCheckpoint
  <2> QED
    BY <2>1 DEF RowsOK, EvidenceStands, Present
<1>3. ASSUME NEW p \in Runners, InsertRow(p)
      PROVE  RowsOK' /\ EvidenceStands
  <2> DEFINE o == Min(Scheduled(p))
  <2>1. identity' = identity
    BY <1>3 DEF InsertRow
  <2>2. CASE rows' = rows
    BY <2>1, <2>2 DEF RowsOK, EvidenceStands, Present
  <2>3. ASSUME NEW cell, o \notin Present, rows' = [rows EXCEPT ![o] = cell]
        PROVE  RowsOK' /\ EvidenceStands
    <3>1. RowsOK'
      BY <2>3 DEF RowsOK
    <3>2. ASSUME NEW x \in Present PROVE x \in Present' /\ rows'[x] = rows[x]
      BY <2>3, <3>2 DEF RowsOK, Present
    <3> QED
      BY <2>1, <3>1, <3>2 DEF EvidenceStands
  <2> QED
    BY <1>3, <2>2, <2>3 DEF InsertRow
<1>4. ASSUME NEW p \in Runners, Run(p), ~OpenCheckpoint(p), ~InsertRow(p)
      PROVE  UNCHANGED evidence
  BY <1>4 DEF Run, StartRun, InvalidateSelection, CollectRows, ExportResults,
     ExportCsv, ExportSummary, ReadResultsBack, ReadCsvBack, WriteSummary,
     WriteSelection, CrashRun
<1>5. CASE StartRead \/ CrashRead
  BY <1>1, <1>5 DEF StartRead, CrashRead, ReaderOnly
<1>6. CASE LoadSelection
  BY <1>1, <1>6 DEF LoadSelection, ReadSelection, CompareSummaryHash,
     CompareTableHashes, ReadSummaryAgain, AcceptSelection, ReaderOnly
<1>7. CASE PromoteProfile
  BY <1>1, <1>7 DEF PromoteProfile, LoadBenchmarkSummary, LoadBenchmarkRows,
     RejectEvidence, RemoveFailedRelease, ReportNoRelease, PreflightRelease,
     WriteReport, PublishRelease, CleanUpRelease, CleanUpReport, ReaderOnly
<1>8. CASE UNCHANGED vars
  BY <1>1, <1>8 DEF vars, evidence
<1> QED
  BY <1>1, <1>2, <1>3, <1>4, <1>5, <1>6, <1>7, <1>8 DEF Next

\* Whatever runs collide, resume, abort or belong to another plan: no row of
\* the checkpoint is replaced or dropped, and its identity stays.
THEOREM EvidenceStays == Spec => EvidenceIsFinal
<1>1. Init => RowsOK
  BY DEF Init, RowsOK, NoRows
<1>2. RowsOK /\ [Next]_vars
        => [/\ \A o \in Present : o \in Present' /\ rows'[o] = rows[o]
            /\ identity # Null => identity' = identity]_vars
  BY CheckpointStep DEF EvidenceStands
<1>3. RowsOK /\ [Next]_vars => RowsOK'
  BY CheckpointStep
<1> QED
  BY <1>1, <1>2, <1>3, PTL DEF Spec, EvidenceIsFinal

-----------------------------------------------------------------------------
(* The release and its report.                                             *)

\* The directory and the reader are records.
RecordsOK ==
    /\ disk = [results |-> disk.results, csv |-> disk.csv,
               summary |-> disk.summary, selection |-> disk.selection,
               release |-> disk.release, report |-> disk.report]
    /\ reader = [pc |-> reader.pc, selection |-> reader.selection,
                 summary |-> reader.summary, table |-> reader.table]

\* What is true of release and report while the script is at each step.
InPlace ==
    /\ disk.release # Null /\ ~stuck => disk.report = disk.release
    /\ ReaderAt("report") => disk.release \in {Null, Staged}
    /\ ReaderAt("publish") => disk.report = Staged
    /\ reader.pc \in {"noreport", "unreport"} => disk.release = Null \/ stuck

ReleaseInv == RecordsOK /\ InPlace

\* A run writes neither file.
LEMMA RunLeavesRelease ==
    ASSUME RecordsOK, NEW p \in Runners, Run(p)
    PROVE  /\ RecordsOK'
           /\ disk'.release = disk.release /\ disk'.report = disk.report
           /\ UNCHANGED <<version, world, reader, stuck>>
<1> USE DEF RecordsOK, RunnerOnly
<1>1. CASE \E plan \in {"required", OtherPlan}, budget \in RowBudgets :
             StartRun(p, plan, budget)
  BY <1>1 DEF StartRun
<1>2. CASE InvalidateSelection(p)
  BY <1>2 DEF InvalidateSelection
<1>3. CASE OpenCheckpoint(p) \/ InsertRow(p) \/ CollectRows(p)
  BY <1>3 DEF OpenCheckpoint, InsertRow, CollectRows
<1>4. CASE ExportResults(p) \/ ExportCsv(p) \/ ExportSummary(p)
  BY <1>4 DEF ExportResults, ExportCsv, ExportSummary
<1>5. CASE ReadResultsBack(p) \/ ReadCsvBack(p) \/ CrashRun(p)
  BY <1>5 DEF ReadResultsBack, ReadCsvBack, CrashRun
<1>6. CASE WriteSummary(p) \/ WriteSelection(p)
  BY <1>6 DEF WriteSummary, WriteSelection
<1> QED
  BY <1>1, <1>2, <1>3, <1>4, <1>5, <1>6 DEF Run

\* What the script is about to publish depends on what it has loaded only.
LEMMA StagedStays ==
    UNCHANGED <<version, world>> /\ reader'.table = reader.table => Staged' = Staged
  BY DEF Staged, MeasuredRows, Setup

\* A step to a place where nothing is promised, which leaves both files alone.
LEMMA QuietStep ==
    ASSUME InPlace, UNCHANGED <<disk, stuck>>,
           reader'.pc \notin {"report", "publish", "noreport", "unreport"}
    PROVE  InPlace'
  BY DEF InPlace, ReaderAt

\* The loader of a selection writes nothing and promises nothing.
LEMMA LoaderIsQuiet ==
    ASSUME ReleaseInv, StartRead \/ CrashRead \/ LoadSelection
    PROVE  ReleaseInv'
<1> USE DEF ReleaseInv, RecordsOK, Reader, ReaderTo, ReaderOnly, NothingWritten,
   IdleReader
<1>1. CASE StartRead \/ CrashRead
  BY <1>1, QuietStep DEF StartRead, CrashRead
<1>2. CASE ReadSelection
  <2>1. RecordsOK' /\ reader'.pc \in {"idle", "hashes"}
    <3>1. CASE reader' = IdleReader
      BY <1>2, <3>1 DEF ReadSelection
    <3>2. CASE reader' = [reader EXCEPT !.pc = "hashes",
                                       !.selection = disk.selection]
      BY <1>2, <3>2 DEF ReadSelection
    <3> QED
      BY <1>2, <3>1, <3>2 DEF ReadSelection
  <2>2. UNCHANGED <<disk, stuck>>
    BY <1>2 DEF ReadSelection
  <2> QED
    BY <2>1, <2>2, QuietStep
<1>3. CASE CompareSummaryHash \/ CompareTableHashes
  BY <1>3, QuietStep DEF CompareSummaryHash, CompareTableHashes
<1>4. CASE ReadSummaryAgain
  <2>1. RecordsOK' /\ reader'.pc \in {"idle", "rebuild"}
    <3>1. CASE reader' = IdleReader
      BY <1>4, <3>1 DEF ReadSummaryAgain
    <3>2. CASE reader' = [reader EXCEPT !.pc = "rebuild",
                                       !.summary = disk.summary]
      BY <1>4, <3>2 DEF ReadSummaryAgain
    <3> QED
      BY <1>4, <3>1, <3>2 DEF ReadSummaryAgain
  <2>2. UNCHANGED <<disk, stuck>>
    BY <1>4 DEF ReadSummaryAgain
  <2> QED
    BY <2>1, <2>2, QuietStep
<1>5. CASE AcceptSelection
  BY <1>5, QuietStep DEF AcceptSelection
<1> QED
  BY <1>1, <1>2, <1>3, <1>4, <1>5 DEF LoadSelection

\* The promotion script, one step per action.
LEMMA ScriptKeepsInv == ReleaseInv /\ PromoteProfile => ReleaseInv'
<1> SUFFICES ASSUME ReleaseInv, PromoteProfile PROVE ReleaseInv'
  OBVIOUS
<1> USE DEF ReleaseInv, RecordsOK, Reader, ReaderTo, ReaderOnly, NothingWritten,
   IdleReader
<1>1. CASE LoadBenchmarkSummary \/ LoadBenchmarkRows
  <2>1. CASE LoadBenchmarkSummary
    BY <2>1, QuietStep DEF LoadBenchmarkSummary
  <2>2. CASE LoadBenchmarkRows /\ reader'.pc = "norelease"
    BY <2>2, QuietStep DEF LoadBenchmarkRows
  <2>3. CASE LoadBenchmarkRows /\ reader'.pc # "norelease"
    BY <2>3, QuietStep DEF LoadBenchmarkRows
  <2> QED
    BY <1>1, <2>1, <2>2, <2>3
<1>2. CASE RejectEvidence
  BY <1>2 DEF RejectEvidence, RemoveRelease, InPlace, ReaderAt
<1>3. CASE RemoveFailedRelease \/ CleanUpRelease
  BY <1>3 DEF RemoveFailedRelease, CleanUpRelease, RemoveRelease, InPlace,
     ReaderAt
<1>4. CASE ReportNoRelease \/ CleanUpReport
  <2>1. disk.release = Null \/ stuck
    BY <1>4 DEF ReportNoRelease, CleanUpReport, InPlace, ReaderAt
  <2>2. reader' = IdleReader
    BY <1>4, Zenon DEF ReportNoRelease, CleanUpReport
  <2>3. RecordsOK' /\ (disk'.release = Null \/ stuck')
    <3>1. CASE disk' = disk /\ stuck' = stuck
      BY <2>1, <2>2, <3>1
    <3>2. ASSUME NEW report, disk' = [disk EXCEPT !.report = report], stuck' = stuck
          PROVE  RecordsOK' /\ (disk'.release = Null \/ stuck')
      BY <2>1, <2>2, <3>2
    <3>3. CASE RemoveRelease
      BY <2>1, <2>2, <3>3 DEF RemoveRelease
    <3> QED
      BY <1>4, <3>1, <3>2, <3>3 DEF ReportNoRelease, CleanUpReport
  <2> QED
    BY <2>1, <2>2, <2>3 DEF InPlace, ReaderAt
<1>5. CASE PreflightRelease
  <2>1. Staged' = Staged
    BY <1>5, StagedStays DEF PreflightRelease
  <2> QED
    BY <1>5, <2>1 DEF PreflightRelease, InPlace, ReaderAt
<1>6. CASE WriteReport
  <2>1. Staged' = Staged
    BY <1>6, StagedStays DEF WriteReport
  <2> QED
    BY <1>6, <2>1 DEF WriteReport, InPlace, ReaderAt
<1>7. CASE PublishRelease
  BY <1>7 DEF PublishRelease, InPlace, ReaderAt
<1> QED
  BY <1>1, <1>2, <1>3, <1>4, <1>5, <1>6, <1>7 DEF PromoteProfile

LEMMA ReleaseInvPreserved == ReleaseInv /\ [Next]_vars => ReleaseInv'
<1> SUFFICES ASSUME ReleaseInv, [Next]_vars PROVE ReleaseInv'
  OBVIOUS
<1>1. ASSUME NEW p \in Runners, Run(p) PROVE ReleaseInv'
  <2>1. /\ RecordsOK'
        /\ disk'.release = disk.release /\ disk'.report = disk.report
        /\ UNCHANGED <<version, world, reader, stuck>>
    BY <1>1, RunLeavesRelease DEF ReleaseInv
  <2>2. Staged' = Staged
    BY <2>1, StagedStays
  <2> QED
    BY <2>1, <2>2 DEF ReleaseInv, InPlace, ReaderAt
<1>2. CASE UNCHANGED vars
  <2>1. Staged' = Staged
    BY <1>2, StagedStays DEF vars
  <2> QED
    BY <1>2, <2>1 DEF vars, ReleaseInv, RecordsOK, InPlace, ReaderAt
<1> QED
  BY <1>1, <1>2, LoaderIsQuiet, ScriptKeepsInv DEF Next

\* A release never stands without the report that describes it, wherever the
\* script dies or fails, unless the release could not be deleted; runs and
\* readers of the directory do not matter.
THEOREM ReleaseIsReported == Spec => []ReleaseHasItsReport
<1>1. Init => ReleaseInv
  BY DEF Init, ReleaseInv, RecordsOK, InPlace, ReaderAt, IdleReader
<1>2. ReleaseInv => ReleaseHasItsReport
  BY DEF ReleaseInv, InPlace, ReleaseHasItsReport
<1> QED
  BY <1>1, <1>2, ReleaseInvPreserved, PTL DEF Spec
-----------------------------------------------------------------------------
(* The plan: an ordinal for each case, and one only.                       *)

LEMMA DivisionFacts ==
    ASSUME NEW n \in Nat, NEW a \in Nat \ {0}, NEW b \in Nat \ {0}
    PROVE  /\ n = (n \div b) * b + (n % b) /\ n \div b \in Nat /\ n % b \in 0..(b - 1)
           /\ n < a * b => n \div b \in 0..(a - 1)
  BY Z3

LEMMA DivideTwice ==
    ASSUME NEW n \in Nat, NEW a \in Nat \ {0}, NEW b \in Nat \ {0}
    PROVE  n \div (a * b) = (n \div b) \div a
  BY Z3

LEMMA DigitsOf ==
    ASSUME NEW b \in Nat \ {0}, NEW q \in Nat, NEW r \in 0..(b - 1)
    PROVE  /\ (q * b + r) \div b = q /\ (q * b + r) % b = r
           /\ q * b + r \in Nat
           /\ \A a \in Nat : q < a => q * b + r < a * b
  BY Z3

\* The three lists of the plan, with their lengths as the plan multiplies them.
LEMMA ListingFacts ==
    ASSUME NEW order, IsListing(order)
    PROVE  /\ Len(order) \in Nat
           /\ DOMAIN order = 1..Len(order)
           /\ IsFiniteSet({order[k] : k \in DOMAIN order})
<1>1. order \in Seq({order[k] : k \in DOMAIN order})
  BY DEF IsListing
<1>2. Len(order) \in Nat /\ DOMAIN order = 1..Len(order)
  BY <1>1
<1> DEFINE image == {order[k] : k \in DOMAIN order}
           f == [k \in 1..Len(order) |-> order[k]]
<1>3. f \in Surjection(1..Len(order), image)
  BY <1>2 DEF Surjection
<1>4. IsFiniteSet(1..Len(order))
  BY <1>2, FS_Interval
<1>5. IsFiniteSet(image)
  BY <1>3, <1>4, FS_Surjection
<1> QED
  BY <1>2, <1>5

\* The plan is as long as its three lists multiplied, and finite.
LEMMA PlanFacts ==
    /\ Len(PageOrder) \in Nat /\ DOMAIN PageOrder = 1..Len(PageOrder)
    /\ Len(CandidateOrder) \in Nat /\ DOMAIN CandidateOrder = 1..Len(CandidateOrder)
    /\ Len(AttackOrder) \in Nat /\ DOMAIN AttackOrder = 1..Len(AttackOrder)
    /\ IsInjective(PageOrder) /\ IsInjective(CandidateOrder) /\ IsInjective(AttackOrder)
    /\ IsFiniteSet(Pages) /\ IsFiniteSet(Candidates) /\ IsFiniteSet(PositivePages)
    /\ PositivePages \subseteq Pages
    /\ PlannedRows \in Nat
    /\ IsFiniteSet(Ordinals) /\ Cardinality(Ordinals) = PlannedRows
<1>1. IsListing(PageOrder) /\ IsListing(CandidateOrder) /\ IsListing(AttackOrder)
  BY EvidenceAssumption
<1>2. /\ Len(PageOrder) \in Nat /\ DOMAIN PageOrder = 1..Len(PageOrder) /\ IsFiniteSet(Pages)
      /\ Len(CandidateOrder) \in Nat /\ DOMAIN CandidateOrder = 1..Len(CandidateOrder)
      /\ IsFiniteSet(Candidates)
      /\ Len(AttackOrder) \in Nat /\ DOMAIN AttackOrder = 1..Len(AttackOrder)
  BY <1>1, ListingFacts DEF Pages, Candidates
<1>3. IsInjective(PageOrder) /\ IsInjective(CandidateOrder) /\ IsInjective(AttackOrder)
  BY <1>1 DEF IsListing
<1>4. PositivePages \subseteq Pages
  BY EvidenceAssumption DEF Pages
<1>5. IsFiniteSet(PositivePages)
  BY <1>2, <1>4, FS_Subset
<1>6. PlannedRows \in Nat
  <2>1. \A a, b, c \in Nat : a * b * c \in Nat
    OBVIOUS
  <2> QED
    BY <1>2, <2>1 DEF PlannedRows
<1>7. IsFiniteSet(Ordinals) /\ Cardinality(Ordinals) = PlannedRows
  BY <1>6, FS_Interval DEF Ordinals
<1> QED
  BY <1>2, <1>3, <1>4, <1>5, <1>6, <1>7

\* The digits of an ordinal: page, candidate and attack.
LEMMA OrdinalDigits ==
    ASSUME NEW o \in Ordinals
    PROVE  \E i \in 1..Len(PageOrder), j \in 1..Len(CandidateOrder), k \in 1..Len(AttackOrder) :
             /\ CaseAt(o) = [page |-> PageOrder[i], candidate |-> CandidateOrder[j],
                             attack |-> AttackOrder[k]]
             /\ o = ((i - 1) * Len(CandidateOrder) + (j - 1)) * Len(AttackOrder) + k
<1> DEFINE P == Len(PageOrder)
           C == Len(CandidateOrder)
           A == Len(AttackOrder)
           n == o - 1
           m == n \div A
<1>1. P \in Nat /\ C \in Nat /\ A \in Nat /\ o \in 1..(P * C * A)
  BY PlanFacts DEF Ordinals, PlannedRows
<1>2. P # 0 /\ C # 0 /\ A # 0
  BY <1>1
<1> HIDE DEF P, C, A
<1>3. n \in Nat /\ n < (P * C) * A /\ P * C \in Nat \ {0}
  BY <1>1, <1>2
<1>4. /\ n = m * A + (n % A) /\ m \in Nat /\ n % A \in 0..(A - 1)
      /\ m \in 0..(P * C - 1)
  BY <1>1, <1>2, <1>3, DivisionFacts
<1>5. m = (m \div C) * C + (m % C) /\ m \div C \in 0..(P - 1) /\ m % C \in 0..(C - 1)
  <2>1. m < P * C
    BY <1>4, <1>3
  <2> HIDE DEF m
  <2> QED
    BY <1>1, <1>2, <1>4, <2>1, DivisionFacts
<1>6. n \div (C * A) = m \div C
  <2>1. A \in Nat \ {0} /\ C \in Nat \ {0}
    BY <1>1, <1>2
  <2> HIDE DEF n
  <2>2. n \div (C * A) = (n \div A) \div C
    BY <1>3, <2>1, DivideTwice, Zenon
  <2> QED
    BY <2>2
<1> DEFINE i == (m \div C) + 1
           j == (m % C) + 1
           k == (n % A) + 1
<1>7. i \in 1..P /\ j \in 1..C /\ k \in 1..A
  BY <1>1, <1>2, <1>4, <1>5
<1>8. CaseAt(o) = [page |-> PageOrder[i], candidate |-> CandidateOrder[j],
                   attack |-> AttackOrder[k]]
  BY <1>6 DEF CaseAt, P, C, A
<1>9. o = ((i - 1) * C + (j - 1)) * A + k
  <2>1. i - 1 = m \div C /\ j - 1 = m % C /\ k - 1 = n % A
    BY <1>4, <1>5
  <2>2. (i - 1) * C + (j - 1) = m
    BY <1>5, <2>1
  <2>3. o = n + 1 /\ k = (n % A) + 1
    BY <1>1
  <2> HIDE DEF i, j, k, m, n
  <2> QED
    BY <1>4, <2>2, <2>3, <1>1
<1> QED
  BY <1>7, <1>8, <1>9 DEF P, C, A

\* A case of the plan has an ordinal.
LEMMA CaseHasOrdinal ==
    ASSUME NEW i \in 1..Len(PageOrder), NEW j \in 1..Len(CandidateOrder),
           NEW k \in 1..Len(AttackOrder)
    PROVE  \E o \in Ordinals :
             CaseAt(o) = [page |-> PageOrder[i], candidate |-> CandidateOrder[j],
                          attack |-> AttackOrder[k]]
<1> DEFINE P == Len(PageOrder)
           C == Len(CandidateOrder)
           A == Len(AttackOrder)
           m == (i - 1) * C + (j - 1)
           n == m * A + (k - 1)
<1>1. /\ P \in Nat /\ C \in Nat \ {0} /\ A \in Nat \ {0}
      /\ i - 1 \in Nat /\ i - 1 < P /\ j - 1 \in 0..(C - 1) /\ k - 1 \in 0..(A - 1)
  BY PlanFacts
<1> HIDE DEF P, C, A
<1>2. m \in Nat /\ m \div C = i - 1 /\ m % C = j - 1 /\ m < P * C
  BY <1>1, DigitsOf
<1>3. P * C \in Nat
  BY <1>1
<1>4. n \in Nat /\ n \div A = m /\ n % A = k - 1 /\ n < (P * C) * A
  <2> HIDE DEF m
  <2> QED
    BY <1>1, <1>2, <1>3, DigitsOf
<1>5. n \div (C * A) = i - 1
  <2>1. n \div (C * A) = (n \div A) \div C
    <3> HIDE DEF n
    <3> QED
      BY <1>1, <1>4, DivideTwice
  <2> QED
    BY <1>2, <1>4, <2>1
<1>6. n + 1 \in Ordinals /\ (n + 1) - 1 = n
  <2> HIDE DEF n
  <2>1. P * C * A \in Nat
    BY <1>1
  <2> QED
    BY <1>4, <2>1 DEF Ordinals, PlannedRows, P, C, A
<1>7. CaseAt(n + 1) = [page |-> PageOrder[i], candidate |-> CandidateOrder[j],
                       attack |-> AttackOrder[k]]
  <2>1. CaseAt(n + 1) = [page |-> PageOrder[(i - 1) + 1],
                         candidate |-> CandidateOrder[(j - 1) + 1],
                         attack |-> AttackOrder[(k - 1) + 1]]
    <3> HIDE DEF n
    <3> QED
      BY <1>2, <1>4, <1>5, <1>6 DEF CaseAt, P, C, A
  <2>2. (i - 1) + 1 = i /\ (j - 1) + 1 = j /\ (k - 1) + 1 = k
    OBVIOUS
  <2> QED
    BY <2>1, <2>2
<1> QED
  BY <1>6, <1>7

\* The plan lists every case once.
LEMMA PlanListsCases ==
    /\ \A o \in Ordinals : /\ CaseAt(o).page \in Pages
                           /\ CaseAt(o).candidate \in Candidates
                           /\ CaseAt(o).attack \in Attacks
    /\ \A page \in Pages, c \in Candidates, attack \in Attacks :
          \E o \in Ordinals :
             CaseAt(o) = [page |-> page, candidate |-> c, attack |-> attack]
    /\ \A o, q \in Ordinals : CaseAt(o) = CaseAt(q) => o = q
<1>1. ASSUME NEW o \in Ordinals
      PROVE  /\ CaseAt(o).page \in Pages
             /\ CaseAt(o).candidate \in Candidates
             /\ CaseAt(o).attack \in Attacks
  <2>1. PICK i \in 1..Len(PageOrder), j \in 1..Len(CandidateOrder), k \in 1..Len(AttackOrder) :
             CaseAt(o) = [page |-> PageOrder[i], candidate |-> CandidateOrder[j],
                          attack |-> AttackOrder[k]]
    BY OrdinalDigits
  <2>2. /\ CaseAt(o).page = PageOrder[i] /\ CaseAt(o).candidate = CandidateOrder[j]
        /\ CaseAt(o).attack = AttackOrder[k]
    BY <2>1
  <2> QED
    BY <2>2, PlanFacts DEF Pages, Candidates, Attacks
<1>2. ASSUME NEW page \in Pages, NEW c \in Candidates, NEW attack \in Attacks
      PROVE  \E o \in Ordinals :
                CaseAt(o) = [page |-> page, candidate |-> c, attack |-> attack]
  <2>1. PICK i \in 1..Len(PageOrder), j \in 1..Len(CandidateOrder), k \in 1..Len(AttackOrder) :
             page = PageOrder[i] /\ c = CandidateOrder[j] /\ attack = AttackOrder[k]
    BY PlanFacts DEF Pages, Candidates, Attacks
  <2> QED
    BY <2>1, CaseHasOrdinal
<1>3. ASSUME NEW o \in Ordinals, NEW q \in Ordinals, CaseAt(o) = CaseAt(q)
      PROVE  o = q
  <2>1. PICK i \in 1..Len(PageOrder), j \in 1..Len(CandidateOrder), k \in 1..Len(AttackOrder) :
             /\ CaseAt(o) = [page |-> PageOrder[i], candidate |-> CandidateOrder[j],
                             attack |-> AttackOrder[k]]
             /\ o = ((i - 1) * Len(CandidateOrder) + (j - 1)) * Len(AttackOrder) + k
    BY OrdinalDigits
  <2>2. PICK x \in 1..Len(PageOrder), y \in 1..Len(CandidateOrder), z \in 1..Len(AttackOrder) :
             /\ CaseAt(q) = [page |-> PageOrder[x], candidate |-> CandidateOrder[y],
                             attack |-> AttackOrder[z]]
             /\ q = ((x - 1) * Len(CandidateOrder) + (y - 1)) * Len(AttackOrder) + z
    BY OrdinalDigits
  <2>3. PageOrder[i] = PageOrder[x] /\ CandidateOrder[j] = CandidateOrder[y]
        /\ AttackOrder[k] = AttackOrder[z]
    <3>1. /\ CaseAt(o).page = PageOrder[i] /\ CaseAt(o).candidate = CandidateOrder[j]
          /\ CaseAt(o).attack = AttackOrder[k]
      BY <2>1
    <3>2. /\ CaseAt(q).page = PageOrder[x] /\ CaseAt(q).candidate = CandidateOrder[y]
          /\ CaseAt(q).attack = AttackOrder[z]
      BY <2>2
    <3> QED
      BY <1>3, <3>1, <3>2
  <2>4. i = x /\ j = y /\ k = z
    BY <2>3, PlanFacts DEF IsInjective
  <2> QED
    BY <2>1, <2>2, <2>4
<1> QED
  BY <1>1, <1>2, <1>3

-----------------------------------------------------------------------------
(* What earns: the setting, the exports, and what is qualified on them.      *)

(* The setting the directory was made with is one of those assumed, and the *)
(* checkpoint's cells are outcomes of runs that were started.               *)
SettingOK == \E setting \in Settings : version = setting.version /\ world = setting.world
CheckpointOK ==
    /\ rows \in [Ordinals -> Cells \union {NoRow}]
    /\ starts \in 0..MaxStarts

(* A table of results is nothing, or belongs to the checkpoint's plan and   *)
(* has only rows the checkpoint has.                                        *)
IsExport(table, plan, cells) ==
    \/ table = NoTable
    \/ /\ plan # Null /\ table.plan = plan
       /\ \A o \in Ordinals : table.rows[o] # NoRow => table.rows[o] = cells[o]

(* A run that inserts rows does so for the plan of the checkpoint; what it  *)
(* exports are rows of the checkpoint, and what it qualifies deserves it.   *)
RunnerOK(r) ==
    /\ r = [pc |-> r.pc, plan |-> r.plan, budget |-> r.budget, existing |-> r.existing,
            cursor |-> r.cursor, table |-> r.table, csv |-> r.csv,
            qualified |-> r.qualified, number |-> r.number]
    /\ r.plan # Null
    /\ r.number \in 0..MaxStarts
    /\ r.pc # "idle" => r.number > 0
    /\ r.pc = "run" => identity = r.plan
    /\ IsExport(r.table, identity, rows)
    /\ \A c \in r.qualified : Deserves(c)
RunnersOK ==
    /\ runner = [p \in Runners |-> runner[p]]
    /\ \A r \in {runner[p] : p \in Runners} : RunnerOK(r)

SelectionOK == IsExport(disk.results, identity, rows) /\ SelectionIsEarned

(* The promotion script stages a profile, and the directory has one of this *)
(* benchmark, only on evidence that earns it.                               *)
PromotionOK ==
    /\ reader.pc \in {"preflight", "report", "publish"} =>
          /\ identity = "required"
          /\ \A c \in Candidates \cap {Staged} : Deserves(c)
    /\ \A c \in Candidates \cap {disk.release} : identity = "required" /\ Deserves(c)
-----------------------------------------------------------------------------
(* The gates.                                                              *)

\* The row a complete checkpoint holds of a case.
RowAt(o) == ExecuteRow(version, world, CaseAt(o), rows[o])
AllRows == {RowAt(o) : o \in Ordinals}

LEMMA CompleteTable ==
    ASSUME SettingOK, CheckpointOK, NEW table, IsExport(table, identity, rows), Completed(table) = Ordinals
    PROVE  /\ Present = Ordinals
           /\ MeasuredRows(table) = AllRows
<1>1. ASSUME NEW o \in Ordinals
      PROVE  rows[o] # NoRow /\ table.rows[o] = rows[o] /\ rows[o] \in Cells
  <2>1. table.rows[o] # NoRow
    BY DEF Completed
  <2>2. table # NoTable
    <3>1. NoTable.rows = NoRows
      BY DEF NoTable, Table
    <3> QED
      BY <2>1, <3>1 DEF NoRows
  <2> QED
    BY <2>1, <2>2 DEF IsExport, CheckpointOK
<1>2. Setup \in Settings /\ Setup.version = version /\ Setup.world = world
  BY DEF SettingOK, Setup
<1>3. ASSUME NEW o \in Ordinals
      PROVE  RowOf[Setup][o][table.rows[o]] = RowAt(o)
  BY <1>1, <1>2, <1>3 DEF RowOf, RowAt
<1>4. MeasuredRows(table) = AllRows
  BY <1>3 DEF MeasuredRows, AllRows
<1> QED
  BY <1>1, <1>4 DEF Present

\* What a row says of its case.
LEMMA RowFacts ==
    ASSUME NEW o \in Ordinals
    PROVE  /\ RowAt(o).case = CaseAt(o)
           /\ RowAt(o).expected = ExpectedId(CaseAt(o))
           /\ RowAt(o).quality = Quality(version, world, CaseAt(o))
           /\ RowAt(o).reason # "execution_error" =>
                /\ ErrorOf(version, world, CaseAt(o), rows[o]) = "none"
                /\ RowAt(o).decoded = NamedIn(CaseAt(o))
                /\ RowAt(o).eligible =
                     IsEligible(IF HasCrop(CaseAt(o).attack) /\ IsPositive(CaseAt(o))
                                THEN RemainingTiles(world, CaseAt(o).attack) ELSE NoCount)
<1> DEFINE case == CaseAt(o)
           error == ErrorOf(version, world, case, rows[o])
           decision == IF error = "none" THEN DecodeCase(version, world, case)
                       ELSE UndecidedDecision(version)
<1>1. RowAt(o) = MakeRow(version, world, case, rows[o], error, decision)
  BY DEF RowAt, ExecuteRow
<1>2. error = "none" => decision.id = NamedIn(case)
  BY DEF NamedIn
<1> HIDE DEF case, error, decision
<1>3. /\ RowAt(o).case = case
      /\ RowAt(o).expected = ExpectedId(case)
      /\ RowAt(o).quality = Quality(version, world, case)
      /\ RowAt(o).reason = IF error = "none" THEN MetricReason(decision.reason)
                           ELSE "execution_error"
      /\ RowAt(o).decoded = decision.id
  BY <1>1 DEF MakeRow
<1>4. error = "none" =>
        RowAt(o).eligible =
             IsEligible(IF HasCrop(case.attack) /\ IsPositive(case)
                        THEN RemainingTiles(world, case.attack) ELSE NoCount)
  BY <1>1 DEF MakeRow
<1> QED
  BY <1>2, <1>3, <1>4 DEF case, error

\* A rate that passes its gate is the share of the positive pages the attack
\* is survived on: the rows it counts and the pages correspond one to one.
LEMMA RateIsSurvival ==
    ASSUME SettingOK,
           NEW c \in Candidates, NEW attack, attack \in {"jpeg", "resize", "crop"},
           NEW percent \in Nat,
           NEW measured, measured = AllRows,
           Errors(measured) = {},
           NEW counted,
           counted = {r \in PositiveRows(measured, c, attack) : attack = "crop" => r.eligible},
           AtLeast(DecodeCounts(counted), percent)
    PROVE  Survives(c, attack, percent)
<1> USE DEF AllRows
<1> DEFINE case(page) == [page |-> page, candidate |-> c, attack |-> attack]
           right == {r \in counted : r.reason # "execution_error" /\ r.decoded = r.expected}
<1>1. DecodeCounts(counted).total = Cardinality(counted)
      /\ DecodeCounts(counted).true = Cardinality(right)
  BY DEF DecodeCounts
<1>2. ASSUME NEW o \in Ordinals PROVE RowAt(o).reason # "execution_error"
  BY <1>2 DEF Errors
<1>3. ASSUME NEW o \in Ordinals
      PROVE  RowAt(o) \in PositiveRows(measured, c, attack) <=>
                /\ CaseAt(o).candidate = c /\ CaseAt(o).attack = attack
                /\ CaseAt(o).page \in PositivePages
  <2>1. RowAt(o).case = CaseAt(o) /\ RowAt(o).expected = ExpectedId(CaseAt(o))
    BY RowFacts
  <2>2. RowAt(o).expected # NoId <=> CaseAt(o).page \in PositivePages
    BY <2>1 DEF ExpectedId, IsPositive, NoId
  <2> QED
    BY <2>1, <2>2 DEF PositiveRows, RowsOf
<1>4. ASSUME NEW r \in counted
      PROVE  \E o \in Ordinals : /\ r = RowAt(o) /\ CaseAt(o).page \in PositivePages
                                 /\ CaseAt(o).candidate = c /\ CaseAt(o).attack = attack
                                 /\ CaseAt(o) = case(r.case.page)
  <2>1. PICK o \in Ordinals : r = RowAt(o)
    BY DEF PositiveRows, RowsOf
  <2>2. CaseAt(o).candidate = c /\ CaseAt(o).attack = attack /\ CaseAt(o).page \in PositivePages
    BY <1>3, <2>1
  <2>3. CaseAt(o) = [page |-> CaseAt(o).page, candidate |-> CaseAt(o).candidate,
                     attack |-> CaseAt(o).attack]
    BY DEF CaseAt
  <2> QED
    BY <2>1, <2>2, <2>3, RowFacts
<1>5. counted # {}
  <2>1. DecodeCounts(counted).total > 0
    BY DEF AtLeast
  <2>2. Cardinality(counted) # 0
    BY <1>1, <2>1
  <2>3. Cardinality({}) = 0
    BY FS_EmptySet
  <2> QED
    BY <2>2, <2>3, Zenon
<1>6. attack \in Attacks /\ (attack = "crop" => world.left >= 2)
  <2>1. PICK r : r \in counted
    BY <1>5
  <2>2. PICK o \in Ordinals : /\ r = RowAt(o) /\ CaseAt(o).page \in PositivePages
                              /\ CaseAt(o).attack = attack
    BY <1>4, <2>1
  <2>3. attack \in Attacks
    BY <2>2, PlanListsCases
  <2>4. world.left \in Nat
    BY PipelineAssumption, EvidenceAssumption DEF SettingOK
  <2>5. ASSUME attack = "crop" PROVE world.left >= 2
    <3>1. r.eligible
      BY <2>1, <2>5
    <3>2. r.eligible = IsEligible(IF HasCrop(CaseAt(o).attack) /\ IsPositive(CaseAt(o))
                                  THEN RemainingTiles(world, CaseAt(o).attack) ELSE NoCount)
      BY <1>2, <2>2, RowFacts
    <3>3. HasCrop(CaseAt(o).attack) /\ IsPositive(CaseAt(o))
      BY <2>2, <2>5 DEF HasCrop, IsPositive
    <3>4. IsEligible(world.left)
      BY <3>1, <3>2, <3>3 DEF RemainingTiles
    <3> QED
      BY <2>4, <3>4 DEF IsEligible, NoCount
  <2> QED
    BY <2>3, <2>5
<1>7. {page \in PositivePages : RemainingTiles(world, attack) >= 2 \/ attack # "crop"}
        = PositivePages
  BY <1>6 DEF RemainingTiles, HasCrop
<1>8. ASSUME NEW page \in PositivePages
      PROVE  \E r \in counted : r.case.page = page
  <2>1. PICK o \in Ordinals : CaseAt(o) = case(page)
    BY <1>6, PlanFacts, PlanListsCases
  <2>2. RowAt(o).case = CaseAt(o) /\ RowAt(o) \in PositiveRows(measured, c, attack)
    BY <1>3, <2>1, RowFacts
  <2>3. ASSUME attack = "crop" PROVE RowAt(o).eligible
    <3>1. HasCrop(CaseAt(o).attack) /\ IsPositive(CaseAt(o))
      BY <2>1, <2>3 DEF HasCrop, IsPositive
    <3>2. RowAt(o).eligible = IsEligible(world.left)
      BY <1>2, <3>1, RowFacts DEF RemainingTiles
    <3> QED
      BY <1>6, <2>3, <3>2 DEF IsEligible
  <2> QED
    BY <2>1, <2>2, <2>3
<1>9. ASSUME NEW r \in counted, NEW s \in counted, r.case.page = s.case.page
      PROVE  r = s
  BY <1>4, <1>9, PlanListsCases
<1>10. ASSUME NEW r \in counted
       PROVE  r \in right <=> NamedIn(case(r.case.page)) = "own"
  <2>1. PICK o \in Ordinals : /\ r = RowAt(o) /\ CaseAt(o).page \in PositivePages
                              /\ CaseAt(o) = case(r.case.page)
    BY <1>4
  <2>2. r.reason # "execution_error" /\ r.decoded = NamedIn(CaseAt(o))
    BY <1>2, <2>1, RowFacts
  <2>3. r.expected = "own"
    BY <2>1, RowFacts DEF ExpectedId, IsPositive
  <2> QED
    BY <2>1, <2>2, <2>3
<1> DEFINE good == {page \in PositivePages : NamedIn(case(page)) = "own"}
           f == [r \in counted |-> r.case.page]
           g == [r \in right |-> r.case.page]
<1>11. Cardinality(counted) = Cardinality(PositivePages)
  <2>1. \A r \in counted : r.case.page \in PositivePages
    BY <1>4
  <2> HIDE DEF right
  <2>2. f \in Injection(counted, PositivePages)
    BY <1>9, <2>1 DEF Injection, IsInjective
  <2>3. f \in Surjection(counted, PositivePages)
    BY <1>8, <2>1 DEF Surjection
  <2> QED
    BY <2>2, <2>3, PlanFacts, FS_Injection
<1>12. Cardinality(right) = Cardinality(good)
  <2>1. \A r \in right : r \in counted /\ r.case.page \in good
    BY <1>4, <1>10
  <2>2. \A page \in good : \E r \in right : r.case.page = page
    BY <1>8, <1>10
  <2>3. IsFiniteSet(good)
    BY PlanFacts, FS_Subset
  <2> HIDE DEF right, good
  <2>4. g \in Injection(right, good)
    BY <1>9, <2>1 DEF Injection, IsInjective
  <2>5. g \in Surjection(right, good)
    BY <2>1, <2>2 DEF Surjection
  <2> QED
    BY <2>3, <2>4, <2>5, FS_Injection
<1>13. PositivePages # {}
  BY <1>4, <1>5
<1> QED
  BY <1>1, <1>7, <1>11, <1>12, <1>13 DEF Survives, AtLeast

\* A candidate all of whose embedded pages are poor passes no gate, so one
\* that passes is not among the poor.
LEMMA QualityIsEarned ==
    ASSUME NEW c \in Candidates,
           NEW measured, measured = AllRows,
           NEW x \in Observations(measured, c), x[2] # "poor"
    PROVE  c \notin world.poor
<1> USE DEF AllRows
<1>1. PICK r \in measured : /\ r.case.candidate = c /\ r.expected # NoId
                            /\ r.reason # "execution_error"
                            /\ x = <<r.case.page, r.quality>>
  BY DEF Observations, RowsOf
<1>2. PICK o \in Ordinals : r = RowAt(o)
  BY <1>1
<1>3. /\ CaseAt(o).candidate = c
      /\ ExpectedId(CaseAt(o)) # NoId
      /\ ErrorOf(version, world, CaseAt(o), rows[o]) = "none"
      /\ x[2] = Quality(version, world, CaseAt(o))
  BY <1>1, <1>2, RowFacts
<1>4. IsPositive(CaseAt(o)) /\ ~EmbedFails(version, world, CaseAt(o))
  BY <1>3 DEF ExpectedId, ErrorOf
<1> QED
  BY <1>3, <1>4 DEF Quality

LEMMA ObservationsAreFinite ==
    ASSUME NEW c, NEW measured, measured = AllRows
    PROVE  IsFiniteSet(measured) /\ IsFiniteSet(Observations(measured, c))
<1> USE DEF AllRows
<1>1. IsFiniteSet(measured)
  <2> DEFINE f == [o \in Ordinals |-> RowAt(o)]
  <2>1. f \in Surjection(Ordinals, measured)
    BY DEF Surjection
  <2> HIDE DEF f
  <2> QED
    BY <2>1, PlanFacts, FS_Surjection
<1> DEFINE embedded == {q \in RowsOf(measured, c) : q.expected # NoId /\ q.reason # "execution_error"}
<1>2. IsFiniteSet(embedded)
  <2>1. embedded \in SUBSET measured
    BY DEF RowsOf
  <2> HIDE DEF embedded
  <2> QED
    BY <1>1, <2>1, FS_Subset
<1> DEFINE g == [r \in embedded |-> <<r.case.page, r.quality>>]
<1>3. Observations(measured, c) = {<<r.case.page, r.quality>> : r \in embedded}
  BY DEF Observations
<1>4. g \in Surjection(embedded, Observations(measured, c))
  <2> HIDE DEF embedded
  <2> QED
    BY <1>3 DEF Surjection
<1>5. IsFiniteSet(Observations(measured, c))
  <2> HIDE DEF embedded, g
  <2> QED
    BY <1>2, <1>4, FS_Surjection
<1> QED
  BY <1>1, <1>5

LEMMA MeanIsOfGoodPages ==
    ASSUME NEW observations, IsFiniteSet(observations), MeanDecibelAtLeast38(observations)
    PROVE  \E x \in observations : x[2] # "poor"
<1> SUFFICES ASSUME \A x \in observations : x[2] = "poor" PROVE FALSE
  OBVIOUS
<1>1. PoorOnes(observations) = observations /\ observations \ PoorOnes(observations) = {}
  BY DEF PoorOnes
<1>2. TotalDecibels(observations) = 30 * Cardinality(observations)
  <2>1. TotalDecibels(observations) = 30 * Cardinality(observations) + 40 * Cardinality({})
    BY <1>1 DEF TotalDecibels, Decibel
  <2>2. Cardinality({}) = 0 /\ Cardinality(observations) \in Nat
    BY FS_EmptySet, FS_CardinalityType
  <2> QED
    BY <2>1, <2>2
<1>3. Cardinality(observations) \in Nat /\ Cardinality(observations) # 0
  BY FS_CardinalityType, FS_EmptySet DEF MeanDecibelAtLeast38
<1> QED
  BY <1>2, <1>3 DEF MeanDecibelAtLeast38

LEMMA MinimumIsOfGoodPages ==
    ASSUME NEW observations, MinDecibelAtLeast38(observations)
    PROVE  \E x \in observations : x[2] # "poor"
  BY DEF MinDecibelAtLeast38, Decibel

\* The parts every gate shares give what a candidate deserves.
LEMMA GateIsEarned ==
    ASSUME SettingOK, CheckpointOK, NEW table, IsExport(table, identity, rows), Completed(table) = Ordinals,
           NEW c \in Candidates,
           Errors(MeasuredRows(table)) = {},
           FalseAttributions(RowsOf(MeasuredRows(table), c)) = {},
           RatesPass(Aggregate(MeasuredRows(table), c)),
           \E x \in Observations(MeasuredRows(table), c) : x[2] # "poor"
    PROVE  Deserves(c)
<1> USE DEF AllRows
<1> DEFINE measured == MeasuredRows(table)
           score == Aggregate(measured, c)
<1>1. Present = Ordinals /\ measured = AllRows
  BY CompleteTable
<1>2. ASSUME NEW o \in Ordinals
      PROVE  RowAt(o).reason # "execution_error"
  BY <1>1, <1>2 DEF Errors
<1>3. \A o \in Ordinals : ErrorOf(version, world, CaseAt(o), rows[o]) = "none"
  BY <1>2, RowFacts
<1>4. ASSUME NEW o \in Ordinals, CaseAt(o).candidate = c
      PROVE  NamedIn(CaseAt(o)) \in {NoId, ExpectedId(CaseAt(o))}
  <2>1. RowAt(o) \in RowsOf(measured, c)
    BY <1>1, <1>4, RowFacts DEF RowsOf
  <2>2. RowAt(o).decoded = NoId \/ RowAt(o).decoded = RowAt(o).expected
    BY <2>1 DEF FalseAttributions
  <2> QED
    BY <1>2, <2>2, RowFacts
<1>5. c \notin world.poor
  BY <1>1, QualityIsEarned
<1>6. /\ score.jpeg = DecodeCounts(PositiveRows(measured, c, "jpeg"))
      /\ score.resize = DecodeCounts(PositiveRows(measured, c, "resize"))
      /\ score.crop = DecodeCounts({r \in PositiveRows(measured, c, "crop") : r.eligible})
  BY DEF Aggregate
<1>7. AtLeast(score.jpeg, 95) /\ AtLeast(score.resize, 95) /\ AtLeast(score.crop, 90)
  BY DEF RatesPass
<1> HIDE DEF measured, score
<1>8. Errors(measured) = {}
  BY DEF measured
<1>9. Survives(c, "jpeg", 95)
  <2>1. PositiveRows(measured, c, "jpeg")
          = {r \in PositiveRows(measured, c, "jpeg") : "jpeg" = "crop" => r.eligible}
    OBVIOUS
  <2> QED
    BY <1>1, <1>6, <1>7, <1>8, <2>1, RateIsSurvival
<1>10. Survives(c, "resize", 95)
  <2>1. PositiveRows(measured, c, "resize")
          = {r \in PositiveRows(measured, c, "resize") : "resize" = "crop" => r.eligible}
    OBVIOUS
  <2> QED
    BY <1>1, <1>6, <1>7, <1>8, <2>1, RateIsSurvival
<1>11. Survives(c, "crop", 90)
  <2>1. {r \in PositiveRows(measured, c, "crop") : r.eligible}
          = {r \in PositiveRows(measured, c, "crop") : "crop" = "crop" => r.eligible}
    OBVIOUS
  <2> QED
    BY <1>1, <1>6, <1>7, <1>8, <2>1, RateIsSurvival
<1> QED
  BY <1>1, <1>3, <1>4, <1>5, <1>9, <1>10, <1>11 DEF Deserves

\* A table with as many different rows as the plan has cases is complete.
LEMMA CountedRowsAreAll ==
    ASSUME NEW table, Cardinality(MeasuredRows(table)) = PlannedRows
    PROVE  Completed(table) = Ordinals
<1> DEFINE completed == Completed(table)
           f == [o \in completed |-> RowOf[Setup][o][table.rows[o]]]
<1>1. completed \in SUBSET Ordinals
  BY DEF Completed
<1>2. IsFiniteSet(completed) /\ Cardinality(completed) <= PlannedRows
      /\ (PlannedRows = Cardinality(completed) => Ordinals = completed)
  <2> HIDE DEF completed
  <2> QED
    BY <1>1, PlanFacts, FS_Subset
<1>3. f \in Surjection(completed, MeasuredRows(table))
  BY DEF Surjection, MeasuredRows
<1>4. Cardinality(MeasuredRows(table)) <= Cardinality(completed)
  <2> HIDE DEF f, completed
  <2> QED
    BY <1>2, <1>3, FS_Surjection
<1>5. Cardinality(completed) \in Nat /\ PlannedRows \in Nat
  BY <1>2, PlanFacts, FS_CardinalityType
<1> QED
  BY <1>2, <1>4, <1>5

LEMMA CompleteState ==
    ASSUME NEW table, EvidenceState(MeasuredRows(table), PlannedRows) = "complete"
    PROVE  Completed(table) = Ordinals /\ Errors(MeasuredRows(table)) = {}
<1>1. Cardinality(MeasuredRows(table)) = PlannedRows /\ Errors(MeasuredRows(table)) = {}
  BY DEF EvidenceState
<1> QED
  BY <1>1, CountedRowsAreAll

LEMMA NoneAreFalse ==
    ASSUME NEW c, NEW measured, IsFiniteSet(measured),
           Cardinality(FalseAttributions(RowsOf(measured, c))) = 0
    PROVE  FalseAttributions(RowsOf(measured, c)) = {}
<1>1. FalseAttributions(RowsOf(measured, c)) \in SUBSET measured
  BY DEF FalseAttributions, RowsOf
<1>2. IsFiniteSet(FalseAttributions(RowsOf(measured, c)))
  BY <1>1, FS_Subset
<1> QED
  BY <1>2, FS_EmptySet

\* What each reader qualifies deserves it.
LEMMA QualifiedV2AreEarned ==
    ASSUME SettingOK, CheckpointOK, NEW table, IsExport(table, identity, rows),
           NEW c \in QualifiedV2(MeasuredRows(table))
    PROVE  Deserves(c)
<1> DEFINE measured == MeasuredRows(table)
<1>1. /\ EvidenceState(measured, PlannedRows) = "complete"
      /\ c \in Candidates /\ ScorePassesV2(measured, c)
  BY DEF QualifiedV2
<1>2. Completed(table) = Ordinals /\ Errors(measured) = {}
  BY <1>1, CompleteState
<1>3. IsFiniteSet(measured) /\ IsFiniteSet(Observations(measured, c))
  BY <1>2, CompleteTable, ObservationsAreFinite
<1> HIDE DEF measured
<1>4. /\ Cardinality(FalseAttributions(RowsOf(measured, c))) = 0
      /\ RatesPass(Aggregate(measured, c))
      /\ MeanDecibelAtLeast38(Observations(measured, c))
  BY <1>1 DEF ScorePassesV2, Aggregate
<1>5. FalseAttributions(RowsOf(measured, c)) = {}
  BY <1>3, <1>4, NoneAreFalse
<1>6. \E x \in Observations(measured, c) : x[2] # "poor"
  BY <1>3, <1>4, MeanIsOfGoodPages
<1> QED
  BY <1>1, <1>2, <1>4, <1>5, <1>6, GateIsEarned DEF measured

LEMMA QualifiedV3AreEarned ==
    ASSUME SettingOK, CheckpointOK, NEW table, IsExport(table, identity, rows),
           NEW plan, NEW c \in QualifiedV3(MeasuredRows(table), plan)
    PROVE  Deserves(c)
<1> DEFINE measured == MeasuredRows(table)
<1>1. /\ EvidenceState(measured, PlannedRows) = "complete"
      /\ FalseAttributions(measured) = {}
      /\ c \in Candidates /\ ScorePassesV3(measured, c)
  BY DEF QualifiedV3
<1>2. Completed(table) = Ordinals /\ Errors(measured) = {}
  BY <1>1, CompleteState
<1> HIDE DEF measured
<1>3. RatesPass(Aggregate(measured, c)) /\ MinDecibelAtLeast38(Observations(measured, c))
  BY <1>1 DEF ScorePassesV3, AggregateV3, Aggregate, RatesPass
<1>4. FalseAttributions(RowsOf(measured, c)) = {}
  BY <1>1 DEF FalseAttributions, RowsOf
<1>5. \E x \in Observations(measured, c) : x[2] # "poor"
  BY <1>3, MinimumIsOfGoodPages
<1> QED
  BY <1>1, <1>2, <1>3, <1>4, <1>5, GateIsEarned DEF measured

LEMMA EligibleAreEarned ==
    ASSUME SettingOK, CheckpointOK, NEW table, IsExport(table, identity, rows),
           Completed(table) = Ordinals, Errors(MeasuredRows(table)) = {},
           NEW c \in EligibleProfiles(MeasuredRows(table))
    PROVE  Deserves(c)
<1> DEFINE measured == MeasuredRows(table)
<1>1. c \in Candidates /\ PassesGateG1(measured, c)
  BY DEF EligibleProfiles
<1>2. IsFiniteSet(measured) /\ IsFiniteSet(Observations(measured, c))
  BY CompleteTable, ObservationsAreFinite
<1>3. Errors(measured) = {}
  OBVIOUS
<1> HIDE DEF measured
<1>4. /\ Cardinality(FalseAttributions(RowsOf(measured, c))) = 0
      /\ RatesPass(Aggregate(measured, c))
      /\ MeanDecibelAtLeast38(Observations(measured, c))
  BY <1>1 DEF PassesGateG1, AggregateV1, Aggregate, RatesPass
<1>5. FalseAttributions(RowsOf(measured, c)) = {}
  BY <1>2, <1>4, NoneAreFalse
<1>6. \E x \in Observations(measured, c) : x[2] # "poor"
  BY <1>2, <1>4, MeanIsOfGoodPages
<1> QED
  BY <1>1, <1>3, <1>4, <1>5, <1>6, GateIsEarned DEF measured

-----------------------------------------------------------------------------
(* The rank.                                                               *)

\* The rank of a candidate: integers, of which the last tells candidates apart.
LEMMA MinOfThree ==
    ASSUME NEW a \in Int, NEW b \in Int, NEW c \in Int
    PROVE  Min({a, b, c}) \in Int
<1>1. \E x \in {a, b, c} : \A y \in {a, b, c} : x =< y
  OBVIOUS
<1> QED
  BY <1>1 DEF Min

LEMMA RankKeyType ==
    ASSUME CheckpointOK, Present = Ordinals,
           NEW measured, measured = AllRows,
           NEW c \in EligibleProfiles(measured)
    PROVE  \E x, y, z \in Int, k \in DOMAIN CandidateOrder :
              RankKey(measured, c) = <<x, y, z, k>> /\ CandidateOrder[k] = c
<1> DEFINE score == AggregateV1(measured, c)
           observations == Observations(measured, c)
           own == RowsOf(measured, c)
<1>1. IsFiniteSet(observations) /\ IsFiniteSet(own)
  <2>1. own \in SUBSET measured
    BY DEF RowsOf
  <2> HIDE DEF own
  <2> QED
    BY <2>1, ObservationsAreFinite, FS_Subset
<1>2. score.total \in Int
  <2>1. score.total = TotalDecibels(observations)
    BY DEF AggregateV1, Aggregate
  <2>2. PoorOnes(observations) \in SUBSET observations
        /\ observations \ PoorOnes(observations) \in SUBSET observations
    BY DEF PoorOnes
  <2> HIDE DEF observations
  <2>3. /\ Cardinality(PoorOnes(observations)) \in Nat
        /\ Cardinality(observations \ PoorOnes(observations)) \in Nat
    BY <1>1, <2>2, FS_Subset, FS_CardinalityType
  <2> QED
    BY <2>1, <2>3 DEF TotalDecibels, Decibel
<1>3. WorstRate(score) \in Int
  <2> DEFINE jpeg == PositiveRows(measured, c, "jpeg")
             resize == PositiveRows(measured, c, "resize")
             crop == {r \in PositiveRows(measured, c, "crop") : r.eligible}
  <2>2. /\ score.jpeg = DecodeCounts(jpeg)
        /\ score.resize = DecodeCounts(resize)
        /\ score.crop = DecodeCounts(crop)
    BY DEF AggregateV1, Aggregate
  <2>3. jpeg \in SUBSET measured /\ resize \in SUBSET measured /\ crop \in SUBSET measured
    BY DEF PositiveRows, RowsOf
  <2>4. AtLeast(score.jpeg, 95) /\ AtLeast(score.resize, 95) /\ AtLeast(score.crop, 90)
    BY DEF EligibleProfiles, PassesGateG1, RatesPass
  <2> HIDE DEF score, jpeg, resize, crop
  <2>5. ASSUME NEW counted \in SUBSET measured, NEW percent \in {90, 95},
               AtLeast(DecodeCounts(counted), percent)
        PROVE  Percent(DecodeCounts(counted).true, DecodeCounts(counted).total) \in Int
    <3> DEFINE right == {r \in counted : r.reason # "execution_error" /\ r.decoded = r.expected}
    <3>1. IsFiniteSet(counted)
      BY ObservationsAreFinite, FS_Subset
    <3>2. right \in SUBSET counted
      OBVIOUS
    <3>3. /\ DecodeCounts(counted).true = Cardinality(right)
          /\ DecodeCounts(counted).total = Cardinality(counted)
      BY DEF DecodeCounts
    <3> HIDE DEF right
    <3>4. Cardinality(right) \in Nat /\ Cardinality(counted) \in Nat
      BY <3>1, <3>2, FS_Subset, FS_CardinalityType
    <3>5. Cardinality(counted) > 0
      BY <2>5, <3>3 DEF AtLeast
    <3> QED
      BY <3>3, <3>4, <3>5 DEF Percent
  <2>6. /\ Percent(score.jpeg.true, score.jpeg.total) \in Int
        /\ Percent(score.resize.true, score.resize.total) \in Int
        /\ Percent(score.crop.true, score.crop.total) \in Int
    BY <2>2, <2>3, <2>4, <2>5
  <2> QED
    BY <2>6, MinOfThree DEF WorstRate
<1>4. score.elapsed \in Int
  <2>1. score.elapsed = Cardinality(Ticks(own))
    BY DEF AggregateV1, Aggregate
  <2>2. ASSUME NEW r \in own PROVE r.timing \in Int
    <3>1. PICK o \in Ordinals : r = RowAt(o)
      BY DEF RowsOf, AllRows
    <3>2. rows[o] \in Int
      BY DEF CheckpointOK, Cells, NoRow
    <3>3. r.timing = IF rows[o] < 0 THEN -rows[o] ELSE rows[o]
      BY <3>1 DEF RowAt, ExecuteRow, MakeRow
    <3> QED
      BY <3>2, <3>3
  <2>3. ASSUME NEW r \in own PROVE IsFiniteSet({r} \X (1..r.timing))
    <3>1. IsFiniteSet({r})
      BY FS_Singleton
    <3>2. IsFiniteSet(1..r.timing)
      BY <2>2, FS_Interval
    <3> QED
      BY <3>1, <3>2, FS_Product
  <2> DEFINE spent == {{r} \X (1..r.timing) : r \in own}
             f == [r \in own |-> {r} \X (1..r.timing)]
  <2>4. f \in Surjection(own, spent)
    <3> HIDE DEF own
    <3> QED
      BY DEF Surjection
  <2>5. IsFiniteSet(spent)
    <3> HIDE DEF f, spent, own
    <3> QED
      BY <1>1, <2>4, FS_Surjection
  <2>6. IsFiniteSet(UNION spent)
    <3>1. \A T \in spent : IsFiniteSet(T)
      BY <2>3
    <3> HIDE DEF spent
    <3> QED
      BY <2>5, <3>1, FS_UNION
  <2>7. IsFiniteSet(Ticks(own))
    BY <2>6 DEF Ticks
  <2> QED
    BY <2>1, <2>7, FS_CardinalityType
<1> DEFINE index == CHOOSE k \in DOMAIN CandidateOrder : CandidateOrder[k] = c
<1>5. index \in DOMAIN CandidateOrder /\ CandidateOrder[index] = c
  BY DEF EligibleProfiles, Candidates
<1>6. RankKey(measured, c) = <<-score.total, -WorstRate(score), score.elapsed, index>>
  BY DEF RankKey
<1>7. -score.total \in Int /\ -WorstRate(score) \in Int
  BY <1>2, <1>3
<1> HIDE DEF score, index
<1> QED
  BY <1>4, <1>5, <1>6, <1>7

\* The order of the ranks is the lexicographic one.
LEMMA RanksBeforeFacts ==
    ASSUME NEW a \in Int \X Int \X Int \X Int, NEW b \in Int \X Int \X Int \X Int
    PROVE  RanksBefore(a, b) <=>
             \/ a[1] < b[1]
             \/ a[1] = b[1] /\ a[2] < b[2]
             \/ a[1] = b[1] /\ a[2] = b[2] /\ a[3] < b[3]
             \/ a[1] = b[1] /\ a[2] = b[2] /\ a[3] = b[3] /\ a[4] < b[4]
<1>1. DOMAIN a = 1..4
  OBVIOUS
<1>2. ASSUME RanksBefore(a, b)
      PROVE  \/ a[1] < b[1]
             \/ a[1] = b[1] /\ a[2] < b[2]
             \/ a[1] = b[1] /\ a[2] = b[2] /\ a[3] < b[3]
             \/ a[1] = b[1] /\ a[2] = b[2] /\ a[3] = b[3] /\ a[4] < b[4]
  <2>1. PICK k \in 1..4 : a[k] < b[k] /\ \A j \in 1..(k - 1) : a[j] = b[j]
    BY <1>1, <1>2 DEF RanksBefore
  <2> QED
    BY <2>1
<1>3. ASSUME NEW k \in 1..4, a[k] < b[k], \A j \in 1..(k - 1) : a[j] = b[j]
      PROVE  RanksBefore(a, b)
  BY <1>1, <1>3 DEF RanksBefore
<1>4. a[1] < b[1] => RanksBefore(a, b)
  BY <1>3
<1>5. a[1] = b[1] /\ a[2] < b[2] => RanksBefore(a, b)
  BY <1>3
<1>6. a[1] = b[1] /\ a[2] = b[2] /\ a[3] < b[3] => RanksBefore(a, b)
  BY <1>3
<1>7. a[1] = b[1] /\ a[2] = b[2] /\ a[3] = b[3] /\ a[4] < b[4] => RanksBefore(a, b)
  BY <1>3
<1> QED
  BY <1>2, <1>4, <1>5, <1>6, <1>7

\* Where a candidate is eligible one is the best, so the script releases an
\* eligible one.
LEMMA BestIsEligible ==
    ASSUME CheckpointOK, Present = Ordinals,
           NEW measured, measured = AllRows,
           EligibleProfiles(measured) # {}
    PROVE  BestProfile(measured) \in EligibleProfiles(measured)
<1> DEFINE S == EligibleProfiles(measured)
           key == [c \in S |-> RankKey(measured, c)]
           before == {p \in S \X S : RanksBefore(key[p[1]], key[p[2]])}
<1>1. IsFiniteSet(S)
  <2>1. S \in SUBSET Candidates
    BY DEF EligibleProfiles
  <2> HIDE DEF S
  <2> QED
    BY <2>1, PlanFacts, FS_Subset
<1>2. ASSUME NEW c \in S
      PROVE  /\ key[c] = RankKey(measured, c) /\ key[c] \in Int \X Int \X Int \X Int
             /\ key[c][4] \in DOMAIN CandidateOrder /\ CandidateOrder[key[c][4]] = c
  <2>1. key[c] = RankKey(measured, c)
    OBVIOUS
  <2>2. c \in EligibleProfiles(measured)
    OBVIOUS
  <2> HIDE DEF S, key, before
  <2>3. PICK x \in Int, y \in Int, z \in Int, k \in DOMAIN CandidateOrder :
              RankKey(measured, c) = <<x, y, z, k>> /\ CandidateOrder[k] = c
    BY <2>2, RankKeyType
  <2>4. k \in Int
    BY PlanFacts
  <2> QED
    BY <2>1, <2>3, <2>4
<1> HIDE DEF key, S
<1>3. ASSUME NEW a \in S, NEW b \in S
      PROVE  <<a, b>> \in before <=>
               \/ key[a][1] < key[b][1]
               \/ key[a][1] = key[b][1] /\ key[a][2] < key[b][2]
               \/ key[a][1] = key[b][1] /\ key[a][2] = key[b][2] /\ key[a][3] < key[b][3]
               \/ /\ key[a][1] = key[b][1] /\ key[a][2] = key[b][2] /\ key[a][3] = key[b][3]
                  /\ key[a][4] < key[b][4]
  BY <1>2, RanksBeforeFacts
<1>4. \A c \in S : key[c][1] \in Int /\ key[c][2] \in Int /\ key[c][3] \in Int /\ key[c][4] \in Int
  BY <1>2
<1> HIDE DEF before
<1>5. \A a \in S : <<a, a>> \notin before
  BY <1>3, <1>4
<1>6. \A a, b, c \in S : <<a, b>> \in before /\ <<b, c>> \in before => <<a, c>> \in before
  BY <1>3, <1>4
<1>7. PICK least \in S : \A a \in S : <<a, least>> \notin before
  <2>1. S # {}
    BY DEF S
  <2> QED
    BY <1>1, <1>5, <1>6, <2>1, LeastExists
<1>8. ASSUME NEW d \in S \ {least}
      PROVE  RanksBefore(RankKey(measured, least), RankKey(measured, d))
  <2>1. key[least][4] # key[d][4]
    BY <1>2
  <2>2. <<d, least>> \notin before
    BY <1>7
  <2>3. <<least, d>> \in before
    BY <1>3, <1>4, <2>1, <2>2
  <2> QED
    BY <1>2, <2>3 DEF before
<1> QED
  BY <1>8 DEF BestProfile, S

EarnedInv ==
    /\ SettingOK /\ CheckpointOK /\ ReleaseInv
    /\ RunnersOK /\ SelectionOK /\ PromotionOK
-----------------------------------------------------------------------------
(* What stays.                                                             *)

\* Evidence that stands keeps what was exported of it and what it earned.
Standing == EvidenceStands /\ UNCHANGED <<version, world>>

LEMMA ExportStays ==
    ASSUME Standing, NEW table, IsExport(table, identity, rows)
    PROVE  IsExport(table, identity', rows')
<1>1. ASSUME NEW o \in Ordinals, table.rows[o] # NoRow, table.rows[o] = rows[o]
      PROVE  table.rows[o] = rows'[o]
  BY <1>1 DEF Standing, EvidenceStands, Present
<1> QED
  BY <1>1 DEF IsExport, Standing, EvidenceStands

LEMMA EarnedStays ==
    ASSUME Standing, NEW c, Deserves(c)
    PROVE  Deserves(c)'
<1>1. Present = Ordinals /\ Present' = Ordinals
  BY DEF Deserves, Standing, EvidenceStands, Present
<1>2. \A o \in Ordinals : rows'[o] = rows[o]
  BY <1>1 DEF Standing, EvidenceStands
<1>3. version' = version /\ world' = world
  BY DEF Standing
<1>4. \A case : NamedIn(case)' = NamedIn(case)
  BY <1>3 DEF NamedIn
<1>5. \A attack, percent : Survives(c, attack, percent)' = Survives(c, attack, percent)
  BY <1>3, <1>4 DEF Survives
<1> QED
  BY <1>1, <1>2, <1>3, <1>4, <1>5 DEF Deserves

LEMMA RunnerStays ==
    ASSUME Standing, NEW r, RunnerOK(r)
    PROVE  RunnerOK(r)'
<1>1. r.pc = "run" => identity' = r.plan
  BY DEF RunnerOK, Standing, EvidenceStands
<1>2. IsExport(r.table, identity', rows')
  BY ExportStays DEF RunnerOK
<1>3. \A c \in r.qualified : Deserves(c)'
  BY EarnedStays DEF RunnerOK
<1> QED
  BY <1>1, <1>2, <1>3 DEF RunnerOK

\* Who fixes the world, and what a checkpoint may hold after a step.
LEMMA CheckpointStays ==
    ASSUME EarnedInv, [Next]_vars
    PROVE  SettingOK' /\ CheckpointOK' /\ Standing
<1>1. EvidenceStands
  <2>1. RowsOK
    BY DEF EarnedInv, CheckpointOK, RowsOK
  <2> QED
    BY <2>1, CheckpointStep
<1>2. UNCHANGED <<version, world>>
  <2>1. ASSUME NEW p \in Runners, Run(p) PROVE UNCHANGED <<version, world>>
    BY <2>1, RunLeavesRelease DEF EarnedInv, ReleaseInv
  <2>2. CASE StartRead \/ CrashRead \/ LoadSelection
    BY <2>2 DEF StartRead, CrashRead, LoadSelection, ReadSelection, CompareSummaryHash,
       CompareTableHashes, ReadSummaryAgain, AcceptSelection, ReaderOnly
  <2>3. CASE PromoteProfile
    BY <2>3 DEF PromoteProfile, LoadBenchmarkSummary, LoadBenchmarkRows,
       RejectEvidence, RemoveFailedRelease, ReportNoRelease, PreflightRelease,
       WriteReport, PublishRelease, CleanUpRelease, CleanUpReport, ReaderOnly
  <2>4. CASE UNCHANGED vars
    BY <2>4 DEF vars
  <2> QED
    BY <2>1, <2>2, <2>3, <2>4 DEF Next
<1>3. SettingOK'
  BY <1>2 DEF EarnedInv, SettingOK
<1>4. CheckpointOK'
  <2>1. CheckpointOK
    BY DEF EarnedInv
  <2>2. CASE UNCHANGED <<rows, starts>>
    BY <2>1, <2>2 DEF CheckpointOK
  <2>3. ASSUME NEW p \in Runners, InsertRow(p) PROVE CheckpointOK'
    <3>1. runner[p].number \in 1..MaxStarts
      <4>1. RunnerOK(runner[p]) /\ runner[p].pc = "run"
        BY <2>3 DEF EarnedInv, RunnersOK, InsertRow, MayExecute, At
      <4> QED
        BY <4>1, PipelineAssumption DEF RunnerOK
    <3>2. starts' = starts
      BY <2>3 DEF InsertRow, RunnerOnly
    <3> DEFINE o == Min(Scheduled(p))
    <3>3. ASSUME NEW cell \in CellsOf(o, runner[p].number), rows' = [rows EXCEPT ![o] = cell]
          PROVE  CheckpointOK'
      <4>1. cell \in Cells
        BY <3>1, PipelineAssumption DEF CellsOf, Cells, NoRow
      <4> HIDE DEF o
      <4> QED
        BY <2>1, <3>2, <3>3, <4>1 DEF CheckpointOK
    <3> QED
      BY <2>1, <2>2, <2>3, <3>2, <3>3 DEF InsertRow
  <2>4. ASSUME NEW p \in Runners,
               \E plan \in {"required", OtherPlan}, budget \in RowBudgets :
                  StartRun(p, plan, budget)
        PROVE CheckpointOK'
    BY <2>1, <2>4, PipelineAssumption DEF StartRun, CheckpointOK, evidence
  <2>5. ASSUME NEW p \in Runners, Run(p), ~InsertRow(p),
               ~\E plan \in {"required", OtherPlan}, budget \in RowBudgets :
                  StartRun(p, plan, budget)
        PROVE CheckpointOK'
    BY <2>2, <2>5 DEF Run, InvalidateSelection, OpenCheckpoint, CollectRows, ExportResults,
       ExportCsv, ExportSummary, ReadResultsBack, ReadCsvBack, WriteSummary,
       WriteSelection, CrashRun, RunnerOnly, evidence
  <2>6. CASE StartRead \/ CrashRead \/ LoadSelection
    BY <2>2, <2>6 DEF StartRead, CrashRead, LoadSelection, ReadSelection, CompareSummaryHash,
       CompareTableHashes, ReadSummaryAgain, AcceptSelection, ReaderOnly, evidence
  <2>7. CASE PromoteProfile
    BY <2>2, <2>7 DEF PromoteProfile, LoadBenchmarkSummary, LoadBenchmarkRows,
       RejectEvidence, RemoveFailedRelease, ReportNoRelease, PreflightRelease,
       WriteReport, PublishRelease, CleanUpRelease, CleanUpReport, ReaderOnly, evidence
  <2>8. CASE UNCHANGED vars
    BY <2>2, <2>8 DEF vars
  <2> QED
    BY <2>3, <2>4, <2>5, <2>6, <2>7, <2>8 DEF Next
<1>5. Standing
  BY <1>1, <1>2 DEF Standing
<1> QED
  BY <1>3, <1>4, <1>5

-----------------------------------------------------------------------------
(* A run.                                                                  *)

LEMMA RunnerStep ==
    ASSUME RunnersOK, Standing, NEW p \in Runners, NEW r, RunnerOK(r)',
           runner' = [runner EXCEPT ![p] = r]
    PROVE  RunnersOK'
<1>1. runner' = [q \in Runners |-> IF q = p THEN r ELSE runner[q]]
  BY DEF RunnersOK
<1>2. ASSUME NEW q \in Runners, NEW s, s = runner[q]
      PROVE  RunnerOK(s)'
  <2>1. RunnerOK(s)
    BY <1>2 DEF RunnersOK
  <2> QED
    BY <2>1, RunnerStays
<1>3. ASSUME NEW q \in Runners, NEW s, s = runner'[q]
      PROVE  RunnerOK(s)'
  <2>1. CASE q = p
    BY <1>1, <1>3, <2>1
  <2>2. CASE q # p
    <3>1. s = runner[q]
      BY <1>1, <1>3, <2>2
    <3> QED
      BY <1>2, <3>1
  <2> QED
    BY <2>1, <2>2
<1>4. runner' = [q \in Runners |-> runner'[q]]
  BY <1>1
<1>5. \A s \in {runner'[q] : q \in Runners} : RunnerOK(s)'
  BY <1>3
<1> QED
  BY <1>4, <1>5 DEF RunnersOK

LEMMA IdleIsOK == RunnerOK(IdleRunner)
  BY PipelineAssumption DEF RunnerOK, IdleRunner, IsExport, Null

\* What an action of a run makes of its runner and of the results and the
\* selection on disk.
LEMMA RunKeepsInv ==
    ASSUME EarnedInv, NEW p \in Runners, Run(p), Standing
    PROVE  RunnersOK' /\ SelectionOK'
<1> DEFINE r == runner[p]
<1>1. RunnerOK(r) /\ RunnersOK /\ SelectionOK /\ SettingOK /\ CheckpointOK /\ RecordsOK
  BY DEF EarnedInv, RunnersOK, ReleaseInv
<1>2. RunnerOK(IdleRunner)'
  BY IdleIsOK, RunnerStays
<1>3. Abort(p) => RunnersOK'
  BY <1>1, <1>2, RunnerStep DEF Abort, Step
\* A run that goes on: its plan and its number stay.
<1>4. ASSUME NEW e, Step(p, e), r.pc # "idle",
             e = [pc |-> e.pc, plan |-> r.plan, budget |-> e.budget, existing |-> e.existing,
                  cursor |-> e.cursor, table |-> e.table, csv |-> e.csv,
                  qualified |-> e.qualified, number |-> r.number],
             e.pc = "run" => identity' = r.plan,
             IsExport(e.table, identity', rows'),
             \A c \in e.qualified : Deserves(c)'
      PROVE  RunnersOK'
  <2>1. PICK s : s = r /\ RunnerOK(s)'
    BY <1>1, RunnerStays
  <2>2. /\ e.plan = s.plan /\ e.number = s.number
        /\ e = [pc |-> e.pc, plan |-> e.plan, budget |-> e.budget, existing |-> e.existing,
                cursor |-> e.cursor, table |-> e.table, csv |-> e.csv,
                qualified |-> e.qualified, number |-> e.number]
    <3>1. e.plan = s.plan /\ e.number = s.number
      BY <1>4, <2>1
    <3> QED
      BY <1>4, <2>1, <3>1
  <2>3. s.number > 0
    BY <1>1, <1>4, <2>1 DEF RunnerOK
  <2>4. RunnerOK(e)'
    BY <1>4, <2>1, <2>2, <2>3 DEF RunnerOK
  <2> QED
    BY <1>1, <1>4, <2>4, RunnerStep DEF Step
\* What it has exported and qualified is still right.
<1>5. IsExport(r.table, identity', rows') /\ \A c \in r.qualified : Deserves(c)'
  BY <1>1, EarnedStays, ExportStays DEF RunnerOK
<1>6. ASSUME NEW pc, MoveTo(p, pc), pc # "run", r.pc # "idle"
      PROVE  RunnersOK'
  <2>1. PICK e : e = [r EXCEPT !.pc = pc]
    OBVIOUS
  <2>2. Step(p, e)
    BY <1>6, <2>1 DEF MoveTo, Step
  <2>3. e = [pc |-> pc, plan |-> r.plan, budget |-> r.budget, existing |-> r.existing,
             cursor |-> r.cursor, table |-> r.table, csv |-> r.csv,
             qualified |-> r.qualified, number |-> r.number]
    BY <1>1, <2>1 DEF RunnerOK
  <2>4. /\ e.pc = pc /\ e.budget = r.budget /\ e.existing = r.existing /\ e.cursor = r.cursor
        /\ e.table = r.table /\ e.csv = r.csv /\ e.qualified = r.qualified
    BY <2>3
  <2> HIDE DEF r
  <2> QED
    BY <1>4, <1>5, <1>6, <2>2, <2>3, <2>4
<1>7. ASSUME NEW table, NEW ids, IsExport(table, identity', rows'),
             \A c \in ids : Deserves(c)',
             disk'.results = table, disk'.selection.ids = ids, accepted' = accepted
      PROVE  SelectionOK'
  <2>1. \A c \in accepted : Deserves(c)'
    BY <1>1, EarnedStays DEF SelectionOK, SelectionIsEarned
  <2>2. accepted # {} => identity' = "required"
    BY <1>1 DEF SelectionOK, SelectionIsEarned, Standing, EvidenceStands, Null
  <2>3. version' = version
    BY DEF Standing
  <2> QED
    BY <1>1, <1>7, <2>1, <2>2, <2>3 DEF SelectionOK, SelectionIsEarned
<1>8. UNCHANGED <<accepted, version>>
  BY DEF Run, StartRun, InvalidateSelection, OpenCheckpoint, InsertRow, CollectRows,
     ExportResults, ExportCsv, ExportSummary, ReadResultsBack, ReadCsvBack, WriteSummary,
     WriteSelection, CrashRun, RunnerOnly
\* The results and the selection that are there are still right.
<1>9. /\ IsExport(disk.results, identity', rows')
      /\ \A c \in disk.selection.ids : Deserves(c)'
  BY <1>1, EarnedStays, ExportStays DEF SelectionOK, SelectionIsEarned
<1>10. disk'.results = disk.results /\ disk'.selection = disk.selection => SelectionOK'
  BY <1>7, <1>8, <1>9
<1>11. ASSUME NEW plan \in {"required", OtherPlan}, NEW budget \in RowBudgets,
              StartRun(p, plan, budget)
       PROVE  RunnersOK' /\ SelectionOK'
  <2>1. PICK pc : pc = IF version = 1 THEN "open" ELSE "invalidate"
    OBVIOUS
  <2>2. PICK e : e = [IdleRunner EXCEPT !.pc = pc, !.plan = plan, !.budget = budget,
                                        !.number = starts + 1]
    OBVIOUS
  <2>3. Step(p, e) /\ starts < MaxStarts /\ UNCHANGED disk
    BY <1>11, <2>1, <2>2 DEF StartRun
  <2>4. e = [pc |-> pc, plan |-> plan, budget |-> budget, existing |-> {},
             cursor |-> 0, table |-> NoTable, csv |-> NoTable, qualified |-> {},
             number |-> starts + 1]
    BY <2>2 DEF IdleRunner
  <2>5. /\ e.pc = pc /\ e.plan = plan /\ e.budget = budget /\ e.existing = {}
        /\ e.cursor = 0 /\ e.table = NoTable /\ e.csv = NoTable /\ e.qualified = {}
        /\ e.number = starts + 1
    BY <2>4
  <2>6. plan # Null /\ pc # "run" /\ starts + 1 \in 1..MaxStarts
    BY <1>1, <2>1, <2>3, PipelineAssumption DEF OtherPlan, Null, CheckpointOK
  <2>7. RunnerOK(e)'
    BY <2>4, <2>5, <2>6 DEF RunnerOK, IsExport
  <2> QED
    BY <1>1, <1>10, <2>3, <2>7, RunnerStep DEF Step
<1>12. CASE InvalidateSelection(p)
  <2>1. RunnersOK'
    BY <1>6, <1>12 DEF InvalidateSelection, At
  <2>2. PICK selection : selection = EmptySelection(r.plan)
    OBVIOUS
  <2>3. selection.ids = {}
    BY <2>2 DEF EmptySelection, Selection
  <2>4. disk'.results = disk.results /\ disk'.selection = selection
    BY <1>1, <1>12, <2>2 DEF InvalidateSelection, RecordsOK
  <2> QED
    BY <1>7, <1>8, <1>9, <2>1, <2>3, <2>4
<1>13. CASE OpenCheckpoint(p)
  <2>1. r.pc # "idle" /\ UNCHANGED disk
    BY <1>13 DEF OpenCheckpoint, At
  <2>2. ASSUME identity' = r.plan, Step(p, [r EXCEPT !.pc = "run", !.existing = Present])
        PROVE  RunnersOK'
    <3>1. PICK existing : existing = Present
      OBVIOUS
    <3>2. PICK e : e = [r EXCEPT !.pc = "run", !.existing = existing]
      OBVIOUS
    <3>3. e = [pc |-> "run", plan |-> r.plan, budget |-> r.budget, existing |-> existing,
               cursor |-> r.cursor, table |-> r.table, csv |-> r.csv,
               qualified |-> r.qualified, number |-> r.number]
      BY <1>1, <3>2 DEF RunnerOK
    <3>4. /\ e.pc = "run" /\ e.budget = r.budget /\ e.existing = existing
          /\ e.cursor = r.cursor /\ e.table = r.table /\ e.csv = r.csv
          /\ e.qualified = r.qualified
      BY <3>3
    <3>5. Step(p, e)
      BY <2>2, <3>1, <3>2
    <3> HIDE DEF r
    <3> QED
      BY <1>4, <1>5, <2>1, <2>2, <3>3, <3>4, <3>5
  <2>3. RunnersOK'
    BY <1>3, <1>13, <2>2 DEF OpenCheckpoint
  <2> QED
    BY <1>10, <2>1, <2>3
<1>14. CASE InsertRow(p)
  <2>1. r.pc = "run" /\ UNCHANGED <<disk, identity>>
    BY <1>14 DEF InsertRow, MayExecute, At
  <2>2. ASSUME NEW o, o = Min(Scheduled(p)),
               Step(p, [r EXCEPT !.cursor = o, !.budget = @ - 1])
        PROVE  RunnersOK'
    <3>1. PICK budget : budget = r.budget - 1
      OBVIOUS
    <3>2. PICK e : e = [r EXCEPT !.cursor = o, !.budget = budget]
      OBVIOUS
    <3>3. e = [pc |-> r.pc, plan |-> r.plan, budget |-> budget, existing |-> r.existing,
               cursor |-> o, table |-> r.table, csv |-> r.csv,
               qualified |-> r.qualified, number |-> r.number]
      BY <1>1, <3>2 DEF RunnerOK
    <3>4. /\ e.pc = r.pc /\ e.budget = budget /\ e.existing = r.existing
          /\ e.cursor = o /\ e.table = r.table /\ e.csv = r.csv
          /\ e.qualified = r.qualified
      BY <3>3
    <3>5. Step(p, e)
      BY <2>2, <3>1, <3>2
    <3>6. identity' = r.plan
      BY <1>1, <2>1 DEF RunnerOK
    <3> HIDE DEF r
    <3> QED
      BY <1>4, <1>5, <2>1, <3>3, <3>4, <3>5, <3>6
  <2>3. RunnersOK'
    BY <1>3, <1>14, <2>2 DEF InsertRow
  <2> QED
    BY <1>10, <2>1, <2>3
<1>15. CASE CollectRows(p)
  <2>1. r.pc = "run" /\ UNCHANGED <<disk, identity, rows>>
    BY <1>15 DEF CollectRows, At, evidence
  <2>2. PICK table : table = Table(r.plan, rows)
    OBVIOUS
  <2>3. table.plan = r.plan /\ table.rows = rows
    BY <2>2 DEF Table
  <2>4. IsExport(table, identity', rows')
    BY <1>1, <2>1, <2>3 DEF RunnerOK, IsExport
  <2>5. PICK e : e = [r EXCEPT !.pc = "results", !.existing = {}, !.cursor = 0, !.budget = 0,
                               !.table = table]
    OBVIOUS
  <2>6. e = [pc |-> "results", plan |-> r.plan, budget |-> 0, existing |-> {},
             cursor |-> 0, table |-> table, csv |-> r.csv,
             qualified |-> r.qualified, number |-> r.number]
    BY <1>1, <2>5 DEF RunnerOK
  <2>7. /\ e.pc = "results" /\ e.budget = 0 /\ e.existing = {} /\ e.cursor = 0
        /\ e.table = table /\ e.csv = r.csv /\ e.qualified = r.qualified
    BY <2>6
  <2>8. Step(p, e)
    BY <1>15, <2>2, <2>5 DEF CollectRows
  <2>9. RunnersOK'
    <3> HIDE DEF r
    <3> QED
      BY <1>4, <1>5, <2>1, <2>4, <2>6, <2>7, <2>8
  <2> QED
    BY <1>10, <2>1, <2>9
<1>16. CASE ExportResults(p)
  <2>1. RunnersOK'
    BY <1>6, <1>16 DEF ExportResults, At
  <2>2. disk'.results = r.table /\ disk'.selection = disk.selection
    BY <1>1, <1>16 DEF ExportResults, RecordsOK
  <2> QED
    BY <1>5, <1>7, <1>8, <1>9, <2>1, <2>2
<1>17. CASE ExportCsv(p) \/ ExportSummary(p)
  <2>1. RunnersOK'
    BY <1>3, <1>6, <1>17 DEF ExportCsv, ExportSummary, At
  <2>2. disk'.results = disk.results /\ disk'.selection = disk.selection
    BY <1>1, <1>17 DEF ExportCsv, ExportSummary, RecordsOK
  <2> QED
    BY <1>10, <2>1, <2>2
<1>18. CASE ReadResultsBack(p)
  <2>1. r.pc # "idle" /\ UNCHANGED disk
    BY <1>18 DEF ReadResultsBack, At
  <2>2. ASSUME NEW measured \in {MeasuredRows(disk.results)},
               Step(p, [r EXCEPT
                   !.pc = IF version = 3 THEN "readcsv" ELSE "score", !.table = disk.results,
                   !.qualified = Qualified(version, measured, r.plan)])
        PROVE  RunnersOK'
    <3>1. PICK pc : pc = IF version = 3 THEN "readcsv" ELSE "score"
      OBVIOUS
    <3>2. PICK table, qualified :
            table = disk.results /\ qualified = Qualified(version, measured, r.plan)
      OBVIOUS
    <3>3. PICK e : e = [r EXCEPT !.pc = pc, !.table = table, !.qualified = qualified]
      OBVIOUS
    <3>4. e = [pc |-> pc, plan |-> r.plan, budget |-> r.budget, existing |-> r.existing,
               cursor |-> r.cursor, table |-> table, csv |-> r.csv,
               qualified |-> qualified, number |-> r.number]
      BY <1>1, <3>3 DEF RunnerOK
    <3>5. /\ e.pc = pc /\ e.budget = r.budget /\ e.existing = r.existing
          /\ e.cursor = r.cursor /\ e.table = table /\ e.csv = r.csv
          /\ e.qualified = qualified
      BY <3>4
    <3>6. Step(p, e)
      BY <2>2, <3>1, <3>2, <3>3
    <3>7. IsExport(disk.results, identity, rows)
      BY <1>1 DEF SelectionOK
    <3>8. ASSUME NEW c \in qualified PROVE Deserves(c)
      <4>1. c \in Qualified(version, MeasuredRows(disk.results), r.plan)
        BY <2>2, <3>2, <3>8
      <4>2. \/ c \in QualifiedV2(MeasuredRows(disk.results))
            \/ c \in QualifiedV3(MeasuredRows(disk.results), r.plan)
        BY <4>1 DEF Qualified
      <4> QED
        BY <1>1, <3>7, <4>2, QualifiedV2AreEarned, QualifiedV3AreEarned
    <3>9. \A c \in qualified : Deserves(c)'
      BY <3>8, EarnedStays
    <3>10. pc # "run"
      BY <3>1
    <3>11. IsExport(table, identity', rows')
      BY <1>9, <3>2
    <3> HIDE DEF r
    <3> QED
      BY <1>4, <2>1, <3>4, <3>5, <3>6, <3>9, <3>10, <3>11
  <2>3. RunnersOK'
    BY <1>3, <1>18, <2>2 DEF ReadResultsBack
  <2> QED
    BY <1>10, <2>1, <2>3
<1>19. CASE ReadCsvBack(p)
  <2>1. r.pc # "idle" /\ UNCHANGED disk
    BY <1>19 DEF ReadCsvBack, At
  <2>2. PICK csv : csv = disk.csv
    OBVIOUS
  <2>3. PICK e : e = [r EXCEPT !.pc = "score", !.csv = csv]
    OBVIOUS
  <2>4. e = [pc |-> "score", plan |-> r.plan, budget |-> r.budget, existing |-> r.existing,
             cursor |-> r.cursor, table |-> r.table, csv |-> csv,
             qualified |-> r.qualified, number |-> r.number]
    BY <1>1, <2>3 DEF RunnerOK
  <2>5. /\ e.pc = "score" /\ e.budget = r.budget /\ e.existing = r.existing
        /\ e.cursor = r.cursor /\ e.table = r.table /\ e.csv = csv
        /\ e.qualified = r.qualified
    BY <2>4
  <2>6. Step(p, e)
    BY <1>19, <2>2, <2>3 DEF ReadCsvBack
  <2>7. RunnersOK'
    <3> HIDE DEF r
    <3> QED
      BY <1>4, <1>5, <2>1, <2>4, <2>5, <2>6
  <2> QED
    BY <1>10, <2>1, <2>7
<1>20. CASE WriteSummary(p)
  <2>1. RunnersOK'
    BY <1>6, <1>20 DEF WriteSummary, At
  <2>2. disk'.results = disk.results /\ disk'.selection = disk.selection
    BY <1>1, <1>20 DEF WriteSummary, RecordsOK
  <2> QED
    BY <1>10, <2>1, <2>2
<1>21. CASE WriteSelection(p)
  <2>1. RunnersOK'
    BY <1>3, <1>21 DEF WriteSelection
  <2>2. PICK selection :
          selection = Selection(r.plan, r.table, r.csv, SummaryOf(r), r.qualified)
    OBVIOUS
  <2>3. selection.ids = r.qualified
    BY <2>2 DEF Selection
  <2>4. disk'.results = disk.results /\ disk'.selection = selection
    BY <1>1, <1>21, <2>2 DEF WriteSelection, RecordsOK
  <2> QED
    BY <1>5, <1>7, <1>8, <1>9, <2>1, <2>3, <2>4
<1>22. CASE CrashRun(p)
  BY <1>3, <1>10, <1>22 DEF CrashRun
<1> QED
  BY <1>11, <1>12, <1>13, <1>14, <1>15, <1>16, <1>17, <1>18, <1>19, <1>20, <1>21, <1>22
     DEF Run

-----------------------------------------------------------------------------
(* The readers.                                                            *)

\* A run leaves the release and what the script has staged.
LEMMA RunKeepsPromotion ==
    ASSUME EarnedInv, NEW p \in Runners, Run(p), Standing
    PROVE  PromotionOK'
<1>1. disk'.release = disk.release /\ UNCHANGED <<version, world, reader>>
  BY RunLeavesRelease DEF EarnedInv, ReleaseInv
<1>2. Staged' = Staged
  BY <1>1, StagedStays
<1>3. identity = "required" => identity' = "required"
  BY DEF Standing, EvidenceStands, Null
<1>4. PromotionOK
  BY DEF EarnedInv
<1>5. \A c \in Candidates \cap {disk.release} : identity' = "required" /\ Deserves(c)'
  BY <1>3, <1>4, EarnedStays DEF PromotionOK
<1>6. ASSUME reader.pc \in {"preflight", "report", "publish"}
      PROVE  identity' = "required" /\ \A c \in Candidates \cap {Staged} : Deserves(c)'
  BY <1>3, <1>4, <1>6, EarnedStays DEF PromotionOK
<1> QED
  BY <1>1, <1>2, <1>5, <1>6 DEF PromotionOK

\* A reader that neither stages a profile nor publishes one.
LEMMA QuietReader ==
    ASSUME EarnedInv, Standing, UNCHANGED <<identity, rows, runner, accepted>>,
           disk'.results = disk.results, disk'.selection = disk.selection,
           disk'.release \in {Null, disk.release},
           reader'.pc \notin {"preflight", "report", "publish"}
    PROVE  RunnersOK' /\ SelectionOK' /\ PromotionOK'
<1>1. RunnersOK'
  <2>1. \A r \in {runner[p] : p \in Runners} : RunnerOK(r)'
    BY RunnerStays DEF EarnedInv, RunnersOK
  <2> QED
    BY <2>1 DEF EarnedInv, RunnersOK
<1>2. SelectionOK'
  <2>1. SelectionOK /\ version' = version
    BY DEF EarnedInv, Standing
  <2>2. /\ \A c \in disk.selection.ids : Deserves(c)'
        /\ \A c \in accepted : Deserves(c)'
    BY <2>1, EarnedStays DEF SelectionOK, SelectionIsEarned
  <2> QED
    BY <2>1, <2>2 DEF SelectionOK, SelectionIsEarned
<1>3. PromotionOK'
  <2>1. PromotionOK
    BY DEF EarnedInv
  <2>2. disk'.release \in Candidates => disk'.release = disk.release
    BY PipelineAssumption
  <2>3. \A c \in Candidates \cap {disk.release} : identity' = "required" /\ Deserves(c)'
    BY <2>1, EarnedStays DEF PromotionOK
  <2> QED
    BY <2>2, <2>3 DEF PromotionOK
<1> QED
  BY <1>1, <1>2, <1>3

\* The loader accepts what it finds qualified in the results that are there.
LEMMA LoaderKeepsInv ==
    ASSUME EarnedInv, Standing, StartRead \/ CrashRead \/ LoadSelection
    PROVE  RunnersOK' /\ SelectionOK' /\ PromotionOK'
<1> USE DEF Reader, ReaderTo, ReaderOnly, NothingWritten
<1>1. RecordsOK /\ SelectionOK /\ SettingOK /\ CheckpointOK
  BY DEF EarnedInv, ReleaseInv
<1>2. CASE StartRead \/ CrashRead
  BY <1>1, <1>2, QuietReader DEF StartRead, CrashRead, evidence, RecordsOK, IdleReader
<1>3. CASE ReadSelection \/ CompareSummaryHash \/ CompareTableHashes \/ ReadSummaryAgain
  <2>1. UNCHANGED <<identity, rows, runner, accepted, disk>>
    BY <1>3 DEF ReadSelection, CompareSummaryHash, CompareTableHashes, ReadSummaryAgain,
       evidence
  <2>2. reader'.pc \notin {"preflight", "report", "publish"}
    <3>1. CASE reader' = IdleReader
      BY <3>1 DEF IdleReader
    <3>2. ASSUME NEW pc \in {"tables", "document"}, reader' = [reader EXCEPT !.pc = pc]
          PROVE  reader'.pc = pc
      BY <1>1, <3>2 DEF RecordsOK
    <3>3. ASSUME NEW selection,
                 reader' = [reader EXCEPT !.pc = "hashes", !.selection = selection]
          PROVE  reader'.pc = "hashes"
      BY <1>1, <3>3 DEF RecordsOK
    <3>4. ASSUME NEW summary,
                 reader' = [reader EXCEPT !.pc = "rebuild", !.summary = summary]
          PROVE  reader'.pc = "rebuild"
      BY <1>1, <3>4 DEF RecordsOK
    <3>5. CASE ReadSelection
      BY <3>1, <3>3, <3>5 DEF ReadSelection
    <3>6. CASE CompareSummaryHash \/ CompareTableHashes
      BY <3>1, <3>2, <3>6 DEF CompareSummaryHash, CompareTableHashes
    <3>7. CASE ReadSummaryAgain
      BY <3>1, <3>4, <3>7 DEF ReadSummaryAgain
    <3> QED
      BY <1>3, <3>5, <3>6, <3>7
  <2> QED
    BY <2>1, <2>2, QuietReader
<1>4. CASE AcceptSelection
  <2>1. UNCHANGED <<version, identity, rows, runner, disk>> /\ reader' = IdleReader
    BY <1>4 DEF AcceptSelection, evidence
  <2>2. CASE accepted' = accepted
    BY <2>1, <2>2, QuietReader DEF IdleReader
  <2>3. ASSUME disk.results # NoTable, SummaryIsRebuilt(reader.summary, disk.results),
               accepted' = SelectedIds(disk.results)
        PROVE  RunnersOK' /\ SelectionOK' /\ PromotionOK'
    <3>1. IsExport(disk.results, identity, rows)
      BY <1>1 DEF SelectionOK
    <3>2. disk.results.plan = "required"
      BY <2>3 DEF SummaryIsRebuilt, SummaryIsRebuiltV2, SummaryIsRebuiltV3, RowsAreValid
    <3>3. identity = "required"
      BY <2>3, <3>1, <3>2 DEF IsExport
    <3>4. ASSUME NEW c \in SelectedIds(disk.results) PROVE Deserves(c)'
      <4>1. \/ c \in QualifiedV2(MeasuredRows(disk.results))
            \/ c \in QualifiedV3(MeasuredRows(disk.results), "required")
        BY <3>4 DEF SelectedIds, SelectedIdsV2, SelectedIdsV3
      <4>2. Deserves(c)
        BY <1>1, <3>1, <4>1, QualifiedV2AreEarned, QualifiedV3AreEarned
      <4> QED
        BY <4>2, EarnedStays
    <3>5. version = 3 => SelectedIds(disk.results) \in {{}, Candidates}
      BY DEF SelectedIds, SelectedIdsV3, QualifiedV3
    <3>6. \A c \in disk.selection.ids : Deserves(c)'
      BY <1>1, EarnedStays DEF SelectionOK, SelectionIsEarned
    <3>7. SelectionOK'
      BY <2>1, <2>3, <3>1, <3>3, <3>4, <3>5, <3>6 DEF SelectionOK, SelectionIsEarned
    <3>8. RunnersOK'
      <4>1. \A r \in {runner[p] : p \in Runners} : RunnerOK(r)'
        BY RunnerStays DEF EarnedInv, RunnersOK
      <4> QED
        BY <2>1, <4>1 DEF EarnedInv, RunnersOK
    <3>9. PromotionOK'
      <4>1. \A c \in Candidates \cap {disk.release} : identity' = "required" /\ Deserves(c)'
        BY <2>1, EarnedStays DEF EarnedInv, PromotionOK
      <4> QED
        BY <2>1, <4>1 DEF PromotionOK, IdleReader
    <3> QED
      BY <3>7, <3>8, <3>9
  <2> QED
    BY <1>4, <2>2, <2>3 DEF AcceptSelection
<1> QED
  BY <1>2, <1>3, <1>4 DEF LoadSelection

\* The script stages the best profile of complete, error-free results.
LEMMA ScriptKeepsEarned ==
    ASSUME EarnedInv, Standing, PromoteProfile
    PROVE  RunnersOK' /\ SelectionOK' /\ PromotionOK'
<1> USE DEF Reader, ReaderTo, ReaderOnly, NothingWritten
<1>1. RecordsOK /\ SelectionOK /\ SettingOK /\ CheckpointOK /\ PromotionOK
  BY DEF EarnedInv, ReleaseInv
<1>2. UNCHANGED <<version, world, identity, rows, runner, accepted>>
  BY DEF PromoteProfile, LoadBenchmarkSummary, LoadBenchmarkRows,
     RejectEvidence, RemoveFailedRelease, ReportNoRelease, PreflightRelease,
     WriteReport, PublishRelease, CleanUpRelease, CleanUpReport, evidence
\* What every step leaves.
<1>3. disk'.results = disk.results /\ disk'.selection = disk.selection
      => RunnersOK' /\ SelectionOK'
  <2>1. \A r \in {runner[p] : p \in Runners} : RunnerOK(r)'
    BY RunnerStays DEF EarnedInv, RunnersOK
  <2>2. RunnersOK'
    BY <1>2, <2>1 DEF EarnedInv, RunnersOK
  <2>3. /\ \A c \in disk.selection.ids : Deserves(c)'
        /\ \A c \in accepted : Deserves(c)'
    BY <1>1, EarnedStays DEF SelectionOK, SelectionIsEarned
  <2> QED
    BY <1>1, <1>2, <2>2, <2>3 DEF SelectionOK, SelectionIsEarned
<1>4. \A c \in Candidates \cap {disk.release} : identity' = "required" /\ Deserves(c)'
  BY <1>1, <1>2, EarnedStays DEF PromotionOK
<1>5. reader.pc \in {"preflight", "report", "publish"} =>
         /\ identity' = "required"
         /\ \A c \in Candidates \cap {Staged} : Deserves(c)'
  BY <1>1, <1>2, EarnedStays DEF PromotionOK
<1>6. CASE LoadBenchmarkSummary
  <2>1. UNCHANGED disk
    BY <1>6 DEF LoadBenchmarkSummary
  <2>2. reader'.pc \in {"rows", "reject"}
    <3>1. CASE reader' = [reader EXCEPT !.pc = "reject"]
      BY <1>1, <3>1 DEF RecordsOK
    <3>2. ASSUME NEW summary, reader' = [reader EXCEPT !.pc = "rows", !.summary = summary]
          PROVE  reader'.pc = "rows"
      BY <1>1, <3>2 DEF RecordsOK
    <3> QED
      BY <1>6, <3>1, <3>2 DEF LoadBenchmarkSummary
  <2> QED
    BY <1>2, <2>1, <2>2, QuietReader
<1>7. CASE LoadBenchmarkRows
  <2>1. UNCHANGED disk
    BY <1>7 DEF LoadBenchmarkRows
  <2> DEFINE table == disk.results
             measured == MeasuredRows(table)
  <2>2. ASSUME table # NoTable, RowsAreValid(table, "required", TRUE),
               Errors(measured) = {}, EligibleProfiles(measured) # {},
               reader' = [reader EXCEPT !.pc = "preflight", !.table = table]
        PROVE  PromotionOK'
    <3>1. IsExport(table, identity, rows)
      BY <1>1 DEF SelectionOK
    <3>2. table.plan = "required" /\ Completed(table) = Ordinals
      BY <2>2 DEF RowsAreValid, PlanCases, Ordinals
    <3>3. identity = "required"
      BY <2>2, <3>1, <3>2 DEF IsExport
    <3>4. Present = Ordinals /\ measured = AllRows
      BY <1>1, <3>1, <3>2, CompleteTable
    <3>5. BestProfile(measured) \in EligibleProfiles(measured)
      <4> HIDE DEF measured
      <4> QED
        BY <1>1, <2>2, <3>4, BestIsEligible
    <3>6. Deserves(BestProfile(measured))
      BY <1>1, <2>2, <3>1, <3>2, <3>5, EligibleAreEarned
    <3>7. PICK best : best = BestProfile(measured) /\ Deserves(best)
      BY <3>6
    <3>8. reader'.table = table
      BY <1>1, <2>2 DEF RecordsOK
    <3>9. Staged' = best
      BY <1>2, <2>1, <3>7, <3>8 DEF Staged, MeasuredRows, Setup
    <3>10. Deserves(best)'
      BY <3>7, EarnedStays
    <3> QED
      BY <1>2, <1>4, <2>1, <3>3, <3>9, <3>10 DEF PromotionOK
  <2>3. ASSUME NEW pc \in {"reject", "norelease"}, reader' = [reader EXCEPT !.pc = pc]
        PROVE  PromotionOK'
    <3>1. reader'.pc = pc
      BY <1>1, <2>3 DEF RecordsOK
    <3> QED
      BY <1>2, <2>1, <3>1, QuietReader
  <2>4. PromotionOK'
    BY <1>7, <2>2, <2>3 DEF LoadBenchmarkRows
  <2> QED
    BY <1>3, <2>1, <2>4
<1>8. CASE RejectEvidence \/ RemoveFailedRelease \/ CleanUpRelease
  <2>1. /\ disk'.results = disk.results /\ disk'.selection = disk.selection
        /\ disk'.release \in {Null, disk.release}
    <3>1. disk' = [disk EXCEPT !.release = Null] \/ disk' = disk
      BY <1>8 DEF RejectEvidence, RemoveFailedRelease, CleanUpRelease, RemoveRelease
    <3> QED
      BY <1>1, <3>1 DEF RecordsOK
  <2>2. reader'.pc \in {"idle", "noreport", "unreport"}
    BY <1>1, <1>8 DEF RejectEvidence, RemoveFailedRelease, CleanUpRelease, RecordsOK,
       IdleReader
  <2> QED
    BY <1>2, <2>1, <2>2, QuietReader
<1>9. CASE ReportNoRelease \/ CleanUpReport
  <2>1. /\ disk'.results = disk.results /\ disk'.selection = disk.selection
        /\ disk'.release \in {Null, disk.release}
    <3>1. ASSUME NEW report, disk' = [disk EXCEPT !.report = report]
          PROVE  /\ disk'.results = disk.results /\ disk'.selection = disk.selection
                 /\ disk'.release = disk.release
      BY <1>1, <3>1 DEF RecordsOK
    <3>2. CASE RemoveRelease
      <4>1. disk' = [disk EXCEPT !.release = Null] \/ disk' = disk
        BY <3>2 DEF RemoveRelease
      <4> QED
        BY <1>1, <4>1 DEF RecordsOK
    <3>3. CASE disk' = disk
      BY <3>3
    <3> QED
      BY <1>9, <3>1, <3>2, <3>3 DEF ReportNoRelease, CleanUpReport
  <2>2. reader' = IdleReader
    BY <1>9, Zenon DEF ReportNoRelease, CleanUpReport
  <2> QED
    BY <1>2, <2>1, <2>2, QuietReader DEF IdleReader
<1>10. CASE PreflightRelease \/ WriteReport
  <2>1. reader.pc \in {"preflight", "report"}
    BY <1>10 DEF PreflightRelease, WriteReport, ReaderAt
  <2>2. Staged' = Staged
    <3>1. reader'.table = reader.table
      BY <1>1, <1>10 DEF PreflightRelease, WriteReport, RecordsOK
    <3> QED
      BY <1>2, <3>1, StagedStays
  <2>3. /\ disk'.results = disk.results /\ disk'.selection = disk.selection
        /\ disk'.release = disk.release
    BY <1>1, <1>10 DEF PreflightRelease, WriteReport, RecordsOK
  <2> QED
    BY <1>3, <1>4, <1>5, <2>1, <2>2, <2>3 DEF PromotionOK
<1>11. CASE PublishRelease
  <2>1. reader.pc = "publish"
    BY <1>11 DEF PublishRelease, ReaderAt
  <2>2. CASE UNCHANGED disk /\ reader' = [reader EXCEPT !.pc = "cleanup"]
    <3>1. reader'.pc = "cleanup"
      BY <1>1, <2>2 DEF RecordsOK
    <3> QED
      BY <1>2, <2>2, <3>1, QuietReader
  <2>3. CASE disk' = [disk EXCEPT !.release = Staged]
    <3>1. /\ disk'.results = disk.results /\ disk'.selection = disk.selection
          /\ disk'.release = Staged
      BY <1>1, <2>3 DEF RecordsOK
    <3>2. reader'.pc \in {"idle", "cleanup"}
      <4>1. reader' = IdleReader \/ reader' = [reader EXCEPT !.pc = "cleanup"]
        BY <1>11, Zenon DEF PublishRelease
      <4> QED
        BY <1>1, <4>1 DEF RecordsOK, IdleReader
    <3>3. PromotionOK'
      BY <1>5, <2>1, <2>3, <3>1, <3>2 DEF PromotionOK
    <3> QED
      BY <1>3, <3>1, <3>3
  <2> QED
    BY <1>11, <2>2, <2>3 DEF PublishRelease
<1> QED
  BY <1>6, <1>7, <1>8, <1>9, <1>10, <1>11 DEF PromoteProfile

LEMMA EarnedInvPreserved == EarnedInv /\ [Next]_vars => EarnedInv'
<1> SUFFICES ASSUME EarnedInv, [Next]_vars PROVE EarnedInv'
  OBVIOUS
<1>1. ReleaseInv' /\ SettingOK' /\ CheckpointOK' /\ Standing
  BY CheckpointStays, ReleaseInvPreserved DEF EarnedInv
<1>2. ASSUME NEW p \in Runners, Run(p) PROVE RunnersOK' /\ SelectionOK' /\ PromotionOK'
  BY <1>1, <1>2, RunKeepsInv, RunKeepsPromotion
<1>3. CASE StartRead \/ CrashRead \/ LoadSelection
  BY <1>1, <1>3, LoaderKeepsInv DEF EarnedInv
<1>4. CASE PromoteProfile
  BY <1>1, <1>4, ScriptKeepsEarned DEF EarnedInv
<1>5. CASE UNCHANGED vars
  <2>1. Staged' = Staged /\ \A c : Deserves(c) => Deserves(c)'
    BY <1>1, <1>5, StagedStays, EarnedStays DEF vars
  <2>2. RunnersOK'
    <3>1. \A r \in {runner[p] : p \in Runners} : RunnerOK(r)'
      BY <1>1, RunnerStays DEF EarnedInv, RunnersOK
    <3> QED
      BY <1>5, <3>1 DEF EarnedInv, RunnersOK, vars
  <2>3. SelectionOK'
    BY <1>5, <2>1 DEF EarnedInv, SelectionOK, SelectionIsEarned, vars
  <2>4. PromotionOK'
    BY <1>5, <2>1 DEF EarnedInv, PromotionOK, vars
  <2> QED
    BY <1>1, <2>2, <2>3, <2>4 DEF EarnedInv
<1> QED
  BY <1>1, <1>2, <1>3, <1>4, <1>5 DEF Next, EarnedInv

LEMMA EarnedInvInit == Init => EarnedInv
<1> SUFFICES ASSUME Init PROVE EarnedInv
  OBVIOUS
<1>1. PICK setting \in Settings :
          /\ version = setting.version /\ world = setting.world
          /\ disk = [results |-> NoTable, csv |-> NoTable,
                     summary |-> NoSummary, selection |-> NoSelection,
                     release |-> setting.old, report |-> setting.old]
  BY DEF Init
<1>2. SettingOK
  BY <1>1 DEF SettingOK
<1>3. CheckpointOK
  BY PipelineAssumption DEF Init, CheckpointOK, NoRows
<1>4. ReleaseInv
  BY DEF Init, ReleaseInv, RecordsOK, InPlace, ReaderAt, IdleReader
<1>5. RunnersOK
  <2>1. runner = [p \in Runners |-> IdleRunner]
    BY DEF Init
  <2> QED
    BY <2>1, IdleIsOK DEF RunnersOK
<1>6. SelectionOK
  <2>1. disk.results = NoTable /\ disk.selection = NoSelection
    BY <1>1
  <2>2. disk.selection.ids = {}
    BY <2>1 DEF NoSelection, EmptySelection, Selection
  <2>3. accepted = {}
    BY DEF Init
  <2> QED
    BY <2>1, <2>2, <2>3 DEF SelectionOK, SelectionIsEarned, IsExport
<1>7. PromotionOK
  <2>1. disk.release \notin Candidates
    BY <1>1, PipelineAssumption
  <2>2. reader.pc = "idle"
    BY DEF Init, IdleReader
  <2> QED
    BY <2>1, <2>2 DEF PromotionOK
<1> QED
  BY <1>2, <1>3, <1>4, <1>5, <1>6, <1>7 DEF EarnedInv

\* Whatever runs collide, resume, abort or leave half-written files, a selection
\* that is on disk, and one the loader has accepted, names only candidates that
\* survive the attacks on as many pages as the gates ask for and are good
\* enough, as the pages themselves show it.
THEOREM SelectionsAreEarned == Spec => []SelectionIsEarned
<1>1. EarnedInv => SelectionIsEarned
  BY DEF EarnedInv, SelectionOK
<1> QED
  BY <1>1, EarnedInvInit, EarnedInvPreserved, PTL DEF Spec

\* A release the promotion script has published names a candidate that the
\* required benchmark of this very directory has earned, though the script
\* trusts files that others may replace between its reads.
THEOREM ReleasesAreEarned == Spec => []ReleaseIsEarned
<1>1. EarnedInv => ReleaseIsEarned
  BY DEF EarnedInv, PromotionOK, ReleaseIsEarned
<1> QED
  BY <1>1, EarnedInvInit, EarnedInvPreserved, PTL DEF Spec
-----------------------------------------------------------------------------
(* The decoders.                                                           *)

\* Whatever two candidates of two and three tiles read, with whichever
\* identifiers there are, a later decoder names what its predecessor names or
\* nobody; LaterDecodersRefuse says it of any finite evidence.
THEOREM DecodersRefuse == Spec => []DecodersOnlyRefuse
<1>1. ASSUME NEW found \in TwoCandidates
      PROVE  IsEvidence(found) /\ DOMAIN found = {"narrow", "wide"}
  <2>1. DOMAIN found = {"narrow", "wide"}
        /\ DOMAIN found["narrow"] = 1..2 /\ DOMAIN found["wide"] = 1..3
    BY DEF TwoCandidates
  <2>2. IsFiniteSet({"narrow", "wide"})
    <3>1. IsFiniteSet({"narrow"}) /\ IsFiniteSet({"wide"})
      BY FS_Singleton
    <3>2. IsFiniteSet({"narrow"} \union {"wide"})
      BY <3>1, FS_Union
    <3>3. {"narrow", "wide"} = {"narrow"} \union {"wide"}
      OBVIOUS
    <3> QED
      BY <3>2, <3>3
  <2>3. IsFiniteSet(1..2) /\ IsFiniteSet(1..3) /\ 1..2 # {} /\ 1..3 # {}
    <3>1. \A n \in Int : IsFiniteSet(1..n)
      BY FS_Interval
    <3>2. 2 \in Int /\ 3 \in Int /\ 1..2 # {} /\ 1..3 # {}
      OBVIOUS
    <3> QED
      BY <3>1, <3>2, Zenon
  <2>4. ASSUME NEW c \in {"narrow", "wide"}
        PROVE  IsFiniteSet(DOMAIN found[c]) /\ DOMAIN found[c] # {}
    <3>1. CASE c = "narrow"
      BY <2>1, <2>3, <3>1
    <3>2. CASE c = "wide"
      BY <2>1, <2>3, <3>2
    <3> QED
      BY <3>1, <3>2
  <2> QED
    BY <2>1, <2>2, <2>4, Zenon DEF IsEvidence
<1>2. ASSUME NEW s \in ExtraVotes
      PROVE  IsFiniteSet(s) /\ \A v \in s : v.id \in Ids /\ v.candidate = "wide"
  <2>1. CASE s = {}
    BY <2>1, FS_EmptySet
  <2>2. ASSUME NEW v, s = {v}, v.id \in Ids, v.candidate = "wide"
        PROVE  IsFiniteSet(s) /\ \A w \in s : w.id \in Ids /\ w.candidate = "wide"
    BY <2>2, FS_Singleton
  <2>3. s = {} \/ \E v : s = {v} /\ v.id \in Ids /\ v.candidate = "wide"
    BY DEF ExtraVotes
  <2> QED
    BY <2>1, <2>2, <2>3
<1>3. LaterDecodersOnlyRefuse(TwoCandidates, ExtraVotes)
  BY <1>1, <1>2, LaterDecodersRefuse
<1>4. DecodersOnlyRefuse
  BY <1>3 DEF DecodersOnlyRefuse
<1> QED
  BY <1>4, PTL

\* On pages with any two pilot fits, any ORB fit and a library error at any
\* stage, the ORB template costs no alignment but by an error of its own
\* estimation; TemplateNeverHides says it of any page.
THEOREM TemplateHelps == Spec => []TemplateOnlyHelps
<1>1. ASSUME NEW scores \in SUBSET Int, NEW h \in Fits(scores) PROVE IsHypothesis(h)
  BY DEF Fits, Fit, IsHypothesis
<1>2. ASSUME NEW page \in SomePages, NEW h \in page.peaks \union page.orb
      PROVE  IsHypothesis(h)
  <2>1. h \in Fits({-10, 40, 80}) \/ h \in Fits({0})
    BY DEF SomePages
  <2> QED
    BY <1>1, <2>1
<1>3. OrbCostsOnlyItsError(SomePages)
  BY <1>2, TemplateNeverHides
<1>4. TemplateOnlyHelps
  BY <1>3 DEF TemplateOnlyHelps
<1> QED
  BY <1>4, PTL
-----------------------------------------------------------------------------
(* The rows.                                                               *)

\* What a page may read, whatever the attack and the deviation.
LEMMA PageFacts ==
    ASSUME NEW w, NEW case
    PROVE  LET page == AttackedPage(w, case)
           IN  /\ DOMAIN page.reads = Tiles
               /\ \A t \in Tiles : /\ page.reads[t] \in {"own", "other", "crc", "none"}
                                   /\ page.spread[t] \subseteq {"other"}
               /\ \E h : h.score \in Int /\ page.peaks \subseteq {h}
<1> DEFINE page == AttackedPage(w, case)
           read == TileReads(w, case)
           how == HowDeviant(w, case)
           place == PlaceAfter(case.attack)
           fit == IF how = "rejected" THEN Fit(place, 80, {"similarity"})
                  ELSE IF how = "anticorrelated" THEN Fit(place, -10, {})
                  ELSE Fit(place, 80, {})
<1>1. /\ DOMAIN read = Tiles
      /\ \A t \in Tiles : read[t] \in {"own", "other", "crc", "none"}
  BY DEF TileReads, EmbedFingerprint
<1>2. /\ page.reads = read
      /\ page.spread = [t \in Tiles |-> IF how = "spread" THEN {"other"} ELSE {}]
      /\ page.peaks \subseteq {fit}
  <2> HIDE DEF read, place
  <2> QED
    BY DEF AttackedPage, read, place
<1>3. fit.score \in Int
  BY DEF Fit
<1> HIDE DEF page, read, how, fit
<1>4. \A t \in Tiles : page.spread[t] \subseteq {"other"}
  BY <1>2
<1> QED
  BY <1>1, <1>2, <1>3, <1>4 DEF page

\* Wherever the receiver looks for the tiles.
LEMMA TileFacts ==
    ASSUME NEW w, NEW case, NEW at
    PROVE  LET found == ExtractTiles(AttackedPage(w, case), at)
           IN  /\ DOMAIN found = Tiles
               /\ \A t \in Tiles : found[t] \in {"own", "other", "crc", "none"}
<1> DEFINE page == AttackedPage(w, case)
<1>1. DOMAIN page.reads = Tiles
      /\ \A t \in Tiles : page.reads[t] \in {"own", "other", "crc", "none"}
  BY PageFacts
<1> HIDE DEF page
<1>2. DOMAIN ExtractTiles(page, at) = Tiles
      /\ \A t \in Tiles : ExtractTiles(page, at)[t] \in {"own", "other", "crc", "none"}
  BY <1>1 DEF ExtractTiles
<1> QED
  BY <1>2 DEF page

LEMMA TilesAreCounted ==
    IsFiniteSet(Tiles) /\ Cardinality(Tiles) = Repetitions /\ Tiles # {}
<1>1. Repetitions \in Nat \ {0, 1}
  BY EvidenceAssumption
<1>2. IsFiniteSet(1..Repetitions) /\ Cardinality(1..Repetitions) = Repetitions
  BY <1>1, FS_Interval
<1>3. 1 \in Tiles
  BY <1>1 DEF Tiles
<1> QED
  BY <1>2, <1>3 DEF Tiles

LEMMA DecodedByV1 ==
    ASSUME NEW page, NEW template
    PROVE  DecodeFingerprint(page, template).reason
              \in {"decoded", "partial", "not_detected", "invalid_crc"}
<1>1. ASSUME NEW found
      PROVE  SoftVote(found).reason \in {"decoded", "partial", "not_detected", "invalid_crc"}
  <2>1. \A g : DecisionOfGroup(found, g, NoId, "partial").reason = "partial"
    BY DEF DecisionOfGroup, Decision
  <2>2. NoValidVote(found).reason \in {"not_detected", "invalid_crc"}
    BY DEF NoValidVote, Decision
  <2>3. \A groups : DecideEligible(found, groups).reason \in {"decoded", "partial"}
    BY Zenon DEF DecideEligible, Decision
  <2> QED
    BY <2>1, <2>2, <2>3 DEF SoftVote
<1> QED
  BY <1>1, Zenon DEF DecodeFingerprint

LEMMA DecodedByV2 ==
    ASSUME NEW w, NEW case,
           AlignPageV2(AttackedPage(w, case), FALSE).reason # "runtime_error"
    PROVE  LET decision == DecodeFingerprintV2(AttackedPage(w, case))
           IN  /\ IsMeasured(decision, {"partial_payload_evidence"}, Repetitions)
               /\ decision.reason \in
                     {"decoded", "partial_payload_evidence", "payload_not_detected",
                      "insufficient_sync_evidence", "geometry_rejected"}
<1> DEFINE page == AttackedPage(w, case)
           alignment == AlignPageV2(page, FALSE)
           decision == DecodeFingerprintV2(page)
           found == [c \in {"candidate"} |-> ExtractTiles(page, alignment.winner.at)]
<1>1. /\ alignment.score \in Int
      /\ alignment.reason \in {"aligned", "insufficient_sync_evidence", "geometry_rejected"}
  <2> DEFINE pilots == PilotHypotheses(page)
             strong == {h \in pilots : h.score >= PilotScoreMin}
             safe == {h \in strong : GeometryIsAcceptableV2(h)}
             Highest(s) == CHOOSE h \in s : \A g \in s : g.score <= h.score
  <2>1. PICK fit : fit.score \in Int /\ page.peaks \subseteq {fit}
    BY PageFacts
  <2>2. pilots \subseteq {fit}
    BY <2>1 DEF PilotHypotheses, SuppressNeighbours, RefinedPeaks
  <2>3. ASSUME NEW s, s \subseteq {fit}, s # {} PROVE Highest(s).score \in Int
    <3>1. s = {fit}
      BY <2>3
    <3>2. Highest(s) \in s
      BY <2>1, <3>1
    <3> QED
      BY <2>1, <3>1, <3>2
  <2> HIDE DEF pilots
  <2>4. alignment = SelectAlignment(pilots, {})
    BY DEF AlignPageV2, RuntimeError, pilots
  <2>5. safe \subseteq {fit} /\ strong \union {} = strong /\ safe \union {} = safe
    BY <2>2
  <2> DEFINE best == IF pilots = {} THEN 0 ELSE Highest(pilots).score
             winner == ChooseWinner(safe, {})
  <2>6. best \in Int
    BY <2>2, <2>3
  <2>7. safe # {} => winner.score \in Int
    <3>1. safe # {} => winner = Highest(safe)
      BY DEF ChooseWinner
    <3> HIDE DEF safe, Highest
    <3> QED
      BY <2>3, <2>5, <3>1
  <2>8. SelectAlignment(pilots, {}) =
          IF strong = {}
          THEN [reason |-> "insufficient_sync_evidence", winner |-> NoHypothesis, score |-> best]
          ELSE IF safe = {}
          THEN [reason |-> "geometry_rejected", winner |-> NoHypothesis, score |-> 0]
          ELSE [reason |-> "aligned", winner |-> winner, score |-> winner.score]
    BY <2>5 DEF SelectAlignment
  <2> HIDE DEF best, winner, safe, strong, alignment
  <2>9. CASE strong = {}
    BY <2>4, <2>6, <2>8, <2>9
  <2>10. CASE strong # {} /\ safe = {}
    BY <2>4, <2>8, <2>10
  <2>11. CASE strong # {} /\ safe # {}
    BY <2>4, <2>7, <2>8, <2>11
  <2> QED
    BY <2>9, <2>10, <2>11
<1> HIDE DEF alignment
<1>2. Clip(alignment.score) \in Int /\ Clip(alignment.score) <= 100
  BY <1>1, ClipRange
<1>3. CASE alignment.reason # "aligned"
  <2>1. decision = Decision(NoId, Clip(alignment.score), 0, FALSE, alignment.reason)
    BY <1>3 DEF DecodeFingerprintV2, DecodeAlignedV2, alignment
  <2>2. decision.reason = alignment.reason
    BY <2>1 DEF Decision
  <2>3. alignment.reason \notin {"partial_payload_evidence"} \union {"decoded"}
    BY <1>1
  <2>4. Repetitions \in Nat
    BY EvidenceAssumption
  <2> HIDE DEF decision
  <2> QED
    BY <1>1, <1>2, <1>3, <2>1, <2>2, <2>3, <2>4, NothingIsMeasured DEF decision
<1>4. CASE alignment.reason = "aligned"
  <2>1. decision = DecidePayloadVotes(found, Clip(alignment.score))
    BY <1>4 DEF DecodeFingerprintV2, DecodeAlignedV2, alignment
  <2>2. /\ DOMAIN found = {"candidate"}
        /\ \A c \in DOMAIN found : DOMAIN found[c] = Tiles
    BY TileFacts
  <2> HIDE DEF found, decision
  <2>3. IsEvidence(found) /\ \A c \in DOMAIN found : Cardinality(DOMAIN found[c]) <= Repetitions
    <3>1. IsFiniteSet(DOMAIN found)
      BY <2>2, FS_Singleton
    <3>2. Repetitions <= Repetitions
      BY EvidenceAssumption
    <3> QED
      BY <2>2, <3>1, <3>2, TilesAreCounted DEF IsEvidence
  <2>4. Repetitions \in Nat
    BY EvidenceAssumption
  <2> QED
    BY <1>2, <2>1, <2>3, <2>4, PayloadVotesMeasure DEF decision
<1> QED
  BY <1>3, <1>4

LEMMA DecodedByV3 ==
    ASSUME NEW w, NEW case, NEW template,
           SearchGeometryV3(AttackedPage(w, case), template).reason # "runtime_error"
    PROVE  LET decision == DecodeFingerprintV3(AttackedPage(w, case), template)
           IN  /\ IsMeasured(decision, {"partial_payload_evidence",
                                        "conflicting_payload_evidence"}, Repetitions)
               /\ decision.confidence >= 0
               /\ decision.reason \in
                     {"decoded", "partial_payload_evidence", "conflicting_payload_evidence",
                      "payload_not_detected", "insufficient_sync_evidence", "geometry_rejected"}
<1> DEFINE page == AttackedPage(w, case)
           search == SearchGeometryV3(page, template)
           decision == DecodeFingerprintV3(page, template)
           payload == {"partial_payload_evidence", "conflicting_payload_evidence"}
<1>1. Repetitions \in Nat \ {0}
  BY EvidenceAssumption
<1>2. CASE search.places = <<>>
  <2> DEFINE reason == IF search.reason \in {"geometry_rejected", "runtime_error"}
                       THEN search.reason ELSE "insufficient_sync_evidence"
  <2>1. decision = Decision(NoId, 0, 0, FALSE, reason)
    <3> HIDE DEF search
    <3> QED
      BY <1>2, Zenon DEF DecodeFingerprintV3, DecodeSearchedV3, search
  <2>2. reason \notin payload \union {"decoded"}
        /\ reason \in {"insufficient_sync_evidence", "geometry_rejected"}
    BY Zenon
  <2> HIDE DEF reason, decision, payload
  <2>3. 0 \in Int /\ 0 <= 100 /\ Repetitions \in Nat
    BY <1>1
  <2>4. IsMeasured(decision, payload, Repetitions)
    BY <2>1, <2>2, <2>3, NothingIsMeasured, Zenon
  <2>5. decision.reason = reason /\ decision.confidence = 0
    BY <2>1 DEF Decision
  <2> QED
    BY <2>2, <2>4, <2>5 DEF decision, payload
<1>3. CASE search.places # <<>>
  <2> DEFINE votes == UNION {VotesAt(page, search.places[k]) : k \in DOMAIN search.places}
             repetitions == [c \in {"candidate"} |-> Cardinality(DOMAIN page.reads)]
             Vote == [candidate : {"candidate"}, tile : Tiles, id : {"own", "other"}]
  <2>1. decision = DecidePayloadVotesV3(votes, repetitions, 100)
    <3> HIDE DEF search
    <3> QED
      BY <1>3, Zenon DEF DecodeFingerprintV3, DecodeSearchedV3, search
  <2>2. ASSUME NEW at PROVE VotesAt(page, at) \subseteq Vote
    <3>1. /\ DOMAIN page.reads = Tiles
          /\ \A t \in Tiles : page.spread[t] \subseteq {"other"}
      BY PageFacts
    <3>2. \A t \in Tiles : ExtractTiles(page, at)[t] \in {"own", "other", "crc", "none"}
      BY TileFacts
    <3>3. "crc" \notin Ids /\ "none" \notin Ids
      BY IdsAssumption
    <3> HIDE DEF page
    <3>4. ASSUME NEW v \in VotesAt(page, at) PROVE v \in Vote
      <4>1. PICK t \in Tiles : v \in
               {[candidate |-> "candidate", tile |-> t, id |-> x] :
                   x \in Ids \intersect
                     ({ExtractTiles(page, at)[t]} \union
                      (IF at = page.place THEN page.spread[t] ELSE {}))}
        BY <3>1 DEF VotesAt
      <4>2. PICK x \in Ids \intersect
                     ({ExtractTiles(page, at)[t]} \union
                      (IF at = page.place THEN page.spread[t] ELSE {})) :
                  v = [candidate |-> "candidate", tile |-> t, id |-> x]
        BY <4>1
      <4>3. x \in {"own", "other"}
        BY <3>1, <3>2, <3>3, <4>2
      <4> QED
        BY <4>2, <4>3
    <3> QED
      BY <3>4
  <2>3. votes \subseteq Vote
    BY <2>2
  <2>4. IsFiniteSet(Vote)
    <3> DEFINE pairs == Tiles \X {"own", "other"}
               f == [p \in pairs |-> [candidate |-> "candidate", tile |-> p[1], id |-> p[2]]]
    <3>1. f \in Surjection(pairs, Vote)
      <4>1. \A p \in pairs : f[p] \in Vote
        OBVIOUS
      <4>2. ASSUME NEW v \in Vote PROVE \E p \in pairs : f[p] = v
        <5>1. v = [candidate |-> "candidate", tile |-> v.tile, id |-> v.id]
          OBVIOUS
        <5>2. <<v.tile, v.id>> \in pairs
          OBVIOUS
        <5>3. f[<<v.tile, v.id>>] = v
          BY <5>1, <5>2
        <5> QED
          BY <5>2, <5>3
      <4> QED
        BY <4>1, <4>2 DEF Surjection
    <3>2. IsFiniteSet({"own", "other"})
      <4>1. IsFiniteSet({"own"}) /\ IsFiniteSet({"other"})
        BY FS_Singleton
      <4>2. IsFiniteSet({"own"} \union {"other"})
        BY <4>1, FS_Union
      <4>3. {"own", "other"} = {"own"} \union {"other"}
        OBVIOUS
      <4> QED
        BY <4>2, <4>3
    <3>3. IsFiniteSet(pairs)
      BY <3>2, TilesAreCounted, FS_Product
    <3> HIDE DEF f, pairs, Vote
    <3> QED
      BY <3>1, <3>3, FS_Surjection
  <2>5. repetitions["candidate"] = Repetitions
    BY PageFacts, TilesAreCounted
  <2> HIDE DEF votes, repetitions, page
  <2>6. IsFiniteSet(votes)
    <3> HIDE DEF Vote
    <3> QED
      BY <2>3, <2>4, FS_Subset
  <2>7. ASSUME NEW v \in votes
        PROVE  v.id \in Ids /\ v.tile \in Tiles /\ repetitions[v.candidate] = Repetitions
    <3>1. {"own", "other"} \subseteq Ids
      BY EvidenceAssumption
    <3> QED
      BY <2>3, <2>5, <3>1
  <2>8. ASSUME NEW g PROVE TileSupport(votes, g) <= Repetitions
    <3> DEFINE tiles == {v.tile : v \in {x \in votes : x.candidate = g[1] /\ x.id = g[2]}}
    <3>1. tiles \subseteq Tiles
      BY <2>7
    <3> HIDE DEF tiles
    <3>2. Cardinality(tiles) <= Cardinality(Tiles)
      BY <3>1, TilesAreCounted, FS_Subset
    <3> QED
      BY <3>2, TilesAreCounted DEF TileSupport, tiles
  <2> HIDE DEF Vote, decision
  <2>9. 100 \in 0..100
    OBVIOUS
  <2>10. /\ \A v \in votes : v.id \in Ids
         /\ \A v \in votes : repetitions[v.candidate] = Repetitions
         /\ \A v \in votes : TileSupport(votes, <<v.candidate, v.id>>) <= Repetitions
    BY <2>7, <2>8
  <2>11. LET made == DecidePayloadVotesV3(votes, repetitions, 100)
         IN  /\ IsMeasured(made, {"partial_payload_evidence",
                                  "conflicting_payload_evidence"}, Repetitions)
             /\ made.confidence >= 0
             /\ made.reason \in
                  {"decoded", "partial_payload_evidence", "conflicting_payload_evidence",
                   "payload_not_detected"}
    BY <1>1, <2>6, <2>9, <2>10, PayloadVotesMeasureV3, Zenon
  <2>12. /\ IsMeasured(decision, {"partial_payload_evidence",
                                   "conflicting_payload_evidence"}, Repetitions)
         /\ decision.confidence >= 0
         /\ decision.reason \in
               {"decoded", "partial_payload_evidence", "conflicting_payload_evidence",
                "payload_not_detected"}
    BY <2>1, <2>11, Zenon
  <2>13. decision.reason \in
               {"decoded", "partial_payload_evidence", "conflicting_payload_evidence",
                "payload_not_detected", "insufficient_sync_evidence", "geometry_rejected"}
    BY <2>12
  <2> QED
    BY <2>12, <2>13, Zenon DEF decision, page
<1> QED
  BY <1>2, <1>3
\* How a pre-gate's case may fail, and what is recorded of one that failed.
LEMMA ErrorFacts ==
    ASSUME NEW v, NEW w, NEW case, NEW cell
    PROVE  /\ ErrorOf(v, w, case, cell) \in {"none", "embedding", "attack", "decode"}
           /\ ErrorOf(v, w, case, cell) = "none" => ~AlignmentRaises(v, w, case)
<1>1. ErrorOf(v, w, case, cell) \in {"none", "embedding", "attack", "decode"}
  BY Zenon DEF ErrorOf
<1>2. ErrorOf(v, w, case, cell) = "none" => ~AlignmentRaises(v, w, case)
  BY SMT DEF ErrorOf
<1> QED
  BY <1>1, <1>2

LEMMA UndecidedFacts ==
    ASSUME NEW v
    PROVE  LET decision == UndecidedDecision(v)
           IN  /\ decision.id = NoId /\ decision.confidence = 0
               /\ decision.votes = 0 /\ decision.ber = FALSE
               /\ decision.reason \in {"not_detected", "insufficient_sync_evidence"}
               /\ v # 1 => decision.reason = "insufficient_sync_evidence"
<1> DEFINE reason == IF v = 1 THEN "not_detected" ELSE "insufficient_sync_evidence"
<1>1. UndecidedDecision(v) = [id |-> NoId, confidence |-> 0, votes |-> 0, ber |-> FALSE,
                              reason |-> reason]
  BY DEF UndecidedDecision, Decision
<1>2. reason \in {"not_detected", "insufficient_sync_evidence"}
      /\ (v # 1 => reason = "insufficient_sync_evidence")
  OBVIOUS
<1> HIDE DEF reason
<1> QED
  BY <1>1, <1>2

\* The fields of a row that its readers look at.
LEMMA RowFields ==
    ASSUME NEW v, NEW w, NEW case, NEW cell, NEW error, NEW decision
    PROVE  LET row       == MakeRow(v, w, case, cell, error, decision)
               reason    == MetricReason(decision.reason)
               artifact  == error \in {"none", "decode"}
               retained  == IF artifact THEN HasCrop(case.attack) ELSE PlannedCrop(v, case)
               remaining == IF retained /\ IsPositive(case)
                            THEN RemainingTiles(w, case.attack) ELSE NoCount
           IN  /\ row.case = case /\ row.expected = ExpectedId(case)
               /\ row.decoded = decision.id /\ row.confidence = decision.confidence
               /\ row.ber = decision.ber /\ row.votes = decision.votes
               /\ row.reason = IF error = "none" THEN reason ELSE "execution_error"
               /\ row.status = IF error = "none" THEN decision.reason ELSE "execution_error"
               /\ row.outcome = Outcome(ExpectedId(case), decision.id, reason, error # "none")
               /\ row.quality = Quality(v, w, case)
               /\ row.remaining = remaining
               /\ row.eligible = IsEligible(remaining)
               /\ row.why = EligibilityReason(remaining)
               /\ row.truth = IF artifact THEN "attacked" ELSE "canvas"
               /\ row.removed = IF artifact THEN IF HasCrop(case.attack) THEN "crop" ELSE "nothing"
                                ELSE IF PlannedCrop(v, case) THEN "crop" ELSE Null
               /\ row.limitation = CASE error = "none"      -> "none"
                                     [] error = "embedding" -> "embedding"
                                     [] OTHER               -> "other"
  BY DEF MakeRow

\* The rows of the V2 and V3 pre-gates: nothing but a negative confidence is
\* refused.
LEMMA PregateRows ==
    ASSUME NEW v \in {2, 3}, NEW w, w.left \in 0..Repetitions,
           NEW case, HasCrop(case.attack) => case.attack = "crop", NEW cell,
           NEW error \in {"none", "embedding", "attack", "decode"}, NEW decision,
           error # "none" => decision = UndecidedDecision(v),
           error = "none" =>
              IF v = 2
              THEN /\ IsMeasured(decision, {"partial_payload_evidence"}, Repetitions)
                   /\ decision.reason \in
                        {"decoded", "partial_payload_evidence", "payload_not_detected",
                         "insufficient_sync_evidence", "geometry_rejected"}
              ELSE /\ IsMeasured(decision, {"partial_payload_evidence",
                                            "conflicting_payload_evidence"}, Repetitions)
                   /\ decision.confidence >= 0
                   /\ decision.reason \in
                        {"decoded", "partial_payload_evidence", "conflicting_payload_evidence",
                         "payload_not_detected", "insufficient_sync_evidence",
                         "geometry_rejected"}
    PROVE  LET row == MakeRow(v, w, case, cell, error, decision)
           IN  RowIsValid(v, w, row) <=> ~(v = 2 /\ row.confidence < 0)
<1> DEFINE row == MakeRow(v, w, case, cell, error, decision)
           reason == MetricReason(decision.reason)
           artifact == error \in {"none", "decode"}
           remaining == IF HasCrop(case.attack) /\ IsPositive(case)
                        THEN RemainingTiles(w, case.attack) ELSE NoCount
<1>1. HasCrop(case.attack) <=> case.attack = "crop"
  BY DEF HasCrop
<1>2. PlannedCrop(v, case) <=> IsPositive(case) /\ case.attack = "crop"
  BY DEF PlannedCrop
<1>3. /\ row.case = case /\ row.expected = ExpectedId(case)
      /\ row.decoded = decision.id /\ row.confidence = decision.confidence
      /\ row.ber = decision.ber /\ row.votes = decision.votes
      /\ row.reason = IF error = "none" THEN reason ELSE "execution_error"
      /\ row.status = IF error = "none" THEN decision.reason ELSE "execution_error"
      /\ row.outcome = Outcome(ExpectedId(case), decision.id, reason, error # "none")
      /\ row.quality = Quality(v, w, case)
      /\ row.truth = IF artifact THEN "attacked" ELSE "canvas"
      /\ row.removed = IF artifact THEN IF HasCrop(case.attack) THEN "crop" ELSE "nothing"
                       ELSE IF PlannedCrop(v, case) THEN "crop" ELSE Null
      /\ row.limitation = IF error = "none" THEN "none"
                          ELSE IF error = "embedding" THEN "embedding" ELSE "other"
  <2> HIDE DEF row, reason
  <2> QED
    BY RowFields DEF row, reason
<1>4. EligibilityIs(row, remaining)
  <2> DEFINE retained == IF artifact THEN HasCrop(case.attack) ELSE PlannedCrop(v, case)
  <2>1. (IF retained /\ IsPositive(case) THEN RemainingTiles(w, case.attack) ELSE NoCount)
           = remaining
    BY <1>1, <1>2
  <2> HIDE DEF row, remaining
  <2>2. row.remaining = remaining /\ row.eligible = IsEligible(remaining)
        /\ row.why = EligibilityReason(remaining)
    BY <2>1, RowFields DEF row
  <2> QED
    BY <2>2 DEF EligibilityIs
<1> DEFINE statuses == {"decoded", "partial_payload_evidence", "conflicting_payload_evidence",
                        "payload_not_detected", "insufficient_sync_evidence",
                        "geometry_rejected"}
           payload == IF v = 2 THEN {"partial_payload_evidence"}
                      ELSE {"partial_payload_evidence", "conflicting_payload_evidence"}
\* Whether the case failed or not.
<1>5. /\ decision.reason \in statuses
      /\ decision.reason = "conflicting_payload_evidence" => v = 3
      /\ IsMeasured(decision, payload, Repetitions)
      /\ v = 3 => decision.confidence >= 0
      /\ error # "none" => /\ decision.id = NoId
                           /\ decision.reason = "insufficient_sync_evidence"
  <2>1. CASE error = "none"
    <3>1. CASE v = 2
      BY <2>1, <3>1
    <3>2. CASE v = 3
      <4>1. payload = {"partial_payload_evidence", "conflicting_payload_evidence"}
        BY <3>2
      <4>2. /\ IsMeasured(decision, {"partial_payload_evidence",
                                     "conflicting_payload_evidence"}, Repetitions)
            /\ decision.confidence >= 0 /\ decision.reason \in statuses
        BY <2>1, <3>2
      <4>3. IsMeasured(decision, payload, Repetitions)
        BY <4>1, <4>2, Zenon
      <4> HIDE DEF payload, statuses
      <4> QED
        BY <2>1, <3>2, <4>2, <4>3
    <3> QED
      BY <3>1, <3>2
  <2>2. CASE error # "none"
    <3>1. decision = Decision(NoId, 0, 0, FALSE, "insufficient_sync_evidence")
      <4>1. v # 1
        OBVIOUS
      <4>2. decision = UndecidedDecision(v)
        BY <2>2
      <4> QED
        BY <4>1, <4>2, Zenon DEF UndecidedDecision
    <3>2. decision.id = NoId /\ decision.confidence = 0
          /\ decision.reason = "insufficient_sync_evidence"
      BY <3>1 DEF Decision
    <3>3. "insufficient_sync_evidence" \notin payload \union {"decoded"}
      OBVIOUS
    <3>4. 0 \in Int /\ 0 <= 100 /\ Repetitions \in Nat
      BY EvidenceAssumption
    <3> HIDE DEF payload
    <3>5. IsMeasured(decision, payload, Repetitions)
      BY <3>1, <3>3, <3>4, NothingIsMeasured, Zenon
    <3> QED
      BY <2>2, <3>2, <3>5
  <2> QED
    BY <2>1, <2>2
<1>6. /\ reason = MetricReason(decision.reason) /\ reason # "execution_error"
      /\ MetricReason("execution_error") = "execution_error"
  <2>1. \A s \in statuses : MetricReason(s) # "execution_error"
    BY DEF MetricReason
  <2>2. MetricReason("execution_error") = "execution_error"
    BY DEF MetricReason
  <2> HIDE DEF statuses
  <2> QED
    BY <1>5, <2>1, <2>2
<1> HIDE DEF row, reason, remaining
<1>7. ProvenanceIsValid(row) /\ LimitationsAreValid(row)
  BY <1>3, <1>6 DEF ProvenanceIsValid, LimitationsAreValid
<1>8. MeasurementFieldsAreValid(row) <=> ~(v = 2 /\ row.confidence < 0)
  <2>1. row.confidence \in Int /\ row.confidence <= 100 /\ row.votes \in Nat
        /\ (v = 3 => row.confidence >= 0)
    <3>1. Repetitions \in Nat
      BY EvidenceAssumption
    <3> HIDE DEF payload
    <3> QED
      BY <1>3, <1>5, <3>1 DEF IsMeasured
  <2>2. row.why \in {"eligible", "at_least_two", "fewer_than_two"}
    BY <1>4 DEF EligibilityIs, EligibilityReason
  <2>3. row.quality = "infinite" \/ IsPositive(row.case)
    BY <1>3 DEF Quality
  <2> QED
    BY <2>1, <2>2, <2>3 DEF MeasurementFieldsAreValid
<1>9. StatusAgrees(v, row)
  <2>1. row.decoded # NoId <=> row.status = "decoded"
    <3> HIDE DEF payload, statuses
    <3>1. CASE error = "none"
      BY <1>3, <1>5, <3>1 DEF IsMeasured
    <3>2. CASE error # "none"
      BY <1>3, <1>5, <3>2
    <3> QED
      BY <3>1, <3>2
  <2>2. row.reason = MetricReason(row.status)
    BY <1>3, <1>6
  <2>3. row.status = "conflicting_payload_evidence" => v = 3
    BY <1>3, <1>5
  <2> QED
    BY <2>1, <2>2, <2>3 DEF StatusAgrees
<1>10. EvidenceValuesAreValid(row, payload)
  <2>1. row.votes <= Repetitions
    <3>1. Repetitions \in Nat
      BY EvidenceAssumption
    <3> HIDE DEF payload
    <3> QED
      BY <1>3, <1>5, <3>1 DEF IsMeasured
  <2>2. "decoded" \notin payload /\ "execution_error" \notin payload \union {"decoded"}
        /\ "insufficient_sync_evidence" \notin payload \union {"decoded"}
    OBVIOUS
  <2> HIDE DEF payload, statuses
  <2>3. /\ row.status = "decoded" => row.votes >= 2 /\ row.ber
        /\ row.status \in payload => row.votes >= 1 /\ row.ber
        /\ row.status \notin payload \union {"decoded"} => row.votes = 0 /\ ~row.ber
    <3>1. CASE error = "none"
      BY <1>3, <1>5, <3>1 DEF IsMeasured
    <3>2. CASE error # "none"
      BY <1>3, <1>5, <2>2, <3>2 DEF IsMeasured
    <3> QED
      BY <3>1, <3>2
  <2> QED
    BY <2>1, <2>2, <2>3 DEF EvidenceValuesAreValid
<1>11. row.outcome = Outcome(row.expected, row.decoded, row.reason,
                             row.reason = "execution_error")
  <2>1. CASE error = "none"
    <3>1. (row.reason = "execution_error") = (error # "none")
      BY <1>3, <1>6, <2>1
    <3> QED
      BY <1>3, <2>1, <3>1
  <2>2. CASE error # "none"
    BY <1>3, <2>2 DEF Outcome
  <2> QED
    BY <2>1, <2>2
<1>12. EligibilityIs(row, PlannedRemainder(w, row))
  BY <1>1, <1>3, <1>4 DEF PlannedRemainder, remaining
<1>13. AttackEvidenceIsValid(row)
  <2> DEFINE absent == ~artifact
  <2>1. absent \in ArtifactMayBeAbsent(row)
    <3>1. CASE error = "none"
      BY <1>3, <1>6, <3>1 DEF ArtifactMayBeAbsent
    <3>2. CASE error = "embedding"
      BY <1>3, <3>2 DEF ArtifactMayBeAbsent
    <3>3. CASE error \in {"attack", "decode"}
      BY <1>3, <3>3 DEF ArtifactMayBeAbsent
    <3> QED
      BY <3>1, <3>2, <3>3
  <2>2. AttackEvidenceFor(row, absent)
    BY <1>1, <1>2, <1>3 DEF AttackEvidenceFor
  <2> QED
    BY <2>1, <2>2 DEF AttackEvidenceIsValid
<1>14. CASE v = 2
  <2>1. EvidenceValuesV2(row)
    BY <1>10, <1>14 DEF EvidenceValuesV2
  <2>2. RowIsValid(v, w, row) <=> RowIsValidV2(w, row)
    BY <1>14 DEF RowIsValid
  <2> QED
    BY <1>7, <1>8, <1>9, <1>11, <1>12, <1>13, <1>14, <2>1, <2>2
    DEF RowIsValidV2, CropEligibilityIsValidV2, row
<1>15. CASE v = 3
  <2>1. EvidenceValuesV3(row)
    BY <1>10, <1>15 DEF EvidenceValuesV3
  <2>2. RowIsValid(v, w, row) <=> RowIsValidV3(w, row)
    BY <1>15 DEF RowIsValid
  <2> QED
    BY <1>7, <1>8, <1>9, <1>11, <1>12, <1>13, <1>15, <2>1, <2>2
    DEF RowIsValidV3, CropEligibilityIsValidV3, row
<1> QED
  BY <1>14, <1>15
\* The rows of V1: only the crop geometry of a failed decode is refused.
LEMMA PromotionRows ==
    ASSUME NEW w, w.left \in 0..Repetitions, NEW case, NEW cell,
           NEW error \in {"none", "embedding", "attack", "decode"}, NEW decision,
           decision.reason \in {"decoded", "partial", "not_detected", "invalid_crc"}
    PROVE  LET row == MakeRow(1, w, case, cell, error, decision)
           IN  RowIsValid(1, w, row) <=>
                  ~(IsPositive(case) /\ HasCrop(case.attack) /\ error = "decode")
<1> DEFINE row == MakeRow(1, w, case, cell, error, decision)
           reason == MetricReason(decision.reason)
           artifact == error \in {"none", "decode"}
           retained == IF artifact THEN HasCrop(case.attack) ELSE PlannedCrop(1, case)
           remaining == IF retained /\ IsPositive(case)
                        THEN RemainingTiles(w, case.attack) ELSE NoCount
           expected == IF IsPositive(case) /\ row.reason # "execution_error"
                          /\ HasCrop(case.attack)
                       THEN RemainingTiles(w, case.attack) ELSE NoCount
<1>1. reason \in {"decoded", "partial", "not_detected", "invalid_crc"}
  BY DEF MetricReason
<1>2. /\ row.case = case /\ row.expected = ExpectedId(case)
      /\ row.reason = IF error = "none" THEN reason ELSE "execution_error"
      /\ row.remaining = remaining
      /\ row.eligible = IsEligible(remaining)
      /\ row.why = EligibilityReason(remaining)
  <2> HIDE DEF row, reason, remaining
  <2> QED
    BY RowFields DEF row, reason, remaining
<1>3. RemainingTiles(w, case.attack) # NoCount
  BY EvidenceAssumption DEF RemainingTiles, NoCount
<1>4. ~PlannedCrop(1, case)
  BY DEF PlannedCrop
<1> HIDE DEF row, reason
<1>5. remaining = expected <=>
         ~(IsPositive(case) /\ HasCrop(case.attack) /\ error = "decode")
  BY <1>1, <1>2, <1>3, <1>4
<1>6. RowProvenanceV1(row)
  BY <1>1, <1>2 DEF RowProvenanceV1
<1>7. GeometryEligibilityV1(w, row) <=> EligibilityIs(row, expected)
  BY <1>2 DEF GeometryEligibilityV1, CropOperation
<1> HIDE DEF remaining, expected
<1>8. EligibilityIs(row, expected) <=> remaining = expected
  BY <1>2 DEF EligibilityIs
<1> QED
  BY <1>5, <1>6, <1>7, <1>8 DEF RowIsValid, RowIsValidV1, row

\* Every row a run can write is one its reader accepts, whichever case
\* deviates and how, whatever a crop leaves and however often a payload is
\* repeated; but for a V1 decode that fails after a crop of a positive page,
\* and for a negative V2 confidence.
THEOREM RowsAreAccepted == Spec => []OwnRowsAreAccepted
<1>1. ASSUME NEW v \in Versions, NEW w \in SomeWorlds, NEW cell \in {1, -1},
             IsPlanned(v, w.deviant)
      PROVE  LET case == w.deviant
                 row  == ExecuteRow(v, w, case, cell)
             IN  RowIsValid(v, w, row) <=>
                  ~ \/ /\ v = 1 /\ IsPositive(case) /\ HasCrop(case.attack)
                       /\ ErrorOf(v, w, case, cell) = "decode"
                    \/ v = 2 /\ row.confidence < 0
  <2> DEFINE case == w.deviant
             error == ErrorOf(v, w, case, cell)
             decision == IF error = "none" THEN DecodeCase(v, w, case)
                         ELSE UndecidedDecision(v)
             row == MakeRow(v, w, case, cell, error, decision)
             page == AttackedPage(w, case)
  <2>1. ExecuteRow(v, w, case, cell) = row
    BY DEF ExecuteRow
  <2>2. /\ error \in {"none", "embedding", "attack", "decode"}
        /\ error = "none" => ~AlignmentRaises(v, w, case)
    BY ErrorFacts
  <2>3. w.left \in 0..Repetitions
    BY DEF SomeWorlds, World
  <2> HIDE DEF case, error
  <2>4. CASE v = 1
    <3>1. DecodeCase(v, w, case) = DecodeFingerprint(page, IsPositive(case))
      BY <2>4 DEF DecodeCase, DecodePage
    <3>2. decision.reason \in {"decoded", "partial", "not_detected", "invalid_crc"}
      <4>1. CASE error = "none"
        BY <3>1, <4>1, DecodedByV1
      <4>2. CASE error # "none"
        BY <2>4, <4>2 DEF UndecidedDecision, Decision
      <4> QED
        BY <4>1, <4>2
    <3> HIDE DEF decision
    <3>3. RowIsValid(v, w, row) <=>
             ~(IsPositive(case) /\ HasCrop(case.attack) /\ error = "decode")
      BY <2>2, <2>3, <2>4, <3>2, PromotionRows
    <3> QED
      BY <2>1, <2>4, <3>3 DEF case, error
  <2>5. CASE v \in {2, 3}
    <3>1. HasCrop(case.attack) => case.attack = "crop"
      BY <1>1, <2>5 DEF IsPlanned, HasCrop, case
    <3>2. error # "none" => decision = UndecidedDecision(v)
      OBVIOUS
    <3>3. error = "none" => decision = DecodeCase(v, w, case)
      OBVIOUS
    <3>4. v = 2 => DecodeCase(v, w, case) = DecodeFingerprintV2(page)
      BY DEF DecodeCase, DecodePage
    <3>5. v = 3 => DecodeCase(v, w, case) = DecodeFingerprintV3(page, HasTemplate(w, case))
      BY DEF DecodeCase, DecodePage
    <3> HIDE DEF decision
    <3>6. v = 2 /\ error = "none" =>
             /\ IsMeasured(decision, {"partial_payload_evidence"}, Repetitions)
             /\ decision.reason \in
                  {"decoded", "partial_payload_evidence", "payload_not_detected",
                   "insufficient_sync_evidence", "geometry_rejected"}
      BY <2>2, <3>3, <3>4, DecodedByV2 DEF AlignmentRaises
    <3>7. v = 3 /\ error = "none" =>
             /\ IsMeasured(decision, {"partial_payload_evidence",
                                      "conflicting_payload_evidence"}, Repetitions)
             /\ decision.confidence >= 0
             /\ decision.reason \in
                  {"decoded", "partial_payload_evidence", "conflicting_payload_evidence",
                   "payload_not_detected", "insufficient_sync_evidence",
                   "geometry_rejected"}
      BY <2>2, <3>3, <3>5, DecodedByV3 DEF AlignmentRaises
    <3>8. RowIsValid(v, w, row) <=> ~(v = 2 /\ row.confidence < 0)
      BY <2>2, <2>3, <2>5, <3>1, <3>2, <3>6, <3>7, PregateRows
    <3> QED
      BY <2>1, <2>5, <3>8 DEF case, error
  <2> QED
    BY <2>4, <2>5 DEF Versions
<1>2. OwnRowsAreAccepted
  BY <1>1 DEF OwnRowsAreAccepted
<1> QED
  BY <1>2, PTL
-----------------------------------------------------------------------------
(* The code.                                                               *)

\* One round after the other: step[k] takes the value after round k - 1 to
\* the one after round k.
IsLoop(g, n, V, base, step) ==
    g \in [0..n -> V] /\ g[0] = base /\ \A k \in 1..n : g[k] = step[k][g[k - 1]]

\* Steps from one value to the next can be taken one after the other; a loop
\* that is written as a recursive function has a value after each round.
LEMMA Iterates ==
    ASSUME NEW n \in Nat, NEW V, NEW base \in V, NEW step \in [1..n -> [V -> V]]
    PROVE  \E g : IsLoop(g, n, V, base, step)
<1> DEFINE Has(m) == \E g \in [0..m -> V] :
                        g[0] = base /\ \A k \in 1..m : g[k] = step[k][g[k - 1]]
           S == {m \in 0..n : ~Has(m)}
<1>1. ASSUME S # {} PROVE FALSE
  <2>1. PICK m \in S : \A j \in S : m <= j
    <3>1. S \in SUBSET Nat
      OBVIOUS
    <3> HIDE DEF S
    <3> QED
      BY <1>1, <3>1, LeastNatural
  <2>2. m \in 0..n /\ ~Has(m)
    BY <2>1
  <2>3. CASE m = 0
    <3> DEFINE g == [k \in 0..0 |-> base]
    <3>1. g \in [0..0 -> V] /\ g[0] = base /\ \A k \in 1..0 : g[k] = step[k][g[k - 1]]
      OBVIOUS
    <3>2. Has(0)
      <4> HIDE DEF g
      <4> QED
        BY <3>1
    <3> HIDE DEF Has
    <3> QED
      BY <2>2, <2>3, <3>2
  <2>4. CASE m # 0
    <3>1. m \in 1..n /\ m - 1 \in 0..n /\ ~(m <= m - 1)
      BY <2>2, <2>4
    <3>2. m - 1 \notin S
      <4> HIDE DEF S
      <4> QED
        BY <2>1, <3>1
    <3>3. Has(m - 1)
      <4> HIDE DEF Has
      <4> QED
        BY <3>1, <3>2
    <3>4. PICK g \in [0..(m - 1) -> V] :
             g[0] = base /\ \A k \in 1..(m - 1) : g[k] = step[k][g[k - 1]]
      BY <3>3
    <3> DEFINE last == step[m][g[m - 1]]
               h == [k \in 0..m |-> IF k = m THEN last ELSE g[k]]
    <3>5. last \in V
      BY <3>1
    <3> HIDE DEF last
    <3>6. h[m] = last /\ \A k \in 0..(m - 1) : h[k] = g[k]
      BY <3>1
    <3>7. h \in [0..m -> V]
      BY <3>1, <3>5
    <3> HIDE DEF h
    <3>8. h[0] = base
      BY <3>1, <3>4, <3>6
    <3>9. ASSUME NEW k \in 1..m PROVE h[k] = step[k][h[k - 1]]
      <4>1. CASE k = m
        <5>1. m - 1 \in 0..(m - 1)
          BY <3>1
        <5> QED
          BY <3>6, <4>1, <5>1 DEF last
      <4>2. CASE k # m
        <5>1. k \in 1..(m - 1) /\ k \in 0..(m - 1) /\ k - 1 \in 0..(m - 1)
          BY <3>1, <4>2
        <5> QED
          BY <3>4, <3>6, <5>1
      <4> QED
        BY <4>1, <4>2
    <3>10. Has(m)
      BY <3>7, <3>8, <3>9
    <3> HIDE DEF Has
    <3> QED
      BY <2>2, <3>10
  <2> QED
    BY <2>3, <2>4
<1>2. Has(n)
  <2> HIDE DEF Has
  <2> QED
    BY <1>1
<1>3. PICK g \in [0..n -> V] : g[0] = base /\ \A k \in 1..n : g[k] = step[k][g[k - 1]]
  BY <1>2
<1>4. IsLoop(g, n, V, base, step)
  BY <1>3 DEF IsLoop
<1> QED
  BY <1>4

\* With q full rows and r bytes in a ragged one, the first r lanes have a
\* byte more than the others.
LEMMA LaneFacts ==
    ASSUME NEW d \in Nat \ {0}, NEW q \in Nat, NEW r \in 0..(d - 1), NEW o \in 0..(d - 1)
    PROVE  LaneLength(q * d + r, d, o) = IF o < r THEN q + 1 ELSE q
<1> DEFINE n == q * d + r
<1>1. n \in Nat /\ q * d \in Nat
  BY DigitsOf, DigitsOf
<1>2. CASE o < r
  <2>1. r - o - 1 \in 0..(d - 1) /\ q + 1 \in Nat
    BY <1>2
  <2>2. n - o + d - 1 = (q + 1) * d + (r - o - 1)
    <3>1. (q + 1) * d = q * d + d
      BY Z3
    <3> QED
      BY <1>1, <3>1
  <2>3. (n - o + d - 1) \div d = q + 1
    BY <2>1, <2>2, DigitsOf
  <2>4. ~(o >= n)
    BY <1>1, <1>2
  <2> QED
    BY <1>2, <2>3, <2>4 DEF LaneLength
<1>3. CASE ~(o < r) /\ o < n
  <2>1. d - 1 - (o - r) \in 0..(d - 1)
    BY <1>3
  <2>2. n - o + d - 1 = q * d + (d - 1 - (o - r))
    BY <1>1
  <2>3. (n - o + d - 1) \div d = q
    BY <2>1, <2>2, DigitsOf
  <2> QED
    BY <1>1, <1>3, <2>3 DEF LaneLength
<1>4. CASE ~(o < r) /\ ~(o < n)
  <2>1. q = 0
    <3>1. q >= 1 => q * d >= d
      BY Z3
    <3> QED
      BY <1>1, <1>4, <3>1
  <2> QED
    BY <1>1, <1>4, <2>1 DEF LaneLength
<1> QED
  BY <1>2, <1>3, <1>4

LEMMA LaneIsNat ==
    ASSUME NEW n \in Nat, NEW d \in Nat \ {0}, NEW o \in 0..(d - 1)
    PROVE  LaneLength(n, d, o) \in Nat
<1>1. PICK q \in Nat, r \in 0..(d - 1) : n = q * d + r
  BY DivisionFacts
<1>2. LaneLength(n, d, o) = IF o < r THEN q + 1 ELSE q
  BY <1>1, LaneFacts
<1> QED
  BY <1>2

\* The cursor moves by the length of the lane it was at.
LEMMA CursorFacts ==
    ASSUME NEW n \in Nat, NEW d \in Nat \ {0}
    PROVE  LET cursor == Cursor(n, d)
           IN  /\ cursor \in [0..d -> Nat] /\ cursor[0] = 0
               /\ \A o \in 1..d : cursor[o] = cursor[o - 1] + LaneLength(n, d, o - 1)
<1> DEFINE cursor == Cursor(n, d)
           step == [o \in 1..d |-> [at \in Nat |-> at + LaneLength(n, d, o - 1)]]
<1>1. \A o \in 1..d : o - 1 \in 0..(d - 1) /\ LaneLength(n, d, o - 1) \in Nat
  BY LaneIsNat
<1>2. step \in [1..d -> [Nat -> Nat]]
  BY <1>1
<1>3. PICK g \in [0..d -> Nat] : g[0] = 0 /\ \A o \in 1..d : g[o] = step[o][g[o - 1]]
  <2> HIDE DEF step
  <2>1. d \in Nat /\ 0 \in Nat
    OBVIOUS
  <2>2. \E g : IsLoop(g, d, Nat, 0, step)
    BY <1>2, <2>1, Iterates
  <2> QED
    BY <2>2 DEF IsLoop
<1>4. g = [o \in 0..d |-> IF o = 0 THEN 0 ELSE g[o - 1] + LaneLength(n, d, o - 1)]
  <2>1. ASSUME NEW o \in 1..d PROVE g[o] = g[o - 1] + LaneLength(n, d, o - 1)
    <3>1. g[o] = step[o][g[o - 1]] /\ g[o - 1] \in Nat
      BY <1>3
    <3> QED
      BY <3>1
  <2>2. ASSUME NEW o \in 0..d
        PROVE  g[o] = IF o = 0 THEN 0 ELSE g[o - 1] + LaneLength(n, d, o - 1)
    BY <1>3, <2>1
  <2> QED
    BY <1>3, <2>2
<1>5. cursor = CHOOSE c : c = [o \in 0..d |-> IF o = 0 THEN 0
                                  ELSE c[o - 1] + LaneLength(n, d, o - 1)]
  BY DEF Cursor
<1>6. cursor = [o \in 0..d |-> IF o = 0 THEN 0 ELSE cursor[o - 1] + LaneLength(n, d, o - 1)]
  <2> HIDE DEF cursor
  <2> QED
    BY <1>4, <1>5
<1> HIDE DEF cursor
<1>7. cursor[0] = 0 /\ \A o \in 1..d : cursor[o] = cursor[o - 1] + LaneLength(n, d, o - 1)
  BY <1>6
<1> DEFINE S == {o \in 0..d : cursor[o] \notin Nat}
<1>8. S = {}
  <2> SUFFICES ASSUME S # {} PROVE FALSE
    OBVIOUS
  <2>1. PICK o \in S : \A j \in S : o <= j
    <3>1. S \in SUBSET Nat
      OBVIOUS
    <3> HIDE DEF S
    <3> QED
      BY <3>1, LeastNatural
  <2>2. o \in 1..d /\ o - 1 \in 0..d
    BY <1>7, <2>1
  <2>3. cursor[o - 1] \in Nat
    BY <2>1, <2>2
  <2> QED
    BY <1>1, <1>7, <2>1, <2>2, <2>3
<1>9. cursor \in [0..d -> Nat]
  BY <1>6, <1>8
<1> QED
  BY <1>7, <1>9 DEF cursor

\* At the last lane's end the cursor is at the end of the data.
LEMMA CursorEnds ==
    ASSUME NEW n \in Nat, NEW d \in Nat \ {0}
    PROVE  Cursor(n, d)[d] = n
<1> DEFINE q == n \div d
           r == n % d
           cursor == Cursor(n, d)
           Short(o) == IF o < r THEN o ELSE r
           S == {o \in 0..d : cursor[o] # o * q + Short(o)}
<1>1. n = q * d + r /\ q \in Nat /\ r \in 0..(d - 1)
  BY DivisionFacts
<1>2. /\ cursor \in [0..d -> Nat] /\ cursor[0] = 0
      /\ \A o \in 1..d : cursor[o] = cursor[o - 1] + LaneLength(n, d, o - 1)
  BY CursorFacts
<1> HIDE DEF q, r, cursor
<1>3. ASSUME NEW o \in 1..d PROVE cursor[o] = cursor[o - 1] + IF o - 1 < r THEN q + 1 ELSE q
  <2>1. o - 1 \in 0..(d - 1)
    OBVIOUS
  <2>2. LaneLength(n, d, o - 1) = IF o - 1 < r THEN q + 1 ELSE q
    BY <1>1, <2>1, LaneFacts
  <2> QED
    BY <1>2, <2>2
<1>4. S = {}
  <2> SUFFICES ASSUME S # {} PROVE FALSE
    OBVIOUS
  <2>1. PICK o \in S : \A j \in S : o <= j
    <3>1. S \in SUBSET Nat
      OBVIOUS
    <3> HIDE DEF S
    <3> QED
      BY <3>1, LeastNatural
  <2>2. o # 0
    <3>1. 0 * q = 0 /\ Short(0) = 0
      BY <1>1
    <3> QED
      BY <1>2, <2>1, <3>1
  <2>3. o \in 1..d /\ o - 1 \in 0..d /\ o - 1 \notin S
    BY <2>1, <2>2
  <2>4. cursor[o - 1] = (o - 1) * q + Short(o - 1)
    BY <2>3
  <2>5. o * q = (o - 1) * q + q /\ (o - 1) * q \in Nat
    BY <1>1, <2>3, Z3
  <2>6. cursor[o] = cursor[o - 1] + IF o - 1 < r THEN q + 1 ELSE q
    BY <1>3, <2>3
  <2>7. cursor[o] = o * q + Short(o)
    BY <1>1, <2>3, <2>4, <2>5, <2>6
  <2> QED
    BY <2>1, <2>7
<1>5. cursor[d] = d * q + Short(d)
  BY <1>4
<1>6. d * q = q * d /\ Short(d) = r
  BY <1>1
<1> QED
  BY <1>1, <1>5, <1>6 DEF cursor

IsByteAt(n, d, i, o, j) ==
    o \in 0..(d - 1) /\ j + 1 \in 1..LaneLength(n, d, o) /\ o + 1 + j * d = i

\* The lane of a byte, and its row there.
LEMMA ByteFacts ==
    ASSUME NEW n \in Nat, NEW d \in Nat \ {0}, NEW i \in 1..n
    PROVE  IsByteAt(n, d, i, (i - 1) % d, (i - 1) \div d)
<1> DEFINE q == n \div d
           r == n % d
           o == (i - 1) % d
           j == (i - 1) \div d
<1>1. n = q * d + r /\ q \in Nat /\ r \in 0..(d - 1)
  BY DivisionFacts
<1>2. i - 1 \in Nat /\ i - 1 = j * d + o /\ j \in Nat /\ o \in 0..(d - 1)
  <2>1. i - 1 \in Nat
    OBVIOUS
  <2> DEFINE before == i - 1
  <2> HIDE DEF before
  <2>2. before \in Nat
    BY <2>1 DEF before
  <2>3. /\ before = (before \div d) * d + (before % d)
        /\ before \div d \in Nat /\ before % d \in 0..(d - 1)
    BY <2>2, DivisionFacts
  <2> QED
    BY <2>1, <2>3 DEF before
<1> HIDE DEF q, r, o, j
<1>3. LaneLength(n, d, o) = IF o < r THEN q + 1 ELSE q
  BY <1>1, <1>2, LaneFacts
<1>4. j * d + o < q * d + r
  BY <1>1, <1>2
<1>5. j * d \in Nat /\ q * d \in Nat
  BY <1>1, <1>2, Z3
<1>6. (j >= q + 1 => j * d >= q * d + d) /\ (j >= q => j * d >= q * d)
  BY <1>1, <1>2, Z3
<1>7. j < LaneLength(n, d, o)
  BY <1>1, <1>2, <1>3, <1>4, <1>5, <1>6
<1>8. j + 1 \in 1..LaneLength(n, d, o)
  BY <1>1, <1>2, <1>3, <1>7
<1>9. o + 1 + j * d = i
  BY <1>2, <1>5
<1> QED
  BY <1>2, <1>8, <1>9 DEF o, j, IsByteAt

IsJoin(all, old, new, T) ==
    /\ all \in Seq(T) /\ Len(all) = Len(old) + Len(new)
    /\ \A k \in 1..Len(old) : all[k] = old[k]
    /\ \A k \in 1..Len(new) : all[Len(old) + k] = new[k]

LEMMA JoinOfTwo ==
    ASSUME NEW T, NEW old \in Seq(T), NEW new \in Seq(T)
    PROVE  IsJoin(old \o new, old, new, T)
<1> DEFINE all == old \o new
<1>1. all = old \o new
  OBVIOUS
<1> HIDE DEF all
<1>2. all \in Seq(T) /\ Len(all) = Len(old) + Len(new) /\ Len(old) \in Nat /\ Len(new) \in Nat
  BY <1>1
<1>3. ASSUME NEW k \in 1..Len(old) PROVE all[k] = old[k]
  BY <1>1, <1>2
<1>4. ASSUME NEW k \in 1..Len(new) PROVE all[Len(old) + k] = new[k]
  BY <1>1, <1>2
<1>5. IsJoin(all, old, new, T)
  BY <1>2, <1>3, <1>4 DEF IsJoin
<1> QED
  BY <1>5 DEF all

AreJoined(all, seqs, at, T) ==
    /\ all \in Seq(T) /\ Len(all) = at[Len(seqs)]
    /\ \A m \in 1..Len(seqs) : \A k \in 1..Len(seqs[m]) :
          at[m - 1] + k \in 1..at[Len(seqs)] /\ all[at[m - 1] + k] = seqs[m][k]

\* The sequences that are joined follow each other.
LEMMA JoinedFacts ==
    ASSUME NEW T, NEW seqs \in Seq(Seq(T)), Len(seqs) > 0,
           NEW at \in [0..Len(seqs) -> Nat], at[0] = 0,
           \A m \in 1..Len(seqs) : at[m] = at[m - 1] + Len(seqs[m])
    PROVE  AreJoined(FlattenSeq(seqs), seqs, at, T)
<1> DEFINE n == Len(seqs)
           step == [m \in 1..n |-> [joined \in Seq(T) |-> joined \o seqs[m]]]
<1>1. n \in Nat \ {0} /\ \A m \in 1..n : seqs[m] \in Seq(T)
  OBVIOUS
<1>2. step \in [1..n -> [Seq(T) -> Seq(T)]]
  BY <1>1
<1>3. PICK g \in [0..n -> Seq(T)] : g[0] = <<>> /\ \A m \in 1..n : g[m] = step[m][g[m - 1]]
  <2>1. <<>> \in Seq(T)
    OBVIOUS
  <2>2. n \in Nat
    OBVIOUS
  <2> HIDE DEF step, n
  <2> DEFINE V == Seq(T)
  <2> HIDE DEF V
  <2>3. <<>> \in V /\ step \in [1..n -> [V -> V]]
    BY <1>2, <2>1 DEF V
  <2>4. \E g : IsLoop(g, n, V, <<>>, step)
    BY <2>2, <2>3, Iterates
  <2> QED
    BY <2>4 DEF IsLoop, V
<1>4. ASSUME NEW m \in 1..n
      PROVE  /\ g[m] = g[m - 1] \o seqs[m] /\ g[m - 1] \in Seq(T) /\ g[m] \in Seq(T)
             /\ seqs[m] \in Seq(T)
  <2>1. m - 1 \in 0..n /\ m \in 0..n
    BY <1>1
  <2>2. g[m] = step[m][g[m - 1]] /\ g[m - 1] \in Seq(T) /\ g[m] \in Seq(T)
    BY <1>3, <2>1
  <2>3. step[m][g[m - 1]] = g[m - 1] \o seqs[m]
    <3> HIDE DEF n
    <3> QED
      BY <2>2
  <2> QED
    BY <1>1, <2>2, <2>3
<1> HIDE DEF step
<1> DEFINE f == [m \in 1..n |-> g[m]]
<1>5. f = [m \in 1..n |-> IF m = 1 THEN seqs[m] ELSE f[m - 1] \o seqs[m]]
  <2>1. ASSUME NEW m \in 1..n, m # 1 PROVE f[m] = f[m - 1] \o seqs[m]
    <3>1. m - 1 \in 1..n
      BY <1>1, <2>1
    <3>2. f[m] = g[m] /\ f[m - 1] = g[m - 1]
      BY <3>1
    <3>3. g[m] = g[m - 1] \o seqs[m]
      BY <1>4
    <3> HIDE DEF f
    <3> QED
      BY <3>2, <3>3
  <2>2. f[1] = seqs[1]
    <3>1. 1 \in 1..n
      BY <1>1
    <3>2. 1 - 1 = 0
      OBVIOUS
    <3>3. g[1] = g[1 - 1] \o seqs[1] /\ seqs[1] \in Seq(T)
      BY <1>4, <3>1
    <3>4. g[1 - 1] = <<>>
      BY <1>3, <3>2
    <3> DEFINE first == seqs[1]
    <3>5. first \in Seq(T) => <<>> \o first = first
      <4> HIDE DEF first
      <4> QED
        OBVIOUS
    <3>6. f[1] = g[1]
      BY <3>1
    <3> HIDE DEF f
    <3> QED
      BY <3>3, <3>4, <3>5, <3>6
  <2>3. \A m \in 1..n : f[m] = IF m = 1 THEN seqs[m] ELSE f[m - 1] \o seqs[m]
    <3> HIDE DEF f
    <3> QED
      BY <2>1, <2>2
  <2>4. f = [m \in 1..n |-> f[m]]
    OBVIOUS
  <2> HIDE DEF f
  <2> QED
    BY <2>3, <2>4
<1> DEFINE flatten == CHOOSE x : x = [m \in 1..n |-> IF m = 1 THEN seqs[m] ELSE x[m - 1] \o seqs[m]]
<1>6. FlattenSeq(seqs) = flatten[n]
  BY <1>1 DEF FlattenSeq
<1>7. flatten = [m \in 1..n |-> IF m = 1 THEN seqs[m] ELSE flatten[m - 1] \o seqs[m]]
  <2> HIDE DEF f
  <2> QED
    BY <1>5
<1> HIDE DEF flatten, f
<1>8. /\ flatten[1] = seqs[1]
      /\ \A m \in 2..n : flatten[m] = flatten[m - 1] \o seqs[m]
  <2> HIDE DEF n
  <2>1. 1 \in 1..n /\ \A m \in 2..n : m \in 1..n /\ m # 1
    BY <1>1
  <2> QED
    BY <1>7, <2>1
<1> DEFINE Joins(m) == /\ flatten[m] \in Seq(T) /\ Len(flatten[m]) = at[m]
                       /\ \A j \in 1..m : \A k \in 1..Len(seqs[j]) :
                             /\ at[j - 1] + k \in 1..at[m]
                             /\ flatten[m][at[j - 1] + k] = seqs[j][k]
           S == {m \in 1..n : ~Joins(m)}
<1>9. S = {}
  <2> SUFFICES ASSUME S # {} PROVE FALSE
    OBVIOUS
  <2>1. PICK m \in S : \A j \in S : m <= j
    <3>1. S \in SUBSET Nat
      OBVIOUS
    <3> HIDE DEF S
    <3> QED
      BY <3>1, LeastNatural
  <2>2. m \in 1..n /\ ~Joins(m)
    BY <2>1
  <2>3. CASE m = 1
    <3>1. 1 \in 1..n /\ 1 - 1 = 0 /\ seqs[1] \in Seq(T)
      <4>1. 1 \in 1..n
        BY <2>2, <2>3
      <4>2. seqs[1] \in Seq(T)
        BY <1>1, <4>1
      <4> HIDE DEF n
      <4> QED
        BY <4>1, <4>2
    <3>2. at[1] = at[1 - 1] + Len(seqs[1])
      BY <3>1
    <3>3. Len(seqs[1]) \in Nat
      <4> DEFINE first == seqs[1]
      <4>1. first \in Seq(T) => Len(first) \in Nat
        <5> HIDE DEF first
        <5> QED
          OBVIOUS
      <4> QED
        BY <3>1, <4>1
    <3>4. at[1 - 1] = 0 /\ at[1] = Len(seqs[1])
      BY <3>1, <3>2, <3>3
    <3>5. ASSUME NEW j \in 1..1, NEW k \in 1..Len(seqs[j])
          PROVE  at[j - 1] + k \in 1..at[1] /\ flatten[1][at[j - 1] + k] = seqs[j][k]
      <4>1. j = 1 /\ k \in 1..Len(seqs[1])
        BY <3>5
      <4>2. at[j - 1] + k = k
        BY <3>3, <3>4, <4>1
      <4> QED
        BY <1>8, <3>4, <4>1, <4>2
    <3>6. Joins(1)
      BY <1>8, <3>1, <3>4, <3>5
    <3> HIDE DEF Joins
    <3> QED
      BY <2>2, <2>3, <3>6
  <2>4. CASE m # 1
    <3>1. m \in 2..n /\ m - 1 \in 1..n /\ ~(m <= m - 1) /\ m - 1 \in 0..n /\ m \in 0..n
      BY <1>1, <2>2, <2>4
    <3>2. Joins(m - 1)
      <4> HIDE DEF Joins
      <4>1. m - 1 \notin S
        <5> HIDE DEF S
        <5> QED
          BY <2>1, <3>1
      <4> QED
        BY <3>1, <4>1
    <3>3. /\ flatten[m] = flatten[m - 1] \o seqs[m]
          /\ at[m] = at[m - 1] + Len(seqs[m])
          /\ seqs[m] \in Seq(T) /\ at[m - 1] \in Nat /\ at[m] \in Nat
      BY <1>1, <1>8, <3>1
    <3> DEFINE old == flatten[m - 1]
               new == seqs[m]
               all == flatten[m]
    <3>4. /\ old \in Seq(T) /\ Len(old) = at[m - 1]
          /\ \A j \in 1..(m - 1) : \A k \in 1..Len(seqs[j]) :
                             /\ at[j - 1] + k \in 1..at[m - 1]
                             /\ old[at[j - 1] + k] = seqs[j][k]
      BY <3>2
    <3>5. all = old \o new /\ new \in Seq(T)
      BY <3>3
    <3> HIDE DEF old, new, all
    <3>6. /\ all \in Seq(T) /\ Len(all) = Len(old) + Len(new)
          /\ \A k \in 1..Len(old) : all[k] = old[k]
          /\ \A k \in 1..Len(new) : all[Len(old) + k] = new[k]
      <4>1. old \in Seq(T) /\ new \in Seq(T) /\ all = old \o new
        BY <3>4, <3>5
      <4>2. IsJoin(old \o new, old, new, T)
        BY <4>1, JoinOfTwo, Zenon
      <4>3. IsJoin(all, old, new, T)
        BY <4>1, <4>2, Zenon
      <4> QED
        BY <4>3 DEF IsJoin
    <3>7. Len(new) \in Nat
      BY <3>5
    <3>8. ASSUME NEW j \in 1..m, NEW k \in 1..Len(seqs[j])
          PROVE  at[j - 1] + k \in 1..at[m] /\ all[at[j - 1] + k] = seqs[j][k]
      <4>1. CASE j = m
        <5>1. k \in 1..Len(new)
          BY <3>8, <4>1 DEF new
        <5>2. at[m - 1] + k \in 1..at[m]
          <6>1. at[m] = at[m - 1] + Len(new)
            BY <3>3 DEF new
          <6>2. \A a, b, c \in Nat : a = b + c => \A l \in 1..c : b + l \in 1..a
            OBVIOUS
          <6>3. at[m] \in Nat /\ at[m - 1] \in Nat
            BY <3>3
          <6> QED
            BY <3>7, <5>1, <6>1, <6>2, <6>3
        <5>3. Len(old) + k = at[j - 1] + k
          BY <3>4, <4>1
        <5>4. all[Len(old) + k] = new[k] /\ new[k] = seqs[j][k]
          BY <3>6, <4>1, <5>1 DEF new
        <5> QED
          BY <4>1, <5>2, <5>3, <5>4
      <4>2. CASE j # m
        <5>1. j \in 1..(m - 1)
          BY <3>1, <4>2
        <5>2. at[j - 1] + k \in 1..at[m - 1] /\ old[at[j - 1] + k] = seqs[j][k]
          BY <3>4, <5>1
        <5>3. at[m - 1] <= at[m]
          BY <3>3, <3>7 DEF new
        <5> DEFINE p == at[j - 1] + k
        <5>4. p \in 1..at[m - 1] /\ old[p] = seqs[j][k]
          BY <5>2
        <5> HIDE DEF p
        <5>5. p \in 1..at[m] /\ all[p] = old[p]
          BY <3>3, <3>4, <3>6, <5>3, <5>4
        <5>6. p \in 1..at[m] /\ all[p] = seqs[j][k]
          BY <5>4, <5>5
        <5> QED
          BY <5>6 DEF p
      <4> QED
        BY <4>1, <4>2
    <3>9. Len(all) = at[m]
      BY <3>3, <3>4, <3>6 DEF new
    <3>10. Joins(m)
      BY <3>6, <3>8, <3>9 DEF all
    <3> HIDE DEF Joins
    <3> QED
      BY <2>2, <3>10
  <2> QED
    BY <2>3, <2>4
<1>10. Joins(n)
  <2>1. n \in 1..n /\ n \notin S
    BY <1>1, <1>9
  <2> HIDE DEF Joins
  <2> QED
    BY <2>1
<1> HIDE DEF S
<1> QED
  BY <1>6, <1>10 DEF AreJoined

\* The place of byte i of the codeword in the interleaved codeword.
Place == [i \in 1..CodewordBytes |->
             Cursor(CodewordBytes, InterleaveDepth)[(i - 1) % InterleaveDepth]
             + (i - 1) \div InterleaveDepth + 1]

LEMMA CodewordFacts ==
    /\ CodewordBytes \in Nat \ {0} /\ InterleaveDepth \in Nat \ {0} /\ ParitySymbols \in Nat
    /\ Len(RawCodeword) = CodewordBytes
    /\ \A i \in 1..CodewordBytes : RawCodeword[i] = i
<1>1. CodewordBytes \in Nat \ {0} /\ InterleaveDepth \in Nat \ {0} /\ ParitySymbols \in Nat
  BY CodeAssumption DEF CodewordBytes
<1> QED
  BY <1>1 DEF RawCodeword

\* The interleaver puts every byte of the codeword into its place.
LEMMA EncodedFacts ==
    /\ DOMAIN EncodeEcc = 1..CodewordBytes /\ Len(EncodeEcc) = CodewordBytes
    /\ Place \in [1..CodewordBytes -> 1..CodewordBytes]
    /\ \A i \in 1..CodewordBytes : EncodeEcc[Place[i]] = i
<1> DEFINE n == CodewordBytes
           d == InterleaveDepth
           T == {RawCodeword[x] : x \in Nat}
           cursor == Cursor(n, d)
           lanes == [lane \in 1..d |->
                        [k \in 1..LaneLength(n, d, lane - 1) |-> RawCodeword[lane + (k - 1) * d]]]
           all == FlattenSeq(lanes)
<1>1. n \in Nat \ {0} /\ d \in Nat \ {0}
  BY CodewordFacts
<1>2. EncodeEcc = all
  BY CodewordFacts DEF EncodeEcc, InterleaveBytes
<1>3. /\ cursor \in [0..d -> Nat] /\ cursor[0] = 0 /\ cursor[d] = n
      /\ \A o \in 1..d : cursor[o] = cursor[o - 1] + LaneLength(n, d, o - 1)
  BY <1>1, CursorFacts, CursorEnds
<1>4. ASSUME NEW lane \in 1..d
      PROVE  lanes[lane] \in Seq(T) /\ Len(lanes[lane]) = LaneLength(n, d, lane - 1)
  <2>1. LaneLength(n, d, lane - 1) \in Nat
    BY <1>1, LaneIsNat
  <2>2. ASSUME NEW k \in 1..LaneLength(n, d, lane - 1) PROVE RawCodeword[lane + (k - 1) * d] \in T
    <3>1. (k - 1) * d \in Nat
      <4>1. k - 1 \in Nat
        BY <2>1
      <4> HIDE DEF d
      <4> QED
        BY <1>1, <4>1, Z3
    <3> DEFINE x == lane + (k - 1) * d
    <3>2. x \in Nat
      BY <1>1, <3>1
    <3> HIDE DEF x
    <3>3. RawCodeword[x] \in T
      BY <3>2
    <3> QED
      BY <3>3 DEF x
  <2> HIDE DEF T
  <2> DEFINE this == [k \in 1..LaneLength(n, d, lane - 1) |-> RawCodeword[lane + (k - 1) * d]]
  <2>3. this \in [1..LaneLength(n, d, lane - 1) -> T]
    BY <2>2
  <2>4. lanes[lane] = this
    OBVIOUS
  <2> HIDE DEF this, lanes
  <2> DEFINE length == LaneLength(n, d, lane - 1)
  <2> HIDE DEF length
  <2>5. length \in Nat /\ this \in [1..length -> T]
    BY <2>1, <2>3 DEF length
  <2>6. this \in Seq(T) /\ Len(this) = length
    BY <2>5
  <2> QED
    BY <2>4, <2>6 DEF length
<1>5. lanes \in Seq(Seq(T)) /\ Len(lanes) = d
  <2> DEFINE V == Seq(T)
  <2>1. \A lane \in 1..d : lanes[lane] \in V
    BY <1>4
  <2>2. lanes = [lane \in 1..d |-> lanes[lane]]
    OBVIOUS
  <2> HIDE DEF lanes, V, d
  <2>3. lanes \in [1..d -> V]
    BY <2>1, <2>2
  <2>4. lanes \in Seq(V) /\ Len(lanes) = d
    BY <1>1, <2>3
  <2> QED
    BY <2>4 DEF V
<1>6. /\ all \in Seq(T) /\ Len(all) = n
      /\ \A m \in 1..d : \A k \in 1..Len(lanes[m]) :
            cursor[m - 1] + k \in 1..n /\ all[cursor[m - 1] + k] = lanes[m][k]
  <2>1. \A m \in 1..Len(lanes) : cursor[m] = cursor[m - 1] + Len(lanes[m])
    BY <1>3, <1>4, <1>5
  <2>2. /\ Len(lanes) > 0 /\ cursor \in [0..Len(lanes) -> Nat] /\ cursor[0] = 0
    BY <1>1, <1>3, <1>5
  <2> HIDE DEF T, lanes, cursor, d, n
  <2>3. /\ all \in Seq(T) /\ Len(all) = cursor[Len(lanes)]
        /\ \A m \in 1..Len(lanes) : \A k \in 1..Len(lanes[m]) :
             /\ cursor[m - 1] + k \in 1..cursor[Len(lanes)]
             /\ all[cursor[m - 1] + k] = lanes[m][k]
    <3>1. AreJoined(all, lanes, cursor, T)
      BY <1>5, <2>1, <2>2, JoinedFacts
    <3> QED
      BY <3>1 DEF AreJoined
  <2> HIDE DEF all
  <2> QED
    BY <1>3, <1>5, <2>3
<1>7. DOMAIN all = 1..n
  <2> HIDE DEF all, T, n
  <2> QED
    BY <1>6
<1>8. ASSUME NEW i \in 1..n PROVE Place[i] \in 1..n /\ all[Place[i]] = i
  <2> DEFINE o == (i - 1) % d
             j == (i - 1) \div d
  <2>1. IsByteAt(n, d, i, o, j)
    <3> HIDE DEF d, n
    <3> QED
      BY <1>1, ByteFacts
  <2>2. Place[i] = cursor[o] + j + 1
    BY DEF Place
  <2> HIDE DEF o, j, cursor, all
  <2>3. o \in 0..(d - 1) /\ j + 1 \in 1..LaneLength(n, d, o) /\ o + 1 + ((j + 1) - 1) * d = i
    <3>1. o \in 0..(d - 1) /\ j + 1 \in 1..LaneLength(n, d, o) /\ o + 1 + j * d = i
      BY <2>1 DEF IsByteAt
    <3>2. j \in Int
      <4>1. i - 1 \in Nat
        BY <1>1
      <4> QED
        BY <1>1, <4>1 DEF j
    <3>3. (j + 1) - 1 = j
      BY <3>2
    <3> QED
      BY <3>1, <3>3
  <2>4. o + 1 \in 1..d /\ (o + 1) - 1 = o
    BY <1>1, <2>3
  <2>5. lanes[o + 1] = [k \in 1..LaneLength(n, d, (o + 1) - 1) |->
                           RawCodeword[(o + 1) + (k - 1) * d]]
    BY <2>4
  <2>6. lanes[o + 1][j + 1] = RawCodeword[i]
    <3> HIDE DEF lanes
    <3> QED
      BY <2>3, <2>4, <2>5
  <2>7. RawCodeword[i] = i
    BY CodewordFacts
  <2>8. j + 1 \in 1..Len(lanes[o + 1])
    BY <1>4, <2>3, <2>4
  <2> HIDE DEF lanes
  <2>9. cursor[o] + (j + 1) \in 1..n /\ all[cursor[o] + (j + 1)] = i
    <3>1. /\ cursor[(o + 1) - 1] + (j + 1) \in 1..n
          /\ all[cursor[(o + 1) - 1] + (j + 1)] = lanes[o + 1][j + 1]
      BY <1>6, <2>4, <2>8
    <3> QED
      BY <2>4, <2>6, <2>7, <3>1
  <2>10. cursor[o] + (j + 1) = cursor[o] + j + 1
    <3>1. cursor[o] \in Nat /\ j + 1 \in Nat
      BY <1>1, <1>3, <2>3
    <3>2. j \in Int
      <4>1. i - 1 \in Nat
        BY <1>1
      <4> QED
        BY <1>1, <4>1 DEF j
    <3> QED
      BY <3>1, <3>2
  <2> QED
    BY <2>2, <2>9, <2>10
<1>9. Place \in [1..n -> 1..n]
  <2>1. Place = [i \in 1..n |-> Place[i]]
    BY DEF Place
  <2> QED
    BY <1>8, <2>1
<1> HIDE DEF all
<1> QED
  BY <1>2, <1>6, <1>7, <1>8, <1>9

\* Every place holds one byte, so as many bytes are at some places as there
\* are places.
LEMMA PlacesAreTaken ==
    ASSUME NEW at \in SUBSET (1..CodewordBytes)
    PROVE  LET bytes == {i \in 1..CodewordBytes : Place[i] \in at}
           IN  /\ {EncodeEcc[p] : p \in at} = bytes
               /\ Cardinality(bytes) = Cardinality(at)
<1> DEFINE n == CodewordBytes
           bytes == {i \in 1..n : Place[i] \in at}
           f == [p \in at |-> EncodeEcc[p]]
<1>1. /\ Place \in [1..n -> 1..n] /\ \A i \in 1..n : EncodeEcc[Place[i]] = i
  BY EncodedFacts
<1>2. IsFiniteSet(1..n)
  BY CodewordFacts, FS_Interval
<1>3. Place \in Injection(1..n, 1..n)
  <2>1. \A a, b \in 1..n : Place[a] = Place[b] => a = b
    BY <1>1
  <2> QED
    BY <1>1, <2>1, Fun_IsInj
<1>4. Place \in Surjection(1..n, 1..n)
  <2> HIDE DEF n
  <2> QED
    BY <1>2, <1>3, FS_Injection
<1>5. \A p \in 1..n : \E i \in 1..n : Place[i] = p
  <2> HIDE DEF n
  <2> QED
    BY <1>4, Fun_SurjectionProperties
<1>6. ASSUME NEW p \in 1..n PROVE EncodeEcc[p] \in 1..n /\ Place[EncodeEcc[p]] = p
  BY <1>1, <1>5
<1>7. f \in [at -> bytes] /\ \A a, b \in at : f[a] = f[b] => a = b
  <2>1. \A p \in at : p \in 1..n
    OBVIOUS
  <2>2. \A p \in at : EncodeEcc[p] \in bytes
    BY <1>6, <2>1
  <2>3. \A a, b \in at : EncodeEcc[a] = EncodeEcc[b] => a = b
    BY <1>6, <2>1
  <2> QED
    BY <2>2, <2>3
<1>8. \A i \in bytes : \E p \in at : f[p] = i
  BY <1>1
<1>9. f \in Bijection(at, bytes)
  <2> HIDE DEF f, bytes
  <2> QED
    BY <1>7, <1>8, Fun_IsBij
<1>10. IsFiniteSet(at)
  BY <1>2, FS_Subset
<1>11. Cardinality(bytes) = Cardinality(at)
  <2> HIDE DEF f, bytes
  <2>1. ExistsBijection(at, bytes)
    BY <1>9 DEF ExistsBijection
  <2> QED
    BY <1>10, <2>1, FS_Bijection
<1>12. {EncodeEcc[p] : p \in at} = bytes
  <2>1. \A p \in at : EncodeEcc[p] \in bytes
    BY <1>6
  <2>2. \A i \in bytes : \E p \in at : EncodeEcc[p] = i
    BY <1>1
  <2> HIDE DEF bytes
  <2> QED
    BY <2>1, <2>2
<1> QED
  BY <1>11, <1>12

\* With any erasure claim the decoder is up to the damage outside the claim
\* and the claim itself, as if nothing had been interleaved.
LEMMA DecoderFacts ==
    ASSUME NEW damaged \in SUBSET (1..CodewordBytes), NEW erasures \in SUBSET (1..CodewordBytes),
           Cardinality(erasures) <= ParitySymbols,
           2 * Cardinality(damaged \ erasures) + Cardinality(erasures) <= ParitySymbols
    PROVE  DecodeEccWithErasures(DamageAt(EncodeEcc, damaged), erasures)
<1> DEFINE n == CodewordBytes
           d == InterleaveDepth
           codeword == DamageAt(EncodeEcc, damaged)
           raw == Deinterleave(codeword, d)
           BytesAt(places) == {i \in 1..n : Place[i] \in places}
           wrong == {i \in 1..n : raw[i] # RawCodeword[i]}
<1>1. /\ DOMAIN EncodeEcc = 1..n /\ Place \in [1..n -> 1..n]
      /\ \A i \in 1..n : EncodeEcc[Place[i]] = i
  BY EncodedFacts
<1>2. codeword = [p \in 1..n |-> IF p \in damaged THEN 0 ELSE EncodeEcc[p]]
  BY <1>1 DEF DamageAt, Damaged
<1>3. Len(codeword) = n
  <2>1. n \in Nat
    BY CodewordFacts
  <2> HIDE DEF n, codeword
  <2> QED
    BY <1>2, <2>1
<1>4. raw = [i \in 1..n |-> codeword[Place[i]]]
  <2> HIDE DEF codeword
  <2>1. raw = [i \in 1..n |-> codeword[Cursor(n, d)[(i - 1) % d] + (i - 1) \div d + 1]]
    BY <1>3 DEF Deinterleave
  <2>2. \A i \in 1..n : Place[i] = Cursor(n, d)[(i - 1) % d] + (i - 1) \div d + 1
    BY DEF Place
  <2> QED
    BY <2>1, <2>2
<1>5. wrong = BytesAt(damaged)
  <2>1. ASSUME NEW i \in 1..n PROVE raw[i] # RawCodeword[i] <=> Place[i] \in damaged
    <3> HIDE DEF raw, codeword
    <3>1. raw[i] = IF Place[i] \in damaged THEN 0 ELSE i
      BY <1>1, <1>2, <1>4
    <3>2. RawCodeword[i] = i /\ i # 0
      BY CodewordFacts
    <3> QED
      BY <3>1, <3>2
  <2> HIDE DEF raw
  <2> QED
    BY <2>1
<1>6. EncodeEcc = InterleaveBytes(RawCodeword, d)
  BY DEF EncodeEcc
<1>7. /\ {EncodeEcc[p] : p \in erasures} = BytesAt(erasures)
      /\ Cardinality(BytesAt(erasures)) = Cardinality(erasures)
  BY PlacesAreTaken
<1>8. Cardinality(BytesAt(damaged \ erasures)) = Cardinality(damaged \ erasures)
  <2>1. damaged \ erasures \in SUBSET (1..CodewordBytes)
    OBVIOUS
  <2> QED
    BY <2>1, PlacesAreTaken
<1>9. BytesAt(damaged) \ BytesAt(erasures) = BytesAt(damaged \ erasures)
  OBVIOUS
<1> HIDE DEF BytesAt, raw, codeword
<1>10. ReedSolomonCorrects(wrong, {EncodeEcc[p] : p \in erasures})
  <2>1. ReedSolomonCorrects(BytesAt(damaged), BytesAt(erasures))
    BY <1>7, <1>8, <1>9 DEF ReedSolomonCorrects
  <2> HIDE DEF wrong
  <2> QED
    BY <1>5, <1>7, <2>1
<1> QED
  BY <1>6, <1>10 DEF DecodeEccWithErasures, raw, codeword

\* The budget has been halved down to no erasures.
LEMMA LadderEnds == 0 \in ErasureCounts
<1> DEFINE P == ParitySymbols
           step == [k \in 1..P |-> [c \in Nat |-> c \div 2]]
           count == CHOOSE c : c = [k \in 0..P |-> IF k = 0 THEN P ELSE c[k - 1] \div 2]
<1>1. P \in Nat
  BY CodewordFacts
<1>2. ErasureCounts = {count[k] : k \in 0..P}
  BY DEF ErasureCounts
<1>3. PICK g \in [0..P -> Nat] : g[0] = P /\ \A k \in 1..P : g[k] = step[k][g[k - 1]]
  <2>1. \A c \in Nat : c \div 2 \in Nat
    BY Z3
  <2>2. step \in [1..P -> [Nat -> Nat]]
    BY <2>1
  <2> HIDE DEF step, P
  <2>3. \E g : IsLoop(g, P, Nat, P, step)
    BY <1>1, <2>2, Iterates
  <2> QED
    BY <2>3 DEF IsLoop
<1>4. g = [k \in 0..P |-> IF k = 0 THEN P ELSE g[k - 1] \div 2]
  <2>1. ASSUME NEW k \in 1..P PROVE g[k] = g[k - 1] \div 2
    <3>1. g[k] = step[k][g[k - 1]] /\ g[k - 1] \in Nat
      BY <1>1, <1>3
    <3> QED
      BY <3>1
  <2> HIDE DEF step, P
  <2>2. ASSUME NEW k \in 0..P PROVE g[k] = IF k = 0 THEN P ELSE g[k - 1] \div 2
    BY <1>1, <1>3, <2>1
  <2> QED
    BY <1>3, <2>2
<1>5. count = [k \in 0..P |-> IF k = 0 THEN P ELSE count[k - 1] \div 2]
  <2> HIDE DEF P, step
  <2> QED
    BY <1>4
<1> HIDE DEF count, step, P
<1>6. count[0] = P /\ \A k \in 1..P : count[k] = count[k - 1] \div 2
  BY <1>1, <1>5
<1> DEFINE S == {k \in 0..P : ~(count[k] \in Nat /\ count[k] <= P - k)}
<1>7. S = {}
  <2> SUFFICES ASSUME S # {} PROVE FALSE
    OBVIOUS
  <2>1. PICK k \in S : \A j \in S : k <= j
    <3>1. S \in SUBSET Nat
      BY <1>1
    <3> HIDE DEF S
    <3> QED
      BY <3>1, LeastNatural
  <2>2. k # 0
    BY <1>1, <1>6, <2>1
  <2>3. k \in 1..P /\ k - 1 \in 0..P /\ ~(k <= k - 1)
    BY <1>1, <2>1, <2>2
  <2>4. k - 1 \notin S
    <3> HIDE DEF S
    <3> QED
      BY <2>1, <2>3
  <2>5. count[k - 1] \in Nat /\ count[k - 1] <= P - (k - 1)
    BY <2>3, <2>4
  <2>6. \A c \in Nat : c \div 2 \in Nat /\ (c > 0 => c \div 2 <= c - 1) /\ (c = 0 => c \div 2 = 0)
    BY Z3
  <2>7. count[k] \in Nat /\ count[k] <= P - k
    <3> DEFINE c == count[k - 1]
    <3>1. count[k] = c \div 2
      BY <1>6, <2>3
    <3>2. c \in Nat /\ c <= P - (k - 1)
      BY <2>5
    <3>3. c \div 2 \in Nat /\ (c > 0 => c \div 2 <= c - 1) /\ (c = 0 => c \div 2 = 0)
      BY <2>6, <3>2
    <3> DEFINE half == c \div 2
    <3> HIDE DEF c, half
    <3>4. half \in Nat /\ (c > 0 => half <= c - 1) /\ (c = 0 => half = 0) /\ count[k] = half
      BY <3>1, <3>3 DEF half
    <3> QED
      BY <1>1, <2>3, <3>2, <3>4
  <2> QED
    BY <2>1, <2>7
<1>8. P \in 0..P /\ P \notin S
  BY <1>1, <1>7
<1>9. count[P] \in Nat /\ count[P] <= P - P
  BY <1>8
<1>10. count[P] = 0
  BY <1>1, <1>9
<1> QED
  BY <1>2, <1>8, <1>10

(* Whatever bytes are damaged and claimed, the ladder decodes every codeword *)
(* that is decodable with the claim or without one (erasure_ladder() and    *)
(* decode_ecc_with_erasures() of ecc.py).                                   *)
THEOREM LadderIsComplete == LadderRecovers
<1> SUFFICES ASSUME NEW damaged \in SUBSET (1..CodewordBytes),
                    NEW claim \in SUBSET (1..CodewordBytes), NEW ranking \in Rankings,
                    \/ 2 * Cardinality(damaged) <= ParitySymbols
                    \/ 2 * Cardinality(damaged \ claim) + Cardinality(claim) <= ParitySymbols
             PROVE  LadderDecodes(DamageAt(EncodeEcc, damaged), claim, ranking)
  BY DEF LadderRecovers
<1>1. IsFiniteSet(1..CodewordBytes)
  BY CodewordFacts, FS_Interval
<1>2. \A places \in SUBSET (1..CodewordBytes) : Cardinality(places) \in Nat
  BY <1>1, FS_Subset, FS_CardinalityType
<1>3. CASE 2 * Cardinality(damaged \ claim) + Cardinality(claim) <= ParitySymbols
  <2>1. Cardinality(damaged \ claim) \in Nat /\ Cardinality(claim) \in Nat
    <3>1. damaged \ claim \in SUBSET (1..CodewordBytes)
      OBVIOUS
    <3> QED
      BY <1>2, <3>1
  <2>2. Cardinality(claim) <= ParitySymbols
    BY <1>3, <2>1, CodewordFacts
  <2>3. DecodeEccWithErasures(DamageAt(EncodeEcc, damaged), claim)
    BY <1>3, <2>2, DecoderFacts
  <2>4. claim \in ErasureLadder(claim, ranking)
    BY DEF ErasureLadder
  <2> QED
    BY <2>3, <2>4 DEF LadderDecodes
<1>4. CASE 2 * Cardinality(damaged) <= ParitySymbols
  <2>1. {} \in SUBSET (1..CodewordBytes) /\ Cardinality({}) = 0 /\ damaged \ {} = damaged
    BY FS_EmptySet
  <2>2. Cardinality(damaged) \in Nat
    BY <1>2
  <2>3. /\ 2 * Cardinality(damaged \ {}) + Cardinality({}) <= ParitySymbols
        /\ Cardinality({}) <= ParitySymbols
    BY <1>4, <2>1, <2>2, CodewordFacts
  <2>4. DecodeEccWithErasures(DamageAt(EncodeEcc, damaged), {})
    BY <2>1, <2>3, DecoderFacts
  <2>5. Len(ranking) = CodewordBytes
    BY CodewordFacts DEF Rankings
  <2>6. ToSet(SubSeq(ranking, 1, 0)) = {}
    BY DEF ToSet
  <2>7. 0 \in {c \in ErasureCounts : c <= Len(ranking)}
    BY <2>5, LadderEnds, CodewordFacts
  <2>8. {} \in ErasureLadder(claim, ranking)
    BY <2>6, <2>7 DEF ErasureLadder
  <2> QED
    BY <2>4, <2>8 DEF LadderDecodes
<1> QED
  BY <1>3, <1>4

(* For any length of the message, any number of parity symbols and any     *)
(* depth of the interleaver: a codeword damaged within what the code        *)
(* affords is recovered, whatever the receiver claims to have lost          *)
(* (erasure_ladder() and deinterleave() of ecc.py).                         *)
THEOREM CodewordsRecovered == Spec => []CodewordsAreRecovered
<1>1. CodewordsAreRecovered
  BY LadderIsComplete DEF CodewordsAreRecovered
<1> QED
  BY <1>1, PTL
=============================================================================
