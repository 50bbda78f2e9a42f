--------------------------- MODULE EvidencePipeline ---------------------------
(***************************************************************************)
(* The life of benchmark evidence on disk: runners that execute a plan row *)
(* by row into a shared checkpoint and export it (runner.py), the V2 and   *)
(* V3 pre-gates that publish a selection of candidates (pregate_v2.py,     *)
(* pregate_v3.py), the full run that loads such a selection, and the V1    *)
(* promotion script that turns evidence into a released profile            *)
(* (promotion.py, scripts/promote_profile.py).                             *)
(*                                                                         *)
(* All of them work on one output directory.  Files are replaced           *)
(* atomically; a file's hash is modelled by its content.  A process may    *)
(* die between any two of its steps.  version says which of the three      *)
(* programs runs on the directory.                                         *)
(***************************************************************************)
EXTENDS EvidenceGates, TLC

CONSTANTS
    Runners,      \* processes that run the benchmark in the directory
    Settings,     \* which program runs, what its signal processing meets, and
                  \* the release that is there before
    RowBudgets,   \* the values of max_rows
    MaxStarts,    \* bound: runs of the benchmark
    MaxReads      \* bound: runs of the selection's reader or of the promotion

ASSUME PipelineAssumption ==
    /\ RowBudgets \subseteq Nat \ {0}
    /\ MaxStarts \in Nat /\ MaxReads \in Nat
    /\ \A setting \in Settings :
          /\ setting.version \in Versions
          /\ setting.old = Null \/ setting.version = 1
          /\ setting.old \notin Candidates
          /\ setting.world.left \in 0..Repetitions
    /\ Null \notin Candidates

VARIABLES
    version, world,   \* fixed at the start
    identity,         \* run_identity in the checkpoint, Null before the first run
    rows,             \* result_rows of the checkpoint: plan ordinal -> cell or NoRow
    disk,             \* the files
    runner,           \* the runner processes
    starts,           \* number of runs started
    reader,           \* the process that reads the evidence
    reads,            \* number of times it was started
    accepted,         \* the candidates a full run was planned with
    stuck             \* a release could not be deleted

evidence == <<identity, rows>>
vars == <<version, world, identity, rows, disk, runner, starts, reader, reads, accepted, stuck>>

Ordinals == 1..PlannedRows
NoRow == 0
NoRows == [o \in Ordinals |-> NoRow]
Present == {o \in Ordinals : rows[o] # NoRow}
OtherPlan == IF version = 2 THEN "reseeded" ELSE "smoke"

(* A results file: the plan its rows name, and the rows.  A file that does  *)
(* not exist is the null of its kind.                                       *)
Table(plan, cells) == [plan |-> plan, rows |-> cells]
NoTable == Table(Null, NoRows)
Completed(table) == {o \in Ordinals : table.rows[o] # NoRow}
RunnerSummary(table) == [from |-> "runner", table |-> table, csv |-> NoTable, qualified |-> {}]
PreGateSummaryV2(table, qualified) ==
    [from |-> "pregate", table |-> table, csv |-> NoTable, qualified |-> qualified]
PreGateSummaryV3(table, csv, qualified) ==
    [from |-> "pregate", table |-> table, csv |-> csv, qualified |-> qualified]
NoSummary == [from |-> Null, table |-> NoTable, csv |-> NoTable, qualified |-> {}]
Selection(plan, table, csv, summary, ids) ==
    [plan |-> plan, table |-> table, csv |-> csv, summary |-> summary, ids |-> ids]
EmptySelection(plan) == Selection(plan, NoTable, NoTable, NoSummary, {})
NoSelection == EmptySelection(Null)

IdleRunner == [pc |-> "idle", plan |-> "required", budget |-> 0, existing |-> {},
               cursor |-> 0, table |-> NoTable, csv |-> NoTable, qualified |-> {}, number |-> 0]
IdleReader == [pc |-> "idle", selection |-> NoSelection, summary |-> NoSummary, table |-> NoTable]

(* A directory is new, or holds the release of an older benchmark. *)
Init ==
    /\ \E setting \in Settings :
          /\ version = setting.version
          /\ world = setting.world
          /\ disk = [results |-> NoTable, csv |-> NoTable,
                     summary |-> NoSummary, selection |-> NoSelection,
                     release |-> setting.old, report |-> setting.old]
    /\ identity = Null
    /\ rows = NoRows
    /\ runner = [p \in Runners |-> IdleRunner]
    /\ starts = 0
    /\ reader = IdleReader
    /\ reads = 0
    /\ accepted = {}
    /\ stuck = FALSE

---------------------------------------------------------------------------
(* Files and rows.                                                          *)

(* What a cell stands for, and whether it is valid, tabulated over the      *)
(* settings                                                                 *)
Cells == (-MaxStarts..MaxStarts) \ {NoRow}
RowOf == [setting \in Settings |-> [o \in Ordinals |-> [cell \in Cells |->
             ExecuteRow(setting.version, setting.world, CaseAt(o), cell)]]]
RowAccepted == [setting \in Settings |-> [o \in Ordinals |-> [cell \in Cells |->
                   RowIsValid(setting.version, setting.world, RowOf[setting][o][cell])]]]
Setup == CHOOSE s \in Settings : s.version = version /\ s.world = world
MeasuredRows(table) == {RowOf[Setup][o][table.rows[o]] : o \in Completed(table)}

(* _validate_rows(): every row is planned and valid, and none is missing *)
RowsAreValid(table, plan, complete) ==
    /\ table.plan = plan
    /\ Completed(table) \subseteq PlanCases(plan)
    /\ complete => Completed(table) = PlanCases(plan)
    /\ \A o \in Completed(table) : RowAccepted[Setup][o][table.rows[o]]

---------------------------------------------------------------------------
(* The runner.                                                              *)

At(p, pc) == runner[p].pc = pc
Step(p, r) == runner' = [runner EXCEPT ![p] = r]
MoveTo(p, pc) == runner' = [runner EXCEPT ![p].pc = pc]
Abort(p) == Step(p, IdleRunner)
RunnerOnly == UNCHANGED <<version, world, starts, reader, reads, accepted, stuck>>

(* run_matrix(), run_v2_pregate() or run_v3_pregate(), with max_rows *)
StartRun(p, plan, budget) ==
    /\ At(p, "idle") /\ starts < MaxStarts
    /\ starts' = starts + 1
    /\ Step(p, [IdleRunner EXCEPT !.pc = IF version = 1 THEN "open" ELSE "invalidate",
                                  !.plan = plan, !.budget = budget, !.number = starts + 1])
    /\ UNCHANGED <<version, world, disk, reader, reads, accepted, stuck>> /\ UNCHANGED evidence

(* The selection is emptied before the checkpoint is even opened. *)
InvalidateSelection(p) ==
    /\ At(p, "invalidate")
    /\ disk' = [disk EXCEPT !.selection = EmptySelection(runner[p].plan)]
    /\ MoveTo(p, "open")
    /\ RunnerOnly /\ UNCHANGED evidence

(* _initialize_checkpoint() and the read of the existing row ids *)
OpenCheckpoint(p) ==
    /\ At(p, "open")
    /\ \/ /\ identity \in {Null, runner[p].plan}
          /\ identity' = runner[p].plan
          /\ Step(p, [runner[p] EXCEPT !.pc = "run", !.existing = Present])
       \/ /\ identity \notin {Null, runner[p].plan}
          /\ Abort(p) /\ UNCHANGED identity
    /\ RunnerOnly /\ UNCHANGED <<rows, disk>>

(* The scheduled cases of the plan, in order; existing is not read again. *)
Scheduled(p) ==
    {o \in PlanCases(runner[p].plan) : o > runner[p].cursor /\ o \notin runner[p].existing}
MayExecute(p) == At(p, "run") /\ runner[p].budget > 0 /\ Scheduled(p) # {}
CellsOf(o, number) ==
    IF HowDeviant(world, CaseAt(o)) = "decode" THEN {number, -number} ELSE {number}

(* A row that replaces the one another run has inserted. *)
InsertOrReplaceRow(p) ==
    /\ MayExecute(p)
    /\ LET o == Min(Scheduled(p))
       IN  /\ \E cell \in CellsOf(o, runner[p].number) : rows' = [rows EXCEPT ![o] = cell]
           /\ Step(p, [runner[p] EXCEPT !.cursor = o, !.budget = @ - 1])
    /\ RunnerOnly /\ UNCHANGED <<identity, disk>>

(* _execute_row(), INSERT and commit: a row another run has inserted since  *)
(* is a primary-key error, which ends the run without an export.            *)
InsertRow(p) ==
    /\ MayExecute(p)
    /\ LET o == Min(Scheduled(p))
       IN  \/ /\ o \notin Present
              /\ \E cell \in CellsOf(o, runner[p].number) : rows' = [rows EXCEPT ![o] = cell]
              /\ Step(p, [runner[p] EXCEPT !.cursor = o, !.budget = @ - 1])
           \/ o \in Present /\ Abort(p) /\ UNCHANGED rows
    /\ RunnerOnly /\ UNCHANGED <<identity, disk>>

(* The end of the loop, and the SELECT of _export_artifacts() *)
CollectRows(p) ==
    /\ At(p, "run") /\ ~MayExecute(p)
    /\ Step(p, [runner[p] EXCEPT !.pc = "results", !.existing = {}, !.cursor = 0, !.budget = 0,
                                 !.table = Table(runner[p].plan, rows)])
    /\ RunnerOnly /\ UNCHANGED <<disk>> /\ UNCHANGED evidence

(* _export_artifacts(): three files, one after the other *)
ExportResults(p) ==
    /\ At(p, "results")
    /\ disk' = [disk EXCEPT !.results = runner[p].table]
    /\ MoveTo(p, "csv")
    /\ RunnerOnly /\ UNCHANGED evidence
ExportCsv(p) ==
    /\ At(p, "csv")
    /\ disk' = [disk EXCEPT !.csv = runner[p].table]
    /\ MoveTo(p, "summary")
    /\ RunnerOnly /\ UNCHANGED evidence
ExportSummary(p) ==
    /\ At(p, "summary")
    /\ disk' = [disk EXCEPT !.summary = RunnerSummary(runner[p].table)]
    /\ IF version = 1 THEN Abort(p) ELSE MoveTo(p, "read")
    /\ RunnerOnly /\ UNCHANGED evidence

(* The pre-gate reads the files back, validates the rows and scores them;   *)
(* V3 hashes the CSV file too.                                              *)
ReadResultsBack(p) ==
    /\ At(p, "read")
    /\ IF RowsAreValid(disk.results, runner[p].plan, FALSE)
       THEN \E measured \in {MeasuredRows(disk.results)} :
              Step(p, [runner[p] EXCEPT
                !.pc = IF version = 3 THEN "readcsv" ELSE "score", !.table = disk.results,
                !.qualified = Qualified(version, measured, runner[p].plan)])
       ELSE Abort(p)
    /\ RunnerOnly /\ UNCHANGED <<disk>> /\ UNCHANGED evidence
ReadCsvBack(p) ==
    /\ At(p, "readcsv")
    /\ Step(p, [runner[p] EXCEPT !.pc = "score", !.csv = disk.csv])
    /\ RunnerOnly /\ UNCHANGED <<disk>> /\ UNCHANGED evidence
SummaryOf(r) ==
    IF version = 3 THEN PreGateSummaryV3(r.table, r.csv, r.qualified)
    ELSE PreGateSummaryV2(r.table, r.qualified)
WriteSummary(p) ==
    /\ At(p, "score")
    /\ disk' = [disk EXCEPT !.summary = SummaryOf(runner[p])]
    /\ MoveTo(p, "select")
    /\ RunnerOnly /\ UNCHANGED evidence

(* The selection is published last, bound to the files by their hashes. *)
WriteSelection(p) ==
    /\ At(p, "select")
    /\ LET r == runner[p]
       IN  disk' = [disk EXCEPT !.selection =
                        Selection(r.plan, r.table, r.csv, SummaryOf(r), r.qualified)]
    /\ Abort(p)
    /\ RunnerOnly /\ UNCHANGED evidence

CrashRun(p) ==
    /\ ~At(p, "idle")
    /\ Abort(p)
    /\ RunnerOnly /\ UNCHANGED <<disk>> /\ UNCHANGED evidence

Run(p) ==
    \/ \E plan \in {"required", OtherPlan}, budget \in RowBudgets : StartRun(p, plan, budget)
    \/ InvalidateSelection(p) \/ OpenCheckpoint(p) \/ InsertRow(p) \/ CollectRows(p)
    \/ ExportResults(p) \/ ExportCsv(p) \/ ExportSummary(p)
    \/ ReadResultsBack(p) \/ ReadCsvBack(p) \/ WriteSummary(p) \/ WriteSelection(p)
    \/ CrashRun(p)

---------------------------------------------------------------------------
(* A full V2 or V3 run plans itself from the selection.                     *)

ReaderOnly == UNCHANGED <<version, world, runner, starts, reads>> /\ UNCHANGED evidence
ReaderAt(pc) == reader.pc = pc
Reader(r) == reader' = r
ReaderTo(pc) == reader' = [reader EXCEPT !.pc = pc]
NothingWritten == UNCHANGED <<disk, accepted, stuck>>

StartRead ==
    /\ ReaderAt("idle") /\ reads < MaxReads
    /\ reads' = reads + 1
    /\ ReaderTo(IF version = 1 THEN "load" ELSE "selection")
    /\ NothingWritten
    /\ UNCHANGED <<version, world, runner, starts>> /\ UNCHANGED evidence

(* The loader of a selection writes nothing, so only the promotion script's *)
(* death matters.                                                           *)
CrashRead ==
    /\ version = 1 /\ ~ReaderAt("idle")
    /\ Reader(IdleReader)
    /\ ReaderOnly /\ NothingWritten

(* load_qualified_candidate_selection*(): the selection, and the hashes of  *)
(* the files beside it.  Any difference ends the reader with an exception.  *)
ReadSelection ==
    /\ ReaderAt("selection")
    /\ IF disk.selection = NoSelection THEN Reader(IdleReader)
       ELSE Reader([reader EXCEPT !.pc = "hashes", !.selection = disk.selection])
    /\ ReaderOnly /\ NothingWritten
CompareSummaryHash ==
    /\ ReaderAt("hashes")
    /\ IF disk.summary # NoSummary /\ disk.summary = reader.selection.summary
       THEN ReaderTo("tables") ELSE Reader(IdleReader)
    /\ ReaderOnly /\ NothingWritten
CompareTableHashes ==
    /\ ReaderAt("tables")
    /\ IF /\ disk.results = reader.selection.table
          /\ version = 3 => disk.csv = reader.selection.csv
       THEN ReaderTo("document") ELSE Reader(IdleReader)
    /\ ReaderOnly /\ NothingWritten

(* load_v2_pregate_summary() reads both files again, ... *)
ReadSummaryAgain ==
    /\ ReaderAt("document")
    /\ IF disk.summary.from = "pregate"
       THEN Reader([reader EXCEPT !.pc = "rebuild", !.summary = disk.summary])
       ELSE Reader(IdleReader)
    /\ ReaderOnly /\ NothingWritten

(* ... validates every row and rebuilds scores, status and hashes from them *)
SummaryIsRebuiltV2(document, table) ==
    /\ RowsAreValid(table, "required", TRUE)
    /\ document.table = table
    /\ PopulationIsValidV2(MeasuredRows(table))
SummaryIsRebuiltV3(document, table) ==
    /\ RowsAreValid(table, "required", TRUE)
    /\ document.table = table
    /\ document.csv = disk.csv
    /\ PopulationIsValidV3(MeasuredRows(table))
SummaryIsRebuilt(document, table) ==
    IF version = 3 THEN SummaryIsRebuiltV3(document, table) ELSE SummaryIsRebuiltV2(document, table)

(* select_qualified_candidates() and select_qualified_candidates_v3() *)
SelectedIdsV2(table) == QualifiedV2(MeasuredRows(table))
SelectedIdsV3(table) == QualifiedV3(MeasuredRows(table), "required")
SelectedIds(table) == IF version = 3 THEN SelectedIdsV3(table) ELSE SelectedIdsV2(table)

(* build_execution_plan() refuses an empty selection. *)
AcceptSelection ==
    /\ ReaderAt("rebuild")
    /\ IF /\ disk.results # NoTable
          /\ SummaryIsRebuilt(reader.summary, disk.results)
          /\ reader.summary.qualified = SelectedIds(disk.results)
          /\ reader.selection.plan = "required"
          /\ reader.selection.ids = SelectedIds(disk.results)
          /\ reader.selection.ids # {}
       THEN accepted' = reader.selection.ids
       ELSE UNCHANGED accepted
    /\ Reader(IdleReader)
    /\ ReaderOnly /\ UNCHANGED <<disk, stuck>>

LoadSelection ==
    ReadSelection \/ CompareSummaryHash \/ CompareTableHashes \/ ReadSummaryAgain \/ AcceptSelection

---------------------------------------------------------------------------
(* The V1 promotion script.                                                 *)

(* ensure_release_absent(), which the script tolerates failing *)
RemoveRelease ==
    \/ disk' = [disk EXCEPT !.release = Null] /\ UNCHANGED stuck
    \/ disk.release # Null /\ stuck' = TRUE /\ UNCHANGED disk

(* _validate_required_plan(): seed, population and contract hashes *)
PlanIsRequired(plan) == plan = "required"

(* _validate_summary_document(): the runner's own summary, complete, of the *)
(* required plan                                                            *)
SummaryIsPromotable(summary) ==
    /\ summary # NoSummary
    /\ PlanIsRequired(summary.table.plan)
    /\ Completed(summary.table) = Ordinals

(* _validate_baseline_summary_identity(), on what was loaded *)
HasBaselineIdentity(table) ==
    /\ Errors(MeasuredRows(table)) = {}
    /\ PlanIsRequired(table.plan)
    /\ Completed(table) = Ordinals

LoadBenchmarkSummary ==
    /\ ReaderAt("load")
    /\ IF SummaryIsPromotable(disk.summary)
       THEN Reader([reader EXCEPT !.pc = "rows", !.summary = disk.summary])
       ELSE ReaderTo("reject")
    /\ ReaderOnly /\ NothingWritten

(* The rest of load_benchmark_summary(): row checks, then the error count.  *)
(* Errors make the benchmark NonPromotable; other evidence is ranked, and   *)
(* NoEligibleProfile ends the promotion too.                                *)
LoadBenchmarkRows ==
    /\ ReaderAt("rows")
    /\ LET table    == disk.results
           measured == MeasuredRows(table)
       IN  IF \/ table = NoTable
              \/ ~RowsAreValid(table, "required", TRUE)
              \/ Cardinality(Errors(measured)) #
                   Cardinality(FailedRows(MeasuredRows(reader.summary.table)))
           THEN ReaderTo("reject")
           ELSE IF Errors(measured) # {} \/ EligibleProfiles(measured) = {}
           THEN ReaderTo("norelease")
           ELSE Reader([reader EXCEPT !.pc = "preflight", !.table = table])
    /\ ReaderOnly /\ NothingWritten

(* A load that fails for another reason removes the release only. *)
RejectEvidence ==
    /\ ReaderAt("reject")
    /\ RemoveRelease
    /\ Reader(IdleReader)
    /\ ReaderOnly /\ UNCHANGED accepted

(* _record_failed_promotion() and the handler of NoEligibleProfile: the     *)
(* release goes first, then the report says so; of a report that cannot be  *)
(* written the former tries to remove the release once more.                *)
RemoveFailedRelease ==
    /\ ReaderAt("norelease")
    /\ RemoveRelease
    /\ ReaderTo("noreport")
    /\ ReaderOnly /\ UNCHANGED accepted
ReportNoRelease ==
    /\ ReaderAt("noreport")
    /\ \/ disk' = [disk EXCEPT !.report = "no release"] /\ UNCHANGED stuck
       \/ UNCHANGED <<disk, stuck>>
       \/ RemoveRelease
    /\ Reader(IdleReader)
    /\ ReaderOnly /\ UNCHANGED accepted

Staged == BestProfile(MeasuredRows(reader.table))

(* promote_profile() into a scratch directory, which an OSError may end,    *)
(* and _preflight_release(): an existing release must have the same bytes.  *)
PreflightRelease ==
    /\ ReaderAt("preflight")
    /\ \/ /\ HasBaselineIdentity(reader.table) /\ disk.release \in {Null, Staged}
          /\ ReaderTo("report")
       \/ ReaderTo("cleanup")
    /\ ReaderOnly /\ NothingWritten

(* Publication first, and the report only in a later step. *)
WriteReportLate ==
    /\ ReaderAt("report")
    /\ disk' = [disk EXCEPT !.release = Staged]
    /\ ReaderTo("publish")
    /\ ReaderOnly /\ UNCHANGED <<accepted, stuck>>

(* write_evaluation_report() comes before the release is published. *)
WriteReport ==
    /\ ReaderAt("report")
    /\ \/ disk' = [disk EXCEPT !.report = Staged] /\ ReaderTo("publish")
       \/ UNCHANGED disk /\ ReaderTo("cleanup")
    /\ ReaderOnly /\ UNCHANGED <<accepted, stuck>>

(* _publish_staged_release(): an OSError before or after the replacement    *)
(* (of the scratch directory, for one) leads to the cleanup.                *)
PublishRelease ==
    /\ ReaderAt("publish")
    /\ \/ /\ disk.release \in {Null, Staged}
          /\ disk' = [disk EXCEPT !.release = Staged]
          /\ Reader(IdleReader) \/ ReaderTo("cleanup")
       \/ UNCHANGED disk /\ ReaderTo("cleanup")
    /\ ReaderOnly /\ UNCHANGED <<accepted, stuck>>

(* The handler of OSError and ValueError removes release and report. *)
CleanUpRelease ==
    /\ ReaderAt("cleanup")
    /\ RemoveRelease
    /\ ReaderTo("unreport")
    /\ ReaderOnly /\ UNCHANGED accepted
CleanUpReport ==
    /\ ReaderAt("unreport")
    /\ disk' \in {[disk EXCEPT !.report = Null], disk}
    /\ Reader(IdleReader)
    /\ ReaderOnly /\ UNCHANGED <<accepted, stuck>>

PromoteProfile ==
    \/ LoadBenchmarkSummary \/ LoadBenchmarkRows \/ RejectEvidence
    \/ RemoveFailedRelease \/ ReportNoRelease
    \/ PreflightRelease \/ WriteReport \/ PublishRelease
    \/ CleanUpRelease \/ CleanUpReport

Next ==
    \/ \E p \in Runners : Run(p)
    \/ StartRead \/ CrashRead
    \/ LoadSelection
    \/ PromoteProfile

Spec == Init /\ [][Next]_vars

---------------------------------------------------------------------------
(* Properties.                                                              *)

(* What a candidate deserves, told from the world and not from any count:   *)
(* every case of the plan was measured and none failed, no case of the      *)
(* candidate names a wrong issuance, its required attacks are survived on   *)
(* the positive pages, a crop that leaves two tiles included, and its       *)
(* quality is good.                                                         *)
NamedIn(case) == DecodeCase(version, world, case).id
Survives(c, attack, percent) ==
    LET pages == {page \in PositivePages :
                    RemainingTiles(world, attack) >= 2 \/ attack # "crop"}
        good  == {page \in pages :
                    NamedIn([page |-> page, candidate |-> c, attack |-> attack]) = "own"}
    IN  pages # {} /\ 100 * Cardinality(good) >= percent * Cardinality(pages)
Deserves(c) ==
    /\ Present = Ordinals
    /\ \A o \in Ordinals : ErrorOf(version, world, CaseAt(o), rows[o]) = "none"
    /\ \A o \in Ordinals : CaseAt(o).candidate = c =>
          NamedIn(CaseAt(o)) \in {NoId, ExpectedId(CaseAt(o))}
    /\ Survives(c, "jpeg", 95) /\ Survives(c, "resize", 95) /\ Survives(c, "crop", 90)
    /\ c \notin world.poor

(* A selection lists, and a full run is planned with, only candidates that  *)
(* deserve it: no crash, partial run, second run in the same directory or   *)
(* other plan attaches a qualified list to evidence that does not carry it  *)
(* (the promise of pregate_v2.py:219-221), and V3 selects all or none.      *)
SelectionIsEarned ==
    /\ \A c \in disk.selection.ids : Deserves(c)
    /\ \A c \in accepted : Deserves(c)
    /\ accepted # {} => identity = "required"
    /\ version = 3 => accepted \in {{}, Candidates}

(* A released profile deserves it, by the complete error-free benchmark of  *)
(* the required plan (promotion.py:114-137 and 224-313).                    *)
ReleaseIsEarned ==
    disk.release \in Candidates =>
        /\ Deserves(disk.release)
        /\ identity = "required"

(* A release never stands without the report that describes it, whatever    *)
(* step the script dies at or fails in, unless the release could not be     *)
(* deleted (scripts/promote_profile.py:41-88).                              *)
ReleaseHasItsReport ==
    disk.release # Null /\ ~stuck => disk.report = disk.release

(* Committed evidence is final: no run replaces a row, drops one or changes *)
(* whose evidence the checkpoint is (runner.py:257-274 and 1270-1280).      *)
EvidenceIsFinal ==
    [][/\ \A o \in Present : o \in Present' /\ rows'[o] = rows[o]
       /\ identity # Null => identity' = identity]_vars
=============================================================================
