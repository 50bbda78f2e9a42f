---------------------------- MODULE EvidenceGates ----------------------------
(***************************************************************************)
(* The readers of benchmark rows: what the V2 and V3 pre-gates and the V1  *)
(* promotion accept as a row, how they score a candidate from its rows and *)
(* which candidates pass (pregate_v2.py, pregate_v3.py, promotion.py).     *)
(***************************************************************************)
EXTENDS BenchmarkEvidence

(* _validate_measurement_fields() *)
MeasurementFieldsAreValid(row) ==
    /\ row.confidence \in 0..100
    /\ row.votes \in Nat
    /\ row.why \in {"eligible", "at_least_two", "fewer_than_two"}
    /\ row.quality = "infinite" \/ IsPositive(row.case)

(* _validate_v2_evidence_values() and, with the conflicting evidence that   *)
(* only V3 reports, _validate_v3_evidence_values()                          *)
EvidenceValuesAreValid(row, payloadStatuses) ==
    /\ row.votes <= Repetitions
    /\ CASE row.status = "decoded"          -> row.votes >= 2 /\ row.ber
         [] row.status \in payloadStatuses  -> row.votes >= 1 /\ row.ber
         [] OTHER                           -> row.votes = 0 /\ ~row.ber
EvidenceValuesV2(row) == EvidenceValuesAreValid(row, {"partial_payload_evidence"})
EvidenceValuesV3(row) ==
    EvidenceValuesAreValid(row, {"partial_payload_evidence", "conflicting_payload_evidence"})

(* The status fixes the reason; V2 has no conflicting evidence. *)
StatusAgrees(version, row) ==
    /\ row.status = "conflicting_payload_evidence" => version = 3
    /\ row.reason = MetricReason(row.status)
    /\ row.decoded # NoId <=> row.status = "decoded"

(* _validate_limitations(): whether the attacked page may be absent *)
ArtifactMayBeAbsent(row) ==
    IF row.reason # "execution_error" THEN {FALSE}
    ELSE IF row.limitation = "embedding" THEN {TRUE} ELSE {TRUE, FALSE}
LimitationsAreValid(row) == row.reason = "execution_error" <=> row.limitation # "none"

(* _validate_attack_evidence_for_state() *)
AttackEvidenceFor(row, absent) ==
    /\ row.truth = IF absent THEN "canvas" ELSE "attacked"
    /\ row.removed = IF ~absent THEN IF HasCrop(row.case.attack) THEN "crop" ELSE "nothing"
                     ELSE IF row.case.attack = "crop" /\ IsPositive(row.case) THEN "crop"
                     ELSE Null
(* _validate_reconstructed_attack_evidence() *)
AttackEvidenceIsValid(row) ==
    \E absent \in ArtifactMayBeAbsent(row) : AttackEvidenceFor(row, absent)

EligibilityIs(row, remaining) ==
    /\ row.remaining = remaining
    /\ row.eligible = IsEligible(remaining)
    /\ row.why = EligibilityReason(remaining)

(* _validate_crop_eligibility(): recomputed whether or not the case failed, *)
(* by V2 and V3 from tiles of their own                                     *)
PlannedRemainder(world, row) ==
    IF IsPositive(row.case) /\ row.case.attack = "crop"
    THEN RemainingTiles(world, row.case.attack) ELSE NoCount
CropEligibilityIsValidV2(world, row) == EligibilityIs(row, PlannedRemainder(world, row))
CropEligibilityIsValidV3(world, row) == EligibilityIs(row, PlannedRemainder(world, row))

(* _validate_rows() of the pre-gates, for one row *)
ProvenanceIsValid(row) == row.expected = ExpectedId(row.case)
RowIsValidV2(world, row) ==
    /\ ProvenanceIsValid(row) /\ MeasurementFieldsAreValid(row)
    /\ StatusAgrees(2, row) /\ EvidenceValuesV2(row)
    /\ LimitationsAreValid(row)
    /\ row.outcome = Outcome(row.expected, row.decoded, row.reason, row.reason = "execution_error")
    /\ CropEligibilityIsValidV2(world, row) /\ AttackEvidenceIsValid(row)
RowIsValidV3(world, row) ==
    /\ ProvenanceIsValid(row) /\ MeasurementFieldsAreValid(row)
    /\ StatusAgrees(3, row) /\ EvidenceValuesV3(row)
    /\ LimitationsAreValid(row)
    /\ row.outcome = Outcome(row.expected, row.decoded, row.reason, row.reason = "execution_error")
    /\ CropEligibilityIsValidV3(world, row) /\ AttackEvidenceIsValid(row)

(* _validate_row_provenance() and _validate_geometry_eligibility() of the   *)
(* promotion, which expects no geometry of a failed case.                   *)
RowProvenanceV1(row) ==
    /\ row.expected = ExpectedId(row.case)
    /\ row.reason \in {"execution_error", "decoded", "not_detected", "partial", "invalid_crc"}
CropOperation(attack) == HasCrop(attack)
GeometryEligibilityV1(world, row) ==
    EligibilityIs(row, IF /\ IsPositive(row.case)
                          /\ row.reason # "execution_error"
                          /\ CropOperation(row.case.attack)
                       THEN RemainingTiles(world, row.case.attack) ELSE NoCount)
RowIsValidV1(world, row) == RowProvenanceV1(row) /\ GeometryEligibilityV1(world, row)

RowIsValid(version, world, row) ==
    CASE version = 1 -> RowIsValidV1(world, row)
      [] version = 2 -> RowIsValidV2(world, row)
      [] OTHER       -> RowIsValidV3(world, row)

---------------------------------------------------------------------------
(* Scores and gates.                                                        *)

RowsOf(rows, c) == {r \in rows : r.case.candidate = c}
PositiveRows(rows, c, attack) ==
    {r \in RowsOf(rows, c) : r.expected # NoId /\ r.case.attack = attack}
Errors(rows) == {r \in rows : r.reason = "execution_error"}
FalseAttributions(rows) == {r \in rows : r.decoded # NoId /\ r.decoded # r.expected}

(* _decode_counts() *)
DecodeCounts(rows) ==
    [true  |-> Cardinality({r \in rows : r.reason # "execution_error" /\ r.decoded = r.expected}),
     total |-> Cardinality(rows)]

(* _rate() and its comparison; a rate without a denominator passes no gate *)
AtLeast(counts, percent) ==
    counts.total > 0 /\ 100 * counts.true >= percent * counts.total

(* One quality observation for each positive page that was embedded.  PSNR  *)
(* in dB; SSIM goes with it.                                                *)
Observations(rows, c) ==
    {<<r.case.page, r.quality>> : r \in
        {q \in RowsOf(rows, c) : q.expected # NoId /\ q.reason # "execution_error"}}
Decibel(quality) == IF quality = "poor" THEN 30 ELSE 40
PoorOnes(observations) == {x \in observations : x[2] = "poor"}
TotalDecibels(observations) ==
      Decibel("poor") * Cardinality(PoorOnes(observations))
    + Decibel("good") * Cardinality(observations \ PoorOnes(observations))
MeanDecibelAtLeast38(observations) ==
    observations # {} /\ TotalDecibels(observations) >= 38 * Cardinality(observations)
MinDecibelAtLeast38(observations) ==
    observations # {} /\ \A x \in observations : Decibel(x[2]) >= 38

(* The part of _aggregate_one() all three readers share *)
Aggregate(rows, c) ==
    [rows    |-> Cardinality(RowsOf(rows, c)),
     errors  |-> Cardinality(Errors(RowsOf(rows, c))),
     false   |-> Cardinality(FalseAttributions(RowsOf(rows, c))),
     jpeg    |-> DecodeCounts(PositiveRows(rows, c, "jpeg")),
     resize  |-> DecodeCounts(PositiveRows(rows, c, "resize")),
     crop    |-> DecodeCounts({r \in PositiveRows(rows, c, "crop") : r.eligible}),
     quality |-> Observations(rows, c)]
RatesPass(score) ==
    AtLeast(score.jpeg, 95) /\ AtLeast(score.resize, 95) /\ AtLeast(score.crop, 90)

(* _aggregate_one() of V2 counts the completed attacks on the gradient page *)
GradientPage == PageOrder[1]
GradientCompleted(rows, c) ==
    Cardinality({r \in RowsOf(rows, c) : r.case.page = GradientPage /\ r.reason # "execution_error"})

(* The ticks spent on the rows, each row's timing being so many of them *)
Ticks(rows) == UNION {{r} \X (1..r.timing) : r \in rows}

(* _aggregate_one() of each reader: V1 takes the mean quality and the time, *)
(* V2 the mean quality, V3 the worst quality.                           *)
AggregateV1(rows, c) ==
    LET score == Aggregate(rows, c)
    IN  [rows |-> score.rows, errors |-> score.errors, false |-> score.false,
         jpeg |-> score.jpeg, resize |-> score.resize, crop |-> score.crop,
         observations |-> Cardinality(score.quality),
         quality |-> MeanDecibelAtLeast38(score.quality),
         total   |-> TotalDecibels(score.quality),
         elapsed |-> Cardinality(Ticks(RowsOf(rows, c)))]
AggregateV3(rows, c) ==
    LET score == Aggregate(rows, c)
    IN  [rows |-> score.rows, errors |-> score.errors, false |-> score.false,
         jpeg |-> score.jpeg, resize |-> score.resize, crop |-> score.crop,
         observations |-> Cardinality(score.quality),
         quality |-> MinDecibelAtLeast38(score.quality)]

(* _score_passes() of V2 *)
ScorePassesV2(rows, c) ==
    LET score == Aggregate(rows, c)
    IN  /\ score.rows = Len(PageOrder) * Len(AttackOrder)
        /\ score.errors = 0 /\ score.false = 0
        /\ score.jpeg.total = Cardinality(PositivePages)
        /\ score.resize.total = Cardinality(PositivePages)
        /\ RatesPass(score)
        /\ Cardinality(score.quality) = Cardinality(PositivePages)
        /\ MeanDecibelAtLeast38(score.quality)
        /\ GradientCompleted(rows, c) = Len(AttackOrder)

(* _score_passes() of V3 *)
ScorePassesV3(rows, c) ==
    LET score == AggregateV3(rows, c)
    IN  /\ RatesPass(score)
        /\ score.false = 0 /\ score.errors = 0
        /\ score.quality

(* A state that counts the errors and not the rows. *)
EvidenceStateOfErrors(rows, planned) ==
    IF Errors(rows) # {} THEN "complete_with_errors" ELSE "complete"

(* _evidence_state() *)
EvidenceState(rows, planned) ==
    IF Cardinality(rows) # planned THEN "incomplete"
    ELSE IF Errors(rows) = {} THEN "complete" ELSE "complete_with_errors"

(* _qualified_ids() of V2: each candidate for itself *)
QualifiedV2(rows) ==
    IF EvidenceState(rows, PlannedRows) # "complete" THEN {}
    ELSE {c \in Candidates : ScorePassesV2(rows, c)}

(* _qualified_ids() of V3: all candidates or none, and never from a smoke run *)
QualifiedV3(rows, plan) ==
    IF \/ plan = "smoke"
       \/ EvidenceState(rows, PlannedRows) # "complete"
       \/ FalseAttributions(rows) # {}
       \/ \E c \in Candidates : ~ScorePassesV3(rows, c)
    THEN {} ELSE Candidates
Qualified(version, rows, plan) == IF version = 2 THEN QualifiedV2(rows) ELSE QualifiedV3(rows, plan)

(* V2 insists on every candidate's rows; V3's                               *)
(* _validate_candidate_score_population() also on the denominators, and     *)
(* raises where they are short.                                             *)
PopulationIsValidV2(rows) ==
    \A c \in Candidates : Aggregate(rows, c).rows = Len(PageOrder) * Len(AttackOrder)
PopulationIsValidV3(rows) ==
    \A c \in Candidates :
        LET score == AggregateV3(rows, c)
        IN  /\ score.rows = Len(PageOrder) * Len(AttackOrder)
            /\ score.jpeg.total = Cardinality(PositivePages)
            /\ score.resize.total = Cardinality(PositivePages)
            /\ score.crop.total > 0
            /\ score.observations = Cardinality(PositivePages)

(* Gate G1 without its count of false attributions. *)
PassesGateG1Attributing(rows, c) ==
    LET score == AggregateV1(rows, c)
    IN  /\ score.errors = 0
        /\ RatesPass(score)
        /\ score.quality

(* eligible_profiles() of the promotion: Gate G1 *)
PassesGateG1(rows, c) ==
    LET score == AggregateV1(rows, c)
    IN  /\ score.false = 0 /\ score.errors = 0
        /\ RatesPass(score)
        /\ score.quality
EligibleProfiles(rows) == {c \in Candidates : PassesGateG1(rows, c)}

(* The rank: quality, worst required rate, processing time, identifier *)
WorstRate(score) ==
    Min({Percent(score.jpeg.true, score.jpeg.total), Percent(score.resize.true, score.resize.total),
         Percent(score.crop.true, score.crop.total)})
RankKey(rows, c) ==
    LET score == AggregateV1(rows, c)
    IN  <<-score.total, -WorstRate(score), score.elapsed,
          CHOOSE k \in DOMAIN CandidateOrder : CandidateOrder[k] = c>>
RanksBefore(a, b) ==
    \E k \in DOMAIN a : a[k] < b[k] /\ \A j \in 1..(k - 1) : a[j] = b[j]
BestProfile(rows) ==
    CHOOSE c \in EligibleProfiles(rows) : \A d \in EligibleProfiles(rows) \ {c} :
        RanksBefore(RankKey(rows, c), RankKey(rows, d))
=============================================================================
