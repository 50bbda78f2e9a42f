-------------------------- MODULE BenchmarkEvidence --------------------------
(***************************************************************************)
(* What the fingerprint benchmark records of one case and what the three   *)
(* readers of those records make of them: the rows of                      *)
(* splitbind_bench/runner.py, and the row checks, scores and gates of      *)
(* pregate_v2.py, pregate_v3.py and promotion.py.                          *)
(*                                                                         *)
(* A case is a page, a candidate profile and an attack.  The world says    *)
(* what the signal processing meets: at most one deviant case and how it   *)
(* deviates, the tiles a crop leaves, and which candidates embed with poor *)
(* quality.  A cell is what one execution adds to it: the number of the    *)
(* run the case was timed in, negative if the deviant case failed in it.   *)
(***************************************************************************)
EXTENDS FingerprintDecode

CONSTANTS
    PageOrder,        \* the corpus pages, in plan order
    PositivePages,    \* the pages that are not negative_external
    CandidateOrder,   \* the candidate grid, in plan order
    AttackOrder,      \* the attacks of the plan
    Repetitions       \* payload_repetitions

(* A corpus names no page twice, and no candidate or attack is planned      *)
(* twice (runner.py:874; a second row of one case has the row_id of the     *)
(* first).                                                                  *)
IsListing(order) ==
    /\ order \in Seq({order[k] : k \in DOMAIN order})
    /\ IsInjective(order)

ASSUME EvidenceAssumption ==
    /\ {"own", "other"} \subseteq Ids
    /\ Repetitions \in Nat \ {0, 1}
    /\ IsListing(PageOrder) /\ IsListing(CandidateOrder) /\ IsListing(AttackOrder)
    /\ PositivePages \subseteq {PageOrder[k] : k \in DOMAIN PageOrder}

Pages == {PageOrder[k] : k \in DOMAIN PageOrder}
Candidates == {CandidateOrder[k] : k \in DOMAIN CandidateOrder}
Attacks == {AttackOrder[k] : k \in DOMAIN AttackOrder}
Tiles == 1..Repetitions
Versions == 1..3
Null == "null"

(* build_execution_plan(): pages, then candidates, then attacks.  The smoke *)
(* plan has the first candidate only; a plan with another seed has the same *)
(* cases and the same digest (_plan_digest()), and is another plan by the   *)
(* seed in its rows and in the checkpoint's run identity.                   *)
PlannedRows == Len(PageOrder) * Len(CandidateOrder) * Len(AttackOrder)
CaseAt(o) ==
    [page      |-> PageOrder[((o - 1) \div (Len(CandidateOrder) * Len(AttackOrder))) + 1],
     candidate |-> CandidateOrder[(((o - 1) \div Len(AttackOrder)) % Len(CandidateOrder)) + 1],
     attack    |-> AttackOrder[((o - 1) % Len(AttackOrder)) + 1]]
PlanCases(plan) ==
    {o \in 1..PlannedRows : plan = "smoke" => CaseAt(o).candidate = CandidateOrder[1]}

IsPositive(case) == case.page \in PositivePages

(* _case_context(): the case's own identifier; a negative page has none *)
ExpectedId(case) == IF IsPositive(case) THEN "own" ELSE NoId

---------------------------------------------------------------------------
(* The attacked page.                                                       *)

Deviations == {"none", "lost", "weak", "conflict", "foreign", "corrupt", "unaligned",
               "rejected", "anticorrelated", "spread", "featureless",
               "embed", "attack", "align", "orb", "decode"}

(* apply_attack(): where the page lies afterwards *)
HasCrop(attack) == attack \in {"crop", "combined"}
PlaceAfter(attack) ==
    CASE HasCrop(attack)     -> "crop"
      [] attack = "resize"   -> "resize"
      [] OTHER               -> "identity"

(* _remaining_embedded_tiles*(): complete tiles inside the retained region *)
RemainingTiles(world, attack) == IF HasCrop(attack) THEN world.left ELSE Repetitions

IsDeviant(world, case) == world.deviant = case
HowDeviant(world, case) == IF IsDeviant(world, case) THEN world.how ELSE "none"

(* The tiles as the attack leaves them *)
TileReads(world, case) ==
    LET how  == HowDeviant(world, case)
        sent == [t \in Tiles |-> IF IsPositive(case) /\ t <= RemainingTiles(world, case.attack)
                                 THEN EmbedFingerprint("own", Tiles)[t] ELSE "none"]
    IN  [t \in Tiles |->
            CASE how = "lost"                  -> "none"
              [] how = "weak" /\ t > 1         -> "none"
              [] how = "conflict" /\ t = 1     -> "other"
              [] how = "foreign"               -> "other"
              [] how = "corrupt"               -> "crc"
              [] OTHER                         -> sent[t]]

Fit(at, score, flaws) == [at |-> at, score |-> score, flaws |-> flaws]

(* The record of the attacked page that PageAlignment reads *)
AttackedPage(world, case) ==
    LET how   == HowDeviant(world, case)
        place == PlaceAfter(case.attack)
        found == IsPositive(case) \/ how = "foreign"
    IN  [place   |-> place,
         peaks   |-> IF how = "unaligned" \/ ~found THEN {}
                     ELSE {CASE how = "rejected"       -> Fit(place, 80, {"similarity"})
                             [] how = "anticorrelated" -> Fit(place, -10, {})
                             [] OTHER                  -> Fit(place, 80, {})},
         orb     |-> {Fit(place, 0, IF how = "rejected" THEN {"corners"} ELSE {})},
         matches |-> how \notin {"unaligned", "featureless"},
         fault   |-> CASE how = "align" -> "align"
                       [] how = "orb"   -> "orb_estimation"
                       [] OTHER         -> "none",
         reads   |-> TileReads(world, case),
         spread  |-> [t \in Tiles |-> IF how = "spread" THEN {"other"} ELSE {}]]

(* A page is embedded once for all attacks on it.  One too plain for the    *)
(* ORB template cannot be embedded by V1, and is embedded without a         *)
(* template by V3.                                                          *)
IsEmbeddingDeviant(world, case) ==
    world.deviant.page = case.page /\ world.deviant.candidate = case.candidate
IsFeatureless(world, case) == IsEmbeddingDeviant(world, case) /\ world.how = "featureless"
EmbedFails(version, world, case) ==
    /\ IsPositive(case)
    /\ \/ IsEmbeddingDeviant(world, case) /\ world.how = "embed"
       \/ IsFeatureless(world, case) /\ version = 1
HasTemplate(world, case) ==
    /\ IsPositive(case)
    /\ EmbedFingerprintV3("own", Tiles, IsFeatureless(world, case)).template

---------------------------------------------------------------------------
(* The row (runner.py).                                                     *)

(* Whether the decoder of the version lets a library error of the alignment *)
(* through: V1 makes it a reason, V2 and V3 an exception.                   *)
AlignmentRaises(version, world, case) ==
    LET page == AttackedPage(world, case)
    IN  \/ version = 2 /\ AlignPageV2(page, FALSE).reason = "runtime_error"
        \/ /\ version = 3
           /\ SearchGeometryV3(page, HasTemplate(world, case)).reason = "runtime_error"

(* The stage the case fails at *)
ErrorOf(version, world, case, cell) ==
    LET how == HowDeviant(world, case)
    IN  CASE EmbedFails(version, world, case)      -> "embedding"
          [] how = "attack"                        -> "attack"
          [] AlignmentRaises(version, world, case) -> "decode"
          [] how = "decode" /\ cell < 0            -> "decode"
          [] OTHER                                 -> "none"

UndecidedDecision(version) ==
    Decision(NoId, 0, 0, FALSE,
             IF version = 1 THEN "not_detected" ELSE "insufficient_sync_evidence")

DecodePage(version, page, positive, template) ==
    CASE version = 1 -> DecodeFingerprint(page, positive)
      [] version = 2 -> DecodeFingerprintV2(page)
      [] OTHER       -> DecodeFingerprintV3(page, template)
DecodeCase(version, world, case) ==
    DecodePage(version, AttackedPage(world, case), IsPositive(case), HasTemplate(world, case))

(* _versioned_metric_reason(), the identity for the reasons of V1 *)
MetricReason(status) ==
    CASE status = "partial_payload_evidence" -> "partial"
      [] status \in {"payload_not_detected", "insufficient_sync_evidence",
                     "geometry_rejected", "conflicting_payload_evidence"} -> "not_detected"
      [] OTHER -> status

(* _outcome() *)
Outcome(expected, decoded, reason, error) ==
    IF error THEN "execution_error"
    ELSE IF decoded # NoId
    THEN IF decoded = expected THEN "true_attribution" ELSE "false_attribution"
    ELSE IF expected = NoId THEN "true_negative" ELSE reason

(* A runner that records the crop only once it was performed. *)
PlannedCropNever(version, case) == FALSE

(* planned_crop_geometry(): a direct crop only, and only in a pre-gate *)
PlannedCrop(version, case) == version > 1 /\ IsPositive(case) /\ case.attack = "crop"

Quality(version, world, case) ==
    IF ~IsPositive(case) \/ EmbedFails(version, world, case) THEN "infinite"
    ELSE IF case.candidate \in world.poor THEN "poor" ELSE "good"

(* None, where no crop geometry is recorded *)
NoCount == -1
IsEligible(remaining) == remaining = NoCount \/ remaining >= 2
EligibilityReason(remaining) ==
    IF remaining = NoCount THEN "eligible"
    ELSE IF remaining >= 2 THEN "at_least_two" ELSE "fewer_than_two"

(* The record _execute_row() returns, from where the case failed and what   *)
(* was decided                                                              *)
MakeRow(version, world, case, cell, error, decision) ==
    LET artifact  == error \in {"none", "decode"}
        reason    == MetricReason(decision.reason)
        retained  == IF artifact THEN HasCrop(case.attack) ELSE PlannedCrop(version, case)
        remaining == IF retained /\ IsPositive(case) THEN RemainingTiles(world, case.attack)
                     ELSE NoCount
    IN  [case        |-> case,
         timing      |-> IF cell < 0 THEN -cell ELSE cell,
         expected    |-> ExpectedId(case),
         decoded     |-> decision.id,
         confidence  |-> decision.confidence,
         ber         |-> decision.ber,
         votes       |-> decision.votes,
         reason      |-> IF error = "none" THEN reason ELSE "execution_error",
         status      |-> IF error = "none" THEN decision.reason ELSE "execution_error",
         outcome     |-> Outcome(ExpectedId(case), decision.id, reason, error # "none"),
         quality     |-> Quality(version, world, case),
         remaining   |-> remaining,
         eligible    |-> IsEligible(remaining),
         why         |-> EligibilityReason(remaining),
         truth       |-> IF artifact THEN "attacked" ELSE "canvas",
         removed     |-> IF artifact THEN IF HasCrop(case.attack) THEN "crop" ELSE "nothing"
                         ELSE IF PlannedCrop(version, case) THEN "crop" ELSE Null,
         limitation  |-> CASE error = "none"      -> "none"
                           [] error = "embedding" -> "embedding"
                           [] OTHER               -> "other"]

(* _execute_row() *)
ExecuteRow(version, world, case, cell) ==
    LET error == ErrorOf(version, world, case, cell)
    IN  MakeRow(version, world, case, cell, error,
                IF error = "none" THEN DecodeCase(version, world, case)
                ELSE UndecidedDecision(version))

(* compute_detection_metrics(): the counts of the runner's summary *)
FailedRows(rows) == {r \in rows : r.outcome = "execution_error"}
=============================================================================
