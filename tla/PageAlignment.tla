---------------------------- MODULE PageAlignment ----------------------------
(***************************************************************************)
(* How a receiver brings an attacked page back to the canonical canvas     *)
(* before it reads the payload tiles: the ORB alignment of V1              *)
(* (splitbind_ref/synchronization.py), the keyed pilot of V2               *)
(* (synchronization_v2.py) and the geometry search of V3 (geometry_v3.py). *)
(*                                                                         *)
(* An attacked page is the record of what the signal processing finds in   *)
(* it; the signal processing itself is abstracted:                         *)
(*   place    where the page really lies (which geometry undoes it);       *)
(*   peaks    the pilot's hypotheses: similarity fits with a score;        *)
(*   orb      the ORB fit as a set of at most one hypothesis;              *)
(*   matches  whether enough ORB features matched;                         *)
(*   fault    "none", or where the image library raises: at one stage of   *)
(*            the V2 alignment, or "align", wherever it is called.           *)
(* A hypothesis is [at, score, flaws]: the place it maps the page to, its  *)
(* pilot score and the acceptance checks its transform fails.              *)
(***************************************************************************)
EXTENDS Integers, Sequences, FiniteSets

CONSTANTS
    PilotScoreMin,           \* profile.pilot_score_min, in percent
    MaxPilotHypotheses,      \* _MAX_PILOT_HYPOTHESES
    MaxGeometryHypotheses    \* profile.max_geometry_hypotheses (V3)

ASSUME AlignmentAssumption ==
    /\ PilotScoreMin \in 1..100
    /\ MaxPilotHypotheses \in Nat \ {0}
    /\ MaxGeometryHypotheses \in Nat \ {0}

Places == {"identity", "resize", "crop", "frame", "elsewhere"}

(* _geometry_is_acceptable(): the ORB fit's own checks *)
InlierChecks == {"matrix", "condition", "inliers", "coverage", "determinant",
                 "reprojection", "corners"}
GeometryIsAcceptable(h) == h.flaws \cap InlierChecks = {}

(* _geometry_is_acceptable_v2(): the checks of every V2 transform *)
SimilarityChecks == {"matrix", "condition", "inverse", "orientation",
                     "similarity", "scale", "rotation", "translation"}
(* _v2_corners_are_plausible() *)
CornersArePlausible(h) == "corners" \notin h.flaws
GeometryIsAcceptableV2(h) ==
    /\ h.flaws \cap SimilarityChecks = {}
    /\ CornersArePlausible(h)

(* The stages of align_page_v2(), as AlignmentV2RuntimeError names them.    *)
Stages == {"pilot_estimation", "orb_estimation", "geometry_validation", "canonical_warp"}
RaisesAt(page, stage) == page.fault \in {stage, "align"}

(* align_page(): every failure is a reason and never an exception *)
AlignPage(page) ==
    IF RaisesAt(page, "orb_estimation") THEN "geometry_failure"
    ELSE IF ~page.matches THEN "insufficient_matches"
    ELSE IF (\E h \in page.orb : GeometryIsAcceptable(h)) /\ ~RaisesAt(page, "canonical_warp")
    THEN "aligned" ELSE "geometry_failure"

(* The refinement loop of _pilot_hypotheses_v2() drops fits outside the     *)
(* contracted scale and rotation.                                          *)
RefinedPeaks(page) == {h \in page.peaks : h.flaws \cap {"scale", "rotation"} = {}}

(* _nms_pilot_hypotheses(): the best invertible fit of each place, and of  *)
(* those the MaxPilotHypotheses best.  The sort is stable: the first found *)
(* wins a tie, which CHOOSE stands for at one place and PlaceRank, an      *)
(* order of the search, between two.                                       *)
PlaceRank == [identity |-> 1, resize |-> 2, crop |-> 3, frame |-> 4, elsewhere |-> 5]
SortsBefore(g, h) ==
    \/ g.score > h.score
    \/ g.score = h.score /\ PlaceRank[g.at] < PlaceRank[h.at]
SuppressNeighbours(hypotheses) ==
    LET invertible == {h \in hypotheses : "inverse" \notin h.flaws}
        FitsAt(p) == {h \in invertible : h.at = p}
        best  == {h \in invertible :
                     h = CHOOSE g \in FitsAt(h.at) : \A f \in FitsAt(h.at) : f.score <= g.score}
    IN  {h \in best : Cardinality({g \in best : SortsBefore(g, h)}) < MaxPilotHypotheses}

PilotHypotheses(page) == SuppressNeighbours(RefinedPeaks(page))

(* _orb_hypothesis_v2(): an ORB fit passes both acceptance tests, and      *)
(* carries the pilot score 0                                               *)
OrbHypothesis(page) ==
    IF page.matches
    THEN {[h EXCEPT !.score = 0] :
            h \in {g \in page.orb : GeometryIsAcceptable(g) /\ GeometryIsAcceptableV2(g)}}
    ELSE {}

NoHypothesis == [at |-> "nowhere", score |-> 0, flaws |-> {}]

(* A selection that ranks an ORB fit as if it had the best pilot score. *)
ChooseWinnerOrbFirst(pilots, orbs) ==
    IF orbs # {} THEN CHOOSE h \in orbs : TRUE
    ELSE CHOOSE h \in pilots : \A g \in pilots : g.score <= h.score

(* winner: the highest score; a pilot hypothesis wins a tie *)
ChooseWinner(pilots, orbs) ==
    IF pilots # {} /\ \A o \in orbs : \E h \in pilots : h.score >= o.score
    THEN CHOOSE h \in pilots : \A g \in pilots : g.score <= h.score
    ELSE CHOOSE h \in orbs : TRUE

(* The selection of align_page_v2(): the reason, the winner and the score   *)
(* it reports.                                                              *)
SelectAlignment(pilots, orbs) ==
    LET strong   == {h \in pilots : h.score >= PilotScoreMin}
        safe     == {h \in strong : GeometryIsAcceptableV2(h)}
        best     == IF pilots = {} THEN 0
                    ELSE (CHOOSE h \in pilots : \A g \in pilots : g.score <= h.score).score
        winner   == ChooseWinner(safe, orbs)
    IN  IF strong \union orbs = {}
        THEN [reason |-> "insufficient_sync_evidence", winner |-> NoHypothesis, score |-> best]
        ELSE IF safe \union orbs = {}
        THEN [reason |-> "geometry_rejected", winner |-> NoHypothesis, score |-> 0]
        ELSE [reason |-> "aligned", winner |-> winner, score |-> winner.score]

(* align_page_v2(): a library error at a stage that is reached raises       *)
(* AlignmentV2RuntimeError, whatever the other stages have found; what the  *)
(* caller catches stands as the reason "runtime_error".  The ORB fit is     *)
(* estimated with a template only (a validation that raises there is an     *)
(* error of the estimation), transforms are validated if a hypothesis is    *)
(* eligible, and a page is warped if a safe one is.                         *)
RuntimeError == [reason |-> "runtime_error", winner |-> NoHypothesis, score |-> 0]
AlignPageV2(page, template) ==
    LET pilots   == PilotHypotheses(page)
        orbs     == IF template THEN OrbHypothesis(page) ELSE {}
        selected == SelectAlignment(pilots, orbs)
    IN  IF \/ RaisesAt(page, "pilot_estimation")
           \/ RaisesAt(page, "orb_estimation") /\ template
           \/ RaisesAt(page, "geometry_validation")
                 /\ selected.reason # "insufficient_sync_evidence"
           \/ RaisesAt(page, "canonical_warp") /\ selected.reason = "aligned"
        THEN RuntimeError ELSE selected

(* The shape priors of search_geometry_v3() that come before the first cap: *)
(* same shape, agreeing ratios, and a uniform border that restore_frame()   *)
(* trims.                                                                   *)
RestoreFrame(page) == page.place = "frame"
ShapePriors(page) ==
    (IF page.place = "identity" THEN <<"identity">> ELSE <<>>)
    \o (IF page.place \in {"resize", "crop"} THEN <<"resize">> ELSE <<>>)
    \o (IF RestoreFrame(page) THEN <<"frame">> ELSE <<>>)
CropPrior(page) == IF page.place = "crop" THEN <<"crop">> ELSE <<>>

Bounded(places) ==
    SubSeq(places, 1, IF Len(places) < MaxGeometryHypotheses
                      THEN Len(places) ELSE MaxGeometryHypotheses)

(* search_geometry_v3(): the places tried, in order, and the reason of the *)
(* synchronisation search, "none" when the cap was reached before it.      *)
(* add() keeps one hypothesis per transform.  A library error of the search *)
(* is not caught, and takes the places that need no search with it.         *)
AddFallback(withCrop, fallback) ==
    LET seen == {withCrop[k] : k \in DOMAIN withCrop}
        sync == IF fallback.reason = "aligned" /\ fallback.winner.at \notin seen
                THEN <<fallback.winner.at>> ELSE <<>>
    IN  IF Len(withCrop) >= MaxGeometryHypotheses
        THEN [places |-> withCrop, reason |-> "none"]
        ELSE IF fallback.reason = "runtime_error"
        THEN [places |-> <<>>, reason |-> "runtime_error"]
        ELSE [places |-> withCrop \o sync, reason |-> fallback.reason]
SearchGeometryV3(page, template) ==
    AddFallback(Bounded(Bounded(ShapePriors(page)) \o CropPrior(page)),
                AlignPageV2(page, template))

(* What the ORB template may cost a receiver.  A page that the pilot alone  *)
(* aligns is aligned by the same hypothesis with it, unless the ORB         *)
(* estimation itself raises, which then costs the page; a page with an      *)
(* acceptable ORB fit is aligned if nothing raises, so a rejected pilot fit *)
(* never hides it; and V3 tries every place it tries without a template,    *)
(* unless the search raises (synchronization_v2.py:189-248,                 *)
(* geometry_v3.py:161-168).                                                 *)
PlacesOf(search) == {search.places[k] : k \in DOMAIN search.places}
OrbCostsOnlyItsError(pages) ==
    \A page \in pages :
        LET without == AlignPageV2(page, FALSE)
            with    == AlignPageV2(page, TRUE)
        IN  /\ without.reason = "aligned" =>
                  (with = without <=> ~RaisesAt(page, "orb_estimation"))
            /\ OrbHypothesis(page) # {} /\ page.fault = "none" => with.reason = "aligned"
            /\ SearchGeometryV3(page, TRUE).reason # "runtime_error" =>
                  PlacesOf(SearchGeometryV3(page, FALSE))
                      \subseteq PlacesOf(SearchGeometryV3(page, TRUE))
=============================================================================
