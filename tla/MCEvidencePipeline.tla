------------------------- MODULE MCEvidencePipeline -------------------------
(* The evidence pipeline with one positive and one negative page, two      *)
(* candidates and three attacks, and the algorithms under it checked over  *)
(* all their bounded inputs in one designated initial state.               *)
EXTENDS EvidencePipeline, PayloadCode

MCPageOrder == <<"gradient", "external">>
MCPositivePages == {"gradient"}
MCCandidateOrder == <<"c1", "c2">>
MCAttackOrder == <<"jpeg", "resize", "crop">>
MCIds == {"own", "other"}

Case(page, candidate, attack) ==
    [page |-> page, candidate |-> candidate, attack |-> attack]
RunnerSymmetry == Permutations(Runners)
NoCase == Case("none", "none", "none")
World(deviant, how, left, poor) ==
    [deviant |-> deviant, how |-> how, left |-> left, poor |-> poor]
CleanWorld == World(NoCase, "none", 2, {})

(* One deviation of each kind that changes a gate, a row check or the path  *)
(* through the programs, in the programs it matters to.                     *)
Setting(v, w, old) == [version |-> v, world |-> w, old |-> old]
PoorWorld     == World(NoCase, "none", 2, {"c1"})
FailingWorld  == World(Case("gradient", "c1", "jpeg"), "decode", 1, {})
ForeignWorld  == World(Case("external", "c1", "jpeg"), "foreign", 2, {})
ConflictWorld == World(Case("gradient", "c1", "jpeg"), "conflict", 2, {})
MCSettings ==
    {Setting(1, PoorWorld, "older"),
     Setting(1, FailingWorld, "older"),
     Setting(1, ForeignWorld, Null),
     Setting(2, ConflictWorld, Null),
     Setting(3, CleanWorld, Null)}

---------------------------------------------------------------------------
(* The algorithms.  NominalStart is one state: what is checked there is     *)
(* about operators, and is evaluated once.                                  *)

NominalStart ==
    /\ starts = 0 /\ reads = 0
    /\ version = 1 /\ world = PoorWorld

AllAttacks == {"identity", "jpeg", "resize", "crop", "combined"}
SomeWorlds ==
    {World(Case(page, "c1", attack), how, left, {}) :
        page \in Pages, attack \in AllAttacks, how \in Deviations, left \in 0..Repetitions}
(* build_v2_pregate_plan() and build_v3_pregate_plan() keep four attacks. *)
IsPlanned(v, case) == case.attack = "combined" => v = 1

(* The rows the runner writes are the rows its readers accept, for every    *)
(* attack, deviation and crop, with two exceptions.  The V1 loader expects  *)
(* no crop geometry of a failed case, so it refuses the whole benchmark     *)
(* when a decode failed after a crop of a positive page                     *)
(* (promotion.py:809); and the V2 pre-gate refuses the negative confidence  *)
(* that a pilot correlation below zero gives (pregate_v2.py:756,            *)
(* fingerprint_v2.py:407).                                                  *)
OwnRowsAreAccepted ==
    NominalStart =>
        \A v \in Versions, w \in SomeWorlds, cell \in {1, -1} :
            LET case == w.deviant
                row  == ExecuteRow(v, w, case, cell)
            IN  IsPlanned(v, case) =>
                  (RowIsValid(v, w, row) <=>
                  ~ \/ /\ v = 1 /\ IsPositive(case) /\ HasCrop(case.attack)
                       /\ ErrorOf(v, w, case, cell) = "decode"
                    \/ v = 2 /\ row.confidence < 0)

TwoCandidates == [narrow : [1..2 -> Reads], wide : [1..3 -> Reads]]
ExtraVotes ==
    {{}} \union {{[candidate |-> "wide", tile |-> t, id |-> x]} : t \in {1, 3}, x \in Ids}
DecodersOnlyRefuse == NominalStart => LaterDecodersOnlyRefuse(TwoCandidates, ExtraVotes)

CodewordsAreRecovered == NominalStart => LadderRecovers

Fits(scores) ==
    {Fit(at, score, flaws) :
        at \in {"identity", "crop"}, score \in scores, flaws \in {{}, {"similarity"}, {"inverse"}, {"inliers"}}}
SomePages ==
    {[place |-> "identity", peaks |-> peaks, orb |-> orb, matches |-> matches, fault |-> fault] :
        peaks \in {{}} \union {{g, h} : g, h \in Fits({-10, 40, 80})},
        orb \in {{}} \union {{h} : h \in Fits({0})}, matches \in BOOLEAN,
        fault \in {"none", "align"} \union Stages}

(* On pages with any two pilot fits, any ORB fit and an error of the image  *)
(* library at any stage of the alignment: the template costs no alignment   *)
(* but by an error of the ORB estimation itself                             *)
(* (synchronization_v2.py:189-198).                                         *)
TemplateOnlyHelps == NominalStart => OrbCostsOnlyItsError(SomePages)
=============================================================================
