-------------------------- MODULE FingerprintProofs --------------------------
(***************************************************************************)
(* What is proved about the receivers, for every page and every tile they  *)
(* may meet, whatever the identifiers and the thresholds are.              *)
(*                                                                         *)
(* The ORB template hides a page that the pilot finds only by an error of  *)
(* the ORB estimation: its hypothesis has score 0 and a pilot hypothesis   *)
(* that counts a positive one, so it never wins against one                *)
(* (TemplateNeverHides).                                                   *)
(*                                                                         *)
(* A later decoder only refuses.  V1 names the only identifier that has a  *)
(* quorum (SoftVoteNames), V2 the only one there is a vote for, if it has  *)
(* a quorum (PayloadVotesName), V3 that one if the strongest group has the *)
(* quorum (PayloadVotesNameV3).  The strongest of finitely many groups is  *)
(* one of them (StrongestIsOne), because comparing ratios by               *)
(* cross-multiplication is transitive while no total is zero               *)
(* (RatiosCompose).                                                        *)
(*                                                                         *)
(* What V2 and V3 report of a decision (votes, confidence, status) agrees  *)
(* with itself (PayloadVotesMeasure), which the readers of benchmark rows  *)
(* rely on.                                                                *)
(***************************************************************************)
EXTENDS FingerprintDecode, FiniteSetTheorems, WellFoundedInduction, TLAPS
-----------------------------------------------------------------------------
\* A set of naturals has a least element: what stands in for induction here.
LEMMA LeastNatural ==
    ASSUME NEW S \in SUBSET Nat, S # {}
    PROVE  \E k \in S : \A j \in S : k <= j
<1>1. PICK k \in S : \A j \in S : <<j, k>> \notin OpToRel(<, Nat)
  BY NatLessThanWellFounded, WFMin
<1>2. ASSUME NEW j \in S PROVE k <= j
  <2>1. ~(j < k)
    BY <1>1 DEF OpToRel
  <2> QED
    BY <2>1
<1> QED
  BY <1>2

-----------------------------------------------------------------------------
(* Alignment.                                                              *)

\* A hypothesis of a page: where it lies, and what speaks for and against it.
IsHypothesis(h) ==
    /\ h = [at |-> h.at, score |-> h.score, flaws |-> h.flaws]
    /\ h.score \in Int

LEMMA PriorsAreAList ==
    ASSUME NEW page
    PROVE  Bounded(Bounded(ShapePriors(page)) \o CropPrior(page)) \in Seq(Places)
<1>1. ASSUME NEW s \in Seq(Places) PROVE Bounded(s) \in Seq(Places)
  <2> DEFINE n == IF Len(s) < MaxGeometryHypotheses THEN Len(s) ELSE MaxGeometryHypotheses
  <2>1. n \in 0..Len(s)
    BY AlignmentAssumption
  <2> HIDE DEF n
  <2>2. SubSeq(s, 1, n) \in Seq(Places)
    <3>1. \A i \in 1..n : s[i] \in Places
      BY <2>1
    <3> QED
      BY <2>1, <3>1
  <2> QED
    BY <2>2 DEF Bounded, n
<1>2. ASSUME NEW s \in Seq(Places), NEW t \in Seq(Places) PROVE s \o t \in Seq(Places)
  OBVIOUS
<1>3. /\ <<>> \in Seq(Places) /\ <<"identity">> \in Seq(Places) /\ <<"resize">> \in Seq(Places)
      /\ <<"frame">> \in Seq(Places) /\ <<"crop">> \in Seq(Places)
  <2>1. <<>> \in Seq(Places)
    OBVIOUS
  <2>2. ASSUME NEW at \in Places PROVE <<at>> \in Seq(Places)
    OBVIOUS
  <2>3. {"identity", "resize", "frame", "crop"} \subseteq Places
    BY DEF Places
  <2> QED
    BY <2>1, <2>2, <2>3
<1> DEFINE same == IF page.place = "identity" THEN <<"identity">> ELSE <<>>
           ratio == IF page.place \in {"resize", "crop"} THEN <<"resize">> ELSE <<>>
           border == IF RestoreFrame(page) THEN <<"frame">> ELSE <<>>
<1>4. same \in Seq(Places) /\ ratio \in Seq(Places) /\ border \in Seq(Places)
      /\ CropPrior(page) \in Seq(Places)
  BY <1>3, Zenon DEF CropPrior
<1>5. ShapePriors(page) = same \o ratio \o border
  BY DEF ShapePriors
<1> HIDE DEF same, ratio, border
<1>6. ShapePriors(page) \in Seq(Places)
  BY <1>2, <1>4, <1>5
<1> QED
  BY <1>1, <1>2, <1>4, <1>6

\* What V3 tries is what needs no search, and perhaps one place more; nothing,
\* if the search raises.
LEMMA SearchedPlaces ==
    ASSUME NEW s \in Seq(Places), NEW fallback
    PROVE  LET seen == {s[k] : k \in DOMAIN s}
               found == PlacesOf(AddFallback(s, fallback))
           IN  /\ found \subseteq seen \/ fallback.reason = "aligned"
               /\ AddFallback(s, fallback).reason # "runtime_error" => seen \subseteq found
<1> DEFINE seen == {s[k] : k \in DOMAIN s}
           sync == IF fallback.reason = "aligned" /\ fallback.winner.at \notin seen
                   THEN <<fallback.winner.at>> ELSE <<>>
           result == AddFallback(s, fallback)
<1>1. CASE Len(s) >= MaxGeometryHypotheses
  <2>1. result.places = s
    BY <1>1 DEF AddFallback
  <2> QED
    BY <2>1 DEF PlacesOf
<1>2. CASE ~(Len(s) >= MaxGeometryHypotheses) /\ fallback.reason = "runtime_error"
  <2>1. result.places = <<>> /\ result.reason = "runtime_error"
    BY <1>2 DEF AddFallback
  <2> QED
    BY <2>1 DEF PlacesOf
<1>3. CASE ~(Len(s) >= MaxGeometryHypotheses) /\ fallback.reason # "runtime_error"
  <2>1. result.places = s \o sync
    BY <1>3 DEF AddFallback
  <2>2. CASE sync = <<>>
    <3>1. result.places = s
      BY <2>1, <2>2
    <3>2. PlacesOf(result) = seen
      BY <3>1 DEF PlacesOf
    <3> QED
      BY <3>2
  <2>3. CASE sync = <<fallback.winner.at>> /\ fallback.reason = "aligned"
    <3> DEFINE at == fallback.winner.at
    <3>1. \A k \in DOMAIN s : k \in DOMAIN (s \o <<at>>) /\ (s \o <<at>>)[k] = s[k]
      OBVIOUS
    <3>2. seen \subseteq PlacesOf(result)
      BY <2>1, <2>3, <3>1 DEF PlacesOf
    <3> QED
      BY <2>3, <3>2
  <2> QED
    BY <2>2, <2>3
<1> QED
  BY <1>1, <1>2, <1>3

(* On any pages, whatever hypotheses the pilot and the template find and    *)
(* wherever the image library raises: a page the pilot alone aligns is      *)
(* aligned the same with the template but for an error of the ORB           *)
(* estimation, a page with an acceptable template fit is aligned, and V3    *)
(* tries no place less (align_page_v2() of synchronization_v2.py,           *)
(* search_geometry_v3() of geometry_v3.py).                                 *)
THEOREM TemplateNeverHides ==
    ASSUME NEW pages, \A page \in pages : \A h \in page.peaks \union page.orb : IsHypothesis(h)
    PROVE  OrbCostsOnlyItsError(pages)
<1> SUFFICES ASSUME NEW page \in pages
             PROVE  /\ AlignPageV2(page, FALSE).reason = "aligned" =>
                          (AlignPageV2(page, TRUE) = AlignPageV2(page, FALSE)
                             <=> ~RaisesAt(page, "orb_estimation"))
                    /\ OrbHypothesis(page) # {} /\ page.fault = "none" =>
                          AlignPageV2(page, TRUE).reason = "aligned"
                    /\ SearchGeometryV3(page, TRUE).reason # "runtime_error" =>
                          PlacesOf(SearchGeometryV3(page, FALSE))
                              \subseteq PlacesOf(SearchGeometryV3(page, TRUE))
  BY DEF OrbCostsOnlyItsError
<1> DEFINE pilots == PilotHypotheses(page)
           orbs   == OrbHypothesis(page)
           strong == {h \in pilots : h.score >= PilotScoreMin}
           safe   == {h \in strong : GeometryIsAcceptableV2(h)}
<1>1. pilots \subseteq page.peaks
  BY DEF PilotHypotheses, SuppressNeighbours, RefinedPeaks
<1>2. \A h \in safe : h.score \in Int /\ h.score > 0
  BY <1>1, AlignmentAssumption DEF IsHypothesis
<1>3. \A o \in orbs : o.score = 0
  <2>1. ASSUME NEW h \in page.orb PROVE [h EXCEPT !.score = 0].score = 0
    BY DEF IsHypothesis
  <2> QED
    BY <2>1 DEF OrbHypothesis
<1>4. safe # {} => ChooseWinner(safe, orbs) = ChooseWinner(safe, {})
  <2> HIDE DEF safe, orbs
  <2>1. safe # {} => \A o \in orbs : \E h \in safe : h.score >= o.score
    BY <1>2, <1>3
  <2> DEFINE highest == CHOOSE h \in safe : \A g \in safe : g.score <= h.score
  <2>2. safe # {} => ChooseWinner(safe, orbs) = highest
    BY <2>1, Zenon DEF ChooseWinner
  <2>3. safe # {} => ChooseWinner(safe, {}) = highest
    <3>1. \A o \in {} : \E h \in safe : h.score >= o.score
      OBVIOUS
    <3> QED
      BY <3>1, Zenon DEF ChooseWinner
  <2> QED
    BY <2>2, <2>3
<1> HIDE DEF pilots, orbs
<1>5. SelectAlignment(pilots, {}).reason = "aligned" => safe # {}
  BY DEF SelectAlignment
<1>6. safe # {} => SelectAlignment(pilots, orbs) = SelectAlignment(pilots, {})
  BY <1>4 DEF SelectAlignment
<1>7. orbs # {} => SelectAlignment(pilots, orbs).reason = "aligned"
  BY DEF SelectAlignment
<1> DEFINE without == AlignPageV2(page, FALSE)
           with == AlignPageV2(page, TRUE)
           Raises(found, template) ==
              \/ RaisesAt(page, "pilot_estimation")
              \/ RaisesAt(page, "orb_estimation") /\ template
              \/ RaisesAt(page, "geometry_validation")
                    /\ found.reason # "insufficient_sync_evidence"
              \/ RaisesAt(page, "canonical_warp") /\ found.reason = "aligned"
           alone == SelectAlignment(pilots, {})
           both == SelectAlignment(pilots, orbs)
<1>8. /\ without = IF Raises(alone, FALSE) THEN RuntimeError ELSE alone
      /\ with = IF Raises(both, TRUE) THEN RuntimeError ELSE both
  BY DEF AlignPageV2, pilots, orbs
<1>9. RuntimeError.reason = "runtime_error"
  BY DEF RuntimeError
<1> HIDE DEF without, with, alone, both
<1>10. without.reason = "aligned" =>
         /\ without = alone /\ both = alone
         /\ with = without <=> ~RaisesAt(page, "orb_estimation")
  <2>1. without.reason = "aligned" => without = alone /\ ~Raises(alone, FALSE)
    BY <1>8, <1>9
  <2>2. without.reason = "aligned" => both = alone
    BY <1>5, <1>6, <2>1 DEF alone, both
  <2> QED
    BY <1>8, <1>9, <2>1, <2>2
<1>11. orbs # {} /\ page.fault = "none" => with.reason = "aligned"
  BY <1>7, <1>8 DEF both, RaisesAt
<1>12. SearchGeometryV3(page, TRUE).reason # "runtime_error" =>
         PlacesOf(SearchGeometryV3(page, FALSE)) \subseteq PlacesOf(SearchGeometryV3(page, TRUE))
  <2> DEFINE priors == Bounded(Bounded(ShapePriors(page)) \o CropPrior(page))
  <2>1. priors \in Seq(Places)
    BY PriorsAreAList
  <2>2. /\ SearchGeometryV3(page, FALSE) = AddFallback(priors, without)
        /\ SearchGeometryV3(page, TRUE) = AddFallback(priors, with)
    BY DEF SearchGeometryV3, without, with
  <2> HIDE DEF priors
  <2>3. CASE without.reason = "aligned" /\ with = without
    BY <2>2, <2>3
  <2>4. CASE without.reason = "aligned" /\ with # without
    <3>1. with.reason = "runtime_error"
      BY <1>8, <1>9, <1>10, <2>4
    <3>2. CASE Len(priors) >= MaxGeometryHypotheses
      BY <2>2, <3>2 DEF AddFallback
    <3>3. CASE ~(Len(priors) >= MaxGeometryHypotheses)
      <4>1. AddFallback(priors, with).reason = "runtime_error"
        BY <3>1, <3>3 DEF AddFallback
      <4> QED
        BY <2>2, <4>1
    <3> QED
      BY <3>2, <3>3
  <2>5. CASE without.reason # "aligned"
    BY <2>1, <2>2, <2>5, SearchedPlaces
  <2> QED
    BY <2>3, <2>4, <2>5
<1> QED
  BY <1>10, <1>11, <1>12 DEF orbs, without, with
-----------------------------------------------------------------------------
(* The strongest group.                                                    *)

LEMMA CancelFactor ==
    ASSUME NEW a \in Int, NEW b \in Int, NEW q \in Nat \ {0}
    PROVE  (a * q <= b * q => a <= b) /\ (a * q < b * q => a < b)
  BY Z3

\* The order of ratios votes to repetitions.
LEMMA RatiosCompose ==
    ASSUME NEW x \in Nat, NEW y \in Nat, NEW z \in Nat,
           NEW p \in Nat \ {0}, NEW q \in Nat \ {0}, NEW r \in Nat \ {0},
           y * p <= x * q, z * q <= y * r
    PROVE  /\ z * p <= x * r
           /\ y * p < x * q \/ z * q < y * r => z * p < x * r
<1>1. (z * p) * q = (z * q) * p /\ (y * r) * p = (y * p) * r /\ (x * q) * r = (x * r) * q
  BY Z3
<1>2. (z * q) * p <= (y * r) * p /\ (z * q < y * r => (z * q) * p < (y * r) * p)
  BY Z3
<1>3. (y * p) * r <= (x * q) * r /\ (y * p < x * q => (y * p) * r < (x * q) * r)
  BY Z3
<1>4. z * p \in Int /\ x * r \in Int /\ (z * p) * q \in Int /\ (x * r) * q \in Int
      /\ (z * q) * p \in Int /\ (y * r) * p \in Int /\ (y * p) * r \in Int /\ (x * q) * r \in Int
  OBVIOUS
<1>5. (z * p) * q <= (x * r) * q
      /\ (y * p < x * q \/ z * q < y * r => (z * p) * q < (x * r) * q)
  BY <1>1, <1>2, <1>3, <1>4
<1> QED
  BY <1>4, <1>5, CancelFactor

\* A finite set has an element no other comes before.
LEMMA LeastExists ==
    ASSUME NEW S, IsFiniteSet(S), S # {},
           NEW before,
           \A a \in S : <<a, a>> \notin before,
           \A a, b, c \in S : <<a, b>> \in before /\ <<b, c>> \in before => <<a, c>> \in before
    PROVE  \E least \in S : \A a \in S : <<a, least>> \notin before
<1> DEFINE Below(a) == {b \in S : <<b, a>> \in before}
           ranks == {n \in Nat : \E a \in S : n = Cardinality(Below(a))}
<1>1. ASSUME NEW a \in S
      PROVE  IsFiniteSet(Below(a)) /\ Cardinality(Below(a)) \in Nat
  <2>1. IsFiniteSet(Below(a))
    BY FS_Subset
  <2> HIDE DEF Below
  <2> QED
    BY <2>1, FS_CardinalityType
<1>2. ranks # {} /\ ranks \subseteq Nat
  <2>1. PICK a : a \in S
    OBVIOUS
  <2>2. Cardinality(Below(a)) \in ranks
    BY <1>1, <2>1
  <2> QED
    BY <2>2
<1>3. PICK n \in ranks : \A m \in ranks : <<m, n>> \notin OpToRel(<, Nat)
  <2> HIDE DEF ranks
  <2> QED
    BY <1>2, NatLessThanWellFounded, WFMin
<1>4. PICK least \in S : n = Cardinality(Below(least))
  OBVIOUS
<1>5. ASSUME NEW a \in S, <<a, least>> \in before PROVE FALSE
  <2>1. Below(a) \in SUBSET Below(least) /\ a \in Below(least) /\ a \notin Below(a)
    BY <1>5
  <2>2. Cardinality(Below(a)) < Cardinality(Below(least))
    <3> HIDE DEF Below
    <3>1. /\ Cardinality(Below(a)) <= Cardinality(Below(least))
          /\ Cardinality(Below(a)) # Cardinality(Below(least))
      BY <1>1, <2>1, FS_Subset
    <3> QED
      BY <1>1, <3>1
  <2>3. Cardinality(Below(a)) \in ranks
    BY <1>1
  <2> QED
    BY <1>1, <1>3, <1>4, <2>2, <2>3 DEF OpToRel
<1> QED
  BY <1>5

LEMMA StrongestExists ==
    ASSUME NEW S, IsFiniteSet(S), S # {}, NEW votes, NEW total,
           \A g \in S : votes[g] \in Nat /\ total[g] \in Nat \ {0}
    PROVE  \E g \in S : \A h \in S :
              \/ votes[h] * total[g] < votes[g] * total[h]
              \/ votes[h] * total[g] = votes[g] * total[h] /\ votes[h] <= votes[g]
<1> DEFINE Stronger(a, b) ==
              \/ votes[b] * total[a] < votes[a] * total[b]
              \/ votes[b] * total[a] = votes[a] * total[b] /\ votes[b] < votes[a]
           before == {p \in S \X S : Stronger(p[1], p[2])}
<1>1. \A a, b \in S : votes[b] * total[a] \in Int
  BY Z3
<1>2. \A a, b \in S : <<a, b>> \in before <=> Stronger(a, b)
  OBVIOUS
<1>3. \A a \in S : ~Stronger(a, a)
  BY <1>1
<1>4. ASSUME NEW a \in S, NEW b \in S, NEW c \in S, Stronger(a, b), Stronger(b, c)
      PROVE  Stronger(a, c)
  <2>1. votes[b] * total[a] <= votes[a] * total[b] /\ votes[c] * total[b] <= votes[b] * total[c]
    BY <1>1, <1>4
  <2>2. /\ votes[c] * total[a] <= votes[a] * total[c]
        /\ votes[b] * total[a] < votes[a] * total[b] \/ votes[c] * total[b] < votes[b] * total[c]
              => votes[c] * total[a] < votes[a] * total[c]
    BY <2>1, RatiosCompose
  <2>3. CASE votes[b] * total[a] < votes[a] * total[b] \/ votes[c] * total[b] < votes[b] * total[c]
    BY <2>2, <2>3
  <2>4. CASE votes[b] < votes[a] /\ votes[c] < votes[b]
    BY <1>1, <2>2, <2>4
  <2> QED
    BY <1>4, <2>3, <2>4
<1>5. \E g \in S : \A h \in S : <<h, g>> \notin before
  <2>1. \A a \in S : <<a, a>> \notin before
    BY <1>2, <1>3
  <2>2. \A a, b, c \in S : <<a, b>> \in before /\ <<b, c>> \in before => <<a, c>> \in before
    <3> HIDE DEF before, Stronger
    <3> QED
      BY <1>2, <1>4
  <2> HIDE DEF before
  <2> QED
    BY <2>1, <2>2, LeastExists
<1>6. PICK g \in S : \A h \in S : ~Stronger(h, g)
  <2> HIDE DEF before, Stronger
  <2> QED
    BY <1>2, <1>5
<1> QED
  BY <1>1, <1>6
-----------------------------------------------------------------------------
(* The votes.                                                              *)

\* What a decoder reads: finitely many candidates, each with some repetitions.
IsEvidence(evidence) ==
    /\ IsFiniteSet(DOMAIN evidence)
    /\ \A c \in DOMAIN evidence : IsFiniteSet(DOMAIN evidence[c]) /\ DOMAIN evidence[c] # {}

TilesOf(evidence) == UNION {{c} \X DOMAIN evidence[c] : c \in DOMAIN evidence}

LEMMA TilesAreFinite ==
    ASSUME NEW evidence, IsEvidence(evidence)
    PROVE  IsFiniteSet(TilesOf(evidence))
<1> DEFINE columns == {{c} \X DOMAIN evidence[c] : c \in DOMAIN evidence}
           f == [c \in DOMAIN evidence |-> {c} \X DOMAIN evidence[c]]
<1>1. f \in Surjection(DOMAIN evidence, columns)
  BY DEF Surjection
<1>2. IsFiniteSet(columns)
  <2> HIDE DEF f, columns
  <2> QED
    BY <1>1, FS_Surjection DEF IsEvidence
<1>3. ASSUME NEW column \in columns PROVE IsFiniteSet(column)
  <2>1. PICK c \in DOMAIN evidence : column = {c} \X DOMAIN evidence[c]
    OBVIOUS
  <2>2. IsFiniteSet({c}) /\ IsFiniteSet(DOMAIN evidence[c])
    BY FS_Singleton DEF IsEvidence
  <2> QED
    BY <2>1, <2>2, FS_Product
<1>4. IsFiniteSet(UNION columns)
  <2> HIDE DEF columns
  <2> QED
    BY <1>2, <1>3, FS_UNION
<1> QED
  BY <1>4 DEF TilesOf

\* A group is supported if a tile of its candidate reads its identifier.
LEMMA GroupFacts ==
    ASSUME NEW evidence, IsEvidence(evidence)
    PROVE  /\ \A g \in (DOMAIN evidence) \X Ids :
                 /\ Support(evidence, g) \in Nat
                 /\ RepetitionsOf(evidence, g) \in Nat \ {0}
                 /\ g \in SupportGroups(evidence)
                       <=> \E t \in DOMAIN evidence[g[1]] : evidence[g[1]][t] = g[2]
           /\ IsFiniteSet(SupportGroups(evidence))
<1>1. ASSUME NEW g \in (DOMAIN evidence) \X Ids
      PROVE  /\ IsFiniteSet(Supporters(evidence, g[1], g[2]))
             /\ Support(evidence, g) \in Nat
             /\ RepetitionsOf(evidence, g) \in Nat \ {0}
  <2>1. IsFiniteSet(DOMAIN evidence[g[1]]) /\ DOMAIN evidence[g[1]] # {}
    BY DEF IsEvidence
  <2>2. IsFiniteSet(Supporters(evidence, g[1], g[2]))
    BY <2>1, FS_Subset DEF Supporters
  <2> QED
    BY <2>1, <2>2, FS_CardinalityType, FS_EmptySet DEF Support, RepetitionsOf
<1>2. ASSUME NEW g \in (DOMAIN evidence) \X Ids
      PROVE  g \in SupportGroups(evidence)
                <=> \E t \in DOMAIN evidence[g[1]] : evidence[g[1]][t] = g[2]
  <2>1. Support(evidence, g) > 0 <=> Supporters(evidence, g[1], g[2]) # {}
    BY <1>1, FS_EmptySet DEF Support
  <2> QED
    BY <2>1 DEF SupportGroups, Supporters
<1> DEFINE read == {q \in TilesOf(evidence) : evidence[q[1]][q[2]] \in Ids}
           f == [q \in read |-> <<q[1], evidence[q[1]][q[2]]>>]
<1>3. f \in Surjection(read, SupportGroups(evidence))
  <2>1. ASSUME NEW q \in read PROVE f[q] \in SupportGroups(evidence)
    BY <1>2 DEF TilesOf
  <2>2. ASSUME NEW g \in SupportGroups(evidence) PROVE \E q \in read : f[q] = g
    <3>1. g \in (DOMAIN evidence) \X Ids
      BY DEF SupportGroups
    <3>2. PICK t \in DOMAIN evidence[g[1]] : evidence[g[1]][t] = g[2]
      BY <1>2, <3>1
    <3>3. <<g[1], t>> \in read
      BY <3>1, <3>2 DEF TilesOf
    <3>4. f[<<g[1], t>>] = <<g[1], g[2]>>
      BY <3>2, <3>3
    <3> QED
      BY <3>1, <3>3, <3>4
  <2> QED
    BY <2>1, <2>2 DEF Surjection
<1>4. IsFiniteSet(read)
  BY TilesAreFinite, FS_Subset
<1>5. IsFiniteSet(SupportGroups(evidence))
  <2> HIDE DEF f, read
  <2> QED
    BY <1>3, <1>4, FS_Surjection
<1> QED
  BY <1>1, <1>2, <1>5

\* Of some supported groups, one is the strongest.
LEMMA StrongestIsOne ==
    ASSUME NEW evidence, IsEvidence(evidence),
           NEW groups \in SUBSET SupportGroups(evidence), groups # {}
    PROVE  Strongest(evidence, groups) \in groups
<1> DEFINE votes == [g \in groups |-> Support(evidence, g)]
           total == [g \in groups |-> RepetitionsOf(evidence, g)]
<1>1. IsFiniteSet(groups) /\ \A g \in groups : g \in (DOMAIN evidence) \X Ids
  BY GroupFacts, FS_Subset DEF SupportGroups
<1>2. \A g \in groups : votes[g] \in Nat /\ total[g] \in Nat \ {0}
  BY <1>1, GroupFacts
<1>3. \E g \in groups : \A h \in groups :
              \/ votes[h] * total[g] < votes[g] * total[h]
              \/ votes[h] * total[g] = votes[g] * total[h] /\ votes[h] <= votes[g]
  <2> HIDE DEF votes, total
  <2> QED
    BY <1>1, <1>2, StrongestExists
<1>4. \E g \in groups : \A h \in groups :
         LET left  == Support(evidence, h) * RepetitionsOf(evidence, g)
             right == Support(evidence, g) * RepetitionsOf(evidence, h)
         IN  \/ left < right
             \/ left = right /\ Support(evidence, h) <= Support(evidence, g)
  BY <1>3
<1> QED
  BY <1>4 DEF Strongest

\* Counting the identifiers named tells whether there is exactly one.
LEMMA OneIsNamed ==
    ASSUME NEW groups, IsFiniteSet(groups)
    PROVE  /\ IsFiniteSet(NamedBy(groups))
           /\ Cardinality(NamedBy(groups)) \in Nat
           /\ Cardinality(NamedBy(groups)) = 1 <=> \E x : NamedBy(groups) = {x}
<1> DEFINE f == [g \in groups |-> g[2]]
<1>1. f \in Surjection(groups, NamedBy(groups))
  BY DEF Surjection, NamedBy
<1>2. IsFiniteSet(NamedBy(groups))
  <2> HIDE DEF f
  <2> QED
    BY <1>1, FS_Surjection
<1> QED
  BY <1>2, FS_Singleton, FS_CardinalityType
-----------------------------------------------------------------------------
(* Whom the decoders name.                                                 *)

LEMMA GroupsNameIds ==
    ASSUME NEW evidence, NEW groups \in SUBSET SupportGroups(evidence)
    PROVE  NamedBy(groups) \subseteq Ids /\ NoId \notin NamedBy(groups)
  BY IdsAssumption DEF SupportGroups, NamedBy

\* V1 names the only identifier that has a quorum.
LEMMA SoftVoteNames ==
    ASSUME NEW evidence, IsEvidence(evidence)
    PROVE  LET named == NamedBy(EligibleGroups(evidence))
           IN  Names(SoftVote(evidence)) = IF \E x : named = {x} THEN named ELSE {}
<1> DEFINE groups == SupportGroups(evidence)
           eligible == EligibleGroups(evidence)
           named == NamedBy(eligible)
<1>1. eligible \in SUBSET groups /\ (eligible = {} => named = {})
  BY DEF EligibleGroups, NamedBy
<1>2. IsFiniteSet(eligible)
  BY <1>1, GroupFacts, FS_Subset
<1>3. Cardinality(named) = 1 <=> \E x : named = {x}
  BY <1>2, OneIsNamed
<1>4. NoId \notin named
  BY <1>1, GroupsNameIds
<1> HIDE DEF eligible, named
<1>5. CASE eligible = {}
  <2>1. SoftVote(evidence).id = NoId
    BY <1>5 DEF SoftVote, NoValidVote, DecisionOfGroup, Decision, eligible
  <2> QED
    BY <1>1, <1>5, <2>1 DEF Names, named, eligible
<1>6. CASE eligible # {}
  <2>1. SoftVote(evidence) = DecideEligible(evidence, eligible)
    BY <1>1, <1>6 DEF SoftVote, eligible
  <2>2. CASE Cardinality(named) = 1
    <3>1. PICK x : named = {x}
      BY <1>3, <2>2
    <3>2. DecideEligible(evidence, eligible).id = CHOOSE id \in named : TRUE
      BY <2>2 DEF DecideEligible, Decision, named
    <3>3. Names(SoftVote(evidence)) = {x}
      BY <1>4, <2>1, <3>1, <3>2 DEF Names
    <3> QED
      BY <3>1, <3>3 DEF named, eligible
  <2>3. CASE Cardinality(named) # 1
    <3>1. DecideEligible(evidence, eligible).id = NoId
      BY <2>3 DEF DecideEligible, Decision, named
    <3> QED
      BY <1>3, <2>1, <2>3, <3>1 DEF Names, named, eligible
  <2> QED
    BY <2>2, <2>3
<1> QED
  BY <1>5, <1>6

\* V2 names the only identifier there is a vote for, if it has a quorum.
LEMMA PayloadVotesName ==
    ASSUME NEW evidence, IsEvidence(evidence), NEW confidence
    PROVE  LET named == NamedBy(SupportGroups(evidence))
           IN  Names(DecidePayloadVotes(evidence, confidence)) =
                  IF EligibleGroups(evidence) # {} /\ \E x : named = {x} THEN named ELSE {}
<1> DEFINE groups == SupportGroups(evidence)
           eligible == EligibleGroups(evidence)
           named == NamedBy(groups)
           decision == DecidePayloadVotes(evidence, confidence)
<1>1. eligible \in SUBSET groups
  BY DEF EligibleGroups
<1>2. Cardinality(named) = 1 <=> \E x : named = {x}
  BY GroupFacts, OneIsNamed
<1>3. NoId \notin named
  BY GroupsNameIds
<1>4. CASE eligible # {} /\ Cardinality(named) = 1
  <2>1. Strongest(evidence, eligible) \in groups
    BY <1>1, <1>4, StrongestIsOne
  <2>2. PICK x : named = {x}
    BY <1>2, <1>4
  <2>3. Strongest(evidence, eligible)[2] = x
    BY <2>1, <2>2 DEF NamedBy
  <2>4. decision.id = Strongest(evidence, eligible)[2]
    BY <1>1, <1>4 DEF DecidePayloadVotes, DecisionOfGroup, Decision
  <2>5. Names(decision) = {x}
    BY <1>3, <2>2, <2>3, <2>4 DEF Names
  <2> QED
    BY <1>4, <2>2, <2>5
<1>5. CASE ~(eligible # {} /\ Cardinality(named) = 1)
  <2>1. decision.id = NoId
    BY <1>1, <1>5 DEF DecidePayloadVotes, DecisionOfGroup, Decision
  <2> QED
    BY <1>2, <1>5, <2>1 DEF Names
<1> QED
  BY <1>4, <1>5

\* The groups of V3: finitely many, each with some tiles, one the strongest.
LEMMA GroupFactsV3 ==
    ASSUME NEW votes, IsFiniteSet(votes),
           NEW repetitions, \A v \in votes : repetitions[v.candidate] \in Nat \ {0}
    PROVE  LET groups == {<<v.candidate, v.id>> : v \in votes}
           IN  /\ IsFiniteSet(groups)
               /\ \A g \in groups : TileSupport(votes, g) \in Nat \ {0}
               /\ groups # {} => StrongestV3(votes, repetitions, groups) \in groups
<1> DEFINE groups == {<<v.candidate, v.id>> : v \in votes}
           f == [v \in votes |-> <<v.candidate, v.id>>]
           support == [g \in groups |-> TileSupport(votes, g)]
           total == [g \in groups |-> repetitions[g[1]]]
<1>1. IsFiniteSet(groups)
  <2>1. f \in Surjection(votes, groups)
    BY DEF Surjection
  <2> HIDE DEF f, groups
  <2> QED
    BY <2>1, FS_Surjection
<1>2. ASSUME NEW g \in groups PROVE TileSupport(votes, g) \in Nat \ {0}
  <2> DEFINE mine == {w \in votes : w.candidate = g[1] /\ w.id = g[2]}
             tiles == {w.tile : w \in mine}
             tile == [w \in mine |-> w.tile]
  <2>1. IsFiniteSet(mine)
    BY FS_Subset
  <2>2. tile \in Surjection(mine, tiles)
    BY DEF Surjection
  <2>3. IsFiniteSet(tiles)
    <3> HIDE DEF tile, mine, tiles
    <3> QED
      BY <2>1, <2>2, FS_Surjection
  <2>4. PICK v \in votes : g = <<v.candidate, v.id>>
    OBVIOUS
  <2>5. v.tile \in tiles
    BY <2>4
  <2>6. TileSupport(votes, g) = Cardinality(tiles)
    BY DEF TileSupport
  <2> HIDE DEF tiles
  <2> QED
    BY <2>3, <2>5, <2>6, FS_CardinalityType, FS_EmptySet
<1>3. \A g \in groups : support[g] \in Nat /\ total[g] \in Nat \ {0}
  BY <1>2
<1>4. groups # {} =>
        \E g \in groups : \A h \in groups :
              \/ support[h] * total[g] < support[g] * total[h]
              \/ support[h] * total[g] = support[g] * total[h] /\ support[h] <= support[g]
  <2> HIDE DEF support, total, groups
  <2> QED
    BY <1>1, <1>3, StrongestExists
<1>5. groups # {} =>
        \E g \in groups : \A h \in groups :
        LET left  == TileSupport(votes, h) * repetitions[g[1]]
            right == TileSupport(votes, g) * repetitions[h[1]]
        IN  \/ left < right
            \/ left = right /\ TileSupport(votes, h) <= TileSupport(votes, g)
  BY <1>4
<1>6. groups # {} => StrongestV3(votes, repetitions, groups) \in groups
  <2> HIDE DEF groups
  <2> QED
    BY <1>5 DEF StrongestV3
<1> QED
  BY <1>1, <1>2, <1>6

\* V3 names nobody but the only identifier there is a vote for, which then has
\* a quorum of the tiles of some candidate.
LEMMA PayloadVotesNameV3 ==
    ASSUME NEW votes, IsFiniteSet(votes), \A v \in votes : v.id \in Ids,
           NEW repetitions, \A v \in votes : repetitions[v.candidate] \in Nat \ {0},
           NEW confidence, NEW id \in Names(DecidePayloadVotesV3(votes, repetitions, confidence))
    PROVE  /\ {v.id : v \in votes} = {id}
           /\ \E v \in votes : Quorum(TileSupport(votes, <<v.candidate, v.id>>),
                                       repetitions[v.candidate])
<1> DEFINE groups == {<<v.candidate, v.id>> : v \in votes}
           best == StrongestV3(votes, repetitions, groups)
           n == TileSupport(votes, best)
           status == StatusV3(groups, n, repetitions[best[1]])
           decision == DecidePayloadVotesV3(votes, repetitions, confidence)
<1>1. IsFiniteSet(groups)
  BY GroupFactsV3
<1>2. id = decision.id /\ id # NoId
  BY DEF Names
<1>3. groups # {}
  BY <1>2 DEF DecidePayloadVotesV3, Decision
<1>4. best \in groups
  BY <1>3, GroupFactsV3
<1>5. decision = DecideStrongestV3(best[2], n, repetitions[best[1]], status)
  <2> HIDE DEF best, n, status
  <2> QED
    BY <1>3, Zenon DEF DecidePayloadVotesV3, best, n, status
<1>6. status = "decoded" /\ id = best[2]
  <2> HIDE DEF best, n, status
  <2> QED
    BY <1>2, <1>5 DEF DecideStrongestV3, Decision
<1>7. ~(Cardinality(NamedBy(groups)) > 1) /\ Quorum(n, repetitions[best[1]])
  <2> HIDE DEF best, n, groups
  <2> QED
    BY <1>6 DEF StatusV3
<1>8. NamedBy(groups) = {v.id : v \in votes}
  <2>1. ASSUME NEW g \in groups PROVE g[2] \in {v.id : v \in votes}
    OBVIOUS
  <2>2. ASSUME NEW v \in votes PROVE \E g \in groups : g[2] = v.id
    <3>1. <<v.candidate, v.id>> \in groups /\ <<v.candidate, v.id>>[2] = v.id
      OBVIOUS
    <3> QED
      BY <3>1
  <2> HIDE DEF groups
  <2> QED
    BY <2>1, <2>2 DEF NamedBy
<1>9. best[2] \in NamedBy(groups)
  <2> HIDE DEF best, groups
  <2> QED
    BY <1>4 DEF NamedBy
<1>10. NamedBy(groups) = {best[2]}
  <2> HIDE DEF best, groups
  <2>1. Cardinality(NamedBy(groups)) \in Nat /\ IsFiniteSet(NamedBy(groups))
    BY <1>1, OneIsNamed
  <2>2. Cardinality(NamedBy(groups)) # 0
    BY <1>9, <2>1, FS_EmptySet
  <2>3. Cardinality(NamedBy(groups)) = 1
    BY <1>7, <2>1, <2>2
  <2> QED
    BY <1>1, <1>9, <2>3, OneIsNamed
<1>11. PICK v \in votes : best = <<v.candidate, v.id>>
  BY <1>4
<1>12. Quorum(TileSupport(votes, <<v.candidate, v.id>>), repetitions[v.candidate])
  <2> HIDE DEF best
  <2>1. best[1] = v.candidate
    BY <1>11
  <2> QED
    BY <1>7, <1>11, <2>1
<1> QED
  BY <1>6, <1>8, <1>10, <1>12

\* The votes of V3 on the evidence of V2: the same groups, as strong.
LEMMA VotesFacts ==
    ASSUME NEW evidence, IsEvidence(evidence)
    PROVE  /\ IsFiniteSet(VotesOf(evidence))
           /\ {<<v.candidate, v.id>> : v \in VotesOf(evidence)} = SupportGroups(evidence)
           /\ \A v \in VotesOf(evidence) : v.candidate \in DOMAIN evidence /\ v.id \in Ids
           /\ \A g \in SupportGroups(evidence) :
                 TileSupport(VotesOf(evidence), g) = Support(evidence, g)
<1> DEFINE read == {q \in TilesOf(evidence) : evidence[q[1]][q[2]] \in Ids}
           vote(q) == [candidate |-> q[1], tile |-> q[2], id |-> evidence[q[1]][q[2]]]
           votes == {vote(q) : q \in read}
           f == [q \in read |-> vote(q)]
<1>1. VotesOf(evidence) = votes
  BY DEF VotesOf, TilesOf
<1>2. IsFiniteSet(votes)
  <2>1. IsFiniteSet(read)
    BY TilesAreFinite, FS_Subset
  <2>2. f \in Surjection(read, votes)
    BY DEF Surjection
  <2> HIDE DEF f, read, votes
  <2> QED
    BY <2>1, <2>2, FS_Surjection
<1>3. \A q \in read : q[1] \in DOMAIN evidence /\ q[2] \in DOMAIN evidence[q[1]]
                      /\ evidence[q[1]][q[2]] \in Ids
  BY DEF TilesOf
<1>4. \A v \in votes : v.candidate \in DOMAIN evidence /\ v.id \in Ids
  BY <1>3
<1>5. ASSUME NEW c \in DOMAIN evidence, NEW t \in DOMAIN evidence[c], evidence[c][t] \in Ids
      PROVE  [candidate |-> c, tile |-> t, id |-> evidence[c][t]] \in votes
  <2>1. <<c, t>> \in read /\ <<c, t>>[1] = c /\ <<c, t>>[2] = t
    BY <1>5 DEF TilesOf
  <2> QED
    BY <2>1
<1>6. ASSUME NEW v \in votes
      PROVE  /\ v.candidate \in DOMAIN evidence /\ v.tile \in DOMAIN evidence[v.candidate]
             /\ v.id = evidence[v.candidate][v.tile] /\ v.id \in Ids
  BY <1>3
<1> HIDE DEF votes
<1>7. {<<v.candidate, v.id>> : v \in votes} = SupportGroups(evidence)
  <2>1. ASSUME NEW v \in votes PROVE <<v.candidate, v.id>> \in SupportGroups(evidence)
    BY <1>6, GroupFacts
  <2>2. ASSUME NEW g \in SupportGroups(evidence)
        PROVE  g \in {<<v.candidate, v.id>> : v \in votes}
    <3>1. g \in (DOMAIN evidence) \X Ids
      BY DEF SupportGroups
    <3>2. PICK t \in DOMAIN evidence[g[1]] : evidence[g[1]][t] = g[2]
      BY <3>1, GroupFacts
    <3>3. PICK v \in votes : v.candidate = g[1] /\ v.id = g[2]
      BY <1>5, <3>1, <3>2
    <3> QED
      BY <3>1, <3>3
  <2> QED
    BY <2>1, <2>2
<1>8. ASSUME NEW g \in SupportGroups(evidence)
      PROVE  TileSupport(votes, g) = Support(evidence, g)
  <2>1. g \in (DOMAIN evidence) \X Ids
    BY DEF SupportGroups
  <2> DEFINE mine == {w \in votes : w.candidate = g[1] /\ w.id = g[2]}
  <2>2. ASSUME NEW v \in mine PROVE v.tile \in Supporters(evidence, g[1], g[2])
    BY <1>6 DEF Supporters
  <2>3. ASSUME NEW t \in Supporters(evidence, g[1], g[2]) PROVE \E v \in mine : v.tile = t
    <3>1. t \in DOMAIN evidence[g[1]] /\ evidence[g[1]][t] = g[2]
      BY DEF Supporters
    <3>2. [candidate |-> g[1], tile |-> t, id |-> g[2]] \in votes
      BY <1>5, <2>1, <3>1
    <3> QED
      BY <3>2
  <2>4. {v.tile : v \in mine} = Supporters(evidence, g[1], g[2])
    <3> HIDE DEF mine
    <3> QED
      BY <2>2, <2>3
  <2> QED
    BY <2>4 DEF TileSupport, Support
<1> QED
  BY <1>1, <1>2, <1>4, <1>7, <1>8

(* On any evidence from finitely many tiles, with any further votes of the  *)
(* spread codecs: what V3 names V2 names, what V2 names V1 names, and the   *)
(* three never name two issuances (soft_vote() of fingerprint.py and        *)
(* _decide_payload_votes() of fingerprint_v2.py and fingerprint_v3.py).     *)
THEOREM LaterDecodersRefuse ==
    ASSUME NEW evidences, \A evidence \in evidences : IsEvidence(evidence),
           NEW extras,
           \A s \in extras : /\ IsFiniteSet(s)
                             /\ \A v \in s : v.id \in Ids
                             /\ \A v \in s, evidence \in evidences : v.candidate \in DOMAIN evidence
    PROVE  LaterDecodersOnlyRefuse(evidences, extras)
<1> SUFFICES ASSUME NEW evidence \in evidences
             PROVE  LET repetitions == [c \in DOMAIN evidence |-> Cardinality(DOMAIN evidence[c])]
                        v1    == Names(SoftVote(evidence))
                        v2    == Names(DecidePayloadVotes(evidence, 0))
                        v3(s) == Names(DecidePayloadVotesV3(VotesOf(evidence) \union s,
                                                            repetitions, 0))
                    IN  /\ v3({}) \subseteq v2
                        /\ v2 \subseteq v1
                        /\ \A s \in extras : Cardinality(v1 \union v2 \union v3(s)) <= 1
  BY DEF LaterDecodersOnlyRefuse
<1> DEFINE repetitions == [c \in DOMAIN evidence |-> Cardinality(DOMAIN evidence[c])]
           votes == VotesOf(evidence)
           groups == SupportGroups(evidence)
           eligible == EligibleGroups(evidence)
           v1    == Names(SoftVote(evidence))
           v2    == Names(DecidePayloadVotes(evidence, 0))
           v3(s) == Names(DecidePayloadVotesV3(votes \union s, repetitions, 0))
<1>1. IsEvidence(evidence)
  OBVIOUS
<1>2. \A c \in DOMAIN evidence : repetitions[c] \in Nat \ {0}
  BY <1>1, FS_CardinalityType, FS_EmptySet DEF IsEvidence
<1>3. eligible \in SUBSET groups /\ NamedBy(eligible) \subseteq NamedBy(groups)
  BY DEF EligibleGroups, NamedBy
<1>4. NamedBy(groups) = {v.id : v \in votes}
  <2>1. groups = {<<v.candidate, v.id>> : v \in votes}
    BY <1>1, VotesFacts
  <2>2. ASSUME NEW g \in groups PROVE \E v \in votes : v.id = g[2]
    BY <2>1
  <2>3. ASSUME NEW v \in votes PROVE \E g \in groups : g[2] = v.id
    <3>1. <<v.candidate, v.id>> \in groups /\ <<v.candidate, v.id>>[2] = v.id
      BY <2>1
    <3> QED
      BY <3>1
  <2> HIDE DEF groups, votes
  <2> QED
    BY <2>2, <2>3 DEF NamedBy
<1>5. v1 = IF \E x : NamedBy(eligible) = {x} THEN NamedBy(eligible) ELSE {}
  BY <1>1, SoftVoteNames
<1>6. v2 = IF eligible # {} /\ \E x : NamedBy(groups) = {x} THEN NamedBy(groups) ELSE {}
  BY <1>1, PayloadVotesName
<1>7. ASSUME NEW s, IsFiniteSet(s), \A v \in s : v.id \in Ids /\ v.candidate \in DOMAIN evidence,
             NEW id \in v3(s)
      PROVE  /\ {v.id : v \in votes \union s} = {id}
             /\ \E v \in votes \union s :
                   Quorum(TileSupport(votes \union s, <<v.candidate, v.id>>),
                          repetitions[v.candidate])
  <2>1. IsFiniteSet(votes \union s)
    BY <1>1, <1>7, VotesFacts, FS_Union
  <2>2. \A v \in votes \union s : v.id \in Ids /\ v.candidate \in DOMAIN evidence
    BY <1>1, <1>7, VotesFacts
  <2> HIDE DEF repetitions, votes
  <2> QED
    BY <1>2, <1>7, <2>1, <2>2, PayloadVotesNameV3
<1>8. v2 \subseteq v1
  <2>1. eligible # {} => NamedBy(eligible) # {}
    BY DEF NamedBy
  <2> HIDE DEF v1, v2, eligible, groups
  <2> QED
    BY <1>3, <1>5, <1>6, <2>1
<1>9. ASSUME NEW id \in v3({}) PROVE id \in v2
  <2>1. {v.id : v \in votes} = {id} /\ \E v \in votes :
           Quorum(TileSupport(votes, <<v.candidate, v.id>>), repetitions[v.candidate])
    <3>1. votes \union {} = votes /\ IsFiniteSet({})
      BY FS_EmptySet
    <3> HIDE DEF votes, repetitions
    <3> QED
      BY <1>7, <1>9, <3>1
  <2>2. PICK v \in votes :
           Quorum(TileSupport(votes, <<v.candidate, v.id>>), repetitions[v.candidate])
    BY <2>1
  <2> DEFINE g == <<v.candidate, v.id>>
  <2>3. g \in groups
    BY <1>1, VotesFacts
  <2>4. /\ TileSupport(votes, g) = Support(evidence, g)
        /\ repetitions[v.candidate] = RepetitionsOf(evidence, g)
    BY <1>1, <2>3, VotesFacts DEF RepetitionsOf
  <2>5. g \in eligible
    BY <2>2, <2>3, <2>4 DEF EligibleGroups
  <2>6. NamedBy(groups) = {id}
    BY <1>4, <2>1
  <2> HIDE DEF v2, eligible, groups, g
  <2> QED
    BY <1>6, <2>5, <2>6
<1>10. ASSUME NEW s \in extras PROVE Cardinality(v1 \union v2 \union v3(s)) <= 1
  <2>1. ASSUME NEW id \in v3(s) PROVE NamedBy(groups) \subseteq {id} /\ v3(s) = {id}
    <3>1. \A x \in v3(s) : {v.id : v \in votes \union s} = {x}
      BY <1>7
    <3> HIDE DEF v3, votes
    <3> QED
      BY <1>4, <2>1, <3>1
  <2>2. v1 \subseteq NamedBy(groups) /\ (v1 = {} \/ \E x : v1 = {x})
    <3> HIDE DEF v1, groups, eligible
    <3> QED
      BY <1>3, <1>5
  <2> HIDE DEF v1, v2, v3, groups
  <2>3. v1 \union v2 \union v3(s) = {} \/ \E x : v1 \union v2 \union v3(s) = {x}
    <3>1. CASE v3(s) = {}
      <4>1. v1 \union v2 \union v3(s) = v1
        BY <1>8, <3>1
      <4> QED
        BY <2>2, <4>1
    <3>2. CASE v3(s) # {}
      <4>1. PICK id : id \in v3(s)
        BY <3>2
      <4>2. v1 \union v2 \union v3(s) = {id}
        BY <1>8, <2>1, <2>2, <4>1
      <4> QED
        BY <4>2
    <3> QED
      BY <3>1, <3>2
  <2> DEFINE all == v1 \union v2 \union v3(s)
  <2>4. Cardinality({}) = 0 /\ \A x : Cardinality({x}) = 1
    BY FS_EmptySet, FS_Singleton
  <2> HIDE DEF all
  <2>5. all = {} => Cardinality(all) <= 1
    BY <2>4
  <2>6. ASSUME NEW x, all = {x} PROVE Cardinality(all) <= 1
    <3>1. Cardinality(all) = 1
      BY <2>4, <2>6
    <3> QED
      BY <3>1
  <2> QED
    BY <2>3, <2>5, <2>6 DEF all
<1> QED
  BY <1>8, <1>9, <1>10
-----------------------------------------------------------------------------
(* What the decoders measure.                                              *)

\* What a row needs of a decision: votes that are tiles, and a status, an
\* identifier and a bit error rate that agree with them.  payload are the
\* statuses that report votes and name nobody.
IsMeasured(decision, payload, tiles) ==
    /\ decision.confidence \in Int /\ decision.confidence <= 100
    /\ decision.votes \in 0..tiles
    /\ decision.id # NoId <=> decision.reason = "decoded"
    /\ decision.reason = "decoded" => decision.votes >= 2 /\ decision.ber
    /\ decision.reason \in payload => decision.votes >= 1 /\ decision.ber
    /\ decision.reason \notin payload \union {"decoded"} => decision.votes = 0 /\ ~decision.ber

LEMMA PercentRange ==
    ASSUME NEW total \in Nat \ {0}, NEW n \in 0..total
    PROVE  Percent(n, total) \in 0..100
<1>1. (100 * n) \div total \in 0..100
  BY Z3
<1> QED
  BY <1>1 DEF Percent

LEMMA ClipRange ==
    ASSUME NEW score \in Int
    PROVE  Clip(score) \in Int /\ Clip(score) <= 100
  BY DEF Clip

LEMMA NothingIsMeasured ==
    ASSUME NEW confidence \in Int, confidence <= 100, NEW reason, NEW payload, NEW tiles \in Nat,
           reason \notin payload \union {"decoded"}
    PROVE  IsMeasured(Decision(NoId, confidence, 0, FALSE, reason), payload, tiles)
  BY DEF IsMeasured, Decision

\* A group has no more supporters than its candidate has repetitions.
LEMMA SupportRange ==
    ASSUME NEW evidence, IsEvidence(evidence), NEW g \in SupportGroups(evidence)
    PROVE  /\ g[2] \in Ids
           /\ Support(evidence, g) \in 1..RepetitionsOf(evidence, g)
           /\ RepetitionsOf(evidence, g) \in Nat \ {0}
           /\ RepetitionsOf(evidence, g) = Cardinality(DOMAIN evidence[g[1]])
           /\ g[1] \in DOMAIN evidence
<1>1. g \in (DOMAIN evidence) \X Ids /\ Support(evidence, g) > 0
  BY DEF SupportGroups
<1>2. Support(evidence, g) \in Nat /\ RepetitionsOf(evidence, g) \in Nat \ {0}
  BY <1>1, GroupFacts
<1>3. IsFiniteSet(DOMAIN evidence[g[1]])
  BY <1>1 DEF IsEvidence
<1>4. Supporters(evidence, g[1], g[2]) \subseteq DOMAIN evidence[g[1]]
  BY DEF Supporters
<1>5. Support(evidence, g) <= RepetitionsOf(evidence, g)
  BY <1>3, <1>4, FS_Subset DEF Support, RepetitionsOf
<1> QED
  BY <1>1, <1>2, <1>5 DEF RepetitionsOf

\* The decision of V2 on tiles it has read.
LEMMA PayloadVotesMeasure ==
    ASSUME NEW evidence, IsEvidence(evidence),
           NEW tiles \in Nat, \A c \in DOMAIN evidence : Cardinality(DOMAIN evidence[c]) <= tiles,
           NEW confidence \in Int, confidence <= 100
    PROVE  LET decision == DecidePayloadVotes(evidence, confidence)
           IN  /\ IsMeasured(decision, {"partial_payload_evidence"}, tiles)
               /\ decision.reason \in
                     {"decoded", "partial_payload_evidence", "payload_not_detected"}
<1> DEFINE groups == SupportGroups(evidence)
           eligible == EligibleGroups(evidence)
           decision == DecidePayloadVotes(evidence, confidence)
<1>1. ASSUME NEW g \in groups, NEW id, NEW reason,
             \/ reason = "decoded" /\ id = g[2] /\ g \in eligible
             \/ reason = "partial_payload_evidence" /\ id = NoId
      PROVE  IsMeasured(DecisionOfGroup(evidence, g, id, reason),
                        {"partial_payload_evidence"}, tiles)
  <2> DEFINE n == Support(evidence, g)
             total == RepetitionsOf(evidence, g)
             confident == Percent(n, total)
             d == DecisionOfGroup(evidence, g, id, reason)
  <2>1. g[2] \in Ids /\ n \in 1..total /\ total \in Nat \ {0} /\ total <= tiles
    BY SupportRange
  <2>2. d = [id |-> id, confidence |-> confident, votes |-> n, ber |-> TRUE, reason |-> reason]
    BY DEF DecisionOfGroup, Decision
  <2>3. reason = "decoded" => n >= 2
    BY <1>1 DEF EligibleGroups, Quorum
  <2>4. NoId \notin Ids
    BY IdsAssumption
  <2> HIDE DEF n, total, confident
  <2>5. confident \in 0..100
    BY <2>1, PercentRange DEF confident
  <2>6. /\ d.id = id /\ d.confidence = confident /\ d.votes = n /\ d.ber = TRUE
        /\ d.reason = reason
    BY <2>2
  <2> HIDE DEF d
  <2>7. IsMeasured(d, {"partial_payload_evidence"}, tiles)
    BY <1>1, <2>1, <2>3, <2>4, <2>5, <2>6 DEF IsMeasured
  <2> QED
    BY <2>7 DEF d
<1>2. \A g, id, reason : DecisionOfGroup(evidence, g, id, reason).reason = reason
  BY DEF DecisionOfGroup, Decision
<1>3. eligible \in SUBSET groups /\ groups \in SUBSET SupportGroups(evidence)
  BY DEF EligibleGroups
<1>4. CASE groups = {}
  <2>1. decision = Decision(NoId, confidence, 0, FALSE, "payload_not_detected")
    BY <1>4 DEF DecidePayloadVotes
  <2>2. decision.reason = "payload_not_detected"
    BY <2>1 DEF Decision
  <2>3. IsMeasured(decision, {"partial_payload_evidence"}, tiles)
    BY <2>1, NothingIsMeasured
  <2> QED
    BY <2>2, <2>3
<1>5. CASE groups # {} /\ (Cardinality(NamedBy(groups)) # 1 \/ eligible = {})
  <2>1. decision = DecisionOfGroup(evidence, Strongest(evidence, groups), NoId,
                                   "partial_payload_evidence")
    BY <1>5, Zenon DEF DecidePayloadVotes
  <2>2. Strongest(evidence, groups) \in groups
    BY <1>3, <1>5, StrongestIsOne
  <2> HIDE DEF groups, eligible
  <2> QED
    BY <1>1, <1>2, <2>1, <2>2
<1>6. CASE groups # {} /\ ~(Cardinality(NamedBy(groups)) # 1 \/ eligible = {})
  <2> DEFINE best == Strongest(evidence, eligible)
  <2>1. decision = DecisionOfGroup(evidence, best, best[2], "decoded")
    BY <1>6, Zenon DEF DecidePayloadVotes
  <2>2. best \in eligible /\ best \in groups
    BY <1>3, <1>6, StrongestIsOne
  <2> HIDE DEF groups, eligible, best
  <2>3. IsMeasured(DecisionOfGroup(evidence, best, best[2], "decoded"),
                   {"partial_payload_evidence"}, tiles)
    BY <1>1, <2>2
  <2> HIDE DEF decision
  <2>4. decision.reason = "decoded"
    BY <1>2, <2>1
  <2> QED
    BY <2>1, <2>3, <2>4 DEF decision
<1> QED
  BY <1>4, <1>5, <1>6

\* The decision of V3 on the votes it has collected.
LEMMA PayloadVotesMeasureV3 ==
    ASSUME NEW votes, IsFiniteSet(votes), \A v \in votes : v.id \in Ids,
           NEW tiles \in Nat \ {0},
           NEW repetitions, \A v \in votes : repetitions[v.candidate] = tiles,
           \A v \in votes : TileSupport(votes, <<v.candidate, v.id>>) <= tiles,
           NEW confidence \in 0..100
    PROVE  LET decision == DecidePayloadVotesV3(votes, repetitions, confidence)
           IN  /\ IsMeasured(decision, {"partial_payload_evidence",
                                        "conflicting_payload_evidence"}, tiles)
               /\ decision.confidence >= 0
               /\ decision.reason \in
                     {"decoded", "partial_payload_evidence", "conflicting_payload_evidence",
                      "payload_not_detected"}
<1> DEFINE payload == {"partial_payload_evidence", "conflicting_payload_evidence"}
           groups == {<<v.candidate, v.id>> : v \in votes}
           best == StrongestV3(votes, repetitions, groups)
           n == TileSupport(votes, best)
           total == repetitions[best[1]]
           status == StatusV3(groups, n, total)
           decision == DecidePayloadVotesV3(votes, repetitions, confidence)
<1>1. CASE groups = {}
  <2>1. decision = Decision(NoId, confidence, 0, FALSE, "payload_not_detected")
    BY <1>1, Zenon DEF DecidePayloadVotesV3
  <2>2. decision.reason = "payload_not_detected" /\ decision.confidence = confidence
    BY <2>1 DEF Decision
  <2>3. "payload_not_detected" \notin payload \union {"decoded"}
    OBVIOUS
  <2> HIDE DEF payload
  <2>4. confidence \in Int /\ confidence <= 100 /\ tiles \in Nat
    OBVIOUS
  <2>5. IsMeasured(decision, payload, tiles)
    BY <2>1, <2>3, <2>4, NothingIsMeasured, Zenon
  <2> QED
    BY <2>2, <2>5 DEF payload
<1>2. CASE groups # {}
  <2>1. decision = DecideStrongestV3(best[2], n, total, status)
    <3> HIDE DEF best, n, status, total
    <3> QED
      BY <1>2, Zenon DEF DecidePayloadVotesV3, best, n, status, total
  <2>2. best \in groups /\ n \in Nat \ {0}
    <3> HIDE DEF groups
    <3>1. groups # {}
      BY <1>2
    <3> QED
      BY <3>1, GroupFactsV3 DEF groups
  <2>3. PICK v \in votes : best = <<v.candidate, v.id>>
    BY <2>2
  <2>4. best[1] = v.candidate /\ best[2] = v.id
    <3> HIDE DEF best
    <3> QED
      BY <2>3
  <2>5. total = tiles /\ n <= tiles /\ best[2] \in Ids
    <3> HIDE DEF best
    <3> QED
      BY <2>3, <2>4
  <2>6. /\ status \in {"conflicting_payload_evidence", "decoded", "partial_payload_evidence"}
        /\ status = "decoded" => n >= 2
    <3> HIDE DEF n, total, groups
    <3> QED
      BY DEF StatusV3, Quorum
  <2> HIDE DEF best, n, total, status, groups
  <2>7. Percent(n, total) \in 0..100
    BY <2>2, <2>5, PercentRange
  <2>8. NoId \notin Ids
    BY IdsAssumption
  <2> DEFINE id == IF status = "decoded" THEN best[2] ELSE NoId
             confident == Percent(n, total)
  <2>9. decision = [id |-> id, confidence |-> confident, votes |-> n, ber |-> TRUE,
                    reason |-> status]
    BY <2>1 DEF DecideStrongestV3, Decision
  <2>10. id # NoId <=> status = "decoded"
    BY <2>5, <2>8
  <2> HIDE DEF decision, id, confident
  <2>11. /\ decision.id = id /\ decision.confidence = confident /\ decision.votes = n
         /\ decision.ber = TRUE /\ decision.reason = status
    BY <2>9
  <2>12. confident \in 0..100
    BY <2>7 DEF confident
  <2> QED
    BY <2>2, <2>5, <2>6, <2>10, <2>11, <2>12 DEF IsMeasured, decision
<1> QED
  BY <1>1, <1>2
=============================================================================
