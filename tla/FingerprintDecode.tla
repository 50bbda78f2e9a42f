-------------------------- MODULE FingerprintDecode --------------------------
(***************************************************************************)
(* Which issuance a receiver names, from the tiles it reads on an aligned  *)
(* page: the soft vote of V1 (splitbind_ref/fingerprint.py), the quorum of *)
(* V2 (fingerprint_v2.py) and the quorum of V3 (fingerprint_v3.py).        *)
(*                                                                         *)
(* The pixels are abstracted.  What the error-correcting code makes of a   *)
(* tile (PayloadCode) is its read: an identifier, "crc" when the payload   *)
(* fails its CRC, or "none".  A candidate's reads are a function from its  *)
(* repetitions, and the evidence of a decoder is a function from the       *)
(* candidates it could read at all.  Confidence is in percent.             *)
(***************************************************************************)
EXTENDS PageAlignment, FiniteSetsExt

CONSTANT Ids              \* issuance identifiers

NoId == "no id"

(* An identifier is 16 bytes, never None or the reason there is none. *)
ASSUME IdsAssumption == Ids \cap {NoId, "crc", "none"} = {}

Reads == Ids \union {"crc", "none"}

(* embed_fingerprint(): the codeword in each of the first                  *)
(* payload_repetitions tiles, masked with a keystream bound to the page    *)
(* and the candidate                                                       *)
EmbedFingerprint(id, tiles) == [t \in tiles |-> id]

(* embed_fingerprint_v3(): V1 needs the ORB template of the page, V3 does   *)
(* without one where the page has too few features.                         *)
EmbedFingerprintV3(id, tiles, featureless) ==
    [reads |-> EmbedFingerprint(id, tiles), template |-> ~featureless]

(* _extract_tile() and the mask: only the geometry that undoes the attack  *)
(* finds the tiles where the sender put them.                              *)
ExtractTiles(page, at) ==
    IF at = page.place THEN page.reads ELSE [t \in DOMAIN page.reads |-> "none"]

(* _decode_vote(): the reason of one tile's vote *)
VoteReason(read) ==
    CASE read \in Ids    -> "decoded"
      [] read = "crc"    -> "invalid_crc"
      [] OTHER           -> "not_detected"

Supporters(evidence, c, id) == {t \in DOMAIN evidence[c] : evidence[c][t] = id}
Support(evidence, group) == Cardinality(Supporters(evidence, group[1], group[2]))
RepetitionsOf(evidence, group) == Cardinality(DOMAIN evidence[group[1]])
Percent(n, total) == (100 * n) \div total

(* The support groups: one for each candidate and identifier it voted for *)
SupportGroups(evidence) ==
    {group \in (DOMAIN evidence) \X Ids : Support(evidence, group) > 0}

(* At least two repetitions, and at least 0.60 of them *)
Quorum(n, total) == n >= 2 /\ 5 * n >= 3 * total
EligibleGroups(evidence) ==
    {g \in SupportGroups(evidence) : Quorum(Support(evidence, g), RepetitionsOf(evidence, g))}
NamedBy(groups) == {g[2] : g \in groups}

(* max() by ratio and then by votes *)
Strongest(evidence, groups) ==
    CHOOSE g \in groups : \A h \in groups :
        LET left  == Support(evidence, h) * RepetitionsOf(evidence, g)
            right == Support(evidence, g) * RepetitionsOf(evidence, h)
        IN  \/ left < right
            \/ left = right /\ Support(evidence, h) <= Support(evidence, g)

Decision(id, confidence, votes, ber, reason) ==
    [id |-> id, confidence |-> confidence, votes |-> votes, ber |-> ber, reason |-> reason]

DecisionOfGroup(evidence, g, id, reason) ==
    Decision(id, Percent(Support(evidence, g), RepetitionsOf(evidence, g)),
             Support(evidence, g), TRUE, reason)

(* soft_vote() without a valid vote *)
NoValidVote(evidence) ==
    LET crc == \E c \in DOMAIN evidence : \E t \in DOMAIN evidence[c] :
                   VoteReason(evidence[c][t]) = "invalid_crc"
    IN  Decision(NoId, 0, 0, FALSE, IF crc THEN "invalid_crc" ELSE "not_detected")

(* soft_vote() when one identifier or several have a quorum *)
DecideEligible(evidence, eligible) ==
    LET winner    == CHOOSE id \in NamedBy(eligible) : TRUE
        confidence == Percent(Support(evidence, Strongest(evidence, eligible)),
                              RepetitionsOf(evidence, Strongest(evidence, eligible)))
    IN  IF Cardinality(NamedBy(eligible)) # 1
        THEN Decision(NoId, confidence, Max({Support(evidence, g) : g \in eligible}),
                      FALSE, "partial")
        ELSE Decision(winner, confidence,
                      MapThenSumSet(LAMBDA g : Support(evidence, g), eligible),
                      TRUE, "decoded")

(* soft_vote(): a minority vote for another identifier is outvoted. *)
SoftVote(evidence) ==
    LET groups == SupportGroups(evidence)
    IN  IF groups = {} THEN NoValidVote(evidence)
        ELSE IF EligibleGroups(evidence) = {}
        THEN DecisionOfGroup(evidence, Strongest(evidence, groups), NoId, "partial")
        ELSE DecideEligible(evidence, EligibleGroups(evidence))

(* A V2 decision that lets the strongest quorum win over other votes. *)
DecidePayloadVotesMajority(evidence, confidence) ==
    LET groups   == SupportGroups(evidence)
        eligible == EligibleGroups(evidence)
    IN  IF groups = {} THEN Decision(NoId, confidence, 0, FALSE, "payload_not_detected")
        ELSE IF eligible = {}
        THEN DecisionOfGroup(evidence, Strongest(evidence, groups), NoId,
                             "partial_payload_evidence")
        ELSE LET g == Strongest(evidence, eligible)
             IN  DecisionOfGroup(evidence, g, g[2], "decoded")

(* _decide_payload_votes() of V2: any vote for another identifier vetoes. *)
DecidePayloadVotes(evidence, confidence) ==
    LET groups   == SupportGroups(evidence)
        eligible == EligibleGroups(evidence)
    IN  IF groups = {} THEN Decision(NoId, confidence, 0, FALSE, "payload_not_detected")
        ELSE IF Cardinality(NamedBy(groups)) # 1 \/ eligible = {}
        THEN DecisionOfGroup(evidence, Strongest(evidence, groups), NoId,
                             "partial_payload_evidence")
        ELSE LET g == Strongest(evidence, eligible)
             IN  DecisionOfGroup(evidence, g, g[2], "decoded")

(* V3 votes carry the geometry and the codec they were read with, so one    *)
(* tile may vote for several identifiers.  by_identity keeps the tiles of   *)
(* each candidate and identifier.                                           *)
TileSupport(votes, group) ==
    Cardinality({v.tile : v \in {w \in votes : w.candidate = group[1] /\ w.id = group[2]}})
StrongestV3(votes, repetitions, groups) ==
    CHOOSE g \in groups : \A h \in groups :
        LET left  == TileSupport(votes, h) * repetitions[g[1]]
            right == TileSupport(votes, g) * repetitions[h[1]]
        IN  \/ left < right
            \/ left = right /\ TileSupport(votes, h) <= TileSupport(votes, g)
StatusV3(groups, n, total) ==
    IF Cardinality(NamedBy(groups)) > 1 THEN "conflicting_payload_evidence"
    ELSE IF Quorum(n, total) THEN "decoded" ELSE "partial_payload_evidence"
DecideStrongestV3(id, n, total, status) ==
    Decision(IF status = "decoded" THEN id ELSE NoId, Percent(n, total), n, TRUE, status)
DecidePayloadVotesV3(votes, repetitions, confidence) ==
    LET groups == {<<v.candidate, v.id>> : v \in votes}
        best   == StrongestV3(votes, repetitions, groups)
        n      == TileSupport(votes, best)
        total  == repetitions[best[1]]
    IN  IF groups = {} THEN Decision(NoId, confidence, 0, FALSE, "payload_not_detected")
        ELSE DecideStrongestV3(best[2], n, total, StatusV3(groups, n, total))

---------------------------------------------------------------------------
(* The decoders, as the benchmark calls them: with one candidate.          *)

Clip(score) == IF score > 100 THEN 100 ELSE IF score < -100 THEN -100 ELSE score

(* decode_fingerprint(): with a template the page is aligned first, and a   *)
(* page that cannot be aligned gives no votes; without one it is read as it *)
(* is.                                                                      *)
DecodeFingerprint(page, template) ==
    LET at == IF ~template THEN {"identity"}
              ELSE IF AlignPage(page) = "aligned" THEN {h.at : h \in page.orb} ELSE {}
    IN  IF at = {} THEN SoftVote([c \in {} |-> page.reads])
        ELSE SoftVote([c \in {"candidate"} |-> ExtractTiles(page, CHOOSE a \in at : TRUE)])

(* decode_fingerprint_v2().  The reason "runtime_error" is the exception,   *)
(* which propagates to the caller.                                          *)
DecodeAlignedV2(page, alignment) ==
    IF alignment.reason # "aligned"
    THEN Decision(NoId, Clip(alignment.score), 0, FALSE, alignment.reason)
    ELSE DecidePayloadVotes(
             [c \in {"candidate"} |-> ExtractTiles(page, alignment.winner.at)],
             Clip(alignment.score))
DecodeFingerprintV2(page) == DecodeAlignedV2(page, AlignPageV2(page, FALSE))

(* decode_fingerprint_v3(): every geometry tried, with the DCT codec and    *)
(* the two spread codecs.  The geometry score is not negative there.        *)
VotesAt(page, at) ==
    UNION {{[candidate |-> "candidate", tile |-> t, id |-> x] :
               x \in Ids \intersect
                     ({ExtractTiles(page, at)[t]} \union
                      (IF at = page.place THEN page.spread[t] ELSE {}))} :
           t \in DOMAIN page.reads}
DecodeSearchedV3(page, search) ==
    IF search.places = <<>>
    THEN Decision(NoId, 0, 0, FALSE,
                  IF search.reason \in {"geometry_rejected", "runtime_error"}
                  THEN search.reason ELSE "insufficient_sync_evidence")
    ELSE DecidePayloadVotesV3(
             UNION {VotesAt(page, search.places[k]) : k \in DOMAIN search.places},
             [c \in {"candidate"} |-> Cardinality(DOMAIN page.reads)], 100)
DecodeFingerprintV3(page, template) == DecodeSearchedV3(page, SearchGeometryV3(page, template))

---------------------------------------------------------------------------
(* The votes V3 would see if its DCT codec read what V2 reads. *)
VotesOf(evidence) ==
    {[candidate |-> p[1], tile |-> p[2], id |-> evidence[p[1]][p[2]]] :
        p \in {q \in UNION {{c} \X DOMAIN evidence[c] : c \in DOMAIN evidence} :
                  evidence[q[1]][q[2]] \in Ids}}
Names(decision) == {decision.id} \ {NoId}

(* On the same evidence each generation of the decoder only refuses more,   *)
(* and none names another issuance than its predecessor would: what V3      *)
(* names V2 names, what V2 names V1 names, and whatever further votes the   *)
(* spread codecs add, V3 and V2 never name two issuances (the vetoes of     *)
(* fingerprint_v2.py:231 and fingerprint_v3.py:231 against the majority of  *)
(* fingerprint.py:325).                                                     *)
LaterDecodersOnlyRefuse(evidences, extras) ==
    \A evidence \in evidences :
        LET repetitions == [c \in DOMAIN evidence |-> Cardinality(DOMAIN evidence[c])]
            v1    == Names(SoftVote(evidence))
            v2    == Names(DecidePayloadVotes(evidence, 0))
            v3(s) == Names(DecidePayloadVotesV3(VotesOf(evidence) \union s, repetitions, 0))
        IN  /\ v3({}) \subseteq v2
            /\ v2 \subseteq v1
            /\ \A s \in extras : Cardinality(v1 \union v2 \union v3(s)) <= 1
=============================================================================
