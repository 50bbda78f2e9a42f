----------------------------- MODULE PayloadCode -----------------------------
(***************************************************************************)
(* The error-correcting code under every fingerprint payload: the byte     *)
(* interleaver, the shortened Reed-Solomon code and the ladder of erasure  *)
(* claims the V2 and V3 receivers climb down                               *)
(* (research/python/src/splitbind_ref/ecc.py and payload.py).              *)
(*                                                                         *)
(* A codeword is a sequence of byte tags: byte i of the sent codeword is   *)
(* the number i, a damaged byte is Damaged.  The Reed-Solomon library is   *)
(* external: it corrects w unknown wrong bytes and e erased ones iff       *)
(* 2w + e does not exceed the number of parity symbols.                    *)
(***************************************************************************)
EXTENDS Integers, Sequences, FiniteSets, SequencesExt

CONSTANTS MessageBytes, ParitySymbols, InterleaveDepth

ASSUME CodeAssumption ==
    /\ MessageBytes \in Nat \ {0}
    /\ ParitySymbols \in Nat
    /\ InterleaveDepth \in Nat \ {0}

CodewordBytes == MessageBytes + ParitySymbols
Damaged == 0

(* encode_payload and encode_ecc before interleaving: a payload carries its *)
(* version, its identifier and a CRC over both; only the positions of its   *)
(* bytes matter here.                                                       *)
RawCodeword == [i \in 1..CodewordBytes |-> i]

(* len(range(offset, len(data), depth)), with offsets counted from 0 *)
LaneLength(length, depth, offset) ==
    IF offset >= length THEN 0 ELSE (length - offset + depth - 1) \div depth

(* interleave(): the lanes data[offset::depth], one after the other *)
InterleaveBytes(data, depth) ==
    FlattenSeq([lane \in 1..depth |->
        [k \in 1..LaneLength(Len(data), depth, lane - 1) |->
            data[lane + (k - 1) * depth]]])

(* A deinterleaver that gives every lane the length of the shortest one. *)
DeinterleaveEvenly(data, depth) ==
    [i \in 1..Len(data) |->
        LET lane == (i - 1) % depth
            at   == lane * (Len(data) \div depth) + (i - 1) \div depth + 1
        IN  data[at]]

(* cursor in deinterleave(), before each lane and after the last one *)
Cursor(length, depth) ==
    LET cursor[offset \in 0..depth] ==
            IF offset = 0 THEN 0
            ELSE cursor[offset - 1] + LaneLength(length, depth, offset - 1)
    IN  cursor

(* deinterleave(): a cursor walks the lanes, whose last row may be ragged *)
Deinterleave(data, depth) ==
    [i \in 1..Len(data) |->
        data[Cursor(Len(data), depth)[(i - 1) % depth] + (i - 1) \div depth + 1]]

EncodeEcc == InterleaveBytes(RawCodeword, InterleaveDepth)

(* External: what the Reed-Solomon library can correct. *)
ReedSolomonCorrects(wrong, erased) ==
    2 * Cardinality(wrong \ erased) + Cardinality(erased) <= ParitySymbols

(* decode_ecc_with_erasures(): erasures are given as positions of the      *)
(* interleaved codeword and translated to raw positions with the           *)
(* interleaver itself.                                                     *)
DecodeEccWithErasures(codeword, erasures) ==
    LET raw    == Deinterleave(codeword, InterleaveDepth)
        rawAt  == InterleaveBytes(RawCodeword, InterleaveDepth)
        erased == {rawAt[p] : p \in erasures}
        wrong  == {i \in 1..CodewordBytes : raw[i] # RawCodeword[i]}
    IN  /\ Cardinality(erasures) <= ParitySymbols
        /\ ReedSolomonCorrects(wrong, erased)

(* decode_ecc(): no erasures *)
DecodeEcc(codeword) == DecodeEccWithErasures(codeword, {})

(* counts in erasure_ladder(): the budget, halved until it is 0; as a       *)
(* budget is 0 after so many halvings at the latest, no loop is needed.     *)
ErasureCounts ==
    LET count[k \in 0..ParitySymbols] == IF k = 0 THEN ParitySymbols ELSE count[k - 1] \div 2
    IN  {count[k] : k \in 0..ParitySymbols}

(* erasure_ladder(): the receiver's own claim, and the weakest bytes the    *)
(* budget affords, down to none.  The code tries them in this order and     *)
(* drops repeated ones; as the model has no miscorrections, which the CRC   *)
(* is there to refuse, the order changes nothing.                           *)
ErasureLadder(claim, ranking) ==
    {claim} \union
    {ToSet(SubSeq(ranking, 1, n)) : n \in {c \in ErasureCounts : c <= Len(ranking)}}

(* The loop of _decode_payload_vote(): an attempt that decodes wins. *)
LadderDecodes(codeword, claim, ranking) ==
    \E erasures \in ErasureLadder(claim, ranking) : DecodeEccWithErasures(codeword, erasures)

(* Positions of the interleaved codeword damaged on the page. *)
DamageAt(codeword, positions) ==
    [p \in DOMAIN codeword |-> IF p \in positions THEN Damaged ELSE codeword[p]]

Rankings ==
    {[p \in 1..CodewordBytes |-> p],
     [p \in 1..CodewordBytes |-> CodewordBytes + 1 - p]}

(* Whatever bytes are damaged and whatever the receiver claims to have lost,*)
(* a codeword that is decodable with that claim, or without any claim, is   *)
(* decoded: erasure positions name the bytes they were meant for in spite   *)
(* of the interleaving, also when the last row is ragged, and an over-eager *)
(* claim costs nothing (ecc.py:29-60 and 119-153).                          *)
LadderRecovers ==
    \A damaged, claim \in SUBSET (1..CodewordBytes), ranking \in Rankings :
        \/ 2 * Cardinality(damaged) <= ParitySymbols
        \/ 2 * Cardinality(damaged \ claim) + Cardinality(claim) <= ParitySymbols
        => LadderDecodes(DamageAt(EncodeEcc, damaged), claim, ranking)
=============================================================================
