---------------------------- MODULE IssuedContent ----------------------------
(***************************************************************************)
(* What the issuance makes of a source file and what the verification      *)
(* makes of a suspect one: the checks, the rendering and the image-only    *)
(* PDF or PNG of demo/issuance.py, and the inspection, the rendering and   *)
(* the decisions of demo/verification.py.                                  *)
(*                                                                         *)
(* A file is what the libraries find in it: its format, its size, whether  *)
(* it opens, and its pages.  Lengths of PDF pages are in ticks, Ticks to a *)
(* point; lengths of images are in pixels.  A page carries at most one     *)
(* fingerprint: the identifier, the page index and the profile it was      *)
(* embedded with, and the tiles that are still readable.                   *)
(***************************************************************************)
EXTENDS FingerprintDecode

CONSTANTS
    MaxPdfBytes, MaxPdfPages, MaxImagePixels, MaxRasterPixels,  \* config/limits.py
    CanvasHeight, CanvasWidth,             \* DEMO_CANONICAL_CANVAS
    MinMarkerHeight, MinMarkerWidth,       \* 64 and 160 of release/marker.py
    MaxUserUnit,                           \* 75000
    Ticks,                                 \* ticks of a point
    Precision,                             \* ticks of the last digit _pdf_number() writes
    PageIndexHypotheses,                   \* PAGE_INDEX_HYPOTHESES (5)
    Profiles                               \* DEMO_ACCEPTED_CANDIDATE_IDENTIFIERS, frozen first

ASSUME ContentAssumption ==
    /\ Ticks \in Nat \ {0} /\ Precision \in Nat \ {0}
    /\ Ticks % (2 * Precision) = 0
    /\ {MaxPdfBytes, MaxPdfPages, MaxImagePixels, MaxRasterPixels} \subseteq Nat
    /\ {CanvasHeight, CanvasWidth, MinMarkerHeight, MinMarkerWidth} \subseteq Nat
    /\ MaxUserUnit \in Nat \ {0} /\ PageIndexHypotheses \in Nat \ {0}
    /\ Profiles \in Seq({Profiles[k] : k \in DOMAIN Profiles}) /\ Profiles # <<>>

SourceRenderScale == 2
PdfRenderScale == 2
PayloadTiles == 1..3
NoMark == [id |-> NoId, index |-> 0, profile |-> "none", tiles |-> {}]
Mark(id, index, profile) == [id |-> id, index |-> index, profile |-> profile, tiles |-> PayloadTiles]

(* plain: the page holds one image and nothing else; filter: how that image *)
(* is compressed.  place: where its content lies (PageAlignment).           *)
Page(width, height, unit) ==
    [width |-> width, height |-> height, unit |-> unit, plain |-> FALSE, filter |-> "none",
     rotated |-> FALSE, place |-> "identity", mark |-> NoMark]
File(format, bytes, opens, pages) ==
    [format |-> format, bytes |-> bytes, opens |-> opens, strict |-> TRUE, pages |-> pages]
NoFile == File("none", 0, "no", <<>>)
Formats == {"pdf", "png", "jpeg", "other"}

Ceiling(a, b) == (a + b - 1) \div b
Raster(page, scale) ==
    [width  |-> Ceiling(page.width * scale, Ticks),
     height |-> Ceiling(page.height * scale, Ticks)]
Pixels(raster) == raster.width * raster.height
CanvasPixels == CanvasHeight * CanvasWidth
PageIsPositive(page) == page.width > 0 /\ page.height > 0

(* What the pages cost up to each of them *)
RunningTotal(pages, cost) ==
    LET total[k \in 0..Len(pages)] == IF k = 0 THEN 0 ELSE total[k - 1] + cost[k]
    IN  total

(* The first page that is not positive, or that takes the sum of the costs  *)
(* over the budget, decides.                                                *)
BudgetCode(pages, cost) ==
    LET invalid == {k \in DOMAIN pages : ~PageIsPositive(pages[k])}
        over    == {k \in DOMAIN pages : RunningTotal(pages, cost)[k] > MaxRasterPixels}
    IN  IF invalid \union over = {} THEN "none"
        ELSE IF Min(invalid \union over) \in invalid THEN "PDF_INVALID" ELSE "RASTER_LIMIT"

(* pdfium opens the file, and the page count is in range. *)
OpenCode(file) ==
    IF file.opens = "password" THEN "PDF_ENCRYPTED"
    ELSE IF file.opens = "no" THEN "PDF_INVALID"
    ELSE IF Len(file.pages) \notin 1..MaxPdfPages THEN "PDF_PAGE_LIMIT" ELSE "none"

(* _source_page_units() and the first part of _pdf_page_metadata(): a       *)
(* second, strict parser must agree.                                        *)
UnitsCode(file) ==
    IF file.strict /\ \A k \in DOMAIN file.pages : file.pages[k].unit \in 1..MaxUserUnit
    THEN "none" ELSE "PDF_INVALID"

FirstCode(codes) ==
    IF \A k \in DOMAIN codes : codes[k] = "none" THEN "none"
    ELSE codes[CHOOSE k \in DOMAIN codes :
                 codes[k] # "none" /\ \A j \in 1..(k - 1) : codes[j] = "none"]

---------------------------------------------------------------------------
(* The issuance.                                                            *)

(* _validate_raster_budget(): a page costs its rendering or the canvas *)
SourceCost(page) ==
    Max({Pixels(Raster(page, SourceRenderScale * page.unit)), CanvasPixels})
ValidateRasterBudget(pages) ==
    BudgetCode(pages, [k \in DOMAIN pages |-> SourceCost(pages[k])])

(* apply_visible_marker() draws on rasters that are large enough. *)
MarkerFits(raster) == raster.height >= MinMarkerHeight /\ raster.width >= MinMarkerWidth
MarkerCode(rasters, visible) ==
    IF visible /\ \E k \in DOMAIN rasters : ~MarkerFits(rasters[k])
    THEN "ISSUANCE_PROCESSING_FAILED" ELSE "none"

(* What is put on page k: the marker, or the fingerprint, embedded in the   *)
(* canvas and scaled back to the page.                                      *)
SelectFrozenCandidate == Profiles[1]
Marking(id, k, visible) == IF visible THEN NoMark ELSE Mark(id, k, SelectFrozenCandidate)

(* _pdf_number() rounds to the digits it writes *)
PdfNumber(length) == ((2 * length + Precision) \div (2 * Precision)) * Precision

(* _encode_lossless_page(): the raster of a page, with the size in points   *)
(* it will be shown at                                                      *)
EncodeLosslessPage(page, mark) ==
    [Page(page.width * page.unit, page.height * page.unit, 1) EXCEPT !.filter = "flate", !.mark = mark]

(* _serialize_image_only_pdf(): the image is all there is on its page *)
SerializePage(encoded) ==
    [encoded EXCEPT !.plain = TRUE, !.width = PdfNumber(@), !.height = PdfNumber(@)]

(* A build: the code it fails with, or the artifact and its content type *)
Build(code, file, type) == [code |-> code, file |-> file, type |-> type]
Refuse(code) == Build(code, NoFile, "none")

(* _build_issuance_pdf() *)
BuildIssuancePdf(source, id, visible, size) ==
    LET pages   == source.pages
        rasters == [k \in DOMAIN pages |-> Raster(pages[k], SourceRenderScale * pages[k].unit)]
        code    == FirstCode(<<
                      IF source.bytes > MaxPdfBytes THEN "PDF_FILE_LIMIT" ELSE "none",
                      IF source.format # "pdf" THEN "PDF_INVALID" ELSE "none",
                      OpenCode(source), UnitsCode(source), ValidateRasterBudget(pages),
                      MarkerCode(rasters, visible)>>)
    IN  IF code # "none" THEN Refuse(code)
        ELSE Build("none",
                   File("pdf", size, "yes",
                        [k \in DOMAIN pages |->
                            SerializePage(EncodeLosslessPage(pages[k], Marking(id, k - 1, visible)))]),
                   "application/pdf")

(* cv2.imdecode() turns a rotated photograph upright. *)
Upright(page) ==
    IF page.rotated
    THEN [page EXCEPT !.width = page.height, !.height = page.width, !.rotated = FALSE]
    ELSE page

(* _build_issuance_image(): the result is a PNG of the source's pixels *)
BuildIssuanceImage(source, id, visible, size) ==
    LET page == Upright(source.pages[1])
        code == FirstCode(<<
                   IF source.bytes > MaxPdfBytes THEN "PDF_FILE_LIMIT" ELSE "none",
                   IF source.opens # "yes" THEN "IMAGE_INVALID" ELSE "none",
                   IF Pixels(page) > MaxImagePixels THEN "IMAGE_PIXEL_LIMIT" ELSE "none",
                   MarkerCode(<<page>>, visible)>>)
    IN  IF code # "none" THEN Refuse(code)
        ELSE Build("none",
                   File("png", size, "yes", <<[page EXCEPT !.mark = Marking(id, 0, visible)]>>),
                   "image/png")

(* _build_issuance_artifact(): the bytes decide, not the declared type *)
IsImage(file) == file.format \in {"png", "jpeg"}
BuildIssuanceArtifact(source, id, visible, size) ==
    IF IsImage(source) THEN BuildIssuanceImage(source, id, visible, size)
    ELSE BuildIssuancePdf(source, id, visible, size)

(* issuance_output_extension(): the declared type decides, not the bytes *)
OutputExtension(declared) == IF declared \in {"image/png", "image/jpeg"} THEN "png" ELSE "pdf"
ExtensionOf(type) == IF type = "image/png" THEN "png" ELSE "pdf"
TypeOf(format) ==
    CASE format = "png" -> "image/png" [] format = "jpeg" -> "image/jpeg" [] OTHER -> "application/pdf"

(* storage.upload_bytes() takes no more than max_bytes. *)
IsStored(build) == build.code = "none" /\ build.file.bytes <= MaxPdfBytes

---------------------------------------------------------------------------
(* The verification: what it accepts.                                       *)

(* A legacy test that looks at the box and the layout of the page only. *)
IsLegacyCanonicalPageByBox(page) ==
    /\ page.unit = 1 /\ ~page.rotated /\ page.plain
    /\ page.width = CanvasWidth * Ticks /\ page.height = CanvasHeight * Ticks

(* _is_legacy_canonical_page(): the artifacts of an earlier version held a  *)
(* JPEG of the canvas, one pixel to a point.                                *)
IsLegacyCanonicalPage(page) ==
    /\ page.unit = 1 /\ ~page.rotated /\ page.plain
    /\ page.width = CanvasWidth * Ticks /\ page.height = CanvasHeight * Ticks
    /\ page.filter = "dct"

RenderScale(page) == IF IsLegacyCanonicalPage(page) THEN 1 ELSE PdfRenderScale * page.unit

(* _validate_pdf_raster_budget(): the renderings only *)
ValidatePdfRasterBudget(pages) ==
    BudgetCode(pages,
               [k \in DOMAIN pages |-> Pixels(Raster(pages[k], RenderScale(pages[k])))])

PdfCode(file) ==
    FirstCode(<<OpenCode(file), UnitsCode(file), ValidatePdfRasterBudget(file.pages)>>)

(* _validate_image_dimensions() *)
DimensionsCode(page) ==
    IF ~PageIsPositive(page) THEN "IMAGE_INVALID"
    ELSE IF Pixels(page) > MaxImagePixels THEN "RASTER_LIMIT" ELSE "none"

FormatCode(file) ==
    IF file.bytes > MaxPdfBytes THEN "FILE_LIMIT"
    ELSE IF file.format \notin {"pdf", "png", "jpeg"} THEN "FORMAT_INVALID" ELSE "none"

(* _inspect_integrity_content(): a photograph is read as it is stored *)
InspectIntegrityContent(file) ==
    FirstCode(<<FormatCode(file),
                IF file.format = "pdf" THEN PdfCode(file)
                ELSE IF file.opens # "yes" THEN "IMAGE_INVALID"
                ELSE DimensionsCode(file.pages[1])>>)

(* _jpeg_dimensions(), and the header of _decode_png(): the size before any *)
(* rotation, unless there is no such header                                 *)
HasDimensions(file) == file.opens # "headless"
JpegDimensions(page) == <<page.height, page.width>>

(* _decode_png(), _decode_jpeg() and the checks of _decode_image(): the     *)
(* size in the header, checked first, must be that of the decoded raster,   *)
(* which a rotated photograph's is not.                                     *)
ImageCode(file) ==
    LET page == file.pages[1]
    IN  FirstCode(<<IF HasDimensions(file) THEN "none" ELSE "IMAGE_INVALID",
                    DimensionsCode(page),
                    IF \/ file.opens # "yes"
                       \/ <<Upright(page).height, Upright(page).width>> # JpegDimensions(page)
                    THEN "IMAGE_INVALID" ELSE "none">>)
DecodeCode(file) ==
    FirstCode(<<FormatCode(file), IF file.format = "pdf" THEN PdfCode(file) ELSE ImageCode(file)>>)

---------------------------------------------------------------------------
(* The verification: whom it names.                                         *)

(* The canonicalized page as decode_fingerprint_v2() meets it with the keys *)
(* of a page index and a profile                                            *)
CanvasFor(page, index, profile) ==
    LET bound == page.mark.id # NoId /\ page.mark.index = index /\ page.mark.profile = profile
    IN  [place |-> page.place,
         peaks |-> IF bound /\ page.place = "identity"
                   THEN {[at |-> "identity", score |-> 100, flaws |-> {}]} ELSE {},
         orb |-> {}, matches |-> FALSE, fault |-> "none",
         reads |-> [t \in PayloadTiles |->
                      IF bound /\ t \in page.mark.tiles THEN page.mark.id ELSE "none"]]

IsConclusive(d) == d.reason \in {"decoded", "partial_payload_evidence"}

(* The first conclusive element of a sequence, else its first element *)
FirstConclusive(decisions) ==
    IF \E k \in DOMAIN decisions : IsConclusive(decisions[k])
    THEN decisions[CHOOSE k \in DOMAIN decisions :
                     IsConclusive(decisions[k]) /\ \A j \in 1..(k - 1) : ~IsConclusive(decisions[j])]
    ELSE decisions[1]

(* _first_conclusive_decision(): the profiles in turn, the current one      *)
(* first, so that what was issued before a change of profile stays readable *)
AcceptedDecodeCandidates == Profiles
FirstConclusiveDecision(page, index) ==
    FirstConclusive([k \in DOMAIN AcceptedDecodeCandidates |->
        DecodeFingerprintV2(CanvasFor(page, index, AcceptedDecodeCandidates[k]))])

StatusOrder == <<"geometry_rejected", "payload_not_detected", "insufficient_sync_evidence">>
Summary(id, status) == [id |-> id, reason |-> status]

(* Pages that name two issuances, decided for the one named first. *)
AggregateDecisionsFirst(decisions) ==
    LET decided == {d \in DOMAIN decisions : decisions[d].reason = "decoded"}
        statuses == {decisions[k].reason : k \in DOMAIN decisions}
    IN  IF decided # {} THEN Summary(decisions[Min(decided)].id, "decoded")
        ELSE IF "partial_payload_evidence" \in statuses
        THEN Summary(NoId, "partial_payload_evidence")
        ELSE LET known == {k \in DOMAIN StatusOrder : StatusOrder[k] \in statuses}
             IN  Summary(NoId, IF known = {} THEN "DECODE_FAILED" ELSE StatusOrder[Min(known)])

(* _aggregate_decisions(): one partial page, or two identifiers, and nobody *)
(* is named.                                                                *)
AggregateDecisions(decisions) ==
    LET statuses == {decisions[k].reason : k \in DOMAIN decisions}
        decoded  == {decisions[k].id : k \in {j \in DOMAIN decisions : decisions[j].reason = "decoded"}}
        known    == {k \in DOMAIN StatusOrder : StatusOrder[k] \in statuses}
    IN  IF "partial_payload_evidence" \in statuses \/ Cardinality(decoded) > 1
        THEN Summary(NoId, "partial_payload_evidence")
        ELSE IF Cardinality(decoded) = 1
        THEN Summary(CHOOSE id \in decoded : TRUE, "decoded")
        ELSE Summary(NoId, IF known = {} THEN "DECODE_FAILED" ELSE StatusOrder[Min(known)])

(* _decode_pdf(): every page at its own index *)
DecodePdf(file) ==
    AggregateDecisions(
        [k \in DOMAIN file.pages |-> FirstConclusiveDecision(file.pages[k], k - 1)])

(* _geometry_hypotheses(): the image itself, and without a uniform border *)
GeometryHypotheses(page) ==
    IF RestoreFrame(page) THEN <<page, [page EXCEPT !.place = "identity"]>> ELSE <<page>>

(* _aggregate_unknown_page_decisions(): enough indexes must agree *)
UnknownPageMinConsistentDecodes == 1
AggregateUnknownPageDecisions(decisions) ==
    LET summary == AggregateDecisions(decisions)
        support == {k \in DOMAIN decisions :
                       decisions[k].reason = "decoded" /\ decisions[k].id = summary.id}
    IN  IF summary.reason = "decoded" /\ Cardinality(support) < UnknownPageMinConsistentDecodes
        THEN Summary(NoId, "partial_payload_evidence") ELSE summary

(* _decode_image(): which page of a document an image shows is not known,   *)
(* so the first PageIndexHypotheses indexes are tried.                      *)
DecodeImage(file) ==
    LET pages == GeometryHypotheses(file.pages[1])
    IN  FirstConclusive(
            [k \in DOMAIN pages |->
                AggregateUnknownPageDecisions(
                    [i \in 1..PageIndexHypotheses |-> FirstConclusiveDecision(pages[k], i - 1)])])

(* _decode_content() *)
DecodeContent(file) == IF file.format = "pdf" THEN DecodePdf(file) ELSE DecodeImage(file)
=============================================================================
