----------------------------- MODULE MCJobQueue -----------------------------
(* A small registry for JobQueue: the second key file is registered under  *)
(* an id of its own, and the first public key can be registered twice,     *)
(* which makes it ambiguous.  The content of the files the jobs work on    *)
(* (IssuedContent) is checked over bounded files before the queue starts.  *)
EXTENDS JobQueue, IssuedContent

MCRegistrations == <<"k1", "k2", "k3">>
MCPublicKey == [k1 |-> "p1", k2 |-> "p2", k3 |-> "p1"]
MCKeyFiles == <<"p1", "p2">>
MCIds == {"own", "other"}
MCProfiles == <<"frozen", "legacy">>

(* What is said of operators is evaluated in this state. *)
BeforeTheQueue == job = [j \in Jobs |-> NoJob] /\ worker = Down /\ faults = 0 /\ changes = 0

---------------------------------------------------------------------------
(* Sources: PDFs with pages around every boundary, of one page and of two,  *)
(* images, and files that do not open.                                      *)
Lengths == {0, 1, 2 * Ticks - 1, 2 * Ticks, 2 * Ticks + 1, CanvasWidth * Ticks}
SourcePageSet == {Page(w, h, u) : w \in Lengths, h \in Lengths \union {CanvasHeight * Ticks}, u \in {1, 2, 4}}
FewPages == {Page(CanvasWidth * Ticks, CanvasHeight * Ticks, 1), Page(2 * Ticks + 3, 2 * Ticks, 1),
             Page(6 * Ticks, 6 * Ticks, 2), Page(0, 1, 1)}
Photographs == {[Page(w, h, 1) EXCEPT !.rotated = r] : w \in {1, 4, 9}, h \in {2, 4, 9}, r \in BOOLEAN}
OnePage  == {File("pdf", b, "yes", <<p>>) : b \in {1, MaxPdfBytes + 1}, p \in SourcePageSet}
TwoPages == {File("pdf", 1, "yes", <<p, q>>) : p \in FewPages, q \in FewPages}
Unopened == {File("pdf", 1, opens, pages) :
               opens \in {"yes", "no", "password"}, pages \in {<<>>, <<CHOOSE p \in FewPages : p.unit = 2>>}}
Lenient  == {[File("pdf", 1, "yes", <<Page(2 * Ticks, 2 * Ticks, 1)>>) EXCEPT !.strict = FALSE]}
ImagesOf(format, opens) ==
    {File(format, b, opens, <<p>>) : b \in {1, MaxPdfBytes + 1}, p \in Photographs}
Images   == UNION {ImagesOf(format, opens) :
                     format \in {"png", "jpeg", "other"}, opens \in {"yes", "no", "headless"}}
Sources  == OnePage \union TwoPages \union Unopened \union Lenient \union Images

(* A page so thin that its length is written as zero *)
Vanishes(file) == \E k \in DOMAIN file.pages : ~PageIsPositive(file.pages[k])

(* What was issued can be verified: every artifact that reaches the store   *)
(* passes the checks of both verifiers, whose budget and formats are their  *)
(* own; every page is rendered at the size it was issued with, or smaller   *)
(* where its length was rounded, and is never taken for one of an earlier   *)
(* version; the fingerprint names the issuance; and the key's extension is  *)
(* that of the content when the upload declared its type truly.  The        *)
(* exception is a page of less than half a digit's length, which is written *)
(* as zero (issuance.py:798-932 and 972-1020, verification.py:285-317 and   *)
(* 526-609).                                                                *)
IssuedContentIsRecognized ==
    BeforeTheQueue =>
        \A source \in Sources, id \in Ids, visible \in BOOLEAN, size \in {1, MaxPdfBytes + 1} :
            LET build == BuildIssuanceArtifact(source, id, visible, size)
                file  == build.file
            IN  IsStored(build) =>
                  /\ OutputExtension(TypeOf(source.format)) = ExtensionOf(build.type)
                  /\ InspectIntegrityContent(file) = "none" <=> ~Vanishes(file)
                  /\ DecodeCode(file) = "none" <=> ~Vanishes(file)
                  /\ ~Vanishes(file) =>
                       IF visible THEN ~IsConclusive(DecodeContent(file))
                       ELSE DecodeContent(file) = Summary(id, "decoded")
                  /\ file.format = "pdf" /\ ~Vanishes(file) =>
                       \A k \in DOMAIN file.pages :
                          LET page   == source.pages[k]
                              issued == Raster(page, SourceRenderScale * page.unit)
                              shown  == Raster(file.pages[k], RenderScale(file.pages[k]))
                              exact  == /\ PdfNumber(page.width * page.unit) = page.width * page.unit
                                        /\ PdfNumber(page.height * page.unit) = page.height * page.unit
                          IN  /\ shown.width <= issued.width /\ shown.height <= issued.height
                              /\ exact => shown = issued

---------------------------------------------------------------------------
(* Suspects: pages of two issuances, moved, damaged, of a retired profile,  *)
(* framed, or without a fingerprint.                                        *)
ProfilesInUse == {Profiles[k] : k \in DOMAIN Profiles}
Marks ==
    {NoMark} \union
    {[Mark(id, index, profile) EXCEPT !.tiles = tiles] :
        id \in Ids, index \in 0..PageIndexHypotheses, profile \in ProfilesInUse \union {"retired"},
        tiles \in {{}, {2}, {1, 3}}}
Suspect(mark, place) ==
    [Page(CanvasWidth * Ticks, CanvasHeight * Ticks, 1) EXCEPT !.mark = mark, !.place = place]
Mixed ==
    {File("pdf", 1, "yes", <<Suspect(m, "identity"), Suspect(n, "identity")>>) : m \in Marks, n \in Marks}
Shot(mark, place) == [Page(4, 9, 1) EXCEPT !.mark = mark, !.place = place]
Screenshots ==
    {File("png", 1, "yes", <<Shot(m, place)>>) :
        m \in Marks, place \in {"identity", "frame", "crop"}}

(* Readable at the page index that is tried, on a page in its place *)
IsReadable(mark, indexes) ==
    mark.id # NoId /\ mark.tiles # {} /\ mark.index \in indexes /\ mark.profile \in ProfilesInUse
IsWhole(mark) == Cardinality(mark.tiles) >= 2

(* A file names an issuance exactly if every readable page names it whole;  *)
(* pages of two issuances or one partial page name nobody.  An image names  *)
(* it at one of the first PageIndexHypotheses indexes only.  Every file     *)
(* that passes the checks gets a decision, and both verifiers pass the same *)
(* files but for a photograph that is not square and stored turned          *)
(* (verification.py:357-466 and 612-656).                                   *)
AttributionIsUnanimous ==
    BeforeTheQueue =>
        /\ \A file \in Mixed :
              LET readable == {file.pages[k].mark :
                                 k \in {j \in DOMAIN file.pages : IsReadable(file.pages[j].mark, {j - 1})}}
                  decision == DecodeContent(file)
              IN  /\ decision.reason # "DECODE_FAILED"
                  /\ \A id \in Ids : decision.id = id <=>
                        readable # {} /\ \A m \in readable : m.id = id /\ IsWhole(m)
        /\ \A file \in Screenshots :
              LET mark     == file.pages[1].mark
                  decision == DecodeContent(file)
              IN  /\ decision.reason # "DECODE_FAILED"
                  /\ decision.id # NoId <=>
                        /\ IsReadable(mark, 0..(PageIndexHypotheses - 1)) /\ IsWhole(mark)
                        /\ file.pages[1].place \in {"identity", "frame"}
                  /\ decision.id \in {NoId, mark.id}
        /\ \A file \in Sources :
              (InspectIntegrityContent(file) = "none") # (DecodeCode(file) = "none") =>
                  IsImage(file) /\ file.pages[1].rotated
=============================================================================
