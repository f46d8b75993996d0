----------------------------- MODULE RustPageBox ------------------------------
(***************************************************************************)
(* rustservice/src/pdfdoc.rs: the visible part of a page, its size (which  *)
(* get_meta tells the reader of the first page only), and the size of the  *)
(* picture of it, of a scan the service decodes itself or of a page that   *)
(* pdf_oxide renders.  Pure operators over whole points.                   *)
(***************************************************************************)
EXTENDS Integers

CONSTANT CCITT_MIN_SIDE

ASSUME ScanAssumption == CCITT_MIN_SIDE \in Nat \ {0}

NoDpi == -1
NoBox == <<>>

(* A page and what is asked of it.  A box is <<x0, y0, x1, y1>>, the       *)
(* corners in any order.  What pdf_oxide fails to do with the page is free *)
(* to choose: decode its scan, draw a region of it.                        *)
Box == Int \X Int \X Int \X Int
Image == [w : Nat, h : Nat, ccitt : BOOLEAN, parms : BOOLEAN, k : BOOLEAN]
Page == [media : Box, crop : Box \cup {NoBox}, rot : Int, images : SUBSET Image,
         dpi : Nat \cup {NoDpi}, fails : SUBSET {"scan", "region"}]

Least(x, y) == IF x < y THEN x ELSE y
Most(x, y) == IF x > y THEN x ELSE y
Apart(x, y) == Most(x - y, y - x)

(* round of n / d, which are not negative here. *)
Round(n, d) == (2 * n + d) \div (2 * d)

Straight(b) == <<Least(b[1], b[3]), Least(b[2], b[4]), Most(b[1], b[3]), Most(b[2], b[4])>>
Rect(b) == [x |-> b[1], y |-> b[2], w |-> b[3] - b[1], h |-> b[4] - b[2]]

Media(p) == Rect(Straight(p.media))

(* page_box: the crop box within the media box, or the media box if that   *)
(* leaves next to nothing.                                                 *)
Visible(m, cut) == IF cut.w <= 1 \/ cut.h <= 1 THEN m ELSE cut
Common(m, c) ==
    Rect(<<Most(c[1], m[1]), Most(c[2], m[2]), Least(c[3], m[3]), Least(c[4], m[4])>>)
PageBox(p) ==
    IF p.crop = NoBox THEN Media(p)
    ELSE Visible(Media(p), Common(Straight(p.media), Straight(p.crop)))

(* page_size, and what rotating a picture does to its sides. *)
Turned(p) == p.rot % 360 \in {90, 270}
Sides(p, w, h) == IF Turned(p) THEN <<h, w>> ELSE <<w, h>>
PageSize(p) == Sides(p, PageBox(p).w, PageBox(p).h)

(* handle_pageimg's dpi: between 36 and 400, or RENDER_DPI for no number. *)
Dpi(asked) == IF asked = NoDpi THEN 300 ELSE Least(Most(asked, 36), 400)

------------------------------------------------------------------------------
(* find_ccitt_fullpage: the largest CCITT image without /K that has the    *)
(* shape of the whole page.                                                *)
Scans(p) ==
    {im \in p.images :
        /\ im.ccitt /\ im.parms /\ ~im.k
        /\ im.w >= CCITT_MIN_SIDE /\ im.h >= CCITT_MIN_SIDE
        /\ Media(p).w > 1 /\ Media(p).h > 1
        /\ 20 * Apart(im.h * Media(p).w, im.w * Media(p).h) <= im.w * Media(p).h}

(* xobjs.values() comes in any order: of several largest, any is taken. *)
Largest(p) == {im \in Scans(p) : \A other \in Scans(p) : other.w * other.h <= im.w * im.h}

(* ccitt_page_jpeg: the pixels of the visible part b of the paper m; the   *)
(* image begins at the top, the page at the bottom.                        *)
TopOfUpright(m, b, im) == Round((b.y - m.y) * im.h, m.h)
TopOf(m, b, im) == Round((m.y + m.h - b.y - b.h) * im.h, m.h)
LeftOf(m, b, im) == Round((b.x - m.x) * im.w, m.w)

Clip(x, y, w, h, im) ==
    IF x < im.w /\ y < im.h
    THEN [x |-> x, y |-> y, w |-> Least(w, im.w - x), h |-> Least(h, im.h - y)]
    ELSE [x |-> 0, y |-> 0, w |-> im.w, h |-> im.h]

Cut(m, b, im) ==
    Clip(LeftOf(m, b, im), TopOf(m, b, im),
         Most(Round(b.w * im.w, m.w), 1), Most(Round(b.h * im.h, m.h), 1), im)

(* Turned, and scaled down to the resolution asked for. *)
Scaled(p, w, h) ==
    LET wide == Most(Round(PageSize(p)[1] * Dpi(p.dpi), 72), 1) IN
    IF wide < w THEN <<wide, Most(Round(h * wide, w), 1)>> ELSE <<w, h>>

ScanPicture(p, cut) ==
    IF Turned(p) THEN Scaled(p, cut.h, cut.w) ELSE Scaled(p, cut.w, cut.h)

(* render_page_jpeg: the whole page, or a region of it and the whole page  *)
(* if that fails; pdf_oxide turns the page.                                *)
NeedCropBothSides(m, b) == 100 * b.w < 99 * m.w /\ 100 * b.h < 99 * m.h
NeedCrop(m, b) ==
    100 * b.w < 99 * m.w \/ 100 * b.h < 99 * m.h \/ b.x # 0 \/ b.y # 0

Drawn(p) == Scans(p) = {} \/ "scan" \in p.fails
FellBack(p) == Drawn(p) /\ NeedCrop(Media(p), PageBox(p)) /\ "region" \in p.fails

WholePage(p) == Sides(p, Media(p).w, Media(p).h)
Rendered(p) ==
    IF NeedCrop(Media(p), PageBox(p)) /\ ~FellBack(p) THEN PageSize(p) ELSE WholePage(p)

Pictures(p) ==
    IF Drawn(p) THEN {Rendered(p)}
    ELSE {ScanPicture(p, Cut(Media(p), PageBox(p), im)) : im \in Largest(p)}

------------------------------------------------------------------------------
(* The pixels cut out of a scan are within the image, and each edge is     *)
(* within a pixel and a half of the edge of the crop box (two roundings);  *)
(* of a box no more than half a pixel across nothing may be left to cut,   *)
(* and the image stays whole.                                              *)
Near(pixel, point, pixels, points) == 2 * Apart(pixel * points, point * pixels) <= 3 * points
Within(c, im) ==
    0 <= c.x /\ 0 <= c.y /\ 0 < c.w /\ 0 < c.h /\ c.x + c.w <= im.w /\ c.y + c.h <= im.h
Fits(c, m, b, im) ==
    /\ Near(c.x, b.x - m.x, im.w, m.w)
    /\ Near(c.x + c.w, b.x - m.x + b.w, im.w, m.w)
    /\ Near(im.h - c.y - c.h, b.y - m.y, im.h, m.h)
    /\ Near(im.h - c.y, b.y - m.y + b.h, im.h, m.h)
Thin(m, b, im) == 2 * b.w * im.w <= m.w \/ 2 * b.h * im.h <= m.h

CutIsCropBox(p) ==
    \A im \in Scans(p) :
        LET c == Cut(Media(p), PageBox(p), im) IN
        /\ Within(c, im)
        /\ Fits(c, Media(p), PageBox(p), im) \/ Thin(Media(p), PageBox(p), im)

(* The picture of a page lies the way its visible part lies, for every     *)
(* crop box and rotation, decoded here or drawn by pdf_oxide, also after a *)
(* scan failed to decode: wide stays wide, tall tall.  For the first page  *)
(* that is the size get_meta tells the reader, which lays out every page   *)
(* by it until the picture of the page has come.  Excepted is a page whose *)
(* region failed to be drawn: its picture is the whole paper, which may    *)
(* lie the other way (half of a wide sheet is tall), and it is cached like *)
(* any other.  Sides that differ by less than a twentieth may change       *)
(* places, which is what a scan may differ from its page (and more than a  *)
(* crop box that is left aside).                                           *)
Shorter(a, b) == 20 * a < 19 * b
LieAlike(box, pic) ==
    /\ Shorter(box[1], box[2]) => pic[1] <= pic[2]
    /\ Shorter(box[2], box[1]) => pic[1] >= pic[2]

LiesAsBox(p) ==
    ~FellBack(p) /\ (Drawn(p) \/ \A im \in Scans(p) : ~Thin(Media(p), PageBox(p), im)) =>
        \A pic \in Pictures(p) : LieAlike(PageSize(p), pic)
=============================================================================
