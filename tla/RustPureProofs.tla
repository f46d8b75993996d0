---------------------------- MODULE RustPureProofs ----------------------------
(* Theorems about the pure parts of the Rust service, for any input.       *)
EXTENDS RustPure, RankTheorems

(* Products, which the provers handle one at a time. *)
LEMMA TimesKeepsOrder ==
    ASSUME NEW a \in Int, NEW b \in Int, NEW c \in Nat
    PROVE  /\ a <= b => a * c <= b * c
           /\ a < b /\ c > 0 => a * c < b * c
OBVIOUS

LEMMA RoundIsNearest ==
    ASSUME NEW n \in Nat, NEW d \in Nat \ {0}
    PROVE  /\ Round(n, d) \in Nat
           /\ 2 * (Round(n, d) * d) <= 2 * n + d
           /\ 2 * n < 2 * (Round(n, d) * d) + d
<1>1. PICK q : q = (2 * n + d) \div (2 * d)
  OBVIOUS
<1>2. q \in Int /\ (2 * d) * q <= 2 * n + d /\ 2 * n + d < (2 * d) * q + 2 * d
  BY <1>1
<1> QED
  BY <1>1, <1>2 DEF Round

(* A larger fraction is not rounded to a smaller number.                   *)
LEMMA RoundKeepsOrder ==
    ASSUME NEW n \in Nat, NEW d \in Nat \ {0}, NEW k \in Nat, NEW e \in Nat \ {0},
           n * e <= k * d
    PROVE  Round(n, d) <= Round(k, e)
<1> PICK x, y : x = Round(n, d) /\ y = Round(k, e)
  OBVIOUS
<1>1. /\ x \in Nat /\ y \in Nat
      /\ 2 * (x * d) <= 2 * n + d
      /\ 2 * k < 2 * (y * e) + e
  BY RoundIsNearest
<1>2. ASSUME x > y PROVE FALSE
  <2>1. (2 * x - 1) * d <= 2 * n /\ 2 * k < (2 * y + 1) * e
    BY <1>1
  <2>2. 2 * y + 1 <= 2 * x - 1
    BY <1>1, <1>2
  <2>3. (2 * x - 1) * d * e <= 2 * n * e
    BY <1>1, <2>1, TimesKeepsOrder
  <2>4. 2 * k * d < (2 * y + 1) * e * d
    BY <1>1, <2>1, TimesKeepsOrder
  <2>5. (2 * y + 1) * (e * d) <= (2 * x - 1) * (e * d)
    BY <1>1, <2>2, TimesKeepsOrder
  <2> QED
    BY <1>1, <2>3, <2>4, <2>5
<1> QED
  BY <1>1, <1>2

------------------------------------------------------------------------------
(* One side of a cut: of px pixels that show pt points, those of the len   *)
(* points after the first off.                                             *)

LEMMA NearOtherEnd ==
    ASSUME NEW k \in Int, NEW t \in Int, NEW px \in Int, NEW pt \in Int,
           NEW kk, kk = px - k, NEW tt, tt = pt - t, Near(k, t, px, pt)
    PROVE  Near(kk, tt, px, pt)
<1>1. kk * pt - tt * px = t * px - k * pt
  OBVIOUS
<1>2. tt * px - kk * pt = k * pt - t * px
  OBVIOUS
<1> QED
  BY <1>1, <1>2 DEF Near, Apart, Most

LEMMA SideStart ==
    ASSUME NEW px \in Nat \ {0}, NEW pt \in Nat \ {0}, NEW off \in Nat, NEW len \in Nat \ {0},
           off + len <= pt, NEW x, x = Round(off * px, pt)
    PROVE  /\ x \in Nat
           /\ Near(x, off, px, pt)
           /\ x >= px => 2 * len * px <= pt
<1>1. off * px \in Nat
  OBVIOUS
<1>2. /\ x \in Nat
      /\ 2 * (x * pt) <= 2 * (off * px) + pt
      /\ 2 * (off * px) < 2 * (x * pt) + pt
  BY <1>1, RoundIsNearest
<1>3. Near(x, off, px, pt)
  BY <1>1, <1>2 DEF Near, Apart, Most
<1>4. ASSUME x >= px PROVE 2 * len * px <= pt
  <2>1. px * pt <= x * pt
    BY <1>2, <1>4, TimesKeepsOrder
  <2>2. (off + len) * px <= pt * px
    BY TimesKeepsOrder
  <2> QED
    BY <1>1, <1>2, <2>1, <2>2
<1> QED
  BY <1>2, <1>3, <1>4

LEMMA SideEnd ==
    ASSUME NEW px \in Nat \ {0}, NEW pt \in Nat \ {0}, NEW off \in Nat, NEW len \in Nat \ {0},
           off + len <= pt, NEW x, x = Round(off * px, pt), x < px,
           NEW w, w = Least(Most(Round(len * px, pt), 1), px - x)
    PROVE  /\ w \in Nat \ {0} /\ x + w <= px
           /\ Near(x + w, off + len, px, pt)
<1> PICK v : v = Round(len * px, pt)
  OBVIOUS
<1>1. off * px \in Nat /\ len * px \in Nat
  OBVIOUS
<1>2. /\ x \in Nat
      /\ 2 * (x * pt) <= 2 * (off * px) + pt
      /\ 2 * (off * px) < 2 * (x * pt) + pt
  BY <1>1, RoundIsNearest
<1>3. /\ v \in Nat
      /\ 2 * (v * pt) <= 2 * (len * px) + pt
      /\ 2 * (len * px) < 2 * (v * pt) + pt
  BY <1>1, RoundIsNearest
<1>4. w = Least(Most(v, 1), px - x)
  OBVIOUS
<1>5. w \in Nat \ {0} /\ x + w <= px
  BY <1>2, <1>3, <1>4 DEF Least, Most
<1>6. (off + len) * px = off * px + len * px /\ (off + len) * px <= pt * px
  BY TimesKeepsOrder
<1>7. (x + w) * pt = x * pt + w * pt
  BY <1>2, <1>5
<1> DEFINE Close(z) == 2 * (z - (off + len) * px) <= 3 * pt /\ 2 * ((off + len) * px - z) <= 3 * pt
<1>8. ASSUME w = v PROVE Close((x + w) * pt)
  BY <1>1, <1>2, <1>3, <1>6, <1>7, <1>8
<1>9. ASSUME w = 1, v = 0 PROVE Close((x + w) * pt)
  <2>1. (x + w) * pt = x * pt + pt
    BY <1>2, <1>9
  <2>2. v * pt = 0
    BY <1>9
  <2>3. 0 <= 2 * (len * px) /\ 2 * (len * px) < pt
    BY <1>1, <1>3, <2>2
  <2> QED
    BY <1>1, <1>2, <1>6, <2>1, <2>3
<1>10. ASSUME w = px - x, px - x <= v PROVE Close((x + w) * pt)
  <2>1. (px - x) * pt <= v * pt /\ (px - x) * pt = px * pt - x * pt
    BY <1>2, <1>3, <1>10, TimesKeepsOrder
  <2> QED
    BY <1>1, <1>2, <1>3, <1>6, <1>7, <1>10, <2>1
<1>11. Close((x + w) * pt)
  <2>1. w = v \/ (w = 1 /\ v = 0) \/ (w = px - x /\ px - x <= v)
    BY <1>2, <1>3, <1>4 DEF Least, Most
  <2> QED
    BY <1>8, <1>9, <1>10, <2>1
<1> QED
  BY <1>5, <1>6, <1>7, <1>11 DEF Near, Apart, Most

------------------------------------------------------------------------------
(* The visible part lies within the paper, and is thin only where the      *)
(* paper is.                                                               *)
Sheet == [x : Int, y : Int, w : Nat, h : Nat]
PartOf(b, m) ==
    /\ m.x <= b.x /\ b.x + b.w <= m.x + m.w
    /\ m.y <= b.y /\ b.y + b.h <= m.y + m.h

LEMMA PageBoxOnPaper ==
    ASSUME NEW p \in Page
    PROVE  /\ Media(p) \in Sheet /\ PageBox(p) \in Sheet
           /\ PartOf(PageBox(p), Media(p))
           /\ PageBox(p) = Media(p) \/ (PageBox(p).w > 1 /\ PageBox(p).h > 1)
<1>1. PICK x0, y0, x1, y1 \in Int : p.media = <<x0, y0, x1, y1>>
  BY DEF Page, Box
<1>2. Straight(p.media) = <<Least(x0, x1), Least(y0, y1), Most(x0, x1), Most(y0, y1)>>
  BY <1>1 DEF Straight
<1>3. PICK a0, b0, a1, b1 \in Int :
         /\ a0 <= a1 /\ b0 <= b1 /\ Straight(p.media) = <<a0, b0, a1, b1>>
  BY <1>2 DEF Least, Most
<1>4. Media(p) = [x |-> a0, y |-> b0, w |-> a1 - a0, h |-> b1 - b0]
  BY <1>3 DEF Media, Rect
<1>5. Media(p) \in Sheet /\ PartOf(Media(p), Media(p))
  BY <1>3, <1>4 DEF Sheet, PartOf
<1>6. ASSUME p.crop = NoBox PROVE PageBox(p) = Media(p)
  BY <1>6 DEF PageBox
<1>7. ASSUME p.crop # NoBox
      PROVE  \/ PageBox(p) = Media(p)
             \/ /\ PageBox(p) \in Sheet /\ PartOf(PageBox(p), Media(p))
                /\ PageBox(p).w > 1 /\ PageBox(p).h > 1
  <2>1. PICK u0, v0, u1, v1 \in Int : p.crop = <<u0, v0, u1, v1>>
    BY <1>7 DEF Page, Box
  <2>2. Straight(p.crop) = <<Least(u0, u1), Least(v0, v1), Most(u0, u1), Most(v0, v1)>>
    BY <2>1 DEF Straight
  <2>3. PICK c0, d0, c1, d1 \in Int : Straight(p.crop) = <<c0, d0, c1, d1>>
    BY <2>2 DEF Least, Most
  <2>4. PICK cut : cut = Common(Straight(p.media), Straight(p.crop))
    OBVIOUS
  <2>5. cut = [x |-> Most(c0, a0), y |-> Most(d0, b0),
               w |-> Least(c1, a1) - Most(c0, a0), h |-> Least(d1, b1) - Most(d0, b0)]
    BY <1>3, <2>3, <2>4 DEF Common, Rect
  <2>6. PageBox(p) = Visible(Media(p), cut)
    BY <1>7, <2>4 DEF PageBox
  <2>7. CASE cut.w <= 1 \/ cut.h <= 1
    BY <2>6, <2>7 DEF Visible
  <2>8. CASE ~(cut.w <= 1 \/ cut.h <= 1)
    <3>1. PageBox(p) = cut
      BY <2>6, <2>8 DEF Visible
    <3>2. cut.w \in Int /\ cut.h \in Int /\ cut.w > 1 /\ cut.h > 1
      BY <2>5, <2>8 DEF Least, Most
    <3>3. cut \in Sheet
      BY <2>5, <3>2 DEF Sheet, Least, Most
    <3>4. PartOf(cut, Media(p))
      BY <1>3, <1>4, <2>5 DEF PartOf, Least, Most
    <3> QED
      BY <3>1, <3>2, <3>3, <3>4
  <2> QED
    BY <2>7, <2>8
<1> QED
  BY <1>5, <1>6, <1>7

(* What a scan of the page is known to be. *)
LEMMA ScanFacts ==
    ASSUME NEW p \in Page, NEW im \in Scans(p)
    PROVE  /\ im.w \in Nat \ {0} /\ im.h \in Nat \ {0}
           /\ Media(p) \in Sheet /\ Media(p).w > 1 /\ Media(p).h > 1
           /\ PageBox(p) \in Sheet /\ PageBox(p).w > 0 /\ PageBox(p).h > 0
           /\ PartOf(PageBox(p), Media(p))
           /\ 20 * Apart(im.h * Media(p).w, im.w * Media(p).h) <= im.w * Media(p).h
<1>1. im \in Image
  BY DEF Scans, Page
<1>2. im.w \in Nat /\ im.h \in Nat /\ im.w >= CCITT_MIN_SIDE /\ im.h >= CCITT_MIN_SIDE
  BY <1>1 DEF Scans, Image
<1>3. Media(p).w > 1 /\ Media(p).h > 1
  BY DEF Scans
<1>4. 20 * Apart(im.h * Media(p).w, im.w * Media(p).h) <= im.w * Media(p).h
  BY DEF Scans
<1>5. PageBox(p).w > 0 /\ PageBox(p).h > 0
  BY <1>3, PageBoxOnPaper DEF Sheet
<1> QED
  BY <1>2, <1>3, <1>4, <1>5, ScanAssumption, PageBoxOnPaper

LEMMA CutShowsCropBox ==
    ASSUME NEW p \in Page, NEW im \in Scans(p), NEW m, m = Media(p), NEW b, b = PageBox(p),
           NEW c, c = Cut(m, b, im)
    PROVE  Within(c, im) /\ (Fits(c, m, b, im) \/ Thin(m, b, im))
<1>1. /\ im.w \in Nat \ {0} /\ im.h \in Nat \ {0}
      /\ m.w \in Nat \ {0} /\ m.h \in Nat \ {0} /\ m.x \in Int /\ m.y \in Int
      /\ b.w \in Nat \ {0} /\ b.h \in Nat \ {0} /\ b.x \in Int /\ b.y \in Int
  BY ScanFacts DEF Sheet
<1>2. PartOf(b, m)
  BY ScanFacts
<1>p. PICK over, above : over = b.x - m.x /\ above = m.y + m.h - b.y - b.h
  OBVIOUS
<1>3. over \in Nat /\ above \in Nat /\ over + b.w <= m.w /\ above + b.h <= m.h
  BY <1>1, <1>2, <1>p DEF PartOf
<1>q. PICK x, y : x = Round(over * im.w, m.w) /\ y = Round(above * im.h, m.h)
  OBVIOUS
<1>r. PICK w, h :
         /\ w = Least(Most(Round(b.w * im.w, m.w), 1), im.w - x)
         /\ h = Least(Most(Round(b.h * im.h, m.h), 1), im.h - y)
  OBVIOUS
<1>4. /\ x \in Nat /\ Near(x, over, im.w, m.w)
      /\ x >= im.w => 2 * b.w * im.w <= m.w
  BY <1>1, <1>3, <1>q, SideStart
<1>5. /\ y \in Nat /\ Near(y, above, im.h, m.h)
      /\ y >= im.h => 2 * b.h * im.h <= m.h
  BY <1>1, <1>3, <1>q, SideStart
<1>6. c = IF x < im.w /\ y < im.h
          THEN [x |-> x, y |-> y, w |-> w, h |-> h]
          ELSE [x |-> 0, y |-> 0, w |-> im.w, h |-> im.h]
  BY <1>p, <1>q, <1>r DEF Cut, Clip, LeftOf, TopOf
<1>7. CASE x < im.w /\ y < im.h
  <2>1. w \in Nat \ {0} /\ x + w <= im.w /\ Near(x + w, over + b.w, im.w, m.w)
    BY <1>1, <1>3, <1>7, <1>q, <1>r, SideEnd
  <2>2. h \in Nat \ {0} /\ y + h <= im.h /\ Near(y + h, above + b.h, im.h, m.h)
    BY <1>1, <1>3, <1>7, <1>q, <1>r, SideEnd
  <2>3. c.x = x /\ c.y = y /\ c.w = w /\ c.h = h
    BY <1>6, <1>7
  <2>4. Within(c, im)
    BY <1>4, <1>5, <2>1, <2>2, <2>3 DEF Within
  <2>5. Near(im.h - (y + h), m.h - (above + b.h), im.h, m.h)
    BY <1>1, <1>3, <1>5, <2>2, NearOtherEnd
  <2>6. Near(im.h - y, m.h - above, im.h, m.h)
    BY <1>1, <1>3, <1>5, NearOtherEnd
  <2>7. /\ im.h - c.y - c.h = im.h - (y + h) /\ b.y - m.y = m.h - (above + b.h)
        /\ im.h - c.y = im.h - y /\ b.y - m.y + b.h = m.h - above
    BY <1>1, <1>5, <1>p, <2>2, <2>3
  <2>8. Fits(c, m, b, im)
    BY <1>4, <1>p, <2>1, <2>3, <2>5, <2>6, <2>7 DEF Fits
  <2> QED
    BY <2>4, <2>8
<1>8. CASE ~(x < im.w /\ y < im.h)
  <2>1. c.x = 0 /\ c.y = 0 /\ c.w = im.w /\ c.h = im.h
    BY <1>6, <1>8
  <2>2. Within(c, im)
    BY <1>1, <2>1 DEF Within
  <2>3. Thin(m, b, im)
    BY <1>1, <1>4, <1>5, <1>8 DEF Thin
  <2> QED
    BY <2>2, <2>3
<1> QED
  BY <1>7, <1>8

------------------------------------------------------------------------------
(* Of two sides of a cut the one that shows the smaller part comes out no  *)
(* longer, even where the other is cut short at the edge of the image:     *)
(* that takes a pixel only if it was rounded up from a half.               *)
LEMMA SmallerSide ==
    ASSUME NEW n \in Nat, NEW d \in Nat \ {0}, NEW px \in Nat \ {0}, NEW pt \in Nat \ {0},
           NEW off \in Nat, NEW len \in Nat \ {0}, off + len <= pt,
           n * pt < (len * px) * d,
           NEW x, x = Round(off * px, pt), x < px, NEW rest \in Int
    PROVE  Least(Most(Round(n, d), 1), rest) <= Least(Most(Round(len * px, pt), 1), px - x)
<1>1. PICK u, v : u = Round(n, d) /\ v = Round(len * px, pt)
  OBVIOUS
<1>2. off * px \in Nat /\ len * px \in Nat
  OBVIOUS
<1>3. u \in Nat /\ 2 * (u * d) <= 2 * n + d
  BY <1>1, RoundIsNearest
<1>4. v \in Nat /\ 2 * (v * pt) <= 2 * (len * px) + pt
  BY <1>1, <1>2, RoundIsNearest
<1>5. x \in Nat /\ 2 * (x * pt) <= 2 * (off * px) + pt
  BY <1>2, RoundIsNearest
<1>6. u <= v
  BY <1>1, <1>2, RoundKeepsOrder
<1>7. (off + len) * px <= pt * px /\ (off + len) * px = off * px + len * px
  BY TimesKeepsOrder
<1>8. 2 * ((x + v) * pt) <= 2 * (px * pt) + 2 * pt
  BY <1>2, <1>4, <1>5, <1>7
<1>9. x + v <= px + 1
  <2> SUFFICES ASSUME x + v >= px + 2 PROVE FALSE
    BY <1>4, <1>5
  <2>1. (px + 2) * pt <= (x + v) * pt
    BY <1>4, <1>5, TimesKeepsOrder
  <2> QED
    BY <1>4, <1>5, <1>8, <2>1
<1>10. ASSUME x + v = px + 1 PROVE u < v
  <2>1. (x + v) * pt = px * pt + pt
    BY <1>10
  <2>2. 2 * (len * px) + pt <= 2 * (v * pt)
    BY <1>2, <1>4, <1>5, <1>7, <2>1
  <2>3. 2 * (len * px) <= (2 * v - 1) * pt
    BY <1>2, <1>4, <2>2
  <2>4. (2 * (len * px)) * d <= ((2 * v - 1) * pt) * d
    BY <1>2, <1>4, <2>3, TimesKeepsOrder
  <2>5. (2 * n) * pt < ((2 * v - 1) * d) * pt
    BY <1>2, <1>4, <2>4
  <2>6. 2 * n < (2 * v - 1) * d
    <3>1. (2 * v - 1) * d \in Int /\ 2 * n \in Int
      BY <1>4
    <3>2. (2 * v - 1) * d <= 2 * n => ((2 * v - 1) * d) * pt <= (2 * n) * pt
      BY <3>1, TimesKeepsOrder
    <3> QED
      BY <2>5, <3>1, <3>2
  <2>7. 2 * (u * d) < 2 * (v * d)
    BY <1>3, <1>4, <2>6
  <2>8. v <= u => v * d <= u * d
    BY <1>3, <1>4, TimesKeepsOrder
  <2> QED
    BY <1>3, <1>4, <2>7, <2>8
<1>11. Least(Most(u, 1), rest) <= Least(Most(v, 1), px - x)
  BY <1>3, <1>4, <1>5, <1>6, <1>9, <1>10 DEF Least, Most
<1> QED
  BY <1>1, <1>11

(* A scan has the shape of its page but for a twentieth. *)
LEMMA ScanHasShape ==
    ASSUME NEW iw \in Nat \ {0}, NEW ih \in Nat \ {0}, NEW mw \in Nat \ {0}, NEW mh \in Nat \ {0},
           20 * Apart(ih * mw, iw * mh) <= iw * mh,
           NEW bw \in Nat \ {0}, NEW bh \in Nat \ {0}
    PROVE  /\ Shorter(bw, bh) => (bw * iw) * mh < (bh * ih) * mw
           /\ Shorter(bh, bw) => (bh * ih) * mw < (bw * iw) * mh
<1>1. PICK s, t \in Nat \ {0} : s = iw * mh /\ t = ih * mw
  OBVIOUS
<1>2. 19 * s <= 20 * t /\ 20 * t <= 21 * s
  BY <1>1 DEF Apart, Most
<1>3. (bw * iw) * mh = bw * s /\ (bh * ih) * mw = bh * t
  BY <1>1
<1>4. ASSUME Shorter(bw, bh) PROVE bw * s < bh * t
  <2>1. (20 * bw) * s < (19 * bh) * s
    BY <1>4, TimesKeepsOrder DEF Shorter
  <2>2. (19 * s) * bh <= (20 * t) * bh
    BY <1>2, TimesKeepsOrder
  <2> QED
    BY <2>1, <2>2
<1>5. ASSUME Shorter(bh, bw) PROVE bh * t < bw * s
  <2>1. (20 * t) * bh <= (21 * s) * bh
    BY <1>2, TimesKeepsOrder
  <2>2. 21 * bh < 20 * bw
    BY <1>5 DEF Shorter
  <2>3. (21 * bh) * s < (20 * bw) * s
    BY <2>2, TimesKeepsOrder
  <2> QED
    BY <2>1, <2>3
<1> QED
  BY <1>3, <1>4, <1>5

LEMMA CutLiesAsCropBox ==
    ASSUME NEW p \in Page, NEW im \in Scans(p), NEW m, m = Media(p), NEW b, b = PageBox(p),
           NEW c, c = Cut(m, b, im), ~Thin(m, b, im)
    PROVE  /\ c.w \in Nat \ {0} /\ c.h \in Nat \ {0}
           /\ Shorter(b.w, b.h) => c.w <= c.h
           /\ Shorter(b.h, b.w) => c.h <= c.w
<1>1. /\ im.w \in Nat \ {0} /\ im.h \in Nat \ {0}
      /\ m.w \in Nat \ {0} /\ m.h \in Nat \ {0} /\ m.x \in Int /\ m.y \in Int
      /\ b.w \in Nat \ {0} /\ b.h \in Nat \ {0} /\ b.x \in Int /\ b.y \in Int
  BY ScanFacts DEF Sheet
<1>2. /\ Shorter(b.w, b.h) => (b.w * im.w) * m.h < (b.h * im.h) * m.w
      /\ Shorter(b.h, b.w) => (b.h * im.h) * m.w < (b.w * im.w) * m.h
  <2>1. 20 * Apart(im.h * m.w, im.w * m.h) <= im.w * m.h
    BY ScanFacts
  <2> QED
    BY <1>1, <2>1, ScanHasShape
<1>3. PICK over, above : over = b.x - m.x /\ above = m.y + m.h - b.y - b.h
  OBVIOUS
<1>4. over \in Nat /\ above \in Nat /\ over + b.w <= m.w /\ above + b.h <= m.h
  BY <1>1, <1>3, ScanFacts DEF PartOf
<1>5. PICK x, y : x = Round(over * im.w, m.w) /\ y = Round(above * im.h, m.h)
  OBVIOUS
<1>6. PICK w, h :
         /\ w = Least(Most(Round(b.w * im.w, m.w), 1), im.w - x)
         /\ h = Least(Most(Round(b.h * im.h, m.h), 1), im.h - y)
  OBVIOUS
<1>7. x \in Nat /\ y \in Nat /\ x < im.w /\ y < im.h
  <2>1. x \in Nat /\ (x >= im.w => 2 * b.w * im.w <= m.w)
    BY <1>1, <1>4, <1>5, SideStart
  <2>2. y \in Nat /\ (y >= im.h => 2 * b.h * im.h <= m.h)
    BY <1>1, <1>4, <1>5, SideStart
  <2>3. ~(2 * b.w * im.w <= m.w) /\ ~(2 * b.h * im.h <= m.h)
    BY DEF Thin
  <2> QED
    BY <1>1, <2>1, <2>2, <2>3
<1>8. c.w = w /\ c.h = h
  BY <1>3, <1>5, <1>6, <1>7 DEF Cut, Clip, LeftOf, TopOf
<1>9. w \in Nat \ {0} /\ h \in Nat \ {0}
  <2>1. w \in Nat \ {0}
    BY <1>1, <1>4, <1>5, <1>6, <1>7, SideEnd
  <2>2. h \in Nat \ {0}
    BY <1>1, <1>4, <1>5, <1>6, <1>7, SideEnd
  <2> QED
    BY <2>1, <2>2
<1>10. b.w * im.w \in Nat /\ b.h * im.h \in Nat /\ im.w - x \in Int /\ im.h - y \in Int
  BY <1>1, <1>7
<1>11. ASSUME Shorter(b.w, b.h) PROVE w <= h
  <2>1. (b.w * im.w) * m.h < (b.h * im.h) * m.w
    BY <1>2, <1>11
  <2> QED
    BY <1>1, <1>4, <1>5, <1>6, <1>7, <1>10, <2>1, SmallerSide
<1>12. ASSUME Shorter(b.h, b.w) PROVE h <= w
  <2>1. (b.h * im.h) * m.w < (b.w * im.w) * m.h
    BY <1>2, <1>12
  <2> QED
    BY <1>1, <1>4, <1>5, <1>6, <1>7, <1>10, <2>1, SmallerSide
<1> QED
  BY <1>8, <1>9, <1>11, <1>12

LEMMA ScalingKeepsShape ==
    ASSUME NEW p \in Page, NEW w \in Nat \ {0}, NEW h \in Nat \ {0}, NEW s, s = Scaled(p, w, h)
    PROVE  /\ w <= h => s[1] <= s[2]
           /\ w >= h => s[1] >= s[2]
<1>1. PICK wide : wide = Most(Round(PageSize(p)[1] * Dpi(p.dpi), 72), 1)
  OBVIOUS
<1>2. wide \in Nat \ {0}
  <2>1. PageSize(p)[1] \in Nat
    BY PageBoxOnPaper DEF PageSize, Sides, Sheet
  <2>2. Dpi(p.dpi) \in Nat
    BY DEF Page, NoDpi, Dpi, Least, Most
  <2>3. PICK n \in Nat, d \in Nat \ {0} : n = PageSize(p)[1] * Dpi(p.dpi) /\ d = 72
    BY <2>1, <2>2
  <2>4. Round(n, d) \in Nat
    BY RoundIsNearest
  <2> QED
    BY <1>1, <2>3, <2>4 DEF Most
<1>3. PICK v : v = Round(h * wide, w)
  OBVIOUS
<1>4. s = IF wide < w THEN <<wide, Most(v, 1)>> ELSE <<w, h>>
  BY <1>1, <1>3 DEF Scaled
<1>5. Round(wide, 1) = wide
  BY <1>2 DEF Round
<1>6. h * wide \in Nat /\ v \in Nat
  <2>1. h * wide \in Nat
    BY <1>2
  <2> QED
    BY <1>3, <2>1, RoundIsNearest
<1>7. ASSUME w <= h PROVE wide <= v
  <2>1. wide * w <= (h * wide) * 1
    BY <1>2, <1>7, TimesKeepsOrder
  <2> QED
    BY <1>2, <1>3, <1>5, <1>6, <2>1, RoundKeepsOrder
<1>8. ASSUME h <= w PROVE v <= wide
  <2>1. (h * wide) * 1 <= wide * w
    BY <1>2, <1>8, TimesKeepsOrder
  <2> QED
    BY <1>2, <1>3, <1>5, <1>6, <2>1, RoundKeepsOrder
<1> QED
  BY <1>2, <1>4, <1>6, <1>7, <1>8 DEF Most

LEMMA ScanLiesAsBox ==
    ASSUME NEW p \in Page, NEW im \in Scans(p), ~Thin(Media(p), PageBox(p), im)
    PROVE  LieAlike(PageSize(p), ScanPicture(p, Cut(Media(p), PageBox(p), im)))
<1>1. PICK b, c : b = PageBox(p) /\ c = Cut(Media(p), PageBox(p), im)
  OBVIOUS
<1>2. /\ c.w \in Nat \ {0} /\ c.h \in Nat \ {0}
      /\ Shorter(b.w, b.h) => c.w <= c.h
      /\ Shorter(b.h, b.w) => c.h <= c.w
  BY <1>1, CutLiesAsCropBox
<1>3. CASE Turned(p)
  <2>1. PageSize(p)[1] = b.h /\ PageSize(p)[2] = b.w
    BY <1>1, <1>3 DEF PageSize, Sides
  <2>2. PICK s : s = Scaled(p, c.h, c.w)
    OBVIOUS
  <2>3. ScanPicture(p, c) = s
    BY <1>3, <2>2 DEF ScanPicture
  <2>4. (c.h <= c.w => s[1] <= s[2]) /\ (c.h >= c.w => s[1] >= s[2])
    BY <1>2, <2>2, ScalingKeepsShape
  <2> QED
    BY <1>1, <1>2, <2>1, <2>3, <2>4 DEF LieAlike
<1>4. CASE ~Turned(p)
  <2>1. PageSize(p)[1] = b.w /\ PageSize(p)[2] = b.h
    BY <1>1, <1>4 DEF PageSize, Sides
  <2>2. PICK s : s = Scaled(p, c.w, c.h)
    OBVIOUS
  <2>3. ScanPicture(p, c) = s
    BY <1>4, <2>2 DEF ScanPicture
  <2>4. (c.w <= c.h => s[1] <= s[2]) /\ (c.w >= c.h => s[1] >= s[2])
    BY <1>2, <2>2, ScalingKeepsShape
  <2> QED
    BY <1>1, <1>2, <2>1, <2>3, <2>4 DEF LieAlike
<1> QED
  BY <1>3, <1>4

(* A rendered page whose region did not fail: a crop box that is left      *)
(* aside leaves out less than a hundredth of the paper.                    *)
LEMMA RenderedLiesAsBox ==
    ASSUME NEW p \in Page, ~FellBack(p)
    PROVE  LieAlike(PageSize(p), Rendered(p))
<1>1. PICK m, b : m = Media(p) /\ b = PageBox(p)
  OBVIOUS
<1>2. /\ m \in Sheet /\ b \in Sheet /\ b.w <= m.w /\ b.h <= m.h
  BY <1>1, PageBoxOnPaper DEF PartOf, Sheet
<1>3. CASE NeedCrop(m, b)
  <2>1. Rendered(p) = PageSize(p)
    BY <1>1, <1>3 DEF Rendered
  <2>2. PageSize(p)[1] \in Nat /\ PageSize(p)[2] \in Nat
    BY <1>1, <1>2 DEF PageSize, Sides, Sheet
  <2> QED
    BY <2>1, <2>2 DEF LieAlike, Shorter
<1>4. CASE ~NeedCrop(m, b)
  <2>1. 99 * m.w <= 100 * b.w /\ 99 * m.h <= 100 * b.h
    BY <1>2, <1>4 DEF NeedCrop, Sheet
  <2>2. (Shorter(b.w, b.h) => m.w <= m.h) /\ (Shorter(b.h, b.w) => m.h <= m.w)
    BY <1>2, <2>1 DEF Shorter, Sheet
  <2>3. Rendered(p) = Sides(p, m.w, m.h) /\ PageSize(p) = Sides(p, b.w, b.h)
    BY <1>1, <1>4 DEF Rendered, WholePage, PageSize
  <2> QED
    BY <1>2, <2>2, <2>3 DEF LieAlike, Sides, Sheet
<1> QED
  BY <1>3, <1>4

------------------------------------------------------------------------------
(* Of every page the reader may ask for, the service cuts out of a scan    *)
(* what the crop box shows, within the image (ccitt_page_jpeg).            *)
THEOREM ScansAreCutRight == PureSpec => []CutFitsImage
<1>1. ASSUME given \in Inputs PROVE CutFitsImage
  <2> SUFFICES ASSUME given.kind = "page" PROVE CutIsCropBox(given.page)
    BY DEF CutFitsImage
  <2>1. given.page \in Page
    BY <1>1, InputsAssumption DEF OrderInput, TextInput, PageInput, NoInput
  <2> QED
    BY <2>1, CutShowsCropBox DEF CutIsCropBox
<1>2. given \in Inputs /\ [FALSE]_given => (given \in Inputs)'
  OBVIOUS
<1> QED
  BY <1>1, <1>2, PTL DEF PureSpec

(* Of every page the picture lies as its visible part does, decoded from a *)
(* scan or drawn by pdf_oxide (ccitt_page_jpeg, render_page_jpeg,          *)
(* page_size); not of a page whose region could not be drawn and which was *)
(* drawn whole.                                                            *)
THEOREM PicturesLieAsBoxes == PureSpec => []PictureLiesAsBox
<1>1. ASSUME given \in Inputs PROVE PictureLiesAsBox
  <2> SUFFICES ASSUME given.kind = "page" PROVE LiesAsBox(given.page)
    BY DEF PictureLiesAsBox
  <2>1. given.page \in Page
    BY <1>1, InputsAssumption DEF OrderInput, TextInput, PageInput, NoInput
  <2> HIDE DEF Page
  <2>2. CASE Drawn(given.page)
    BY <2>1, <2>2, RenderedLiesAsBox DEF LiesAsBox, Pictures
  <2>3. CASE ~Drawn(given.page)
    BY <2>1, <2>3, ScanLiesAsBox DEF LiesAsBox, Pictures, Largest
  <2> QED
    BY <2>2, <2>3
<1>2. given \in Inputs /\ [FALSE]_given => (given \in Inputs)'
  OBVIOUS
<1> QED
  BY <1>1, <1>2, PTL DEF PureSpec

------------------------------------------------------------------------------
(* library.rs: the order of names, and listings in it. *)
LEMMA OrderIsSign ==
    ASSUME NEW x \in Int, NEW y \in Int
    PROVE  /\ Order(x, y) \in {-1, 0, 1}
           /\ Order(x, y) = -Order(y, x)
           /\ Order(x, y) <= 0 <=> x <= y
           /\ Order(x, y) = 0 <=> x = y
BY DEF Order

LEMMA NumberIsInteger ==
    ASSUME NEW s \in Name
    PROVE  Number(s) \in Int
<1> DEFINE D == 0 .. Len(s)
           Digit(n, f) == IF n = 0 THEN 0 ELSE 10 * f[n - 1] + (s[n] - 48)
           step == [n \in 1 .. Len(s) |-> [x \in Int |-> 10 * x + (s[n] - 48)]]
           value == CHOOSE f : f = [n \in D |-> Digit(n, f)]
<1>1. Len(s) \in Nat /\ \A n \in 1 .. Len(s) : s[n] \in Nat
  BY DEF Name
<1>2. 0 \in D /\ \A n \in 1 .. Len(s) : n \in D /\ n # 0 /\ n - 1 \in D
  BY <1>1
<1>3. Stepwise(Int, 0, Len(s), step)
  <2>1. step \in [1 .. Len(s) -> [Int -> Int]]
    BY <1>1
  <2> HIDE DEF step
  <2> QED
    BY <1>1, <2>1 DEF Stepwise
<1>4. \E g : g = [n \in D |-> Digit(n, g)]
  <2>1. PICK g : Steps(g, Int, 0, Len(s), step)
    <3> HIDE DEF step
    <3> QED
      BY <1>3, StepsExist
  <2>2. g \in [D -> Int] /\ g[0] = 0 /\ \A n \in 1 .. Len(s) : g[n] = 10 * g[n - 1] + (s[n] - 48)
    <3>1. g \in [D -> Int] /\ g[0] = 0 /\ \A n \in 1 .. Len(s) : g[n] = step[n][g[n - 1]]
      BY <2>1 DEF Steps
    <3> HIDE DEF D
    <3> QED
      BY <1>2, <3>1
  <2>3. \A n \in D : n # 0 => n \in 1 .. Len(s)
    BY <1>1
  <2> HIDE DEF D
  <2> QED
    BY <2>2, <2>3
<1>5. value = [n \in D |-> Digit(n, value)]
  BY <1>4, Zenon
<1>6. Number(s) = IF value[Len(s)] > U64_MAX THEN 0 ELSE value[Len(s)]
  BY Zenon DEF Number
<1> HIDE DEF value
<1>7. value[0] = 0 /\ \A n \in 1 .. Len(s) : value[n] = 10 * value[n - 1] + (s[n] - 48)
  <2> HIDE DEF D
  <2> QED
    BY <1>2, <1>5
<1>8. Steps(value, Int, 0, Len(s), step)
  <2>1. \A n \in 1 .. Len(s) : value[n - 1] \in Int => value[n] = step[n][value[n - 1]]
    BY <1>7
  <2>2. DOMAIN value = D /\ value = [n \in D |-> value[n]]
    BY <1>5
  <2> HIDE DEF step
  <2> QED
    BY <1>3, <1>7, <2>1, <2>2, OnlySteps
<1>9. value[Len(s)] \in Int
  BY <1>1, <1>8 DEF Steps
<1> QED
  BY <1>6, <1>9

(* A run of digits ends past where it begins. *)
LEMMA RunEndsAhead ==
    ASSUME NEW a \in Name, NEW i \in 1 .. Len(a), IsDigit(a[i])
    PROVE  RunEnd(a, i) \in i + 1 .. Len(a) + 1
<1>1. Len(a) \in Nat /\ i \in Nat
  BY DEF Name
<1> DEFINE I == {e \in i .. Len(a) + 1 : e <= Len(a) => ~IsDigit(a[e])}
           Ends(e) == (\A k \in i .. e - 1 : IsDigit(a[k])) /\ (e <= Len(a) => ~IsDigit(a[e]))
<1>2. I \in SUBSET Nat /\ Len(a) + 1 \in I
  BY <1>1
<1>3. PICK m \in I : \A e \in I : m <= e
  BY <1>2, LeastPosition
<1>4. m \in i .. Len(a) + 1 /\ Ends(m)
  BY <1>1, <1>3
<1>5. RunEnd(a, i) \in i .. Len(a) + 1 /\ Ends(RunEnd(a, i))
  <2> HIDE DEF Ends
  <2>1. (CHOOSE e \in i .. Len(a) + 1 : Ends(e)) \in i .. Len(a) + 1
        /\ Ends(CHOOSE e \in i .. Len(a) + 1 : Ends(e))
    BY <1>4, Zenon
  <2>2. RunEnd(a, i) = CHOOSE e \in i .. Len(a) + 1 : Ends(e)
    BY Zenon DEF RunEnd, Ends
  <2> QED
    BY <2>1, <2>2
<1> QED
  BY <1>1, <1>5

(* A character, or a number that begins there, weighs as a pair does: the  *)
(* character folded, with all digits alike, and then the number.           *)
Kind(a, i) == IF IsDigit(a[i]) THEN 48 ELSE Lower(a[i])
Amount(a, i) == IF IsDigit(a[i]) THEN Number(DigitsAt(a, i)) ELSE 0

LEMMA WeightIsPair ==
    ASSUME NEW a \in Name, NEW i \in 1 .. Len(a)
    PROVE  /\ Kind(a, i) \in Int /\ Amount(a, i) \in Int
           /\ IsDigit(a[i]) <=> Kind(a, i) = 48
           /\ IsDigit(a[i]) => RunEnd(a, i) \in i + 1 .. Len(a) + 1
<1>1. Len(a) \in Nat /\ i \in Nat /\ \A k \in 1 .. Len(a) : a[k] \in Nat
  BY DEF Name
<1>2. Kind(a, i) \in Int /\ (IsDigit(a[i]) <=> Kind(a, i) = 48)
  <2>1. PICK c \in Nat : c = a[i]
    BY <1>1
  <2>2. PICK n : n = IF IsDigit(c) THEN 48 ELSE Lower(c)
    OBVIOUS
  <2>3. n \in Int /\ (IsDigit(c) <=> n = 48)
    BY <2>2 DEF IsDigit, Lower
  <2>4. Kind(a, i) = n
    BY <2>1, <2>2 DEF Kind
  <2> QED
    BY <2>1, <2>3, <2>4
<1>3. ASSUME IsDigit(a[i])
      PROVE  RunEnd(a, i) \in i + 1 .. Len(a) + 1 /\ Number(DigitsAt(a, i)) \in Int
  <2>1. RunEnd(a, i) \in i + 1 .. Len(a) + 1
    BY <1>3, RunEndsAhead
  <2>2. PICK e : e = RunEnd(a, i) - 1
    OBVIOUS
  <2>3. i \in Int /\ e \in Int /\ \A k \in i .. e : a[k] \in Nat
    BY <1>1, <2>1, <2>2
  <2>4. SubSeq(a, i, e) \in Seq(Nat)
    BY <2>3, SubSeqProperties DEF Name
  <2>5. DigitsAt(a, i) \in Name
    BY <2>2, <2>4 DEF DigitsAt, Name
  <2> QED
    BY <2>1, <2>5, NumberIsInteger
<1> QED
  BY <1>2, <1>3 DEF Amount

Pairwise(k, x, l, y) == IF k = l THEN Order(x, y) ELSE Order(k, l)

LEMMA HereIsPairwise ==
    ASSUME NEW a \in Name, NEW i \in 1 .. Len(a), NEW b \in Name, NEW j \in 1 .. Len(b)
    PROVE  Here(a, i, b, j) = Pairwise(Kind(a, i), Amount(a, i), Kind(b, j), Amount(b, j))
<1>1. a[i] \in Nat /\ b[j] \in Nat
  BY DEF Name
<1>2. CASE IsDigit(a[i]) /\ IsDigit(b[j])
  BY <1>2 DEF Here, BothDigits, Pairwise, Kind, Amount
<1>3. CASE ~(IsDigit(a[i]) /\ IsDigit(b[j]))
  <2>1. Here(a, i, b, j) = Order(Lower(a[i]), Lower(b[j]))
    BY <1>3 DEF Here, BothDigits, OrderLower
  <2>2. PICK c, d \in Nat : c = a[i] /\ d = b[j]
    BY <1>1
  <2>3. PICK x, y \in Int : x = Amount(a, i) /\ y = Amount(b, j)
    BY WeightIsPair
  <2>4. (~IsDigit(c) => x = 0) /\ (~IsDigit(d) => y = 0)
    BY <2>2, <2>3 DEF Amount
  <2>5. ~(IsDigit(c) /\ IsDigit(d))
    BY <1>3, <2>2
  <2>6. Order(Lower(c), Lower(d)) = Pairwise(IF IsDigit(c) THEN 48 ELSE Lower(c), x,
                                             IF IsDigit(d) THEN 48 ELSE Lower(d), y)
    BY <2>4, <2>5 DEF Pairwise, Order, Lower, IsDigit
  <2> QED
    BY <2>1, <2>2, <2>3, <2>6 DEF Kind
<1> QED
  BY <1>2, <1>3

LEMMA HereIsOrder ==
    ASSUME NEW a \in Name, NEW i \in 1 .. Len(a), NEW b \in Name, NEW j \in 1 .. Len(b)
    PROVE  /\ Here(a, i, b, j) \in {-1, 0, 1}
           /\ Here(a, i, b, j) = -Here(b, j, a, i)
           /\ Here(a, i, b, j) = 0 => (IsDigit(a[i]) <=> IsDigit(b[j]))
<1>1. PICK k, x, l, y \in Int : /\ k = Kind(a, i) /\ x = Amount(a, i)
                               /\ l = Kind(b, j) /\ y = Amount(b, j)
  BY WeightIsPair
<1>2. Here(a, i, b, j) = Pairwise(k, x, l, y) /\ Here(b, j, a, i) = Pairwise(l, y, k, x)
  BY <1>1, HereIsPairwise
<1>3. /\ Pairwise(k, x, l, y) \in {-1, 0, 1}
      /\ Pairwise(k, x, l, y) = -Pairwise(l, y, k, x)
      /\ Pairwise(k, x, l, y) = 0 => k = l
  BY DEF Pairwise, Order
<1>4. (IsDigit(a[i]) <=> k = 48) /\ (IsDigit(b[j]) <=> l = 48)
  BY <1>1, WeightIsPair
<1> QED
  BY <1>2, <1>3, <1>4

LEMMA HereTransitive ==
    ASSUME NEW a \in Name, NEW i \in 1 .. Len(a), NEW b \in Name, NEW j \in 1 .. Len(b),
           NEW c \in Name, NEW k \in 1 .. Len(c),
           Here(a, i, b, j) <= 0, Here(b, j, c, k) <= 0
    PROVE  /\ Here(a, i, c, k) <= 0
           /\ Here(a, i, c, k) = 0 <=> Here(a, i, b, j) = 0 /\ Here(b, j, c, k) = 0
<1>1. PICK k1, x1, k2, x2, k3, x3 \in Int :
         /\ k1 = Kind(a, i) /\ x1 = Amount(a, i)
         /\ k2 = Kind(b, j) /\ x2 = Amount(b, j)
         /\ k3 = Kind(c, k) /\ x3 = Amount(c, k)
  BY WeightIsPair
<1>2. /\ Here(a, i, b, j) = Pairwise(k1, x1, k2, x2)
      /\ Here(b, j, c, k) = Pairwise(k2, x2, k3, x3)
      /\ Here(a, i, c, k) = Pairwise(k1, x1, k3, x3)
  BY <1>1, HereIsPairwise
<1>3. Pairwise(k1, x1, k2, x2) <= 0 /\ Pairwise(k2, x2, k3, x3) <= 0
  BY <1>2
<1>4. /\ Pairwise(k1, x1, k3, x3) <= 0
      /\ Pairwise(k1, x1, k3, x3) = 0 <=>
            Pairwise(k1, x1, k2, x2) = 0 /\ Pairwise(k2, x2, k3, x3) = 0
  BY <1>3 DEF Pairwise, Order
<1> QED
  BY <1>2, <1>4

------------------------------------------------------------------------------
(* natural_cmp walks through both names, and ends. *)
Spots(a, b) == (1 .. Len(a) + 1) \X (1 .. Len(b) + 1)
Walk(a, b, at, f) ==
    LET i == at[1]
        j == at[2]
    IN  IF i > Len(a) \/ j > Len(b) THEN Order(Len(a) + 1 - i, Len(b) + 1 - j)
        ELSE IF Here(a, i, b, j) # 0 THEN Here(a, i, b, j)
        ELSE IF BothDigits(a, i, b, j) THEN f[<<RunEnd(a, i), RunEnd(b, j)>>]
        ELSE f[<<i + 1, j + 1>>]

LEMMA SpotsAhead ==
    ASSUME NEW a \in Name, NEW b \in Name, NEW at \in Spots(a, b),
           ~(at[1] > Len(a) \/ at[2] > Len(b))
    PROVE  /\ at[1] \in 1 .. Len(a) /\ at[2] \in 1 .. Len(b)
           /\ <<at[1] + 1, at[2] + 1>> \in Spots(a, b)
           /\ BothDigits(a, at[1], b, at[2]) =>
                 /\ RunEnd(a, at[1]) \in at[1] + 1 .. Len(a) + 1
                 /\ RunEnd(b, at[2]) \in at[2] + 1 .. Len(b) + 1
                 /\ <<RunEnd(a, at[1]), RunEnd(b, at[2])>> \in Spots(a, b)
<1>1. PICK i \in 1 .. Len(a) + 1, j \in 1 .. Len(b) + 1 : at = <<i, j>>
  BY DEF Spots
<1>2. Len(a) \in Nat /\ Len(b) \in Nat /\ i \in 1 .. Len(a) /\ j \in 1 .. Len(b)
  BY <1>1 DEF Name
<1>3. <<i + 1, j + 1>> \in Spots(a, b)
  BY <1>2 DEF Spots
<1>4. ASSUME BothDigits(a, i, b, j)
      PROVE  /\ RunEnd(a, i) \in i + 1 .. Len(a) + 1 /\ RunEnd(b, j) \in j + 1 .. Len(b) + 1
             /\ <<RunEnd(a, i), RunEnd(b, j)>> \in Spots(a, b)
  <2>1. RunEnd(a, i) \in i + 1 .. Len(a) + 1 /\ RunEnd(b, j) \in j + 1 .. Len(b) + 1
    BY <1>2, <1>4, RunEndsAhead DEF BothDigits
  <2> QED
    BY <1>2, <2>1 DEF Spots
<1> QED
  BY <1>1, <1>2, <1>3, <1>4

LEMMA FromWalks ==
    ASSUME NEW a \in Name, NEW b \in Name
    PROVE  From(a, b) = [at \in Spots(a, b) |-> Walk(a, b, at, From(a, b))]
<1> DEFINE D == Spots(a, b)
           S == {-1, 0, 1}
           H == [at \in D |-> [f \in [D -> S] |-> Walk(a, b, at, f)]]
           rank == [at \in D |-> Len(a) + 1 - at[1]]
<1>1. Len(a) \in Nat /\ Len(b) \in Nat
  BY DEF Name
<1>2. \A at \in D : /\ at[1] \in 1 .. Len(a) + 1 /\ at[2] \in 1 .. Len(b) + 1
                   /\ at = <<at[1], at[2]>>
  BY DEF Spots
<1> DEFINE Next(at) == <<at[1] + 1, at[2] + 1>>
           Past(at) == <<RunEnd(a, at[1]), RunEnd(b, at[2])>>
<1>3. ASSUME NEW at \in D, ~(at[1] > Len(a) \/ at[2] > Len(b))
      PROVE  /\ Here(a, at[1], b, at[2]) \in S
             /\ Next(at) \in D /\ rank[Next(at)] < rank[at]
             /\ BothDigits(a, at[1], b, at[2]) => Past(at) \in D /\ rank[Past(at)] < rank[at]
  <2>1. at[1] \in 1 .. Len(a) /\ at[2] \in 1 .. Len(b) /\ Here(a, at[1], b, at[2]) \in S
    BY <1>3, SpotsAhead, HereIsOrder
  <2>2. Next(at) \in D /\ Next(at)[1] = at[1] + 1
    BY <1>3, SpotsAhead
  <2>3. ASSUME BothDigits(a, at[1], b, at[2]) PROVE Past(at) \in D /\ Past(at)[1] > at[1]
    <3>1. PICK e : e = RunEnd(a, at[1])
      OBVIOUS
    <3>2. e \in at[1] + 1 .. Len(a) + 1 /\ Past(at) \in D
      BY <1>3, <2>3, <3>1, SpotsAhead
    <3>3. e > at[1]
      BY <1>1, <2>1, <3>2
    <3> QED
      BY <3>1, <3>2, <3>3
  <2>4. ASSUME NEW to \in D, to[1] > at[1] PROVE rank[to] < rank[at]
    <3>1. to[1] \in Int /\ at[1] \in Int
      BY <1>1, <1>2
    <3>2. rank[to] = Len(a) + 1 - to[1] /\ rank[at] = Len(a) + 1 - at[1]
      OBVIOUS
    <3> QED
      BY <1>1, <2>4, <3>1, <3>2
  <2>5. Next(at)[1] > at[1]
    BY <1>1, <2>1, <2>2
  <2> HIDE DEF D, Next, Past, rank
  <2> QED
    BY <2>1, <2>2, <2>3, <2>4, <2>5
<1> HIDE DEF rank, D
<1>4. ASSUME NEW at \in D, NEW f \in [D -> S] PROVE Walk(a, b, at, f) \in S
  <2>1. CASE at[1] > Len(a) \/ at[2] > Len(b)
    <3>1. Walk(a, b, at, f) = Order(Len(a) + 1 - at[1], Len(b) + 1 - at[2])
      BY <2>1 DEF Walk
    <3> QED
      BY <3>1 DEF Order
  <2>2. CASE ~(at[1] > Len(a) \/ at[2] > Len(b))
    BY <1>3, <2>2 DEF Walk
  <2> QED
    BY <2>1, <2>2
<1>5. ASSUME NEW at \in D, NEW f \in [D -> S], NEW g \in [D -> S],
             \A y \in D : rank[y] < rank[at] => f[y] = g[y]
      PROVE  H[at][f] = H[at][g]
  <2>1. H[at][f] = Walk(a, b, at, f) /\ H[at][g] = Walk(a, b, at, g)
    OBVIOUS
  <2>2. CASE at[1] > Len(a) \/ at[2] > Len(b)
    BY <2>1, <2>2 DEF Walk
  <2>3. CASE ~(at[1] > Len(a) \/ at[2] > Len(b))
    <3>1. /\ f[Next(at)] = g[Next(at)]
          /\ BothDigits(a, at[1], b, at[2]) => f[Past(at)] = g[Past(at)]
      <4> HIDE DEF Next, Past
      <4> QED
        BY <1>3, <1>5, <2>3
    <3> QED
      BY <2>1, <2>3, <3>1 DEF Walk
  <2> QED
    BY <2>2, <2>3
<1>6. Grounded(D, S, Len(a), rank, H)
  <2>1. rank \in [D -> 0 .. Len(a)]
    <3>1. \A at \in D : Len(a) + 1 - at[1] \in 0 .. Len(a)
      BY <1>1, <1>2
    <3> QED
      BY <3>1 DEF rank
  <2>2. H \in [D -> [[D -> S] -> S]]
    BY <1>4
  <2> HIDE DEF D, H, rank
  <2> QED
    BY <1>1, <1>5, <2>1, <2>2 DEF Grounded
<1>7. \E f : f = [at \in D |-> Walk(a, b, at, f)]
  <2>1. PICK f \in [D -> S] : \A at \in D : f[at] = H[at][f]
    <3> HIDE DEF D, S, H, rank
    <3> QED
      BY <1>6, RecursionOnRank DEF Recursive
  <2>2. \A at \in D : f[at] = Walk(a, b, at, f)
    BY <2>1
  <2>3. f = [at \in D |-> Walk(a, b, at, f)]
    <3> HIDE DEF D
    <3> QED
      BY <2>1, <2>2
  <2> QED
    BY <2>3
<1> DEFINE cmp == CHOOSE f : f = [at \in D |-> Walk(a, b, at, f)]
<1>8. cmp = [at \in D |-> Walk(a, b, at, cmp)]
  BY <1>7, Zenon
<1>9. From(a, b) = cmp
  BY Zenon DEF From, Spots, Walk, D
<1> QED
  BY <1>8, <1>9, Zenon DEF D

(* Where both go on from when they are equal here. *)
Beyond(a, i) == IF IsDigit(a[i]) THEN RunEnd(a, i) ELSE i + 1

LEMMA BeyondIsAhead ==
    ASSUME NEW a \in Name, NEW i \in 1 .. Len(a)
    PROVE  Beyond(a, i) \in i + 1 .. Len(a) + 1
<1>1. Len(a) \in Nat
  BY DEF Name
<1>2. i + 1 \in i + 1 .. Len(a) + 1
  BY <1>1
<1> QED
  BY <1>2, RunEndsAhead DEF Beyond

LEMMA FromAnywhere ==
    ASSUME NEW a \in Name, NEW b \in Name, NEW i \in 1 .. Len(a) + 1, NEW j \in 1 .. Len(b) + 1
    PROVE  From(a, b)[<<i, j>>] =
               IF i > Len(a) \/ j > Len(b) THEN Order(Len(a) + 1 - i, Len(b) + 1 - j)
               ELSE IF Here(a, i, b, j) # 0 THEN Here(a, i, b, j)
               ELSE IF BothDigits(a, i, b, j) THEN From(a, b)[<<RunEnd(a, i), RunEnd(b, j)>>]
               ELSE From(a, b)[<<i + 1, j + 1>>]
<1>1. <<i, j>> \in Spots(a, b)
  BY DEF Spots
<1>2. From(a, b)[<<i, j>>] = Walk(a, b, <<i, j>>, From(a, b))
  BY <1>1, FromWalks
<1> QED
  BY <1>2 DEF Walk

(* One of the names has ended: nothing left to compare, or the longer is   *)
(* the greater.                                                            *)
LEMMA FromTheEnd ==
    ASSUME NEW a \in Name, NEW b \in Name, NEW i \in 1 .. Len(a) + 1, NEW j \in 1 .. Len(b) + 1,
           i > Len(a) \/ j > Len(b)
    PROVE  /\ From(a, b)[<<i, j>>] \in {-1, 0, 1}
           /\ From(a, b)[<<i, j>>] = -From(b, a)[<<j, i>>]
           /\ From(a, b)[<<i, j>>] <= 0 <=> i > Len(a)
<1>1. PICK x, y \in Int : x = Len(a) + 1 - i /\ y = Len(b) + 1 - j
  <2>1. Len(a) + 1 - i \in Int /\ Len(b) + 1 - j \in Int
    BY DEF Name
  <2> QED
    BY <2>1
<1>2. From(a, b)[<<i, j>>] = Order(x, y)
  BY <1>1, FromAnywhere
<1>3. From(b, a)[<<j, i>>] = Order(y, x)
  BY <1>1, FromAnywhere
<1>4. x <= y <=> i > Len(a)
  BY <1>1 DEF Name
<1>5. /\ Order(x, y) \in {-1, 0, 1} /\ Order(x, y) = -Order(y, x)
      /\ Order(x, y) <= 0 <=> x <= y
  BY OrderIsSign
<1> QED
  BY <1>2, <1>3, <1>4, <1>5

LEMMA FromHere ==
    ASSUME NEW a \in Name, NEW b \in Name, NEW i \in 1 .. Len(a) + 1, NEW j \in 1 .. Len(b) + 1,
           ~(i > Len(a) \/ j > Len(b))
    PROVE  From(a, b)[<<i, j>>] = IF Here(a, i, b, j) # 0 THEN Here(a, i, b, j)
                                  ELSE From(a, b)[<<Beyond(a, i), Beyond(b, j)>>]
<1>1. i \in 1 .. Len(a) /\ j \in 1 .. Len(b)
  BY DEF Name
<1>2. Here(a, i, b, j) = 0 => (IsDigit(a[i]) <=> IsDigit(b[j]))
  BY <1>1, HereIsOrder
<1>3. From(a, b)[<<i, j>>] =
          IF Here(a, i, b, j) # 0 THEN Here(a, i, b, j)
          ELSE IF BothDigits(a, i, b, j) THEN From(a, b)[<<RunEnd(a, i), RunEnd(b, j)>>]
          ELSE From(a, b)[<<i + 1, j + 1>>]
  BY FromAnywhere
<1> QED
  BY <1>2, <1>3 DEF Beyond, BothDigits

------------------------------------------------------------------------------
LEMMA ComparesBothWays ==
    ASSUME NEW a \in Name, NEW b \in Name
    PROVE  \A i \in 1 .. Len(a) + 1, j \in 1 .. Len(b) + 1 :
              /\ From(a, b)[<<i, j>>] \in {-1, 0, 1}
              /\ From(a, b)[<<i, j>>] = -From(b, a)[<<j, i>>]
<1> DEFINE Right(i, j) == /\ From(a, b)[<<i, j>>] \in {-1, 0, 1}
                          /\ From(a, b)[<<i, j>>] = -From(b, a)[<<j, i>>]
           G == {n \in Nat : \A i \in 1 .. Len(a) + 1, j \in 1 .. Len(b) + 1 :
                                Len(a) + 1 - i <= n => Right(i, j)}
<1>1. Len(a) \in Nat /\ Len(b) \in Nat
  BY DEF Name
<1>2. ASSUME NEW i \in 1 .. Len(a) + 1, NEW j \in 1 .. Len(b) + 1, i > Len(a) \/ j > Len(b)
      PROVE  Right(i, j)
  BY <1>2, FromTheEnd
<1>3. 0 \in G
  <2>1. ASSUME NEW i \in 1 .. Len(a) + 1, Len(a) + 1 - i <= 0 PROVE i > Len(a)
    BY <1>1, <2>1
  <2> HIDE DEF Right
  <2> QED
    BY <1>2, <2>1
<1>4. ASSUME NEW n \in Nat, n \in G PROVE n + 1 \in G
  <2> SUFFICES ASSUME NEW i \in 1 .. Len(a) + 1, NEW j \in 1 .. Len(b) + 1,
                      Len(a) + 1 - i <= n + 1
               PROVE  Right(i, j)
    OBVIOUS
  <2>1. CASE i > Len(a) \/ j > Len(b)
    BY <1>2, <2>1
  <2>2. CASE ~(i > Len(a) \/ j > Len(b))
    <3>1. i \in 1 .. Len(a) /\ j \in 1 .. Len(b)
      BY <1>1, <2>2
    <3>2. PICK k, l : k = Beyond(a, i) /\ l = Beyond(b, j)
      OBVIOUS
    <3>3. k \in i + 1 .. Len(a) + 1 /\ l \in j + 1 .. Len(b) + 1
      BY <3>1, <3>2, BeyondIsAhead
    <3>4. k \in 1 .. Len(a) + 1 /\ l \in 1 .. Len(b) + 1 /\ Len(a) + 1 - k <= n
      BY <1>1, <3>1, <3>3
    <3>5. Right(k, l)
      <4> HIDE DEF Right
      <4> QED
        BY <1>4, <3>4
    <3>6. From(a, b)[<<i, j>>] = IF Here(a, i, b, j) # 0 THEN Here(a, i, b, j)
                                 ELSE From(a, b)[<<k, l>>]
      BY <2>2, <3>2, FromHere
    <3>7. From(b, a)[<<j, i>>] = IF Here(b, j, a, i) # 0 THEN Here(b, j, a, i)
                                 ELSE From(b, a)[<<l, k>>]
      BY <2>2, <3>2, FromHere
    <3>8. Here(a, i, b, j) \in {-1, 0, 1} /\ Here(a, i, b, j) = -Here(b, j, a, i)
      BY <3>1, HereIsOrder
    <3>9. Here(b, j, a, i) \in {-1, 0, 1}
      BY <3>1, HereIsOrder
    <3> QED
      BY <3>5, <3>6, <3>7, <3>8, <3>9
  <2> QED
    BY <2>1, <2>2
<1>5. \A n \in Nat : n \in G
  <2> HIDE DEF G
  <2> QED
    BY <1>3, <1>4, CountingUp
<1>6. ASSUME NEW i \in 1 .. Len(a) + 1, NEW j \in 1 .. Len(b) + 1 PROVE Right(i, j)
  <2>1. PICK n \in Nat : n = Len(a) + 1 - i
    <3>1. PICK l \in Nat : l = Len(a)
      BY <1>1
    <3>2. l + 1 - i \in Nat
      BY <3>1
    <3> QED
      BY <3>1, <3>2
  <2>2. Len(a) + 1 - i <= n
    BY <2>1
  <2> HIDE DEF Right
  <2> QED
    BY <1>5, <2>2
<1> QED
  BY <1>6

LEMMA ComparesInLine ==
    ASSUME NEW a \in Name, NEW b \in Name, NEW c \in Name
    PROVE  \A i \in 1 .. Len(a) + 1, j \in 1 .. Len(b) + 1, k \in 1 .. Len(c) + 1 :
              From(a, b)[<<i, j>>] <= 0 /\ From(b, c)[<<j, k>>] <= 0 => From(a, c)[<<i, k>>] <= 0
<1> DEFINE Right(i, j, k) ==
               From(a, b)[<<i, j>>] <= 0 /\ From(b, c)[<<j, k>>] <= 0 => From(a, c)[<<i, k>>] <= 0
           G == {n \in Nat : \A i \in 1 .. Len(a) + 1, j \in 1 .. Len(b) + 1, k \in 1 .. Len(c) + 1 :
                                Len(a) + 1 - i <= n => Right(i, j, k)}
<1>1. Len(a) \in Nat /\ Len(b) \in Nat /\ Len(c) \in Nat
  BY DEF Name
<1>2. ASSUME NEW i \in 1 .. Len(a) + 1, NEW j \in 1 .. Len(b) + 1, NEW k \in 1 .. Len(c) + 1,
             i > Len(a) \/ j > Len(b) \/ k > Len(c)
      PROVE  Right(i, j, k)
  <2>1. CASE i > Len(a)
    BY <2>1, FromTheEnd
  <2>2. CASE ~(i > Len(a)) /\ j > Len(b)
    BY <2>2, FromTheEnd
  <2>3. CASE ~(j > Len(b)) /\ k > Len(c)
    BY <2>3, FromTheEnd
  <2> QED
    BY <1>2, <2>1, <2>2, <2>3
<1>3. 0 \in G
  <2>1. ASSUME NEW i \in 1 .. Len(a) + 1, Len(a) + 1 - i <= 0 PROVE i > Len(a)
    BY <1>1, <2>1
  <2> HIDE DEF Right
  <2> QED
    BY <1>2, <2>1
<1>4. ASSUME NEW n \in Nat, n \in G PROVE n + 1 \in G
  <2> SUFFICES ASSUME NEW i \in 1 .. Len(a) + 1, NEW j \in 1 .. Len(b) + 1,
                      NEW k \in 1 .. Len(c) + 1, Len(a) + 1 - i <= n + 1
               PROVE  Right(i, j, k)
    OBVIOUS
  <2>1. CASE i > Len(a) \/ j > Len(b) \/ k > Len(c)
    BY <1>2, <2>1
  <2>2. CASE ~(i > Len(a) \/ j > Len(b) \/ k > Len(c))
    <3>1. i \in 1 .. Len(a) /\ j \in 1 .. Len(b) /\ k \in 1 .. Len(c)
      BY <1>1, <2>2
    <3>2. PICK x, y, z : x = Beyond(a, i) /\ y = Beyond(b, j) /\ z = Beyond(c, k)
      OBVIOUS
    <3>3. x \in i + 1 .. Len(a) + 1 /\ y \in j + 1 .. Len(b) + 1 /\ z \in k + 1 .. Len(c) + 1
      BY <3>1, <3>2, BeyondIsAhead
    <3>4. /\ x \in 1 .. Len(a) + 1 /\ y \in 1 .. Len(b) + 1 /\ z \in 1 .. Len(c) + 1
          /\ Len(a) + 1 - x <= n
      BY <1>1, <3>1, <3>3
    <3>5. Right(x, y, z)
      <4> HIDE DEF Right
      <4> QED
        BY <1>4, <3>4
    <3>6. From(a, b)[<<i, j>>] = IF Here(a, i, b, j) # 0 THEN Here(a, i, b, j)
                                 ELSE From(a, b)[<<x, y>>]
      BY <2>2, <3>2, FromHere
    <3>7. From(b, c)[<<j, k>>] = IF Here(b, j, c, k) # 0 THEN Here(b, j, c, k)
                                 ELSE From(b, c)[<<y, z>>]
      BY <2>2, <3>2, FromHere
    <3>8. From(a, c)[<<i, k>>] = IF Here(a, i, c, k) # 0 THEN Here(a, i, c, k)
                                 ELSE From(a, c)[<<x, z>>]
      BY <2>2, <3>2, FromHere
    <3> SUFFICES ASSUME From(a, b)[<<i, j>>] <= 0, From(b, c)[<<j, k>>] <= 0
                 PROVE  From(a, c)[<<i, k>>] <= 0
      OBVIOUS
    <3>9. Here(a, i, b, j) <= 0 /\ Here(b, j, c, k) <= 0
      <4>1. /\ Here(a, i, b, j) # 0 => Here(a, i, b, j) <= 0
            /\ Here(b, j, c, k) # 0 => Here(b, j, c, k) <= 0
        BY <3>6, <3>7
      <4> QED
        BY <4>1
    <3>10. /\ Here(a, i, c, k) <= 0
           /\ Here(a, i, c, k) = 0 <=> Here(a, i, b, j) = 0 /\ Here(b, j, c, k) = 0
      BY <3>1, <3>9, HereTransitive
    <3> QED
      BY <3>5, <3>6, <3>7, <3>8, <3>10
  <2> QED
    BY <2>1, <2>2
<1>5. \A n \in Nat : n \in G
  <2> HIDE DEF G
  <2> QED
    BY <1>3, <1>4, CountingUp
<1>6. ASSUME NEW i \in 1 .. Len(a) + 1, NEW j \in 1 .. Len(b) + 1, NEW k \in 1 .. Len(c) + 1
      PROVE  Right(i, j, k)
  <2>1. PICK n \in Nat : n = Len(a) + 1 - i
    <3>1. PICK l \in Nat : l = Len(a)
      BY <1>1
    <3>2. l + 1 - i \in Nat
      BY <3>1
    <3> QED
      BY <3>1, <3>2
  <2>2. Len(a) + 1 - i <= n
    BY <2>1
  <2> HIDE DEF Right
  <2> QED
    BY <1>5, <2>2
<1> QED
  BY <1>6

(* natural_cmp orders all names: it answers one of three things, the       *)
(* opposite the other way round, and what is in line stays in line.        *)
LEMMA NaturalCmpIsOrder ==
    ASSUME NEW a \in Name, NEW b \in Name
    PROVE  /\ NaturalCmp(a, b) \in {-1, 0, 1}
           /\ NaturalCmp(a, b) = -NaturalCmp(b, a)
           /\ \A c \in Name : NaturalCmp(a, b) <= 0 /\ NaturalCmp(b, c) <= 0 => NaturalCmp(a, c) <= 0
<1>1. \A d \in Name : 1 \in 1 .. Len(d) + 1
  BY DEF Name
<1>2. /\ From(a, b)[<<1, 1>>] \in {-1, 0, 1}
      /\ From(a, b)[<<1, 1>>] = -From(b, a)[<<1, 1>>]
  BY <1>1, ComparesBothWays
<1>3. ASSUME NEW c \in Name, From(a, b)[<<1, 1>>] <= 0, From(b, c)[<<1, 1>>] <= 0
      PROVE  From(a, c)[<<1, 1>>] <= 0
  BY <1>1, <1>3, ComparesInLine
<1> QED
  BY <1>2, <1>3 DEF NaturalCmp

------------------------------------------------------------------------------
(* sort_by *)
NoLater(e, x) == NaturalCmp(e.name, x.name) <= 0
Sorted(t) == \A x, y \in 1 .. Len(t) : x <= y => NoLater(t[x], t[y])

LEMMA EntriesInLine ==
    ASSUME NEW e \in Entry, NEW x \in Entry
    PROVE  /\ NoLater(e, x) \/ NoLater(x, e)
           /\ ~NoLater(e, x) <=> NaturalCmp(x.name, e.name) < 0
           /\ NoLater(e, x) /\ NoLater(x, e) => NaturalCmp(e.name, x.name) = 0
           /\ NoLater(e, e)
           /\ \A y \in Entry : NoLater(e, x) /\ NoLater(x, y) => NoLater(e, y)
<1>1. \A y \in Entry : y.name \in Name
  BY DEF Entry
<1>2. \A a, b \in Name : NaturalCmp(a, b) \in {-1, 0, 1} /\ NaturalCmp(a, b) = -NaturalCmp(b, a)
  BY NaturalCmpIsOrder
<1>3. \A y \in Entry : NoLater(e, x) /\ NoLater(x, y) => NoLater(e, y)
  BY <1>1, NaturalCmpIsOrder DEF NoLater
<1>4. /\ NaturalCmp(e.name, x.name) \in {-1, 0, 1} /\ NaturalCmp(e.name, e.name) \in {-1, 0, 1}
      /\ NaturalCmp(e.name, x.name) = -NaturalCmp(x.name, e.name)
      /\ NaturalCmp(x.name, e.name) \in {-1, 0, 1}
      /\ NaturalCmp(e.name, e.name) = -NaturalCmp(e.name, e.name)
  BY <1>1, <1>2
<1> QED
  BY <1>3, <1>4 DEF NoLater

(* An entry is placed after those it equals and before those it precedes.  *)
LEMMA PlacedBefore ==
    ASSUME NEW s \in Seq(Entry), NEW e \in Entry, NEW t, t = Placed(s, e)
    PROVE  t \in Seq(Entry)
           /\ \E k \in 0 .. Len(s) :
                 /\ Inserted(t, s, k, e)
                 /\ \A i \in 1 .. k : NoLater(s[i], e)
                 /\ k < Len(s) => NoLater(e, s[k + 1])
<1> DEFINE I == {i \in 1 .. Len(s) : NaturalCmp(e.name, s[i].name) < 0}
<1>1. Len(s) \in Nat /\ \A i \in 1 .. Len(s) : s[i] \in Entry
  BY LenProperties, ElementOfSeq
<1>2. \A i \in 1 .. Len(s) : i \in I <=> ~NoLater(s[i], e)
  BY <1>1, EntriesInLine
<1>3. PICK k \in 0 .. Len(s) :
         /\ t \in Seq(Entry) /\ Inserted(t, s, k, e)
         /\ \A i \in 1 .. k : i \notin I
         /\ k < Len(s) => k + 1 \in I
  <2>1. CASE I = {}
    <3>1. t = Append(s, e)
      BY <2>1 DEF Placed, SelectInSeq
    <3>2. Len(s) \in 0 .. Len(s) /\ ~(Len(s) < Len(s))
      BY <1>1
    <3> QED
      BY <2>1, <3>1, <3>2, AppendedSeq
  <2>2. CASE I # {}
    <3>1. PICK m : m = Min(I)
      OBVIOUS
    <3>2. I \in SUBSET Nat
      BY <1>1
    <3>3. m \in I /\ \A i \in I : m <= i
      <4> HIDE DEF I
      <4> QED
        BY <2>2, <3>1, <3>2, LeastPosition
    <3>4. m \in 1 .. Len(s) /\ m # 0
      BY <3>3
    <3>5. SelectInSeq(s, LAMBDA x : NaturalCmp(e.name, x.name) < 0) = m
      BY <2>2, <3>1 DEF SelectInSeq
    <3>6. t = InsertAt(s, m, e)
      BY <3>4, <3>5, Zenon DEF Placed
    <3>7. PICK k : k = m - 1
      OBVIOUS
    <3>8. k \in 0 .. Len(s) /\ m = k + 1 /\ k < m
      BY <1>1, <3>4, <3>7
    <3>9. t = SubSeq(s, 1, k) \o <<e>> \o SubSeq(s, k + 1, Len(s))
      BY <3>6, <3>7, <3>8 DEF InsertAt
    <3>10. t \in Seq(Entry) /\ Inserted(t, s, k, e)
      BY <3>8, <3>9, InsertedSeq
    <3>11. \A i \in 1 .. k : i \notin I
      BY <1>1, <3>3, <3>8
    <3> QED
      BY <3>3, <3>8, <3>10, <3>11
  <2> QED
    BY <2>1, <2>2
<1> HIDE DEF I
<1>4. \A i \in 1 .. k : i \in 1 .. Len(s) /\ NoLater(s[i], e)
  BY <1>1, <1>2, <1>3
<1>5. ASSUME k < Len(s) PROVE NoLater(e, s[k + 1])
  <2>1. k + 1 \in 1 .. Len(s)
    BY <1>1, <1>5
  <2> QED
    BY <1>1, <1>2, <1>3, <1>5, <2>1, EntriesInLine
<1> QED
  BY <1>3, <1>4, <1>5

LEMMA PlacedInLine ==
    ASSUME NEW s \in Seq(Entry), Sorted(s), NEW e \in Entry, NEW t, t = Placed(s, e)
    PROVE  t \in Seq(Entry) /\ Sorted(t) /\ \E k \in 0 .. Len(s) : Inserted(t, s, k, e)
<1>1. Len(s) \in Nat /\ \A i \in 1 .. Len(s) : s[i] \in Entry
  BY LenProperties, ElementOfSeq
<1>2. PICK k \in 0 .. Len(s) :
         /\ t \in Seq(Entry) /\ Inserted(t, s, k, e)
         /\ \A i \in 1 .. k : NoLater(s[i], e)
         /\ k < Len(s) => NoLater(e, s[k + 1])
  BY PlacedBefore
<1>3. ASSUME NEW i \in 1 .. Len(s) PROVE i <= k => NoLater(s[i], e)
  BY <1>1, <1>2
<1>4. ASSUME NEW i \in 1 .. Len(s), i > k PROVE NoLater(e, s[i])
  <2>1. k + 1 \in 1 .. Len(s) /\ k < Len(s) /\ k + 1 <= i
    BY <1>1, <1>4
  <2>2. NoLater(e, s[k + 1])
    BY <1>2, <2>1
  <2>3. NoLater(s[k + 1], s[i])
    BY <2>1 DEF Sorted
  <2> QED
    BY <1>1, <2>1, <2>2, <2>3, EntriesInLine
<1>5. ASSUME NEW x \in 1 .. Len(t)
      PROVE  \/ x <= k /\ x \in 1 .. Len(s) /\ t[x] = s[x]
             \/ x = k + 1 /\ t[x] = e
             \/ x > k + 1 /\ x - 1 \in 1 .. Len(s) /\ x - 1 > k /\ t[x] = s[x - 1]
  <2>1. Len(t) = Len(s) + 1
    BY <1>2 DEF Inserted
  <2>2. CASE x <= k
    BY <1>1, <1>2, <2>2 DEF Inserted
  <2>3. CASE x = k + 1
    BY <1>2, <2>3 DEF Inserted
  <2>4. CASE x > k + 1
    <3>1. x - (k + 1) \in 1 .. Len(s) - k /\ k + 1 + (x - (k + 1)) = x /\ k + (x - (k + 1)) = x - 1
      BY <1>1, <2>1, <2>4
    <3>2. t[k + 1 + (x - (k + 1))] = s[k + (x - (k + 1))]
      BY <1>2, <3>1 DEF Inserted
    <3> QED
      BY <1>1, <2>1, <2>4, <3>1, <3>2
  <2> QED
    BY <1>1, <2>1, <2>2, <2>3, <2>4
<1>6. Sorted(t)
  <2> SUFFICES ASSUME NEW x \in 1 .. Len(t), NEW y \in 1 .. Len(t), x <= y PROVE NoLater(t[x], t[y])
    BY DEF Sorted
  <2>1. NoLater(e, e)
    BY EntriesInLine
  <2>2. \A i, j \in 1 .. Len(s) : i <= j => NoLater(s[i], s[j])
    BY DEF Sorted
  <2>3. CASE x <= k /\ x \in 1 .. Len(s) /\ t[x] = s[x]
    BY <1>1, <1>3, <1>4, <1>5, <2>2, <2>3, EntriesInLine
  <2>4. CASE x = k + 1 /\ t[x] = e
    BY <1>1, <1>3, <1>4, <1>5, <2>1, <2>4
  <2>5. CASE x > k + 1 /\ x - 1 \in 1 .. Len(s) /\ x - 1 > k /\ t[x] = s[x - 1]
    BY <1>1, <1>3, <1>4, <1>5, <2>2, <2>5
  <2> QED
    BY <1>5, <2>3, <2>4, <2>5
<1> QED
  BY <1>2, <1>6

(* SortNames takes the entries of a directory one by one. *)
Taken(dir, kind, n, s) == IF Shown(dir[n], kind) THEN Placed(s, dir[n]) ELSE s

LEMMA SortTakesEach ==
    ASSUME NEW dir \in Seq(Entry), NEW kind
    PROVE  \E f : /\ SortNames(dir, kind) = f[Len(dir)] /\ f[0] = <<>>
                  /\ \A n \in 1 .. Len(dir) : f[n] = Taken(dir, kind, n, f[n - 1])
<1> DEFINE D == 0 .. Len(dir)
           S == Seq(Entry)
           step == [n \in 1 .. Len(dir) |-> [s \in S |-> Taken(dir, kind, n, s)]]
           Body(n, f) == IF n = 0 THEN <<>> ELSE Taken(dir, kind, n, f[n - 1])
           sorted == CHOOSE f : f = [n \in D |-> Body(n, f)]
<1>1. Len(dir) \in Nat /\ \A n \in 1 .. Len(dir) : dir[n] \in Entry
  BY LenProperties, ElementOfSeq
<1>2. 0 \in D /\ \A n \in 1 .. Len(dir) : n \in D /\ n # 0 /\ n - 1 \in D
  BY <1>1
<1>3. Stepwise(S, <<>>, Len(dir), step)
  <2>1. ASSUME NEW n \in 1 .. Len(dir), NEW s \in S PROVE Taken(dir, kind, n, s) \in S
    <3>1. PICK e \in Entry : e = dir[n]
      BY <1>1
    <3>2. Placed(s, e) \in S
      BY PlacedBefore
    <3> QED
      BY <3>1, <3>2 DEF Taken
  <2>2. <<>> \in S
    OBVIOUS
  <2> HIDE DEF S
  <2>3. step \in [1 .. Len(dir) -> [S -> S]]
    BY <2>1
  <2> HIDE DEF step
  <2> QED
    BY <1>1, <2>2, <2>3 DEF Stepwise
<1>4. \E g : g = [n \in D |-> Body(n, g)]
  <2>1. PICK g : Steps(g, S, <<>>, Len(dir), step)
    <3> HIDE DEF step
    <3> QED
      BY <1>3, StepsExist
  <2>2. g \in [D -> S] /\ g[0] = <<>> /\ \A n \in 1 .. Len(dir) : g[n] = step[n][g[n - 1]]
    BY <2>1 DEF Steps
  <2>3. \A n \in D : n # 0 => n \in 1 .. Len(dir)
    BY <1>1
  <2> HIDE DEF D, S
  <2>4. \A n \in 1 .. Len(dir) : g[n] = Taken(dir, kind, n, g[n - 1])
    BY <1>2, <2>2
  <2> HIDE DEF step
  <2> QED
    BY <2>2, <2>3, <2>4
<1>5. sorted = [n \in D |-> Body(n, sorted)]
  BY <1>4, Zenon
<1>6. SortNames(dir, kind) = sorted[Len(dir)]
  BY Zenon DEF SortNames, Taken
<1> HIDE DEF sorted, D
<1>7. sorted[0] = <<>> /\ \A n \in 1 .. Len(dir) : sorted[n] = Taken(dir, kind, n, sorted[n - 1])
  BY <1>2, <1>5
<1> QED
  BY <1>6, <1>7

(* t lists the entries of a kind among the first n of a directory. *)
Listed(dir, kind, n) == {i \in 1 .. n : Shown(dir[i], kind)}
Lists(t, dir, kind, n) ==
    \E p \in [Listed(dir, kind, n) -> 1 .. Len(t)] :
        /\ \A i \in Listed(dir, kind, n) : t[p[i]] = dir[i]
        /\ \A i, j \in Listed(dir, kind, n) : p[i] = p[j] => i = j
        /\ \A x \in 1 .. Len(t) : \E i \in Listed(dir, kind, n) : p[i] = x

LEMMA ListedOneMore ==
    ASSUME NEW dir \in Seq(Entry), NEW kind, NEW n \in 1 .. Len(dir), Shown(dir[n], kind),
           NEW s \in Seq(Entry), Lists(s, dir, kind, n - 1),
           NEW t \in Seq(Entry), NEW k \in 0 .. Len(s), Inserted(t, s, k, dir[n])
    PROVE  Lists(t, dir, kind, n)
<1> DEFINE I == Listed(dir, kind, n - 1)
           J == Listed(dir, kind, n)
<1>1. Len(s) \in Nat /\ Len(t) = Len(s) + 1 /\ Len(dir) \in Nat
  BY LenProperties DEF Inserted
<1>2. J = I \cup {n} /\ n \notin I
  BY <1>1 DEF Listed
<1>3. PICK p \in [I -> 1 .. Len(s)] :
         /\ \A i \in I : s[p[i]] = dir[i]
         /\ \A i, j \in I : p[i] = p[j] => i = j
         /\ \A x \in 1 .. Len(s) : \E i \in I : p[i] = x
  BY DEF Lists
<1> HIDE DEF I, J
<1> DEFINE Moved(x) == IF x <= k THEN x ELSE x + 1
           q == [i \in J |-> IF i = n THEN k + 1 ELSE Moved(p[i])]
<1>4. ASSUME NEW x \in 1 .. Len(s)
      PROVE  /\ Moved(x) \in 1 .. Len(t) /\ t[Moved(x)] = s[x] /\ Moved(x) # k + 1
             /\ \A y \in 1 .. Len(s) : Moved(x) = Moved(y) => x = y
  <2>1. CASE x <= k
    BY <1>1, <2>1 DEF Inserted
  <2>2. CASE x > k
    <3>1. x - k \in 1 .. Len(s) - k /\ k + 1 + (x - k) = x + 1 /\ k + (x - k) = x
      BY <1>1, <2>2
    <3>2. t[k + 1 + (x - k)] = s[k + (x - k)]
      BY <3>1 DEF Inserted
    <3>3. Moved(x) = x + 1 /\ t[x + 1] = s[x]
      BY <2>2, <3>1, <3>2
    <3>4. x + 1 \in 1 .. Len(t) /\ x + 1 # k + 1
      BY <1>1, <2>2
    <3>5. \A y \in 1 .. Len(s) : Moved(y) = x + 1 => x = y
      BY <1>1, <2>2
    <3> QED
      BY <3>3, <3>4, <3>5
  <2> QED
    BY <1>1, <2>1, <2>2
<1>5. k + 1 \in 1 .. Len(t) /\ t[k + 1] = dir[n]
  BY <1>1 DEF Inserted
<1>6. ASSUME NEW x \in 1 .. Len(t), x # k + 1 PROVE \E y \in 1 .. Len(s) : Moved(y) = x
  <2>1. CASE x <= k
    BY <1>1, <2>1
  <2>2. CASE x > k
    <3>1. x - 1 \in 1 .. Len(s) /\ ~(x - 1 <= k) /\ (x - 1) + 1 = x
      BY <1>1, <1>6, <2>2
    <3> QED
      BY <3>1
  <2> QED
    BY <1>1, <2>1, <2>2
<1> HIDE DEF Moved
<1>7. q \in [J -> 1 .. Len(t)]
  BY <1>2, <1>3, <1>4, <1>5
<1>8. \A i \in J : t[q[i]] = dir[i]
  BY <1>2, <1>3, <1>4, <1>5
<1>9. \A i, j \in J : q[i] = q[j] => i = j
  BY <1>2, <1>3, <1>4
<1>10. ASSUME NEW x \in 1 .. Len(t) PROVE \E i \in J : q[i] = x
  <2>1. CASE x = k + 1
    BY <1>2, <2>1
  <2>2. CASE x # k + 1
    <3>1. PICK y \in 1 .. Len(s) : Moved(y) = x
      BY <1>6, <2>2
    <3>2. PICK i \in I : p[i] = y
      BY <1>3
    <3> QED
      BY <1>2, <3>1, <3>2
  <2> QED
    BY <2>1, <2>2
<1> HIDE DEF q
<1> QED
  BY <1>7, <1>8, <1>9, <1>10 DEF Lists, J

LEMMA SortLists ==
    ASSUME NEW dir \in Seq(Entry), NEW kind, NEW t, t = SortNames(dir, kind)
    PROVE  t \in Seq(Entry) /\ Sorted(t) /\ Lists(t, dir, kind, Len(dir))
<1>1. PICK f : /\ SortNames(dir, kind) = f[Len(dir)] /\ f[0] = <<>>
               /\ \A n \in 1 .. Len(dir) : f[n] = Taken(dir, kind, n, f[n - 1])
  BY SortTakesEach
<1>2. Len(dir) \in Nat /\ \A n \in 1 .. Len(dir) : dir[n] \in Entry
  BY LenProperties, ElementOfSeq
<1> DEFINE Right(n) == f[n] \in Seq(Entry) /\ Sorted(f[n]) /\ Lists(f[n], dir, kind, n)
           G == {n \in 0 .. Len(dir) : Right(n)}
<1>3. 0 \in G
  <2>1. f[0] = <<>>
    BY <1>1
  <2>2. <<>> \in Seq(Entry) /\ 1 .. Len(<<>>) = {}
    OBVIOUS
  <2>3. Listed(dir, kind, 0) = {}
    BY DEF Listed
  <2>4. Sorted(<<>>)
    BY <2>2 DEF Sorted
  <2>5. Lists(<<>>, dir, kind, 0)
    <3>1. [i \in {} |-> i] \in [{} -> {}]
      OBVIOUS
    <3> QED
      BY <2>2, <2>3, <3>1 DEF Lists
  <2>6. 0 \in 0 .. Len(dir)
    BY <1>2
  <2>7. Right(0)
    BY <2>1, <2>2, <2>4, <2>5
  <2> QED
    BY <2>6, <2>7
<1>4. ASSUME NEW m \in 1 .. Len(dir), m - 1 \in G PROVE m \in G
  <2>1. m \in 0 .. Len(dir)
    BY <1>2
  <2>2. PICK s : s = f[m - 1]
    OBVIOUS
  <2>3. s \in Seq(Entry) /\ Sorted(s) /\ Lists(s, dir, kind, m - 1)
    BY <1>4, <2>2
  <2>4. PICK u : u = f[m]
    OBVIOUS
  <2>5. u = IF Shown(dir[m], kind) THEN Placed(s, dir[m]) ELSE s
    BY <1>1, <2>2, <2>4 DEF Taken
  <2>6. u \in Seq(Entry) /\ Sorted(u) /\ Lists(u, dir, kind, m)
    <3>1. CASE Shown(dir[m], kind)
      <4>1. PICK e \in Entry : e = dir[m]
        BY <1>2
      <4>2. u = Placed(s, e)
        BY <2>5, <3>1, <4>1
      <4>3. PICK k \in 0 .. Len(s) : u \in Seq(Entry) /\ Sorted(u) /\ Inserted(u, s, k, e)
        BY <2>3, <4>2, PlacedInLine
      <4>4. Lists(u, dir, kind, m)
        BY <2>3, <3>1, <4>1, <4>3, ListedOneMore
      <4> QED
        BY <4>3, <4>4
    <3>2. CASE ~Shown(dir[m], kind)
      <4>1. Listed(dir, kind, m) = Listed(dir, kind, m - 1)
        BY <1>2, <3>2 DEF Listed
      <4> QED
        BY <2>3, <2>5, <3>2, <4>1 DEF Lists
    <3> QED
      BY <3>1, <3>2
  <2> QED
    BY <2>1, <2>4, <2>6
<1>5. \A n \in 0 .. Len(dir) : n \in G
  <2> HIDE DEF G
  <2> QED
    BY <1>2, <1>3, <1>4, CountingUpTo
<1>6. Right(Len(dir))
  <2>1. Len(dir) \in 0 .. Len(dir)
    BY <1>2
  <2> QED
    BY <1>5, <2>1
<1> QED
  BY <1>1, <1>6

------------------------------------------------------------------------------
(* The same directory read in two orders. *)
Matched(s, t) ==
    \E r \in [1 .. Len(s) -> 1 .. Len(t)] :
        /\ \A x \in 1 .. Len(s) : t[r[x]] = s[x]
        /\ \A x, y \in 1 .. Len(s) : r[x] = r[y] => x = y

LEMMA ListsMatch ==
    ASSUME NEW N \in Nat, NEW dir, NEW other, NEW kind, NEW s, NEW t,
           \A i \in 1 .. N : other[i] = dir[N + 1 - i],
           Lists(s, dir, kind, N), Lists(t, other, kind, N)
    PROVE  Matched(s, t)
<1> DEFINE I == Listed(dir, kind, N)
           J == Listed(other, kind, N)
<1>1. \A i \in I : i \in 1 .. N /\ N + 1 - i \in J /\ other[N + 1 - i] = dir[i]
  <2>1. ASSUME NEW i \in 1 .. N
        PROVE  N + 1 - i \in 1 .. N /\ other[N + 1 - i] = dir[i]
    <3>1. N + 1 - i \in 1 .. N /\ N + 1 - (N + 1 - i) = i
      OBVIOUS
    <3> QED
      BY <3>1
  <2> QED
    BY <2>1 DEF Listed
<1>2. PICK p \in [I -> 1 .. Len(s)] :
         /\ \A i \in I : s[p[i]] = dir[i]
         /\ \A i, j \in I : p[i] = p[j] => i = j
         /\ \A x \in 1 .. Len(s) : \E i \in I : p[i] = x
  BY DEF Lists
<1>3. PICK q \in [J -> 1 .. Len(t)] :
         /\ \A i \in J : t[q[i]] = other[i]
         /\ \A i, j \in J : q[i] = q[j] => i = j
  BY DEF Lists
<1> HIDE DEF I, J
<1> DEFINE from == [x \in 1 .. Len(s) |-> CHOOSE i \in I : p[i] = x]
           r == [x \in 1 .. Len(s) |-> q[N + 1 - from[x]]]
<1>4. \A x \in 1 .. Len(s) : from[x] \in I /\ p[from[x]] = x
  BY <1>2
<1> HIDE DEF from
<1>5. \A x \in 1 .. Len(s) : r[x] \in 1 .. Len(t) /\ t[r[x]] = s[x]
  BY <1>1, <1>2, <1>3, <1>4
<1>6. ASSUME NEW x \in 1 .. Len(s), NEW y \in 1 .. Len(s), r[x] = r[y] PROVE x = y
  <2>1. PICK i, j \in I : i = from[x] /\ j = from[y]
    BY <1>4
  <2>2. N + 1 - i = N + 1 - j
    BY <1>1, <1>3, <1>6, <2>1
  <2>3. i = j
    BY <1>1, <2>2
  <2> QED
    BY <1>4, <2>1, <2>3
<1> QED
  BY <1>5, <1>6 DEF Matched

LEMMA MatchedNotLonger ==
    ASSUME NEW s \in Seq(Entry), NEW t \in Seq(Entry), Matched(s, t)
    PROVE  Len(s) <= Len(t)
<1>1. Len(s) \in Nat /\ Len(t) \in Nat
  BY LenProperties
<1>2. PICK r \in [1 .. Len(s) -> 1 .. Len(t)] : \A x, y \in 1 .. Len(s) : r[x] = r[y] => x = y
  BY DEF Matched
<1>3. r \in Injection(1 .. Len(s), 1 .. Len(t))
  BY <1>2, Fun_IsInj
<1>4. Cardinality(1 .. Len(s)) <= Cardinality(1 .. Len(t))
  BY <1>1, <1>3, IntervalSize, FS_Injection
<1> QED
  BY <1>1, <1>4, IntervalSize

(* Of two sorted lists with the same entries neither is ahead anywhere:    *)
(* the first x entries of the one are not all among the first x - 1 of the *)
(* other.                                                                  *)
LEMMA MatchedNoLater ==
    ASSUME NEW s \in Seq(Entry), NEW t \in Seq(Entry), Sorted(s), Sorted(t), Matched(s, t),
           NEW x \in 1 .. Len(s), x \in 1 .. Len(t)
    PROVE  NoLater(t[x], s[x])
<1>1. Len(s) \in Nat /\ Len(t) \in Nat
  BY LenProperties
<1>2. PICK r \in [1 .. Len(s) -> 1 .. Len(t)] :
         /\ \A y \in 1 .. Len(s) : t[r[y]] = s[y]
         /\ \A y, z \in 1 .. Len(s) : r[y] = r[z] => y = z
  BY DEF Matched
<1>3. \A y \in 1 .. x : y \in 1 .. Len(s)
  BY <1>1
<1>4. \E y \in 1 .. x : x <= r[y]
  <2> SUFFICES ASSUME \A y \in 1 .. x : ~(x <= r[y]) PROVE FALSE
    OBVIOUS
  <2> DEFINE front == [y \in 1 .. x |-> r[y]]
  <2>1. PICK w \in Nat : w = x - 1
    BY <1>1
  <2>2. ASSUME NEW y \in 1 .. x PROVE r[y] \in 1 .. w
    <3>1. PICK z \in 1 .. Len(t) : z = r[y]
      BY <1>2, <1>3
    <3>2. ~(x <= z)
      BY <3>1
    <3> QED
      BY <1>1, <2>1, <3>1, <3>2
  <2>3. x \in Nat
    BY <1>1
  <2>4. front \in [1 .. x -> 1 .. w]
    BY <2>2
  <2>5. \A y, z \in 1 .. x : front[y] = front[z] => y = z
    BY <1>2, <1>3
  <2> HIDE DEF front
  <2>6. front \in Injection(1 .. x, 1 .. w)
    BY <2>4, <2>5, Fun_IsInj
  <2>7. Cardinality(1 .. x) <= Cardinality(1 .. w)
    BY <2>6, IntervalSize, FS_Injection
  <2>8. x <= w
    BY <2>3, <2>7, IntervalSize
  <2> QED
    BY <2>1, <2>3, <2>8
<1>5. PICK y \in 1 .. x : x <= r[y]
  BY <1>4
<1>6. PICK z \in 1 .. Len(t) : z = r[y] /\ t[z] = s[y] /\ y \in 1 .. Len(s) /\ y <= x
  <2>1. y \in 1 .. Len(s) /\ y <= x
    BY <1>1
  <2>2. r[y] \in 1 .. Len(t) /\ t[r[y]] = s[y]
    BY <1>2, <2>1
  <2> QED
    BY <2>1, <2>2
<1>7. NoLater(t[x], t[z])
  BY <1>5, <1>6 DEF Sorted
<1>8. NoLater(s[y], s[x])
  BY <1>6 DEF Sorted
<1>9. t[x] \in Entry /\ t[z] \in Entry /\ s[x] \in Entry
  BY <1>6, ElementOfSeq
<1> QED
  BY <1>6, <1>7, <1>8, <1>9, EntriesInLine

Alike(s, t) ==
    /\ Len(s) = Len(t)
    /\ \A x \in 1 .. Len(s) : s[x].kind = t[x].kind /\ NaturalCmp(s[x].name, t[x].name) = 0

LEMMA SortedAlike ==
    ASSUME NEW dir \in Seq(Entry), NEW kind, NEW s, NEW t,
           s = SortNames(dir, kind), t = SortNames(Reverse(dir), kind)
    PROVE  s \in Seq(Entry) /\ t \in Seq(Entry) /\ Alike(s, t)
<1>1. PICK N \in Nat : N = Len(dir)
  BY LenProperties
<1>2. PICK other : other = Reverse(dir)
  OBVIOUS
<1>3. other = [i \in 1 .. N |-> dir[(N - i) + 1]]
  BY <1>1, <1>2 DEF Reverse
<1>4. \A i \in 1 .. N : other[i] = dir[N + 1 - i] /\ dir[i] = other[N + 1 - i]
  <2> SUFFICES ASSUME NEW i \in 1 .. N
               PROVE  other[i] = dir[N + 1 - i] /\ dir[i] = other[N + 1 - i]
    OBVIOUS
  <2>1. /\ N + 1 - i \in 1 .. N /\ (N - (N + 1 - i)) + 1 = i
        /\ (N - i) + 1 = N + 1 - i
    OBVIOUS
  <2> QED
    BY <1>3, <2>1
<1>5. other \in Seq(Entry) /\ Len(other) = N
  <2>1. \A i \in 1 .. N : dir[(N - i) + 1] \in Entry
    <3>1. ASSUME NEW i \in 1 .. N PROVE (N - i) + 1 \in 1 .. Len(dir)
      BY <1>1
    <3> QED
      BY <3>1, ElementOfSeq
  <2>2. other \in [1 .. N -> Entry]
    BY <1>3, <2>1
  <2> QED
    BY <2>2
<1>6. s \in Seq(Entry) /\ Sorted(s) /\ Lists(s, dir, kind, N)
  BY <1>1, SortLists
<1>7. t = SortNames(other, kind)
  BY <1>2
<1>8. t \in Seq(Entry) /\ Sorted(t) /\ Lists(t, other, kind, N)
  BY <1>5, <1>7, SortLists
<1>9. Matched(s, t) /\ Matched(t, s)
  BY <1>4, <1>6, <1>8, ListsMatch
<1>10. Len(s) = Len(t) /\ Len(s) \in Nat
  <2>1. PICK m, n \in Nat : m = Len(s) /\ n = Len(t)
    BY <1>6, <1>8, LenProperties
  <2>2. m <= n /\ n <= m
    BY <1>6, <1>8, <1>9, <2>1, MatchedNotLonger
  <2> QED
    BY <2>1, <2>2
<1>11. ASSUME NEW x \in 1 .. Len(s)
       PROVE  s[x].kind = t[x].kind /\ NaturalCmp(s[x].name, t[x].name) = 0
  <2>1. x \in 1 .. Len(t)
    BY <1>10
  <2>2. NoLater(t[x], s[x]) /\ NoLater(s[x], t[x])
    BY <1>6, <1>8, <1>9, <2>1, MatchedNoLater
  <2>3. s[x] \in Entry /\ t[x] \in Entry
    BY <1>6, <1>8, <2>1, ElementOfSeq
  <2>4. s[x].kind = kind
    BY <1>6, <1>11 DEF Lists, Listed, Shown
  <2>5. t[x].kind = kind
    BY <1>8, <2>1 DEF Lists, Listed, Shown
  <2> QED
    BY <2>2, <2>3, <2>4, <2>5, EntriesInLine
<1> QED
  BY <1>6, <1>8, <1>10, <1>11 DEF Alike

LEMMA JoinedAlike ==
    ASSUME NEW a \in Seq(Entry), NEW b \in Seq(Entry), NEW c \in Seq(Entry), NEW d \in Seq(Entry),
           Alike(a, c), Alike(b, d), NEW s, NEW t, s = a \o b, t = c \o d
    PROVE  s \in Seq(Entry) /\ t \in Seq(Entry) /\ Alike(s, t)
<1>1. s \in Seq(Entry) /\ Joined(s, a, b) /\ t \in Seq(Entry) /\ Joined(t, c, d)
  BY JoinedSeq
<1>2. PICK m, n \in Nat : m = Len(a) /\ m = Len(c) /\ n = Len(b) /\ n = Len(d)
  BY LenProperties DEF Alike
<1>3. Len(s) = m + n /\ Len(t) = m + n
  BY <1>1, <1>2 DEF Joined
<1>4. ASSUME NEW x \in 1 .. m + n
      PROVE  s[x].kind = t[x].kind /\ NaturalCmp(s[x].name, t[x].name) = 0
  <2>1. CASE x <= m
    <3>1. x \in 1 .. m
      BY <2>1
    <3>2. s[x] = a[x] /\ t[x] = c[x]
      BY <1>1, <1>2, <3>1 DEF Joined
    <3> QED
      BY <1>2, <3>1, <3>2 DEF Alike
  <2>2. CASE x > m
    <3>1. PICK y \in 1 .. n : m + y = x
      <4>1. x - m \in 1 .. n /\ m + (x - m) = x
        BY <2>2
      <4> QED
        BY <4>1
    <3>2. s[x] = b[y] /\ t[x] = d[y]
      BY <1>1, <1>2, <3>1 DEF Joined
    <3> QED
      BY <1>2, <3>1, <3>2 DEF Alike
  <2>3. x <= m \/ x > m
    OBVIOUS
  <2> QED
    BY <2>1, <2>2, <2>3, Zenon
<1> QED
  BY <1>1, <1>3, <1>4 DEF Alike

(* However a directory is read, its listing is the same but for entries    *)
(* that compare equal.                                                     *)
LEMMA ListingIsSame ==
    ASSUME NEW dir \in Seq(Entry)
    PROVE  SameListing(dir)
<1>1. PICK a, b : a = SortNames(dir, "folder") /\ b = SortNames(dir, "pdf")
  OBVIOUS
<1>2. PICK c, d : c = SortNames(Reverse(dir), "folder") /\ d = SortNames(Reverse(dir), "pdf")
  OBVIOUS
<1>3. /\ a \in Seq(Entry) /\ b \in Seq(Entry) /\ c \in Seq(Entry) /\ d \in Seq(Entry)
      /\ Alike(a, c) /\ Alike(b, d)
  BY <1>1, <1>2, SortedAlike
<1>4. PICK s, t : s = ListDir(dir) /\ t = ListDir(Reverse(dir))
  OBVIOUS
<1>5. s = a \o b /\ t = c \o d
  BY <1>1, <1>2, <1>4 DEF ListDir
<1>6. s \in Seq(Entry) /\ Alike(s, t)
  BY <1>3, <1>5, JoinedAlike
<1>7. DOMAIN s = 1 .. Len(s)
  BY <1>6, LenProperties
<1>8. Len(s) = Len(t)
  BY <1>6 DEF Alike
<1>9. \A x \in DOMAIN s : s[x].kind = t[x].kind /\ NaturalCmp(s[x].name, t[x].name) = 0
  BY <1>6, <1>7 DEF Alike
<1> QED
  BY <1>4, <1>8, <1>9, Zenon DEF SameListing

(* Listings: the order of names is a total preorder of all of them, and a  *)
(* directory is listed alike, but for entries that compare equal, however  *)
(* it was read (library.rs, natural_cmp and list_dir).                     *)
THEOREM ListingIsOrdered == PureSpec => []ListingOrdered
<1>1. ASSUME given \in Inputs PROVE ListingOrdered
  <2> SUFFICES ASSUME given.kind = "order"
               PROVE  TotalAt(given.a, given.b, Names) /\ SameListing(given.dir)
    BY DEF ListingOrdered
  <2>1. given.a \in Name /\ given.b \in Name /\ given.dir \in Seq(Entry) /\ Names \subseteq Name
    BY <1>1, InputsAssumption DEF OrderInput, TextInput, PageInput, NoInput
  <2>2. TotalAt(given.a, given.b, Names)
    BY <2>1, NaturalCmpIsOrder DEF TotalAt
  <2>3. SameListing(given.dir)
    BY <2>1, ListingIsSame
  <2> QED
    BY <2>2, <2>3
<1>2. given \in Inputs /\ [FALSE]_given => (given \in Inputs)'
  OBVIOUS
<1> QED
  BY <1>1, <1>2, PTL DEF PureSpec

------------------------------------------------------------------------------
(* The text of a progress file (progress.rs): what esc writes unesc reads  *)
(* back, a record ends where its last brace stands, and so a text cut      *)
(* anywhere is read as the entries it still has whole.                     *)

(* Texts of one character and of two. *)
LEMMA OneAndTwo ==
    ASSUME NEW S, NEW a \in S, NEW b \in S
    PROVE  <<a>> \in Seq(S) /\ <<a, b>> \in Seq(S)
OBVIOUS

(* What esc writes for a character is one character or two. *)
LEMMA EscapedIsText ==
    ASSUME NEW c \in Char
    PROVE  Escaped(c) \in Text
<1>1. <<c>> \in Text
  BY OneAndTwo, Zenon DEF Text
<1>2. "slash" \in Char /\ "quote" \in Char /\ "n" \in Char
  BY CharAssumption DEF ToldApart
<1>3. <<"slash", "quote">> \in Text /\ <<"slash", "slash">> \in Text /\ <<"slash", "n">> \in Text
  BY <1>2, OneAndTwo, Zenon DEF Text
<1> QED
  BY <1>1, <1>2, <1>3 DEF Escaped

(* esc writes a text character by character. *)
LEMMA EscGrows ==
    ASSUME NEW t \in Text
    PROVE  \E f \in [0 .. Len(t) -> Text] :
              /\ f[0] = <<>> /\ Esc(t) = f[Len(t)]
              /\ \A n \in 1 .. Len(t) : f[n] = f[n - 1] \o Escaped(t[n])
<1> DEFINE D == 0 .. Len(t)
           step == [n \in 1 .. Len(t) |-> [x \in Text |-> x \o Escaped(t[n])]]
           Body(n, f) == IF n = 0 THEN <<>> ELSE f[n - 1] \o Escaped(t[n])
           out == CHOOSE f : f = [n \in D |-> Body(n, f)]
<1>1. Len(t) \in Nat /\ \A n \in 1 .. Len(t) : t[n] \in Char
  BY LenProperties, ElementOfSeq DEF Text
<1>2. \A x, y \in Text : x \o y \in Text
  BY ConcatProperties DEF Text
<1>3. Stepwise(Text, <<>>, Len(t), step)
  <2>1. step \in [1 .. Len(t) -> [Text -> Text]]
    BY <1>1, <1>2, EscapedIsText
  <2>2. <<>> \in Text
    BY DEF Text
  <2> HIDE DEF step
  <2> QED
    BY <1>1, <2>1, <2>2 DEF Stepwise
<1>4. \E g : g = [n \in D |-> Body(n, g)]
  <2>1. PICK g : Steps(g, Text, <<>>, Len(t), step)
    <3> HIDE DEF step
    <3> QED
      BY <1>3, StepsExist
  <2>2. g \in [D -> Text] /\ g[0] = <<>> /\ \A n \in 1 .. Len(t) : g[n] = g[n - 1] \o Escaped(t[n])
    <3>1. g \in [D -> Text] /\ g[0] = <<>> /\ \A n \in 1 .. Len(t) : g[n] = step[n][g[n - 1]]
      BY <2>1 DEF Steps
    <3>2. \A n \in 1 .. Len(t) : n - 1 \in D
      BY <1>1
    <3> HIDE DEF D
    <3> QED
      BY <3>1, <3>2
  <2>3. \A n \in D : n # 0 => n \in 1 .. Len(t)
    BY <1>1
  <2> HIDE DEF D
  <2> QED
    BY <2>2, <2>3
<1>5. out = [n \in D |-> Body(n, out)]
  BY <1>4, Zenon
<1>6. Esc(t) = out[Len(t)]
  BY Zenon DEF Esc
<1> HIDE DEF out
<1>7. out[0] = <<>> /\ \A n \in 1 .. Len(t) : out[n] = out[n - 1] \o Escaped(t[n])
  <2>1. 0 \in D /\ \A n \in 1 .. Len(t) : n \in D /\ n # 0
    BY <1>1
  <2> HIDE DEF D
  <2> QED
    BY <1>5, <2>1
<1>8. Steps(out, Text, <<>>, Len(t), step)
  <2>1. \A n \in 1 .. Len(t) : out[n - 1] \in Text => out[n] = step[n][out[n - 1]]
    BY <1>7
  <2>2. DOMAIN out = D /\ out = [n \in D |-> out[n]]
    BY <1>5
  <2> HIDE DEF step
  <2> QED
    BY <1>3, <1>7, <2>1, <2>2, OnlySteps
<1> QED
  BY <1>6, <1>7, <1>8 DEF Steps

------------------------------------------------------------------------------
(* unesc reads a text from state to state. *)
Reading == [esc : BOOLEAN, out : Text]
Blank == [esc |-> FALSE, out |-> <<>>]
Reads(e, f) ==
    /\ f \in [0 .. Len(e) -> Reading] /\ f[0] = Blank
    /\ \A k \in 1 .. Len(e) : f[k] = Unescaped(f[k - 1], e[k])

(* A step of unesc reads on. *)
LEMMA UnescapedReads ==
    ASSUME NEW st \in Reading, NEW c \in Char
    PROVE  Unescaped(st, c) \in Reading
<1>1. PICK d \in Char : d = IF st.esc /\ c = "n" THEN "newline" ELSE c
  BY CharAssumption DEF ToldApart
<1>2. Append(st.out, d) \in Text
  BY AppendProperties DEF Text, Reading
<1>3. [esc |-> FALSE, out |-> Append(st.out, d)] \in Reading
  BY <1>2 DEF Reading
<1>4. [esc |-> TRUE, out |-> st.out] \in Reading
  BY DEF Reading
<1> QED
  BY <1>1, <1>3, <1>4 DEF Unescaped

(* unesc reads from state to state, and returns what it has in the end. *)
LEMMA UnescReads ==
    ASSUME NEW e \in Text
    PROVE  \E f : Reads(e, f) /\ Unesc(e) = f[Len(e)].out
<1> DEFINE D == 0 .. Len(e)
           step == [n \in 1 .. Len(e) |-> [x \in Reading |-> Unescaped(x, e[n])]]
           Body(n, f) == IF n = 0 THEN Blank ELSE Unescaped(f[n - 1], e[n])
           read == CHOOSE f : f = [n \in D |-> Body(n, f)]
<1>1. Len(e) \in Nat /\ \A n \in 1 .. Len(e) : e[n] \in Char
  BY LenProperties, ElementOfSeq DEF Text
<1>2. 0 \in D /\ \A n \in 1 .. Len(e) : n \in D /\ n # 0 /\ n - 1 \in D
  BY <1>1
<1>3. Stepwise(Reading, Blank, Len(e), step)
  <2>1. step \in [1 .. Len(e) -> [Reading -> Reading]]
    <3>1. \A n \in 1 .. Len(e), x \in Reading : Unescaped(x, e[n]) \in Reading
      BY <1>1, UnescapedReads
    <3> QED
      BY <3>1
  <2>2. Blank \in Reading
    BY DEF Blank, Reading, Text
  <2> HIDE DEF step
  <2> QED
    BY <1>1, <2>1, <2>2 DEF Stepwise
<1>4. \E g : g = [n \in D |-> Body(n, g)]
  <2>1. PICK g : Steps(g, Reading, Blank, Len(e), step)
    <3> HIDE DEF step
    <3> QED
      BY <1>3, StepsExist
  <2>2. g \in [D -> Reading] /\ g[0] = Blank /\ \A n \in 1 .. Len(e) : g[n] = step[n][g[n - 1]]
    BY <2>1 DEF Steps
  <2>3. \A n \in D : n # 0 => n \in 1 .. Len(e)
    BY <1>1
  <2> HIDE DEF D
  <2>4. \A n \in 1 .. Len(e) : g[n] = Unescaped(g[n - 1], e[n])
    BY <1>2, <2>2
  <2> HIDE DEF step
  <2> QED
    BY <2>2, <2>3, <2>4
<1>5. read = [n \in D |-> Body(n, read)]
  BY <1>4, Zenon
<1>6. Unesc(e) = read[Len(e)].out
  BY Zenon DEF Unesc, Blank
<1> HIDE DEF read
<1>7. read[0] = Blank /\ \A n \in 1 .. Len(e) : read[n] = Unescaped(read[n - 1], e[n])
  <2> HIDE DEF D
  <2> QED
    BY <1>2, <1>5
<1>8. Steps(read, Reading, Blank, Len(e), step)
  <2>1. \A n \in 1 .. Len(e) : read[n - 1] \in Reading => read[n] = step[n][read[n - 1]]
    BY <1>7
  <2>2. DOMAIN read = D /\ read = [n \in D |-> read[n]]
    BY <1>5
  <2> HIDE DEF step
  <2> QED
    BY <1>3, <1>7, <2>1, <2>2, OnlySteps
<1>9. Reads(e, read)
  BY <1>7, <1>8 DEF Reads, Steps
<1> QED
  BY <1>6, <1>9

(* A reading is told by what it reads. *)
LEMMA ReadsAlike ==
    ASSUME NEW e \in Text, NEW f, NEW g, Reads(e, f), Reads(e, g)
    PROVE  \A k \in 0 .. Len(e) : f[k] = g[k]
<1> DEFINE G == {k \in 0 .. Len(e) : f[k] = g[k]}
<1>1. Len(e) \in Nat
  BY LenProperties DEF Text
<1>2. 0 \in G
  BY <1>1 DEF Reads
<1>3. ASSUME NEW k \in 1 .. Len(e), k - 1 \in G PROVE k \in G
  <2>1. k \in 0 .. Len(e) /\ f[k - 1] = g[k - 1]
    BY <1>1, <1>3
  <2>2. f[k] = Unescaped(f[k - 1], e[k]) /\ g[k] = Unescaped(g[k - 1], e[k])
    BY DEF Reads
  <2> QED
    BY <2>1, <2>2
<1> HIDE DEF G
<1>4. \A k \in 0 .. Len(e) : k \in G
  BY <1>1, <1>2, <1>3, CountingUpTo
<1> QED
  BY <1>4 DEF G

(* e reads as st, and has no quote that is not escaped. *)
Guarded(e, f) == \A k \in 1 .. Len(e) : e[k] = "quote" => f[k - 1].esc
ReadsAs(e, st) == \E f : Reads(e, f) /\ Guarded(e, f) /\ f[Len(e)] = st

(* Reading one character more. *)
LEMMA ReadsOneMore ==
    ASSUME NEW e \in Text, NEW st, ReadsAs(e, st), NEW c \in Char, c = "quote" => st.esc,
           NEW d, d = Append(e, c)
    PROVE  d \in Text /\ ReadsAs(d, Unescaped(st, c))
<1>1. PICK f : Reads(e, f) /\ Guarded(e, f) /\ f[Len(e)] = st
  BY DEF ReadsAs
<1>2. PICK n \in Nat : n = Len(e)
  BY LenProperties DEF Text
<1>3. /\ d \in Text /\ Len(d) = n + 1 /\ d[n + 1] = c
      /\ \A k \in 1 .. n : d[k] = e[k]
  BY <1>2, AppendProperties DEF Text
<1>4. /\ f \in [0 .. n -> Reading] /\ f[0] = Blank /\ f[n] = st
      /\ \A k \in 1 .. n : f[k] = Unescaped(f[k - 1], e[k])
      /\ \A k \in 1 .. n : e[k] = "quote" => f[k - 1].esc
  BY <1>1, <1>2 DEF Reads, Guarded
<1> DEFINE g == [k \in 0 .. n + 1 |-> IF k = n + 1 THEN Unescaped(st, c) ELSE f[k]]
<1>5. st \in Reading /\ Unescaped(st, c) \in Reading
  BY <1>4, UnescapedReads
<1>6. \A k \in 0 .. n : k \in 0 .. n + 1 /\ g[k] = f[k]
  OBVIOUS
<1>7. g[n + 1] = Unescaped(st, c) /\ g \in [0 .. n + 1 -> Reading]
  <2>1. \A k \in 0 .. n + 1 : k # n + 1 => k \in 0 .. n
    OBVIOUS
  <2>2. n + 1 \in 0 .. n + 1
    OBVIOUS
  <2> QED
    BY <1>4, <1>5, <2>1, <2>2
<1> HIDE DEF g
<1>8. ASSUME NEW k \in 1 .. n + 1
      PROVE  g[k] = Unescaped(g[k - 1], d[k]) /\ (d[k] = "quote" => g[k - 1].esc)
  <2>1. CASE k = n + 1
    <3>1. k - 1 = n /\ n \in 0 .. n
      BY <2>1
    <3> QED
      BY <1>3, <1>4, <1>6, <1>7, <2>1, <3>1
  <2>2. CASE k # n + 1
    <3>1. k \in 1 .. n /\ k \in 0 .. n /\ k - 1 \in 0 .. n
      BY <2>2
    <3> QED
      BY <1>3, <1>4, <1>6, <3>1
  <2> QED
    BY <2>1, <2>2
<1>9. g[0] = Blank
  BY <1>4, <1>6
<1>10. Reads(d, g) /\ Guarded(d, g) /\ g[Len(d)] = Unescaped(st, c)
  BY <1>3, <1>7, <1>8, <1>9 DEF Reads, Guarded
<1> QED
  BY <1>3, <1>10 DEF ReadsAs

(* What esc writes for a character unesc reads as that character. *)
LEMMA EscapeOneMore ==
    ASSUME NEW e \in Text, NEW t \in Text, ReadsAs(e, [esc |-> FALSE, out |-> t]),
           NEW c \in Char, NEW d, d = e \o Escaped(c)
    PROVE  d \in Text /\ ReadsAs(d, [esc |-> FALSE, out |-> Append(t, c)])
<1> DEFINE slashed == Append(e, "slash")
<1>1. "slash" \in Char /\ "n" \in Char /\ "quote" \in Char
  BY CharAssumption DEF ToldApart
<1>st. PICK st0, st1 : st0 = [esc |-> FALSE, out |-> t] /\ st1 = [esc |-> TRUE, out |-> t]
  OBVIOUS
<1>2. slashed \in Text /\ ReadsAs(slashed, st1) /\ st1.esc
  <2>1. Unescaped(st0, "slash") = st1
    BY <1>st DEF Unescaped
  <2>2. ReadsAs(e, st0) /\ "slash" # "quote" /\ st1.esc
    BY <1>st
  <2>3. slashed \in Text /\ ReadsAs(slashed, Unescaped(st0, "slash"))
    BY <1>1, <2>2, ReadsOneMore
  <2> QED
    BY <2>1, <2>2, <2>3
<1>3. ASSUME NEW a \in Char PROVE e \o <<"slash", a>> = Append(slashed, a)
  <2>1. <<"slash", a>> = <<"slash">> \o <<a>>
    OBVIOUS
  <2>2. slashed = e \o <<"slash">> /\ Append(slashed, a) = slashed \o <<a>>
    BY <1>1, <1>2, AppendIsConcat DEF Text
  <2>3. <<"slash">> \in Seq(Char) /\ <<a>> \in Seq(Char)
    BY <1>1, OneAndTwo
  <2> QED
    BY <2>1, <2>2, <2>3, ConcatAssociative DEF Text
<1> HIDE DEF slashed
<1>4. CASE c = "quote" \/ c = "slash"
  <2>1. d = Append(slashed, c)
    BY <1>1, <1>3, <1>4 DEF Escaped
  <2>2. Unescaped(st1, c) = [esc |-> FALSE, out |-> Append(t, c)]
    BY <1>4, <1>st DEF Unescaped
  <2> QED
    BY <1>2, <2>1, <2>2, ReadsOneMore
<1>5. CASE c = "newline"
  <2>1. d = Append(slashed, "n")
    BY <1>1, <1>3, <1>5 DEF Escaped
  <2>2. Unescaped(st1, "n") = [esc |-> FALSE, out |-> Append(t, c)]
    BY <1>5, <1>st DEF Unescaped
  <2> QED
    BY <1>1, <1>2, <2>1, <2>2, ReadsOneMore
<1>6. CASE c \notin {"quote", "slash", "newline"}
  <2>1. d = e \o <<c>>
    BY <1>6 DEF Escaped
  <2>2. d = Append(e, c)
    BY <2>1, AppendIsConcat DEF Text
  <2>3. Unescaped(st0, c) = [esc |-> FALSE, out |-> Append(t, c)]
    BY <1>6, <1>st DEF Unescaped
  <2>4. ReadsAs(e, st0)
    BY <1>st
  <2> QED
    BY <1>6, <2>2, <2>3, <2>4, ReadsOneMore
<1> QED
  BY <1>4, <1>5, <1>6

(* What esc writes reads as the text, and no quote in it stands bare. *)
LEMMA EscReads ==
    ASSUME NEW t \in Text
    PROVE  Esc(t) \in Text /\ ReadsAs(Esc(t), [esc |-> FALSE, out |-> t])
<1>f. PICK f \in [0 .. Len(t) -> Text] :
              /\ f[0] = <<>> /\ Esc(t) = f[Len(t)]
              /\ \A n \in 1 .. Len(t) : f[n] = f[n - 1] \o Escaped(t[n])
  BY EscGrows
<1> DEFINE G == {n \in 0 .. Len(t) : ReadsAs(f[n], [esc |-> FALSE, out |-> SubSeq(t, 1, n)])}
<1>1. Len(t) \in Nat /\ \A n \in 1 .. Len(t) : t[n] \in Char
  BY LenProperties, ElementOfSeq DEF Text
<1>2. 0 \in G
  <2>1. SubSeq(t, 1, 0) = <<>>
    BY SubSeqEmpty
  <2> DEFINE g == [k \in 0 .. 0 |-> Blank]
  <2>2. g[0] = Blank /\ Blank \in Reading
    BY EmptySeq DEF Blank, Reading, Text
  <2>3. g \in [0 .. 0 -> Reading]
    BY <2>2
  <2> HIDE DEF g
  <2>4. Len(<<>>) = 0
    OBVIOUS
  <2>5. Reads(<<>>, g) /\ Guarded(<<>>, g) /\ g[Len(<<>>)] = Blank
    BY <2>2, <2>3, <2>4 DEF Reads, Guarded
  <2>6. ReadsAs(<<>>, [esc |-> FALSE, out |-> <<>>])
    BY <2>5 DEF ReadsAs, Blank
  <2>7. ReadsAs(f[0], [esc |-> FALSE, out |-> SubSeq(t, 1, 0)])
    BY <1>f, <2>1, <2>6
  <2> QED
    BY <1>1, <2>7
<1>3. ASSUME NEW n \in 1 .. Len(t), n - 1 \in G PROVE n \in G
  <2>1. PICK u : u = SubSeq(t, 1, n - 1)
    OBVIOUS
  <2>2. u \in Text
    <3>1. n - 1 \in 0 .. Len(t)
      BY <1>1
    <3> QED
      BY <2>1, <3>1, FrontOfSeq DEF Text
  <2>3. SubSeq(t, 1, n) = Append(u, t[n])
    <3>1. 1 \in 1 .. Len(t) /\ n \in 1 .. Len(t)
      BY <1>1
    <3>2. SubSeq(t, 1, n) = u \o <<t[n]>>
      BY <2>1, <3>1, SubSeqRecursiveSecond DEF Text
    <3> QED
      BY <1>1, <2>2, <3>2, AppendIsConcat DEF Text
  <2>4. f[n] = f[n - 1] \o Escaped(t[n]) /\ f[n - 1] \in Text
    <3>1. n - 1 \in 0 .. Len(t)
      BY <1>1
    <3> QED
      BY <1>f, <3>1
  <2>5. ReadsAs(f[n - 1], [esc |-> FALSE, out |-> u])
    BY <1>3, <2>1
  <2>6. ReadsAs(f[n], [esc |-> FALSE, out |-> Append(u, t[n])])
    BY <1>1, <2>2, <2>4, <2>5, EscapeOneMore
  <2>7. ReadsAs(f[n], [esc |-> FALSE, out |-> SubSeq(t, 1, n)])
    BY <2>3, <2>6
  <2> QED
    BY <1>1, <2>7
<1> HIDE DEF G
<1>4. \A n \in 0 .. Len(t) : n \in G
  BY <1>1, <1>2, <1>3, CountingUpTo
<1>5. Len(t) \in G /\ Len(t) \in 0 .. Len(t)
  BY <1>1, <1>4
<1>6. SubSeq(t, 1, Len(t)) = t
  BY SubSeqFull DEF Text
<1> QED
  BY <1>f, <1>5, <1>6 DEF G

(* unesc undoes esc. *)
LEMMA UnescUndoesEsc ==
    ASSUME NEW t \in Text
    PROVE  Unesc(Esc(t)) = t
<1> PICK e \in Text : e = Esc(t)
  BY EscReads
<1>1. PICK f : Reads(e, f) /\ Unesc(e) = f[Len(e)].out
  BY UnescReads
<1>2. PICK g : Reads(e, g) /\ g[Len(e)] = [esc |-> FALSE, out |-> t]
  BY EscReads DEF ReadsAs
<1>3. Len(e) \in 0 .. Len(e)
  BY LenProperties DEF Text
<1>4. f[Len(e)] = g[Len(e)]
  BY <1>1, <1>2, <1>3, ReadsAlike
<1> QED
  BY <1>1, <1>2, <1>4

(* The least and the greatest of a set, told by what they are. *)
LEMMA LeastIs ==
    ASSUME NEW I \in SUBSET Int, NEW x \in I, \A y \in I : x <= y
    PROVE  Min(I) = x
<1>1. \A z \in I : (\A y \in I : z <= y) => z = x
  OBVIOUS
<1> QED
  BY <1>1 DEF Min

(* The same of the greatest. *)
LEMMA GreatestIs ==
    ASSUME NEW I \in SUBSET Int, NEW x \in I, \A y \in I : x >= y
    PROVE  Max(I) = x
<1>1. \A z \in I : (\A y \in I : z >= y) => z = x
  OBVIOUS
<1> QED
  BY <1>1 DEF Max

(* Seek finds a place nothing found lies before, or the end. *)
LEMMA SeekFinds ==
    ASSUME NEW s \in Text, NEW places \in SUBSET (1 .. Len(s)), NEW x \in places,
           \A y \in places : x <= y
    PROVE  Seek(s, places) = x
<1>1. Len(s) \in Nat
  BY LenProperties DEF Text
<1>2. places \cup {Len(s) + 1} \in SUBSET Int /\ x \in places \cup {Len(s) + 1}
  <2>1. \A y \in places : y \in 1 .. Len(s)
    OBVIOUS
  <2>2. \A y \in places : y \in Int
    BY <1>1, <2>1
  <2>3. Len(s) + 1 \in Int
    BY <1>1
  <2> QED
    BY <2>2, <2>3, Zenon
<1>3. \A y \in places \cup {Len(s) + 1} : x <= y
  BY <1>1
<1> QED
  BY <1>2, <1>3, LeastIs DEF Seek

(* It finds the end if there is no place. *)
LEMMA SeekEnds ==
    ASSUME NEW s \in Text
    PROVE  Seek(s, {}) = Len(s) + 1
<1>1. Len(s) + 1 \in Int
  BY LenProperties DEF Text
<1>2. {} \cup {Len(s) + 1} \in SUBSET Int /\ Len(s) + 1 \in {} \cup {Len(s) + 1}
  BY <1>1
<1>3. \A y \in {} \cup {Len(s) + 1} : Len(s) + 1 <= y
  BY <1>1
<1> QED
  BY <1>2, <1>3, LeastIs DEF Seek

(* What Seek finds is a place or the end. *)
LEMMA SeekWithin ==
    ASSUME NEW s \in Text, NEW places \in SUBSET (1 .. Len(s))
    PROVE  /\ Seek(s, places) \in 1 .. Len(s) + 1
           /\ Seek(s, places) <= Len(s) => Seek(s, places) \in places
<1>1. Len(s) \in Nat
  BY LenProperties DEF Text
<1>2. places \cup {Len(s) + 1} \in SUBSET Nat
  <2>1. \A y \in places : y \in 1 .. Len(s)
    OBVIOUS
  <2>2. \A y \in places : y \in Nat
    BY <1>1, <2>1
  <2>3. Len(s) + 1 \in Nat
    BY <1>1
  <2> QED
    BY <2>2, <2>3, Zenon
<1>3. Seek(s, places) \in places \cup {Len(s) + 1}
  BY <1>2, LeastPosition DEF Seek
<1>4. \A y \in places : y \in 1 .. Len(s)
  OBVIOUS
<1>5. ASSUME NEW k, k \in places \/ k = Len(s) + 1
      PROVE  k \in 1 .. Len(s) + 1 /\ (k <= Len(s) => k \in places)
  <2>1. CASE k \in places
    BY <1>1, <1>4, <2>1
  <2>2. CASE k = Len(s) + 1
    BY <1>1, <2>2
  <2> QED
    BY <1>5, <2>1, <2>2
<1>6. Seek(s, places) \in places \/ Seek(s, places) = Len(s) + 1
  BY <1>3
<1> QED
  BY <1>5, <1>6

------------------------------------------------------------------------------
(* s goes on with e at i, as far as it reaches. *)
Holds(s, i, e) == \A k \in 1 .. Len(e) : i + k - 1 <= Len(s) => s[i + k - 1] = e[k]

(* What goes on with two texts joined goes on with each. *)
LEMMA HoldsJoined ==
    ASSUME NEW s, NEW i \in Int, NEW a \in Text, NEW b \in Text, Len(s) \in Nat
    PROVE  Holds(s, i, a \o b) <=> Holds(s, i, a) /\ Holds(s, i + Len(a), b)
<1> PICK t : t = a \o b
  OBVIOUS
<1>1. t \in Text /\ Joined(t, a, b) /\ Len(a) \in Nat /\ Len(b) \in Nat
  BY JoinedSeq, LenProperties DEF Text
<1>2. /\ Len(t) = Len(a) + Len(b)
      /\ \A k \in 1 .. Len(a) : t[k] = a[k]
      /\ \A k \in 1 .. Len(b) : t[Len(a) + k] = b[k]
  BY <1>1 DEF Joined
<1>3. ASSUME Holds(s, i, t) PROVE Holds(s, i, a) /\ Holds(s, i + Len(a), b)
  <2>1. ASSUME NEW k \in 1 .. Len(a), i + k - 1 <= Len(s) PROVE s[i + k - 1] = a[k]
    <3>1. k \in 1 .. Len(t)
      BY <1>1, <1>2
    <3> QED
      BY <1>2, <1>3, <2>1, <3>1 DEF Holds
  <2>2. ASSUME NEW k \in 1 .. Len(b), (i + Len(a)) + k - 1 <= Len(s)
        PROVE  s[(i + Len(a)) + k - 1] = b[k]
    <3>1. Len(a) + k \in 1 .. Len(t) /\ i + (Len(a) + k) - 1 = (i + Len(a)) + k - 1
      BY <1>1, <1>2
    <3>2. s[i + (Len(a) + k) - 1] = t[Len(a) + k]
      BY <1>3, <2>2, <3>1 DEF Holds
    <3> QED
      BY <1>2, <3>1, <3>2
  <2> QED
    BY <2>1, <2>2 DEF Holds
<1>4. ASSUME Holds(s, i, a), Holds(s, i + Len(a), b) PROVE Holds(s, i, t)
  <2>1. ASSUME NEW k \in 1 .. Len(t), i + k - 1 <= Len(s) PROVE s[i + k - 1] = t[k]
    <3>1. CASE k <= Len(a)
      BY <1>1, <1>2, <1>4, <2>1, <3>1 DEF Holds
    <3>2. CASE k > Len(a)
      <4>1. PICK m \in 1 .. Len(b) : m = k - Len(a)
        BY <1>1, <1>2, <3>2
      <4>2. k = Len(a) + m /\ (i + Len(a)) + m - 1 = i + k - 1
        BY <1>1, <4>1
      <4>3. s[(i + Len(a)) + m - 1] = b[m]
        BY <1>4, <2>1, <4>2 DEF Holds
      <4> QED
        BY <1>2, <4>2, <4>3
    <3> QED
      BY <1>1, <3>1, <3>2
  <2> QED
    BY <2>1 DEF Holds
<1> QED
  BY <1>3, <1>4

(* The quote that closes an escaped string is the one after it: along the  *)
(* string, an odd number of backslashes comes before what they escape.     *)
LastOther(s, i, k, x) ==
    /\ x = i - 1 \/ (x \in i .. k - 1 /\ s[x] # "slash")
    /\ \A j \in i .. k - 1 : s[j] # "slash" => j <= x

(* A character of a guarded text is escaped if an odd number of backslashes comes before it. *)
LEMMA OddSlashesEscape ==
    ASSUME NEW s \in Text, NEW i \in 1 .. Len(s) + 1, NEW e \in Text, NEW f, Reads(e, f),
           Holds(s, i, e), NEW k \in 0 .. Len(e), i + k <= Len(s) + 1
    PROVE  \E x \in i - 1 .. i + k - 1 :
               /\ LastOther(s, i, i + k, x)
               /\ (i + k - 1 - x) % 2 = IF f[k].esc THEN 1 ELSE 0
<1> DEFINE Odd(n, x) == (i + n - 1 - x) % 2 = IF f[n].esc THEN 1 ELSE 0
           G == {n \in 0 .. k : \E x \in i - 1 .. i + n - 1 : LastOther(s, i, i + n, x) /\ Odd(n, x)}
<1>1. Len(s) \in Nat /\ Len(e) \in Nat /\ k \in Nat /\ i \in Nat
  BY LenProperties DEF Text
<1>2. 0 \in G
  <2>1. i - 1 \in i - 1 .. i + 0 - 1 /\ LastOther(s, i, i + 0, i - 1)
    BY <1>1 DEF LastOther
  <2>2. f[0].esc = FALSE
    BY DEF Reads, Blank
  <2>3. (i + 0 - 1 - (i - 1)) = 0 /\ 0 % 2 = 0
    BY <1>1
  <2> QED
    BY <1>1, <2>1, <2>2, <2>3
<1>3. ASSUME NEW n \in 1 .. k, n - 1 \in G PROVE n \in G
  <2>1. PICK x \in i - 1 .. i + (n - 1) - 1 : LastOther(s, i, i + (n - 1), x) /\ Odd(n - 1, x)
    BY <1>3
  <2>2. s[i + n - 1] = e[n] /\ n \in 1 .. Len(e)
    BY <1>1 DEF Holds
  <2>3. /\ f[n] = Unescaped(f[n - 1], e[n])
        /\ f[n - 1].esc \in BOOLEAN
    <3>1. n - 1 \in 0 .. Len(e)
      BY <1>1
    <3> QED
      BY <2>2, <3>1 DEF Reads, Reading
  <2>4. CASE e[n] = "slash"
    <3>1. f[n].esc <=> ~f[n - 1].esc
      <4>1. CASE f[n - 1].esc
        <5>1. f[n] = [esc |-> FALSE, out |-> Append(f[n - 1].out, "slash")]
          BY <2>3, <2>4, <4>1 DEF Unescaped
        <5> QED
          BY <4>1, <5>1
      <4>2. CASE ~f[n - 1].esc
        BY <2>3, <2>4, <4>2 DEF Unescaped
      <4> QED
        BY <4>1, <4>2
    <3>2. LastOther(s, i, i + n, x) /\ x \in i - 1 .. i + n - 1
      <4>1. \A j \in i .. i + n - 1 : s[j] # "slash" => j \in i .. i + (n - 1) - 1
        BY <1>1, <2>2, <2>4
      <4> QED
        BY <1>1, <2>1, <4>1 DEF LastOther
    <3>3. (i + n - 1 - x) % 2 = IF f[n].esc THEN 1 ELSE 0
      <4>1. PICK m \in Nat : m = i + (n - 1) - 1 - x
        BY <1>1, <2>1
      <4>2. i + n - 1 - x = m + 1
        BY <1>1, <2>1, <4>1
      <4>3. m % 2 = (IF f[n - 1].esc THEN 1 ELSE 0)
        BY <2>1, <4>1
      <4>4. (m % 2 = 0 => (m + 1) % 2 = 1) /\ (m % 2 = 1 => (m + 1) % 2 = 0)
        BY SMT
      <4> QED
        BY <2>3, <3>1, <4>2, <4>3, <4>4
    <3> QED
      BY <1>1, <3>2, <3>3
  <2>5. CASE e[n] # "slash"
    <3>1. f[n].esc = FALSE
      BY <2>3, <2>5 DEF Unescaped
    <3>2. LastOther(s, i, i + n, i + n - 1)
      BY <1>1, <2>2, <2>5 DEF LastOther
    <3>3. i + n - 1 - (i + n - 1) = 0 /\ 0 % 2 = 0
      BY <1>1
    <3>4. i + n - 1 \in i - 1 .. i + n - 1
      BY <1>1
    <3> QED
      BY <1>1, <3>1, <3>2, <3>3, <3>4
  <2> QED
    BY <2>4, <2>5
<1>4. k \in G
  <2> HIDE DEF G
  <2>1. \A n \in 0 .. k : n \in G
    BY <1>1, <1>2, <1>3, CountingUpTo
  <2> QED
    BY <1>1, <2>1
<1> QED
  BY <1>4

(* An escaped string ends at the quote after it, or where the text does. *)
LEMMA ClosingQuote ==
    ASSUME NEW s \in Text, NEW i \in 1 .. Len(s) + 1, NEW e \in Text, NEW st,
           ReadsAs(e, st), ~st.esc, Holds(s, i, e),
           i + Len(e) <= Len(s) => s[i + Len(e)] = "quote"
    PROVE  StringEnd(s, i) = IF i + Len(e) <= Len(s) THEN i + Len(e) ELSE Len(s) + 1
<1> DEFINE Others(k) == {j \in i .. k - 1 : s[j] # "slash"} \cup {i - 1}
           slashes(k) == k - 1 - Max(Others(k))
           places == {k \in i .. Len(s) : s[k] = "quote" /\ slashes(k) % 2 = 0}
<1>1. Len(s) \in Nat /\ Len(e) \in Nat /\ i \in Nat
  BY LenProperties DEF Text
<1>2. PICK f : Reads(e, f) /\ Guarded(e, f) /\ f[Len(e)] = st
  BY DEF ReadsAs
<1>3. StringEnd(s, i) = Seek(s, places)
  BY DEF StringEnd
<1>4. ASSUME NEW k \in 0 .. Len(e), i + k <= Len(s) + 1
      PROVE  slashes(i + k) % 2 = IF f[k].esc THEN 1 ELSE 0
  <2>1. PICK x \in i - 1 .. i + k - 1 :
               /\ LastOther(s, i, i + k, x)
               /\ (i + k - 1 - x) % 2 = IF f[k].esc THEN 1 ELSE 0
    BY <1>2, <1>4, OddSlashesEscape
  <2>2. Others(i + k) \in SUBSET Int /\ x \in Others(i + k) /\ \A y \in Others(i + k) : x >= y
    BY <1>1, <2>1 DEF LastOther
  <2>3. Max(Others(i + k)) = x
    BY <2>2, GreatestIs
  <2> QED
    BY <2>1, <2>3
<1> HIDE DEF slashes
<1>5. ASSUME NEW k \in 1 .. Len(e) PROVE i + k - 1 \notin places
  <2> SUFFICES ASSUME i + k - 1 <= Len(s), s[i + k - 1] = "quote"
               PROVE  slashes(i + k - 1) % 2 = 1
    OBVIOUS
  <2>1. e[k] = "quote"
    BY DEF Holds
  <2>2. f[k - 1].esc
    BY <1>2, <2>1 DEF Guarded
  <2>3. k - 1 \in 0 .. Len(e) /\ i + (k - 1) <= Len(s) + 1 /\ i + (k - 1) = i + k - 1
    BY <1>1
  <2> QED
    BY <1>4, <2>2, <2>3
<1>6. \A y \in places : y >= i + Len(e)
  <2> SUFFICES ASSUME NEW y \in places, y < i + Len(e) PROVE FALSE
    BY <1>1
  <2>1. PICK k \in 1 .. Len(e) : y = i + k - 1
    <3>1. y - i + 1 \in 1 .. Len(e) /\ y = i + (y - i + 1) - 1
      BY <1>1
    <3> QED
      BY <3>1
  <2> QED
    BY <1>5, <2>1
<1>7. places \in SUBSET (1 .. Len(s))
  BY <1>1
<1>8. CASE i + Len(e) <= Len(s)
  <2>1. slashes(i + Len(e)) % 2 = 0
    BY <1>1, <1>2, <1>4, <1>8
  <2>2. i + Len(e) \in places
    BY <1>1, <1>8, <2>1
  <2> HIDE DEF places
  <2> QED
    BY <1>3, <1>6, <1>7, <1>8, <2>2, SeekFinds
<1>9. CASE i + Len(e) > Len(s)
  <2>1. places = {}
    BY <1>1, <1>6, <1>9
  <2>2. StringEnd(s, i) = Len(s) + 1
    BY <1>3, <2>1, SeekEnds
  <2> QED
    BY <1>1, <1>9, <2>2
<1> QED
  BY <1>1, <1>8, <1>9

(* The text of a record, of an escaped name e and a number d. *)
Lies(r, e, d) ==
    /\ Len(r) = Len(e) + 14
    /\ r[1] = "open" /\ r[2] = "quote" /\ r[3] = "page" /\ r[4] = "quote" /\ r[5] = "colon"
    /\ r[6] = d /\ r[7] = "comma"
    /\ r[8] = "quote" /\ r[9] = "name" /\ r[10] = "quote" /\ r[11] = "colon" /\ r[12] = "quote"
    /\ \A k \in 1 .. Len(e) : r[12 + k] = e[k]
    /\ r[Len(e) + 13] = "quote" /\ r[Len(e) + 14] = "close"

(* A text in quotes. *)
LEMMA QuotedText ==
    ASSUME NEW t \in Text, NEW u, u = Quoted(t)
    PROVE  /\ u \in Text /\ Len(u) = Len(t) + 2
           /\ u[1] = "quote" /\ u[Len(t) + 2] = "quote"
           /\ \A k \in 1 .. Len(t) : u[k + 1] = t[k]
<1> PICK a, b : a = <<"quote">> /\ b = a \o t
  OBVIOUS
<1>1. a \in Text /\ Len(a) = 1 /\ a[1] = "quote" /\ Len(t) \in Nat
  BY CharAssumption, OneAndTwo, LenProperties DEF ToldApart, Text
<1>2. b \in Text /\ Joined(b, a, t)
  BY <1>1, JoinedSeq DEF Text
<1>3. u = b \o a
  BY DEF Quoted
<1>4. u \in Text /\ Joined(u, b, a)
  BY <1>1, <1>2, <1>3, JoinedSeq DEF Text
<1>5. Len(b) = 1 + Len(t) /\ b[1] = "quote" /\ \A k \in 1 .. Len(t) : b[1 + k] = t[k]
  BY <1>1, <1>2 DEF Joined
<1>6. Len(u) = Len(t) + 2 /\ u[1] = "quote" /\ u[Len(t) + 2] = "quote"
  BY <1>1, <1>4, <1>5 DEF Joined
<1>7. ASSUME NEW k \in 1 .. Len(t) PROVE u[k + 1] = t[k]
  <2>1. k + 1 \in 1 .. Len(b) /\ 1 + k = k + 1
    BY <1>1, <1>5
  <2> QED
    BY <1>4, <1>5, <2>1 DEF Joined
<1> QED
  BY <1>4, <1>6, <1>7

(* A label in quotes. *)
LEMMA QuotedLabel ==
    ASSUME NEW label \in Char, NEW u, u = Quoted(<<label>>)
    PROVE  u \in Text /\ Len(u) = 3 /\ u[1] = "quote" /\ u[2] = label /\ u[3] = "quote"
<1>1. PICK t : t = <<label>>
  OBVIOUS
<1>2. t \in Text /\ Len(t) = 1 /\ t[1] = label
  BY <1>1, OneAndTwo DEF Text
<1>3. u = Quoted(t)
  BY <1>1
<1>4. /\ u \in Text /\ Len(u) = 1 + 2 /\ u[1] = "quote" /\ u[1 + 2] = "quote"
      /\ \A k \in 1 .. 1 : u[k + 1] = t[k]
  <2>1. /\ u \in Text /\ Len(u) = Len(t) + 2 /\ u[1] = "quote" /\ u[Len(t) + 2] = "quote"
        /\ \A k \in 1 .. Len(t) : u[k + 1] = t[k]
    BY <1>2, <1>3, QuotedText
  <2> QED
    BY <1>2, <2>1
<1>5. 1 \in 1 .. 1 /\ 1 + 1 = 2 /\ 1 + 2 = 3
  OBVIOUS
<1> QED
  BY <1>2, <1>4, <1>5

(* The text of a record lies as told. *)
LEMMA RecordLies ==
    ASSUME NEW p \in Record, NEW r, r = RecordText(p)
    PROVE  r \in Text /\ Lies(r, Esc(p.name), p.page)
<1>ed. PICK e, d : e = Esc(p.name) /\ d = p.page
  OBVIOUS
<1>1. e \in Text /\ d \in Digits /\ d \in Char /\ Len(e) \in Nat
  BY <1>ed, EscReads, CharAssumption, LenProperties DEF Record, ToldApart, Text
<1>2. \A c \in {"open", "quote", "page", "colon", "comma", "name", "close"} : c \in Char
  BY CharAssumption DEF ToldApart
<1>a1. PICK a1 : a1 = <<"open">>
  OBVIOUS
<1>a2. PICK a2 : a2 = Quoted(<<"page">>)
  OBVIOUS
<1>a3. PICK a3 : a3 = <<"colon", d, "comma">>
  OBVIOUS
<1>a4. PICK a4 : a4 = Quoted(<<"name">>)
  OBVIOUS
<1>a5. PICK a5 : a5 = <<"colon">>
  OBVIOUS
<1>a6. PICK a6 : a6 = Quoted(e)
  OBVIOUS
<1>a7. PICK a7 : a7 = <<"close">>
  OBVIOUS
<1>3. a1 \in Text /\ Len(a1) = 1 /\ a1[1] = "open"
  BY <1>a1, <1>2, OneAndTwo DEF Text
<1>4. a2 \in Text /\ Len(a2) = 3 /\ a2[1] = "quote" /\ a2[2] = "page" /\ a2[3] = "quote"
  BY <1>a2, <1>2, QuotedLabel
<1>5. a3 \in Text /\ Len(a3) = 3 /\ a3[1] = "colon" /\ a3[2] = d /\ a3[3] = "comma"
  <2>1. <<"colon", d>> \in Seq(Char) /\ <<"colon", d, "comma">> = Append(<<"colon", d>>, "comma")
    BY <1>1, <1>2, OneAndTwo
  <2>2. a3 \in Seq(Char)
    BY <1>a3, <1>2, <2>1, AppendProperties
  <2> QED
    BY <1>a3, <2>2 DEF Text
<1>6. a4 \in Text /\ Len(a4) = 3 /\ a4[1] = "quote" /\ a4[2] = "name" /\ a4[3] = "quote"
  BY <1>a4, <1>2, QuotedLabel
<1>7. a5 \in Text /\ Len(a5) = 1 /\ a5[1] = "colon"
  BY <1>a5, <1>2, OneAndTwo DEF Text
<1>8. /\ a6 \in Text /\ Len(a6) = Len(e) + 2 /\ a6[1] = "quote" /\ a6[Len(e) + 2] = "quote"
      /\ \A k \in 1 .. Len(e) : a6[k + 1] = e[k]
  BY <1>a6, <1>1, QuotedText
<1>9. a7 \in Text /\ Len(a7) = 1 /\ a7[1] = "close"
  BY <1>a7, <1>2, OneAndTwo DEF Text
<1>b2. PICK b2 : b2 = a1 \o a2
  OBVIOUS
<1>b3. PICK b3 : b3 = b2 \o a3
  OBVIOUS
<1>b4. PICK b4 : b4 = b3 \o a4
  OBVIOUS
<1>b5. PICK b5 : b5 = b4 \o a5
  OBVIOUS
<1>b6. PICK b6 : b6 = b5 \o a6
  OBVIOUS
<1>10. r = b6 \o a7
  BY <1>ed, <1>a1, <1>a2, <1>a3, <1>a4, <1>a5, <1>a6, <1>a7, <1>b2, <1>b3, <1>b4, <1>b5, <1>b6
     DEF RecordText
<1>11. b2 \in Text /\ Joined(b2, a1, a2)
  BY <1>b2, <1>3, <1>4, JoinedSeq DEF Text
<1>12. b3 \in Text /\ Joined(b3, b2, a3)
  BY <1>b3, <1>5, <1>11, JoinedSeq DEF Text
<1>13. b4 \in Text /\ Joined(b4, b3, a4)
  BY <1>b4, <1>6, <1>12, JoinedSeq DEF Text
<1>14. b5 \in Text /\ Joined(b5, b4, a5)
  BY <1>b5, <1>7, <1>13, JoinedSeq DEF Text
<1>15. b6 \in Text /\ Joined(b6, b5, a6)
  BY <1>b6, <1>8, <1>14, JoinedSeq DEF Text
<1>16. r \in Text /\ Joined(r, b6, a7)
  BY <1>9, <1>10, <1>15, JoinedSeq DEF Text
<1>17. Len(b2) = 4 /\ b2[1] = "open" /\ b2[2] = "quote" /\ b2[3] = "page" /\ b2[4] = "quote"
  BY <1>3, <1>4, <1>11 DEF Joined
<1>18. /\ Len(b3) = 7 /\ b3[1] = "open" /\ b3[2] = "quote" /\ b3[3] = "page" /\ b3[4] = "quote"
       /\ b3[5] = "colon" /\ b3[6] = d /\ b3[7] = "comma"
  BY <1>5, <1>12, <1>17 DEF Joined
<1>19. /\ Len(b4) = 10 /\ \A k \in 1 .. 7 : b4[k] = b3[k]
       /\ b4[8] = "quote" /\ b4[9] = "name" /\ b4[10] = "quote"
  BY <1>6, <1>13, <1>18 DEF Joined
<1>20. Len(b5) = 11 /\ (\A k \in 1 .. 10 : b5[k] = b4[k]) /\ b5[11] = "colon"
  BY <1>7, <1>14, <1>19 DEF Joined
<1>21. /\ Len(b6) = Len(e) + 13 /\ \A k \in 1 .. 11 : b6[k] = b5[k]
       /\ b6[12] = "quote" /\ b6[Len(e) + 13] = "quote"
       /\ \A k \in 1 .. Len(e) : b6[12 + k] = e[k]
  <2>1. Len(b6) = Len(e) + 13 /\ \A k \in 1 .. 11 : b6[k] = b5[k]
    BY <1>1, <1>8, <1>15, <1>20 DEF Joined
  <2>2. \A k \in 1 .. Len(e) + 2 : b6[11 + k] = a6[k]
    BY <1>8, <1>15, <1>20 DEF Joined
  <2>3. b6[12] = "quote" /\ b6[Len(e) + 13] = "quote"
    <3>1. 1 \in 1 .. Len(e) + 2 /\ Len(e) + 2 \in 1 .. Len(e) + 2
          /\ 11 + 1 = 12 /\ 11 + (Len(e) + 2) = Len(e) + 13
      BY <1>1
    <3> QED
      BY <1>8, <2>2, <3>1
  <2>4. ASSUME NEW k \in 1 .. Len(e) PROVE b6[12 + k] = e[k]
    <3>1. k + 1 \in 1 .. Len(e) + 2 /\ 11 + (k + 1) = 12 + k
      BY <1>1
    <3> QED
      BY <1>8, <2>2, <3>1
  <2> QED
    BY <2>1, <2>3, <2>4
<1>22. /\ Len(r) = Len(e) + 14 /\ r[Len(e) + 14] = "close"
       /\ \A k \in 1 .. Len(e) + 13 : r[k] = b6[k]
  BY <1>1, <1>9, <1>16, <1>21 DEF Joined
<1>23. /\ r[1] = "open" /\ r[2] = "quote" /\ r[3] = "page" /\ r[4] = "quote" /\ r[5] = "colon"
       /\ r[6] = d /\ r[7] = "comma"
  BY <1>1, <1>18, <1>19, <1>20, <1>21, <1>22
<1>24. /\ r[8] = "quote" /\ r[9] = "name" /\ r[10] = "quote" /\ r[11] = "colon" /\ r[12] = "quote"
       /\ r[Len(e) + 13] = "quote"
  BY <1>1, <1>19, <1>20, <1>21, <1>22
<1>25. ASSUME NEW k \in 1 .. Len(e) PROVE r[12 + k] = e[k]
  <2>1. 12 + k \in 1 .. Len(e) + 13
    BY <1>1
  <2> QED
    BY <1>21, <1>22, <2>1
<1> QED
  BY <1>ed, <1>16, <1>22, <1>23, <1>24, <1>25 DEF Lies

------------------------------------------------------------------------------
(* A record's text is read back as the record. *)
LabelFoundAt(s, k, label) == SubSeq(s, k, k + 3) = Quoted(<<label>>) \o <<"colon">>

(* Of four characters it is told whether they are a label. *)
LEMMA LabelAt ==
    ASSUME NEW s \in Text, NEW k \in 1 .. Len(s) - 3, NEW label \in Char
    PROVE  LabelFoundAt(s, k, label)
           <=> s[k] = "quote" /\ s[k + 1] = label /\ s[k + 2] = "quote" /\ s[k + 3] = "colon"
<1>a. PICK a, b, t, u :
          a = <<"colon">> /\ b = Quoted(<<label>>) /\ t = b \o a /\ u = SubSeq(s, k, k + 3)
  OBVIOUS
<1>2. b \in Text /\ Len(b) = 3 /\ b[1] = "quote" /\ b[2] = label /\ b[3] = "quote"
  BY <1>a, QuotedLabel
<1>3. a \in Text /\ Len(a) = 1 /\ a[1] = "colon"
  BY <1>a, CharAssumption, OneAndTwo DEF ToldApart, Text
<1>4. t \in Text /\ Joined(t, b, a)
  BY <1>a, <1>2, <1>3, JoinedSeq DEF Text
<1>5. Len(t) = 4 /\ t[1] = "quote" /\ t[2] = label /\ t[3] = "quote" /\ t[4] = "colon"
  BY <1>2, <1>3, <1>4 DEF Joined
<1>6. Len(s) \in Nat /\ \A i \in k .. k + 3 : s[i] \in Char
  <2>1. Len(s) \in Nat
    BY LenProperties DEF Text
  <2>2. \A i \in k .. k + 3 : i \in 1 .. Len(s)
    BY <2>1
  <2> QED
    BY <2>1, <2>2, ElementOfSeq DEF Text
<1>7. k \in Int /\ k + 3 \in Int /\ k <= k + 3 /\ (k + 3) - k + 1 = 4
  OBVIOUS
<1>8. u \in Text /\ Len(u) = 4 /\ \A i \in 1 .. 4 : u[i] = s[k + i - 1]
  <2>1. /\ u \in Seq(Char) /\ Len(u) = (IF k <= k + 3 THEN (k + 3) - k + 1 ELSE 0)
        /\ \A i \in 1 .. (k + 3) - k + 1 : u[i] = s[k + i - 1]
    <3>1. k \in Int /\ k + 3 \in Int
      OBVIOUS
    <3> QED
      BY <1>a, <1>6, <3>1, SubSeqProperties
  <2> QED
    BY <1>7, <2>1 DEF Text
<1>9. u[1] = s[k] /\ u[2] = s[k + 1] /\ u[3] = s[k + 2] /\ u[4] = s[k + 3]
  <2>1. k + 1 - 1 = k /\ k + 2 - 1 = k + 1 /\ k + 3 - 1 = k + 2 /\ k + 4 - 1 = k + 3
    OBVIOUS
  <2> QED
    BY <1>8, <2>1
<1>10. u = t <=> u[1] = t[1] /\ u[2] = t[2] /\ u[3] = t[3] /\ u[4] = t[4]
  <2>1. ASSUME u[1] = t[1], u[2] = t[2], u[3] = t[3], u[4] = t[4] PROVE u = t
    <3>1. \A i \in 1 .. 4 : u[i] = t[i]
      BY <2>1
    <3> QED
      BY <1>4, <1>5, <1>8, <3>1, SeqEqual DEF Text
  <2> QED
    BY <2>1
<1> QED
  BY <1>a, <1>5, <1>9, <1>10 DEF LabelFoundAt

(* A label is found where it stands and nowhere else in a record. *)
LEMMA LabelsFound ==
    ASSUME NEW r \in Text, NEW e \in Text, NEW d \in Digits, Lies(r, e, d)
    PROVE  After(r, "page") = 6 /\ After(r, "name") = 12
<1> DEFINE places(label) ==
               {k \in 1 .. Len(r) - 3 : SubSeq(r, k, k + 3) = Quoted(<<label>>) \o <<"colon">>}
<1>1. Len(r) = Len(e) + 14 /\ Len(e) \in Nat
  BY LenProperties DEF Lies, Text
<1>2. "page" \in Char /\ "name" \in Char
  BY CharAssumption DEF ToldApart
<1>3. \A label \in {"page", "name"} : \A k \in 1 .. Len(r) - 3 :
          k \in places(label)
          <=> r[k] = "quote" /\ r[k + 1] = label /\ r[k + 2] = "quote" /\ r[k + 3] = "colon"
  <2> SUFFICES ASSUME NEW label \in {"page", "name"}, NEW k \in 1 .. Len(r) - 3
               PROVE  k \in places(label)
                      <=> r[k] = "quote" /\ r[k + 1] = label /\ r[k + 2] = "quote" /\ r[k + 3] = "colon"
    OBVIOUS
  <2>1. k \in places(label) <=> LabelFoundAt(r, k, label)
    BY DEF LabelFoundAt
  <2>2. label \in Char
    BY <1>2
  <2> HIDE DEF places
  <2>3. LabelFoundAt(r, k, label)
        <=> r[k] = "quote" /\ r[k + 1] = label /\ r[k + 2] = "quote" /\ r[k + 3] = "colon"
    BY <2>2, LabelAt
  <2> QED
    BY <2>1, <2>3, Zenon
<1>4. \A label : places(label) \in SUBSET (1 .. Len(r))
  BY <1>1
<1> HIDE DEF places
<1>5. 2 \in places("page") /\ 1 \notin places("page")
  BY <1>1, <1>3 DEF Lies
<1>6. 8 \in places("name") /\ \A k \in 1 .. 7 : k \notin places("name")
  <2>1. 8 \in places("name")
    BY <1>1, <1>3 DEF Lies
  <2>2. \A k \in 2 .. 8 : r[k] # "name"
    BY DEF Lies, Digits
  <2>3. ASSUME NEW k \in 1 .. 7 PROVE k \notin places("name")
    <3>1. k + 1 \in 2 .. 8 /\ k \in 1 .. Len(r) - 3
      BY <1>1
    <3> QED
      BY <1>3, <2>2, <3>1
  <2> QED
    BY <2>1, <2>3
<1>7. Seek(r, places("page")) = 2
  <2>1. \A y \in places("page") : 2 <= y
    BY <1>1, <1>4, <1>5
  <2> QED
    BY <1>4, <1>5, <2>1, SeekFinds
<1>8. Seek(r, places("name")) = 8
  <2>1. \A y \in places("name") : 8 <= y
    BY <1>1, <1>4, <1>6
  <2> QED
    BY <1>4, <1>6, <2>1, SeekFinds
<1>9. \A label : After(r, label) = Seek(r, places(label)) + 4
  BY DEF After, places
<1> QED
  BY <1>7, <1>8, <1>9

(* A record is read back. *)
LEMMA RecordIsReadBack ==
    ASSUME NEW p \in Record
    PROVE  ParseProgressObj(RecordText(p)) = p
<1>p. PICK r, e, d, m : r = RecordText(p) /\ e = Esc(p.name) /\ d = p.page /\ m = p.name
  OBVIOUS
<1>1. r \in Text /\ Lies(r, e, d)
  BY <1>p, RecordLies
<1>2. d \in Digits /\ m \in Text /\ p = [page |-> d, name |-> m]
  BY <1>p DEF Record
<1>3. e \in Text /\ ReadsAs(e, [esc |-> FALSE, out |-> m]) /\ Unesc(e) = m
  BY <1>p, <1>2, EscReads, UnescUndoesEsc
<1>4. Len(r) = Len(e) + 14 /\ Len(e) \in Nat
  BY <1>1, <1>3, LenProperties DEF Lies, Text
<1>5. JNum(r, "page") = d
  <2>1. 6 <= Len(r) /\ r[6] = d
    BY <1>1, <1>4 DEF Lies
  <2> QED
    BY <1>1, <1>2, <1>3, <2>1, LabelsFound DEF JNum
<1>6. StringEnd(r, 13) = 13 + Len(e)
  <2>1. Holds(r, 13, e)
    <3>1. ASSUME NEW k \in 1 .. Len(e) PROVE r[13 + k - 1] = e[k]
      <4>1. 13 + k - 1 = 12 + k
        OBVIOUS
      <4> QED
        BY <1>1, <4>1 DEF Lies
    <3> QED
      BY <3>1 DEF Holds
  <2>2. 13 \in 1 .. Len(r) + 1 /\ 13 + Len(e) <= Len(r) /\ r[13 + Len(e)] = "quote"
    BY <1>1, <1>4 DEF Lies
  <2> QED
    BY <1>1, <1>3, <2>1, <2>2, ClosingQuote
<1>7. SubSeq(r, 13, 12 + Len(e)) = e
  <2> PICK t : t = SubSeq(r, 13, 12 + Len(e))
    OBVIOUS
  <2>1. \A i \in 13 .. 12 + Len(e) : r[i] \in Char
    BY <1>1, <1>4, ElementOfSeq DEF Text
  <2>2. 13 \in Int /\ 12 + Len(e) \in Int
    BY <1>4
  <2>3. /\ t \in Seq(Char) /\ Len(t) = (IF 13 <= 12 + Len(e) THEN 12 + Len(e) - 13 + 1 ELSE 0)
        /\ \A i \in 1 .. 12 + Len(e) - 13 + 1 : t[i] = r[13 + i - 1]
    BY <2>1, <2>2, SubSeqProperties
  <2>4. Len(t) = Len(e)
    BY <1>4, <2>3
  <2>5. ASSUME NEW i \in 1 .. Len(e) PROVE t[i] = e[i]
    <3>1. i \in 1 .. 12 + Len(e) - 13 + 1 /\ 13 + i - 1 = 12 + i
      BY <1>4
    <3> QED
      BY <1>1, <2>3, <3>1 DEF Lies
  <2> QED
    BY <1>3, <2>3, <2>4, <2>5, SeqEqual DEF Text
<1>8. JStr(r, "name") = m
  <2>1. 12 <= Len(r) /\ r[12] = "quote" /\ 12 + 1 = 13 /\ 13 + Len(e) - 1 = 12 + Len(e)
    BY <1>1, <1>4 DEF Lies
  <2>2. After(r, "name") = 12
    BY <1>1, <1>2, <1>3, LabelsFound
  <2>3. StringEnd(r, 12 + 1) - 1 = 12 + Len(e)
    BY <1>6, <2>1
  <2>4. SubSeq(r, 12 + 1, StringEnd(r, 12 + 1) - 1) = e
    BY <1>7, <2>1, <2>3
  <2>5. JStr(r, "name") = Unesc(SubSeq(r, 12 + 1, StringEnd(r, 12 + 1) - 1))
    BY <2>1, <2>2, Zenon DEF JStr
  <2> QED
    BY <1>3, <2>4, <2>5
<1> QED
  BY <1>p, <1>2, <1>5, <1>8 DEF ParseProgressObj

(* ObjectEnd scans a text from state to state. *)
Scanning == [read : Nat, mode : {"plain", "string", "skip"}, depth : Int]
Unread == [read |-> 0, mode |-> "plain", depth |-> 0]
ScanReads(s, i, f) ==
    /\ f \in [0 .. Len(s) + 1 - i -> Scanning] /\ f[0] = Unread
    /\ \A n \in 1 .. Len(s) + 1 - i : f[n] = ScanOn(f[n - 1], s[i + n - 1])
Found(s, i, end) == IF end.depth = 0 THEN i + end.read - 1 ELSE Len(s) + 1

(* ObjectEnd scans a text from state to state, and returns where it found the end. *)
LEMMA ObjectScans ==
    ASSUME NEW s \in Text, NEW i \in 1 .. Len(s) + 1
    PROVE  \E f : ScanReads(s, i, f) /\ ObjectEnd(s, i) = Found(s, i, f[Len(s) + 1 - i])
<1> DEFINE N == Len(s) + 1 - i
           D == 0 .. N
           step == [n \in 1 .. N |-> [x \in Scanning |-> ScanOn(x, s[i + n - 1])]]
           Body(n, f) == IF n = 0 THEN Unread ELSE ScanOn(f[n - 1], s[i + n - 1])
           scan == CHOOSE f : f = [n \in D |-> Body(n, f)]
<1>1. N \in Nat
  BY LenProperties DEF Text
<1>2. 0 \in D /\ \A n \in 1 .. N : n \in D /\ n # 0 /\ n - 1 \in D
  BY <1>1
<1>3. Stepwise(Scanning, Unread, N, step)
  <2>1. ASSUME NEW x \in Scanning, NEW c PROVE ScanOn(x, c) \in Scanning
    <3>1. ModeAfter(x.mode, c) \in {"plain", "string", "skip"}
      BY DEF Scanning, ModeAfter
    <3>2. x.read + 1 \in Nat /\ x.depth \in Int /\ x.depth + 1 \in Int /\ x.depth - 1 \in Int
      BY DEF Scanning
    <3> QED
      BY <3>1, <3>2 DEF Scanning, ScanOn
  <2>2. step \in [1 .. N -> [Scanning -> Scanning]]
    BY <2>1
  <2>3. Unread \in Scanning
    BY DEF Unread, Scanning
  <2> HIDE DEF step
  <2> QED
    BY <1>1, <2>2, <2>3 DEF Stepwise
<1>4. \E g : g = [n \in D |-> Body(n, g)]
  <2>1. PICK g : Steps(g, Scanning, Unread, N, step)
    <3> HIDE DEF step
    <3> QED
      BY <1>3, StepsExist
  <2>2. g \in [D -> Scanning] /\ g[0] = Unread /\ \A n \in 1 .. N : g[n] = step[n][g[n - 1]]
    BY <2>1 DEF Steps
  <2>3. \A n \in D : n # 0 => n \in 1 .. N
    BY <1>1
  <2> HIDE DEF D
  <2>4. \A n \in 1 .. N : g[n] = ScanOn(g[n - 1], s[i + n - 1])
    BY <1>2, <2>2
  <2> HIDE DEF step
  <2> QED
    BY <2>2, <2>3, <2>4
<1>5. scan = [n \in D |-> Body(n, scan)]
  BY <1>4, Zenon
<1>6. ObjectEnd(s, i) = Found(s, i, scan[N])
  BY Zenon DEF ObjectEnd, Found, Unread
<1> HIDE DEF scan
<1>7. scan[0] = Unread /\ \A n \in 1 .. N : scan[n] = ScanOn(scan[n - 1], s[i + n - 1])
  <2> HIDE DEF D
  <2> QED
    BY <1>2, <1>5
<1>8. Steps(scan, Scanning, Unread, N, step)
  <2>1. \A n \in 1 .. N : scan[n - 1] \in Scanning => scan[n] = step[n][scan[n - 1]]
    BY <1>7
  <2>2. DOMAIN scan = D /\ scan = [n \in D |-> scan[n]]
    BY <1>5
  <2> HIDE DEF step
  <2> QED
    BY <1>3, <1>7, <2>1, <2>2, OnlySteps
<1>9. ScanReads(s, i, scan)
  <2>1. scan \in [0 .. N -> Scanning]
    BY <1>8 DEF Steps
  <2> QED
    BY <1>7, <2>1 DEF ScanReads
<1> QED
  BY <1>6, <1>9

(* It reads on: an object ends no earlier than it begins. *)
LEMMA ObjectEndWithin ==
    ASSUME NEW s \in Text, NEW i \in 1 .. Len(s)
    PROVE  ObjectEnd(s, i) \in i .. Len(s) + 1
<1>N. PICK N : N = Len(s) + 1 - i
  OBVIOUS
<1>1. Len(s) \in Nat /\ N \in Nat \ {0} /\ i \in 1 .. Len(s) + 1 /\ i + N = Len(s) + 1
  BY <1>N, LenProperties DEF Text
<1>2. PICK f : ScanReads(s, i, f) /\ ObjectEnd(s, i) = Found(s, i, f[N])
  BY <1>N, <1>1, ObjectScans
<1>3. /\ f \in [0 .. N -> Scanning] /\ f[0] = Unread
      /\ \A n \in 1 .. N : f[n] = ScanOn(f[n - 1], s[i + n - 1])
  BY <1>N, <1>2 DEF ScanReads
<1> DEFINE G == {n \in 0 .. N : f[n].read <= n /\ (n > 0 => f[n].read > 0)}
<1>4. 0 \in G
  BY <1>1, <1>3 DEF Unread
<1>5. ASSUME NEW n \in 1 .. N, n - 1 \in G PROVE n \in G
  <2>1. n \in 0 .. N /\ n - 1 \in 0 .. N /\ f[n - 1].read <= n - 1
    BY <1>5
  <2>2. f[n - 1].read \in Nat
    BY <1>3, <2>1 DEF Scanning
  <2>3. \/ f[n].read = f[n - 1].read /\ f[n - 1].read > 0
        \/ f[n].read = f[n - 1].read + 1
    <3>1. f[n] = ScanOn(f[n - 1], s[i + n - 1])
      BY <1>3
    <3>2. f[n - 1].read > 0 \/ ~(f[n - 1].read > 0)
      OBVIOUS
    <3> QED
      BY <2>2, <3>1, <3>2 DEF ScanOn
  <2> QED
    BY <2>1, <2>2, <2>3
<1>6. N \in G
  <2> HIDE DEF G
  <2>1. \A n \in 0 .. N : n \in G
    BY <1>1, <1>4, <1>5, CountingUpTo
  <2> QED
    BY <1>1, <2>1
<1>7. f[N].read \in Nat
  BY <1>1, <1>3 DEF Scanning
<1> QED
  BY <1>1, <1>2, <1>6, <1>7 DEF Found

(* Where the text of a record stands, its braces are found, and of a part  *)
(* of it no closing one.                                                   *)
In(n, mode) == [read |-> n, mode |-> mode, depth |-> 1]

(* Inside an object a character that is no brace leaves the depth as it is. *)
LEMMA ScanOnIn ==
    ASSUME NEW n \in Nat \ {0}, NEW mode, NEW c, NEW st, st = In(n, mode)
    PROVE  /\ mode # "plain" \/ c \notin {"open", "close"} => ScanOn(st, c) = In(n + 1, ModeAfter(mode, c))
           /\ mode = "plain" /\ c = "close" => ScanOn(st, c).depth = 0
           /\ ScanOn(st, c).read = n + 1
<1>1. st.read = n /\ st.mode = mode /\ st.depth = 1
  BY DEF In
<1>2. ~(st.depth = 0 /\ st.read > 0)
  BY <1>1
<1>3. ScanOn(st, c) = [read |-> n + 1, mode |-> ModeAfter(mode, c),
          depth |-> IF mode # "plain" THEN 1
                    ELSE IF c = "open" THEN 1 + 1
                    ELSE IF c = "close" THEN 1 - 1 ELSE 1]
  BY <1>1, <1>2, Zenon DEF ScanOn
<1> QED
  BY <1>3 DEF In

(* An object ends at its closing brace, or where the text does. *)
LEMMA ObjectEnds ==
    ASSUME NEW s \in Text, NEW i \in 1 .. Len(s), NEW p \in Record, NEW r, r = RecordText(p),
           Holds(s, i, r)
    PROVE  ObjectEnd(s, i) = IF i + Len(r) - 1 <= Len(s) THEN i + Len(r) - 1 ELSE Len(s) + 1
<1>N. PICK N, e, d : N = Len(s) + 1 - i /\ e = Esc(p.name) /\ d = p.page
  OBVIOUS
<1>1. r \in Text /\ Lies(r, e, d) /\ d \in Digits
  BY <1>N, RecordLies DEF Record
<1>2. PICK g : Reads(e, g) /\ Guarded(e, g) /\ ~g[Len(e)].esc
  <2>1. p.name \in Text
    BY DEF Record
  <2>2. ReadsAs(e, [esc |-> FALSE, out |-> p.name])
    BY <1>N, <2>1, EscReads
  <2>3. PICK g : Reads(e, g) /\ Guarded(e, g) /\ g[Len(e)] = [esc |-> FALSE, out |-> p.name]
    BY <2>2 DEF ReadsAs
  <2>4. ~g[Len(e)].esc
    BY <2>3
  <2> QED
    BY <2>3, <2>4
<1>3. e \in Text /\ Len(e) \in Nat /\ Len(r) = Len(e) + 14
  <2>1. e \in Text
    BY <1>N, EscReads DEF Record
  <2> QED
    BY <1>1, <2>1, LenProperties DEF Lies, Text
<1>4. Len(s) \in Nat /\ N \in Nat \ {0} /\ i \in 1 .. Len(s) + 1 /\ i + N = Len(s) + 1
  BY <1>N, LenProperties DEF Text
<1>5. PICK f : ScanReads(s, i, f) /\ ObjectEnd(s, i) = Found(s, i, f[N])
  BY <1>N, <1>4, ObjectScans
<1>6. f[0] = Unread /\ \A n \in 1 .. N : f[n] = ScanOn(f[n - 1], s[i + n - 1])
  BY <1>N, <1>5 DEF ScanReads
<1>7. ASSUME NEW n \in 1 .. N, n <= Len(r) PROVE f[n] = ScanOn(f[n - 1], r[n])
  <2>1. i + n - 1 <= Len(s) /\ n \in 1 .. Len(r)
    BY <1>3, <1>4, <1>7
  <2> QED
    BY <1>6, <2>1 DEF Holds
<1>8. f[1] = In(1, "plain")
  <2>1. f[1] = ScanOn(Unread, "open")
    <3>1. 1 \in 1 .. N /\ 1 <= Len(r) /\ 1 - 1 = 0
      BY <1>3, <1>4
    <3>2. f[1] = ScanOn(f[1 - 1], r[1])
      BY <1>7, <3>1
    <3> QED
      BY <1>1, <1>6, <3>1, <3>2 DEF Lies
  <2>2. Unread.read = 0 /\ Unread.mode = "plain" /\ Unread.depth = 0 /\ ~(0 > 0)
    BY DEF Unread
  <2>3. ScanOn(Unread, "open") = [read |-> 0 + 1, mode |-> ModeAfter("plain", "open"), depth |-> 0 + 1]
    BY <2>2 DEF ScanOn
  <2>4. ModeAfter("plain", "open") = "plain"
    BY DEF ModeAfter
  <2> QED
    BY <2>1, <2>3, <2>4 DEF In
<1> DEFINE At(n, mode) == n <= N => f[n] = In(n, mode)
<1>9. ASSUME NEW n \in Nat \ {0}, NEW m, m = n + 1, m <= Len(r), NEW mode, At(n, mode),
             NEW c, c = r[m], mode # "plain" \/ c \notin {"open", "close"}
      PROVE  At(m, ModeAfter(mode, c))
  <2> SUFFICES ASSUME m <= N PROVE f[m] = In(m, ModeAfter(mode, c))
    OBVIOUS
  <2>1. m \in 1 .. N /\ m - 1 = n /\ n <= N
    BY <1>4, <1>9
  <2>2. f[m] = ScanOn(In(n, mode), c)
    BY <1>7, <1>9, <2>1
  <2> QED
    BY <1>9, <2>2, ScanOnIn
<1> HIDE DEF At
<1>10. /\ r[2] = "quote" /\ r[3] = "page" /\ r[4] = "quote" /\ r[5] = "colon" /\ r[6] = d
       /\ r[7] = "comma" /\ r[8] = "quote" /\ r[9] = "name" /\ r[10] = "quote"
       /\ r[11] = "colon" /\ r[12] = "quote"
  BY <1>1 DEF Lies
<1>11. \A n \in 1 .. 14 : n <= Len(r)
  BY <1>3
<1>12. /\ ModeAfter("plain", "quote") = "string" /\ ModeAfter("string", "quote") = "plain"
       /\ \A c : c # "quote" => ModeAfter("plain", c) = "plain"
       /\ \A c : c \notin {"quote", "slash"} => ModeAfter("string", c) = "string"
       /\ ModeAfter("string", "slash") = "skip" /\ \A c : ModeAfter("skip", c) = "string"
  BY DEF ModeAfter
<1>13. At(1, "plain")
  BY <1>8 DEF At
<1>14. At(2, "string") /\ At(3, "string") /\ At(4, "plain")
  <2>1. At(2, "string")
    <3>1. r[2] = "quote" /\ 2 <= Len(r) /\ ModeAfter("plain", "quote") = "string"
      BY <1>10, <1>11, <1>12
    <3> QED
      BY <1>9, <1>13, <3>1, 2 = 1 + 1
  <2>2. At(3, "string")
    <3>1. r[3] = "page" /\ 3 <= Len(r) /\ ModeAfter("string", "page") = "string"
      BY <1>10, <1>11, <1>12
    <3> QED
      BY <1>9, <2>1, <3>1, 3 = 2 + 1
  <2>3. At(4, "plain")
    <3>1. r[4] = "quote" /\ 4 <= Len(r) /\ ModeAfter("string", "quote") = "plain"
      BY <1>10, <1>11, <1>12
    <3> QED
      BY <1>9, <2>2, <3>1, 4 = 3 + 1
  <2> QED
    BY <2>1, <2>2, <2>3
<1>15. At(5, "plain") /\ At(6, "plain") /\ At(7, "plain")
  <2>1. At(5, "plain")
    <3>1. r[5] = "colon" /\ 5 <= Len(r) /\ ModeAfter("plain", "colon") = "plain"
      BY <1>10, <1>11, <1>12
    <3> QED
      BY <1>9, <1>14, <3>1, 5 = 4 + 1
  <2>2. At(6, "plain")
    <3>1. r[6] = d /\ 6 <= Len(r) /\ ModeAfter("plain", d) = "plain" /\ d \notin {"open", "close"}
      <4>1. d \notin {"open", "close", "quote"}
        BY <1>1 DEF Digits
      <4> QED
        BY <1>10, <1>11, <1>12, <4>1
    <3> QED
      BY <1>9, <2>1, <3>1, 6 = 5 + 1
  <2>3. At(7, "plain")
    <3>1. r[7] = "comma" /\ 7 <= Len(r) /\ ModeAfter("plain", "comma") = "plain"
      BY <1>10, <1>11, <1>12
    <3> QED
      BY <1>9, <2>2, <3>1, 7 = 6 + 1
  <2> QED
    BY <2>1, <2>2, <2>3
<1>16. At(8, "string") /\ At(9, "string") /\ At(10, "plain")
  <2>1. At(8, "string")
    <3>1. r[8] = "quote" /\ 8 <= Len(r) /\ ModeAfter("plain", "quote") = "string"
      BY <1>10, <1>11, <1>12
    <3> QED
      BY <1>9, <1>15, <3>1, 8 = 7 + 1
  <2>2. At(9, "string")
    <3>1. r[9] = "name" /\ 9 <= Len(r) /\ ModeAfter("string", "name") = "string"
      BY <1>10, <1>11, <1>12
    <3> QED
      BY <1>9, <2>1, <3>1, 9 = 8 + 1
  <2>3. At(10, "plain")
    <3>1. r[10] = "quote" /\ 10 <= Len(r) /\ ModeAfter("string", "quote") = "plain"
      BY <1>10, <1>11, <1>12
    <3> QED
      BY <1>9, <2>2, <3>1, 10 = 9 + 1
  <2> QED
    BY <2>1, <2>2, <2>3
<1>17. At(11, "plain") /\ At(12, "string")
  <2>1. At(11, "plain")
    <3>1. r[11] = "colon" /\ 11 <= Len(r) /\ ModeAfter("plain", "colon") = "plain"
      BY <1>10, <1>11, <1>12
    <3> QED
      BY <1>9, <1>16, <3>1, 11 = 10 + 1
  <2>2. At(12, "string")
    <3>1. r[12] = "quote" /\ 12 <= Len(r) /\ ModeAfter("plain", "quote") = "string"
      BY <1>10, <1>11, <1>12
    <3> QED
      BY <1>9, <2>1, <3>1, 12 = 11 + 1
  <2> QED
    BY <2>1, <2>2
<1> DEFINE State(k) == IF g[k].esc THEN "skip" ELSE "string"
           G == {k \in 0 .. Len(e) : At(12 + k, State(k))}
<1>18. 0 \in G
  <2>1. g[0].esc = FALSE
    BY <1>2 DEF Reads, Blank
  <2>2. State(0) = "string" /\ 12 + 0 = 12 /\ 0 \in 0 .. Len(e)
    BY <1>3, <2>1
  <2> QED
    BY <1>17, <2>2
<1>19. ASSUME NEW k \in 1 .. Len(e), k - 1 \in G PROVE k \in G
  <2>1. r[12 + k] = e[k]
    BY <1>1 DEF Lies
  <2>2. g[k] = Unescaped(g[k - 1], e[k]) /\ (e[k] = "quote" => g[k - 1].esc)
    BY <1>2 DEF Reads, Guarded
  <2>3. ModeAfter(State(k - 1), e[k]) = State(k) /\ State(k - 1) # "plain"
    <3>1. CASE g[k - 1].esc
      <4>1. g[k].esc = FALSE
        BY <2>2, <3>1 DEF Unescaped
      <4> QED
        BY <1>12, <3>1, <4>1
    <3>2. CASE ~g[k - 1].esc /\ e[k] = "slash"
      <4>1. g[k].esc = TRUE
        BY <2>2, <3>2 DEF Unescaped
      <4> QED
        BY <1>12, <3>2, <4>1
    <3>3. CASE ~g[k - 1].esc /\ e[k] # "slash"
      <4>1. g[k].esc = FALSE /\ e[k] # "quote"
        BY <2>2, <3>3 DEF Unescaped
      <4> QED
        BY <1>12, <3>3, <4>1
    <3> QED
      BY <3>1, <3>2, <3>3
  <2>4. /\ 12 + (k - 1) \in Nat \ {0} /\ 12 + k = 12 + (k - 1) + 1 /\ 12 + k <= Len(r)
        /\ k - 1 \in 0 .. Len(e) /\ k \in 0 .. Len(e)
    BY <1>3
  <2> HIDE DEF State
  <2>5. At(12 + (k - 1), State(k - 1))
    BY <1>19
  <2>6. At(12 + k, State(k))
    BY <1>9, <2>1, <2>3, <2>4, <2>5
  <2> QED
    BY <2>4, <2>6
<1>20. ASSUME NEW k \in 0 .. Len(e) PROVE At(12 + k, State(k))
  <2> HIDE DEF G
  <2>1. k \in G
    BY <1>3, <1>18, <1>19, CountingUpTo
  <2> QED
    BY <2>1 DEF G
<1>21. At(13 + Len(e), "plain")
  <2>1. State(Len(e)) = "string" /\ Len(e) \in 0 .. Len(e)
    BY <1>2, <1>3
  <2>2. At(12 + Len(e), "string")
    BY <1>20, <2>1
  <2>3. 12 + Len(e) \in Nat \ {0} /\ 13 + Len(e) = 12 + Len(e) + 1 /\ 13 + Len(e) <= Len(r)
        /\ Len(e) + 13 = 13 + Len(e)
    BY <1>3
  <2>4. r[13 + Len(e)] = "quote"
    BY <1>1, <2>3 DEF Lies
  <2> QED
    BY <1>9, <1>12, <2>2, <2>3, <2>4
<1>22. ASSUME NEW n \in 1 .. 13 + Len(e), n <= N PROVE f[n].depth = 1
  <2>1. ASSUME NEW mode, At(n, mode) PROVE f[n].depth = 1
    BY <1>22, <2>1 DEF At, In
  <2>2. CASE n <= 7
    <3>1. n \in {1, 2, 3, 4, 5, 6, 7}
      BY <2>2
    <3> QED
      BY <1>13, <1>14, <1>15, <2>1, <3>1
  <2>3. CASE n > 7 /\ n <= 12
    <3>1. n \in {8, 9, 10, 11, 12}
      BY <2>3
    <3> QED
      BY <1>16, <1>17, <2>1, <3>1
  <2>4. CASE n > 12 /\ n <= 12 + Len(e)
    <3>1. PICK k \in 0 .. Len(e) : n = 12 + k
      <4>1. n - 12 \in 0 .. Len(e) /\ n = 12 + (n - 12)
        BY <1>3, <2>4
      <4> QED
        BY <4>1
    <3> QED
      BY <1>20, <2>1, <3>1
  <2>5. CASE n = 13 + Len(e)
    BY <1>21, <2>1, <2>5
  <2> QED
    BY <1>3, <2>2, <2>3, <2>4, <2>5
<1>23. CASE Len(r) > N
  <2>1. N \in 1 .. 13 + Len(e) /\ N <= N
    BY <1>3, <1>4, <1>23
  <2>2. f[N].depth = 1
    BY <1>22, <2>1
  <2> QED
    BY <1>3, <1>4, <1>5, <1>23, <2>2 DEF Found
<1>24. CASE Len(r) <= N
  <2> PICK L : L = Len(r)
    OBVIOUS
  <2>1. L \in Nat \ {0} /\ L - 1 \in Nat \ {0} /\ L = 14 + Len(e) /\ N - L \in Nat
        /\ L - 1 = 13 + Len(e) /\ L - 1 <= N
    BY <1>3, <1>4, <1>24
  <2> DEFINE G2 == {m \in 0 .. N - L : f[L + m].depth = 0 /\ f[L + m].read = L}
  <2>2. 0 \in G2
    <3>1. f[L - 1] = In(L - 1, "plain")
      BY <1>21, <2>1 DEF At
    <3>2. L \in 1 .. N /\ L <= Len(r) /\ (L - 1) + 1 = L /\ L + 0 = L
      BY <1>24, <2>1
    <3>3. r[L] = "close"
      <4>1. L = Len(e) + 14
        BY <1>3
      <4> QED
        BY <1>1, <4>1 DEF Lies
    <3>4. f[L] = ScanOn(In(L - 1, "plain"), "close")
      BY <1>7, <3>1, <3>2, <3>3
    <3>5. f[L].depth = 0 /\ f[L].read = L
      BY <2>1, <3>2, <3>4, ScanOnIn
    <3> QED
      BY <2>1, <3>2, <3>5
  <2>3. ASSUME NEW m \in 1 .. N - L, m - 1 \in G2 PROVE m \in G2
    <3>1. L + m \in 1 .. N /\ (L + m) - 1 = L + (m - 1) /\ m \in 0 .. N - L
      BY <1>4, <2>1
    <3>2. f[L + m] = ScanOn(f[L + (m - 1)], s[i + (L + m) - 1])
      BY <1>6, <3>1
    <3>3. f[L + (m - 1)].depth = 0 /\ f[L + (m - 1)].read = L /\ L > 0
      BY <2>1, <2>3
    <3>4. f[L + m] = f[L + (m - 1)]
      BY <3>2, <3>3 DEF ScanOn
    <3> QED
      BY <3>1, <3>3, <3>4
  <2>4. N - L \in G2
    <3> HIDE DEF G2
    <3>1. \A m \in 0 .. N - L : m \in G2
      BY <2>1, <2>2, <2>3, CountingUpTo
    <3> QED
      BY <2>1, <3>1
  <2>5. L + (N - L) = N
    BY <1>4, <2>1
  <2>6. f[N].depth = 0 /\ f[N].read = L
    BY <2>4, <2>5
  <2> QED
    BY <1>4, <1>5, <1>24, <2>1, <2>6 DEF Found
<1> QED
  BY <1>3, <1>4, <1>23, <1>24

(* A string ends no earlier than it begins. *)
LEMMA StringEndWithin ==
    ASSUME NEW s \in Text, NEW i \in 1 .. Len(s) + 1
    PROVE  StringEnd(s, i) \in i .. Len(s) + 1
<1> DEFINE slashes(k) == k - 1 - Max({j \in i .. k - 1 : s[j] # "slash"} \cup {i - 1})
           places == {k \in i .. Len(s) : s[k] = "quote" /\ slashes(k) % 2 = 0}
<1>1. StringEnd(s, i) = Seek(s, places)
  BY DEF StringEnd
<1> HIDE DEF slashes
<1>2. Len(s) \in Nat
  BY LenProperties DEF Text
<1>3. places \in SUBSET (1 .. Len(s)) /\ \A y \in places : y >= i
  BY <1>2
<1> HIDE DEF places
<1> QED
  BY <1>1, <1>2, <1>3, SeekWithin

------------------------------------------------------------------------------
(* What load_all finds from i: a key, its end, a value, its end. *)
KeyAt(s, i) == Seek(s, {k \in i .. Len(s) : s[k] \in {"quote", "close"}})
KeyEnd(s, i) == StringEnd(s, KeyAt(s, i) + 1)
ValueAt(s, i) == Seek(s, {k \in KeyEnd(s, i) + 1 .. Len(s) : s[k] = "open"})
ValueEnd(s, i) == ObjectEnd(s, ValueAt(s, i))
Over(s, i) ==
    KeyAt(s, i) > Len(s) \/ s[KeyAt(s, i)] = "close" \/ ValueAt(s, i) > Len(s) \/ ValueEnd(s, i) > Len(s)
EntryRead(s, i) ==
    <<Unesc(SubSeq(s, KeyAt(s, i) + 1, KeyEnd(s, i) - 1)),
      ParseProgressObj(SubSeq(s, ValueAt(s, i), ValueEnd(s, i)))>>
Loads(s, from) ==
    \A i \in 1 .. Len(s) + 2 :
        from[i] = IF Over(s, i) THEN <<>> ELSE <<EntryRead(s, i)>> \o from[ValueEnd(s, i) + 1]

(* Each entry ends after it begins. *)
LEMMA ReadsOn ==
    ASSUME NEW s \in Text, NEW i \in 1 .. Len(s) + 2, ~Over(s, i)
    PROVE  ValueEnd(s, i) \in i .. Len(s)
<1>1. Len(s) \in Nat
  BY LenProperties DEF Text
<1>2. PICK q : q = KeyAt(s, i)
  OBVIOUS
<1>3. q \in 1 .. Len(s) /\ q >= i
  <2> DEFINE places == {k \in i .. Len(s) : s[k] \in {"quote", "close"}}
  <2>1. places \in SUBSET (1 .. Len(s)) /\ \A y \in places : y >= i
    BY <1>1
  <2>2. q = Seek(s, places) /\ ~(q > Len(s))
    BY <1>2 DEF Over, KeyAt
  <2> HIDE DEF places
  <2>3. q \in 1 .. Len(s) + 1 /\ (q <= Len(s) => q \in places)
    BY <2>1, <2>2, SeekWithin
  <2> QED
    BY <1>1, <2>1, <2>2, <2>3
<1>4. PICK e : e = KeyEnd(s, i)
  OBVIOUS
<1>5. e \in q + 1 .. Len(s) + 1
  <2>1. q + 1 \in 1 .. Len(s) + 1
    BY <1>1, <1>3
  <2> QED
    BY <1>2, <1>4, <2>1, StringEndWithin DEF KeyEnd
<1>6. PICK v : v = ValueAt(s, i)
  OBVIOUS
<1>7. v \in 1 .. Len(s) /\ v >= e + 1
  <2> DEFINE places == {k \in e + 1 .. Len(s) : s[k] = "open"}
  <2>1. places \in SUBSET (1 .. Len(s)) /\ \A y \in places : y >= e + 1
    BY <1>1, <1>3, <1>5
  <2>2. v = Seek(s, places) /\ ~(v > Len(s))
    BY <1>4, <1>6 DEF Over, ValueAt
  <2> HIDE DEF places
  <2>3. v \in 1 .. Len(s) + 1 /\ (v <= Len(s) => v \in places)
    BY <2>1, <2>2, SeekWithin
  <2> QED
    BY <1>1, <2>1, <2>2, <2>3
<1>8. ValueEnd(s, i) \in v .. Len(s) + 1 /\ ~(ValueEnd(s, i) > Len(s))
  BY <1>6, <1>7, ObjectEndWithin DEF ValueEnd, Over
<1> QED
  BY <1>1, <1>3, <1>5, <1>7, <1>8

(* load_all reads an entry and goes on after it. *)
LEMMA LoadsFrom ==
    ASSUME NEW s \in Text
    PROVE  \E from : /\ Loads(s, from)
                     /\ LoadText(s) = from[Seek(s, {k \in DOMAIN s : s[k] = "open"}) + 1]
<1> DEFINE D == 1 .. Len(s) + 2
           S == Seq({EntryRead(s, i) : i \in D})
           Body(i, f) == IF Over(s, i) THEN <<>> ELSE <<EntryRead(s, i)>> \o f[ValueEnd(s, i) + 1]
           H == [i \in D |-> [f \in [D -> S] |-> Body(i, f)]]
           rank == [i \in D |-> Len(s) + 2 - i]
           from == CHOOSE f : f = [i \in D |-> Body(i, f)]
<1>1. Len(s) \in Nat
  BY LenProperties DEF Text
<1>2. \A i \in D : ~Over(s, i) => ValueEnd(s, i) + 1 \in D /\ ValueEnd(s, i) + 1 > i
  <2> SUFFICES ASSUME NEW i \in D, ~Over(s, i)
               PROVE  ValueEnd(s, i) + 1 \in D /\ ValueEnd(s, i) + 1 > i
    OBVIOUS
  <2>1. ValueEnd(s, i) \in i .. Len(s)
    BY ReadsOn
  <2> QED
    BY <1>1, <2>1
<1>3. ASSUME NEW i \in D, NEW f \in [D -> S] PROVE Body(i, f) \in S
  <2>1. <<>> \in S
    BY EmptySeq
  <2>2. ASSUME NEW x \in S PROVE <<EntryRead(s, i)>> \o x \in S
    <3>1. EntryRead(s, i) \in {EntryRead(s, j) : j \in D}
      OBVIOUS
    <3>2. <<EntryRead(s, i)>> \in S
      BY <3>1, OneAndTwo
    <3> QED
      BY <3>2, ConcatProperties
  <2> HIDE DEF S, D
  <2> QED
    BY <1>2, <2>1, <2>2
<1>4. H \in [D -> [[D -> S] -> S]]
  <2> HIDE DEF S, D, Body
  <2> QED
    BY <1>3
<1>5. ASSUME NEW i \in D, NEW f \in [D -> S], NEW g \in [D -> S],
             \A k \in D : rank[k] < rank[i] => f[k] = g[k]
      PROVE  H[i][f] = H[i][g]
  <2>1. ~Over(s, i) => f[ValueEnd(s, i) + 1] = g[ValueEnd(s, i) + 1]
    <3> SUFFICES ASSUME ~Over(s, i) PROVE f[ValueEnd(s, i) + 1] = g[ValueEnd(s, i) + 1]
      OBVIOUS
    <3>1. PICK k \in D : k = ValueEnd(s, i) + 1 /\ k > i
      BY <1>2
    <3>2. rank[k] < rank[i]
      BY <1>1, <3>1
    <3> HIDE DEF D, S, rank
    <3> QED
      BY <1>5, <3>1, <3>2
  <2>2. Body(i, f) = Body(i, g)
    BY <2>1
  <2>3. H[i][f] = Body(i, f) /\ H[i][g] = Body(i, g)
    <3> HIDE DEF D, S, Body
    <3> QED
      OBVIOUS
  <2> HIDE DEF H, Body, D, S
  <2> QED
    BY <2>2, <2>3
<1>6. Grounded(D, S, Len(s) + 1, rank, H)
  <2>1. rank \in [D -> 0 .. Len(s) + 1]
    BY <1>1
  <2>2. S # {} /\ Len(s) + 1 \in Nat
    <3>1. <<>> \in S
      BY EmptySeq
    <3> HIDE DEF S
    <3> QED
      BY <1>1, <3>1
  <2> HIDE DEF H, rank, D, S
  <2> QED
    BY <1>4, <1>5, <2>1, <2>2 DEF Grounded
<1>7. PICK g \in [D -> S] : \A i \in D : g[i] = H[i][g]
  <2> HIDE DEF H, rank, D, S
  <2> QED
    BY <1>6, RecursionOnRank DEF Recursive
<1>8. g = [i \in D |-> Body(i, g)]
  <2>1. \A i \in D : g[i] = Body(i, g)
    <3> HIDE DEF D, S, Body
    <3> QED
      BY <1>7
  <2> HIDE DEF D, S, Body
  <2> QED
    BY <2>1
<1>9. from = [i \in D |-> Body(i, from)]
  BY <1>8, Zenon
<1>10. LoadText(s) = from[Seek(s, {k \in DOMAIN s : s[k] = "open"}) + 1]
  BY Zenon DEF LoadText, Over, EntryRead, KeyAt, KeyEnd, ValueAt, ValueEnd
<1> HIDE DEF from
<1>11. Loads(s, from)
  <2>1. \A i \in D : from[i] = Body(i, from)
    <3> HIDE DEF D, Body
    <3> QED
      BY <1>9
  <2> QED
    BY <2>1 DEF Loads
<1> QED
  BY <1>10, <1>11

------------------------------------------------------------------------------
(* A text that stands whole is the part it fills. *)
LEMMA HoldsWhole ==
    ASSUME NEW s \in Text, NEW i \in Nat \ {0}, NEW e \in Text, Holds(s, i, e), i + Len(e) - 1 <= Len(s)
    PROVE  SubSeq(s, i, i + Len(e) - 1) = e
<1>1. Len(s) \in Nat /\ Len(e) \in Nat
  BY LenProperties DEF Text
<1>2. PICK t, n : t = SubSeq(s, i, n) /\ n = i + Len(e) - 1
  OBVIOUS
<1>3. \A k \in i .. n : s[k] \in Char
  <2>1. \A k \in i .. n : k \in 1 .. Len(s)
    BY <1>1, <1>2
  <2> QED
    BY <2>1, ElementOfSeq DEF Text
<1>4. i \in Int /\ n \in Int
  BY <1>1, <1>2
<1>5. /\ t \in Seq(Char) /\ Len(t) = (IF i <= n THEN n - i + 1 ELSE 0)
      /\ \A k \in 1 .. n - i + 1 : t[k] = s[i + k - 1]
  BY <1>2, <1>3, <1>4, SubSeqProperties
<1>6. Len(t) = Len(e) /\ n - i + 1 = Len(e)
  BY <1>1, <1>2, <1>5
<1>7. ASSUME NEW k \in 1 .. Len(e) PROVE t[k] = e[k]
  <2>1. k \in 1 .. n - i + 1 /\ i + k - 1 <= Len(s)
    BY <1>1, <1>6
  <2> QED
    BY <1>5, <2>1 DEF Holds
<1> QED
  BY <1>2, <1>5, <1>6, <1>7, SeqEqual DEF Text

(* An entry, with or without a comma before it: a key and a record. *)
Stands(s, j, e, r) ==
    /\ j <= Len(s) => s[j] = "quote"
    /\ Holds(s, j + 1, e)
    /\ j + 1 + Len(e) <= Len(s) => s[j + 1 + Len(e)] = "quote"
    /\ j + 2 + Len(e) <= Len(s) => s[j + 2 + Len(e)] = "colon"
    /\ Holds(s, j + 3 + Len(e), r)

(* The text of an entry stands as told. *)
LEMMA EntryStands ==
    ASSUME NEW s \in Text, NEW j \in Nat \ {0}, NEW path \in Text, NEW p \in Record,
           NEW t, t = EntryText(<<path, p>>)
    PROVE  /\ t \in Text /\ Len(t) = Len(Esc(path)) + 3 + Len(RecordText(p))
           /\ Holds(s, j, t) => Stands(s, j, Esc(path), RecordText(p))
<1>1. PICK e, r, c, u, v : /\ e = Esc(path) /\ r = RecordText(p) /\ c = <<"colon">>
                           /\ u = Quoted(e) /\ v = u \o c
  OBVIOUS
<1>2. e \in Text /\ r \in Text
  BY <1>1, EscReads, RecordLies
<1>3. c \in Text /\ Len(c) = 1 /\ c[1] = "colon"
  BY <1>1, CharAssumption, OneAndTwo DEF ToldApart, Text
<1>4. /\ u \in Text /\ Len(u) = Len(e) + 2 /\ u[1] = "quote" /\ u[Len(e) + 2] = "quote"
      /\ \A k \in 1 .. Len(e) : u[k + 1] = e[k]
  BY <1>1, <1>2, QuotedText
<1>5. t = v \o r
  BY <1>1 DEF EntryText
<1>6. Len(s) \in Nat /\ Len(e) \in Nat /\ Len(r) \in Nat
  BY <1>2, LenProperties DEF Text
<1>7. v \in Text /\ Len(v) = Len(e) + 3
  <2>1. v \in Text /\ Joined(v, u, c)
    BY <1>1, <1>3, <1>4, JoinedSeq DEF Text
  <2> QED
    BY <1>3, <1>4, <1>6, <2>1 DEF Joined
<1>8. t \in Text /\ Len(t) = Len(e) + 3 + Len(r)
  <2>1. t \in Text /\ Joined(t, v, r)
    BY <1>2, <1>5, <1>7, JoinedSeq DEF Text
  <2> QED
    BY <1>6, <1>7, <2>1 DEF Joined
<1>9. ASSUME Holds(s, j, t) PROVE Stands(s, j, e, r)
  <2>1. Holds(s, j, v) /\ Holds(s, j + Len(v), r)
    <3>1. Holds(s, j, v \o r)
      BY <1>5, <1>9
    <3>2. j \in Int /\ Len(s) \in Nat
      BY <1>6
    <3>3. Holds(s, j, v \o r) <=> Holds(s, j, v) /\ Holds(s, j + Len(v), r)
      BY <1>2, <1>7, <3>2, HoldsJoined, Zenon
    <3> QED
      BY <3>1, <3>3
  <2>2. Holds(s, j, u) /\ Holds(s, j + Len(u), c)
    <3>1. Holds(s, j, u \o c)
      BY <1>1, <2>1
    <3>2. j \in Int /\ Len(s) \in Nat
      BY <1>6
    <3>3. Holds(s, j, u \o c) <=> Holds(s, j, u) /\ Holds(s, j + Len(u), c)
      BY <1>3, <1>4, <3>2, HoldsJoined, Zenon
    <3> QED
      BY <3>1, <3>3
  <2>3. Holds(s, j + 3 + Len(e), r)
    <3>1. j + Len(v) = j + 3 + Len(e)
      BY <1>6, <1>7
    <3> QED
      BY <2>1, <3>1
  <2>4. j + 2 + Len(e) <= Len(s) => s[j + 2 + Len(e)] = "colon"
    <3>1. 1 \in 1 .. Len(c) /\ j + Len(u) + 1 - 1 = j + 2 + Len(e)
      BY <1>3, <1>4, <1>6
    <3> QED
      BY <1>3, <2>2, <3>1 DEF Holds
  <2>5. j <= Len(s) => s[j] = "quote"
    <3>1. 1 \in 1 .. Len(u) /\ j + 1 - 1 = j
      BY <1>4, <1>6
    <3> QED
      BY <1>4, <2>2, <3>1 DEF Holds
  <2>6. j + 1 + Len(e) <= Len(s) => s[j + 1 + Len(e)] = "quote"
    <3>1. Len(e) + 2 \in 1 .. Len(u) /\ j + (Len(e) + 2) - 1 = j + 1 + Len(e)
      BY <1>4, <1>6
    <3> QED
      BY <1>4, <2>2, <3>1 DEF Holds
  <2>7. ASSUME NEW k \in 1 .. Len(e), (j + 1) + k - 1 <= Len(s) PROVE s[(j + 1) + k - 1] = e[k]
    <3>1. k + 1 \in 1 .. Len(u) /\ j + (k + 1) - 1 = (j + 1) + k - 1
      BY <1>4, <1>6
    <3> QED
      BY <1>4, <2>2, <2>7, <3>1 DEF Holds
  <2>8. Holds(s, j + 1, e)
    BY <2>7 DEF Holds
  <2> QED
    BY <2>3, <2>4, <2>5, <2>6, <2>8 DEF Stands
<1> QED
  BY <1>1, <1>8, <1>9

(* From i on the text is read as v up to last, or not at all if it is cut. *)
IsReadTo(s, i, last, v) ==
    /\ last <= Len(s) => ~Over(s, i) /\ ValueEnd(s, i) = last /\ EntryRead(s, i) = v
    /\ last > Len(s) => Over(s, i)

(* From where an entry stands load_all reads it if it is whole, and ends   *)
(* if it is cut.                                                           *)
LEMMA KeyFound ==
    ASSUME NEW s \in Text, NEW i \in Nat \ {0}, NEW j \in {i, i + 1}, i <= Len(s) + 2,
           j = i + 1 /\ i <= Len(s) => s[i] = "comma", j <= Len(s) => s[j] = "quote"
    PROVE  KeyAt(s, i) = IF j <= Len(s) THEN j ELSE Len(s) + 1
<1> DEFINE places == {k \in i .. Len(s) : s[k] \in {"quote", "close"}}
<1>1. Len(s) \in Nat
  BY LenProperties DEF Text
<1>2. places \in SUBSET (1 .. Len(s)) /\ \A y \in places : y >= j
  BY <1>1
<1>3. KeyAt(s, i) = Seek(s, places)
  BY DEF KeyAt
<1>4. CASE j <= Len(s)
  <2>1. j \in places
    BY <1>1, <1>4
  <2> HIDE DEF places
  <2> QED
    BY <1>2, <1>3, <1>4, <2>1, SeekFinds
<1>5. CASE j > Len(s)
  <2>1. places = {}
    BY <1>1, <1>2, <1>5
  <2>2. KeyAt(s, i) = Len(s) + 1
    BY <1>3, <2>1, SeekEnds
  <2> QED
    BY <1>1, <1>5, <2>2
<1> QED
  BY <1>1, <1>4, <1>5

(* The value is found after the colon. *)
LEMMA ValueFound ==
    ASSUME NEW s \in Text, NEW i, NEW e \in Nat \ {0}, e = KeyEnd(s, i),
           e + 1 <= Len(s) => s[e + 1] = "colon", e + 2 <= Len(s) => s[e + 2] = "open"
    PROVE  ValueAt(s, i) = IF e + 2 <= Len(s) THEN e + 2 ELSE Len(s) + 1
<1> DEFINE places == {k \in e + 1 .. Len(s) : s[k] = "open"}
<1>1. Len(s) \in Nat
  BY LenProperties DEF Text
<1>2. places \in SUBSET (1 .. Len(s)) /\ \A y \in places : y >= e + 2
  BY <1>1
<1>3. ValueAt(s, i) = Seek(s, places)
  BY DEF ValueAt
<1>4. CASE e + 2 <= Len(s)
  <2>1. e + 2 \in places
    BY <1>1, <1>4
  <2> HIDE DEF places
  <2> QED
    BY <1>2, <1>3, <1>4, <2>1, SeekFinds
<1>5. CASE e + 2 > Len(s)
  <2>1. places = {}
    BY <1>1, <1>2, <1>5
  <2>2. ValueAt(s, i) = Len(s) + 1
    BY <1>3, <2>1, SeekEnds
  <2> QED
    BY <1>1, <1>5, <2>2
<1> QED
  BY <1>1, <1>4, <1>5

(* So read, an entry is the one written. *)
LEMMA StandingEntryIsRead ==
    ASSUME NEW s \in Text, NEW i \in Nat \ {0}, NEW j \in {i, i + 1}, i <= Len(s) + 2,
           NEW path \in Text, NEW p \in Record, NEW e, NEW r, e = Esc(path), r = RecordText(p),
           j = i + 1 /\ i <= Len(s) => s[i] = "comma", Stands(s, j, e, r),
           NEW last, last = j + 2 + Len(e) + Len(r)
    PROVE  IsReadTo(s, i, last, <<path, p>>)
<1> SUFFICES /\ last <= Len(s) => /\ ~Over(s, i) /\ ValueEnd(s, i) = last
                                 /\ EntryRead(s, i) = <<path, p>>
             /\ last > Len(s) => Over(s, i)
  BY DEF IsReadTo
<1>1. e \in Text /\ r \in Text /\ Lies(r, Esc(p.name), p.page)
  BY EscReads, RecordLies
<1>2. Len(s) \in Nat /\ Len(e) \in Nat /\ Len(r) \in Nat \ {0} /\ r[1] = "open"
  <2>1. Len(Esc(p.name)) \in Nat
    BY EscReads, LenProperties DEF Record, Text
  <2> QED
    BY <1>1, <2>1, LenProperties DEF Text, Lies
<1>3. /\ j <= Len(s) => s[j] = "quote"
      /\ Holds(s, j + 1, e)
      /\ j + 1 + Len(e) <= Len(s) => s[j + 1 + Len(e)] = "quote"
      /\ j + 2 + Len(e) <= Len(s) => s[j + 2 + Len(e)] = "colon"
      /\ Holds(s, j + 3 + Len(e), r)
  BY DEF Stands
<1>4. KeyAt(s, i) = IF j <= Len(s) THEN j ELSE Len(s) + 1
  BY <1>3, KeyFound
<1>5. CASE j > Len(s)
  BY <1>2, <1>4, <1>5 DEF Over
<1>6. CASE j <= Len(s) /\ j + 3 + Len(e) > Len(s)
  <2>1. PICK k \in Nat \ {0} : k = KeyEnd(s, i) /\ (k = j + 1 + Len(e) \/ k = Len(s) + 1)
    <3>1. j + 1 \in 1 .. Len(s) + 1 /\ j + 1 + Len(e) = (j + 1) + Len(e)
      BY <1>2, <1>6
    <3>2. ReadsAs(e, [esc |-> FALSE, out |-> path]) /\ ~[esc |-> FALSE, out |-> path].esc
      BY EscReads
    <3>3. StringEnd(s, j + 1) = IF (j + 1) + Len(e) <= Len(s) THEN (j + 1) + Len(e) ELSE Len(s) + 1
      BY <1>1, <1>3, <3>1, <3>2, ClosingQuote
    <3>4. KeyEnd(s, i) = StringEnd(s, j + 1)
      BY <1>4, <1>6 DEF KeyEnd
    <3> QED
      BY <1>2, <3>1, <3>3, <3>4
  <2>2. /\ k + 1 <= Len(s) => s[k + 1] = "colon"
        /\ ~(k + 2 <= Len(s))
    <3>1. CASE k = j + 1 + Len(e)
      <4>1. k + 1 = j + 2 + Len(e) /\ k + 2 = j + 3 + Len(e)
        BY <1>2, <3>1
      <4> QED
        BY <1>2, <1>3, <1>6, <4>1
    <3>2. CASE k = Len(s) + 1
      BY <1>2, <3>2
    <3> QED
      BY <2>1, <3>1, <3>2
  <2>3. ValueAt(s, i) = Len(s) + 1
    BY <2>1, <2>2, ValueFound
  <2>4. Over(s, i)
    BY <1>2, <2>3 DEF Over
  <2> QED
    BY <1>2, <1>6, <2>4
<1>7. CASE j + 3 + Len(e) <= Len(s)
  <2> DEFINE k == j + 1 + Len(e)
             v == j + 3 + Len(e)
  <2>1. k = KeyEnd(s, i) /\ k \in Nat \ {0} /\ j <= Len(s)
    <3>1. j + 1 \in 1 .. Len(s) + 1 /\ k = (j + 1) + Len(e) /\ k <= Len(s) /\ k \in Nat \ {0}
          /\ j <= Len(s)
      BY <1>2, <1>7
    <3>2. ReadsAs(e, [esc |-> FALSE, out |-> path]) /\ ~[esc |-> FALSE, out |-> path].esc
      BY EscReads
    <3>3. StringEnd(s, j + 1) = IF (j + 1) + Len(e) <= Len(s) THEN (j + 1) + Len(e) ELSE Len(s) + 1
      <4> HIDE DEF k
      <4>1. (j + 1) + Len(e) <= Len(s) => s[(j + 1) + Len(e)] = "quote"
        BY <1>3, <3>1 DEF k
      <4> QED
        BY <1>1, <1>3, <3>1, <3>2, <4>1, ClosingQuote
    <3>4. KeyEnd(s, i) = StringEnd(s, j + 1)
      BY <1>4, <3>1 DEF KeyEnd
    <3> QED
      BY <3>1, <3>3, <3>4
  <2>2. ValueAt(s, i) = v /\ v \in 1 .. Len(s)
    <3>1. k + 1 = j + 2 + Len(e) /\ k + 2 = v /\ v \in 1 .. Len(s)
      BY <1>2, <1>7
    <3>2. s[v] = "open"
      <4>1. 1 \in 1 .. Len(r) /\ v + 1 - 1 = v
        BY <1>2, <3>1
      <4> QED
        BY <1>2, <1>3, <1>7, <4>1 DEF Holds
    <3>3. s[k + 1] = "colon"
      BY <1>2, <1>3, <1>7, <3>1
    <3>4. k + 2 <= Len(s)
      BY <1>2, <3>1
    <3> HIDE DEF k, v
    <3> QED
      BY <2>1, <3>1, <3>2, <3>3, <3>4, ValueFound
  <2>3. ValueEnd(s, i) = IF last <= Len(s) THEN last ELSE Len(s) + 1
    <3>1. ObjectEnd(s, v) = IF v + Len(r) - 1 <= Len(s) THEN v + Len(r) - 1 ELSE Len(s) + 1
      BY <1>3, <2>2, ObjectEnds
    <3>2. v + Len(r) - 1 = last
      BY <1>2
    <3> HIDE DEF v
    <3> QED
      BY <2>2, <3>1, <3>2 DEF ValueEnd
  <2>4. CASE last > Len(s)
    <3>1. ValueEnd(s, i) > Len(s)
      BY <1>2, <2>3, <2>4
    <3> QED
      BY <1>2, <2>4, <3>1 DEF Over
  <2>5. CASE last <= Len(s)
    <3>1. KeyAt(s, i) = j /\ s[j] = "quote" /\ ValueEnd(s, i) = last
      BY <1>3, <1>4, <2>1, <2>3, <2>5
    <3>2. ~Over(s, i)
      BY <1>2, <2>2, <2>5, <3>1 DEF Over
    <3>3. SubSeq(s, j + 1, k - 1) = e
      <4>1. k - 1 = (j + 1) + Len(e) - 1 /\ (j + 1) + Len(e) - 1 <= Len(s) /\ j + 1 \in Nat \ {0}
        BY <1>2, <1>7
      <4>2. SubSeq(s, j + 1, (j + 1) + Len(e) - 1) = e
        BY <1>1, <1>3, <4>1, HoldsWhole
      <4> QED
        BY <4>1, <4>2
    <3>4. SubSeq(s, v, last) = r
      <4>1. last = v + Len(r) - 1 /\ v \in Nat \ {0}
        BY <1>2
      <4>2. Holds(s, v, r) /\ v + Len(r) - 1 <= Len(s)
        BY <1>3, <2>5, <4>1
      <4> HIDE DEF v
      <4>3. SubSeq(s, v, v + Len(r) - 1) = r
        BY <1>1, <4>1, <4>2, HoldsWhole
      <4> QED
        BY <4>1, <4>3
    <3>5. Unesc(SubSeq(s, j + 1, k - 1)) = path /\ ParseProgressObj(SubSeq(s, v, last)) = p
      BY <3>3, <3>4, UnescUndoesEsc, RecordIsReadBack
    <3> HIDE DEF k, v
    <3>6. EntryRead(s, i) = <<path, p>>
      BY <2>1, <2>2, <3>1, <3>5, Zenon DEF EntryRead
    <3> QED
      BY <1>2, <2>5, <3>1, <3>2, <3>6
  <2> QED
    BY <1>2, <2>4, <2>5
<1> QED
  BY <1>2, <1>5, <1>6, <1>7

(* What save_all writes: an entry from each mark to the next. *)
Entries == Seq(Text \X Record)
Written(map, n) == Comma(n) \o EntryText(map[n])
Marks(map, t, P) ==
    /\ P \in [0 .. Len(map) -> Nat] /\ P[0] = 1
    /\ \A n \in 1 .. Len(map) : P[n] = P[n - 1] + Len(Written(map, n))
    /\ \A n \in 1 .. Len(map) : Holds(t, P[n - 1] + 1, Written(map, n))
    /\ Len(t) = P[Len(map)] + 1 /\ t[1] = "open" /\ t[P[Len(map)] + 1] = "close"

(* What is written for an entry is text. *)
LEMMA WrittenIsText ==
    ASSUME NEW map \in Entries, NEW n \in 1 .. Len(map)
    PROVE  /\ map[n][1] \in Text /\ map[n][2] \in Record /\ map[n] = <<map[n][1], map[n][2]>>
           /\ Comma(n) \in Text /\ EntryText(map[n]) \in Text /\ Written(map, n) \in Text
           /\ Len(Comma(n)) = IF n = 1 THEN 0 ELSE 1
           /\ Len(Written(map, n)) = Len(Comma(n)) + Len(EntryText(map[n]))
<1>1. map[n] \in Text \X Record
  BY ElementOfSeq DEF Entries
<1>2. map[n][1] \in Text /\ map[n][2] \in Record /\ map[n] = <<map[n][1], map[n][2]>>
  BY <1>1
<1>3. PICK path, p : path = map[n][1] /\ p = map[n][2]
  OBVIOUS
<1>4. EntryText(map[n]) \in Text
  <2>1. map[n] = <<path, p>> /\ path \in Text /\ p \in Record
    BY <1>2, <1>3
  <2>2. 1 \in Nat \ {0}
    OBVIOUS
  <2>3. PICK t : t = EntryText(<<path, p>>)
    OBVIOUS
  <2>4. t \in Text
    BY <2>1, <2>2, <2>3, EntryStands
  <2> QED
    BY <2>1, <2>3, <2>4
<1>5. Comma(n) \in Text /\ Len(Comma(n)) = IF n = 1 THEN 0 ELSE 1
  <2>1. <<>> \in Text /\ Len(<<>>) = 0
    BY EmptySeq DEF Text
  <2>2. "comma" \in Char
    BY CharAssumption DEF ToldApart
  <2>3. <<"comma">> \in Text /\ Len(<<"comma">>) = 1
    BY <2>2, OneAndTwo DEF Text
  <2> QED
    BY <2>1, <2>3 DEF Comma
<1>6. PICK a, b : a = Comma(n) /\ b = EntryText(map[n])
  OBVIOUS
<1>7. a \o b \in Text /\ Len(a \o b) = Len(a) + Len(b)
  BY <1>4, <1>5, <1>6, ConcatProperties DEF Text
<1> QED
  BY <1>2, <1>4, <1>5, <1>6, <1>7 DEF Written

(* save_all writes entry after entry. *)
LEMMA BodyGrows ==
    ASSUME NEW map \in Entries
    PROVE  \E f \in [0 .. Len(map) -> Text] :
              /\ f[0] = <<>> /\ SaveText(map) = <<"open">> \o f[Len(map)] \o <<"close">>
              /\ \A n \in 1 .. Len(map) : f[n] = f[n - 1] \o Comma(n) \o EntryText(map[n])
<1> DEFINE D == 0 .. Len(map)
           step == [n \in 1 .. Len(map) |-> [x \in Text |-> x \o Comma(n) \o EntryText(map[n])]]
           Body(n, f) == IF n = 0 THEN <<>> ELSE f[n - 1] \o Comma(n) \o EntryText(map[n])
           body == CHOOSE f : f = [n \in D |-> Body(n, f)]
<1>1. Len(map) \in Nat
  BY LenProperties DEF Entries
<1>2. \A x, y \in Text : x \o y \in Text
  BY ConcatProperties DEF Text
<1>3. Stepwise(Text, <<>>, Len(map), step)
  <2>1. \A n \in 1 .. Len(map), x \in Text : x \o Comma(n) \o EntryText(map[n]) \in Text
    BY <1>2, WrittenIsText
  <2>2. step \in [1 .. Len(map) -> [Text -> Text]]
    BY <2>1
  <2>3. <<>> \in Text
    BY EmptySeq DEF Text
  <2> HIDE DEF step
  <2> QED
    BY <1>1, <2>2, <2>3 DEF Stepwise
<1>4. \A n \in 1 .. Len(map) : n \in D /\ n # 0 /\ n - 1 \in D
  BY <1>1
<1>5. \E g : g = [n \in D |-> Body(n, g)]
  <2>1. PICK g : Steps(g, Text, <<>>, Len(map), step)
    <3> HIDE DEF step
    <3> QED
      BY <1>3, StepsExist
  <2>2. g \in [D -> Text] /\ g[0] = <<>> /\ \A n \in 1 .. Len(map) : g[n] = step[n][g[n - 1]]
    BY <2>1 DEF Steps
  <2>3. \A n \in D : n # 0 => n \in 1 .. Len(map)
    BY <1>1
  <2> HIDE DEF D
  <2>4. \A n \in 1 .. Len(map) : g[n] = g[n - 1] \o Comma(n) \o EntryText(map[n])
    BY <1>4, <2>2
  <2> HIDE DEF step
  <2> QED
    BY <2>2, <2>3, <2>4
<1>6. body = [n \in D |-> Body(n, body)]
  BY <1>5, Zenon
<1>7. SaveText(map) = <<"open">> \o body[Len(map)] \o <<"close">>
  BY Zenon DEF SaveText
<1> HIDE DEF body
<1>8. body[0] = <<>> /\ \A n \in 1 .. Len(map) : body[n] = body[n - 1] \o Comma(n) \o EntryText(map[n])
  <2>1. 0 \in D
    BY <1>1
  <2> HIDE DEF D
  <2> QED
    BY <1>4, <1>6, <2>1
<1>9. Steps(body, Text, <<>>, Len(map), step)
  <2>1. \A n \in 1 .. Len(map) : body[n - 1] \in Text => body[n] = step[n][body[n - 1]]
    BY <1>8
  <2>2. DOMAIN body = D /\ body = [n \in D |-> body[n]]
    BY <1>6
  <2> HIDE DEF step
  <2> QED
    BY <1>3, <1>8, <2>1, <2>2, OnlySteps
<1> QED
  BY <1>7, <1>8, <1>9 DEF Steps

(* What it writes has marks. *)
LEMMA SavedHasMarks ==
    ASSUME NEW map \in Entries, NEW t, t = SaveText(map)
    PROVE  t \in Text /\ \E P : Marks(map, t, P)
<1>1. PICK f \in [0 .. Len(map) -> Text] :
              /\ f[0] = <<>> /\ t = <<"open">> \o f[Len(map)] \o <<"close">>
              /\ \A n \in 1 .. Len(map) : f[n] = f[n - 1] \o Comma(n) \o EntryText(map[n])
  BY BodyGrows
<1>2. PICK N \in Nat : N = Len(map)
  BY LenProperties DEF Entries
<1>3. /\ \A n \in 0 .. N : f[n] \in Text /\ Len(f[n]) \in Nat
      /\ \A n \in 1 .. N : n - 1 \in 0 .. N /\ n \in 0 .. N
  <2>1. \A n \in 0 .. N : f[n] \in Text
    BY <1>2
  <2> QED
    BY <2>1, LenProperties DEF Text
<1>4. ASSUME NEW n \in 1 .. N
      PROVE  /\ Written(map, n) \in Text /\ f[n] = f[n - 1] \o Written(map, n)
             /\ Len(f[n]) = Len(f[n - 1]) + Len(Written(map, n))
  <2>1. PICK a, b : a = Comma(n) /\ b = EntryText(map[n])
    OBVIOUS
  <2>2. a \in Text /\ b \in Text /\ a \o b \in Text /\ Written(map, n) = a \o b
    BY <1>2, <2>1, WrittenIsText DEF Written
  <2>3. f[n] = (f[n - 1] \o a) \o b
    BY <1>1, <1>2, <2>1
  <2>4. f[n - 1] \in Seq(Char) /\ a \in Seq(Char) /\ b \in Seq(Char)
    BY <1>3, <2>2 DEF Text
  <2>5. f[n] = f[n - 1] \o (a \o b)
    <3>1. PICK x : x = f[n - 1]
      OBVIOUS
    <3>2. x \in Seq(Char)
      BY <2>4, <3>1
    <3>3. a \in Seq(Char) /\ b \in Seq(Char)
      BY <2>4
    <3>4. (x \o a) \o b = x \o (a \o b)
      BY <3>2, <3>3, ConcatAssociative
    <3> QED
      BY <2>3, <3>1, <3>4
  <2>6. Len(f[n - 1] \o (a \o b)) = Len(f[n - 1]) + Len(a \o b)
    BY <2>2, <2>4, ConcatProperties DEF Text
  <2> QED
    BY <2>2, <2>5, <2>6
<1>5. PICK o, c, b, u : o = <<"open">> /\ c = <<"close">> /\ b = f[N] /\ u = o \o b
  OBVIOUS
<1>6. /\ o \in Text /\ Len(o) = 1 /\ o[1] = "open" /\ c \in Text /\ Len(c) = 1 /\ c[1] = "close"
      /\ b \in Text /\ Len(b) \in Nat
  <2>1. "open" \in Char /\ "close" \in Char
    BY CharAssumption DEF ToldApart
  <2> QED
    BY <1>3, <1>5, <2>1, OneAndTwo DEF Text
<1>7. t = u \o c
  BY <1>1, <1>2, <1>5
<1>8. u \in Text /\ Joined(u, o, b) /\ t \in Text /\ Joined(t, u, c)
  <2>1. u \in Text /\ Joined(u, o, b)
    BY <1>5, <1>6, JoinedSeq DEF Text
  <2> QED
    BY <1>6, <1>7, <2>1, JoinedSeq DEF Text
<1>9. Len(u) = 1 + Len(b) /\ Len(t) = 2 + Len(b) /\ t[1] = "open" /\ t[2 + Len(b)] = "close"
  <2>1. Len(u) = 1 + Len(b) /\ u[1] = "open"
    BY <1>6, <1>8 DEF Joined
  <2>2. Len(t) = 2 + Len(b) /\ 1 \in 1 .. Len(u) /\ 1 \in 1 .. Len(c) /\ Len(u) + 1 = 2 + Len(b)
    BY <1>6, <1>8, <2>1 DEF Joined
  <2>3. t[1] = u[1] /\ t[Len(u) + 1] = c[1]
    BY <1>8, <2>2 DEF Joined
  <2> QED
    BY <1>6, <2>1, <2>2, <2>3
<1>10. Holds(t, 2, b)
  <2>1. ASSUME NEW k \in 1 .. Len(b) PROVE t[2 + k - 1] = b[k]
    <3>1. 1 + k \in 1 .. Len(u) /\ 2 + k - 1 = 1 + k
      BY <1>6, <1>9
    <3>2. t[1 + k] = u[1 + k] /\ u[1 + k] = b[k]
      BY <1>6, <1>8, <3>1 DEF Joined
    <3> QED
      BY <3>1, <3>2
  <2> QED
    BY <2>1 DEF Holds
<1> DEFINE G == {m \in 0 .. N : Holds(t, 2, f[N - m])}
<1>11. 0 \in G
  BY <1>2, <1>5, <1>10
<1>12. ASSUME NEW m \in 1 .. N, m - 1 \in G PROVE m \in G
  <2>1. PICK n \in 1 .. N : n = N - (m - 1) /\ n - 1 = N - m
    <3>1. N - (m - 1) \in 1 .. N /\ (N - (m - 1)) - 1 = N - m
      OBVIOUS
    <3> QED
      BY <3>1
  <2>2. Holds(t, 2, f[n])
    BY <1>12, <2>1
  <2>3. Holds(t, 2, f[n - 1] \o Written(map, n))
    BY <1>4, <2>2
  <2>4. f[n - 1] \in Text /\ Written(map, n) \in Text /\ Len(t) \in Nat /\ 2 \in Int
    BY <1>3, <1>4, <1>6, <1>9
  <2>5. Holds(t, 2, f[n - 1])
    BY <2>3, <2>4, HoldsJoined, Zenon
  <2> QED
    BY <2>1, <2>5
<1> HIDE DEF G
<1>13. \A m \in 0 .. N : m \in G
  BY <1>11, <1>12, CountingUpTo
<1>14. ASSUME NEW n \in 1 .. N PROVE Holds(t, 2 + Len(f[n - 1]), Written(map, n))
  <2>1. PICK m \in 0 .. N : N - m = n
    <3>1. N - n \in 0 .. N /\ N - (N - n) = n
      OBVIOUS
    <3> QED
      BY <3>1
  <2>2. Holds(t, 2, f[n])
    BY <1>13, <2>1 DEF G
  <2>3. Holds(t, 2, f[n - 1] \o Written(map, n))
    BY <1>4, <2>2
  <2>4. f[n - 1] \in Text /\ Written(map, n) \in Text /\ Len(t) \in Nat /\ 2 \in Int
    BY <1>3, <1>4, <1>6, <1>9
  <2> QED
    BY <2>3, <2>4, HoldsJoined, Zenon
<1>15. PICK P : P = [n \in 0 .. N |-> 1 + Len(f[n])]
  OBVIOUS
<1>16. P \in [0 .. N -> Nat] /\ \A n \in 0 .. N : P[n] = 1 + Len(f[n])
  BY <1>3, <1>15
<1>17. P[0] = 1
  <2>1. Len(f[0]) = 0 /\ 0 \in 0 .. N
    BY <1>1, EmptySeq
  <2> QED
    BY <1>16, <2>1
<1>18. ASSUME NEW n \in 1 .. N
       PROVE  P[n] = P[n - 1] + Len(Written(map, n)) /\ Holds(t, P[n - 1] + 1, Written(map, n))
  <2>1. P[n] = 1 + Len(f[n]) /\ P[n - 1] = 1 + Len(f[n - 1])
    BY <1>3, <1>16
  <2>2. Len(f[n - 1]) \in Nat /\ Len(Written(map, n)) \in Nat
    BY <1>3, <1>4, LenProperties DEF Text
  <2>3. P[n - 1] + 1 = 2 + Len(f[n - 1])
    BY <2>1, <2>2
  <2>4. P[n] = P[n - 1] + Len(Written(map, n))
    <3>1. Len(f[n]) = Len(f[n - 1]) + Len(Written(map, n))
      BY <1>4
    <3> QED
      BY <2>1, <2>2, <3>1
  <2>5. Holds(t, P[n - 1] + 1, Written(map, n))
    BY <1>14, <2>3
  <2> QED
    BY <2>4, <2>5
<1>19. Len(t) = P[N] + 1 /\ P[N] + 1 = 2 + Len(b)
  BY <1>5, <1>6, <1>9, <1>16
<1>20. Marks(map, t, P)
  BY <1>2, <1>9, <1>16, <1>17, <1>18, <1>19 DEF Marks
<1> QED
  BY <1>8, <1>20

(* Marks rise. *)
LEMMA MarksRise ==
    ASSUME NEW map \in Entries, NEW t, NEW P, Marks(map, t, P),
           NEW j \in 0 .. Len(map), NEW i \in 0 .. j
    PROVE  P[i] <= P[j] /\ (i < j => P[i] < P[j])
<1>1. PICK N \in Nat : N = Len(map)
  BY LenProperties DEF Entries
<1>2. \A n \in 0 .. N : P[n] \in Nat
  BY <1>1 DEF Marks
<1>3. ASSUME NEW n \in 1 .. N PROVE P[n - 1] < P[n] /\ P[n] \in Nat /\ P[n - 1] \in Nat
  <2>1. PICK a, b : a = Len(Comma(n)) /\ b = Len(EntryText(map[n]))
    OBVIOUS
  <2>2. a \in Nat /\ b \in Nat /\ Len(Written(map, n)) = a + b
    BY <1>1, <2>1, WrittenIsText, LenProperties DEF Text
  <2>3. b > 0
    <3>1. PICK path \in Text, p \in Record : map[n] = <<path, p>>
      BY <1>1, WrittenIsText
    <3>2. b = Len(Esc(path)) + 3 + Len(RecordText(p))
      <4>1. PICK s : s \in Text
        BY EmptySeq DEF Text
      <4>2. PICK u : u = EntryText(<<path, p>>)
        OBVIOUS
      <4>3. 1 \in Nat \ {0}
        OBVIOUS
      <4>4. Len(u) = Len(Esc(path)) + 3 + Len(RecordText(p))
        BY <4>1, <4>2, <4>3, EntryStands
      <4> QED
        BY <2>1, <3>1, <4>2, <4>4
    <3>3. Len(Esc(path)) \in Nat /\ Len(RecordText(p)) \in Nat
      BY EscReads, RecordLies, LenProperties DEF Text
    <3> QED
      BY <3>2, <3>3
  <2>4. P[n] = P[n - 1] + (a + b)
    BY <1>1, <2>2 DEF Marks
  <2>5. n \in 0 .. N /\ n - 1 \in 0 .. N
    BY <1>1
  <2> QED
    BY <1>2, <2>2, <2>3, <2>4, <2>5
<1> DEFINE G == {n \in 0 .. N : \A k \in 0 .. n : P[k] <= P[n] /\ (k < n => P[k] < P[n])}
<1>4. 0 \in G
  <2>1. \A k \in 0 .. 0 : k = 0
    OBVIOUS
  <2> QED
    BY <1>1, <1>2, <2>1
<1>5. ASSUME NEW n \in 1 .. N, n - 1 \in G PROVE n \in G
  <2>1. P[n - 1] < P[n] /\ P[n] \in Nat /\ P[n - 1] \in Nat
    BY <1>3
  <2>2. ASSUME NEW k \in 0 .. n PROVE P[k] <= P[n] /\ (k < n => P[k] < P[n])
    <3>1. CASE k = n
      BY <2>1, <3>1
    <3>2. CASE k # n
      <4>1. k \in 0 .. n - 1 /\ k \in 0 .. N
        BY <1>1, <3>2
      <4>2. P[k] <= P[n - 1] /\ P[k] \in Nat
        BY <1>2, <1>5, <4>1
      <4> QED
        BY <2>1, <4>2
    <3> QED
      BY <3>1, <3>2
  <2>3. n \in 0 .. N
    BY <1>1
  <2> QED
    BY <2>2, <2>3
<1> HIDE DEF G
<1>6. \A n \in 0 .. N : n \in G
  BY <1>1, <1>4, <1>5, CountingUpTo
<1>7. j \in G
  BY <1>1, <1>6
<1> QED
  BY <1>7 DEF G

(* The entries a text cut at n still has whole. *)
WholeTo(map, P, n, w) ==
    w \in 0 .. Len(map) /\ \A i \in 1 .. Len(map) : P[i] <= n <=> i <= w

(* A cut leaves the first entries whole. *)
LEMMA SomeAreWhole ==
    ASSUME NEW map \in Entries, NEW t, NEW P, Marks(map, t, P), NEW n \in Nat
    PROVE  \E w : WholeTo(map, P, n, w)
<1>1. PICK N \in Nat : N = Len(map)
  BY LenProperties DEF Entries
<1>2. \A i \in 0 .. N : P[i] \in Nat
  BY <1>1 DEF Marks
<1>3. \A j \in 0 .. N : \A i \in 0 .. j : P[i] <= P[j]
  BY <1>1, MarksRise
<1> DEFINE I == {i \in 1 .. N : P[i] > n} \cup {N + 1}
<1>4. I \in SUBSET Nat /\ I # {}
  BY <1>1
<1>5. PICK m \in I : \A i \in I : m <= i
  <2> HIDE DEF I
  <2> QED
    BY <1>4, LeastPosition
<1>6. m \in 1 .. N + 1
  BY <1>1
<1>7. ASSUME NEW i \in 1 .. N PROVE P[i] <= n <=> i <= m - 1
  <2>1. i \in 0 .. N /\ P[i] \in Nat
    BY <1>1, <1>2
  <2>2. CASE P[i] > n
    <3>1. i \in I
      BY <2>2
    <3>2. m <= i
      BY <1>5, <3>1
    <3> QED
      BY <1>6, <2>1, <2>2, <3>2
  <2>3. CASE ~(P[i] > n)
    <3>1. i < m
      <4> SUFFICES ASSUME i >= m PROVE FALSE
        BY <1>6
      <4>1. m \in 1 .. N /\ P[m] > n
        BY <1>1, <1>6
      <4>2. P[m] <= P[i] /\ P[m] \in Nat
        <5>1. m \in 0 .. i /\ m \in 0 .. N
          BY <1>1, <4>1
        <5> QED
          BY <1>2, <1>3, <2>1, <5>1
      <4> QED
        BY <2>1, <2>3, <4>1, <4>2
    <3> QED
      BY <1>6, <2>1, <2>3, <3>1
  <2> QED
    BY <2>2, <2>3
<1>8. m - 1 \in 0 .. N
  BY <1>1, <1>6
<1> QED
  BY <1>1, <1>7, <1>8 DEF WholeTo

(* Marks do not depend on what follows. *)
LEMMA MarksOfPart ==
    ASSUME NEW map \in Entries, NEW t, NEW P, Marks(map, t, P), NEW i \in 1 .. Len(map)
    PROVE  Len(SaveText(SubSeq(map, 1, i))) = P[i] + 1
<1>1. PICK part, u : part = SubSeq(map, 1, i) /\ u = SaveText(part)
  OBVIOUS
<1>2. Len(map) \in Nat /\ i \in 0 .. Len(map) /\ i \in Nat
  BY LenProperties DEF Entries
<1>3. part \in Entries /\ Len(part) = i /\ \A k \in 1 .. i : part[k] = map[k]
  BY <1>1, <1>2, FrontOfSeq DEF Entries
<1>4. PICK Q : Marks(part, u, Q)
  BY <1>1, <1>3, SavedHasMarks
<1> DEFINE G == {n \in 0 .. i : Q[n] = P[n]}
<1>5. 0 \in G
  BY <1>2, <1>4 DEF Marks
<1>6. ASSUME NEW n \in 1 .. i, n - 1 \in G PROVE n \in G
  <2>1. n \in 1 .. Len(map) /\ n \in 1 .. Len(part) /\ n \in 0 .. i
    BY <1>2, <1>3
  <2>2. Written(part, n) = Written(map, n)
    BY <1>3 DEF Written
  <2>3. Q[n] = Q[n - 1] + Len(Written(part, n)) /\ P[n] = P[n - 1] + Len(Written(map, n))
    BY <1>4, <2>1 DEF Marks
  <2> QED
    BY <1>6, <2>1, <2>2, <2>3
<1> HIDE DEF G
<1>7. \A n \in 0 .. i : n \in G
  BY <1>2, <1>5, <1>6, CountingUpTo
<1>8. Q[i] = P[i]
  BY <1>2, <1>7 DEF G
<1>9. Len(u) = Q[i] + 1
  BY <1>3, <1>4 DEF Marks
<1> QED
  BY <1>1, <1>8, <1>9

(* Their number is that of the texts of fewer entries that fit, but for the brace. *)
LEMMA WholeIsCounted ==
    ASSUME NEW map \in Entries, NEW t, NEW P, Marks(map, t, P), NEW n \in Nat, NEW w,
           WholeTo(map, P, n, w)
    PROVE  Cardinality({i \in DOMAIN map : Len(SaveText(SubSeq(map, 1, i))) <= n + 1}) = w
<1>1. Len(map) \in Nat /\ DOMAIN map = 1 .. Len(map)
  BY LenProperties DEF Entries
<1>2. \A i \in 1 .. Len(map) : P[i] \in Nat
  BY <1>1 DEF Marks
<1>3. w \in 0 .. Len(map) /\ \A i \in 1 .. Len(map) : P[i] <= n <=> i <= w
  BY DEF WholeTo
<1>4. \A i \in 1 .. Len(map) : Len(SaveText(SubSeq(map, 1, i))) <= n + 1 <=> P[i] <= n
  <2> SUFFICES ASSUME NEW i \in 1 .. Len(map)
               PROVE  Len(SaveText(SubSeq(map, 1, i))) <= n + 1 <=> P[i] <= n
    OBVIOUS
  <2>1. Len(SaveText(SubSeq(map, 1, i))) = P[i] + 1
    BY MarksOfPart
  <2> QED
    BY <1>2, <2>1
<1>5. {i \in DOMAIN map : Len(SaveText(SubSeq(map, 1, i))) <= n + 1} = {i \in 1 .. Len(map) : i <= w}
  BY <1>1, <1>3, <1>4
<1>6. {i \in 1 .. Len(map) : i <= w} = 1 .. w /\ w \in Nat
  BY <1>1, <1>3
<1> QED
  BY <1>5, <1>6, IntervalSize

(* What is cut goes on as the whole does. *)
LEMMA HoldsCut ==
    ASSUME NEW t \in Text, NEW n \in 0 .. Len(t), NEW s, s = SubSeq(t, 1, n),
           NEW i \in Nat \ {0}, NEW e \in Text, Holds(t, i, e)
    PROVE  Holds(s, i, e)
<1>1. Len(t) \in Nat /\ Len(e) \in Nat /\ Len(s) = n /\ \A k \in 1 .. n : s[k] = t[k]
  BY LenProperties, FrontOfSeq DEF Text
<1>2. ASSUME NEW k \in 1 .. Len(e), i + k - 1 <= Len(s) PROVE s[i + k - 1] = e[k]
  <2>1. i + k - 1 \in 1 .. n /\ i + k - 1 <= Len(t)
    BY <1>1, <1>2
  <2> QED
    BY <1>1, <2>1 DEF Holds
<1> QED
  BY <1>2 DEF Holds

(* So it is from the mark before an entry to that after it. *)
MarkIsRead(map, P, s, k) == IsReadTo(s, P[k - 1] + 1, P[k], map[k])

(* Between two marks stands an entry, which is read if it is whole. *)
LEMMA MarkedEntryIsRead ==
    ASSUME NEW map \in Entries, NEW t \in Text, NEW P, Marks(map, t, P), NEW n \in 0 .. Len(t),
           NEW s, s = SubSeq(t, 1, n), NEW k \in 1 .. Len(map), P[k - 1] <= n + 1
    PROVE  MarkIsRead(map, P, s, k)
<1>1. s \in Text /\ Len(s) = n /\ n \in Nat
  BY LenProperties, FrontOfSeq DEF Text
<1>2. PICK path \in Text, p \in Record : map[k] = <<path, p>>
  BY WrittenIsText
<1>3. PICK e, r, c, u, i : /\ e = Esc(path) /\ r = RecordText(p) /\ c = Comma(k)
                           /\ u = EntryText(<<path, p>>) /\ i = P[k - 1] + 1
  OBVIOUS
<1>4. P[k - 1] \in Nat /\ P[k] = P[k - 1] + Len(Written(map, k)) /\ Holds(t, i, Written(map, k))
  <2>1. k - 1 \in 0 .. Len(map)
    BY LenProperties DEF Entries
  <2> QED
    BY <1>3, <2>1 DEF Marks
<1>5. /\ c \in Text /\ u \in Text /\ Written(map, k) \in Text
      /\ Len(c) = (IF k = 1 THEN 0 ELSE 1) /\ Len(Written(map, k)) = Len(c) + Len(u)
  BY <1>2, <1>3, WrittenIsText
<1>6. PICK j : j = i + Len(c)
  OBVIOUS
<1>7. i \in Nat \ {0} /\ i <= Len(s) + 2 /\ j \in Nat \ {0} /\ j \in {i, i + 1}
  <2>1. i \in Nat \ {0} /\ i <= Len(s) + 2
    <3>1. P[k - 1] \in Nat /\ P[k - 1] <= n + 1 /\ i = P[k - 1] + 1
      BY <1>3, <1>4
    <3> QED
      BY <1>1, <3>1
  <2>2. PICK l : l = Len(c)
    OBVIOUS
  <2>3. l = 0 \/ l = 1
    BY <1>5, <2>2
  <2>4. j = i + l
    BY <1>6, <2>2
  <2> QED
    BY <2>1, <2>3, <2>4
<1>8. Holds(s, i, Written(map, k))
  BY <1>4, <1>5, <1>7, HoldsCut
<1>9. Holds(s, i, c) /\ Holds(s, j, u)
  <2>1. Holds(s, i, c \o u)
    BY <1>2, <1>3, <1>8 DEF Written
  <2>2. i \in Int /\ Len(s) \in Nat
    BY <1>1, <1>7
  <2>3. Holds(s, i, c) /\ Holds(s, i + Len(c), u)
    BY <1>5, <2>1, <2>2, HoldsJoined, Zenon
  <2> QED
    BY <1>6, <2>3
<1>10. j = i + 1 /\ i <= Len(s) => s[i] = "comma"
  <2> SUFFICES ASSUME j = i + 1, i <= Len(s) PROVE s[i] = "comma"
    OBVIOUS
  <2>1. k # 1 /\ Len(c) = 1
    BY <1>5, <1>6, <1>7
  <2>2. c = <<"comma">>
    BY <1>3, <2>1 DEF Comma
  <2>3. c[1] = "comma"
    BY <2>2
  <2>4. 1 \in 1 .. Len(c) /\ i + 1 - 1 = i
    BY <1>7, <2>1
  <2> QED
    BY <1>9, <2>3, <2>4 DEF Holds
<1>11. Stands(s, j, e, r) /\ Len(u) = Len(e) + 3 + Len(r)
  <2>1. s \in Text /\ j \in Nat \ {0} /\ path \in Text /\ p \in Record /\ u = EntryText(<<path, p>>)
    BY <1>1, <1>2, <1>3, <1>7
  <2>2. /\ Len(u) = Len(Esc(path)) + 3 + Len(RecordText(p))
        /\ Holds(s, j, u) => Stands(s, j, Esc(path), RecordText(p))
    BY <2>1, EntryStands, Zenon
  <2>3. e = Esc(path) /\ r = RecordText(p) /\ Holds(s, j, u)
    BY <1>3, <1>9
  <2> QED
    BY <2>2, <2>3
<1>12. PICK last : last = j + 2 + Len(e) + Len(r)
  OBVIOUS
<1>13. last = P[k]
  <2>1. Len(e) \in Nat /\ Len(r) \in Nat /\ Len(c) \in Nat
    BY <1>3, <1>5, EscReads, RecordLies, LenProperties DEF Text
  <2>2. P[k - 1] \in Nat /\ i = P[k - 1] + 1 /\ j = i + Len(c)
    BY <1>3, <1>4, <1>6
  <2>3. PICK q, m, lc, lu, le, lr :
            /\ q = P[k - 1] /\ m = Len(Written(map, k))
            /\ lc = Len(c) /\ lu = Len(u) /\ le = Len(e) /\ lr = Len(r)
    OBVIOUS
  <2>4. q \in Nat /\ lc \in Nat /\ le \in Nat /\ lr \in Nat
    BY <2>1, <2>2, <2>3
  <2>5. m = lc + lu /\ lu = le + 3 + lr /\ P[k] = q + m
    BY <1>4, <1>5, <1>11, <2>3
  <2>6. i = q + 1 /\ j = i + lc /\ last = j + 2 + le + lr
    BY <1>12, <2>2, <2>3
  <2>7. P[k] = q + (lc + (le + 3 + lr))
    BY <2>5
  <2>8. last = q + (lc + (le + 3 + lr))
    BY <2>4, <2>6
  <2> QED
    BY <2>7, <2>8
<1>14. IsReadTo(s, i, last, <<path, p>>)
  <2>1. s \in Text /\ i \in Nat \ {0} /\ j \in {i, i + 1} /\ i <= Len(s) + 2
    BY <1>1, <1>7
  <2>2. path \in Text /\ p \in Record /\ e = Esc(path) /\ r = RecordText(p)
    BY <1>2, <1>3
  <2> QED
    BY <1>10, <1>11, <1>12, <2>1, <2>2, StandingEntryIsRead
<1> QED
  BY <1>2, <1>3, <1>13, <1>14 DEF MarkIsRead

(* After the last entry comes the brace, or the cut. *)
LEMMA ClosingBraceEnds ==
    ASSUME NEW map \in Entries, NEW t \in Text, NEW P, Marks(map, t, P), NEW n \in 0 .. Len(t),
           NEW s, s = SubSeq(t, 1, n)
    PROVE  Over(s, P[Len(map)] + 1)
<1>1. s \in Text /\ Len(s) = n /\ n \in Nat /\ \A k \in 1 .. n : s[k] = t[k]
  BY LenProperties, FrontOfSeq DEF Text
<1>2. PICK i : i = P[Len(map)] + 1
  OBVIOUS
<1>3. i \in Nat \ {0} /\ Len(t) = i /\ t[i] = "close"
  <2>1. Len(map) \in 0 .. Len(map)
    BY LenProperties DEF Entries
  <2>2. P[Len(map)] \in Nat
    BY <2>1 DEF Marks
  <2> QED
    BY <1>2, <2>2 DEF Marks
<1> DEFINE places == {k \in i .. Len(s) : s[k] \in {"quote", "close"}}
<1>4. places \in SUBSET (1 .. Len(s)) /\ \A y \in places : i <= y
  BY <1>1, <1>3
<1>5. KeyAt(s, i) = Seek(s, places)
  BY DEF KeyAt
<1>6. CASE i <= n
  <2>1. s[i] = "close" /\ i \in places
    BY <1>1, <1>3, <1>6
  <2> HIDE DEF places
  <2>2. KeyAt(s, i) = i
    BY <1>1, <1>4, <1>5, <2>1, SeekFinds
  <2> QED
    BY <1>2, <2>1, <2>2 DEF Over
<1>7. CASE i > n
  <2>1. places = {}
    BY <1>1, <1>3, <1>7
  <2>2. KeyAt(s, i) = Len(s) + 1
    BY <1>1, <1>5, <2>1, SeekEnds
  <2>3. KeyAt(s, i) > Len(s)
    BY <1>1, <2>2
  <2> QED
    BY <1>2, <2>3 DEF Over
<1> QED
  BY <1>1, <1>3, <1>6, <1>7

(* A cut text is read as the entries it still has whole. *)
LEMMA CutTextIsRead ==
    ASSUME NEW map \in Entries, NEW t \in Text, NEW P, Marks(map, t, P), NEW n \in 0 .. Len(t),
           NEW w, WholeTo(map, P, n, w)
    PROVE  LoadText(SubSeq(t, 1, n)) = SubSeq(map, 1, w)
<1> PICK s : s = SubSeq(t, 1, n)
  OBVIOUS
<1>1. PICK N \in Nat : N = Len(map)
  BY LenProperties DEF Entries
<1>2. s \in Text /\ Len(s) = n /\ n \in Nat /\ \A k \in 1 .. n : s[k] = t[k]
  BY LenProperties, FrontOfSeq DEF Text
<1>3. PICK from : /\ Loads(s, from)
                  /\ LoadText(s) = from[Seek(s, {k \in DOMAIN s : s[k] = "open"}) + 1]
  BY <1>2, LoadsFrom
<1>4. w \in 0 .. N /\ w \in Nat /\ \A i \in 1 .. N : P[i] <= n <=> i <= w
  BY <1>1 DEF WholeTo
<1>5. P[0] = 1 /\ \A i \in 0 .. N : P[i] \in Nat
  BY <1>1 DEF Marks
<1>6. \A i \in 0 .. w : i \in 0 .. N /\ P[i] <= n + 1
  <2> SUFFICES ASSUME NEW i \in 0 .. w PROVE i \in 0 .. N /\ P[i] <= n + 1
    OBVIOUS
  <2>1. CASE i = 0
    BY <1>1, <1>2, <1>5, <2>1
  <2>2. CASE i # 0
    <3>1. i \in 1 .. N /\ i \in 0 .. N /\ i <= w
      BY <1>1, <1>4, <2>2
    <3>2. P[i] <= n /\ P[i] \in Nat
      BY <1>4, <1>5, <3>1
    <3> QED
      BY <1>2, <3>1, <3>2
  <2> QED
    BY <2>1, <2>2
<1>7. ASSUME NEW i \in 0 .. w PROVE P[i] + 1 \in 1 .. Len(s) + 2
  <2>1. P[i] \in Nat /\ P[i] <= n + 1
    BY <1>5, <1>6
  <2> QED
    BY <1>2, <2>1
<1>8. from[P[w] + 1] = <<>>
  <2>1. Over(s, P[w] + 1)
    <3>1. CASE w = N
      BY <1>1, <3>1, ClosingBraceEnds
    <3>2. CASE w < N
      <4>1. w + 1 \in 1 .. N /\ (w + 1) - 1 = w /\ w \in 0 .. w /\ w + 1 \in 0 .. N
        BY <1>1, <1>4, <3>2
      <4>2. ~(P[w + 1] <= n) /\ P[w + 1] \in Nat
        <5>1. ~(w + 1 <= w)
          BY <1>4
        <5> QED
          BY <1>4, <1>5, <4>1, <5>1
      <4>3. P[(w + 1) - 1] <= n + 1 /\ P[w + 1] > n
        BY <1>2, <1>6, <4>1, <4>2
      <4>4. Over(s, P[(w + 1) - 1] + 1)
        <5>1. MarkIsRead(map, P, s, w + 1)
          BY <1>1, <4>1, <4>3, MarkedEntryIsRead
        <5> QED
          BY <1>2, <4>3, <5>1 DEF MarkIsRead, IsReadTo
      <4> QED
        BY <4>1, <4>4
    <3> QED
      BY <1>1, <1>4, <3>1, <3>2
  <2>2. w \in 0 .. w
    BY <1>4
  <2> QED
    BY <1>3, <1>7, <2>1, <2>2 DEF Loads
<1> DEFINE G == {m \in 0 .. w : from[P[w - m] + 1] = SubSeq(map, w - m + 1, w)}
<1>9. 0 \in G
  <2>1. w - 0 = w /\ w + 1 \in Int /\ w \in Int /\ w < w + 1 /\ 0 \in 0 .. w
    BY <1>4
  <2>2. SubSeq(map, w + 1, w) = <<>>
    BY <2>1, SubSeqEmpty
  <2> QED
    BY <1>8, <2>1, <2>2
<1>10. ASSUME NEW m \in 1 .. w, m - 1 \in G PROVE m \in G
  <2>1. PICK k : k = w - m + 1
    OBVIOUS
  <2>2. /\ k \in 1 .. N /\ k - 1 = w - m /\ k = w - (m - 1) /\ k <= w /\ w \in k .. N /\ m \in 0 .. w
        /\ k - 1 \in 0 .. w /\ k \in 1 .. Len(map) /\ w \in k .. Len(map)
    BY <1>1, <1>4, <2>1
  <2>3. from[P[k] + 1] = SubSeq(map, k + 1, w)
    BY <1>10, <2>2
  <2>4. P[k] <= n /\ P[k - 1] <= n + 1
    BY <1>4, <1>6, <2>2
  <2>5. PICK i : i = P[k - 1] + 1
    OBVIOUS
  <2>6. ~Over(s, i) /\ ValueEnd(s, i) = P[k] /\ EntryRead(s, i) = map[k]
    <3>1. k \in 1 .. Len(map) /\ P[k - 1] <= n + 1
      BY <2>2, <2>4
    <3>2. MarkIsRead(map, P, s, k)
      BY <3>1, MarkedEntryIsRead
    <3> QED
      BY <1>2, <2>4, <2>5, <3>2 DEF MarkIsRead, IsReadTo
  <2>7. i \in 1 .. Len(s) + 2
    BY <1>7, <2>2, <2>5
  <2>8. from[i] = <<map[k]>> \o from[P[k] + 1]
    <3>1. from[i] = <<EntryRead(s, i)>> \o from[ValueEnd(s, i) + 1]
      BY <1>3, <2>6, <2>7 DEF Loads
    <3> QED
      BY <2>6, <3>1
  <2>9. SubSeq(map, k, w) = <<map[k]>> \o SubSeq(map, k + 1, w)
    BY <2>2, SubSeqRecursiveFirst DEF Entries
  <2>10. from[P[w - m] + 1] = SubSeq(map, w - m + 1, w)
    BY <2>1, <2>2, <2>3, <2>5, <2>8, <2>9
  <2> QED
    BY <2>2, <2>10
<1> HIDE DEF G
<1>11. \A m \in 0 .. w : m \in G
  BY <1>4, <1>9, <1>10, CountingUpTo
<1>12. from[P[0] + 1] = SubSeq(map, 1, w)
  <2>1. w \in G /\ w - w = 0 /\ w - w + 1 = 1
    BY <1>4, <1>11
  <2>2. from[P[w - w] + 1] = SubSeq(map, w - w + 1, w)
    BY <2>1 DEF G
  <2> QED
    BY <2>1, <2>2
<1>13. Seek(s, {k \in DOMAIN s : s[k] = "open"}) = P[0]
  <2> DEFINE places == {k \in DOMAIN s : s[k] = "open"}
  <2>1. DOMAIN s = 1 .. Len(s)
    BY <1>2, LenProperties DEF Text
  <2>2. places \in SUBSET (1 .. Len(s))
    BY <2>1
  <2>3. CASE n = 0
    <3>1. places = {}
      BY <1>2, <2>1, <2>3
    <3>2. Seek(s, places) = Len(s) + 1
      BY <1>2, <3>1, SeekEnds
    <3> HIDE DEF places
    <3>3. Len(s) + 1 = 1
      BY <1>2, <2>3
    <3> QED
      BY <1>5, <3>2, <3>3 DEF places
  <2>4. CASE n # 0
    <3>1. 1 \in 1 .. Len(s) /\ s[1] = "open"
      <4>1. 1 \in 1 .. n /\ t[1] = "open"
        BY <1>2, <2>4 DEF Marks
      <4> QED
        BY <1>2, <4>1
    <3>2. 1 \in places /\ \A y \in places : 1 <= y
      BY <2>1, <2>2, <3>1
    <3> HIDE DEF places
    <3>3. Seek(s, places) = 1
      BY <1>2, <2>2, <3>2, SeekFinds
    <3> QED
      BY <1>5, <3>3 DEF places
  <2> QED
    BY <2>3, <2>4
<1> QED
  BY <1>3, <1>12, <1>13

(* So a file cut anywhere loses the entries not written whole, and no other. *)
LEMMA CutSurvived ==
    ASSUME NEW map \in Entries
    PROVE  SurvivesCut(map)
<1>1. PICK t : t = SaveText(map)
  OBVIOUS
<1>2. t \in Text /\ \E P : Marks(map, t, P)
  BY <1>1, SavedHasMarks
<1>3. PICK P : Marks(map, t, P)
  BY <1>2
<1>4. ASSUME NEW n \in 0 .. Len(t)
      PROVE  LoadText(SubSeq(t, 1, n))
             = SubSeq(map, 1, Cardinality({i \in DOMAIN map : Len(SaveText(SubSeq(map, 1, i))) <= n + 1}))
  <2>1. n \in Nat
    BY <1>2, LenProperties DEF Text
  <2>2. PICK w : WholeTo(map, P, n, w)
    BY <1>3, <2>1, SomeAreWhole
  <2>3. LoadText(SubSeq(t, 1, n)) = SubSeq(map, 1, w)
    <3>1. t \in Text /\ n \in 0 .. Len(t)
      BY <1>2
    <3>2. map \in Entries /\ Marks(map, t, P) /\ WholeTo(map, P, n, w)
      BY <1>3, <2>2
    <3> QED
      BY <3>1, <3>2, CutTextIsRead
  <2>4. Cardinality({i \in DOMAIN map : Len(SaveText(SubSeq(map, 1, i))) <= n + 1}) = w
    BY <1>3, <2>1, <2>2, WholeIsCounted
  <2> QED
    BY <2>3, <2>4
<1> QED
  BY <1>1, <1>4, Zenon DEF SurvivesCut

(* Progress file: a file that was only written in part is read as exactly  *)
(* the entries that were written whole (progress.rs, save_all, load_all).  *)
THEOREM TextIsReadBack == PureSpec => []TextSurvivesCut
<1>1. ASSUME given \in Inputs PROVE TextSurvivesCut
  <2> SUFFICES ASSUME given.kind = "text" PROVE SurvivesCut(given.map)
    BY DEF TextSurvivesCut
  <2>1. given.map \in Entries
    BY <1>1, InputsAssumption DEF OrderInput, TextInput, PageInput, NoInput, Entries
  <2> QED
    BY <2>1, CutSurvived
<1>2. given \in Inputs /\ [FALSE]_given => (given \in Inputs)'
  OBVIOUS
<1> QED
  BY <1>1, <1>2, PTL DEF PureSpec
=============================================================================
