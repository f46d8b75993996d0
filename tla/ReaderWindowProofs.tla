------------------------- MODULE ReaderWindowProofs --------------------------
(* Theorems about ReaderWindow for a book of any length, any window and    *)
(* any number of scrolls, clicks, failures and names of requests.          *)
EXTENDS ReaderWindow, RankTheorems

(* The inductive invariant. *)

(* A page shows the object URL that blobRef holds for it; *)
ShownIsBlob == \A pn \in PageNums : items[pn].url # None => items[pn].url = blob[pn]

(* those in blobRef are the ones not revoked, one for each page; *)
BlobsLive == live = {blob[pn] : pn \in PageNums} \ {None}
BlobsDistinct ==
    \A p, q \in PageNums : blob[p] # None /\ blob[p] = blob[q] => p = q

(* a request that is going on has no object URL yet; *)
FetchesFresh == \A f \in Fetches : fetch[f] # None => f \notin live

(* one that overlapped no earlier one of its page has its controller, and  *)
(* is the only one of its page;                                            *)
Alone ==
    \A f \in Fetches : fetch[f] # None /\ f \notin overlapping =>
        /\ inflight[fetch[f]] = f /\ aborted[fetch[f]] = 0
        /\ \A g \in Fetches : fetch[g] = fetch[f] => g = f

(* so that none of these is left, nor its URL, once the reader is;         *)
ClosedOverlapping ==
    ~open => /\ live \subseteq overlapping
             /\ \A f \in Fetches : fetch[f] # None => f \in overlapping

(* an <img> that is to report is shown, and nothing is once the reader is left. *)
DecodingShown == \A pn \in decoding : items[pn].url # None
ClosedEmpty == ~open => \A pn \in PageNums : items[pn].url = None

ReaderInv ==
    /\ ReaderTypeOK
    /\ TrackedAreActive
    /\ FetchesFresh
    /\ Alone
    /\ ClosedOverlapping
    /\ ShownIsBlob
    /\ BlobsLive
    /\ BlobsDistinct
    /\ DecodingShown
    /\ ClosedEmpty

(* The same, sorted by what a step touches: the requests and the images.   *)
Requests ==
    /\ inflight \in [PageNums -> Fetches \cup {None}]
    /\ fetch \in [Fetches -> PageNums \cup {None}]
    /\ overlapping \subseteq Fetches
    /\ TrackedAreActive
    /\ FetchesFresh
    /\ Alone

Blobs ==
    /\ live \subseteq Fetches
    /\ blob \in [PageNums -> Fetches \cup {None}]
    /\ BlobsLive /\ BlobsDistinct

Images ==
    /\ items \in [PageNums -> PageItem] /\ decoding \subseteq PageNums
    /\ ShownIsBlob /\ DecodingShown /\ ClosedEmpty

Counts ==
    /\ open \in BOOLEAN /\ framed \in BOOLEAN /\ scrolled \in BOOLEAN
    /\ unloadTimer \in BOOLEAN
    /\ center \in PageNums
    /\ aborted \in [PageNums -> Nat] /\ settled \in Nat
    /\ gestures \in 0 .. MaxGestures /\ failures \in 0 .. MaxFailures

LEMMA InvariantParts == ReaderInv <=> Requests /\ Blobs /\ Images /\ Counts /\ ClosedOverlapping
BY DEF ReaderInv, ReaderTypeOK, Requests, Blobs, Images, Counts

------------------------------------------------------------------------------
(* Names of requests. *)

LEMMA PagesFinite == PageNums \in SUBSET Int /\ IsFiniteSet(PageNums) /\ None \notin PageNums
<1>1. PageNums = 0 .. N - 1 /\ N - 1 \in Int
  BY ReaderAssumption DEF PageNums
<1> QED
  BY <1>1, ReaderAssumption, FS_Interval

(* Every page that starts a request gets a name of its own, which no       *)
(* request that is going on and no object URL has.                         *)
LEMMA NamesAreNew ==
    ASSUME live \subseteq Fetches, NEW S \in SUBSET PageNums,
           NEW ftc \in [Fetches -> PageNums \cup {None}],
           Cardinality(S) <= Cardinality(Unused(ftc))
    PROVE  /\ \A pn \in S : NamesFor(S, ftc)[pn] \in Unused(ftc)
           /\ \A p, q \in S : NamesFor(S, ftc)[p] = NamesFor(S, ftc)[q] => p = q
<1> DEFINE free == Unused(ftc)
           before(f) == {g \in free : g < f}
           earlier(pn) == {q \in S : q < pn}
           name(pn) == CHOOSE f \in free : Cardinality(before(f)) = Cardinality(earlier(pn))
<1>1. IsFiniteSet(free) /\ free \in SUBSET Int
  <2>1. free \in SUBSET Fetches
    BY DEF Unused
  <2> HIDE DEF free
  <2>2. IsFiniteSet(Fetches) /\ Fetches \in SUBSET Int
    BY ReaderAssumption
  <2>3. IsFiniteSet(free)
    BY <2>1, <2>2, FS_Subset
  <2> QED
    BY <2>1, <2>2, <2>3
<1>2. IsFiniteSet(S) /\ S \in SUBSET Int
  BY PagesFinite, FS_Subset
<1>3. /\ Orders(LessThan, free)
      /\ \A f \in free : Ahead(LessThan, free, f) = before(f)
  <2> HIDE DEF free
  <2> QED
    BY <1>1, IntegersOrdered
<1>4. /\ Orders(LessThan, S)
      /\ \A pn \in S : Ahead(LessThan, S, pn) = earlier(pn)
  BY <1>2, IntegersOrdered
<1>5. Cardinality(S) \in Nat /\ Cardinality(free) \in Nat
  BY <1>1, <1>2, FS_CardinalityType
<1> HIDE DEF free, earlier
<1>6. \A pn \in S : Cardinality(earlier(pn)) \in 0 .. Cardinality(free) - 1
  <2> TAKE pn \in S
  <2>1. Cardinality(Ahead(LessThan, S, pn)) \in 0 .. Cardinality(S) - 1
    BY <1>2, <1>4, AheadBounded
  <2>2. Cardinality(earlier(pn)) \in 0 .. Cardinality(S) - 1
    BY <1>4, <2>1
  <2>3. Cardinality(S) <= Cardinality(free)
    BY DEF free
  <2> QED
    BY <1>5, <2>2, <2>3
<1>7. \A pn \in S : name(pn) \in free /\ Cardinality(before(name(pn))) = Cardinality(earlier(pn))
  <2> TAKE pn \in S
  <2>1. PICK k \in 0 .. Cardinality(free) - 1 : k = Cardinality(earlier(pn))
    BY <1>6
  <2>2. \E f \in free : Cardinality(Ahead(LessThan, free, f)) = k
    BY <1>1, <1>3, EveryPlaceTaken
  <2>3. \E f \in free : Cardinality(before(f)) = Cardinality(earlier(pn))
    BY <1>3, <2>1, <2>2
  <2> QED
    BY <2>3
<1>8. \A p, q \in S : name(p) = name(q) => p = q
  <2> TAKE p, q \in S
  <2> HAVE name(p) = name(q)
  <2>1. Cardinality(earlier(p)) = Cardinality(earlier(q))
    <3> HIDE DEF name
    <3> QED
      BY <1>7
  <2>2. Cardinality(Ahead(LessThan, S, p)) = Cardinality(Ahead(LessThan, S, q))
    BY <1>4, <2>1
  <2> QED
    BY <1>2, <1>4, <2>2, AheadTellsApart
<1>9. NamesFor(S, ftc) = [pn \in S |-> name(pn)]
  BY DEF NamesFor, free, earlier
<1> HIDE DEF name
<1>10. \A pn \in S : NamesFor(S, ftc)[pn] = name(pn)
  BY <1>9
<1> QED
  BY <1>7, <1>8, <1>10 DEF free

(* Alone of the requests and controllers within a callback. *)
AloneIn(infl, ftc) ==
    \A f \in Fetches : ftc[f] # None /\ f \notin overlapping =>
        /\ infl[ftc[f]] = f /\ aborted'[ftc[f]] = 0
        /\ \A g \in Fetches : ftc[g] = ftc[f] => g = f

(* startFetch keeps the controllers and the requests in step. *)
LEMMA FetchesStarted ==
    ASSUME live \subseteq Fetches, live' \subseteq live, NEW S \in SUBSET PageNums,
           NEW infl \in [PageNums -> Fetches \cup {None}],
           NEW ftc \in [Fetches -> PageNums \cup {None}],
           \A pn \in PageNums : infl[pn] # None => ftc[infl[pn]] = pn,
           \A f \in Fetches : ftc[f] # None => f \notin live,
           overlapping \subseteq Fetches, aborted' \in [PageNums -> Nat], AloneIn(infl, ftc),
           \A pn \in S : infl[pn] = None,
           StartFetch(S, infl, ftc)
    PROVE  Requests'
<1> DEFINE name == NamesFor(S, ftc)
<1>1. /\ \A pn \in S : name[pn] \in Fetches /\ ftc[name[pn]] = None /\ name[pn] \notin live
      /\ \A p, q \in S : name[p] = name[q] => p = q
  <2>1. Cardinality(S) <= Cardinality(Unused(ftc))
    BY DEF StartFetch
  <2> QED
    BY <2>1, NamesAreNew DEF Unused
<1>2. /\ inflight' = [pn \in PageNums |-> IF pn \in S THEN name[pn] ELSE infl[pn]]
      /\ fetch' = [f \in Fetches |->
            IF \E pn \in S : f = name[pn] THEN CHOOSE pn \in S : f = name[pn] ELSE ftc[f]]
      /\ overlapping' = {f \in Fetches :
            IF \E pn \in S : f = name[pn]
            THEN \E pn \in S : f = name[pn] /\ Unfinished(pn, ftc)
            ELSE f \in overlapping}
  BY DEF StartFetch
<1> HIDE DEF name
<1>3. inflight' \in [PageNums -> Fetches \cup {None}]
  BY <1>1, <1>2
<1>4. \A pn \in S : fetch'[name[pn]] = pn
  BY <1>1, <1>2
<1>5. \A f \in Fetches : f \notin {name[pn] : pn \in S} => fetch'[f] = ftc[f]
  BY <1>2
<1>6. fetch' \in [Fetches -> PageNums \cup {None}]
  <2>1. \A f \in Fetches : fetch'[f] \in PageNums \cup {None}
    BY <1>4, <1>5
  <2>2. fetch' = [f \in Fetches |-> fetch'[f]]
    BY <1>2
  <2> QED
    BY <2>1, <2>2
<1>7. TrackedAreActive'
  <2> SUFFICES ASSUME NEW pn \in PageNums, inflight'[pn] # None
               PROVE  fetch'[inflight'[pn]] = pn
    BY DEF TrackedAreActive
  <2>1. CASE pn \in S
    BY <1>2, <1>4, <2>1
  <2>2. CASE pn \notin S
    <3>1. inflight'[pn] = infl[pn] /\ infl[pn] \in Fetches /\ ftc[infl[pn]] = pn
      BY <1>2, <2>2
    <3>2. infl[pn] \notin {name[q] : q \in S}
      BY <1>1, <3>1, PagesFinite
    <3> QED
      BY <1>5, <3>1, <3>2
  <2> QED
    BY <2>1, <2>2
<1>8. FetchesFresh'
  <2> SUFFICES ASSUME NEW f \in Fetches, fetch'[f] # None PROVE f \notin live
    BY DEF FetchesFresh
  <2>1. CASE f \in {name[q] : q \in S}
    BY <1>1, <2>1
  <2>2. CASE f \notin {name[q] : q \in S}
    BY <1>5, <2>2
  <2> QED
    BY <2>1, <2>2
<1>9. Alone'
  <2> SUFFICES ASSUME NEW f \in Fetches, fetch'[f] # None, f \notin overlapping'
               PROVE  /\ inflight'[fetch'[f]] = f /\ aborted'[fetch'[f]] = 0
                      /\ \A g \in Fetches : fetch'[g] = fetch'[f] => g = f
    BY DEF Alone
  <2>1. CASE f \in {name[q] : q \in S}
    <3>1. PICK pn \in S : f = name[pn]
      BY <2>1
    <3>2. ~Unfinished(pn, ftc)
      BY <1>2, <3>1
    <3>3. aborted'[pn] = 0
      BY <3>2 DEF Unfinished
    <3>4. \A g \in Fetches : ftc[g] # pn
      BY <3>2 DEF Unfinished
    <3>5. inflight'[pn] = f /\ fetch'[f] = pn
      BY <1>2, <1>4, <3>1
    <3>6. ASSUME NEW g \in Fetches, fetch'[g] = pn PROVE g = f
      <4>1. g \in {name[q] : q \in S}
        BY <1>5, <3>4, <3>6
      <4> QED
        BY <1>4, <3>1, <3>6, <4>1
    <3> QED
      BY <3>3, <3>5, <3>6
  <2>2. CASE f \notin {name[q] : q \in S}
    <3>1. fetch'[f] = ftc[f] /\ f \notin overlapping
      BY <1>2, <1>5, <2>2
    <3>2. PICK pn \in PageNums : pn = ftc[f]
      BY <3>1
    <3>3. /\ infl[pn] = f /\ aborted'[pn] = 0
          /\ \A g \in Fetches : ftc[g] = pn => g = f
      BY <3>1, <3>2 DEF AloneIn
    <3>4. pn \notin S
      BY <3>3, ReaderAssumption
    <3>5. inflight'[pn] = f
      BY <1>2, <3>3, <3>4
    <3>6. ASSUME NEW g \in Fetches, fetch'[g] = pn PROVE g = f
      <4>1. g \notin {name[q] : q \in S}
        BY <1>4, <3>4, <3>6
      <4> QED
        BY <1>5, <3>3, <3>6, <4>1
    <3> QED
      BY <3>1, <3>2, <3>3, <3>5, <3>6
  <2> QED
    BY <2>1, <2>2
<1>10. overlapping' \subseteq Fetches
  BY <1>2
<1> QED
  BY <1>3, <1>6, <1>7, <1>8, <1>9, <1>10 DEF Requests

(* Aborting requests leaves the others in step with their controllers. *)
LEMMA FetchesAborted ==
    ASSUME Requests, aborted \in [PageNums -> Nat], NEW S \in SUBSET PageNums, CountAborts(S)
    PROVE  /\ ForgetOf(S) \in [PageNums -> Fetches \cup {None}]
           /\ AbortedOf(S) \in [Fetches -> PageNums \cup {None}]
           /\ \A pn \in PageNums : ForgetOf(S)[pn] # None => AbortedOf(S)[ForgetOf(S)[pn]] = pn
           /\ \A f \in Fetches : AbortedOf(S)[f] # None => f \notin live
           /\ AloneIn(ForgetOf(S), AbortedOf(S))
           /\ aborted' \in [PageNums -> Nat]
<1>1. \A pn \in PageNums : ForgetOf(S)[pn] = IF pn \in S THEN None ELSE inflight[pn]
  BY DEF ForgetOf
<1>2. \A f \in Fetches :
        AbortedOf(S)[f] = IF \E pn \in S : inflight[pn] = f THEN None ELSE fetch[f]
  BY DEF AbortedOf
<1>3. ForgetOf(S) \in [PageNums -> Fetches \cup {None}]
  BY DEF ForgetOf, Requests
<1>4. AbortedOf(S) \in [Fetches -> PageNums \cup {None}]
  BY DEF AbortedOf, Requests
<1>5. ASSUME NEW pn \in PageNums, ForgetOf(S)[pn] # None
      PROVE  AbortedOf(S)[ForgetOf(S)[pn]] = pn
  <2>1. pn \notin S /\ ForgetOf(S)[pn] = inflight[pn] /\ inflight[pn] \in Fetches
    BY <1>1, <1>5 DEF Requests
  <2>2. fetch[inflight[pn]] = pn
    BY <1>5, <2>1 DEF Requests, TrackedAreActive
  <2>3. \A q \in S : inflight[q] # inflight[pn]
    BY <1>5, <2>1, <2>2 DEF Requests, TrackedAreActive
  <2> QED
    BY <1>2, <2>1, <2>2, <2>3
<1>6. \A f \in Fetches : AbortedOf(S)[f] # None => f \notin live
  BY <1>2 DEF Requests, FetchesFresh
<1>7. \A pn \in PageNums : pn \notin S => aborted'[pn] = aborted[pn]
  BY DEF CountAborts
<1>8. AloneIn(ForgetOf(S), AbortedOf(S))
  <2> SUFFICES ASSUME NEW f \in Fetches, AbortedOf(S)[f] # None, f \notin overlapping
               PROVE  /\ ForgetOf(S)[AbortedOf(S)[f]] = f /\ aborted'[AbortedOf(S)[f]] = 0
                      /\ \A g \in Fetches : AbortedOf(S)[g] = AbortedOf(S)[f] => g = f
    BY DEF AloneIn
  <2>1. AbortedOf(S)[f] = fetch[f] /\ \A q \in S : inflight[q] # f
    BY <1>2
  <2>2. PICK pn \in PageNums : pn = fetch[f]
    BY <2>1 DEF Requests
  <2>3. /\ inflight[pn] = f /\ aborted[pn] = 0
        /\ \A g \in Fetches : fetch[g] = pn => g = f
    BY <2>1, <2>2 DEF Requests, Alone
  <2>4. pn \notin S
    BY <2>1, <2>3
  <2>5. \A g \in Fetches : AbortedOf(S)[g] = pn => g = f
    BY <1>2, <2>3, PagesFinite
  <2> QED
    BY <1>1, <1>7, <2>1, <2>2, <2>3, <2>4, <2>5
<1>9. aborted' \in [PageNums -> Nat]
  BY DEF CountAborts
<1> QED
  BY <1>3, <1>4, <1>5, <1>6, <1>8, <1>9

(* Revoking object URLs takes them out of blobRef as well. *)
LEMMA BlobsRevoked ==
    ASSUME Blobs, NEW S \in SUBSET PageNums, RevokeBlobs(S)
    PROVE  /\ Blobs' /\ live' \subseteq live
           /\ \A pn \in PageNums \ S : blob'[pn] = blob[pn]
<1>1. /\ \A pn \in S : blob'[pn] = None
      /\ \A pn \in PageNums \ S : blob'[pn] = blob[pn]
      /\ live' = live \ {blob[pn] : pn \in S}
  BY DEF RevokeBlobs
<1>2. blob' \in [PageNums -> Fetches \cup {None}] /\ live' \subseteq Fetches
  BY DEF Blobs, RevokeBlobs
<1>3. BlobsDistinct'
  BY <1>1 DEF Blobs, BlobsDistinct
<1>4. BlobsLive'
  <2>1. ASSUME NEW f \in live' PROVE f # None /\ \E pn \in PageNums : blob'[pn] = f
    <3>1. PICK pn \in PageNums : blob[pn] = f /\ f # None
      BY <1>1, <2>1 DEF Blobs, BlobsLive
    <3>2. pn \notin S
      BY <1>1, <2>1, <3>1
    <3> QED
      BY <1>1, <3>1, <3>2
  <2>2. ASSUME NEW pn \in PageNums, blob'[pn] # None PROVE blob'[pn] \in live'
    <3>1. pn \notin S /\ blob'[pn] = blob[pn] /\ blob[pn] # None
      BY <1>1, <2>2
    <3>2. blob[pn] \in live
      BY <3>1 DEF Blobs, BlobsLive
    <3>3. \A q \in S : blob[q] # blob[pn]
      BY <3>1 DEF Blobs, BlobsDistinct
    <3> QED
      BY <1>1, <3>1, <3>2, <3>3
  <2> QED
    BY <2>1, <2>2 DEF BlobsLive
<1> QED
  BY <1>1, <1>2, <1>3, <1>4 DEF Blobs

(* pumpFetches starts requests for pages of the book. *)
LEMMA FetchesPumped ==
    ASSUME live \subseteq Fetches, live' \subseteq live,
           NEW its, NEW infl \in [PageNums -> Fetches \cup {None}],
           NEW ftc \in [Fetches -> PageNums \cup {None}],
           \A pn \in PageNums : infl[pn] # None => ftc[infl[pn]] = pn,
           \A f \in Fetches : ftc[f] # None => f \notin live,
           overlapping \subseteq Fetches, aborted' \in [PageNums -> Nat], AloneIn(infl, ftc),
           Pump(its, infl, ftc)
    PROVE  Requests'
<1>1. PICK S \in SUBSET {pn \in Window : Fetchable(pn, its, infl)} : StartFetch(S, infl, ftc)
  BY DEF Pump
<1>2. S \in SUBSET PageNums /\ \A pn \in S : infl[pn] = None
  BY DEF Window, Fetchable
<1> QED
  BY <1>1, <1>2, FetchesStarted

------------------------------------------------------------------------------
(* Page items. *)

LEMMA BlankPages ==
    /\ Blank \in PageItem /\ Blank.url = None
    /\ [Blank EXCEPT !.error = TRUE] \in PageItem /\ [Blank EXCEPT !.error = TRUE].url = None
    /\ [Blank EXCEPT !.shouldLoad = TRUE] \in PageItem
    /\ [Blank EXCEPT !.shouldLoad = TRUE].url = None
BY DEF Blank, PageItem

LEMMA PageChanges ==
    ASSUME NEW p \in PageItem
    PROVE  /\ [p EXCEPT !.shouldLoad = TRUE, !.error = FALSE] \in PageItem
           /\ [p EXCEPT !.shouldLoad = TRUE, !.error = FALSE].url = p.url
           /\ ~p.loaded =>
                [p EXCEPT !.shouldLoad = FALSE, !.error = FALSE, !.url = None] \in PageItem
           /\ [p EXCEPT !.shouldLoad = FALSE, !.error = FALSE, !.url = None].url = None
           /\ [p EXCEPT !.loaded = FALSE, !.error = TRUE, !.shouldLoad = FALSE] \in PageItem
           /\ [p EXCEPT !.loaded = FALSE, !.error = TRUE, !.shouldLoad = FALSE].url = p.url
           /\ p.url # None => [p EXCEPT !.loaded = TRUE, !.error = FALSE] \in PageItem
           /\ [p EXCEPT !.loaded = TRUE, !.error = FALSE].url = p.url
           /\ Unloaded(p) \in PageItem /\ Unloaded(p).url = None
BY DEF PageItem, Unloaded

LEMMA PageArrives ==
    ASSUME NEW p \in PageItem, NEW f \in Fetches
    PROVE  /\ [p EXCEPT !.shouldLoad = TRUE, !.error = FALSE, !.url = f] \in PageItem
           /\ [p EXCEPT !.shouldLoad = TRUE, !.error = FALSE, !.url = f].url = f
BY ReaderAssumption DEF PageItem

------------------------------------------------------------------------------
(* Each action preserves the invariant. *)

(* Nothing changes but positions, timers and counters. *)
LEMMA CountsChange ==
    ASSUME ReaderInv, Counts',
           UNCHANGED <<open, items, inflight, blob, fetch, aborted, live, overlapping, decoding>>
    PROVE  ReaderInv'
<1>1. Requests' /\ Blobs' /\ Images' /\ ClosedOverlapping'
  BY InvariantParts DEF Requests, TrackedAreActive, FetchesFresh, Alone, Blobs, BlobsLive,
     BlobsDistinct, Images, ShownIsBlob, DecodingShown, ClosedEmpty, ClosedOverlapping
<1> QED
  BY <1>1, InvariantParts DEF ReaderInv, ReaderTypeOK, Requests, Blobs, Images, Counts

LEMMA ScrollKeeps ==
    ASSUME ReaderInv, NEW pn \in PageNums, Scroll(pn)
    PROVE  ReaderInv'
<1>1. Counts'
  BY InvariantParts, ReaderAssumption DEF Counts, Scroll
<1> QED
  BY <1>1, CountsChange DEF Scroll

(* syncLoadWindow revokes the URLs of exactly the pages that lose theirs. *)
LEMMA SyncKeeps ==
    ASSUME ReaderInv, open, open', SyncLoadWindow
    PROVE  /\ Requests' /\ Blobs' /\ Images'
           /\ aborted' \in [PageNums -> Nat] /\ settled' = settled
<1>1. Requests /\ Blobs /\ Images /\ Counts /\ ClosedOverlapping
  BY InvariantParts
<1>2. Dropped \in SUBSET PageNums /\ Stray \in SUBSET PageNums /\ Window \subseteq PageNums
  BY DEF Dropped, Stray, Window
<1>3. /\ Blobs' /\ live' \subseteq live
      /\ \A pn \in PageNums \ Dropped : blob'[pn] = blob[pn]
  BY <1>1, <1>2, BlobsRevoked DEF SyncLoadWindow
<1>4. /\ ForgetOf(Stray) \in [PageNums -> Fetches \cup {None}]
      /\ AbortedOf(Stray) \in [Fetches -> PageNums \cup {None}]
      /\ \A pn \in PageNums :
            ForgetOf(Stray)[pn] # None => AbortedOf(Stray)[ForgetOf(Stray)[pn]] = pn
      /\ \A f \in Fetches : AbortedOf(Stray)[f] # None => f \notin live
      /\ AloneIn(ForgetOf(Stray), AbortedOf(Stray)) /\ aborted' \in [PageNums -> Nat]
  BY <1>1, <1>2, FetchesAborted DEF Counts, SyncLoadWindow
<1>5. Requests'
  <2>1. Pump(Synced, ForgetOf(Stray), AbortedOf(Stray))
    BY DEF SyncLoadWindow
  <2>2. live \subseteq Fetches
    BY <1>1 DEF Blobs
  <2> QED
    BY <1>1, <1>2, <1>3, <1>4, <2>1, <2>2, FetchesPumped DEF Requests
<1>6. \A pn \in PageNums :
        /\ items'[pn] \in PageItem
        /\ items'[pn].url = IF pn \in Dropped THEN None ELSE items[pn].url
  <2> TAKE pn \in PageNums
  <2>1. items[pn] \in PageItem /\ items'[pn] = Synced[pn]
    BY <1>1 DEF Images, SyncLoadWindow
  <2>2. CASE pn \in Window /\ ~items[pn].shouldLoad
    BY <2>1, <2>2, PageChanges DEF Synced, Dropped
  <2>3. CASE pn \in Dropped
    BY <2>1, <2>3, PageChanges DEF Synced, Dropped
  <2>4. CASE pn \notin Dropped /\ ~(pn \in Window /\ ~items[pn].shouldLoad)
    BY <2>1, <2>4 DEF Synced
  <2> QED
    BY <2>2, <2>3, <2>4
<1>7. Images'
  <2>1. items' \in [PageNums -> PageItem]
    BY <1>6 DEF SyncLoadWindow, Synced
  <2>2. ShownIsBlob'
    BY <1>1, <1>3, <1>6 DEF Images, ShownIsBlob
  <2>3. decoding' \subseteq PageNums /\ DecodingShown'
    BY <1>1, <1>2, <1>6 DEF Images, DecodingShown, SyncLoadWindow, Dropped
  <2> QED
    BY <2>1, <2>2, <2>3 DEF Images, ClosedEmpty
<1> QED
  BY <1>3, <1>5, <1>7, <1>4 DEF SyncLoadWindow

LEMMA FirstFrameKeeps == ASSUME ReaderInv, FirstFrame PROVE ReaderInv'
<1>1. Requests' /\ Blobs' /\ Images' /\ aborted' \in [PageNums -> Nat] /\ settled' = settled
  BY SyncKeeps DEF FirstFrame
<1>2. Counts'
  BY <1>1, InvariantParts DEF Counts, FirstFrame, counters
<1> QED
  BY <1>1, <1>2 DEF ReaderInv, ReaderTypeOK, Requests, Blobs, Images, Counts, FirstFrame,
     ClosedOverlapping

LEMMA HandleScrollKeeps == ASSUME ReaderInv, HandleScroll PROVE ReaderInv'
<1>1. Requests' /\ Blobs' /\ Images' /\ aborted' \in [PageNums -> Nat] /\ settled' = settled
  BY SyncKeeps DEF HandleScroll
<1>2. Counts'
  BY <1>1, InvariantParts DEF Counts, HandleScroll, counters
<1> QED
  BY <1>1, <1>2 DEF ReaderInv, ReaderTypeOK, Requests, Blobs, Images, Counts, HandleScroll,
     ClosedOverlapping

(* The request that ends is no page's any more. *)
LEMMA RequestEnds ==
    ASSUME Requests, NEW f \in Fetches, fetch[f] # None,
           inflight' = [inflight EXCEPT ![fetch[f]] = None],
           fetch' = [fetch EXCEPT ![f] = None], live' \subseteq live \cup {f},
           aborted' = aborted, overlapping' = overlapping
    PROVE  Requests'
<1>1. fetch[f] \in PageNums /\ None \notin PageNums
  BY PagesFinite DEF Requests
<1>2. \A g \in Fetches : fetch'[g] = IF g = f THEN None ELSE fetch[g]
  BY DEF Requests
<1>3. \A pn \in PageNums : inflight'[pn] = IF pn = fetch[f] THEN None ELSE inflight[pn]
  BY DEF Requests
<1>4. /\ inflight' \in [PageNums -> Fetches \cup {None}]
      /\ fetch' \in [Fetches -> PageNums \cup {None}]
  BY DEF Requests
<1>5. TrackedAreActive'
  <2> SUFFICES ASSUME NEW pn \in PageNums, inflight'[pn] # None
               PROVE  fetch'[inflight'[pn]] = pn
    BY DEF TrackedAreActive
  <2>1. /\ inflight'[pn] = inflight[pn] /\ inflight[pn] \in Fetches /\ pn # fetch[f]
        /\ fetch[inflight[pn]] = pn
    BY <1>3 DEF Requests, TrackedAreActive
  <2> QED
    BY <1>2, <2>1
<1>6. FetchesFresh'
  BY <1>2 DEF Requests, FetchesFresh
<1>7. Alone'
  <2> SUFFICES ASSUME NEW g \in Fetches, fetch'[g] # None, g \notin overlapping'
               PROVE  /\ inflight'[fetch'[g]] = g /\ aborted'[fetch'[g]] = 0
                      /\ \A h \in Fetches : fetch'[h] = fetch'[g] => h = g
    BY DEF Alone
  <2>1. g # f /\ fetch'[g] = fetch[g] /\ fetch[g] \in PageNums
    BY <1>2 DEF Requests
  <2>2. /\ inflight[fetch[g]] = g /\ aborted[fetch[g]] = 0
        /\ \A h \in Fetches : fetch[h] = fetch[g] => h = g
    BY <2>1 DEF Requests, Alone
  <2>3. fetch[g] # fetch[f]
    BY <2>1, <2>2
  <2>4. inflight'[fetch[g]] = g
    BY <1>3, <2>1, <2>2, <2>3
  <2>5. \A h \in Fetches : fetch'[h] = fetch[g] => h = g
    BY <1>1, <1>2, <2>1, <2>2
  <2> QED
    BY <2>1, <2>2, <2>4, <2>5
<1> QED
  BY <1>4, <1>5, <1>6, <1>7 DEF Requests

(* The image replaces what the page had; its URL has just been made.       *)
LEMMA ArriveKeeps == ASSUME ReaderInv, NEW f \in Fetches, Arrive(f) PROVE ReaderInv'
<1>1. /\ Requests /\ Blobs /\ Images /\ Counts /\ ClosedOverlapping
      /\ None \notin PageNums /\ None \notin Fetches
  BY InvariantParts, PagesFinite, ReaderAssumption
<1>2. PICK pn \in PageNums : pn = fetch[f]
  BY <1>1 DEF Requests, Arrive
<1>3. f \notin live
  BY <1>1, <1>2 DEF Requests, FetchesFresh
<1>4. /\ live' = (live \ {blob[pn]}) \cup {f} /\ blob' = [blob EXCEPT ![pn] = f]
      /\ inflight' = [inflight EXCEPT ![pn] = None] /\ fetch' = [fetch EXCEPT ![f] = None]
      /\ aborted' = aborted /\ settled' = settled + 1
      /\ UNCHANGED <<open, center, overlapping, framed, scrolled, unloadTimer, counters>>
  BY <1>2 DEF Arrive, Settle
<1>5. Requests'
  BY <1>1, <1>2, <1>4, RequestEnds
<1>6. blob'[pn] = f /\ \A q \in PageNums \ {pn} : blob'[q] = blob[q]
  BY <1>1, <1>4 DEF Blobs
<1>7. Blobs'
  <2>1. \A q \in PageNums : blob[q] # f
    BY <1>1, <1>3 DEF Blobs, BlobsLive
  <2>2. BlobsDistinct'
    BY <1>1, <1>6, <2>1 DEF Blobs, BlobsDistinct
  <2>3. BlobsLive'
    <3>1. ASSUME NEW g \in live' PROVE g # None /\ \E q \in PageNums : blob'[q] = g
      BY <1>1, <1>4, <1>6, <3>1 DEF Blobs, BlobsLive
    <3>2. ASSUME NEW q \in PageNums, blob'[q] # None PROVE blob'[q] \in live'
      BY <1>1, <1>4, <1>6, <3>2 DEF Blobs, BlobsLive, BlobsDistinct
    <3> QED
      BY <3>1, <3>2 DEF BlobsLive
  <2>4. blob' \in [PageNums -> Fetches \cup {None}] /\ live' \subseteq Fetches
    BY <1>1, <1>4 DEF Blobs
  <2> QED
    BY <2>2, <2>3, <2>4 DEF Blobs
<1>8. Images'
  <2>1. CASE open
    <3>1. /\ items' = [items EXCEPT ![pn] =
                [items[pn] EXCEPT !.shouldLoad = TRUE, !.error = FALSE, !.url = f]]
          /\ decoding' = decoding \cup {pn} /\ open'
      BY <1>1, <1>2, <2>1 DEF Arrive, Images
    <3>2. items[pn] \in PageItem
      BY <1>1 DEF Images
    <3>3. \A q \in PageNums :
            /\ items'[q] \in PageItem
            /\ items'[q].url = IF q = pn THEN f ELSE items[q].url
      BY <1>1, <3>1, <3>2, PageArrives DEF Images
    <3>4. items' \in [PageNums -> PageItem]
      BY <1>1, <3>1, <3>2, PageArrives DEF Images
    <3> QED
      BY <1>1, <1>6, <3>1, <3>3, <3>4 DEF Images, ShownIsBlob, DecodingShown, ClosedEmpty
  <2>2. CASE ~open
    <3>1. items' = items /\ decoding' = decoding /\ ~open'
      BY <2>2 DEF Arrive
    <3> QED
      BY <1>1, <2>2, <3>1 DEF Images, ShownIsBlob, DecodingShown, ClosedEmpty
  <2> QED
    BY <2>1, <2>2
<1>9. Counts'
  BY <1>1, <1>4 DEF Counts, counters
<1>10. ClosedOverlapping'
  <2>1. ~open => f \in overlapping
    BY <1>1 DEF Arrive, ClosedOverlapping
  <2>2. \A g \in Fetches : fetch'[g] # None => fetch[g] # None
    BY <1>4 DEF Requests
  <2> QED
    BY <1>1, <1>4, <2>1, <2>2 DEF ClosedOverlapping
<1> QED
  BY <1>5, <1>7, <1>8, <1>9, <1>10 DEF ReaderInv, ReaderTypeOK, Requests, Blobs, Images, Counts

(* A page item without a URL fits whatever blobRef holds. *)
LEMMA FailKeeps == ASSUME ReaderInv, NEW f \in Fetches, Fail(f) PROVE ReaderInv'
<1>1. Requests /\ Blobs /\ Images /\ Counts /\ ClosedOverlapping /\ None \notin PageNums
  BY InvariantParts, PagesFinite
<1>2. PICK pn \in PageNums : pn = fetch[f]
  BY <1>1 DEF Requests, Fail
<1>3. /\ inflight' = [inflight EXCEPT ![pn] = None] /\ fetch' = [fetch EXCEPT ![f] = None]
      /\ items' = IF open THEN [items EXCEPT ![pn] = [Blank EXCEPT !.error = TRUE]] ELSE items
      /\ decoding' = decoding \ {pn} /\ live' = live /\ blob' = blob /\ open' = open
      /\ aborted' = aborted /\ overlapping' = overlapping
  BY <1>2 DEF Fail, Settle, DropController
<1>4. Requests'
  BY <1>1, <1>2, <1>3, RequestEnds
<1>5. Blobs'
  BY <1>1, <1>3 DEF Blobs, BlobsLive, BlobsDistinct
<1>6. Images'
  <2>1. \A q \in PageNums :
          /\ items'[q] \in PageItem
          /\ items'[q].url = IF open /\ q = pn THEN None ELSE items[q].url
    BY <1>1, <1>3, BlankPages DEF Images
  <2>2. items' \in [PageNums -> PageItem]
    BY <1>1, <1>3, BlankPages DEF Images
  <2> QED
    BY <1>1, <1>3, <2>1, <2>2 DEF Images, ShownIsBlob, DecodingShown, ClosedEmpty
<1>7. Counts'
  BY <1>1, ReaderAssumption DEF Counts, Fail, Settle
<1>8. ClosedOverlapping'
  <2>1. \A g \in Fetches : fetch'[g] # None => fetch[g] # None
    BY <1>1, <1>3 DEF Requests
  <2> QED
    BY <1>1, <1>3, <2>1 DEF ClosedOverlapping
<1> QED
  BY <1>4, <1>5, <1>6, <1>7, <1>8 DEF ReaderInv, ReaderTypeOK, Requests, Blobs, Images, Counts

(* Dropping whatever controller the page has now cannot leave a dead one.  *)
LEMMA NoticeAbortKeeps == ASSUME ReaderInv, NEW pn \in PageNums, NoticeAbort(pn) PROVE ReaderInv'
<1>1. Requests /\ Blobs /\ Images /\ Counts /\ ClosedOverlapping
  BY InvariantParts
<1>2. /\ inflight' = [inflight EXCEPT ![pn] = None] /\ fetch' = fetch /\ live' = live
      /\ aborted[pn] > 0 /\ aborted' = [aborted EXCEPT ![pn] = aborted[pn] - 1]
      /\ overlapping' = overlapping /\ open' = open
  BY DEF NoticeAbort, DropController
<1>3. Requests'
  <2>1. \A q \in PageNums : inflight'[q] # None => inflight'[q] = inflight[q]
    BY <1>1, <1>2 DEF Requests
  <2>2. Alone'
    <3>1. \A f \in Fetches : fetch[f] # None /\ f \notin overlapping =>
            fetch[f] \in PageNums /\ fetch[f] # pn
      BY <1>1, <1>2 DEF Requests, Alone, Counts
    <3> QED
      BY <1>1, <1>2, <3>1 DEF Requests, Alone, Counts
  <2> QED
    BY <1>1, <1>2, <2>1, <2>2 DEF Requests, TrackedAreActive, FetchesFresh
<1>4. Blobs' /\ Images'
  BY <1>1 DEF Blobs, BlobsLive, BlobsDistinct, Images, ShownIsBlob, DecodingShown, ClosedEmpty,
     NoticeAbort
<1>5. Counts'
  <2>1. aborted' \in [PageNums -> Nat] /\ settled' \in Nat
    BY <1>1 DEF Counts, NoticeAbort
  <2> QED
    BY <1>1, <2>1 DEF Counts, NoticeAbort, counters
<1>6. ClosedOverlapping'
  BY <1>1, <1>2 DEF ClosedOverlapping
<1> QED
  BY <1>3, <1>4, <1>5, <1>6 DEF ReaderInv, ReaderTypeOK, Requests, Blobs, Images, Counts

LEMMA FinallyKeeps == ASSUME ReaderInv, Finally PROVE ReaderInv'
<1>1. Requests /\ Blobs /\ Images /\ Counts /\ ClosedOverlapping
  BY InvariantParts
<1>2. Requests'
  <2>1. AloneIn(inflight, fetch) /\ aborted' \in [PageNums -> Nat]
    BY <1>1 DEF Finally, Requests, Alone, AloneIn, Counts
  <2> QED
    BY <1>1, <2>1, FetchesPumped DEF Finally, Requests, TrackedAreActive, FetchesFresh, Blobs
<1>3. Blobs' /\ Images'
  BY <1>1 DEF Blobs, BlobsLive, BlobsDistinct, Images, ShownIsBlob, DecodingShown, ClosedEmpty,
     Finally
<1>4. Counts'
  BY <1>1 DEF Counts, Finally, counters
<1>5. ClosedOverlapping'
  <2> SUFFICES ASSUME ~open PROVE ClosedOverlapping'
    BY DEF ClosedOverlapping, Finally
  <2>1. StartFetch({}, inflight, fetch)
    BY DEF Finally, Pump, Fetchable
  <2>2. fetch' = fetch /\ overlapping' = overlapping
    BY <1>1, <2>1 DEF StartFetch, Requests
  <2> QED
    BY <1>1, <2>2 DEF ClosedOverlapping, Finally
<1> QED
  BY <1>2, <1>3, <1>4, <1>5 DEF ReaderInv, ReaderTypeOK, Requests, Blobs, Images, Counts

(* The <img> reports: the page keeps its URL.                              *)
LEMMA DecodeKeeps == ASSUME ReaderInv, NEW pn \in PageNums, Decode(pn) PROVE ReaderInv'
<1>1. Requests /\ Blobs /\ Images /\ Counts /\ ClosedOverlapping
  BY InvariantParts
<1>2. Requests' /\ Blobs' /\ ClosedOverlapping'
  BY <1>1 DEF Requests, TrackedAreActive, FetchesFresh, Alone, Blobs, BlobsLive, BlobsDistinct,
     ClosedOverlapping, Decode, ImageLoads, ImageBroken
<1>3. /\ pn \in decoding /\ decoding' = decoding \ {pn} /\ open' = open /\ blob' = blob
      /\ \/ items' = [items EXCEPT ![pn] = [items[pn] EXCEPT !.loaded = TRUE, !.error = FALSE]]
         \/ items' = [items EXCEPT ![pn] =
                [items[pn] EXCEPT !.loaded = FALSE, !.error = TRUE, !.shouldLoad = FALSE]]
  BY <1>1 DEF Images, Decode, ImageLoads, ImageBroken
<1>4. PICK new \in PageItem : items' = [items EXCEPT ![pn] = new] /\ new.url = items[pn].url
  <2>1. items[pn] \in PageItem /\ items[pn].url # None
    BY <1>1, <1>3 DEF Images, DecodingShown
  <2> QED
    BY <1>3, <2>1, PageChanges
<1>5. Images'
  <2>1. \A q \in PageNums : items'[q].url = items[q].url
    BY <1>1, <1>4 DEF Images
  <2>2. items' \in [PageNums -> PageItem]
    BY <1>1, <1>4 DEF Images
  <2> QED
    BY <1>1, <1>3, <2>1, <2>2 DEF Images, ShownIsBlob, DecodingShown, ClosedEmpty
<1>6. Counts'
  BY <1>1, ReaderAssumption DEF Counts, Decode, ImageLoads, ImageBroken, counters
<1> QED
  BY <1>2, <1>5, <1>6 DEF ReaderInv, ReaderTypeOK, Requests, Blobs, Images, Counts

(* The pages of S lose their URL both in pagesRef and in blobRef.          *)
LEMMA ImagesDropped ==
    ASSUME Blobs, Images, NEW S \in SUBSET PageNums, RevokeBlobs(S),
           items' \in [PageNums -> PageItem], decoding' \subseteq decoding \ S,
           \A pn \in S : items'[pn].url = None,
           \A pn \in PageNums \ S : items'[pn].url = items[pn].url,
           ~open' => ~open \/ S = PageNums
    PROVE  Blobs' /\ live' \subseteq live /\ Images'
<1>1. /\ Blobs' /\ live' \subseteq live
      /\ \A pn \in PageNums \ S : blob'[pn] = blob[pn]
  BY BlobsRevoked
<1>2. ShownIsBlob' /\ ClosedEmpty'
  BY <1>1 DEF Images, ShownIsBlob, ClosedEmpty
<1>3. decoding' \subseteq PageNums /\ DecodingShown'
  BY DEF Images, DecodingShown
<1> QED
  BY <1>1, <1>2, <1>3 DEF Images

(* The aborts and the names of an action that aborts and starts nothing.   *)
LEMMA OnlyAborted ==
    ASSUME Requests, aborted \in [PageNums -> Nat], NEW S \in SUBSET PageNums, CountAborts(S),
           live' \subseteq live, inflight' = ForgetOf(S), fetch' = AbortedOf(S),
           overlapping' = overlapping
    PROVE  Requests' /\ aborted' \in [PageNums -> Nat]
BY FetchesAborted DEF Requests, TrackedAreActive, FetchesFresh, Alone, AloneIn

LEMMA RetryPageKeeps == ASSUME ReaderInv, NEW pn \in PageNums, RetryPage(pn) PROVE ReaderInv'
<1>1. Requests /\ Blobs /\ Images /\ Counts /\ ClosedOverlapping
  BY InvariantParts
<1>2. items' = [items EXCEPT ![pn] = [Blank EXCEPT !.shouldLoad = TRUE]]
  BY DEF RetryPage
<1>3. Blobs' /\ live' \subseteq live /\ Images'
  <2>1. /\ items' \in [PageNums -> PageItem] /\ items'[pn].url = None
        /\ \A q \in PageNums \ {pn} : items'[q].url = items[q].url
    BY <1>1, <1>2, BlankPages DEF Images
  <2> QED
    BY <1>1, <2>1, ImagesDropped DEF RetryPage
<1>4. Requests' /\ aborted' \in [PageNums -> Nat]
  <2> DEFINE S == {pn}
             infl == ForgetOf(S)
             ftc == AbortedOf(S)
  <2>1. S \in SUBSET PageNums /\ \A q \in S : infl[q] = None
    BY DEF ForgetOf
  <2>2. StartFetch(S, infl, ftc) /\ CountAborts(S)
    BY DEF RetryPage
  <2>3. live \subseteq Fetches /\ overlapping \subseteq Fetches
    BY <1>1 DEF Blobs, Requests
  <2> HIDE DEF S
  <2>4. /\ infl \in [PageNums -> Fetches \cup {None}]
        /\ ftc \in [Fetches -> PageNums \cup {None}]
        /\ \A q \in PageNums : infl[q] # None => ftc[infl[q]] = q
        /\ \A f \in Fetches : ftc[f] # None => f \notin live
        /\ AloneIn(infl, ftc) /\ aborted' \in [PageNums -> Nat]
    BY <1>1, <2>1, <2>2, FetchesAborted DEF Counts
  <2> HIDE DEF infl, ftc
  <2> QED
    BY <1>3, <2>1, <2>2, <2>3, <2>4, FetchesStarted
<1>5. Counts'
  BY <1>1, <1>4, ReaderAssumption DEF Counts, RetryPage
<1>6. ClosedOverlapping'
  BY DEF RetryPage, ClosedOverlapping
<1> QED
  BY <1>3, <1>4, <1>5, <1>6 DEF ReaderInv, ReaderTypeOK, Requests, Blobs, Images, Counts

LEMMA UnloadKeeps == ASSUME ReaderInv, Unload PROVE ReaderInv'
<1>1. Requests /\ Blobs /\ Images /\ Counts /\ ClosedOverlapping
  BY InvariantParts
<1>2. Unloadable \in SUBSET PageNums
  BY DEF Unloadable
<1>3. Blobs' /\ live' \subseteq live /\ Images'
  <2>1. \A pn \in PageNums :
          items'[pn] = IF pn \in Unloadable THEN Unloaded(items[pn]) ELSE items[pn]
    BY DEF Unload
  <2>2. /\ items' \in [PageNums -> PageItem]
        /\ \A pn \in Unloadable : items'[pn].url = None
    BY <1>1, <1>2, <2>1, PageChanges DEF Images, Unload
  <2> QED
    BY <1>1, <1>2, <2>1, <2>2, ImagesDropped DEF Unload
<1>4. Requests' /\ aborted' \in [PageNums -> Nat]
  BY <1>1, <1>2, <1>3, OnlyAborted DEF Unload, Counts
<1>5. Counts'
  BY <1>1, <1>4 DEF Counts, Unload, counters
<1>6. ClosedOverlapping'
  BY DEF Unload, ClosedOverlapping
<1> QED
  BY <1>3, <1>4, <1>5, <1>6 DEF ReaderInv, ReaderTypeOK, Requests, Blobs, Images, Counts

LEMMA LeaveKeeps == ASSUME ReaderInv, Leave PROVE ReaderInv'
<1>1. Requests /\ Blobs /\ Images /\ Counts /\ ClosedOverlapping
  BY InvariantParts
<1>2. Blobs' /\ live' \subseteq live /\ Images'
  <2>1. items' \in [PageNums -> PageItem] /\ \A pn \in PageNums : items'[pn].url = None
    BY BlankPages DEF Leave
  <2> QED
    BY <1>1, <2>1, ImagesDropped DEF Leave
<1>3. Requests' /\ aborted' \in [PageNums -> Nat]
  BY <1>1, <1>2, OnlyAborted DEF Leave, Counts
<1>4. Counts'
  BY <1>1, <1>3 DEF Counts, Leave, counters
<1>5. ClosedOverlapping'
  <2>1. live' = {}
    BY <1>1 DEF Blobs, BlobsLive, Leave, RevokeBlobs
  <2>2. ASSUME NEW f \in Fetches, fetch'[f] # None PROVE f \in overlapping
    <3>1. fetch'[f] = fetch[f] /\ \A pn \in PageNums : inflight[pn] # f
      BY <2>2 DEF Leave, AbortedOf
    <3> QED
      BY <1>1, <2>2, <3>1 DEF Requests, Alone
  <2> QED
    BY <2>1, <2>2 DEF ClosedOverlapping, Leave
<1> QED
  BY <1>2, <1>3, <1>4, <1>5 DEF ReaderInv, ReaderTypeOK, Requests, Blobs, Images, Counts

------------------------------------------------------------------------------
(* The invariant holds. *)

LEMMA InitReaderInv == Init => ReaderInv
<1> SUFFICES ASSUME Init PROVE ReaderInv
  OBVIOUS
<1>1. Requests
  BY DEF Init, Requests, TrackedAreActive, FetchesFresh, Alone
<1>2. Blobs
  BY DEF Init, Blobs, BlobsLive, BlobsDistinct
<1>3. Images
  BY BlankPages DEF Init, Images, ShownIsBlob, DecodingShown, ClosedEmpty
<1>4. Counts
  <2>1. gestures \in 0 .. MaxGestures /\ failures \in 0 .. MaxFailures
    BY ReaderAssumption DEF Init
  <2>2. aborted \in [PageNums -> Nat] /\ settled \in Nat /\ center \in PageNums
    BY DEF Init
  <2>3. open \in BOOLEAN /\ framed \in BOOLEAN /\ scrolled \in BOOLEAN /\ unloadTimer \in BOOLEAN
    BY DEF Init
  <2> QED
    BY <2>1, <2>2, <2>3 DEF Counts
<1>5. ClosedOverlapping
  BY DEF Init, ClosedOverlapping
<1> QED
  BY <1>1, <1>2, <1>3, <1>4, <1>5, InvariantParts

LEMMA NextReaderInv == ReaderInv /\ [Next]_vars => ReaderInv'
<1> SUFFICES ASSUME ReaderInv, [Next]_vars PROVE ReaderInv'
  OBVIOUS
<1>1. CASE UNCHANGED vars
  <2>1. Counts'
    BY <1>1, InvariantParts DEF Counts, vars
  <2> QED
    BY <1>1, <2>1, CountsChange DEF vars
<1>2. CASE FirstFrame \/ HandleScroll \/ Unload \/ Finally
  BY <1>2, FirstFrameKeeps, HandleScrollKeeps, UnloadKeeps, FinallyKeeps
<1>3. ASSUME NEW f \in Fetches, React(f) PROVE ReaderInv'
  BY <1>3, ArriveKeeps, FailKeeps DEF React
<1>4. ASSUME NEW pn \in PageNums, NoticeAbort(pn) \/ Decode(pn) PROVE ReaderInv'
  BY <1>4, NoticeAbortKeeps, DecodeKeeps
<1>5. ASSUME NEW pn \in PageNums, Scroll(pn) \/ RetryPage(pn) PROVE ReaderInv'
  BY <1>5, ScrollKeeps, RetryPageKeeps
<1>6. CASE Leave
  BY <1>6, LeaveKeeps
<1> QED
  BY <1>1, <1>2, <1>3, <1>4, <1>5, <1>6 DEF Next, BrowserStep

(* Every state of the reader satisfies the inductive invariant. *)
THEOREM ReaderInvariance == Spec => []ReaderInv
BY InitReaderInv, NextReaderInv, PTL DEF Spec

------------------------------------------------------------------------------
(* The reader's refs have their types; a page that counts as loaded has an *)
(* image and no error.                                                     *)
THEOREM ReaderTypeCorrect == Spec => []ReaderTypeOK
<1>1. ReaderInv => ReaderTypeOK
  BY DEF ReaderInv
<1> QED
  BY <1>1, ReaderInvariance, PTL

(* A page never shows a revoked object URL, in any order of scrolls,       *)
(* clicks, answers and timers; blobRef has every URL that is not revoked;  *)
(* and once the reader is left, the only such URLs are of requests that    *)
(* overlapped an earlier one of their page: leaving revokes every other    *)
(* URL, and aborts every other request before it can make one.             *)
THEOREM ShownNeverRevoked == Spec => []ShownImageLive
<1>1. ReaderInv => ShownImageLive
  <2> SUFFICES ASSUME ReaderInv PROVE ShownImageLive
    OBVIOUS
  <2>1. live = {blob[pn] : pn \in PageNums} \ {None}
    BY DEF ReaderInv, BlobsLive
  <2>2. \A pn \in PageNums : items[pn].url # None => items[pn].url \in live
    BY <2>1 DEF ReaderInv, ShownIsBlob
  <2>3. ~open => live \subseteq overlapping
    BY DEF ReaderInv, ClosedOverlapping
  <2> QED
    BY <2>1, <2>2, <2>3 DEF ShownImageLive
<1> QED
  BY <1>1, ReaderInvariance, PTL

(* A controller in inflightRef is that of a request going on for its page: *)
(* no dead one blocks the page or counts as one of the concurrent ones.    *)
THEOREM ControllersActive == Spec => []TrackedAreActive
<1>1. ReaderInv => TrackedAreActive
  BY DEF ReaderInv
<1> QED
  BY <1>1, ReaderInvariance, PTL
==============================================================================
