---------------------------- MODULE ReaderWindow -----------------------------
(***************************************************************************)
(* reactapp/src/components/PdfReader.tsx: which page images the open       *)
(* reader fetches, shows and drops while the user scrolls.  JavaScript     *)
(* runs one callback at a time, so a callback is one action.  An abort     *)
(* rejects its promise at once, but catch and finally run as microtasks:   *)
(* after the callback that aborted, and before any other event.            *)
(* Pages have one height each, so the scroll position is the page in the   *)
(* centre; pinching and zooming, which only move it, are left out.         *)
(***************************************************************************)
EXTENDS Integers, FiniteSets

CONSTANTS
    N,                  \* pages of the book, numbered from 0
    FETCH_AHEAD, FETCH_BEHIND, FETCH_CONCURRENCY,
    KeepRange,          \* pages within KEEP_SCREENS of the viewport, each way
    Fetches,            \* names for requests and their object URLs, reused (bound the runs)
    None,               \* no controller, no URL
    MaxGestures, MaxFailures   \* scrolls and clicks, failures (bound the runs)

ASSUME ReaderAssumption ==
    /\ N \in Nat \ {0} /\ FETCH_CONCURRENCY \in Nat \ {0}
    /\ FETCH_AHEAD \in Nat /\ FETCH_BEHIND \in Nat /\ KeepRange \in Nat
    /\ Fetches \subseteq Nat /\ IsFiniteSet(Fetches)
    /\ None \notin Fetches \cup 0 .. N - 1
    /\ MaxGestures \in Nat /\ MaxFailures \in Nat

VARIABLES
    open,        \* the reader is mounted and its page list is filled
    center,      \* getCenterPageIndex
    items,       \* pagesRef
    inflight,    \* inflightRef: the controller of each page, or None
    blob,        \* blobRef: the object URL of each page, or None
    fetch,       \* the page of each request that is going on, or None
    aborted,     \* how many aborted promises per page have yet to run catch
    settled,     \* how many promises have yet to run finally
    live,        \* object URLs not revoked
    overlapping, \* requests started before an earlier one of the page was through (history)
    decoding,    \* pages whose <img> has yet to report load or error
    framed,      \* the first frame, which calls syncLoadWindow, is to come
    scrolled,    \* a scroll event is to be delivered
    unloadTimer, \* the debounced scheduleUnloadInvisible is pending
    gestures, failures   \* how many, for the bounds

vars == <<open, center, items, inflight, blob, fetch, aborted, settled, live, overlapping, decoding,
          framed, scrolled, unloadTimer, gestures, failures>>

PageNums == 0 .. N - 1
PageItem ==
    {p \in [shouldLoad : BOOLEAN, loaded : BOOLEAN, error : BOOLEAN, url : Fetches \cup {None}] :
        p.loaded => p.url # None /\ ~p.error}
Blank == [shouldLoad |-> FALSE, loaded |-> FALSE, error |-> FALSE, url |-> None]

(* One type invariant for the reader's refs. *)
ReaderTypeOK ==
    /\ open \in BOOLEAN /\ framed \in BOOLEAN /\ scrolled \in BOOLEAN
    /\ unloadTimer \in BOOLEAN
    /\ center \in PageNums
    /\ items \in [PageNums -> PageItem]
    /\ inflight \in [PageNums -> Fetches \cup {None}]
    /\ blob \in [PageNums -> Fetches \cup {None}]
    /\ fetch \in [Fetches -> PageNums \cup {None}]
    /\ aborted \in [PageNums -> Nat] /\ settled \in Nat
    /\ live \subseteq Fetches /\ overlapping \subseteq Fetches /\ decoding \subseteq PageNums
    /\ gestures \in 0 .. MaxGestures /\ failures \in 0 .. MaxFailures

(* loadMeta has answered: the list is filled and scrolled to any page,     *)
(* which is a scroll event unless it was there already.                    *)
Init ==
    /\ open = TRUE /\ framed = TRUE /\ scrolled \in BOOLEAN /\ unloadTimer = FALSE
    /\ center \in PageNums
    /\ items = [pn \in PageNums |-> Blank]
    /\ inflight = [pn \in PageNums |-> None]
    /\ blob = [pn \in PageNums |-> None]
    /\ fetch = [f \in Fetches |-> None]
    /\ aborted = [pn \in PageNums |-> 0] /\ settled = 0
    /\ live = {} /\ overlapping = {} /\ decoding = {}
    /\ gestures = 0 /\ failures = 0

------------------------------------------------------------------------------
(* desiredWindow: the pages around the centre and the rank of each. *)
Window == {pn \in PageNums : center - FETCH_BEHIND <= pn /\ pn <= center + FETCH_AHEAD}
Rank(pn) == IF pn >= center THEN pn - center ELSE FETCH_AHEAD + center - pn

Unused(ftc) == {f \in Fetches : ftc[f] = None /\ f \notin live}

(* The names that the pages of S get when they start fetching. *)
NamesFor(S, ftc) ==
    LET free == Unused(ftc) IN
    [pn \in S |->
        CHOOSE f \in free :
            Cardinality({g \in free : g < f}) = Cardinality({q \in S : q < pn})]

Fetchable(pn, its, infl) ==
    /\ open
    /\ ~its[pn].loaded /\ its[pn].url = None
    /\ infl[pn] = None

(* An aborted request of the page has yet to run catch, or another goes on *)
(* whose controller is gone.                                               *)
Unfinished(pn, ftc) == aborted'[pn] > 0 \/ \E f \in Fetches : ftc[f] = pn

(* startFetch of the pages of S, with page items "its", controllers "infl" *)
(* and requests "ftc" as earlier statements of the callback left them; the *)
(* guard is the bound Fetches.  An earlier request of the page whose catch *)
(* or answer is still to come will drop the new controller.                *)
StartFetch(S, infl, ftc) ==
    LET name == NamesFor(S, ftc) IN
    /\ Cardinality(S) <= Cardinality(Unused(ftc))
    /\ inflight' = [pn \in PageNums |-> IF pn \in S THEN name[pn] ELSE infl[pn]]
    /\ fetch' = [f \in Fetches |->
            IF \E pn \in S : f = name[pn] THEN CHOOSE pn \in S : f = name[pn] ELSE ftc[f]]
    /\ overlapping' = {f \in Fetches :
            IF \E pn \in S : f = name[pn]
            THEN \E pn \in S : f = name[pn] /\ Unfinished(pn, ftc)
            ELSE f \in overlapping}

(* pumpFetches: start the best ranked pages of the window, as long as the  *)
(* number of controllers allows.                                           *)
Pump(its, infl, ftc) ==
    LET todo == {pn \in Window : Fetchable(pn, its, infl)}
        busy == Cardinality({pn \in PageNums : infl[pn] # None})
        chosen == {pn \in todo :
            busy + Cardinality({q \in todo : Rank(q) < Rank(pn)}) < FETCH_CONCURRENCY}
    IN  StartFetch(chosen, infl, ftc)

(* AbortController.abort and inflightRef.delete for the pages of S: the    *)
(* requests without them, the controllers without them.                    *)
AbortedOf(S) ==
    [f \in Fetches |-> IF \E pn \in S : inflight[pn] = f THEN None ELSE fetch[f]]
ForgetOf(S) == [pn \in PageNums |-> IF pn \in S THEN None ELSE inflight[pn]]
CountAborts(S) ==
    aborted' = [pn \in PageNums |->
        IF pn \in S /\ inflight[pn] # None THEN aborted[pn] + 1 ELSE aborted[pn]]

(* revokePageBlob for the pages of S. *)
RevokeBlobs(S) ==
    /\ live' = live \ {blob[pn] : pn \in S}
    /\ blob' = [pn \in PageNums |-> IF pn \in S THEN None ELSE blob[pn]]

counters == <<gestures, failures>>

(* No microtask is pending: the next event can be handled. *)
EventTurn == settled = 0 /\ \A pn \in PageNums : aborted[pn] = 0

------------------------------------------------------------------------------
(* syncLoadWindow *)

(* Which controllers a change of the window aborts. *)
Stray == {pn \in PageNums : inflight[pn] # None /\ pn \notin Window}

Dropped == {pn \in PageNums \ Window :
                ~items[pn].loaded /\ (items[pn].shouldLoad \/ items[pn].url # None)}

Synced ==
    [pn \in PageNums |->
        IF pn \in Window /\ ~items[pn].shouldLoad
        THEN [items[pn] EXCEPT !.shouldLoad = TRUE, !.error = FALSE]
        ELSE IF pn \in Dropped
        THEN [items[pn] EXCEPT !.shouldLoad = FALSE, !.error = FALSE, !.url = None]
        ELSE items[pn]]

SyncLoadWindow ==
    /\ items' = Synced
    /\ RevokeBlobs(Dropped)
    /\ decoding' = (decoding \ Dropped)
                   \cup {pn \in Window : ~items[pn].shouldLoad /\ items[pn].url # None}
    /\ CountAborts(Stray)
    /\ Pump(Synced, ForgetOf(Stray), AbortedOf(Stray))
    /\ UNCHANGED settled

(* The first frame after the list has been filled. *)
FirstFrame ==
    /\ EventTurn /\ open /\ framed
    /\ framed' = FALSE
    /\ SyncLoadWindow
    /\ UNCHANGED <<open, center, scrolled, unloadTimer, counters>>

(* The user scrolls; the browser tells so later. *)
Scroll(pn) ==
    /\ EventTurn /\ open /\ gestures < MaxGestures
    /\ pn # center
    /\ center' = pn
    /\ scrolled' = TRUE
    /\ gestures' = gestures + 1
    /\ UNCHANGED <<open, items, inflight, blob, fetch, aborted, settled, live, overlapping,
                   decoding, framed, unloadTimer, failures>>

HandleScroll ==
    /\ EventTurn /\ open /\ scrolled
    /\ scrolled' = FALSE
    /\ unloadTimer' = TRUE
    /\ SyncLoadWindow
    /\ UNCHANGED <<open, center, framed, counters>>

------------------------------------------------------------------------------
(* The reactions of the fetch promise that startFetch installs.            *)

Settle(f) ==
    /\ fetch' = [fetch EXCEPT ![f] = None]
    /\ settled' = settled + 1
    /\ UNCHANGED aborted

(* then: the image has come.                                               *)
Arrive(f) ==
    LET pn == fetch[f] IN
    /\ EventTurn /\ pn # None
    /\ live' = (live \ {blob[pn]}) \cup {f}
    /\ blob' = [blob EXCEPT ![pn] = f]
    /\ inflight' = [inflight EXCEPT ![pn] = None]
    /\ IF open
       THEN /\ items' = [items EXCEPT ![pn].shouldLoad = TRUE, ![pn].error = FALSE,
                                      ![pn].url = f]
            /\ decoding' = decoding \cup {pn}
       ELSE UNCHANGED <<items, decoding>>
    /\ Settle(f)
    /\ UNCHANGED <<open, center, overlapping, framed, scrolled, unloadTimer, counters>>

(* The first statement of catch: the page loses whatever controller it has *)
(* by now.                                                                 *)
KeepController(pn) == UNCHANGED inflight
DropController(pn) == inflight' = [inflight EXCEPT ![pn] = None]

(* catch, when the server or the network fails. *)
Fail(f) ==
    LET pn == fetch[f] IN
    /\ EventTurn /\ pn # None /\ failures < MaxFailures
    /\ failures' = failures + 1
    /\ DropController(pn)
    /\ items' = IF open
                THEN [items EXCEPT ![pn] = [Blank EXCEPT !.error = TRUE]]
                ELSE items
    /\ decoding' = decoding \ {pn}
    /\ Settle(f)
    /\ UNCHANGED <<open, center, blob, live, overlapping, framed, scrolled, unloadTimer, gestures>>

(* catch after an abort. *)
NoticeAbort(pn) ==
    /\ aborted[pn] > 0
    /\ aborted' = [aborted EXCEPT ![pn] = @ - 1]
    /\ settled' = settled + 1
    /\ DropController(pn)
    /\ UNCHANGED <<open, center, items, blob, fetch, live, overlapping, decoding, framed, scrolled,
                   unloadTimer, counters>>

(* finally. *)
Finally ==
    /\ settled > 0
    /\ settled' = settled - 1
    /\ UNCHANGED aborted
    /\ Pump(items, inflight, fetch)
    /\ UNCHANGED <<open, center, items, blob, live, decoding, framed, scrolled,
                   unloadTimer, counters>>

------------------------------------------------------------------------------
(* onLoaded and onError of the <img>. *)
ImageLoads(pn) ==
    /\ EventTurn /\ open /\ pn \in decoding
    /\ items' = [items EXCEPT ![pn].loaded = TRUE, ![pn].error = FALSE]
    /\ decoding' = decoding \ {pn}
    /\ UNCHANGED <<open, center, inflight, blob, fetch, aborted, settled, live, overlapping, framed,
                   scrolled, unloadTimer, counters>>

ImageBroken(pn) ==
    /\ EventTurn /\ open /\ pn \in decoding /\ failures < MaxFailures
    /\ failures' = failures + 1
    /\ items' = [items EXCEPT ![pn].loaded = FALSE, ![pn].error = TRUE,
                              ![pn].shouldLoad = FALSE]
    /\ decoding' = decoding \ {pn}
    /\ UNCHANGED <<open, center, inflight, blob, fetch, aborted, settled, live, overlapping, framed,
                   scrolled, unloadTimer, gestures>>

(* retryPage: the user clicks the overlay of the failed page in view. *)
RetryPage(pn) ==
    /\ EventTurn /\ open /\ gestures < MaxGestures
    /\ pn = center /\ items[pn].error /\ ~items[pn].loaded
    /\ gestures' = gestures + 1
    /\ items' = [items EXCEPT ![pn] = [Blank EXCEPT !.shouldLoad = TRUE]]
    /\ RevokeBlobs({pn})
    /\ decoding' = decoding \ {pn}
    /\ CountAborts({pn})
    /\ StartFetch({pn}, ForgetOf({pn}), AbortedOf({pn}))
    /\ UNCHANGED <<settled, open, center, framed, scrolled, unloadTimer, failures>>

(* scheduleUnloadInvisible *)
Kept == {pn \in PageNums : center - KeepRange <= pn /\ pn <= center + KeepRange}

Unloadable ==
    {pn \in PageNums \ Kept :
        items[pn].shouldLoad \/ items[pn].loaded \/ items[pn].url # None}

UnloadedKeepingLoaded(item) == [item EXCEPT !.shouldLoad = FALSE, !.url = None]
UnloadedKeepingUrl(item) == [item EXCEPT !.shouldLoad = FALSE, !.loaded = FALSE]
Unloaded(item) == [item EXCEPT !.shouldLoad = FALSE, !.loaded = FALSE, !.url = None]

Unload ==
    /\ EventTurn /\ open /\ unloadTimer
    /\ unloadTimer' = FALSE
    /\ items' = [pn \in PageNums |->
            IF pn \in Unloadable THEN Unloaded(items[pn]) ELSE items[pn]]
    /\ RevokeBlobs(Unloadable)
    /\ decoding' = decoding \ Unloadable
    /\ inflight' = ForgetOf(Unloadable) /\ fetch' = AbortedOf(Unloadable)
    /\ CountAborts(Unloadable)
    /\ UNCHANGED <<settled, open, center, overlapping, framed, scrolled, counters>>

(* The reader is left: abortAllFetches, and the list is emptied. *)
Leave ==
    /\ EventTurn /\ open
    /\ open' = FALSE
    /\ inflight' = ForgetOf(PageNums) /\ fetch' = AbortedOf(PageNums)
    /\ CountAborts(PageNums)
    /\ RevokeBlobs(PageNums)
    /\ items' = [pn \in PageNums |-> Blank]
    /\ decoding' = {}
    /\ framed' = FALSE /\ scrolled' = FALSE /\ unloadTimer' = FALSE
    /\ UNCHANGED <<center, settled, overlapping, counters>>

React(f) == Arrive(f) \/ Fail(f)
Decode(pn) == ImageLoads(pn) \/ ImageBroken(pn)

(* What happens without the user. *)
BrowserStep ==
    \/ FirstFrame \/ HandleScroll \/ Unload \/ Finally
    \/ \E f \in Fetches : React(f)
    \/ \E pn \in PageNums : NoticeAbort(pn) \/ Decode(pn)

Quiet ==
    /\ EventTurn
    /\ \A f \in Fetches : fetch[f] = None
    /\ decoding = {} /\ ~framed /\ ~scrolled /\ ~unloadTimer

Next ==
    \/ BrowserStep
    \/ \E pn \in PageNums : Scroll(pn) \/ RetryPage(pn)
    \/ Leave
    \/ Quiet /\ UNCHANGED vars

Spec == Init /\ [][Next]_vars

(* The browser goes on as long as anything is due: frames, scroll events,  *)
(* timers, answers to requests (which fail finitely often) and callbacks.  *)
(* The user need not do anything.                                          *)
Fairness == WF_vars(BrowserStep)

FairSpec == Spec /\ Fairness

------------------------------------------------------------------------------
(* A page never shows an object URL that has been revoked, whatever order  *)
(* scrolling, unloading, retries and late answers come in, and every URL   *)
(* not revoked is in blobRef, where unloading and leaving find it as long  *)
(* as the reader is open.  Leaving revokes them all, and aborts all the    *)
(* requests it finds in inflightRef.  It misses one whose controller an    *)
(* earlier request of the page has dropped: if that one's image still      *)
(* comes, its URL stays in the blobRef of a reader that is gone, and       *)
(* nothing revokes it.  Only requests that overlapped an earlier one of    *)
(* their page leave a URL behind like that.                                *)
ShownImageLive ==
    /\ \A pn \in PageNums : items[pn].url # None => items[pn].url \in live
    /\ live = {blob[pn] : pn \in PageNums} \ {None}
    /\ ~open => live \subseteq overlapping

(* Only requests that are still going on occupy inflightRef: a controller  *)
(* left behind would block its page and one of the concurrent requests for *)
(* good.                                                                   *)
TrackedAreActive ==
    \A pn \in PageNums : inflight[pn] # None =>
        fetch[inflight[pn]] = pn

(* Once the user stops scrolling, the page in the centre of the screen     *)
(* ends up shown, or in error if it really failed - never "loading" for    *)
(* good because of requests aborted or finished out of turn.               *)
CurrentPageSettles == <>[](open => items[center].loaded \/ items[center].error)

(* When everything has come to rest, only pages within KEEP_SCREENS of the *)
(* viewport, or in the window, hold an image (the comment on the constant).*)
FarPagesDropped ==
    Quiet => \A pn \in PageNums \ (Kept \cup Window) : items[pn].url = None
=============================================================================
