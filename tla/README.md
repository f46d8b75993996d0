# TLA+ models of fnnas.pdfreader

fnnas.pdfreader is a PDF reader for a NAS: a service that renders book pages to
images and keeps reading progress, a web reader that fetches those pages while
the user scrolls, and the package scripts that start and stop it. The repository
holds three services (Go, Rust, and the Python one they replaced) and two front
ends (React, and the Vue one it replaced). This directory holds TLA+ models of
the parts where order matters, the TLC configurations that check them on small
instances, and TLAPS proofs of the properties that matter most.

Contents:

1. [The system](#1-the-system)
2. [Modules and how they correspond to the code](#2-modules-and-how-they-correspond-to-the-code)
3. [Runs: bounds, and what they show](#3-runs-bounds-and-what-they-show)
4. [Fairness](#4-fairness)
5. [Disagreements between code and comments](#5-disagreements-between-code-and-comments)
6. [Proofs](#6-proofs)
7. [What is not modelled](#7-what-is-not-modelled)
8. [Plan](#8-plan)

To reproduce: `tlc -workers 2 -config MCDocSlot.cfg MCDocSlot.tla` for a run,
`tlapm PagePipelineProofs.tla` for a proof module.

## 1. The system

```
  React reader (PdfReader.tsx)          other devices of the same user
       | GET /pageimg /meta   | POST /progress      |
       v                      v                     v
  +-------------------------------------------------------------+
  | service (Go or Rust): handlers, one task per request        |
  |   page requests                      progress requests      |
  |     | book slot -> semaphore            | mutex             |
  |     v                                   v                   |
  |   open documents (PDFium)            progress/<uid>.json    |
  |     |                                   (tmp + rename)      |
  |     v                                                       |
  |   page cache on disk                                        |
  +-------------------------------------------------------------+
       ^ start / stop / status: fnnas.pdfreader/cmd/main
```

The Go service renders through three nested structures: a slot per book with a
priority queue (`sched.go`), a semaphore over all books (`service.go`) and a
cache of open PDFium documents with reference counts (`render.go`). The Rust
service has one open document for all books (`pdfdoc.rs`), a semaphore held by
the asynchronous handler and jobs on blocking threads (`main.rs`). Both keep
rendered pages in a disk cache. The reader aborts the requests of pages that the
user has scrolled past, so cancellation is the normal case, not the exception.

### Inventory

| Component | State it keeps | Operations | What is hard | What makes it correct |
|---|---|---|---|---|
| Book slot scheduler, `sched.go` | per book: `active`, `seq`, heap of waiters with a channel each | `acquire`, `release`; cancellation by context | grant and cancellation race in a `select`; abandoned waiters in the heap | one renderer per book; slot neither lost nor doubled; nobody stranded; service in order of priority, then arrival |
| Rendering pipeline, `service.go` | semaphore, per call the permit and slot it must return | `RenderPageTimed`, `Meta` | cancellation between slot and permit; six exits sharing one `releaseOnce`; lookup before the queue is stale after it | permits accounted for; every exit releases all; nothing rendered in vain; every call returns |
| Document cache, `render.go` | `cache`, `order`; per document `refs`, `ops`, `closed`, mutex | `acquireDoc`, `openFresh`, `releaseRef`, reaper, `Close` | counts under one mutex, work under another; double open; recycling; `Close` during use | `refs` exact; no use after close; one renderer per book; no document leaked; bounded size |
| Progress store, `progress.go` | JSON file per user, temporary file, `progressMu` | load, merge and save; read | concurrent saves of several devices; crash or failure between write and rename | the file behaves as an atomic map; acknowledged saves stay; the mutex always returns |
| Disk cache, `cache.go` | files per book, page and resolution | look up, save | pages of an old edition saved under the key of the new one | a hit is the page that was asked for |
| HTTP handlers, library and paths (Go) | configuration | parse, list, resolve, serve | names compared by natural order; roots and relative paths | no state of their own |
| React reader window, `PdfReader.tsx` | page items, controllers, object URLs, timers | window sync, pump, retry, unload, image events | answers, aborts, microtasks and events in any order | shown images alive; controllers only for running requests; the page in view settles |
| React bookshelf and the opening of books, `HomePage.tsx`, `PdfReader.tsx` | path, listing, current book, debounced progress post | navigate, open, close, save | answers that arrive after the user has moved on; progress posts that overtake each other | the list shown is that of the folder shown; the last position wins |
| Page and document service, `pdfdoc.rs`, `main.rs` | one open document, disk cache, `render_sem`, blocking jobs | `with_doc`, `get_meta`, `render_page_jpeg`, idle reaper | document opened outside the lock; file replaced while open; client gone while its job runs; write in place | answers of the right book and edition; torn files only after a fault; limits kept; every request ends |
| Progress, roots, library (Rust), `progress.rs`, `config.rs`, `trimapi.rs`, `library.rs`, `pathsafe.rs` | JSON file per user; one slot of granted folders; the user's name in a thread-local | list, resolve, query the gateway; save, read | one slot for all users, read several times by one request; a name left over on a pooled thread; a gateway that does not answer; a restart between write and rename; JSON and natural order written by hand | a request reaches only what its own user may; acknowledged saves stay; every request ends; what was written is read back |
| Page geometry (Rust), `pdfdoc.rs` | none | `page_box`, `find_ccitt_fullpage`, `ccitt_page_jpeg` | boxes of any shape, rotation, two vertical axes, rounding; the whole page drawn where its region cannot be | the picture is the visible part, and lies as it does |
| Python service, Vue front end | as above, first versions | as above | simpler cases of the above | as above |
| Package lifecycle, `cmd/main` | pid file, socket, process | start, stop, status | test and set without a lock; pid reuse | one server, named by the pid file |

Sources, status and modules of every component, and the hazards line by line,
are in `PROJECT.json`.

## 2. Modules and how they correspond to the code

| Module | Models | Extends / instantiates |
|---|---|---|
| `PrioritySlot` | abstract: what a book's slot promises | |
| `DocSlot` | `sched.go` | |
| `SlotRefinement` | the state of `sched.go` seen as a priority slot | `DocSlot`; implements `PrioritySlot` |
| `PagePipeline` | `service.go` over `sched.go`, and the page cache | `DocSlot` |
| `PagePipelineProofs` | theorems about `DocSlot`, the mapping, and `PagePipeline` | `PagePipeline`, `SlotRefinement`, `RankTheorems` |
| `DocCache` | `render.go` | |
| `DocCacheProofs` | theorems about `DocCache` | `DocCache`, `RankTheorems` |
| `AtomicProgress` | abstract: what the progress store promises | |
| `Progress` | `progress.go`, saving and loading | `AtomicProgress`; implements it |
| `ProgressProofs` | theorems about `Progress` | `Progress` |
| `ReaderWindow` | page fetching in `PdfReader.tsx` | |
| `ReaderWindowProofs` | theorems about `ReaderWindow` | `ReaderWindow`, `RankTheorems` |
| `RustPages` | `pdfdoc.rs` and its handlers in `main.rs` | |
| `RustPagesProofs` | theorems about `RustPages` | `RustPages` |
| `RustLibrary` | operators of `library.rs` and `pathsafe.rs` | |
| `RustRoots` | `config.rs`, `trimapi.rs`, the jobs of `main.rs` | `RustLibrary` |
| `RustProgress` | `progress.rs` and its handlers | `RustRoots`; implements `AtomicProgress` |
| `RustProgressProofs` | theorems about `RustRoots` and `RustProgress` | `RustProgress`, `RankTheorems` |
| `ProgressText` | the text of a progress file, `progress.rs` | |
| `RustPageBox` | page boxes and picture sizes of `pdfdoc.rs` | |
| `RustPure` | the three above over given inputs | `RustLibrary`, `ProgressText`, `RustPageBox` |
| `RustPureProofs` | theorems about `RustPure` | `RustPure`, `RankTheorems` |
| `MCRustShelf` | composes the models above, with inputs for the pure ones | `RustProgress`, `RustPure` |
| `RankTheorems` | lemmas about ordered finite sets, sequences and recursion | |
| `MC*` | small instances for TLC | the module named |

`PROJECT.json` ("map") gives the source lines of every definition. What an
action is, module by module:

**DocSlot.** A critical section of `docSlot.mu` is one action. `TakeSlot` and
`Enqueue` are the two branches of `acquire`; `Wake` and `Withdraw` are the two
arms of its `select`, both enabled when grant and cancellation coincide;
`CheckContext` is the `ctx.Err()` test after either way in; `Release` is
`release`, whose loop over the heap is `HandOver` (the first waiter by
`waiterHeap.Less` that is still wanted; the abandoned ones popped before it are
dropped) or `Free`. The heap is a set and its order is `Before`: the layout of
`container/heap` is not modelled. `Cancel` may come at any moment, before, during
or after the call. `SlotRefinement` says what of this is a priority slot: the line
has each waiter at the place that the number of waiters before it gives, and the
holder is the call that `Owns` the slot (a granted call owns it before it wakes).

**PagePipeline.** `stage` is where `RenderPageTimed` or `Meta` is. The step in
`docSlot.acquire` is `DocSlot`'s `Step`, so the two modules compose at the level
of actions. `RenderPageTimed` waits for its permit holding the slot and may give
up; `Meta` waits for its permit regardless of its context, as the code does. All
error exits are choices: rendering, compressing and saving may fail. The disk
cache is a set of pairs of a book and a page.

**DocCache.** A critical section of `Renderer.mu` is one action, `cachedDoc.mu`
is the field `lock`, PDFium is a choice between success and failure. `Evict`,
`Open`, `Publish` are the three parts of `openFresh` between which the mutex is
free; `Lock` includes the test of `closed`; `Release` decides about recycling.
The reaper may find any unused document idle. `Docs` are names for
`cachedDoc` objects, reused when nothing refers to them. `removeOrderLocked` is
`RemoveFirst`; for the several books that the reaper drops in one section it is
`Without`.

**Progress.** System calls are separate actions: `StartWrite` leaves a torn
temporary file, `FinishWrite` completes it, `Rename` replaces the file. `Crash`
may come between any two. Of a record the model keeps the page and the page that
the fraction was measured on, which the merge treats differently, and (history)
which posts were merged into it.

**ReaderWindow.** JavaScript runs one callback at a time, so a callback with all
it calls is one action: `HandleScroll` is `updateCurrentPageFromScroll` with
`syncLoadWindow`, its aborts and `pumpFetches`. An aborted promise runs its
`catch` and `finally` as microtasks (`NoticeAbort`, `Finally`), after the
callback and before any other event (`EventTurn`). `Fetches` are names for
requests and their object URLs; a request starts while a name is free
(`StartFetch`), and the runs have enough of them that this never holds one back.
Pages have one height, so the scroll position is
the page in the centre; zooming and pinching are left out. The model begins when
`loadMeta` has filled the page list. `overlapping` is a history variable: the
requests that were started while an earlier one of their page was not through,
because its `catch` was still to run or because it goes on without a controller.
When that one is through it drops the controller of the page, whoever's it is by
then. No guard reads `overlapping`. `ShownImageLive` needs it: leaving the reader
revokes every URL and aborts every request in `inflightRef`, but misses a request
whose controller is gone, and the answer of that one makes an object URL in the
`blobRef` of a reader that no longer exists. So `~open => live = {}` is false
of the code (a failed page that the pump fetches again, a retry in the
meantime, its microtasks, leaving, the late answer), and what holds, and is
checked and proved, is that only overlapping requests leave a URL behind.

**RustPages.** A request is an asynchronous handler (`Come`, `TakePermit`,
`Disconnect`) and a job on a blocking thread (`StartJob` to `WriteRest`), which
outlives its handler. `LookUp`, `FindDoc`, `Open`, `InstallDoc`, `Render` are
the sections between which no lock is held. `fs::write` truncates, writes a part
and writes the rest. Two jobs that write the same file at once cut holes in each
other's text (`AlsoWritten`), and the last one to end is taken to make it whole;
for two pictures of different editions, or a hole left by a writer that failed,
that is a simplification. `Replace` puts a new edition under the path of a book,
atomically and with another time or size; it is external. `stale`, `began` and
`torn` are history variables the properties refer to; no guard reads them.

**RustRoots.** A request is a job on a pooled thread. `Start` sets the thread's
`REQ_UID` and keeps what it was (`frame`), `Leave` puts it back, and a job that
panics does not (`LeavePanicking`). The slot `live` is `live_cache`: one user's
name and the folders the gateway granted. It is refreshed by a listing of the
home of the library only (`CheckLive`, `AskShared`, `AskUser`, `Install`: no
lock is held between these) and read wherever roots are collected. A listing
collects them up to three times (`ListHome`, then `RootsAsEntries` or `CrumbRoot`
and `CrumbSegments`), and another user may have replaced the slot in between.
The code leaves out a folder that is there already; in the model a second
occurrence stays, which no reader of the roots can tell, except for their number,
which is that of the set.
The gateway is external: it changes its grants (`Regrant`), hangs or recovers
(`Hang`), and any call may fail. A call to it returns in any case, because
`trimapi.rs` sets time limits; the mutant `RepliesUntimed` has none. The limit on
reading is one of each read, so this assumes that the gateway does not go on for
ever sending a few bytes at a time. `Restart`
is `cmd/config_callback`, which rewrites `roots.txt`, or a crash. `told` is a
history variable.

Two things in `trimapi.rs` show in the actions and are worth knowing:
`json_string_array` ends at the first `]`, so a folder with that character in
its name hides itself and those after it (`JsonStringArray`, line 33); and when
the query for the shared folders fails but the user's own succeeds, the shorter
list is installed as if it were complete (`AskShared`, line 192).

**RustLibrary.** `RootOf`, `Inside`, `RelSegments`, `Breadcrumb` are over paths as
sequences of names, canonical as `Path::canonicalize` leaves them. `NaturalCmp`
compares names as sequences of character codes; `U64_MAX` is the limit of
`parse::<u64>`, small in the run so that names pass it. `From` is its loop: what it
answers from any two positions on. `Lower` folds the letters of ASCII; of the
folding the proofs use only that it makes no digit of anything else. `ListDir`
filters and sorts stably, placing the entries one by one (`Placed`).

**RustProgress.** The steps of `save_one` are those of `Progress`, with two
differences that are in the code: one mutex serves all users, and failures of
writing are ignored, so that a post is answered with `ok` (`Reply`). Reading
takes no lock. `load_all` takes any file it cannot read for an empty one
(`progress.rs:239`), which the next save would write back; the model, like
`Progress`, has that of torn files only, and assumes that a whole file can be
read. `AckedUnlessFailed` and `StoreIsAtomic` rest on it. The files of all users together implement `AtomicProgress`, of
which a book is then a pair of a user and a path. `Merge` is one definition for
both services, which the comments in `progress.rs` claim to agree.

**ProgressText.** A character is a name for what the code tells apart: the
quote, the backslash, the newline, braces, the two labels, digits. Escaping,
`jnum`, `jstr`, `split_top_objects` and `unesc` are modelled by what they return,
also on a text that ends between any two characters. `Char` is any set with the
characters the code tells apart. A file cut inside a character of several bytes is
no valid UTF-8, so `read_to_string` fails and all of it counts as empty: this is
another case, which the module leaves out. The texts of `esc`, `unesc`,
`split_top_objects` and `save_all` are recursive functions over positions, one
step per character or entry, the form that can be reasoned about.

**RustPageBox.** Boxes are in whole points, so a rounding is exact arithmetic on
integers (`Round`). `Scans` is `find_ccitt_fullpage`, which iterates over a hash
map, so of several largest images any may be taken (`Largest`). `Cut` is the
part of the image that `ccitt_page_jpeg` keeps, `Scaled` its scaling, `Rendered`
the size of what pdf_oxide draws, assumed to turn pages by `/Rotate`. Its failures
are part of the input (`fails`): a scan it cannot decode is drawn by pdf_oxide
(`Drawn`), and a page of which it cannot draw the region is drawn whole
(`FellBack`). Of a crop box
no more than half a pixel across both edges may round to one pixel; the code then
keeps the whole image, so `CutIsCropBox` says of such a box (`Thin`) only that what
is kept lies within the image. `LiesAsBox` compares a picture with the visible part
of its own page, of which `get_meta` tells the reader the first page's only
(`pdfdoc.rs:234`); the other pages are laid out by that until their pictures come.
It is asked of sides that differ by a twentieth or more, which is what a scan may
differ from its page, and not of pages that fell back to the whole paper: half of a
wide sheet is tall, the whole of it wide, and that picture is cached for good.

**MCRustShelf** composes `RustRoots` with `RustProgress` and runs it from mixes of
requests. The pure operators have no state: `given`, declared in **RustPure**, is
their input, and their properties are invariants over it. In the run it is chosen
in initial states of their own that have no requests; in the proofs it is any
input that has the types of the code.

## 3. Runs: bounds, and what they show

| Run | Instance | Shows |
|---|---|---|
| `doc_slot` | four requests on one book in two mixes of priorities (one is clamped), or two on each of two books; cancelled at any moment | `MutualExclusion`, `SlotAccounted`, `NoStrandedWaiter`, `ImplementsPrioritySlot`, `WantedRequestServed` |
| `page_pipeline` | two requests for a page of one book, one of another, one `Meta` call, two permits; two clients may leave | `PermitsAccounted`, `OnePermitPerBook`, `ExitReleasesAll`, `NoVainRender`, `EveryCallReturns` |
| `doc_cache` | three goroutines, two books, a cache of one, two operations per document, three calls | `RefsExact`, `NeverUseClosed`, `SameBookSerial`, `NothingLeaked`, `EveryCallEnds` |
| `progress` | three saves of two books and two pages, failing writes, one crash | `AckDurable`, `ImplementsAtomicProgress`, `EveryPostAnswered` |
| `reader_window` | four pages, a window of two, two requests at a time, two gestures, one failure | `ShownImageLive`, `TrackedAreActive`, `CurrentPageSettles` |
| `rust_pages` | three requests of two books in two mixes (pages, page and facts), one permit, two threads, one replacement, one fault | `RightBook`, `FreshUnlessOpen`, `TornOnlyByFault`, `EveryRequestEnds` |
| `rust_shelf` | three requests of two users and one without headers on two threads, in five mixes (listings, a post and a read of a granted folder, a panicking page, posts for one book); two grants, a gateway that may hang, one change; and the pure operators over small inputs | `OnlyOwnRoots`, `AckedUnlessFailed`, `StoreIsAtomic`, `RequestsEnd`; `ListingOrdered`, `TextSurvivesCut`, `CutFitsImage`, `PictureLiesAsBox` |
| `progress_first_page`, `reader_memory`, `rust_stale`, `rust_limit`, `rust_roots` | | counterexamples, section 5 |

Each passing run also has the type invariant of its module.

Why the bounds are enough to be worth something:

* A slot needs a holder, a waiter that leaves, a waiter that is granted and one
  it must not overtake: four requests. Two books show that slots are
  independent.
* The pipeline's hazards are between a call with slot and permit, one with the
  slot that waits for a permit, one in the heap, and a `Meta` call that takes
  permits without a slot: each is present at once.
* The document cache needs a hit, a miss and an eviction at the same time, and a
  cache of one makes two books compete for it. Two operations per document let
  recycling meet a goroutine that has just referenced it. `Close` and the reaper
  act in the same run.
* Two saves contend for a file, a third sees what the first two left; the proofs
  cover any number of crashes.
* Two gestures are needed to scroll away and back, or to retry and scroll away.
  The counterexample runs use the reader's own constants (two ahead, one behind,
  two at a time).
* Two jobs contend for the one document while a third waits for the permit. One
  replacement separates two editions; with more, only `version >= began` would
  be exercised further, which the proof covers.
* Two users and three requests on two threads let one user replace the slot
  while the other lists, and a thread pass from a panicking job to another
  user's. The gateway may hang from the start or not; one change (`MaxEvents`) is
  a new grant, the gateway recovering or hanging, or a restart.
* Names of up to three characters over digits, both cases and a hyphen, with
  numbers on both sides of `U64_MAX`; titles and paths of up to two special
  characters, or one that looks like a record, with the file cut at every
  character; four media boxes, twenty-seven crop boxes, four rotations, five
  sets of images, three resolutions, the failures of a scan and of a region in all
  combinations, and scans from 6 pixels (800 in the code) a
  side on: each branch of the operators is taken, and
  each property has a mutant it rejects.

The bounds `Budget`, `MaxGestures`, `MaxFailures`, `MaxCrashes`, `MaxReplace`,
`MaxFaults`, `MaxEvents` and the set `Quitters` limit the environment; `Docs` and
`Fetches` are names for objects that are reused when free. `ops` in `DocCache` is
counted up to `MaxOps`, the one value it is compared with. Everything else has
the range it has in the code.

No run uses symmetry: most of them check liveness, where it is unsound.

## 4. Fairness

* `DocSlot`: weak fairness of each request's `Step`. Goroutines are scheduled,
  and a holder's rendering ends. Cancellation is not fair: nobody must leave.
* `PagePipeline`: weak fairness of each `Call` and `MetaCall`. A permit that is
  free infinitely often but not continuously could be missed in principle; the
  calls are finitely many, so it is free continuously in the end.
* `DocCache`: weak fairness of each goroutine and of destruction once begun.
  `Close` and the reaper's passes are not fair. Calls are finite (`Budget`):
  under an endless load of other books `openFresh` promises nothing.
* `Progress`: weak fairness of each handler. Crashes and failures are not fair.
* `ReaderWindow`: weak fairness of `BrowserStep`, the disjunction of all that
  happens without the user. The user need not act, and failures are finitely
  many. Without that last bound nothing holds: a page that fails is fetched
  again by `finally` at once and without a pause (`PdfReader.tsx:445`), for as
  long as the server keeps failing.
* `RustPages`: weak fairness of `\E r : TakePermit(r) \/ Job(r)`. The runtime
  goes on while anything can go on; no single request is favoured. `EveryRequestEnds`
  therefore does not rest on the order in which tokio queues waiters.
* `RustProgress`: weak fairness of each `Serve(r)`. Threads are scheduled, system
  calls return, and a call to the gateway returns, as each read of it does within
  `RPC_TIMEOUT` (it may not trickle for ever). Grants,
  hangs and restarts are not fair. A thread that is free only now and then is no
  problem: the requests are finitely many.

## 5. Disagreements between code and comments

Found while modelling, each shown by a counterexample run.

1. **Going back to the first page** (`progress_first_page`,
   `goservice/progress.go:57`). The merge keeps the stored page when the posted
   page is 0, which is also the first page for the reader, but takes the posted
   fraction. The record then has the old page and the new fraction; the
   changelog (`manifest:13`) promises the same page and position on every
   device.
2. **A retry loses its controller** (`reader_memory`, `PdfReader.tsx:440`). The
   `catch` of the aborted request runs after `retryPage` has stored the new
   controller and deletes it by page number. The new request can no longer be
   aborted, and its image may arrive on a page far from the viewport and stay,
   against the comment on `KEEP_SCREENS`. If it arrives after the reader was left,
   its object URL is never revoked (see `ReaderWindow` in section 2).
3. **An open document outlives its file** (`rust_stale`, `pdfdoc.rs:187`). The
   document is found by path, the cached file by time and size. After a
   replacement, pages of the old edition are cached under the key of the new
   one, against the comment in `cache_key` (`pdfdoc.rs:44`). `FreshUnlessOpen`
   is what does hold, and is proved.
4. **Permits of clients that left** (`rust_limit`, `main.rs:439`). The permit
   is dropped with the handler while the job renders on, so more pages are
   rendered at a time than the comment on `render_sem` (`main.rs:152`) says.
5. **One slot for all users** (`rust_roots`, `config.rs:170`). A user who opens the
   home of the library replaces the granted folders of the user who did so
   before. Until that one opens the home again, everything under the granted
   folders is answered as not found, against the comments on
   `refresh_live_roots` (`config.rs:141`, `main.rs:277`), which say that the answer
   is merged into the cache. `OnlyOwnRoots` is what does hold: nobody gets
   another user's folders.

Two smaller ones are visible in the models but have no run. `retryPage` starts
its request beside the pump, so three may be in progress where the comment on
`FETCH_CONCURRENCY` (`PdfReader.tsx:371`) says two. Goroutines that open documents
at once may leave one more in the cache than its limit (`render.go:193`).

## 6. Proofs

All proofs are for any values of the constants that satisfy the assumptions in
the modules; nothing is assumed beyond those. The proof modules follow one
pattern: an inductive invariant as a conjunction of named parts, one lemma per
action (or per group of actions with the same effect), a theorem `Spec => []Inv`,
and the properties as its consequences.

One caution about the prover. Its translation to SMT (tlapm 1.4.5) asserts of every
value `S`, not only of sequences, that `DOMAIN S = 1 .. N` whenever `Len(S) = N`, from
which an obligation that mentions `Len` and a function over `0 .. n` can be proved
whatever it says. All modules were therefore also checked with that axiom
restricted to the direction that holds (a domain `1 .. N` gives the length `N`), and
every obligation is proved without it. (The translation also fails on strings such
as `"{"`, which is one more reason for the characters of `ProgressText` to have names.)

**PagePipelineProofs, the slot** (assumes priorities are integers). `MutualExclusion` and
`SlotAccounted` are not inductive: a grant must not go to a request that already
holds or has left. `IInv` adds `HeapSound` (whoever is in a heap sleeps there
ungranted; the heap of a free slot is empty) and states ownership in two halves,
`ActiveIsOwned` and `OwnedIsActive`, with `OneOwner`. The interesting step is
`HandOver`, where the slot passes from the releasing call to the waiter `w` that
is least in `Before`. Proved: `TypeCorrect`, `SlotNeverLost`, `RenderSerial`,
`WaitersAreReachable`.

The refinement, `SlotRefines`, shows that the heap is a line. `HeapOrdered` (tickets
tell the waiters of a book apart, the next one is later than all, and a heap is
finite) makes `Before` a strict total order, and a finite set in such an order has
exactly one sorted list (`OnlySortedList`), which is `Line`. So it is enough to
exhibit, for each step, a sorted list of the new heap: the old line with the
newcomer inserted behind all that are as urgent (`EnqueueRefines`), without the
one that leaves (`WithdrawRefines`), or what follows the first that is still
wanted (`HandOverRefines`). `TakeSlotRefines` is the promise that nobody enters
past the line; a wake-up or a look at the context changes nothing of it
(`OwnerMovesRefines`). The number of requests is not assumed to be finite.

**PagePipelineProofs, the pipeline** (assumes one permit or more). `PipelineUsesSlots` is a
refinement: every step of the pipeline is a step of `DocSlot` or leaves its
variables alone, so `IInv` and the promise of the slot hold inside the pipeline
without being proved again (`PipelineKeepsPromise`). `PipeInv` adds `StageFitsSlot`,
which ties where `RenderPageTimed` is to where its `acquire` is, and `PermitsHeld`,
the permit count with the finiteness of the sets it counts; there may be
infinitely many calls. One permit per book follows from one owner per slot.
Proved: `PipeTypeCorrect`, `NoPermitLost`, `BookTakesOnePermit`,
`ReturnedCallsAreOut`, and `NothingRenderedInVain`, which is about whole behaviours:
a request whose client leaves, or whose page somebody caches, while it waits for
slot or permit is doomed, stays so (`DoomedStays`) and never reaches the rendering.

**DocCacheProofs** (assumes limits of one or more, finitely many goroutines and
books, and that documents are told apart from the nil pointer). The invariant
`CacheInv` is large because the pieces lean on each other. `RefsExact` is inductive
only with `Hands` (where a goroutine is tells which documents it has in hand) and
with `NewIsPrivate` (a document not entered yet is its creator's alone, so nobody
counts on it). `NeverUseClosed` needs that who destroys a document has it to
itself: `CondemnedUncached` (it can no longer be found) and the counts. That
`SameBookSerial` holds until `Close` needs `ReferencedStays`: a document in use is the
one cached for its book. `OrderSound` ties `order` to `cache`, without duplicates, so
that what eviction picks from it is cached; `RemoveFirst`, `Without` and `Touch` are
shown to keep it. Proved, for any number of books, documents and
goroutines: `CacheTypeCorrect`, `ReferencesExact`, `ClosedNeverUsed`, `BookSerial`,
`NothingIsLeaked`.

**ProgressProofs** (assumes that the markers differ from data). `PInv` adds to the
types: `Exclusive` (only the owner of the mutex is in the critical section),
`FreshData` (what a handler has merged is still the file with its own save
merged in, since nobody else can have renamed), `SavedStays`. Proved:
`ProgressTypeCorrect`, `AcknowledgedSavesStay`, and `ProgressRefines`: every step
of the store with lock, temporary file and rename, crashes included, is a step
of `AtomicProgress` or leaves its variables alone.

**ReaderWindowProofs** (assumes a page or more, a request at a time or more, and
finitely many names of requests). The invariant is in three parts that few steps
mix. `Requests`: controllers belong to requests going on for their page
(`TrackedAreActive`), and those have no object URL yet; a request that overlapped
no earlier one of its page has its controller, no `catch` of that page is due, and
no other request of it goes on (`Alone`). So leaving aborts it, and what goes on
or is live afterwards overlapped (`ClosedOverlapping`). `Blobs`: the URLs not revoked
are those in `blobRef`, one for each page. `Images`: a page shows the URL that
`blobRef` has for it, an `<img>` that is to report is shown, and once the reader is
left nothing is. Each part has lemmas about what the callbacks share (starting,
aborting, pumping requests, revoking URLs, dropping images), so that a step is a
matter of putting these together. `Arrive` is the step in which all three change
at once. `NamesAreNew` says that requests started together get different names.
Proved: `ReaderTypeCorrect`, `ShownNeverRevoked`, `ControllersActive`.

**RustPagesProofs** (assumes the bounds are naturals and the markers are not
content). `RInv` adds: `HolderRuns` (a permit belongs to a request that has not
ended), `HandleRight` (a job works on a document of its own book), `Unanswered`,
`KeyRight` (a cached file is named after the edition at the start of the job),
`OpenIsCurrent` and `CacheIsCurrent` (unless a book was replaced while open, what
is open of it is its present edition, and what is cached is not older than its
name). Proved: `RustTypeCorrect` with the permit count, `NeverAnotherBook`,
`KeyKeepsFresh`, `OnlyFaultsTear`.

**RustProgressProofs** (assumes that grants and configurations are sequences of
paths, and that the markers differ from data). The invariant is in three parts.
`TypeInv` adds to the types `AskFits`: who queries the gateway is a user of the
platform, and a post never passes through the stages of a listing. `RootsInv` adds
`SlotIsTold` (what is in the slot was told to the user whose name is on it) to
`OnlyOwnRoots`. `StoreInv` is `FreshData` and `SavedStays`, as for Go. Every step of
a request moves its job on its thread or ends it (`RootsStepIsJob`,
`StoreStepIsJob`), so that the threads are argued about once. `CollectsOwn` says
that whatever the slot holds when a request reads it, the request collects its
own folders only; `ReachesOwn` that each of the five reading steps then stays
below them, with the lemmas on prefixes, crumbs and the first match with which
the module begins. Proved: `ShelfTypeCorrect`, `NobodyElsesFolders`, `AnsweredPostsStay`,
and `FilesRefineAtomicProgress`: of all steps of all users, a rename is a save of
the atomic map and no other step is seen.

**RustPureProofs** (assumes that inputs have the types of the code, and that a scan
is a pixel or more a side). Its theorems are about operators, for every input.

*Geometry.* `RoundIsNearest` and `RoundKeepsOrder` say what rounding a quotient does:
it is off by half at most, and keeps order, so that no edge passes another.
`PageBoxOnPaper` says that what is visible lies on the paper and has sides. From
these each edge of the cut is placed (`SideStart`, `SideEnd`), on the vertical axis
after turning it over (`NearOtherEnd`), which is where the two roundings meet and
the pixel and a half of `Near` comes from: `ScansAreCutRight`. That a picture lies as
the visible part is shown of the cut (`CutLiesAsCropBox`), through the scaling
(`ScalingKeepsShape`), and of drawn pages (`RenderedLiesAsBox`):
`PicturesLieAsBoxes`, for every page that did not fall back to the whole paper. The proof failed at first, and showed two cases that the run had
not: a crop box thinner than half a pixel, and a scan whose sides differ from the
page's by more than the margin that was asked for. Both are inputs of the run now.

*The order of listings.* That `natural_cmp` is total is proved along its loop. Where
the two names stand, a number against a number or a character against a
character, it compares as a pair would, the folded character with all digits
alike and then the number (`HereIsPairwise`), so one step is transitive
(`HereTransitive`); and a step taken as equal moves a name on by the same amount
whomever it is compared with (`Beyond`), so the loops of three comparisons keep in
step (`ComparesInLine`). `NaturalCmpIsOrder` holds for all names, with runs of digits
too long for a number, which count as 0. That a listing does not depend on the
order of the directory is the correctness of the sort: it places each shown entry
once, in line (`SortLists`); two sorted lists with the same entries are matched one
to one, and of matched lists neither can be ahead at any place, since the first `x`
entries of one are not among the first `x - 1` of the other (`MatchedNoLater`).
Together: `ListingIsOrdered`.

*The text of a progress file.* What `esc` writes is followed from state to state of
`unesc` (`ReadsAs`): it reads back as the text, and every quote in it is read right
after a backslash that is not itself escaped (`Guarded`, `EscReads`). `jstr` does not
read states; it counts the backslashes before a quote. `OddSlashesEscape` says that the two
agree, so the string ends where it was closed (`ClosingQuote`). The text of a record is laid out
position by position (`Lies`): its two labels are found where they stand, though its
name may contain them (`LabelsFound`), it reads back as the record
(`RecordIsReadBack`), and from its opening brace `split_top_objects` finds its last
one and, if that is cut off, none (`ObjectEnds`). A saved map has marks (`Marks`):
where each entry ends. From a mark that the cut has left, the next entry is read
and the next mark reached if the entry is whole, and the reading ends if it is not
(`MarkedEntryIsRead`); so what is read are the entries up to the last mark
left (`CutTextIsRead`), which are those that `SurvivesCut` counts: `TextIsReadBack`.

**RankTheorems** has what these proofs share and the library lacks: in a strict
total order on a finite set, elements are told apart by how many are ahead of
them and every place is taken; sorted lists exist and are unique; what the parts
of a sequence, an insertion and a removal contain; the least element of a set of
naturals. The library's induction theorems take an operator as parameter, which
the provers at hand cannot instantiate. `CountingUp` is induction for a set of
numbers instead, proved from the least element, and `RecursionOnRank` says that a
recursive function whose calls decrease a rank exists, with the body given as a
function (`Grounded`). The recursive definitions of `RustLibrary` are unfolded with it.

Only model-checked are the liveness properties (`WantedRequestServed`,
`EveryCallReturns`, `EveryCallEnds`, `EveryPostAnswered`, `CurrentPageSettles`,
`EveryRequestEnds`, `RequestsEnd`), which are beyond this prover.

## 7. What is not modelled

* PDFium, image encoding and compression, the decoding of CCITT data: pure
  computation or calls into a library, abstracted to success or failure. The
  geometry around them is modelled for Rust (`RustPageBox`); fractions of a point
  are not.
* HTTP parsing, headers, static files, finding the web root, logging: no state
  across requests. Of authentication the Rust model keeps whether it is required
  and whether a request names its user.
* Listing and paths of the Go service: pure, and of the same shape as
  `RustLibrary`. Of listings in Rust the counts and times of entries, and the
  order and length of the recent list, are left out.
* Files and folders that vanish: in `RustRoots` every path that is asked for
  exists, so `canonicalize` succeeds. Cache keys of different books are taken to
  be different.
* Zooming and pinching in the reader: they move the scroll position, which the
  model moves freely.
* The opening of books in the reader and the bookshelf: planned, see below.
* The clock: idle times, debounce times and time-to-live are left to choice, so a
  timer may fire at any time once set. Whether a user's slot of granted folders
  is younger than two seconds is a choice, too.
* The Python service and the Vue front end: superseded versions; their reader
  differs from the React one and is planned after it.
* Build scripts and benchmarks: run by hand.

## 8. Plan

Done, in this order, the most important behaviour first: the slot (`DocSlot`),
with its abstract specification and its proof; the pipeline over it; the document
cache; the progress store with its abstract specification, proof and refinement;
the reader's window; the Rust page service with its proof; the roots, the
progress store, the library and the page geometry of the Rust service, with the
proof of the first two; the refinement of the slot, and the proofs about the
pipeline, the document cache and the reader's window; the proofs about page
geometry, the order of listings and the text of a progress file. Every safety
property that a passing run checks is now a theorem.

Next, in this order:

1. **Navigation** (React): `HomePage.tsx`, `Breadcrumb.tsx` and the opening and
   closing of books in `PdfReader.tsx`: listings that arrive late, progress posts
   that overtake each other. Properties: the list shown is that of the folder
   shown; the last position wins.
2. **Editions in the Go cache**: `cache.go` and `DocCache` with replaced files, as
   `RustPages` has them.
3. **Lifecycle**: `cmd/main` with pid file, socket, concurrent start and stop.
4. **Vue reader and Python service**: the lazy loader of `PdfReader.vue` and the
   stores of `pdfserver.py`, as further instances of the same promises.

Abstract specifications worth stating next: a document pool in which a document
is open, used by one at a time and closed once (for `DocCache`), and a cache that
answers with the content a file had at some moment during the request (for the
page caches of both services).
