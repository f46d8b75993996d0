---------------------------- MODULE PagePipeline -----------------------------
(***************************************************************************)
(* goservice/internal/pdfpipe/service.go on top of the slots of sched.go:  *)
(* Service.RenderPageTimed and Service.Meta, the semaphore Service.sem     *)
(* that bounds rendering over all books, and what they leave in the disk   *)
(* cache.  A page request is a request of DocSlot; its step through        *)
(* docSlot.acquire and release is DocSlot's.  The files of a book do not   *)
(* change here, so a cached page is a pair of a book and a page.           *)
(***************************************************************************)
EXTENDS DocSlot

CONSTANTS
    Pages,         \* page numbers asked for (at one resolution)
    MetaCalls,     \* calls of Service.Meta
    Concurrency,   \* Config.Concurrency
    Quitters       \* requests whose client may leave (bounds the runs)

ASSUME PipeAssumption ==
    Concurrency \in Nat \ {0} /\ Quitters \subseteq Requests

VARIABLES
    page,          \* page[r]: the page that request r wants
    stage,         \* where RenderPageTimed is
    rendered,      \* requests that have a rendered image in hand
    served,        \* requests answered with page data
    metaBook,      \* metaBook[m]: the book that Meta call m asks about
    metaStage,     \* where Meta is
    permits,       \* len(Service.sem)
    diskPages,     \* pages of the disk cache
    diskMeta       \* books whose meta.json is in the disk cache

callVars == <<page, stage, rendered, served>>
metaVars == <<metaBook, metaStage>>
diskVars == <<diskPages, diskMeta>>
pipeVars == <<vars, callVars, metaVars, permits, diskVars>>

(* "acquiring": in docSlot.acquire.  "permit": has the slot, waits for the *)
(* semaphore.  "giveup", "unpermit", "unslot": the release calls to come.  *)
CallStages ==
    {"lookup", "acquiring", "permit", "giveup", "recheck", "render", "unpermit",
     "unslot", "encode", "save", "finished"}
MetaStages == {"lookup", "permit", "render", "save", "unpermit", "finished"}

(* One type invariant for the state that service.go adds to sched.go's.    *)
PipeTypeOK ==
    /\ TypeOK
    /\ page \in [Requests -> Pages]
    /\ stage \in [Requests -> CallStages]
    /\ rendered \subseteq Requests
    /\ served \subseteq Requests
    /\ metaBook \in [MetaCalls -> Books]
    /\ metaStage \in [MetaCalls -> MetaStages]
    /\ permits \in 0 .. Concurrency
    /\ diskPages \subseteq Books \X Pages
    /\ diskMeta \subseteq Books

PipeInit ==
    /\ Init
    /\ page \in [Requests -> Pages]
    /\ stage = [r \in Requests |-> "lookup"]
    /\ rendered = {}
    /\ served = {}
    /\ metaBook \in [MetaCalls -> Books]
    /\ metaStage = [m \in MetaCalls |-> "lookup"]
    /\ permits = 0
    /\ diskPages = {}
    /\ diskMeta = {}

Wanted(r) == <<book[r], page[r]>>

Goto(r, s) == stage' = [stage EXCEPT ![r] = s]

------------------------------------------------------------------------------
(* Service.RenderPageTimed *)

(* Cache lookup, then the first ctx test; a cancellation between the two   *)
(* is seen by acquire.                                                     *)
LookUp(r) ==
    /\ stage[r] = "lookup"
    /\ IF Wanted(r) \in diskPages
       THEN Goto(r, "finished") /\ served' = served \cup {r}
       ELSE /\ Goto(r, IF r \in cancelled THEN "finished" ELSE "acquiring")
            /\ UNCHANGED served
    /\ UNCHANGED <<vars, page, rendered, metaVars, permits, diskVars>>

(* docSlot.acquire, until it returns with the slot or with an error. *)
AcquireDocSlot(r) ==
    /\ stage[r] = "acquiring"
    /\ Step(r)
    /\ Goto(r, CASE pc'[r] = "holding" -> "permit"
                 [] pc'[r] = "done" -> "finished"
                 [] OTHER -> "acquiring")
    /\ UNCHANGED <<page, rendered, served, metaVars, permits, diskVars>>

(* The select of acquireDocSlot, after the slot: a permit ... *)
TakePermitUnbounded(r) ==
    /\ stage[r] = "permit"
    /\ permits' = permits + 1
    /\ Goto(r, "recheck")
    /\ UNCHANGED <<vars, page, rendered, served, metaVars, diskVars>>

TakePermit(r) ==
    /\ stage[r] = "permit"
    /\ permits < Concurrency
    /\ permits' = permits + 1
    /\ Goto(r, "recheck")
    /\ UNCHANGED <<vars, page, rendered, served, metaVars, diskVars>>

(* ... or the client's departure, after which the slot is released. *)
GiveUpPermit(r) ==
    /\ stage[r] = "permit"
    /\ r \in cancelled
    /\ Goto(r, "giveup")
    /\ UNCHANGED <<vars, page, rendered, served, metaVars, permits, diskVars>>

ReturnSlotEarly(r) ==
    /\ stage[r] = "giveup"
    /\ Release(r)
    /\ Goto(r, "finished")
    /\ UNCHANGED <<page, rendered, served, metaVars, permits, diskVars>>

(* With slot and permit: the second ctx test and the second cache lookup.  *)
RecheckSkipped(r) ==
    /\ stage[r] = "recheck"
    /\ Goto(r, IF r \in cancelled THEN "unpermit" ELSE "render")
    /\ UNCHANGED <<vars, page, rendered, served, metaVars, permits, diskVars>>

Recheck(r) ==
    /\ stage[r] = "recheck"
    /\ IF r \notin cancelled /\ Wanted(r) \in diskPages
       THEN Goto(r, "unpermit") /\ served' = served \cup {r}
       ELSE /\ Goto(r, IF r \in cancelled THEN "unpermit" ELSE "render")
            /\ UNCHANGED served
    /\ UNCHANGED <<vars, page, rendered, metaVars, permits, diskVars>>

(* Render.RenderPageImage returns an image or an error; either way         *)
(* releaseOnce comes next.                                                 *)
Render(r) ==
    /\ stage[r] = "render"
    /\ Goto(r, "unpermit")
    /\ rendered' \in {rendered, rendered \cup {r}}
    /\ UNCHANGED <<vars, page, served, metaVars, permits, diskVars>>

(* releaseDocSlot: the permit first, then the slot. *)
ReturnPermitKeepingSlot(r) ==
    /\ stage[r] = "unpermit"
    /\ permits' = permits - 1
    /\ Goto(r, IF r \in rendered THEN "unslot" ELSE "finished")
    /\ UNCHANGED <<vars, page, rendered, served, metaVars, diskVars>>

ReturnPermit(r) ==
    /\ stage[r] = "unpermit"
    /\ permits' = permits - 1
    /\ Goto(r, "unslot")
    /\ UNCHANGED <<vars, page, rendered, served, metaVars, diskVars>>

ReturnSlot(r) ==
    /\ stage[r] = "unslot"
    /\ Release(r)
    /\ Goto(r, IF r \in rendered THEN "encode" ELSE "finished")
    /\ UNCHANGED <<page, rendered, served, metaVars, permits, diskVars>>

(* Outside the locks: the last ctx test, and Opt.Compress or its error. *)
Encode(r) ==
    /\ stage[r] = "encode"
    /\ \/ r \notin cancelled /\ Goto(r, "save")
       \/ Goto(r, "finished")
    /\ UNCHANGED <<vars, page, rendered, served, metaVars, permits, diskVars>>

(* SaveWebP (a failure to write is ignored) and the answer. *)
SavePage(r) ==
    /\ stage[r] = "save"
    /\ diskPages' \in {diskPages, diskPages \cup {Wanted(r)}}
    /\ served' = served \cup {r}
    /\ Goto(r, "finished")
    /\ UNCHANGED <<vars, page, rendered, metaVars, permits, diskMeta>>

(* The client goes away. *)
ClientLeaves(r) ==
    /\ r \in Quitters
    /\ stage[r] # "finished"
    /\ r \notin cancelled
    /\ cancelled' = cancelled \cup {r}
    /\ UNCHANGED <<book, pri, active, seq, waiting, ticket, granted, pc>>
    /\ UNCHANGED <<callVars, metaVars, permits, diskVars>>

Call(r) ==
    \/ LookUp(r) \/ AcquireDocSlot(r) \/ TakePermit(r) \/ GiveUpPermit(r)
    \/ ReturnSlotEarly(r) \/ Recheck(r) \/ Render(r) \/ ReturnPermit(r)
    \/ ReturnSlot(r) \/ Encode(r) \/ SavePage(r)

------------------------------------------------------------------------------
(* Service.Meta: no slot, and a wait for the semaphore that no context     *)
(* interrupts.                                                             *)

MetaGoto(m, s) == metaStage' = [metaStage EXCEPT ![m] = s]

MetaLookUp(m) ==
    /\ metaStage[m] = "lookup"
    /\ MetaGoto(m, IF metaBook[m] \in diskMeta THEN "finished" ELSE "permit")
    /\ UNCHANGED <<vars, callVars, metaBook, permits, diskVars>>

MetaTakePermit(m) ==
    /\ metaStage[m] = "permit"
    /\ permits < Concurrency
    /\ permits' = permits + 1
    /\ MetaGoto(m, "render")
    /\ UNCHANGED <<vars, callVars, metaBook, diskVars>>

MetaRender(m) ==
    /\ metaStage[m] = "render"
    /\ \E s \in {"save", "unpermit"} : MetaGoto(m, s)
    /\ UNCHANGED <<vars, callVars, metaBook, permits, diskVars>>

MetaSave(m) ==
    /\ metaStage[m] = "save"
    /\ diskMeta' \in {diskMeta, diskMeta \cup {metaBook[m]}}
    /\ MetaGoto(m, "unpermit")
    /\ UNCHANGED <<vars, callVars, metaBook, permits, diskPages>>

(* The deferred release. *)
MetaReturnPermitOnSuccess(m) ==
    /\ metaStage[m] = "unpermit"
    /\ permits' = IF metaBook[m] \in diskMeta THEN permits - 1 ELSE permits
    /\ MetaGoto(m, "finished")
    /\ UNCHANGED <<vars, callVars, metaBook, diskVars>>

MetaReturnPermit(m) ==
    /\ metaStage[m] = "unpermit"
    /\ permits' = permits - 1
    /\ MetaGoto(m, "finished")
    /\ UNCHANGED <<vars, callVars, metaBook, diskVars>>

MetaCall(m) ==
    \/ MetaLookUp(m) \/ MetaTakePermit(m) \/ MetaRender(m) \/ MetaSave(m)
    \/ MetaReturnPermit(m)

------------------------------------------------------------------------------
AllFinished ==
    /\ \A r \in Requests : stage[r] = "finished"
    /\ \A m \in MetaCalls : metaStage[m] = "finished"

PipeNext ==
    \/ \E r \in Requests : Call(r) \/ ClientLeaves(r)
    \/ \E m \in MetaCalls : MetaCall(m)
    \/ AllFinished /\ UNCHANGED pipeVars

(* Goroutines keep running and PDFium returns. *)
PipeFairness ==
    /\ \A r \in Requests : WF_pipeVars(Call(r))
    /\ \A m \in MetaCalls : WF_pipeVars(MetaCall(m))

PipeSpec == PipeInit /\ [][PipeNext]_pipeVars
FairPipeSpec == PipeSpec /\ PipeFairness

------------------------------------------------------------------------------
HasPermit(r) == stage[r] \in {"recheck", "render", "unpermit"}
MetaHasPermit(m) == metaStage[m] \in {"render", "save", "unpermit"}

(* The semaphore holds exactly the permits of the calls that will return   *)
(* one: none is lost on an error path, none is returned twice, and at most *)
(* Concurrency renderings run.                                             *)
PermitsAccounted ==
    /\ permits = Cardinality({r \in Requests : HasPermit(r)})
                 + Cardinality({m \in MetaCalls : MetaHasPermit(m)})
    /\ permits <= Concurrency

(* Page requests hold a permit only inside the slot of their book, so one  *)
(* book with many readers occupies one permit and never the whole service. *)
OnePermitPerBook ==
    \A r, s \in Requests :
        HasPermit(r) /\ HasPermit(s) /\ book[r] = book[s] => r = s

(* Whichever way RenderPageTimed returns - hit, cancelled, render error,   *)
(* compress error or success - the call neither owns the slot nor is left  *)
(* in its heap.                                                            *)
ExitReleasesAll ==
    \A r \in Requests :
        stage[r] = "finished" => ~Owns(r) /\ r \notin waiting[book[r]]

Pointless(r) ==
    /\ stage[r] \in {"acquiring", "permit"}
    /\ r \in cancelled \/ Wanted(r) \in diskPages

(* Nothing is rendered in vain: if the client leaves, or another request   *)
(* puts the page on disk, while a request still waits for its slot or its  *)
(* permit, that request never renders (the comment on RenderPageTimed).    *)
NoVainRender ==
    \A r \in Requests : [](Pointless(r) => [](stage[r] # "render"))

(* Every call returns, in whatever order slots, permits and cancellations  *)
(* come.                                                                   *)
EveryCallReturns == <>AllFinished
=============================================================================
