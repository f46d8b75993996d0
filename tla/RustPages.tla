------------------------------ MODULE RustPages ------------------------------
(***************************************************************************)
(* rustservice/src/pdfdoc.rs and the /meta and /pageimg handlers of        *)
(* main.rs: page images and document facts of books whose files may be     *)
(* replaced, kept in a disk cache named after the modification time and    *)
(* size of the file, and rendered through one open document.               *)
(*                                                                         *)
(* A replacement is atomic and changes time or size; how long a document   *)
(* has been idle is left open, so the reaper may close it at any time; all *)
(* pages of a book behave alike, so a book has one.                        *)
(***************************************************************************)
EXTENDS Integers, FiniteSets

CONSTANTS
    Requests, Books,
    RENDER_CONCURRENCY,   \* permits of render_sem
    BLOCKING_THREADS,     \* threads that run blocking jobs
    MaxReplace,           \* replacements of a file (bounds the runs)
    MaxFaults,            \* failing operations and crashes (bounds the runs)
    None, Partial         \* no content, content cut short

ASSUME RustAssumption ==
    /\ RENDER_CONCURRENCY \in Nat \ {0} /\ BLOCKING_THREADS \in Nat \ {0}
    /\ MaxReplace \in Nat /\ MaxFaults \in Nat

Versions == 0 .. MaxReplace
Kinds == {"page", "meta"}
(* What a document, a cached file or an answer holds. *)
Content == [book : Books, version : Versions]
Files == [book : Books, sig : Versions, kind : Kinds]

ASSUME RustNames == None \notin Content /\ Partial \notin Content /\ Partial # None

VARIABLES
    version,   \* the file of each book
    doc,       \* doc_cache: the open document, or None
    disk,      \* the cached files
    permits,   \* free permits of render_sem
    pc,        \* where each request is
    file,      \* the cached file each request asks for; its sig is read by the job
    handle,    \* the document it renders
    holds,     \* requests whose handler holds a permit
    answer,    \* what each request was answered with
    began,     \* the edition of its book when the job of each request began
    faults,    \* failures and crashes so far
    stale,     \* books replaced while a document of theirs was open or being opened
    torn       \* cached files whose writing a fault interrupted

vars == <<version, doc, disk, permits, pc, file, began, handle, holds, answer, faults, stale, torn>>

Holding == {"install", "render", "save", "writing"}
Jobs == {"look", "find", "open"} \cup Holding

(* One type invariant for the documents, the cache and the requests. *)
RustTypeOK ==
    /\ version \in [Books -> Versions]
    /\ doc \in Content \cup {None}
    /\ disk \in [Files -> Content \cup {None, Partial}]
    /\ permits \in 0 .. RENDER_CONCURRENCY
    /\ permits + Cardinality(holds) = RENDER_CONCURRENCY
    /\ pc \in [Requests -> Jobs \cup {"new", "sem", "queue", "done"}]
    /\ file \in [Requests -> Files]
    /\ began \in [Requests -> Versions]
    /\ handle \in [Requests -> Content \cup {None}]
    /\ holds \subseteq Requests
    /\ answer \in [Requests -> Content \cup {None, Partial}]
    /\ faults \in 0 .. MaxFaults
    /\ stale \subseteq Books /\ torn \subseteq Files

Init ==
    /\ version = [b \in Books |-> 0]
    /\ doc = None
    /\ disk = [f \in Files |-> None]
    /\ permits = RENDER_CONCURRENCY
    /\ pc = [r \in Requests |-> "new"]
    /\ file \in [Requests -> {f \in Files : f.sig = 0}]
    /\ began = [r \in Requests |-> 0]
    /\ handle = [r \in Requests |-> None]
    /\ holds = {}
    /\ answer = [r \in Requests |-> None]
    /\ faults = 0
    /\ stale = {} /\ torn = {}

Goto(r, label) == pc' = [pc EXCEPT ![r] = label]

library == <<version, stale>>
caches == <<doc, disk, torn>>
handlers == <<permits, holds>>
request == <<file, began>>

------------------------------------------------------------------------------
(* The handlers: async tasks, dropped when their client disconnects.       *)

(* handle_meta and handle_pageimg: only pages need a permit. *)
Come(r) ==
    /\ pc[r] = "new"
    /\ Goto(r, IF file[r].kind = "page" THEN "sem" ELSE "queue")
    /\ UNCHANGED <<library, caches, handlers, request, handle, answer, faults>>

TakePermit(r) ==
    /\ pc[r] = "sem" /\ permits > 0
    /\ permits' = permits - 1
    /\ holds' = holds \cup {r}
    /\ Goto(r, "queue")
    /\ UNCHANGED <<library, caches, request, handle, answer, faults>>

ReturnPermit(r) ==
    /\ permits' = IF r \in holds THEN permits + 1 ELSE permits
    /\ holds' = holds \ {r}

(* The client goes away: the handler is dropped with its permit, but a job *)
(* given to spawn_blocking runs to its end.                                *)
DisconnectLosingPermit(r) ==
    /\ pc[r] = "sem" \/ r \in holds
    /\ holds' = holds \ {r} /\ UNCHANGED permits
    /\ IF pc[r] = "sem" THEN Goto(r, "done") ELSE UNCHANGED pc
    /\ UNCHANGED <<library, caches, request, handle, answer, faults>>

DisconnectKillingJob(r) ==
    /\ pc[r] = "sem" \/ r \in holds
    /\ ReturnPermit(r)
    /\ Goto(r, "done")
    /\ UNCHANGED <<library, caches, request, handle, answer, faults>>

Disconnect(r) ==
    /\ pc[r] = "sem" \/ r \in holds
    /\ ReturnPermit(r)
    /\ IF pc[r] = "sem" THEN Goto(r, "done") ELSE UNCHANGED pc
    /\ UNCHANGED <<library, caches, request, handle, answer, faults>>

------------------------------------------------------------------------------
(* The blocking jobs: get_meta and render_page_jpeg.                       *)

Running == {r \in Requests : pc[r] \in Jobs}

(* The job ends with an answer, which a client still there receives. *)
Finish(r, what) ==
    /\ answer' = [answer EXCEPT ![r] = what]
    /\ Goto(r, "done")
    /\ ReturnPermit(r)

Fault == faults < MaxFaults /\ faults' = faults + 1

(* cache_key: the file's time and size as they are now. *)
KeyWithoutSig(b, k) == [book |-> b, sig |-> 0, kind |-> k]
CacheKey(b, k) == [book |-> b, sig |-> version[b], kind |-> k]

StartJob(r) ==
    /\ pc[r] = "queue" /\ Cardinality(Running) < BLOCKING_THREADS
    /\ file' = [file EXCEPT ![r] = CacheKey(file[r].book, file[r].kind)]
    /\ began' = [began EXCEPT ![r] = version[file[r].book]]
    /\ Goto(r, "look")
    /\ UNCHANGED <<library, caches, handlers, handle, answer, faults>>

(* A cached file that is not empty is the answer; a piece of meta.json may *)
(* or may not parse.                                                       *)
LookUp(r) ==
    /\ pc[r] = "look"
    /\ \/ /\ disk[file[r]] # None
          /\ Finish(r, disk[file[r]])
       \/ /\ disk[file[r]] = None \/ (disk[file[r]] = Partial /\ file[r].kind = "meta")
          /\ Goto(r, "find")
          /\ UNCHANGED <<handlers, answer>>
    /\ UNCHANGED <<library, caches, request, handle, faults>>

(* with_doc *)
SlotHasAny(b) == doc # None
SlotHas(b) == doc # None /\ doc.book = b

FindDoc(r) ==
    /\ pc[r] = "find"
    /\ IF SlotHas(file[r].book)
       THEN handle' = [handle EXCEPT ![r] = doc] /\ Goto(r, "render")
       ELSE UNCHANGED handle /\ Goto(r, "open")
    /\ UNCHANGED <<library, caches, handlers, request, answer, faults>>

Open(r) ==
    /\ pc[r] = "open"
    /\ \/ /\ handle' = [handle EXCEPT
                ![r] = [book |-> file[r].book, version |-> version[file[r].book]]]
          /\ Goto(r, "install")
          /\ UNCHANGED <<handlers, answer, faults>>
       \/ Fault /\ Finish(r, None) /\ UNCHANGED handle
    /\ UNCHANGED <<library, caches, request>>

InstallDoc(r) ==
    /\ pc[r] = "install"
    /\ IF SlotHas(file[r].book)
       THEN handle' = [handle EXCEPT ![r] = doc] /\ UNCHANGED doc
       ELSE doc' = handle[r] /\ UNCHANGED handle
    /\ Goto(r, "render")
    /\ UNCHANGED <<library, disk, torn, handlers, request, answer, faults>>

(* The closure: page_count and page_size, or render_page. *)
Render(r) ==
    /\ pc[r] = "render"
    /\ \/ Goto(r, "save") /\ UNCHANGED <<handlers, answer, faults>>
       \/ Fault /\ Finish(r, None)
    /\ UNCHANGED <<library, caches, request, handle>>

(* fs::write truncates the file and writes it; an error is ignored. *)
Truncate(r) ==
    /\ pc[r] = "save"
    /\ disk' = [disk EXCEPT ![file[r]] = None]
    /\ Goto(r, "writing")
    /\ UNCHANGED <<library, doc, torn, handlers, request, handle, answer, faults>>

WritePart(r) ==
    /\ pc[r] = "writing" /\ disk[file[r]] = None
    /\ disk' = [disk EXCEPT ![file[r]] = Partial]
    /\ UNCHANGED <<library, doc, torn, handlers, pc, request, handle, answer, faults>>

(* Two jobs may write one file at once, each at its own offset: where one  *)
(* has truncated what the other had written, there is a hole until it has  *)
(* written that far itself.  The last to end makes the file whole: what    *)
(* becomes of pictures of two editions written over each other, or of a    *)
(* hole that a failed writer leaves, is simplified to that.                *)
AlsoWritten(r) == \E q \in Requests \ {r} : pc[q] = "writing" /\ file[q] = file[r]

WriteRest(r) ==
    /\ pc[r] = "writing"
    /\ \/ disk' = [disk EXCEPT ![file[r]] = handle[r]] /\ UNCHANGED <<faults, torn>>
       \/ /\ AlsoWritten(r)
          /\ disk' = [disk EXCEPT ![file[r]] = Partial]
          /\ UNCHANGED <<faults, torn>>
       \/ Fault /\ torn' = torn \cup {file[r]} /\ UNCHANGED disk
    /\ Finish(r, handle[r])
    /\ UNCHANGED <<library, doc, request, handle>>

Job(r) ==
    \/ StartJob(r) \/ LookUp(r) \/ FindDoc(r) \/ Open(r) \/ InstallDoc(r) \/ Render(r)
    \/ Truncate(r) \/ WritePart(r) \/ WriteRest(r)

------------------------------------------------------------------------------
(* start_doc_idle_reaper *)
Reap ==
    /\ doc # None
    /\ doc' = None
    /\ UNCHANGED <<library, disk, torn, handlers, pc, request, handle, answer, faults>>

(* Somebody puts a new edition in the library. *)
InHand(b) ==
    \/ SlotHas(b)
    \/ \E r \in Requests : pc[r] \in Holding /\ file[r].book = b

Replace(b) ==
    /\ \A c \in Books : version[c] < MaxReplace
    /\ version' = [version EXCEPT ![b] = @ + 1]
    /\ stale' = IF InHand(b) THEN stale \cup {b} ELSE stale
    /\ UNCHANGED <<caches, handlers, pc, request, handle, answer, faults>>

(* The process dies and is started again. *)
Crash ==
    /\ Fault
    /\ doc' = None
    /\ permits' = RENDER_CONCURRENCY /\ holds' = {}
    /\ pc' = [r \in Requests |-> IF pc[r] = "new" THEN "new" ELSE "done"]
    /\ torn' = torn \cup {file[r] : r \in {q \in Requests : pc[q] = "writing"}}
    /\ UNCHANGED <<library, disk, request, handle, answer>>

AllServed == \A r \in Requests : pc[r] = "done"

Next ==
    \/ \E r \in Requests :
          Come(r) \/ TakePermit(r) \/ Disconnect(r) \/ Job(r)
    \/ Reap
    \/ \E b \in Books : Replace(b)
    \/ Crash
    \/ AllServed /\ UNCHANGED vars

Spec == Init /\ [][Next]_vars

(* The runtime goes on while a permit can be granted or a job can take a   *)
(* step.  Clients, editions, faults and the reaper owe nothing.            *)
Fairness == WF_vars(\E r \in Requests : TakePermit(r) \/ Job(r))

FairSpec == Spec /\ Fairness

------------------------------------------------------------------------------
Answered(r) == answer[r] \notin {None, Partial}

(* With one open document for all books, and looked for twice, no request  *)
(* is ever answered with a page of another book, and none is cached.       *)
RightBook ==
    /\ \A r \in Requests : Answered(r) => answer[r].book = file[r].book
    /\ \A f \in Files : disk[f] \in Content => disk[f].book = f.book

(* What the cache key does guarantee: as long as no document of a book was *)
(* open when its file was replaced, no answer is older than the file was   *)
(* when its job began.                                                     *)
FreshUnlessOpen ==
    \A r \in Requests : Answered(r) =>
        \/ answer[r].version >= began[r]
        \/ file[r].book \in stale

(* What the comment in cache_key says: a replaced file makes what was      *)
(* cached of it void, so no answer is older than the file was when its job *)
(* began.                                                                  *)
CacheFollowsFile ==
    \A r \in Requests : Answered(r) => answer[r].version >= began[r]

(* A cut cached file is one that is being written, or whose writing was    *)
(* cut by an error or a crash - never one whose client went away, which    *)
(* happens all the time.                                                   *)
TornOnlyByFault ==
    \A f \in Files : disk[f] = Partial =>
        f \in torn \/ \E r \in Requests : pc[r] = "writing" /\ file[r] = f

(* What the comment on render_sem says: at most so many pages are being    *)
(* rendered at a time.                                                     *)
RenderLimit ==
    Cardinality({r \in Running : file[r].kind = "page" /\ pc[r] = "render"})
        <= RENDER_CONCURRENCY

(* Every request that comes ends: permits come back however requests end.  *)
EveryRequestEnds == <>[](\A r \in Requests : pc[r] \in {"new", "done"})
=============================================================================
