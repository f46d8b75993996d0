------------------------------ MODULE DocCache -------------------------------
(***************************************************************************)
(* goservice/internal/pdfiumx/render.go: the cache of open PDFium          *)
(* documents that Renderer keeps, shared by the goroutines that render.    *)
(* A critical section of Renderer.mu is one action; cachedDoc.mu is the    *)
(* field "lock", taken by destroyDoc for one action and by a request for   *)
(* as long as it works on the document.  PDFium and the clock are left to  *)
(* choice: opening and rendering may fail, and any unused document may     *)
(* have been idle long enough for the reaper.                              *)
(***************************************************************************)
EXTENDS Integers, Sequences, SequencesExt, FiniteSets

CONSTANTS
    Threads,     \* goroutines calling Meta or RenderPageImage
    Paths,       \* books
    Docs,        \* names for cachedDoc objects, reused once unreachable
    MaxCache,    \* Renderer.maxCache
    MaxOps,      \* Engine.maxOps
    Budget,      \* calls altogether (bounds the runs)
    NoDoc        \* the nil *cachedDoc

Free == "free"   \* an unlocked cachedDoc.mu

(* Any number of goroutines and of books, but finitely many at a time. *)
ASSUME CacheAssumption ==
    /\ MaxCache \in Nat \ {0} /\ MaxOps \in Nat \ {0} /\ Budget \in Nat
    /\ IsFiniteSet(Threads) /\ Free \notin Threads
    /\ IsFiniteSet(Paths) /\ Paths # {}
    /\ Docs \subseteq Nat /\ NoDoc \notin Docs

VARIABLES
    cache,       \* Renderer.cache: the document of each path, or NoDoc
    order,       \* Renderer.order: cached paths, least recently used first
    docs,        \* the cachedDoc objects
    pc,          \* where each goroutine is
    path,        \* the book it was called for
    doc,         \* the document it holds a reference on
    victim,      \* the document it is about to destroy
    calls,       \* calls still to come
    reaped,      \* documents the reaper is about to destroy
    closing,     \* documents Renderer.Close is about to destroy
    closeCalled  \* Renderer.Close has run its critical section

vars == <<cache, order, docs, pc, path, doc, victim, calls, reaped, closing, closeCalled>>

Stages == {"idle", "lock", "unref", "evict", "destroy-victim", "open", "publish",
           "destroy-own", "using", "release", "destroy-spent"}

DocState == [path : Paths, open : BOOLEAN, refs : Nat, ops : 0 .. MaxOps,
             lock : Threads \cup {Free}]

(* One type invariant for the state of render.go. *)
CacheTypeOK ==
    /\ cache \in [Paths -> Docs \cup {NoDoc}]
    /\ order \in Seq(Paths) /\ Len(order) <= Cardinality(Paths)
    /\ docs \in [Docs -> DocState]
    /\ pc \in [Threads -> Stages]
    /\ path \in [Threads -> Paths]
    /\ doc \in [Threads -> Docs \cup {NoDoc}]
    /\ victim \in [Threads -> Docs \cup {NoDoc}]
    /\ calls \in 0 .. Budget
    /\ reaped \subseteq Docs /\ closing \subseteq Docs
    /\ closeCalled \in BOOLEAN

AnyPath == CHOOSE p \in Paths : TRUE   \* before the first call

Init ==
    /\ cache = [p \in Paths |-> NoDoc]
    /\ order = <<>>
    /\ docs = [d \in Docs |-> [path |-> AnyPath, open |-> FALSE, refs |-> 0, ops |-> 0,
                               lock |-> Free]]
    /\ pc = [t \in Threads |-> "idle"]
    /\ path = [t \in Threads |-> AnyPath]
    /\ doc = [t \in Threads |-> NoDoc]
    /\ victim = [t \in Threads |-> NoDoc]
    /\ calls = Budget
    /\ reaped = {} /\ closing = {}
    /\ closeCalled = FALSE

------------------------------------------------------------------------------
Cached == {p \in Paths : cache[p] # NoDoc}
Idle(d) == d # NoDoc /\ docs[d].refs = 0

TouchAppending(p) == order' = Append(order, p)

(* touchLocked; RemoveFirst is removeOrderLocked *)
Touch(p) == order' = Append(RemoveFirst(order, p), p)

(* delete(r.cache, path) and removeOrderLocked *)
UncacheKeepingOrder(p) == cache' = [cache EXCEPT ![p] = NoDoc] /\ order' = order

Uncache(p) ==
    /\ cache' = [cache EXCEPT ![p] = NoDoc]
    /\ order' = RemoveFirst(order, p)

(* destroyDoc: waits for the document's mutex; idempotent. *)
Destroy(d) ==
    /\ docs[d].lock = Free
    /\ docs' = [docs EXCEPT ![d].open = FALSE]

Goto(t, s) == pc' = [pc EXCEPT ![t] = s]

reaperVars == <<reaped, closing, closeCalled>>

------------------------------------------------------------------------------
Usable(p) ==
    cache[p] # NoDoc /\ docs[cache[p]].open /\ docs[cache[p]].ops < MaxOps

(* acquireDoc: a usable cached document is referenced at once ... *)
Hit(t, p) ==
    /\ pc[t] = "idle" /\ calls > 0
    /\ Usable(p)
    /\ docs' = [docs EXCEPT ![cache[p]].refs = @ + 1]
    /\ Touch(p)
    /\ doc' = [doc EXCEPT ![t] = cache[p]]
    /\ path' = [path EXCEPT ![t] = p]
    /\ calls' = calls - 1
    /\ Goto(t, "lock")
    /\ UNCHANGED <<cache, victim, reaperVars>>

(* ... and anything else goes to openFresh. *)
Miss(t, p) ==
    /\ pc[t] = "idle" /\ calls > 0
    /\ ~Usable(p)
    /\ path' = [path EXCEPT ![t] = p]
    /\ calls' = calls - 1
    /\ Goto(t, "evict")
    /\ UNCHANGED <<cache, order, docs, doc, victim, reaperVars>>

(* The referenced document's mutex, and the test of closed under it. *)
LockUnchecked(t) ==
    /\ pc[t] = "lock"
    /\ docs[doc[t]].lock = Free
    /\ Goto(t, "using") /\ docs' = [docs EXCEPT ![doc[t]].lock = t]
    /\ UNCHANGED <<cache, order, path, doc, victim, calls, reaperVars>>

Lock(t) ==
    /\ pc[t] = "lock"
    /\ docs[doc[t]].lock = Free
    /\ IF docs[doc[t]].open
       THEN Goto(t, "using") /\ docs' = [docs EXCEPT ![doc[t]].lock = t]
       ELSE Goto(t, "unref") /\ UNCHANGED docs
    /\ UNCHANGED <<cache, order, path, doc, victim, calls, reaperVars>>

(* It was closed meanwhile: drop the reference and openFresh. *)
Unref(t) ==
    /\ pc[t] = "unref"
    /\ docs' = [docs EXCEPT ![doc[t]].refs = @ - 1]
    /\ doc' = [doc EXCEPT ![t] = NoDoc]
    /\ Goto(t, "evict")
    /\ UNCHANGED <<cache, order, path, victim, calls, reaperVars>>

------------------------------------------------------------------------------
(* openFresh: while the cache is full, drop the least recently used        *)
(* document that nobody references; go on when there is none.              *)
Evict(t) ==
    /\ pc[t] = "evict"
    /\ \/ /\ Cardinality(Cached) >= MaxCache
          /\ \E i \in 1 .. Len(order) :
                /\ Idle(cache[order[i]])
                /\ \A j \in 1 .. i - 1 : ~Idle(cache[order[j]])
                /\ victim' = [victim EXCEPT ![t] = cache[order[i]]]
                /\ Uncache(order[i])
          /\ Goto(t, "destroy-victim")
       \/ /\ \/ Cardinality(Cached) < MaxCache
             \/ \A i \in 1 .. Len(order) : ~Idle(cache[order[i]])
          /\ Goto(t, "open")
          /\ UNCHANGED <<cache, order, victim>>
    /\ UNCHANGED <<docs, path, doc, calls, reaperVars>>

DestroyVictim(t) ==
    /\ pc[t] = "destroy-victim"
    /\ Destroy(victim[t])
    /\ victim' = [victim EXCEPT ![t] = NoDoc]
    /\ Goto(t, "evict")
    /\ UNCHANGED <<cache, order, path, doc, calls, reaperVars>>

Reachable(d) ==
    \/ docs[d].open
    \/ d \in reaped \cup closing
    \/ \E t \in Threads : d \in {doc[t], victim[t]}

(* Acquire and OpenDocument, without any lock.  The new document is locked *)
(* and referenced by its creator.                                          *)
Open(t) ==
    /\ pc[t] = "open"
    /\ \E d \in Docs :
        /\ ~Reachable(d)
        /\ \A e \in Docs : e < d => Reachable(e)
        /\ docs' = [docs EXCEPT ![d] = [path |-> path[t], open |-> TRUE, refs |-> 1,
                                         ops |-> 0, lock |-> t]]
        /\ victim' = [victim EXCEPT ![t] = d]
    /\ Goto(t, "publish")
    /\ UNCHANGED <<cache, order, path, doc, calls, reaperVars>>

OpenFails(t) ==
    /\ pc[t] = "open"
    /\ Goto(t, "idle")
    /\ UNCHANGED <<cache, order, docs, path, doc, victim, calls, reaperVars>>

(* Enter the new document (victim[t]) in the cache, ... *)
PublishNew(t) ==
    LET p == path[t] IN
    /\ cache' = [cache EXCEPT ![p] = victim[t]]
    /\ Touch(p)
    /\ doc' = [doc EXCEPT ![t] = victim[t]]
    /\ victim' = [victim EXCEPT ![t] = NoDoc]
    /\ Goto(t, "using")
    /\ UNCHANGED docs

(* ... unless a concurrent goroutine was first: then use its document and  *)
(* destroy the new one.                                                    *)
PublishOverwriting(t) ==
    /\ pc[t] = "publish"
    /\ PublishNew(t)
    /\ UNCHANGED <<path, calls, reaperVars>>

PublishUnreferenced(t) ==
    LET exist == cache[path[t]] IN
    /\ pc[t] = "publish"
    /\ IF exist # NoDoc /\ docs[exist].open
       THEN /\ docs' = [docs EXCEPT ![victim[t]].refs = 0, ![victim[t]].lock = Free]
            /\ Touch(path[t])
            /\ doc' = [doc EXCEPT ![t] = exist]
            /\ Goto(t, "destroy-own")
            /\ UNCHANGED <<cache, victim>>
       ELSE PublishNew(t)
    /\ UNCHANGED <<path, calls, reaperVars>>

Publish(t) ==
    LET exist == cache[path[t]] IN
    /\ pc[t] = "publish"
    /\ IF exist # NoDoc /\ docs[exist].open
       THEN /\ docs' = [docs EXCEPT ![exist].refs = @ + 1,
                                    ![victim[t]].refs = 0, ![victim[t]].lock = Free]
            /\ Touch(path[t])
            /\ doc' = [doc EXCEPT ![t] = exist]
            /\ Goto(t, "destroy-own")
            /\ UNCHANGED <<cache, victim>>
       ELSE PublishNew(t)
    /\ UNCHANGED <<path, calls, reaperVars>>

DestroyOwn(t) ==
    /\ pc[t] = "destroy-own"
    /\ Destroy(victim[t])
    /\ victim' = [victim EXCEPT ![t] = NoDoc]
    /\ Goto(t, "lock")
    /\ UNCHANGED <<cache, order, path, doc, calls, reaperVars>>

------------------------------------------------------------------------------
(* Meta and RenderPageImage: ops counts what succeeds (counted up to       *)
(* MaxOps, the only value it is compared with); every way out unlocks.     *)
UseFailsLocked(t) ==
    /\ pc[t] = "using"
    /\ UNCHANGED docs
    /\ Goto(t, "release")
    /\ UNCHANGED <<cache, order, path, doc, victim, calls, reaperVars>>

Use(t) ==
    /\ pc[t] = "using"
    /\ \E done \in {0, 1} :
        docs' = [docs EXCEPT ![doc[t]].lock = Free,
                             ![doc[t]].ops = IF @ + done > MaxOps THEN MaxOps ELSE @ + done]
    /\ Goto(t, "release")
    /\ UNCHANGED <<cache, order, path, doc, victim, calls, reaperVars>>

(* releaseRef: the last user of a document that has done its share of      *)
(* operations takes it out of the cache and destroys it.                   *)
Release(t) ==
    LET d == doc[t]
        left == IF docs[d].refs = 0 THEN 0 ELSE docs[d].refs - 1
    IN
    /\ pc[t] = "release"
    /\ docs' = [docs EXCEPT ![d].refs = left]
    /\ IF docs[d].ops >= MaxOps /\ left = 0
       THEN /\ IF cache[docs[d].path] = d THEN Uncache(docs[d].path)
                                          ELSE UNCHANGED <<cache, order>>
            /\ victim' = [victim EXCEPT ![t] = d]
            /\ Goto(t, "destroy-spent")
       ELSE Goto(t, "idle") /\ UNCHANGED <<cache, order, victim>>
    /\ doc' = [doc EXCEPT ![t] = NoDoc]
    /\ UNCHANGED <<path, calls, reaperVars>>

DestroySpent(t) ==
    /\ pc[t] = "destroy-spent"
    /\ Destroy(victim[t])
    /\ victim' = [victim EXCEPT ![t] = NoDoc]
    /\ Goto(t, "idle")
    /\ UNCHANGED <<cache, order, path, doc, calls, reaperVars>>

Thread(t) ==
    \/ \E p \in Paths : Hit(t, p) \/ Miss(t, p)
    \/ Lock(t) \/ Unref(t) \/ Evict(t) \/ DestroyVictim(t) \/ Open(t) \/ OpenFails(t)
    \/ Publish(t) \/ DestroyOwn(t) \/ Use(t) \/ Release(t) \/ DestroySpent(t)

------------------------------------------------------------------------------
threadVars == <<pc, path, doc, victim, calls>>

(* removeOrderLocked for the paths of S in turn: what stays keeps its order. *)
Without(S) ==
    LET kept == {i \in DOMAIN order : order[i] \notin S}
    IN  [k \in 1 .. Cardinality(kept) |->
            order[CHOOSE i \in kept : Cardinality({j \in kept : j < i}) = k - 1]]

(* reaper: one pass collects every document that is unused and idle ... *)
ReapInUse ==
    /\ reaped = {}
    /\ \E S \in SUBSET Cached :
        /\ S # {}
        /\ reaped' = {cache[p] : p \in S}
        /\ cache' = [p \in Paths |-> IF p \in S THEN NoDoc ELSE cache[p]]
        /\ order' = Without(S)
    /\ UNCHANGED <<docs, threadVars, closing, closeCalled>>

Reap ==
    /\ reaped = {}
    /\ \E S \in SUBSET {p \in Cached : Idle(cache[p])} :
        /\ S # {}
        /\ reaped' = {cache[p] : p \in S}
        /\ cache' = [p \in Paths |-> IF p \in S THEN NoDoc ELSE cache[p]]
        /\ order' = Without(S)
    /\ UNCHANGED <<docs, threadVars, closing, closeCalled>>

(* ... and destroys them after it has left Renderer.mu. *)
ReaperDestroys(d) ==
    /\ d \in reaped
    /\ Destroy(d)
    /\ reaped' = reaped \ {d}
    /\ UNCHANGED <<cache, order, threadVars, closing, closeCalled>>

(* Renderer.Close empties the cache whatever is in use. *)
Close ==
    /\ ~closeCalled
    /\ closeCalled' = TRUE
    /\ closing' = {cache[p] : p \in Cached}
    /\ cache' = [p \in Paths |-> NoDoc]
    /\ order' = <<>>
    /\ UNCHANGED <<docs, threadVars, reaped>>

CloseDestroys(d) ==
    /\ d \in closing
    /\ Destroy(d)
    /\ closing' = closing \ {d}
    /\ UNCHANGED <<cache, order, threadVars, reaped, closeCalled>>

AllServed ==
    calls = 0 /\ \A t \in Threads : pc[t] = "idle"

Next ==
    \/ \E t \in Threads : Thread(t)
    \/ Reap \/ Close
    \/ \E d \in Docs : ReaperDestroys(d) \/ CloseDestroys(d)
    \/ AllServed /\ UNCHANGED vars

(* Goroutines keep running and PDFium returns; nothing forces Close.  The  *)
(* calls are finitely many, and fairness makes them all come: under an     *)
(* endless stream of calls openFresh could find the cache full forever.    *)
Spec == Init /\ [][Next]_vars
FairSpec ==
    /\ Spec
    /\ \A t \in Threads : WF_vars(Thread(t))
    /\ \A d \in Docs : WF_vars(ReaperDestroys(d)) /\ WF_vars(CloseDestroys(d))

------------------------------------------------------------------------------
(* Every goroutine that has counted itself in docs[d].refs. *)
Referrers(d) ==
    {t \in Threads :
        \/ doc[t] = d
        \/ pc[t] = "publish" /\ victim[t] = d}

(* refs is exactly the number of goroutines that may still touch the       *)
(* document, so "refs == 0" is a safe test for evicting, reaping and       *)
(* recycling it - also after lost races and closed documents.              *)
RefsExact ==
    \A d \in Docs : docs[d].refs = Cardinality(Referrers(d))

(* Nobody works on a PDFium document that has been closed, or without      *)
(* holding its mutex.                                                      *)
NeverUseClosed ==
    \A t \in Threads :
        pc[t] = "using" => docs[doc[t]].open /\ docs[doc[t]].lock = t

(* Until Close, two goroutines never work on the same book at once, even   *)
(* through different instances (the comment on Renderer).                  *)
SameBookSerial ==
    ~closeCalled =>
        \A t, u \in Threads :
            pc[t] = "using" /\ pc[u] = "using" /\ path[t] = path[u] => t = u

(* An open document is never forgotten: it is in the cache, or a goroutine *)
(* still refers to it, or somebody is about to destroy it.  Cached         *)
(* documents are open, and order lists the cached paths once each.         *)
NothingLeaked ==
    /\ \A d \in Docs : docs[d].open =>
        \/ cache[docs[d].path] = d
        \/ d \in reaped \cup closing
        \/ \E t \in Threads : d \in {doc[t], victim[t]}
    /\ \A p \in Cached : docs[cache[p]].open /\ docs[cache[p]].path = p
    /\ ToSet(order) = Cached /\ IsInjective(order)

(* Every call ends: the mutexes never deadlock and the retries of          *)
(* openFresh run out when the competing calls do.                          *)
EveryCallEnds == <>AllServed
=============================================================================
