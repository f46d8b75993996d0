--------------------------- MODULE RustPagesProofs ---------------------------
(* Theorems about RustPages for any requests, books, permits, threads,     *)
(* editions and faults.                                                    *)
EXTENDS RustPages, FiniteSetTheorems, TLAPS

(* What a job works on is a document of the book it was asked for. *)
HandleRight ==
    \A r \in Requests : pc[r] \in Holding =>
        handle[r] \in Content /\ handle[r].book = file[r].book

(* A permit belongs to a request that has it and has not ended. *)
HolderRuns == \A r \in holds : pc[r] \in Jobs \cup {"queue"}

(* A request that has not ended has no answer. *)
Unanswered == \A r \in Requests : pc[r] # "done" => answer[r] = None

(* A job's file is named after the edition there was when it began. *)
KeyRight ==
    \A r \in Requests :
        /\ began[r] <= version[file[r].book]
        /\ pc[r] \in Jobs => file[r].sig = began[r]

(* As long as a book was never replaced while open, what is open of it is  *)
(* its present edition ...                                                 *)
OpenIsCurrent ==
    /\ doc # None => (doc.book \in stale \/ doc.version = version[doc.book])
    /\ \A r \in Requests : pc[r] \in Holding =>
        (file[r].book \in stale \/ handle[r].version = version[file[r].book])

(* ... and what is cached of it is not older than the name of the file.    *)
CacheIsCurrent ==
    \A f \in Files : disk[f] \in Content =>
        (f.book \in stale \/ disk[f].version >= f.sig)

(* The inductive invariant. *)
RInv ==
    /\ RustTypeOK
    /\ IsFiniteSet(holds) /\ HolderRuns
    /\ HandleRight
    /\ RightBook
    /\ Unanswered /\ KeyRight
    /\ OpenIsCurrent
    /\ CacheIsCurrent
    /\ FreshUnlessOpen
    /\ TornOnlyByFault

------------------------------------------------------------------------------
LEMMA InitRInv == Init => RInv
<1> SUFFICES ASSUME Init PROVE RInv
  OBVIOUS
<1> USE RustAssumption, RustNames
<1>1. RustTypeOK
  BY FS_EmptySet DEF Init, RustTypeOK, Versions, Jobs, Files
<1>2. IsFiniteSet(holds) /\ HolderRuns
  BY FS_EmptySet DEF Init, HolderRuns
<1>3. HandleRight /\ RightBook /\ FreshUnlessOpen
  BY DEF Init, HandleRight, Holding, RightBook, FreshUnlessOpen, Answered
<1>4. Unanswered /\ KeyRight
  BY DEF Init, Unanswered, KeyRight, Jobs, Holding, Files
<1>5. OpenIsCurrent /\ CacheIsCurrent /\ TornOnlyByFault
  BY DEF Init, OpenIsCurrent, Holding, CacheIsCurrent, TornOnlyByFault
<1> QED
  BY <1>1, <1>2, <1>3, <1>4, <1>5 DEF RInv

(* Taking and giving back a permit keeps the count. *)
LEMMA PermitCount ==
    ASSUME NEW r, IsFiniteSet(holds), RustTypeOK
    PROVE  /\ IsFiniteSet(holds \cup {r}) /\ IsFiniteSet(holds \ {r})
           /\ r \notin holds => Cardinality(holds \cup {r}) = Cardinality(holds) + 1
           /\ Cardinality(holds \ {r}) =
                IF r \in holds THEN Cardinality(holds) - 1 ELSE Cardinality(holds)
           /\ Cardinality(holds) \in Nat
           /\ r \in holds => permits < RENDER_CONCURRENCY
<1>1. Cardinality(holds) \in Nat
  BY FS_CardinalityType DEF RustTypeOK
<1>2. /\ IsFiniteSet(holds \ {r})
      /\ Cardinality(holds \ {r}) =
            IF r \in holds THEN Cardinality(holds) - 1 ELSE Cardinality(holds)
  BY FS_RemoveElement DEF RustTypeOK
<1>3. /\ IsFiniteSet(holds \cup {r})
      /\ r \notin holds => Cardinality(holds \cup {r}) = Cardinality(holds) + 1
  BY FS_AddElement DEF RustTypeOK
<1>4. r \in holds => Cardinality(holds) # 0
  BY FS_EmptySet DEF RustTypeOK
<1> QED
  BY <1>1, <1>2, <1>3, <1>4, RustAssumption DEF RustTypeOK

LEMMA ReturnPermitCounts ==
    ASSUME NEW r, IsFiniteSet(holds), RustTypeOK, ReturnPermit(r)
    PROVE  /\ IsFiniteSet(holds')
           /\ permits' + Cardinality(holds') = RENDER_CONCURRENCY
           /\ permits' \in 0 .. RENDER_CONCURRENCY
           /\ holds' \subseteq Requests
<1>1. /\ IsFiniteSet(holds \ {r})
      /\ Cardinality(holds) \in Nat
      /\ Cardinality(holds \ {r}) =
            IF r \in holds THEN Cardinality(holds) - 1 ELSE Cardinality(holds)
      /\ r \in holds => permits < RENDER_CONCURRENCY
  BY PermitCount
<1>2. permits \in 0 .. RENDER_CONCURRENCY /\ permits + Cardinality(holds) = RENDER_CONCURRENCY
  BY DEF RustTypeOK
<1>3. holds' = holds \ {r} /\ permits' = IF r \in holds THEN permits + 1 ELSE permits
  BY DEF ReturnPermit
<1>4. holds' \subseteq Requests
  BY <1>3 DEF RustTypeOK
<1>5. CASE r \in holds
  BY <1>1, <1>2, <1>3, <1>4, <1>5, RustAssumption
<1>6. CASE r \notin holds
  BY <1>1, <1>2, <1>3, <1>4, <1>6, RustAssumption
<1> QED
  BY <1>5, <1>6

------------------------------------------------------------------------------
(* The handlers touch permits and program counters only. *)
LEMMA HandlerRInv ==
    ASSUME RInv, NEW r \in Requests, Come(r) \/ TakePermit(r) \/ Disconnect(r)
    PROVE  RInv'
<1> USE RustAssumption, RustNames
<1> DEFINE A == Come(r) \/ TakePermit(r) \/ Disconnect(r)
<1>0. /\ UNCHANGED <<version, stale, doc, disk, torn, file, began, handle, answer, faults>>
      /\ \A q \in Requests : pc[q] \in Jobs \/ pc'[q] \in Jobs => pc'[q] = pc[q]
      /\ \A q \in Requests : pc'[q] # "done" => pc[q] # "done"
      /\ pc' \in [Requests -> Jobs \cup {"new", "sem", "queue", "done"}]
  BY DEF RInv, RustTypeOK, Come, TakePermit, Disconnect, Goto, library, caches, request, Jobs, Holding
<1>1. RustTypeOK' /\ IsFiniteSet(holds)' /\ HolderRuns'
  <2>1. CASE Come(r)
    BY <1>0, <2>1 DEF RInv, RustTypeOK, Come, handlers, HolderRuns, Goto
  <2>2. CASE TakePermit(r)
    <3>1. r \notin holds
      BY <2>2 DEF RInv, HolderRuns, TakePermit, Jobs, Holding
    <3>2. /\ IsFiniteSet(holds')
          /\ Cardinality(holds') = Cardinality(holds) + 1
          /\ permits' + Cardinality(holds') = RENDER_CONCURRENCY
          /\ permits' \in 0 .. RENDER_CONCURRENCY
      BY <2>2, <3>1, PermitCount DEF RInv, RustTypeOK, TakePermit
    <3> QED
      BY <1>0, <2>2, <3>2 DEF RInv, RustTypeOK, TakePermit, HolderRuns, Goto
  <2>3. CASE Disconnect(r)
    <3>1. /\ IsFiniteSet(holds')
          /\ permits' + Cardinality(holds') = RENDER_CONCURRENCY
          /\ permits' \in 0 .. RENDER_CONCURRENCY
      BY <2>3, ReturnPermitCounts DEF RInv, Disconnect
    <3> QED
      BY <1>0, <2>3, <3>1 DEF RInv, RustTypeOK, Disconnect, ReturnPermit, HolderRuns, Goto
  <2> QED
    BY <2>1, <2>2, <2>3
<1>2. HandleRight' /\ RightBook' /\ Unanswered' /\ KeyRight'
  BY <1>0 DEF RInv, HandleRight, RightBook, Answered, Unanswered, KeyRight, Jobs, RustTypeOK
<1>3. OpenIsCurrent' /\ CacheIsCurrent' /\ FreshUnlessOpen'
  BY <1>0 DEF RInv, OpenIsCurrent, CacheIsCurrent, FreshUnlessOpen, Answered, Jobs, RustTypeOK
<1>4. TornOnlyByFault'
  BY <1>0 DEF RInv, TornOnlyByFault, Jobs, Holding
<1> QED
  BY <1>1, <1>2, <1>3, <1>4 DEF RInv

(* cache_key: the request's file gets its name. *)
LEMMA StartJobRInv ==
    ASSUME RInv, NEW r \in Requests, StartJob(r)
    PROVE  RInv'
<1> USE RustAssumption, RustNames
<1>0. /\ UNCHANGED <<version, stale, doc, disk, torn, permits, holds, handle, answer, faults>>
      /\ pc[r] = "queue" /\ pc' = [pc EXCEPT ![r] = "look"]
      /\ file' = [file EXCEPT ![r] = CacheKey(file[r].book, file[r].kind)]
      /\ began' = [began EXCEPT ![r] = version[file[r].book]]
  BY DEF StartJob, Goto, library, caches, handlers
<1>1. /\ file[r] \in Files /\ version[file[r].book] \in Versions
      /\ CacheKey(file[r].book, file[r].kind) \in Files
  BY DEF RInv, RustTypeOK, Files, CacheKey
<1>2. RustTypeOK' /\ IsFiniteSet(holds)' /\ HolderRuns'
  BY <1>0, <1>1 DEF RInv, RustTypeOK, HolderRuns, Jobs
<1>3. \A q \in Requests : file'[q].book = file[q].book
  BY <1>0, <1>1 DEF RInv, RustTypeOK, CacheKey
<1>4. HandleRight' /\ RightBook'
  BY <1>0, <1>3 DEF RInv, RustTypeOK, HandleRight, Holding, RightBook, Answered
<1>5. Unanswered' /\ KeyRight'
  BY <1>0, <1>1, <1>3 DEF RInv, RustTypeOK, Unanswered, KeyRight, CacheKey, Versions
<1>6. OpenIsCurrent' /\ CacheIsCurrent'
  BY <1>0, <1>3 DEF RInv, RustTypeOK, OpenIsCurrent, CacheIsCurrent, Holding
<1>7. FreshUnlessOpen'
  <2>1. SUFFICES ASSUME NEW q \in Requests, Answered(q)', file'[q].book \notin stale'
                 PROVE  answer'[q].version >= began'[q]
    BY DEF FreshUnlessOpen
  <2>2. CASE q = r
    BY <1>0, <2>1, <2>2 DEF RInv, Unanswered, Answered
  <2> QED
    BY <1>0, <1>3, <2>1, <2>2 DEF RInv, RustTypeOK, FreshUnlessOpen, Answered
<1>8. TornOnlyByFault'
  BY <1>0 DEF RInv, RustTypeOK, TornOnlyByFault
<1> QED
  BY <1>2, <1>4, <1>5, <1>6, <1>7, <1>8 DEF RInv

(* Ending a job with an answer that is right and fresh keeps all that is   *)
(* said of requests.                                                       *)
RightAnswer(r, what) ==
    what \in Content =>
        /\ what.book = file[r].book
        /\ what.version >= began[r] \/ file[r].book \in stale

RequestPart ==
    /\ permits \in 0 .. RENDER_CONCURRENCY
    /\ permits + Cardinality(holds) = RENDER_CONCURRENCY
    /\ pc \in [Requests -> Jobs \cup {"new", "sem", "queue", "done"}]
    /\ holds \subseteq Requests /\ IsFiniteSet(holds) /\ HolderRuns
    /\ answer \in [Requests -> Content \cup {None, Partial}]
    /\ \A r \in Requests : Answered(r) => answer[r].book = file[r].book
    /\ HandleRight /\ Unanswered /\ KeyRight /\ OpenIsCurrent /\ FreshUnlessOpen

LEMMA FinishKeepsRequests ==
    ASSUME RInv, NEW r \in Requests, pc[r] \in Jobs,
           NEW what \in Content \cup {None, Partial}, RightAnswer(r, what), Finish(r, what),
           UNCHANGED <<version, stale, doc, file, began, handle>>
    PROVE  RequestPart'
<1> USE RustAssumption, RustNames
<1>0. /\ answer' = [answer EXCEPT ![r] = what]
      /\ pc' = [pc EXCEPT ![r] = "done"]
      /\ holds' = holds \ {r}
      /\ UNCHANGED <<version, stale, doc, file, began, handle>>
  BY DEF Finish, Goto, ReturnPermit
<1>1. /\ IsFiniteSet(holds')
      /\ permits' + Cardinality(holds') = RENDER_CONCURRENCY
      /\ permits' \in 0 .. RENDER_CONCURRENCY
      /\ holds' \subseteq Requests
  BY ReturnPermitCounts DEF RInv, Finish
<1>2. /\ pc' \in [Requests -> Jobs \cup {"new", "sem", "queue", "done"}]
      /\ answer' \in [Requests -> Content \cup {None, Partial}]
  BY <1>0 DEF RInv, RustTypeOK
<1>3. HolderRuns' /\ Unanswered'
  BY <1>0 DEF RInv, RustTypeOK, HolderRuns, Unanswered
<1>4. HandleRight' /\ KeyRight' /\ OpenIsCurrent'
  <2>1. \A q \in Requests : pc'[q] \in Jobs => pc'[q] = pc[q]
    BY <1>0 DEF RInv, RustTypeOK, Jobs, Holding
  <2> QED
    BY <1>0, <2>1 DEF RInv, HandleRight, KeyRight, OpenIsCurrent, Jobs
<1>5. ASSUME NEW q \in Requests, Answered(q)'
      PROVE  /\ answer'[q].book = file'[q].book
             /\ answer'[q].version >= began'[q] \/ file'[q].book \in stale'
  <2>1. CASE q = r
    <3>1. answer'[q] = what
      BY <1>0, <2>1 DEF RInv, RustTypeOK
    <3>2. what \in Content
      BY <1>5, <3>1 DEF Answered
    <3> QED
      BY <1>0, <2>1, <3>1, <3>2 DEF RightAnswer
  <2>2. CASE q # r
    <3>1. answer'[q] = answer[q] /\ Answered(q)
      BY <1>0, <1>5, <2>2 DEF RInv, RustTypeOK, Answered
    <3> QED
      BY <1>0, <3>1 DEF RInv, RightBook, FreshUnlessOpen
  <2> QED
    BY <2>1, <2>2
<1>6. /\ \A q \in Requests : Answered(q)' => answer'[q].book = file'[q].book
      /\ FreshUnlessOpen'
  BY <1>5 DEF FreshUnlessOpen
<1> QED
  BY <1>1, <1>2, <1>3, <1>4, <1>6 DEF RequestPart

(* Likewise for what is said of the cached files. *)
CachePart ==
    /\ disk \in [Files -> Content \cup {None, Partial}]
    /\ torn \subseteq Files
    /\ \A f \in Files : disk[f] \in Content => disk[f].book = f.book
    /\ CacheIsCurrent /\ TornOnlyByFault

LEMMA CacheUnchanged ==
    ASSUME RInv, UNCHANGED <<stale, disk, torn, file>>,
           \A q \in Requests : pc[q] = "writing" => pc'[q] = "writing"
    PROVE  CachePart'
BY DEF RInv, RustTypeOK, CachePart, RightBook, CacheIsCurrent, TornOnlyByFault

LEMMA PartsMakeRInv ==
    ASSUME RequestPart', CachePart',
           version' \in [Books -> Versions], doc' \in Content \cup {None},
           file' \in [Requests -> Files], began' \in [Requests -> Versions],
           handle' \in [Requests -> Content \cup {None}],
           faults' \in 0 .. MaxFaults, stale' \subseteq Books
    PROVE  RInv'
BY DEF RequestPart, CachePart, RInv, RustTypeOK, RightBook

(* A failure ends a job without an answer. *)
LEMMA FaultRInv ==
    ASSUME RInv, NEW r \in Requests, pc[r] \in Jobs \ {"writing"}, Fault, Finish(r, None),
           UNCHANGED <<version, stale, doc, disk, torn, file, began, handle>>
    PROVE  RInv'
<1>1. RequestPart'
  BY FinishKeepsRequests, RustNames DEF RightAnswer
<1>2. CachePart'
  BY CacheUnchanged DEF RInv, RustTypeOK, Finish, Goto
<1> QED
  BY <1>1, <1>2, PartsMakeRInv, RustAssumption DEF RInv, RustTypeOK, Fault

(* The cached file is found, or not. *)
LEMMA LookUpRInv ==
    ASSUME RInv, NEW r \in Requests, LookUp(r)
    PROVE  RInv'
<1>0. /\ pc[r] = "look" /\ pc[r] \in Jobs
      /\ UNCHANGED <<version, stale, doc, disk, torn, file, began, handle, faults>>
      /\ file[r] \in Files /\ disk[file[r]] \in Content \cup {None, Partial}
  BY DEF LookUp, library, caches, request, Jobs, RInv, RustTypeOK
<1>1. CASE Finish(r, disk[file[r]])
  <2>1. RightAnswer(r, disk[file[r]])
    BY <1>0 DEF RInv, RightAnswer, RightBook, CacheIsCurrent, KeyRight
  <2>2. RequestPart'
    BY <1>0, <1>1, <2>1, FinishKeepsRequests
  <2>3. CachePart'
    BY <1>0, <1>1, CacheUnchanged DEF RInv, RustTypeOK, Finish, Goto
  <2> QED
    BY <1>0, <2>2, <2>3, PartsMakeRInv DEF RInv, RustTypeOK
<1>2. CASE Goto(r, "find") /\ UNCHANGED <<handlers, answer>>
  <2>1. pc' = [pc EXCEPT ![r] = "find"] /\ UNCHANGED <<permits, holds, answer>>
    BY <1>2 DEF Goto, handlers
  <2>2. RequestPart'
    BY <1>0, <2>1 DEF RInv, RustTypeOK, RequestPart, HolderRuns, HandleRight, Unanswered, KeyRight,
                      OpenIsCurrent, FreshUnlessOpen, RightBook, Answered, Jobs, Holding
  <2>3. CachePart'
    BY <1>0, <2>1, CacheUnchanged DEF RInv, RustTypeOK
  <2> QED
    BY <1>0, <2>2, <2>3, PartsMakeRInv DEF RInv, RustTypeOK
<1> QED
  BY <1>1, <1>2 DEF LookUp

(* Taking a document of the right book, in its present edition unless it   *)
(* has been open since an earlier one.                                     *)
LEMMA HandleRInv ==
    ASSUME RInv, NEW r \in Requests, NEW d \in Content, NEW label \in {"install", "render"},
           pc[r] \in {"find", "open", "install"},
           pc' = [pc EXCEPT ![r] = label], handle' = [handle EXCEPT ![r] = d],
           d.book = file[r].book,
           d.book \in stale \/ d.version = version[d.book],
           doc' = doc \/ doc' = d,
           UNCHANGED <<version, stale, disk, torn, permits, holds, file, began, answer, faults>>
    PROVE  RInv'
<1> USE RustNames
<1>1. /\ permits' \in 0 .. RENDER_CONCURRENCY
      /\ permits' + Cardinality(holds') = RENDER_CONCURRENCY
      /\ pc' \in [Requests -> Jobs \cup {"new", "sem", "queue", "done"}]
      /\ holds' \subseteq Requests /\ IsFiniteSet(holds') /\ HolderRuns'
      /\ answer' \in [Requests -> Content \cup {None, Partial}]
  BY DEF RInv, RustTypeOK, HolderRuns, Jobs, Holding
<1>2. /\ \A q \in Requests : Answered(q)' => answer'[q].book = file'[q].book
      /\ Unanswered' /\ KeyRight' /\ FreshUnlessOpen'
  BY DEF RInv, RustTypeOK, RightBook, Unanswered, KeyRight, FreshUnlessOpen, Answered, Jobs, Holding
<1>3. HandleRight'
  BY DEF RInv, RustTypeOK, HandleRight, Holding
<1>4. OpenIsCurrent'
  BY DEF RInv, RustTypeOK, OpenIsCurrent, Holding
<1>5. CachePart'
  BY CacheUnchanged DEF RInv, RustTypeOK
<1> QED
  BY <1>1, <1>2, <1>3, <1>4, <1>5, PartsMakeRInv DEF RInv, RustTypeOK, RequestPart

(* with_doc *)
LEMMA WithDocRInv ==
    ASSUME RInv, NEW r \in Requests, FindDoc(r) \/ Open(r) \/ InstallDoc(r)
    PROVE  RInv'
<1>0. /\ file[r] \in Files /\ file[r].book \in Books
      /\ version[file[r].book] \in Versions
      /\ doc # None => doc \in Content
  BY DEF RInv, RustTypeOK, Files
<1>1. CASE FindDoc(r)
  <2>1. /\ pc[r] = "find"
        /\ UNCHANGED <<version, stale, doc, disk, torn, permits, holds, file, began, answer, faults>>
    BY <1>1 DEF FindDoc, library, caches, handlers, request
  <2>2. CASE SlotHas(file[r].book)
    <3>1. doc.book = file[r].book /\ (doc.book \in stale \/ doc.version = version[doc.book])
      BY <2>2 DEF SlotHas, RInv, OpenIsCurrent
    <3> QED
      BY <1>0, <1>1, <2>1, <2>2, <3>1, HandleRInv DEF FindDoc, SlotHas, Goto
  <2>3. CASE ~SlotHas(file[r].book)
    <3>1. pc' = [pc EXCEPT ![r] = "open"] /\ UNCHANGED handle
      BY <1>1, <2>3 DEF FindDoc, Goto
    <3>2. RequestPart'
      BY <2>1, <3>1 DEF RInv, RustTypeOK, RequestPart, HolderRuns, HandleRight, Unanswered, KeyRight,
                        OpenIsCurrent, FreshUnlessOpen, RightBook, Answered, Jobs, Holding
    <3>3. CachePart'
      BY <2>1, <3>1, CacheUnchanged DEF RInv, RustTypeOK
    <3> QED
      BY <2>1, <3>1, <3>2, <3>3, PartsMakeRInv DEF RInv, RustTypeOK
  <2> QED
    BY <2>2, <2>3
<1>2. CASE Open(r)
  <2>1. pc[r] = "open" /\ UNCHANGED <<version, stale, doc, disk, torn, file, began>>
    BY <1>2 DEF Open, library, caches, request
  <2>2. CASE Fault /\ Finish(r, None) /\ UNCHANGED handle
    BY <2>1, <2>2, FaultRInv DEF Jobs
  <2>3. CASE ~(Fault /\ Finish(r, None) /\ UNCHANGED handle)
    <3> DEFINE d == [book |-> file[r].book, version |-> version[file[r].book]]
    <3>1. /\ handle' = [handle EXCEPT ![r] = d] /\ pc' = [pc EXCEPT ![r] = "install"]
          /\ UNCHANGED <<permits, holds, answer, faults>>
      BY <1>2, <2>3 DEF Open, Goto, handlers
    <3>2. d \in Content /\ d.book = file[r].book /\ d.version = version[d.book]
      BY <1>0 DEF Content
    <3> QED
      BY <2>1, <3>1, <3>2, HandleRInv
  <2> QED
    BY <2>2, <2>3
<1>3. CASE InstallDoc(r)
  <2>1. /\ pc[r] = "install" /\ pc' = [pc EXCEPT ![r] = "render"]
        /\ UNCHANGED <<version, stale, disk, torn, permits, holds, file, began, answer, faults>>
    BY <1>3 DEF InstallDoc, Goto, library, handlers, request
  <2>2. CASE SlotHas(file[r].book)
    <3>1. doc.book = file[r].book /\ (doc.book \in stale \/ doc.version = version[doc.book])
      BY <2>2 DEF SlotHas, RInv, OpenIsCurrent
    <3> QED
      BY <1>0, <1>3, <2>1, <2>2, <3>1, HandleRInv DEF InstallDoc, SlotHas
  <2>3. CASE ~SlotHas(file[r].book)
    <3>1. handle[r] \in Content /\ handle[r].book = file[r].book
      BY <2>1 DEF RInv, HandleRight, Holding
    <3>2. handle[r].book \in stale \/ handle[r].version = version[handle[r].book]
      BY <2>1, <3>1 DEF RInv, OpenIsCurrent, Holding
    <3>3. doc' = handle[r] /\ handle' = [handle EXCEPT ![r] = handle[r]]
      BY <1>3, <2>3 DEF InstallDoc, RInv, RustTypeOK
    <3> QED
      BY <2>1, <3>1, <3>2, <3>3, HandleRInv
  <2> QED
    BY <2>2, <2>3
<1> QED
  BY <1>1, <1>2, <1>3

(* The closure of with_doc. *)
LEMMA RenderRInv ==
    ASSUME RInv, NEW r \in Requests, Render(r)
    PROVE  RInv'
<1>1. pc[r] = "render" /\ UNCHANGED <<version, stale, doc, disk, torn, file, began, handle>>
  BY DEF Render, library, caches, request
<1>2. CASE Fault /\ Finish(r, None)
  BY <1>1, <1>2, FaultRInv DEF Jobs, Holding
<1>3. CASE Goto(r, "save") /\ UNCHANGED <<handlers, answer, faults>>
  <2>1. pc' = [pc EXCEPT ![r] = "save"] /\ UNCHANGED <<permits, holds, answer, faults>>
    BY <1>3 DEF Goto, handlers
  <2>2. RequestPart'
    BY <1>1, <2>1 DEF RInv, RustTypeOK, RequestPart, HolderRuns, HandleRight, Unanswered, KeyRight,
                      OpenIsCurrent, FreshUnlessOpen, RightBook, Answered, Jobs, Holding
  <2>3. CachePart'
    BY <1>1, <2>1, CacheUnchanged DEF RInv, RustTypeOK
  <2> QED
    BY <1>1, <2>1, <2>2, <2>3, PartsMakeRInv DEF RInv, RustTypeOK
<1> QED
  BY <1>2, <1>3 DEF Render

(* What a job renders may be cached under its file's name. *)
LEMMA HandleFitsFile ==
    ASSUME RInv, NEW r \in Requests, pc[r] = "writing"
    PROVE  /\ handle[r] \in Content /\ handle[r].book = file[r].book
           /\ file[r] \in Files /\ file[r].sig = began[r]
           /\ file[r].book \in stale \/ handle[r].version >= file[r].sig
<1>1. handle[r] \in Content /\ handle[r].book = file[r].book /\ file[r] \in Files
  BY DEF RInv, RustTypeOK, HandleRight, Holding
<1>2. file[r].sig = began[r] /\ began[r] <= version[file[r].book]
  BY DEF RInv, KeyRight, Jobs, Holding
<1>3. file[r].book \in stale \/ handle[r].version = version[file[r].book]
  BY DEF RInv, OpenIsCurrent, Holding
<1>4. file[r].sig \in Int /\ handle[r].version \in Int
  BY <1>1 DEF Files, Content, Versions
<1> QED
  BY <1>1, <1>2, <1>3, <1>4

(* fs::write *)
LEMMA WriteRInv ==
    ASSUME RInv, NEW r \in Requests, Truncate(r) \/ WritePart(r) \/ WriteRest(r)
    PROVE  RInv'
<1> USE RustNames
<1>0. UNCHANGED <<version, stale, doc, file, began, handle>> /\ file[r] \in Files
  BY DEF Truncate, WritePart, WriteRest, library, request, RInv, RustTypeOK
<1>1. CASE Truncate(r)
  <2>1. /\ pc[r] = "save" /\ pc' = [pc EXCEPT ![r] = "writing"]
        /\ disk' = [disk EXCEPT ![file[r]] = None]
        /\ UNCHANGED <<torn, permits, holds, answer, faults>>
    BY <1>1 DEF Truncate, Goto, handlers
  <2>2. RequestPart'
    BY <1>0, <2>1 DEF RInv, RustTypeOK, RequestPart, HolderRuns, HandleRight, Unanswered, KeyRight,
                      OpenIsCurrent, FreshUnlessOpen, RightBook, Answered, Jobs, Holding
  <2>3. CachePart'
    BY <1>0, <2>1 DEF RInv, RustTypeOK, CachePart, RightBook, CacheIsCurrent, TornOnlyByFault
  <2> QED
    BY <1>0, <2>1, <2>2, <2>3, PartsMakeRInv DEF RInv, RustTypeOK
<1>2. CASE WritePart(r)
  <2>1. /\ pc[r] = "writing" /\ UNCHANGED pc
        /\ disk' = [disk EXCEPT ![file[r]] = Partial]
        /\ UNCHANGED <<torn, permits, holds, answer, faults>>
    BY <1>2 DEF WritePart, handlers
  <2>2. RequestPart'
    BY <1>0, <2>1 DEF RInv, RustTypeOK, RequestPart, HolderRuns, HandleRight, Unanswered, KeyRight,
                      OpenIsCurrent, FreshUnlessOpen, RightBook, Answered
  <2>3. CachePart'
    BY <1>0, <2>1 DEF RInv, RustTypeOK, CachePart, RightBook, CacheIsCurrent, TornOnlyByFault
  <2> QED
    BY <1>0, <2>1, <2>2, <2>3, PartsMakeRInv DEF RInv, RustTypeOK
<1>3. CASE WriteRest(r)
  <2>1. pc[r] = "writing" /\ pc' = [pc EXCEPT ![r] = "done"] /\ Finish(r, handle[r])
    BY <1>3 DEF WriteRest, Finish, Goto
  <2>2. /\ handle[r] \in Content /\ handle[r].book = file[r].book /\ file[r].sig = began[r]
        /\ file[r].book \in stale \/ handle[r].version >= file[r].sig
    BY <2>1, HandleFitsFile
  <2>3. RequestPart'
    <3>1. RightAnswer(r, handle[r])
      BY <2>2 DEF RightAnswer
    <3>2. pc[r] \in Jobs
      BY <2>1 DEF Jobs, Holding
    <3> QED
      BY <1>0, <2>1, <2>2, <3>1, <3>2, FinishKeepsRequests
  <2>4. CASE disk' = [disk EXCEPT ![file[r]] = handle[r]] /\ UNCHANGED <<faults, torn>>
    <3>1. CachePart'
      BY <1>0, <2>1, <2>2, <2>4
      DEF RInv, RustTypeOK, CachePart, RightBook, CacheIsCurrent, TornOnlyByFault
    <3> QED
      BY <1>0, <2>3, <2>4, <3>1, PartsMakeRInv DEF RInv, RustTypeOK
  <2>5. CASE /\ AlsoWritten(r)
             /\ disk' = [disk EXCEPT ![file[r]] = Partial] /\ UNCHANGED <<faults, torn>>
    <3>1. PICK q \in Requests \ {r} : pc'[q] = "writing" /\ file[q] = file[r]
      BY <2>1, <2>5 DEF AlsoWritten, RInv, RustTypeOK
    <3>2. CachePart'
      BY <1>0, <2>1, <2>5, <3>1
      DEF RInv, RustTypeOK, CachePart, RightBook, CacheIsCurrent, TornOnlyByFault
    <3> QED
      BY <1>0, <2>3, <2>5, <3>2, PartsMakeRInv DEF RInv, RustTypeOK
  <2>6. CASE Fault /\ torn' = torn \cup {file[r]} /\ UNCHANGED disk
    <3>1. CachePart'
      BY <1>0, <2>1, <2>6
      DEF RInv, RustTypeOK, CachePart, RightBook, CacheIsCurrent, TornOnlyByFault
    <3>2. faults' \in 0 .. MaxFaults
      BY <2>6, RustAssumption DEF RInv, RustTypeOK, Fault
    <3> QED
      BY <1>0, <2>3, <3>1, <3>2, PartsMakeRInv DEF RInv, RustTypeOK
  <2> QED
    BY <1>3, <2>4, <2>5, <2>6 DEF WriteRest
<1> QED
  BY <1>1, <1>2, <1>3

(* The reaper only closes. *)
LEMMA ReapRInv == ASSUME RInv, Reap PROVE RInv'
<1>1. /\ doc' = None
      /\ UNCHANGED <<version, stale, disk, torn, permits, holds, pc, file, began, handle, answer,
                    faults>>
  BY DEF Reap, library, handlers, request
<1>2. RequestPart'
  BY <1>1 DEF RInv, RustTypeOK, RequestPart, HolderRuns, HandleRight, Unanswered, KeyRight,
              OpenIsCurrent, FreshUnlessOpen, RightBook, Answered
<1>3. CachePart'
  BY <1>1, CacheUnchanged DEF RInv, RustTypeOK
<1> QED
  BY <1>1, <1>2, <1>3, PartsMakeRInv DEF RInv, RustTypeOK

(* A replaced file makes its book stale exactly if a document is in hand.  *)
LEMMA ReplaceRInv ==
    ASSUME RInv, NEW b \in Books, Replace(b)
    PROVE  RInv'
<1>1. /\ version' = [version EXCEPT ![b] = @ + 1] /\ version[b] < MaxReplace
      /\ UNCHANGED <<doc, disk, torn, permits, holds, pc, file, began, handle, answer, faults>>
  BY DEF Replace, caches, handlers, request
<1>2. version' \in [Books -> Versions]
  BY <1>1, RustAssumption DEF RInv, RustTypeOK, Versions
<1>3. stale \subseteq stale' /\ stale' \subseteq Books /\ (b \notin stale' => ~InHand(b))
  BY DEF Replace, RInv, RustTypeOK
<1>4. /\ \A c \in Books : version[c] <= version'[c] /\ version[c] \in Int /\ version'[c] \in Int
      /\ \A c \in Books \ {b} : version'[c] = version[c]
  BY <1>1, <1>2 DEF RInv, RustTypeOK, Versions
<1>5. \A r \in Requests : file[r].book \in Books /\ began[r] \in Int
  BY DEF RInv, RustTypeOK, Files, Versions
<1>6. KeyRight'
  BY <1>1, <1>4, <1>5 DEF RInv, KeyRight
<1>7. OpenIsCurrent'
  <2>1. doc # None => doc.book \in Books
    BY DEF RInv, RustTypeOK, Content
  <2> QED
    BY <1>1, <1>3, <1>4, <1>5, <2>1 DEF RInv, OpenIsCurrent, InHand, SlotHas
<1>8. RequestPart'
  BY <1>1, <1>3, <1>6, <1>7 DEF RInv, RustTypeOK, RequestPart, HolderRuns, HandleRight, Unanswered,
                                FreshUnlessOpen, RightBook, Answered
<1>9. CachePart'
  BY <1>1, <1>3 DEF RInv, RustTypeOK, CachePart, RightBook, CacheIsCurrent, TornOnlyByFault
<1> QED
  BY <1>1, <1>2, <1>3, <1>8, <1>9, PartsMakeRInv DEF RInv, RustTypeOK

(* A crash ends every request and leaves the files being written cut. *)
LEMMA CrashRInv == ASSUME RInv, Crash PROVE RInv'
<1>1. /\ doc' = None /\ permits' = RENDER_CONCURRENCY /\ holds' = {}
      /\ pc' = [r \in Requests |-> IF pc[r] = "new" THEN "new" ELSE "done"]
      /\ torn' = torn \cup {file[r] : r \in {q \in Requests : pc[q] = "writing"}}
      /\ UNCHANGED <<version, stale, disk, file, began, handle, answer>>
  BY DEF Crash, library, request
<1>2. RequestPart'
  BY <1>1, FS_EmptySet, RustAssumption
  DEF RInv, RustTypeOK, RequestPart, HolderRuns, HandleRight, Unanswered, KeyRight,
      OpenIsCurrent, FreshUnlessOpen, RightBook, Answered, Jobs, Holding
<1>3. CachePart'
  BY <1>1 DEF RInv, RustTypeOK, CachePart, RightBook, CacheIsCurrent, TornOnlyByFault
<1>4. faults' \in 0 .. MaxFaults
  BY RustAssumption DEF Crash, Fault, RInv, RustTypeOK
<1> QED
  BY <1>1, <1>2, <1>3, <1>4, PartsMakeRInv DEF RInv, RustTypeOK

LEMMA NextRInv == RInv /\ [Next]_vars => RInv'
<1> SUFFICES ASSUME RInv, [Next]_vars PROVE RInv'
  OBVIOUS
<1>1. ASSUME NEW r \in Requests, Come(r) \/ TakePermit(r) \/ Disconnect(r) PROVE RInv'
  BY <1>1, HandlerRInv
<1>2. ASSUME NEW r \in Requests, Job(r) PROVE RInv'
  BY <1>2, StartJobRInv, LookUpRInv, WithDocRInv, RenderRInv, WriteRInv DEF Job
<1>3. ASSUME NEW b \in Books, Replace(b) PROVE RInv'
  BY <1>3, ReplaceRInv
<1>4. CASE UNCHANGED vars
  BY <1>4 DEF vars, RInv, RustTypeOK, HolderRuns, HandleRight, Unanswered, KeyRight, OpenIsCurrent,
              CacheIsCurrent, FreshUnlessOpen, TornOnlyByFault, RightBook, Answered
<1> QED
  BY <1>1, <1>2, <1>3, <1>4, ReapRInv, CrashRInv DEF Next

(* The inductive invariant of the page service.                            *)
THEOREM RustInvariance == Spec => []RInv
BY InitRInv, NextRInv, PTL DEF Spec

(* Documents, cached files, permits and requests keep their types, and     *)
(* every permit is free or held.                                           *)
THEOREM RustTypeCorrect == Spec => []RustTypeOK
<1>1. RInv => RustTypeOK
  BY DEF RInv
<1> QED
  BY <1>1, RustInvariance, PTL

(* No request of with_doc and the two caches gets a page of another book.  *)
THEOREM NeverAnotherBook == Spec => []RightBook
<1>1. RInv => RightBook
  BY DEF RInv
<1> QED
  BY <1>1, RustInvariance, PTL

(* The name cache_key makes keeps answers up to date, except for books     *)
(* replaced while open.                                                    *)
THEOREM KeyKeepsFresh == Spec => []FreshUnlessOpen
<1>1. RInv => FreshUnlessOpen
  BY DEF RInv
<1> QED
  BY <1>1, RustInvariance, PTL

(* Clients that go away never leave a cut file in the cache.               *)
THEOREM OnlyFaultsTear == Spec => []TornOnlyByFault
<1>1. RInv => TornOnlyByFault
  BY DEF RInv
<1> QED
  BY <1>1, RustInvariance, PTL
=============================================================================
