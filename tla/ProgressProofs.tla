--------------------------- MODULE ProgressProofs ----------------------------
(* Theorems about Progress for any posts, books, page numbers and number   *)
(* of crashes.                                                             *)
EXTENDS Progress, TLAPS

(* h's save is in the file. *)
Saved(h) == store[book[h]] # NoEntry /\ h \in store[book[h]].saves

(* The map that h is going to put in place of the file. *)
Merged(h) == [store EXCEPT ![book[h]] = Merge(@, h)]

(* Only the owner of the mutex is between Lock and its unlock. *)
Exclusive == \A h \in Posts : pc[h] \in Critical => mu = h

(* What the owner has loaded is still what the file says. *)
FreshData ==
    /\ \A h \in Posts : pc[h] \in {"merged", "writing", "written"} => data[h] = Merged(h)
    /\ \A h \in Posts : pc[h] = "written" => tmp = data[h]

(* A save that has been renamed into place, answered or not, stays. *)
SavedStays ==
    /\ \A h \in acked : Saved(h)
    /\ \A h \in Posts : pc[h] = "renamed" => Saved(h)

(* The inductive invariant. *)
PInv ==
    /\ ProgressTypeOK
    /\ store \in Records
    /\ Exclusive
    /\ FreshData
    /\ SavedStays

------------------------------------------------------------------------------
(* The merge returns a record that keeps every save of the previous one.   *)
LEMMA MergeKeepsSaves ==
    ASSUME ProgressTypeOK, NEW h \in Posts, NEW prev \in Entry \cup {NoEntry}
    PROVE  /\ Merge(prev, h) \in Entry
           /\ Merge(prev, h) # NoEntry
           /\ h \in Merge(prev, h).saves
           /\ prev # NoEntry => prev.saves \subseteq Merge(prev, h).saves
<1> DEFINE was == IF prev = NoEntry THEN [page |-> 0, place |-> 0, saves |-> {}] ELSE prev
<1>1. page[h] \in 0 .. MaxPage
  BY DEF ProgressTypeOK
<1>2. was \in Entry
  BY ProgressAssumption DEF Entry
<1>3. Merge(prev, h) \in Entry
  BY <1>1, <1>2 DEF Merge, Entry
<1>4. Merge(prev, h) # NoEntry
  BY <1>3, ProgressAssumption
<1>5. Merge(prev, h).saves = was.saves \cup {h}
  BY DEF Merge
<1> QED
  BY <1>3, <1>4, <1>5

(* Replacing the file by the merged map keeps every save it had.           *)
LEMMA MergedKeepsSaves ==
    ASSUME PInv, NEW h \in Posts
    PROVE  /\ Merged(h) \in Records
           /\ \A q \in Posts : Saved(q) =>
                Merged(h)[book[q]] # NoEntry /\ q \in Merged(h)[book[q]].saves
           /\ Merged(h)[book[h]] # NoEntry /\ h \in Merged(h)[book[h]].saves
<1>1. book[h] \in Books /\ store[book[h]] \in Entry \cup {NoEntry}
  BY DEF PInv, ProgressTypeOK, Records
<1>2. ProgressTypeOK /\ store \in Records
  BY DEF PInv
<1>3. /\ Merge(store[book[h]], h) \in Entry
      /\ Merge(store[book[h]], h) # NoEntry
      /\ h \in Merge(store[book[h]], h).saves
      /\ store[book[h]] # NoEntry =>
            store[book[h]].saves \subseteq Merge(store[book[h]], h).saves
  BY <1>1, <1>2, MergeKeepsSaves
<1>4. Merged(h) \in Records
  BY <1>1, <1>2, <1>3 DEF Merged, Records
<1>5. Merged(h)[book[h]] = Merge(store[book[h]], h)
  BY <1>1, <1>2 DEF Merged, Records
<1>6. \A b \in Books : b # book[h] => Merged(h)[b] = store[b]
  BY <1>1, <1>2 DEF Merged, Records
<1>7. ASSUME NEW q \in Posts, Saved(q)
      PROVE  Merged(h)[book[q]] # NoEntry /\ q \in Merged(h)[book[q]].saves
  <2>1. book[q] \in Books
    BY DEF PInv, ProgressTypeOK
  <2>2. CASE book[q] = book[h]
    BY <1>3, <1>5, <1>7, <2>2 DEF Saved
  <2>3. CASE book[q] # book[h]
    BY <1>6, <1>7, <2>1, <2>3 DEF Saved
  <2> QED
    BY <2>2, <2>3
<1> QED
  BY <1>3, <1>4, <1>5, <1>7

LEMMA InitPInv == ProgressInit => PInv
<1> SUFFICES ASSUME ProgressInit PROVE PInv
  OBVIOUS
<1>1. NoRecords \in Records
  BY DEF NoRecords, Records
<1>2. store = NoRecords
  BY DEF ProgressInit, Init, NoRecords
<1>3. ProgressTypeOK
  BY <1>1, <1>2, ProgressAssumption DEF ProgressInit, Init, ProgressTypeOK, Stages
<1> QED
  BY <1>1, <1>2, <1>3 DEF PInv, ProgressInit, Exclusive, FreshData, SavedStays, Critical

------------------------------------------------------------------------------
LEMMA LockPInv ==
    ASSUME PInv, NEW h \in Posts, Lock(h)
    PROVE  PInv'
<1> USE DEF Lock, Goto, PInv
<1>1. ProgressTypeOK'
  BY DEF ProgressTypeOK, Stages
<1>2. Exclusive'
  BY ProgressAssumption DEF Exclusive, Critical, ProgressTypeOK
<1>3. FreshData' /\ SavedStays'
  BY DEF FreshData, SavedStays, Saved, Merged, Merge, ProgressTypeOK
<1> QED
  BY <1>1, <1>2, <1>3

LEMMA MergeEntryPInv ==
    ASSUME PInv, NEW h \in Posts, MergeEntry(h)
    PROVE  PInv'
<1> USE DEF MergeEntry, Goto, PInv
<1>1. Load(store) = store
  BY ProgressAssumption DEF Load, Records
<1>2. data' = [data EXCEPT ![h] = Merged(h)]
  BY <1>1 DEF Merged
<1>3. ProgressTypeOK'
  BY <1>2, MergedKeepsSaves DEF ProgressTypeOK, Stages
<1>4. Exclusive'
  BY DEF Exclusive, Critical, ProgressTypeOK
<1>5. \A q \in Posts : Merged(q)' = Merged(q)
  BY DEF Merged, Merge
<1>6. FreshData'
  BY <1>2, <1>5 DEF FreshData, ProgressTypeOK
<1>7. SavedStays'
  BY DEF SavedStays, Saved, ProgressTypeOK
<1> QED
  BY <1>3, <1>4, <1>6, <1>7

LEMMA WritePInv ==
    ASSUME PInv, NEW h \in Posts, StartWrite(h) \/ FinishWrite(h)
    PROVE  PInv'
<1> USE DEF StartWrite, FinishWrite, Goto, PInv
<1>1. ProgressTypeOK'
  BY DEF ProgressTypeOK, Stages
<1>2. Exclusive'
  BY DEF Exclusive, Critical, ProgressTypeOK
<1>3. \A q \in Posts : Merged(q)' = Merged(q)
  BY DEF Merged, Merge
<1>4. \A q \in Posts : pc[q] = "written" => q = h
  BY DEF Exclusive, Critical, ProgressTypeOK
<1>5. FreshData'
  BY <1>3, <1>4 DEF FreshData, ProgressTypeOK
<1>6. SavedStays'
  BY DEF SavedStays, Saved, ProgressTypeOK
<1> QED
  BY <1>1, <1>2, <1>5, <1>6

LEMMA RenamePInv ==
    ASSUME PInv, NEW h \in Posts, Rename(h)
    PROVE  PInv'
<1> USE DEF Rename, Goto
<1>1. store' = Merged(h)
  BY DEF PInv, FreshData
<1>2. ProgressTypeOK' /\ store' \in Records
  BY <1>1, MergedKeepsSaves DEF PInv, ProgressTypeOK, Stages, NoRecords, Records
<1>3. Exclusive'
  BY DEF PInv, Exclusive, Critical, ProgressTypeOK
<1>4. \A q \in Posts : pc'[q] \notin {"merged", "writing", "written"}
  BY DEF PInv, Exclusive, Critical, ProgressTypeOK
<1>5. FreshData'
  BY <1>4 DEF FreshData
<1>6. \A q \in Posts : Saved(q) \/ q = h => Saved(q)'
  BY <1>1, MergedKeepsSaves DEF Saved
<1>7. acked \subseteq Posts
  BY DEF PInv, ProgressTypeOK
<1>8. SavedStays'
  BY <1>6, <1>7 DEF PInv, SavedStays, ProgressTypeOK
<1> QED
  BY <1>2, <1>3, <1>5, <1>8 DEF PInv

LEMMA LeavePInv ==
    ASSUME PInv, NEW h \in Posts, Fail(h) \/ Answer(h)
    PROVE  PInv'
<1> USE DEF Fail, Answer, Goto, PInv
<1>1. ProgressTypeOK'
  BY DEF ProgressTypeOK, Stages
<1>2. \A q \in Posts : pc'[q] \notin Critical
  BY DEF Exclusive, Critical, ProgressTypeOK
<1>3. Exclusive' /\ FreshData'
  BY <1>2 DEF Exclusive, FreshData, Critical
<1>4. SavedStays'
  BY <1>2 DEF SavedStays, Saved, Critical
<1> QED
  BY <1>1, <1>3, <1>4

LEMMA CrashPInv == ASSUME PInv, Crash PROVE PInv'
<1> USE DEF Crash, PInv
<1>1. ProgressTypeOK'
  <2>1. crashes' \in 0 .. MaxCrashes
    BY ProgressAssumption DEF ProgressTypeOK
  <2>2. pc' \in [Posts -> Stages]
    BY DEF ProgressTypeOK, Stages
  <2>3. mu' \in Posts \cup {Nobody}
    OBVIOUS
  <2> QED
    BY <2>1, <2>2, <2>3 DEF ProgressTypeOK
<1>2. \A q \in Posts : pc'[q] \notin Critical
  BY DEF Critical, ProgressTypeOK
<1>3. Exclusive' /\ FreshData'
  BY <1>2 DEF Exclusive, FreshData, Critical
<1>4. SavedStays'
  BY <1>2 DEF SavedStays, Saved, Critical
<1> QED
  BY <1>1, <1>3, <1>4

LEMMA StutterPInv == ASSUME PInv, UNCHANGED vars PROVE PInv'
<1>1. \A q \in Posts : Merged(q)' = Merged(q) /\ (Saved(q)' <=> Saved(q))
  BY DEF vars, Merged, Merge, Saved
<1> QED
  BY <1>1 DEF vars, PInv, ProgressTypeOK, Exclusive, FreshData, SavedStays

LEMMA NextPInv == PInv /\ [ProgressNext]_vars => PInv'
<1> SUFFICES ASSUME PInv, [ProgressNext]_vars PROVE PInv'
  OBVIOUS
<1>1. ASSUME NEW h \in Posts, Post(h) PROVE PInv'
  BY <1>1, LockPInv, MergeEntryPInv, WritePInv, RenamePInv, LeavePInv DEF Post
<1>2. CASE Crash
  BY <1>2, CrashPInv
<1>3. CASE UNCHANGED vars
  BY <1>3, StutterPInv
<1> QED
  BY <1>1, <1>2, <1>3 DEF ProgressNext

THEOREM ProgressInvariance == ProgressSpec => []PInv
BY InitPInv, NextPInv, PTL DEF ProgressSpec

------------------------------------------------------------------------------
(* The variables of progress.go keep their types in every reachable state. *)
THEOREM ProgressTypeCorrect == ProgressSpec => []ProgressTypeOK
<1>1. PInv => ProgressTypeOK
  BY DEF PInv
<1> QED
  BY ProgressInvariance, <1>1, PTL

(* A save that was answered with ok is in the file from then on, for any   *)
(* number of devices, books and crashes.                                   *)
THEOREM AcknowledgedSavesStay == ProgressSpec => []AckDurable
<1>1. PInv => AckDurable
  <2> SUFFICES ASSUME PInv PROVE AckDurable
    OBVIOUS
  <2>1. Load(store) = store
    BY ProgressAssumption DEF PInv, Load, Records
  <2> QED
    BY <2>1 DEF PInv, SavedStays, Saved, AckDurable
<1> QED
  BY ProgressInvariance, <1>1, PTL

(* A step of a handler is a step of the atomic map, or leaves it alone. *)
LEMMA StepRefines ==
    PInv /\ [ProgressNext]_vars => [Next]_<<store, book, page>>
<1> SUFFICES ASSUME PInv, [ProgressNext]_vars PROVE [Next]_<<store, book, page>>
  OBVIOUS
<1>1. ASSUME NEW h \in Posts, Post(h) PROVE [Next]_<<store, book, page>>
  <2>1. CASE Rename(h)
    <3>1. store' = Merged(h)
      BY <2>1 DEF Rename, PInv, FreshData
    <3>2. Save(h)
      BY <2>1, <3>1 DEF Save, Merged, Rename
    <3> QED
      BY <3>2 DEF Next
  <2>2. CASE ~Rename(h)
    BY <1>1, <2>2 DEF Post, Lock, MergeEntry, StartWrite, FinishWrite, Fail, Answer
  <2> QED
    BY <2>1, <2>2
<1>2. CASE Crash
  BY <1>2 DEF Crash
<1>3. CASE UNCHANGED vars
  BY <1>3 DEF vars
<1> QED
  BY <1>1, <1>2, <1>3 DEF ProgressNext

(* saveProgressEntry, with its lock, temporary file, rename, failures and  *)
(* crashes, implements the atomic progress map.                            *)
THEOREM ProgressRefines == ProgressSpec => ImplementsAtomicProgress
<1>1. ProgressInit => Init
  BY DEF ProgressInit
<1> QED
  BY ProgressInvariance, <1>1, StepRefines, PTL
     DEF ProgressSpec, ImplementsAtomicProgress, Spec
=============================================================================
