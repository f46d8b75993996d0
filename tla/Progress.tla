------------------------------ MODULE Progress -------------------------------
(***************************************************************************)
(* goservice/progress.go: the reading progress of one user, a JSON file    *)
(* rewritten by every POST of every device.  Each element of Posts is one  *)
(* request handler running saveProgressEntry; GETs and the recent list     *)
(* read the file with loadProgress at any moment and without the mutex.    *)
(* The process may crash and be restarted between any two system calls,    *)
(* and a write or rename may fail.  Of a record, the model keeps what the  *)
(* merge treats differently: the page, and the page that frac and percent  *)
(* belong to; name, scale and totalPages only change with the book.        *)
(***************************************************************************)
EXTENDS AtomicProgress, FiniteSets

CONSTANTS
    Nobody,       \* progressMu is free
    Torn,         \* what an unfinished write leaves in a file
    MaxCrashes    \* crashes of the process (bounds the runs)

ASSUME ProgressAssumption ==
    /\ Nobody \notin Posts
    /\ MaxPage \in Nat /\ MaxCrashes \in Nat
    /\ NoEntry \notin Entry
    /\ Torn \notin [Books -> Entry \cup {NoEntry}]

VARIABLES
    \* store (of AtomicProgress) is the file progress/<uid>.json
    tmp,          \* <uid>.json.tmp
    mu,           \* progressMu
    pc,           \* where each handler is
    data,         \* the map a handler has loaded and merged into
    acked,        \* posts answered with "ok": true
    crashes

vars == <<store, book, page, tmp, mu, pc, data, acked, crashes>>

Records == [Books -> Entry \cup {NoEntry}]
NoRecords == [b \in Books |-> NoEntry]

Stages == {"idle", "locked", "merged", "writing", "written", "renamed", "answered", "failed"}
Critical == {"locked", "merged", "writing", "written", "renamed"}

(* One type invariant for the files and handlers of one user. *)
ProgressTypeOK ==
    /\ store \in Records \cup {Torn}
    /\ book \in [Posts -> Books]
    /\ page \in [Posts -> 0 .. MaxPage]
    /\ tmp \in Records \cup {Torn}
    /\ mu \in Posts \cup {Nobody}
    /\ pc \in [Posts -> Stages]
    /\ data \in [Posts -> Records]
    /\ acked \subseteq Posts
    /\ crashes \in 0 .. MaxCrashes

(* loadProgress: what cannot be read or parsed counts as empty.  Here only *)
(* a torn file is like that: that a whole one can be read is an assumption. *)
Load(file) == IF file = Torn THEN NoRecords ELSE file

ProgressInit ==
    /\ Init
    /\ tmp = NoRecords
    /\ mu = Nobody
    /\ pc = [h \in Posts |-> "idle"]
    /\ data = [h \in Posts |-> NoRecords]
    /\ acked = {}
    /\ crashes = 0

Goto(h, s) == pc' = [pc EXCEPT ![h] = s]

------------------------------------------------------------------------------
(* saveProgressEntry *)

LockIgnoringOwner(h) ==
    /\ pc[h] = "idle"
    /\ mu' = h
    /\ Goto(h, "locked")
    /\ UNCHANGED <<store, book, page, tmp, data, acked, crashes>>

Lock(h) ==
    /\ pc[h] = "idle"
    /\ mu = Nobody
    /\ mu' = h
    /\ Goto(h, "locked")
    /\ UNCHANGED <<store, book, page, tmp, data, acked, crashes>>

(* loadProgress and the merge. *)
MergeWholeRecord(h) ==
    /\ pc[h] = "locked"
    /\ data' = [data EXCEPT ![h] =
                    [Load(store) EXCEPT ![book[h]] = Merge(NoEntry, h)]]
    /\ Goto(h, "merged")
    /\ UNCHANGED <<store, book, page, tmp, mu, acked, crashes>>

MergeEntry(h) ==
    /\ pc[h] = "locked"
    /\ data' = [data EXCEPT ![h] =
                    [Load(store) EXCEPT ![book[h]] = Merge(@, h)]]
    /\ Goto(h, "merged")
    /\ UNCHANGED <<store, book, page, tmp, mu, acked, crashes>>

(* os.WriteFile truncates and fills the temporary file; it may fail on the *)
(* way, and the deferred Unlock then runs with nothing saved.              *)
StartWriteInPlace(h) ==
    /\ pc[h] = "merged"
    /\ store' = Torn
    /\ Goto(h, "writing")
    /\ UNCHANGED <<book, page, tmp, mu, data, acked, crashes>>

StartWrite(h) ==
    /\ pc[h] = "merged"
    /\ tmp' = Torn
    /\ Goto(h, "writing")
    /\ UNCHANGED <<store, book, page, mu, data, acked, crashes>>

FinishWrite(h) ==
    /\ pc[h] = "writing"
    /\ tmp' = data[h]
    /\ Goto(h, "written")
    /\ UNCHANGED <<store, book, page, mu, data, acked, crashes>>

Rename(h) ==
    /\ pc[h] = "written"
    /\ store' = tmp
    /\ tmp' = NoRecords
    /\ Goto(h, "renamed")
    /\ UNCHANGED <<book, page, mu, data, acked, crashes>>

FailKeepingLock(h) ==
    /\ pc[h] \in {"merged", "writing", "written"}
    /\ Goto(h, "failed")
    /\ UNCHANGED <<store, book, page, tmp, mu, data, acked, crashes>>

Fail(h) ==
    /\ pc[h] \in {"merged", "writing", "written"}
    /\ mu' = Nobody
    /\ Goto(h, "failed")
    /\ UNCHANGED <<store, book, page, tmp, data, acked, crashes>>

(* The deferred Unlock, and handleProgress's answer. *)
Answer(h) ==
    /\ pc[h] = "renamed"
    /\ mu' = Nobody
    /\ acked' = acked \cup {h}
    /\ Goto(h, "answered")
    /\ UNCHANGED <<store, book, page, tmp, data, crashes>>

Post(h) ==
    \/ Lock(h) \/ MergeEntry(h) \/ StartWrite(h) \/ FinishWrite(h)
    \/ Rename(h) \/ Fail(h) \/ Answer(h)

------------------------------------------------------------------------------
(* The process dies and is started again: requests in progress are lost,   *)
(* the files stay as they are.                                             *)
Crash ==
    /\ crashes < MaxCrashes
    /\ crashes' = crashes + 1
    /\ mu' = Nobody
    /\ pc' = [h \in Posts |-> IF pc[h] \in Critical THEN "failed" ELSE pc[h]]
    /\ UNCHANGED <<store, book, page, tmp, data, acked>>

AllAnswered == \A h \in Posts : pc[h] \in {"answered", "failed"}

ProgressNext ==
    \/ \E h \in Posts : Post(h)
    \/ Crash
    \/ AllAnswered /\ UNCHANGED vars

ProgressSpec == ProgressInit /\ [][ProgressNext]_vars

(* Handlers are goroutines whose system calls return.                      *)
FairProgressSpec == ProgressSpec /\ \A h \in Posts : WF_vars(Post(h))

------------------------------------------------------------------------------
(* The file behaves as one atomic map: concurrent saves of several devices *)
(* lose nothing of each other, and neither does a crash or a failed write  *)
(* at any point of temporary file, rename and reply.                       *)
ImplementsAtomicProgress == Spec

(* Whatever GET or the recent list reads, at any moment, contains every    *)
(* save that was answered with ok, also across crashes.                    *)
AckDurable ==
    \A h \in acked :
        LET rec == Load(store)[book[h]] IN rec # NoEntry /\ h \in rec.saves

(* Every POST is answered or fails; the global mutex is always given back. *)
EveryPostAnswered == <>AllAnswered

(* A record is one position: the page and the fraction and percent within  *)
(* it come from the same save, so that another device resumes at "the same *)
(* page and the same relative position" (manifest, changelog 2.9.1).       *)
RecordIsOnePosition ==
    \A b \in Books :
        Load(store)[b] # NoEntry => Load(store)[b].page = Load(store)[b].place
=============================================================================
