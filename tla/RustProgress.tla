----------------------------- MODULE RustProgress -----------------------------
(***************************************************************************)
(* rustservice/src/progress.rs and its handlers in main.rs, over RustRoots *)
(* which decides what a request may reach: reading progress in one JSON    *)
(* file per user, rewritten under one mutex for all users, read without    *)
(* it.  Errors of writing and renaming are ignored.  Of a record the model *)
(* keeps what AtomicProgress keeps; a file's text is ProgressText's matter.*)
(* The platform's user names are numbers, or "debug": safe_name, which     *)
(* makes file names of them, keeps those apart.                            *)
(***************************************************************************)
EXTENDS RustRoots

CONSTANTS
    Places,     \* paths that requests name
    MaxPage, NoEntry, Torn

ASSUME ProgressAssumption ==
    /\ MaxPage \in Nat
    /\ <<>> \in Places /\ Places \subseteq Path

VARIABLES
    file,      \* progress/<uid>.json of each user
    tmp,       \* <uid>.json.tmp
    mu,        \* lock(): the request that holds it
    data,      \* the map each post has loaded and merged into
    failed     \* posts whose write or rename failed

storeVars == <<file, tmp, mu, data, failed>>
vars == <<rootsVars, storeVars>>

Uids == Users \cup {Debug}
Keys == Uids \X Places
Key(r) == IF ask[r] = None THEN <<Debug, <<>>>> ELSE <<User(r), ask[r].place>>

(* load_all: what cannot be read counts as empty.  That is taken of a torn *)
(* file only: that a whole one can always be read is an assumption, for if *)
(* it could not, the next save would write an empty map back over it.      *)
NoRecords == [p \in Places |-> NoEntry]
Load(f) == IF f = Torn THEN NoRecords ELSE f

A == INSTANCE AtomicProgress WITH
        Posts <- Requests, Books <- Keys,
        store <- [k \in Keys |-> Load(file[k[1]])[k[2]]],
        book <- [r \in Requests |-> Key(r)],
        page <- [r \in Requests |-> IF ask[r] = None THEN 0 ELSE ask[r].page]

Answers == {"forbidden", "not found", "failed", "ok"}

ASSUME MarkersAssumption ==
    /\ None \notin Answers
    /\ NoEntry \notin A!Entry
    /\ Torn \notin [Places -> A!Entry \cup {NoEntry}]

Asks == [user : Users \cup {None}, kind : Kinds, place : Places, page : 0 .. MaxPage]
Records == [Places -> A!Entry \cup {NoEntry}]
Critical == {"load", "write", "writing", "rename", "saved"}
Stages == {"new", "check", "shared", "user", "install", "home", "entries", "crumbs", "segments",
           "resolve", "read", "book", "lock", "done"} \cup Critical

(* One type invariant for the roots, the jobs and the files: a running job *)
(* has a thread of its own, which carries the name of its user.            *)
ShelfTypeOK ==
    /\ base \in Configs /\ grant \in Grants /\ hung \in BOOLEAN /\ auth \in BOOLEAN
    /\ ask \in [Requests -> Asks \cup {None}]
    /\ live # None => live \in [key : Users, paths : Seq(Path)]
    /\ reqUid \in [Threads -> Uids \cup {Nobody}]
    /\ frame \in [Requests -> [thread : Threads, prev : Uids \cup {Nobody}] \cup {None}]
    /\ pc \in [Requests -> Stages] /\ answer \in [Requests -> Answers \cup {None}]
    /\ \A r \in Requests : frame[r] # None <=> pc[r] \notin {"new", "done"}
    /\ \A r \in Requests : frame[r] # None =>
          /\ Uid(r) = User(r)
          /\ \A q \in Requests \ {r} : frame[q] # None => frame[q].thread # frame[r].thread
    /\ found \in [Requests -> Seq(Path)] /\ reached \in [Requests -> SUBSET Path]
    /\ told \in [Users -> SUBSET Path] /\ events \in 0 .. MaxEvents
    /\ file \in [Uids -> Records \cup {Torn}] /\ tmp \in [Uids -> Records \cup {Torn}]
    /\ mu \in Requests \cup {None}
    /\ \A r \in Requests : mu = r <=> pc[r] \in Critical
    /\ data \in [Requests -> Records] /\ failed \subseteq Requests

Init(asks) ==
    /\ RootsInit(asks)
    /\ file = [u \in Uids |-> NoRecords] /\ tmp = [u \in Uids |-> NoRecords]
    /\ mu = None
    /\ data = [r \in Requests |-> NoRecords]
    /\ failed = {}

inRoots == <<world, live, found, reached, told, events>>

------------------------------------------------------------------------------
(* Reading: the listings' load_all, get_one and recent. *)
ReadStore(r) ==
    /\ pc[r] = "read"
    /\ Leave(r, "ok")
    /\ UNCHANGED <<inRoots, storeVars>>

(* get_meta and render_page_jpeg (RustPages), which may panic outside      *)
(* catch_unwind.                                                           *)
ServeBook(r) ==
    /\ pc[r] = "book"
    /\ Leave(r, "ok") \/ LeavePanicking(r)
    /\ UNCHANGED <<inRoots, storeVars>>

------------------------------------------------------------------------------
(* save_one *)

LockIgnoringOwner(r) ==
    /\ pc[r] = "lock"
    /\ mu' = r
    /\ Goto(r, "load")
    /\ UNCHANGED <<inRoots, threads, answer, file, tmp, data, failed>>

Lock(r) ==
    /\ pc[r] = "lock" /\ mu = None
    /\ mu' = r
    /\ Goto(r, "load")
    /\ UNCHANGED <<inRoots, threads, answer, file, tmp, data, failed>>

Merge(r) ==
    /\ pc[r] = "load"
    /\ data' = [data EXCEPT ![r] =
                    [Load(file[User(r)]) EXCEPT ![ask[r].place] = A!Merge(@, r)]]
    /\ Goto(r, "write")
    /\ UNCHANGED <<inRoots, threads, answer, file, tmp, mu, failed>>

(* fs::write of the temporary file, and the rename if it succeeded. *)
StartWriteInPlace(r) ==
    /\ pc[r] = "write"
    /\ file' = [file EXCEPT ![User(r)] = Torn]
    /\ Goto(r, "writing")
    /\ UNCHANGED <<inRoots, threads, answer, tmp, mu, data, failed>>

StartWrite(r) ==
    /\ pc[r] = "write"
    /\ tmp' = [tmp EXCEPT ![User(r)] = Torn]
    /\ Goto(r, "writing")
    /\ UNCHANGED <<inRoots, threads, answer, file, mu, data, failed>>

FinishWrite(r) ==
    /\ pc[r] = "writing"
    /\ tmp' = [tmp EXCEPT ![User(r)] = data[r]]
    /\ Goto(r, "rename")
    /\ UNCHANGED <<inRoots, threads, answer, file, mu, data, failed>>

Rename(r) ==
    /\ pc[r] = "rename"
    /\ file' = [file EXCEPT ![User(r)] = tmp[User(r)]]
    /\ tmp' = [tmp EXCEPT ![User(r)] = NoRecords]
    /\ Goto(r, "saved")
    /\ UNCHANGED <<inRoots, threads, answer, mu, data, failed>>

WriteFails(r) ==
    /\ pc[r] \in {"write", "writing", "rename"}
    /\ failed' = failed \cup {r}
    /\ Goto(r, "saved")
    /\ UNCHANGED <<inRoots, threads, answer, file, tmp, mu, data>>

(* The guard goes, and progress_post answers "ok": true either way. *)
Reply(r) ==
    /\ pc[r] = "saved"
    /\ mu' = None
    /\ Leave(r, "ok")
    /\ UNCHANGED <<inRoots, file, tmp, data, failed>>

StoreStep(r) ==
    \/ ReadStore(r) \/ ServeBook(r)
    \/ Lock(r) \/ Merge(r) \/ StartWrite(r) \/ FinishWrite(r) \/ Rename(r)
    \/ WriteFails(r) \/ Reply(r)

Serve(r) == (RootsStep(r) /\ UNCHANGED storeVars) \/ StoreStep(r)

(* The mutex goes with the process, the files stay as they are. *)
RestartService == Restart /\ mu' = None /\ UNCHANGED <<file, tmp, data, failed>>

AllDone == \A r \in Requests : pc[r] = "done"

Next ==
    \/ \E r \in Requests : Serve(r)
    \/ (Regrant \/ Hang) /\ UNCHANGED storeVars
    \/ RestartService
    \/ AllDone /\ UNCHANGED vars

Spec(asks) == Init(asks) /\ [][Next]_vars

(* Blocking threads are scheduled and their system calls return.           *)
Fairness == \A r \in Requests : WF_vars(Serve(r))

------------------------------------------------------------------------------
(* The files of all users together behave as one atomic map from a user    *)
(* and a book to a record: posts of several devices and users, failing     *)
(* writes and restarts lose and mix up nothing (if whole files can always  *)
(* be read, see Load).                                                     *)
StoreIsAtomic == A!Spec

(* A post that was answered is in its user's file for good, unless its own *)
(* write failed, which the answer does not tell (if whole files can always *)
(* be read, see Load).                                                     *)
AckedUnlessFailed ==
    \A r \in Requests : (ask[r] # None /\ ask[r].kind = "post" /\ answer[r] = "ok") =>
        \/ r \in failed
        \/ LET rec == Load(file[User(r)])[ask[r].place] IN rec # NoEntry /\ r \in rec.saves

(* Every request ends, whatever the gateway does: a hung gateway costs its *)
(* caller the timeout, not the thread, and the mutex always comes back.    *)
RequestsEnd == <>AllDone
=============================================================================
