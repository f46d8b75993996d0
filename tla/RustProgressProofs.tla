-------------------------- MODULE RustProgressProofs --------------------------
(* Theorems about RustRoots and RustProgress for any users, requests,      *)
(* threads, folders, grants and number of restarts.                        *)
EXTENDS RustProgress, RankTheorems

(* Lemmas about the paths and roots of RustLibrary.                        *)

(* The roots of two lists are the roots of either. *)
LEMMA RootsOfBoth ==
    ASSUME NEW S, NEW a \in Seq(S), NEW b \in Seq(S)
    PROVE  /\ a \o b \in Seq(S)
           /\ Range(a \o b) = Range(a) \cup Range(b)
BY ConcatProperties, RangeConcatenation

(* A path lies under itself, and all that is added to a path stays under   *)
(* what the path lies under.                                               *)
LEMMA PrefixOfItself == ASSUME NEW S, NEW p \in Seq(S) PROVE IsPrefix(p, p)
BY DEF IsPrefix

LEMMA PrefixOfLonger ==
    ASSUME NEW S, NEW d \in Seq(S), NEW p \in Seq(S), NEW more \in Seq(S), IsPrefix(d, p)
    PROVE  IsPrefix(d, p \o more)
<1>1. Len(p \o more) = Len(p) + Len(more) /\ Len(d) <= Len(p) /\ Len(more) \in Nat
  BY ConcatProperties, LenProperties DEF IsPrefix
<1>2. SubSeq(p \o more, 1, Len(d)) = SubSeq(p, 1, Len(d))
  BY <1>1, LenProperties, SubSeqOfConcat1
<1> QED
  BY <1>1, <1>2, LenProperties DEF IsPrefix

(* The root of a path is one of the roots, and the path lies under it.     *)
LEMMA RootIsARoot ==
    ASSUME NEW S, NEW roots \in Seq(Seq(S)), NEW p, Inside(roots, p)
    PROVE  RootOf(roots, p) \in Range(roots) /\ IsPrefix(RootOf(roots, p), p)
<1> DEFINE I == {i \in 1 .. Len(roots) : IsPrefix(roots[i], p)}
<1>1. Len(roots) \in Nat /\ DOMAIN roots = 1 .. Len(roots)
  BY LenProperties
<1>2. I # {}
  BY <1>1 DEF Inside, RootOf, SelectInSeq
<1>3. Min(I) \in I
  <2>1. I \in SUBSET Nat
    BY <1>1
  <2> HIDE DEF I
  <2> QED
    BY <1>2, <2>1, LeastPosition
<1>4. RootOf(roots, p) = roots[Min(I)]
  <2>1. SelectInSeq(roots, LAMBDA r : IsPrefix(r, p)) = Min(I)
    BY <1>2 DEF SelectInSeq
  <2>2. Min(I) # 0
    BY <1>3
  <2> HIDE DEF I
  <2> QED
    BY <2>1, <2>2 DEF RootOf
<1> QED
  BY <1>1, <1>3, <1>4 DEF Range

(* Crumbs lie under whatever the path they start from lies under.          *)
LEMMA CrumbsStayBelow ==
    ASSUME NEW S, NEW d \in Seq(S), NEW root \in Seq(S), NEW segs \in Seq(S),
           IsPrefix(d, root), NEW c \in Breadcrumb(root, segs)
    PROVE  c \in Seq(S) /\ IsPrefix(d, c)
<1>1. PICK n \in 0 .. Len(segs) : c = root \o SubSeq(segs, 1, n)
  BY DEF Breadcrumb
<1>2. SubSeq(segs, 1, n) \in Seq(S)
  BY LenProperties, SubSeqProperties
<1> QED
  BY <1>1, <1>2, ConcatProperties, PrefixOfLonger

LEMMA SegmentsOfPath ==
    ASSUME NEW S, NEW roots \in Seq(Seq(S)), NEW p \in Seq(S)
    PROVE  RelSegments(roots, p) \in Seq(S)
<1>1. CASE Inside(roots, p)
  <2>1. RootOf(roots, p) \in Seq(S)
    BY <1>1, RootIsARoot, RangeOfSeq
  <2>2. Len(RootOf(roots, p)) \in Nat /\ Len(p) \in Nat
    BY <2>1, LenProperties
  <2>3. SubSeq(p, Len(RootOf(roots, p)) + 1, Len(p)) \in Seq(S)
    BY <2>2, SubSeqProperties
  <2> QED
    BY <1>1, <2>3 DEF RelSegments
<1>2. CASE ~Inside(roots, p)
  BY <1>2 DEF RelSegments
<1> QED
  BY <1>1, <1>2

------------------------------------------------------------------------------

Running == Stages \ {"new", "done"}

(* The parts of the type invariant. *)
WorldOK ==
    /\ base \in Configs /\ grant \in Grants /\ hung \in BOOLEAN /\ auth \in BOOLEAN
    /\ ask \in [Requests -> Asks \cup {None}]
    /\ events \in 0 .. MaxEvents

JobsOK ==
    /\ reqUid \in [Threads -> Uids \cup {Nobody}]
    /\ frame \in [Requests -> [thread : Threads, prev : Uids \cup {Nobody}] \cup {None}]
    /\ pc \in [Requests -> Stages] /\ answer \in [Requests -> Answers \cup {None}]
    /\ \A r \in Requests : frame[r] # None <=> pc[r] \notin {"new", "done"}
    /\ \A r \in Requests : frame[r] # None =>
          /\ Uid(r) = User(r)
          /\ \A q \in Requests \ {r} : frame[q] # None => frame[q].thread # frame[r].thread

FoldersOK ==
    /\ live # None => live \in [key : Users, paths : Seq(Path)]
    /\ found \in [Requests -> Seq(Path)] /\ reached \in [Requests -> SUBSET Path]
    /\ told \in [Users -> SUBSET Path]

MutexOK ==
    /\ mu \in Requests \cup {None}
    /\ \A r \in Requests : mu = r <=> pc[r] \in Critical

FilesOK ==
    /\ file \in [Uids -> Records] /\ tmp \in [Uids -> Records \cup {Torn}]
    /\ data \in [Requests -> Records] /\ failed \subseteq Requests

(* Who runs has asked for something; who queries the gateway is a user of  *)
(* the platform; a post goes its own way.                                  *)
HomeStages == {"check", "shared", "user", "install", "home", "entries", "crumbs", "segments"}
AskFits ==
    \A r \in Requests :
        /\ pc[r] # "done" => ask[r] # None
        /\ pc[r] \in {"shared", "user", "install"} => User(r) \in Users
        /\ pc[r] \in HomeStages \cup {"read", "book"} => ask[r].kind # "post"
        /\ answer[r] = "ok" => pc[r] = "done"

(* The slot holds what its user was told. *)
SlotIsTold == live # None => Range(live.paths) \subseteq told[live.key]

(* The map that the post r is going to put in place of its user's file.    *)
Merged(r) == [file[User(r)] EXCEPT ![ask[r].place] = A!Merge(@, r)]
Saved(r) ==
    /\ file[User(r)][ask[r].place] # NoEntry
    /\ r \in file[User(r)][ask[r].place].saves

(* What the owner of the mutex has loaded is still what the file says.     *)
FreshData ==
    \A r \in Requests :
        /\ pc[r] \in {"write", "writing", "rename"} => data[r] = Merged(r)
        /\ pc[r] = "rename" => tmp[User(r)] = data[r]

SavedStays ==
    \A r \in Requests :
        /\ pc[r] = "saved" => r \in failed \/ Saved(r)
        /\ (ask[r] # None /\ ask[r].kind = "post" /\ answer[r] = "ok") => r \in failed \/ Saved(r)

(* The inductive invariants of the folders and of the files. *)
TypeInv == WorldOK /\ JobsOK /\ FoldersOK /\ MutexOK /\ FilesOK /\ AskFits
RootsInv == SlotIsTold /\ OnlyOwnRoots
StoreInv == FreshData /\ SavedStays

LEMMA TypeInvIsType == TypeInv => ShelfTypeOK
BY DEF TypeInv, WorldOK, JobsOK, FoldersOK, MutexOK, FilesOK, ShelfTypeOK

------------------------------------------------------------------------------
(* Jobs: the threads and their users. *)

LEMMA UserOfAsk ==
    ASSUME WorldOK, NEW r \in Requests, ask[r] # None
    PROVE  ask[r] \in Asks /\ User(r) \in Uids /\ ask[r].place \in Places
BY DEF WorldOK, Asks, User, Uids

Moves(r, label) ==
    /\ pc[r] \in Running /\ label \in Running /\ Goto(r, label)
    /\ UNCHANGED <<threads, answer>>

Ends(r) ==
    /\ pc[r] \in Running
    /\ \E what \in Answers, uid \in Uids \cup {Nobody} : LeaveWith(r, what, uid)

LEMMA MovesKeepJobs ==
    ASSUME JobsOK, NEW r \in Requests, NEW label, Moves(r, label), UNCHANGED ask
    PROVE  JobsOK'
<1> USE DEF Moves, Goto, threads, Running
<1>1. pc' \in [Requests -> Stages] /\ \A q \in Requests : pc'[q] = IF q = r THEN label ELSE pc[q]
  BY DEF JobsOK
<1>2. \A q \in Requests : Uid(q)' = Uid(q) /\ User(q)' = User(q)
  BY DEF Uid, User
<1> QED
  BY <1>1, <1>2 DEF JobsOK

LEMMA EndsKeepsJobs ==
    ASSUME JobsOK, NEW r \in Requests, Ends(r), UNCHANGED ask
    PROVE  JobsOK'
<1> USE DEF Ends, Running
<1>1. PICK what \in Answers, uid \in Uids \cup {Nobody} : LeaveWith(r, what, uid)
  BY DEF Ends
<1> USE <1>1 DEF LeaveWith, Goto
<1>2. frame[r] \in [thread : Threads, prev : Uids \cup {Nobody}] /\ frame[r] # None
  BY DEF JobsOK
<1>3. /\ reqUid' \in [Threads -> Uids \cup {Nobody}]
      /\ frame' \in [Requests -> [thread : Threads, prev : Uids \cup {Nobody}] \cup {None}]
      /\ pc' \in [Requests -> Stages] /\ answer' \in [Requests -> Answers \cup {None}]
  BY <1>2 DEF JobsOK, Stages
<1>4. \A q \in Requests : frame'[q] # None <=> pc'[q] \notin {"new", "done"}
  BY DEF JobsOK
<1>5. ASSUME NEW q \in Requests, frame'[q] # None
      PROVE  /\ Uid(q)' = User(q)'
             /\ \A o \in Requests \ {q} : frame'[o] # None => frame'[o].thread # frame'[q].thread
  <2>1. q # r /\ frame'[q] = frame[q] /\ frame[q] # None
    BY <1>5 DEF JobsOK
  <2>2. frame[q].thread \in Threads /\ frame[q].thread # frame[r].thread
    BY <1>2, <2>1 DEF JobsOK
  <2>3. Uid(q)' = Uid(q) /\ User(q)' = User(q)
    BY <2>1, <2>2 DEF Uid, User, JobsOK
  <2>4. \A o \in Requests : frame'[o] # None => o # r /\ frame'[o] = frame[o]
    BY DEF JobsOK
  <2> QED
    BY <2>1, <2>3, <2>4 DEF JobsOK
<1> QED
  BY <1>3, <1>4, <1>5 DEF JobsOK

LEMMA StartKeepsJobs ==
    ASSUME JobsOK, WorldOK, AskFits, NEW r \in Requests, NEW t \in Threads, Start(r, t)
    PROVE  JobsOK'
<1> USE DEF Start, Goto
<1>1. User(r) \in Uids
  BY UserOfAsk DEF AskFits
<1>2. FirstStep(r) \in Running
  BY DEF FirstStep, Running, Stages, Critical
<1>3. [thread |-> t, prev |-> reqUid[t]] \in [thread : Threads, prev : Uids \cup {Nobody}]
  BY DEF JobsOK
<1>4. [thread |-> t, prev |-> reqUid[t]] # None
  BY <1>3, RootsAssumption DEF Uids
<1>5. /\ reqUid' \in [Threads -> Uids \cup {Nobody}]
      /\ frame' \in [Requests -> [thread : Threads, prev : Uids \cup {Nobody}] \cup {None}]
      /\ pc' \in [Requests -> Stages] /\ answer' \in [Requests -> Answers \cup {None}]
  BY <1>1, <1>2, <1>3 DEF JobsOK, Running
<1>6. \A q \in Requests : frame'[q] # None <=> pc'[q] \notin {"new", "done"}
  BY <1>2, <1>4 DEF JobsOK, Running
<1>7. frame'[r].thread = t /\ \A q \in Requests \ {r} : frame'[q] = frame[q]
  BY DEF JobsOK
<1>8. \A q \in Requests : User(q)' = User(q)
  BY DEF User, world
<1>9. Uid(r)' = User(r)'
  BY <1>7, <1>8 DEF Uid, JobsOK
<1>10. \A q \in Requests \ {r} : frame[q] # None => frame[q].thread # t
  OBVIOUS
<1>11. \A q \in Requests \ {r} : frame[q] # None => Uid(q)' = User(q)'
  <2> TAKE q \in Requests \ {r}
  <2> HAVE frame[q] # None
  <2>1. frame[q].thread \in Threads \ {t} /\ frame'[q] = frame[q]
    BY <1>7, <1>10 DEF JobsOK
  <2>2. reqUid'[frame[q].thread] = reqUid[frame[q].thread]
    BY <2>1 DEF JobsOK
  <2> QED
    BY <1>8, <2>1, <2>2 DEF Uid, JobsOK
<1>12. \A q \in Requests : frame'[q] # None =>
          /\ Uid(q)' = User(q)'
          /\ \A o \in Requests \ {q} : frame'[o] # None => frame'[o].thread # frame'[q].thread
  BY <1>7, <1>9, <1>10, <1>11 DEF JobsOK
<1> QED
  BY <1>5, <1>6, <1>12 DEF JobsOK

LEMMA RefuseKeepsJobs ==
    ASSUME JobsOK, NEW r \in Requests, Refuse(r)
    PROVE  JobsOK'
<1> USE DEF Refuse, Goto, threads, world
<1>1. pc' \in [Requests -> Stages] /\ answer' \in [Requests -> Answers \cup {None}]
  BY DEF JobsOK, Stages, Answers
<1>2. \A q \in Requests : Uid(q)' = Uid(q) /\ User(q)' = User(q)
  BY DEF Uid, User
<1> QED
  BY <1>1, <1>2 DEF JobsOK

(* Every step of a request is one of these. *)
LEMMA RootsStepIsJob ==
    ASSUME TypeInv, NEW r \in Requests, RootsStep(r)
    PROVE  /\ UNCHANGED world /\ UNCHANGED events
           /\ \/ Refuse(r) \/ \E t \in Threads : Start(r, t)
              \/ \E label \in Running \ Critical : pc[r] \notin Critical \cup {"lock"} /\ Moves(r, label)
              \/ pc[r] = "resolve" /\ LeaveWith(r, "not found", frame[r].prev)
<1> USE DEF Goto, Running, Stages, Critical
<1>1. CASE Refuse(r) \/ \E t \in Threads : Start(r, t)
  BY <1>1 DEF Refuse, Start
<1>2. CASE CheckLive(r) \/ AskShared(r) \/ AskUser(r) \/ Install(r)
  BY <1>2 DEF CheckLive, AskShared, AskUser, Install, Moves
<1>3. CASE ListHome(r) \/ RootsAsEntries(r) \/ CrumbRoot(r) \/ CrumbSegments(r)
  BY <1>3 DEF ListHome, RootsAsEntries, CrumbRoot, CrumbSegments, Moves
<1>4. CASE Resolve(r)
  <2>1. ask[r] \in Asks /\ ask[r].kind \in Kinds
    BY <1>4, UserOfAsk DEF TypeInv, AskFits, Resolve, Asks
  <2>2. UNCHANGED world /\ UNCHANGED events
    BY <1>4 DEF Resolve
  <2>3. CASE Inside(CollectRoots(Uid(r)), ask[r].place)
    BY <1>4, <2>1, <2>2, <2>3 DEF Resolve, Moves, Kinds
  <2>4. CASE ~Inside(CollectRoots(Uid(r)), ask[r].place)
    BY <1>4, <2>2, <2>4 DEF Resolve, Leave
  <2> QED
    BY <2>3, <2>4
<1> QED
  BY <1>1, <1>2, <1>3, <1>4 DEF RootsStep

LEMMA StoreStepIsJob ==
    ASSUME TypeInv, NEW r \in Requests, StoreStep(r)
    PROVE  /\ UNCHANGED <<world, live, found, reached, told, events>>
           /\ \/ \E label \in Running : Moves(r, label)
              \/ Ends(r)
<1> USE DEF Goto, Running, Stages, Critical, inRoots
<1>1. CASE ReadStore(r) \/ ServeBook(r) \/ Reply(r)
  <2>1. pc[r] \in Running
    BY <1>1 DEF ReadStore, ServeBook, Reply
  <2>2. frame[r] \in [thread : Threads, prev : Uids \cup {Nobody}]
    BY <2>1 DEF TypeInv, JobsOK
  <2>3. frame[r].prev \in Uids \cup {Nobody} /\ reqUid[frame[r].thread] \in Uids \cup {Nobody}
    BY <2>2 DEF TypeInv, JobsOK
  <2>4. Ends(r)
    BY <1>1, <2>1, <2>3 DEF ReadStore, ServeBook, Reply, Ends, Leave, LeavePanicking, Answers
  <2> QED
    BY <1>1, <2>4 DEF ReadStore, ServeBook, Reply
<1>2. CASE Lock(r) \/ Merge(r) \/ StartWrite(r)
  BY <1>2 DEF Lock, Merge, StartWrite, Moves
<1>3. CASE FinishWrite(r) \/ Rename(r) \/ WriteFails(r)
  BY <1>3 DEF FinishWrite, Rename, WriteFails, Moves
<1> QED
  BY <1>1, <1>2, <1>3 DEF StoreStep

LEMMA ServeKeepsJobs ==
    ASSUME TypeInv, NEW r \in Requests, Serve(r)
    PROVE  JobsOK' /\ WorldOK'
<1>1. CASE RootsStep(r)
  <2>1. UNCHANGED world /\ UNCHANGED events /\ UNCHANGED ask
    BY <1>1, RootsStepIsJob DEF world
  <2>2. WorldOK'
    BY <2>1 DEF TypeInv, WorldOK, world
  <2>3. CASE \E label : Moves(r, label)
    BY <2>1, <2>2, <2>3, MovesKeepJobs DEF TypeInv
  <2>4. CASE Refuse(r) \/ \E t \in Threads : Start(r, t)
    BY <2>2, <2>4, RefuseKeepsJobs, StartKeepsJobs DEF TypeInv
  <2>5. CASE pc[r] = "resolve" /\ LeaveWith(r, "not found", frame[r].prev)
    <3>1. frame[r].prev \in Uids \cup {Nobody}
      BY <2>5 DEF TypeInv, JobsOK
    <3>2. Ends(r)
      BY <2>5, <3>1 DEF Ends, Running, Stages, Answers
    <3> QED
      BY <2>1, <2>2, <3>2, EndsKeepsJobs DEF TypeInv
  <2> QED
    BY <1>1, <2>2, <2>3, <2>4, <2>5, RootsStepIsJob
<1>2. CASE StoreStep(r)
  <2>1. UNCHANGED world /\ UNCHANGED events /\ UNCHANGED ask
    BY <1>2, StoreStepIsJob DEF world
  <2>2. WorldOK'
    BY <2>1 DEF TypeInv, WorldOK, world
  <2> QED
    BY <1>2, <2>1, <2>2, StoreStepIsJob, MovesKeepJobs, EndsKeepsJobs DEF TypeInv
<1> QED
  BY <1>1, <1>2 DEF Serve

------------------------------------------------------------------------------
(* Folders: what a request is told and reaches. *)

LEMMA RepliesArePaths ==
    ASSUME WorldOK, NEW who \in Users \cup {Shared}, NEW reply \in Replies(who), reply # None
    PROVE  reply \in Seq(Path)
<1>1. grant[who] \in Seq(Path)
  BY RootsAssumption DEF WorldOK
<1>2. reply = JsonStringArray(grant[who])
  BY DEF Replies
<1> DEFINE I == {i \in 1 .. Len(grant[who]) : grant[who][i] \in Bracketed}
           cut == IF I # {} THEN Min(I) ELSE 0
<1>3. reply = IF cut = 0 THEN grant[who] ELSE SubSeq(grant[who], 1, cut - 1)
  BY <1>2 DEF JsonStringArray, SelectInSeq
<1>4. Len(grant[who]) \in Nat
  BY <1>1, LenProperties
<1>5. cut \in 0 .. Len(grant[who])
  <2>1. I \in SUBSET Nat
    BY <1>4
  <2>2. CASE I # {}
    <3>1. Min(I) \in I
      <4> HIDE DEF I
      <4> QED
        BY <2>1, <2>2, LeastPosition
    <3> QED
      BY <1>4, <2>2, <3>1
  <2>3. CASE I = {}
    BY <1>4, <2>3
  <2> QED
    BY <2>2, <2>3
<1> HIDE DEF cut
<1>6. cut # 0 => SubSeq(grant[who], 1, cut - 1) \in Seq(Path)
  BY <1>1, <1>4, <1>5, SubSeqProperties
<1> QED
  BY <1>1, <1>3, <1>6

Own(u) == Range(base) \cup (IF u \in Users THEN told[u] ELSE {})

(* A request collects paths, and only those of its own user. *)
LEMMA CollectsOwn ==
    ASSUME TypeInv, SlotIsTold, NEW r \in Requests, pc[r] \in Running
    PROVE  /\ CollectRoots(Uid(r)) \in Seq(Path)
           /\ Range(CollectRoots(Uid(r))) \subseteq Own(User(r))
           /\ Range(CollectRoots(Uid(r))) \subseteq Path
<1>1. base \in Seq(Path)
  BY RootsAssumption DEF TypeInv, WorldOK
<1>2. frame[r] # None /\ Uid(r) = User(r)
  BY DEF TypeInv, JobsOK, Running
<1>3. CASE User(r) # Nobody /\ live # None /\ live.key = User(r)
  <2>1. live.paths \in Seq(Path) /\ live.key \in Users
    BY <1>3 DEF TypeInv, FoldersOK
  <2>2. CollectRoots(Uid(r)) = base \o live.paths
    BY <1>2, <1>3 DEF CollectRoots
  <2>3. Range(live.paths) \subseteq told[User(r)] /\ User(r) \in Users
    BY <1>3, <2>1 DEF SlotIsTold
  <2>4. Range(CollectRoots(Uid(r))) = Range(base) \cup Range(live.paths)
    BY <1>1, <2>1, <2>2, RootsOfBoth
  <2> QED
    BY <1>1, <2>1, <2>2, <2>3, <2>4, RootsOfBoth, RangeOfSeq DEF Own
<1>4. CASE ~(User(r) # Nobody /\ live # None /\ live.key = User(r))
  <2>1. CollectRoots(Uid(r)) = base \o <<>>
    BY <1>2, <1>4 DEF CollectRoots
  <2>2. base \o <<>> = base
    BY <1>1, ConcatEmptySeq
  <2> QED
    BY <1>1, <2>1, <2>2, RangeOfSeq DEF Own
<1> QED
  BY <1>3, <1>4

(* The steps that neither query the gateway nor reach anything. *)
LEMMA OtherStepsKeepFolders ==
    ASSUME FoldersOK, UNCHANGED <<live, found, reached, told>>
    PROVE  FoldersOK'
BY DEF FoldersOK

LEMMA QueriesKeepFolders ==
    ASSUME TypeInv, NEW r \in Requests, AskShared(r) \/ AskUser(r)
    PROVE  FoldersOK'
<1>1. CASE AskShared(r)
  <2>1. PICK reply \in Replies(Shared) :
            found' = [found EXCEPT ![r] = IF reply = None THEN <<>> ELSE reply]
    BY <1>1 DEF AskShared
  <2>2. (IF reply = None THEN <<>> ELSE reply) \in Seq(Path)
    BY <2>1, RepliesArePaths, EmptySeq DEF TypeInv
  <2> QED
    BY <1>1, <2>1, <2>2 DEF AskShared, TypeInv, FoldersOK
<1>2. CASE AskUser(r)
  <2>1. User(r) \in Users /\ Uid(r) = User(r)
    BY <1>2 DEF AskUser, TypeInv, AskFits, JobsOK
  <2>2. PICK reply \in Replies(Uid(r)) :
            IF reply = None THEN Goto(r, "home") /\ UNCHANGED found
            ELSE Goto(r, "install") /\ found' = [found EXCEPT ![r] = @ \o reply]
    BY <1>2 DEF AskUser
  <2>3. CASE reply = None
    BY <1>2, <2>2, <2>3 DEF AskUser, TypeInv, FoldersOK
  <2>4. CASE reply # None
    <3>1. found[r] \in Seq(Path) /\ reply \in Seq(Path)
      BY <2>1, <2>4, RepliesArePaths DEF TypeInv, FoldersOK
    <3>2. found[r] \o reply \in Seq(Path)
      BY <3>1, ConcatProperties
    <3> QED
      BY <1>2, <2>2, <2>4, <3>2 DEF AskUser, TypeInv, FoldersOK
  <2> QED
    BY <2>3, <2>4
<1> QED
  BY <1>1, <1>2

LEMMA InstallIsTold ==
    ASSUME TypeInv, NEW r \in Requests, Install(r)
    PROVE  /\ FoldersOK' /\ SlotIsTold'
           /\ \A u \in Users : told[u] \subseteq told'[u]
<1>1. User(r) \in Users /\ Uid(r) = User(r)
  BY DEF Install, TypeInv, AskFits, JobsOK
<1>2. found[r] \in Seq(Path) /\ Range(found[r]) \subseteq Path
  BY RangeOfSeq DEF TypeInv, FoldersOK
<1>3. told' = [told EXCEPT ![User(r)] = @ \cup Range(found[r])]
  BY DEF Install
<1>4. live' = [key |-> User(r), paths |-> found[r]]
  BY <1>1 DEF Install
<1> QED
  BY <1>1, <1>2, <1>3, <1>4 DEF Install, TypeInv, FoldersOK, SlotIsTold

(* All that r has reached it may reach. *)
Below(u, p) == \E d \in Own(u) : IsPrefix(d, p)

LEMMA OwnIsBelow ==
    ASSUME TypeInv, NEW u \in Uids, NEW p \in Own(u)
    PROVE  p \in Path /\ Below(u, p)
<1>1. base \in Seq(Path)
  BY RootsAssumption DEF TypeInv, WorldOK
<1>2. p \in Path
  BY <1>1, RangeOfSeq DEF TypeInv, FoldersOK, Own
<1>3. IsPrefix(p, p)
  BY <1>2, PrefixOfItself DEF Path
<1> QED
  BY <1>2, <1>3 DEF Below

LEMMA ReachesOwn ==
    ASSUME TypeInv, SlotIsTold, NEW r \in Requests,
           \A p \in reached[r] : Below(User(r), p),
           \/ ListHome(r) \/ RootsAsEntries(r) \/ CrumbRoot(r) \/ CrumbSegments(r) \/ Resolve(r)
    PROVE  /\ FoldersOK'
           /\ \A q \in Requests \ {r} : reached'[q] = reached[q]
           /\ \A p \in reached'[r] : Below(User(r), p)
<1> DEFINE roots == CollectRoots(Uid(r))
           u == User(r)
<1>1. pc[r] \in Running
  BY DEF ListHome, RootsAsEntries, CrumbRoot, CrumbSegments, Resolve, Running, Stages
<1>2. roots \in Seq(Path) /\ Range(roots) \subseteq Own(u) /\ Range(roots) \subseteq Path
  BY <1>1, CollectsOwn
<1>3. u \in Uids /\ ask[r].place \in Path
  <2>1. ask[r] # None
    BY <1>1 DEF TypeInv, AskFits, Running
  <2> QED
    BY <2>1, UserOfAsk, ProgressAssumption DEF TypeInv
<1>4. reached[r] \subseteq Path
  BY DEF TypeInv, FoldersOK
<1> HIDE DEF roots, u
<1>5. \A p \in Range(roots) : p \in Path /\ Below(u, p)
  BY <1>2, <1>3, OwnIsBelow
<1> SUFFICES \E new \in SUBSET Path : /\ reached' = [reached EXCEPT ![r] = new]
                                      /\ \A p \in new : Below(u, p)
                                      /\ UNCHANGED <<live, found, told>>
  BY DEF TypeInv, FoldersOK, u
<1>6. CASE ListHome(r)
  <2>1. CASE Cardinality(Range(roots)) = 1
    <3>1. roots # <<>>
      BY <2>1, FS_EmptySet DEF Range
    <3>2. roots[1] \in Range(roots)
      BY <1>2, <3>1, EmptySeq, LenProperties DEF Range
    <3> QED
      BY <1>5, <1>6, <2>1, <3>2 DEF ListHome, roots
  <2>2. CASE Cardinality(Range(roots)) # 1
    <3>1. reached' = [reached EXCEPT ![r] = reached[r]]
      BY <1>6, <2>2 DEF ListHome, roots, TypeInv, FoldersOK
    <3> QED
      BY <1>4, <1>6, <3>1 DEF ListHome, u
  <2> QED
    BY <2>1, <2>2
<1>7. CASE RootsAsEntries(r)
  BY <1>2, <1>5, <1>7 DEF RootsAsEntries, roots
<1>8. CASE CrumbRoot(r)
  <2>1. PICK p \in reached[r] :
            IF RootOf(roots, p) = <<>> THEN Goto(r, "read") /\ UNCHANGED reached
            ELSE /\ Goto(r, "segments")
                 /\ reached' = [reached EXCEPT ![r] = @ \cup {RootOf(roots, p)}]
    BY <1>8 DEF CrumbRoot, roots
  <2>2. CASE RootOf(roots, p) = <<>>
    <3>1. reached' = [reached EXCEPT ![r] = reached[r]]
      BY <2>1, <2>2 DEF TypeInv, FoldersOK
    <3> QED
      BY <1>4, <1>8, <3>1 DEF CrumbRoot, u
  <2>3. CASE RootOf(roots, p) # <<>>
    <3>1. RootOf(roots, p) \in Range(roots)
      BY <1>2, <2>3, RootIsARoot DEF Inside, Path
    <3>2. reached' = [reached EXCEPT ![r] = reached[r] \cup {RootOf(roots, p)}]
      BY <2>1, <2>3
    <3>3. UNCHANGED <<live, found, told>>
      BY <1>8 DEF CrumbRoot
    <3>4. \A q \in reached[r] : Below(u, q)
      BY DEF u
    <3>5. RootOf(roots, p) \in Path /\ Below(u, RootOf(roots, p))
      BY <1>5, <3>1
    <3> QED
      BY <1>4, <3>2, <3>3, <3>4, <3>5
  <2> QED
    BY <2>2, <2>3
<1>9. CASE CrumbSegments(r)
  <2>1. PICK root, p \in reached[r] :
            reached' = [reached EXCEPT ![r] = @ \cup Breadcrumb(root, RelSegments(roots, p))]
    BY <1>9 DEF CrumbSegments, roots
  <2>2. root \in Path /\ p \in Path
    BY <1>4
  <2>3. RelSegments(roots, p) \in Path
    BY <1>2, <2>2, SegmentsOfPath DEF Path
  <2>4. PICK d \in Own(u) : IsPrefix(d, root)
    BY DEF Below, u
  <2>5. d \in Path
    BY <1>3, OwnIsBelow
  <2>6. \A c \in Breadcrumb(root, RelSegments(roots, p)) : c \in Path /\ IsPrefix(d, c)
    BY <2>2, <2>3, <2>4, <2>5, CrumbsStayBelow DEF Path
  <2>7. \A c \in Breadcrumb(root, RelSegments(roots, p)) : c \in Path /\ Below(u, c)
    BY <2>6 DEF Below
  <2> QED
    BY <1>4, <1>9, <2>1, <2>7 DEF CrumbSegments, u
<1>10. CASE Resolve(r)
  <2>1. CASE Inside(roots, ask[r].place)
    <3>1. reached' = [reached EXCEPT ![r] = {ask[r].place}]
      BY <1>10, <2>1 DEF Resolve, roots
    <3>2. Below(u, ask[r].place)
      BY <1>2, <2>1, RootIsARoot DEF Below, Path
    <3>3. UNCHANGED <<live, found, told>>
      BY <1>10 DEF Resolve
    <3>4. {ask[r].place} \in SUBSET Path /\ \A p \in {ask[r].place} : Below(u, p)
      BY <1>3, <3>2
    <3> QED
      BY <3>1, <3>3, <3>4
  <2>2. CASE ~Inside(roots, ask[r].place)
    <3>1. reached' = [reached EXCEPT ![r] = reached[r]]
      BY <1>10, <2>2 DEF Resolve, roots, TypeInv, FoldersOK
    <3> QED
      BY <1>4, <1>10, <3>1 DEF Resolve, u
  <2> QED
    BY <2>1, <2>2
<1> QED
  BY <1>6, <1>7, <1>8, <1>9, <1>10

------------------------------------------------------------------------------
(* Steps of a request, and the invariants of its folders. *)

LEMMA RootsStepKeepsFolders ==
    ASSUME TypeInv, RootsInv, NEW r \in Requests, RootsStep(r)
    PROVE  FoldersOK' /\ RootsInv'
<1> USE DEF RootsInv
<1>1. UNCHANGED world
  BY RootsStepIsJob
<1>2. \A q \in Requests : User(q)' = User(q)
  BY <1>1 DEF world, User
<1>3. \A q \in Requests : \A p \in reached[q] : Below(User(q), p)
  BY DEF OnlyOwnRoots, Below, Own
<1>4. /\ FoldersOK' /\ SlotIsTold'
      /\ \A u \in Users : told[u] \subseteq told'[u]
      /\ \A q \in Requests : \A p \in reached'[q] : Below(User(q), p)
  <2>1. CASE Refuse(r) \/ (\E t \in Threads : Start(r, t)) \/ CheckLive(r)
    <3>1. UNCHANGED <<live, found, reached, told>>
      BY <2>1 DEF Refuse, Start, CheckLive
    <3> QED
      BY <1>3, <3>1, OtherStepsKeepFolders DEF TypeInv, SlotIsTold
  <2>2. CASE AskShared(r) \/ AskUser(r)
    <3>1. UNCHANGED <<live, reached, told>>
      BY <2>2 DEF AskShared, AskUser
    <3> QED
      BY <1>3, <2>2, <3>1, QueriesKeepFolders DEF TypeInv, SlotIsTold
  <2>3. CASE Install(r)
    <3>1. UNCHANGED reached
      BY <2>3 DEF Install
    <3> QED
      BY <1>3, <2>3, <3>1, InstallIsTold
  <2>4. CASE \/ ListHome(r) \/ RootsAsEntries(r) \/ CrumbRoot(r) \/ CrumbSegments(r) \/ Resolve(r)
    <3>1. UNCHANGED <<live, told>>
      BY <2>4 DEF ListHome, RootsAsEntries, CrumbRoot, CrumbSegments, Resolve
    <3> QED
      BY <1>3, <2>4, <3>1, ReachesOwn DEF TypeInv, SlotIsTold
  <2> QED
    BY <2>1, <2>2, <2>3, <2>4 DEF RootsStep
<1>5. \A u : Own(u) \subseteq Own(u)'
  BY <1>1, <1>4 DEF Own, world
<1>6. OnlyOwnRoots'
  BY <1>2, <1>4, <1>5 DEF OnlyOwnRoots, Below, Own
<1> QED
  BY <1>4, <1>6

LEMMA RootsStepKeepsTypes ==
    ASSUME TypeInv, RootsInv, NEW r \in Requests, RootsStep(r), UNCHANGED storeVars
    PROVE  TypeInv'
<1>1. JobsOK' /\ WorldOK'
  BY ServeKeepsJobs DEF Serve
<1>2. FoldersOK'
  BY RootsStepKeepsFolders
<1>3. FilesOK'
  BY DEF TypeInv, FilesOK, storeVars
<1>4. /\ \A q \in Requests \ {r} : pc'[q] = pc[q]
      /\ pc[r] \notin Critical /\ pc'[r] \notin Critical
  <2>1. CASE Refuse(r) \/ \E t \in Threads : Start(r, t)
    BY <2>1 DEF Refuse, Start, Goto, FirstStep, Critical, TypeInv, JobsOK
  <2>2. CASE \E label \in Running \ Critical : pc[r] \notin Critical \cup {"lock"} /\ Moves(r, label)
    BY <2>2 DEF Moves, Goto, TypeInv, JobsOK
  <2>3. CASE pc[r] = "resolve" /\ LeaveWith(r, "not found", frame[r].prev)
    BY <2>3 DEF LeaveWith, Goto, Critical, TypeInv, JobsOK
  <2> QED
    BY <2>1, <2>2, <2>3, RootsStepIsJob
<1>5. MutexOK'
  BY <1>4 DEF TypeInv, MutexOK, storeVars
<1>6. AskFits'
  <2>1. UNCHANGED ask /\ \A q \in Requests : User(q)' = User(q)
    BY RootsStepIsJob DEF world, User
  <2>2. \A q \in Requests \ {r} : pc'[q] = pc[q] /\ answer'[q] = answer[q]
    <3>1. CASE Refuse(r) \/ \E t \in Threads : Start(r, t)
      BY <1>4, <3>1 DEF Refuse, Start, TypeInv, JobsOK
    <3>2. CASE \E label : Moves(r, label)
      BY <1>4, <3>2 DEF Moves
    <3>3. CASE LeaveWith(r, "not found", frame[r].prev)
      BY <1>4, <3>3 DEF LeaveWith, TypeInv, JobsOK
    <3> QED
      BY <3>1, <3>2, <3>3, RootsStepIsJob
  <2>3. pc[r] # "done" /\ ask[r] # None /\ answer[r] # "ok"
    <3>1. pc[r] # "done"
      BY RootsStepIsJob DEF Refuse, Start, Moves, Running
    <3> QED
      BY <3>1 DEF TypeInv, AskFits
  <2>4. /\ pc'[r] \in {"shared", "user", "install"} => User(r) \in Users
        /\ pc'[r] \in HomeStages \cup {"read", "book"} => ask[r].kind # "post"
        /\ answer'[r] = "ok" => pc'[r] = "done"
    <3> USE DEF Goto, HomeStages, TypeInv, JobsOK, AskFits
    <3>1. CASE Refuse(r) \/ \E t \in Threads : Start(r, t)
      <4>1. CASE Refuse(r)
        BY <2>3, <4>1 DEF Refuse
      <4>2. CASE \E t \in Threads : Start(r, t)
        <5>1. pc'[r] = FirstStep(r) /\ answer'[r] = answer[r]
          BY <4>2 DEF Start
        <5>2. /\ FirstStep(r) \notin {"shared", "user", "install"}
              /\ FirstStep(r) \in HomeStages \cup {"read", "book"} => ask[r].kind # "post"
          BY DEF FirstStep
        <5> QED
          BY <2>3, <5>1, <5>2
      <4> QED
        BY <3>1, <4>1, <4>2
    <3>2. CASE CheckLive(r)
      BY <2>3, <3>2, UserOfAsk DEF CheckLive, Uids, Running, threads
    <3>3. CASE AskShared(r) \/ AskUser(r) \/ Install(r)
      BY <2>3, <3>3 DEF AskShared, AskUser, Install
    <3>4. CASE ListHome(r) \/ RootsAsEntries(r) \/ CrumbRoot(r) \/ CrumbSegments(r)
      BY <2>3, <3>4 DEF ListHome, RootsAsEntries, CrumbRoot, CrumbSegments
    <3>5. CASE Resolve(r)
      <4>1. CASE Inside(CollectRoots(Uid(r)), ask[r].place)
        BY <2>3, <3>5, <4>1 DEF Resolve
      <4>2. CASE ~Inside(CollectRoots(Uid(r)), ask[r].place)
        BY <2>3, <3>5, <4>2 DEF Resolve, Leave, LeaveWith
      <4> QED
        BY <4>1, <4>2
    <3> QED
      BY <3>1, <3>2, <3>3, <3>4, <3>5 DEF RootsStep
  <2>5. \A q \in Requests \ {r} :
            /\ pc'[q] # "done" => ask'[q] # None
            /\ pc'[q] \in {"shared", "user", "install"} => User(q)' \in Users
            /\ pc'[q] \in HomeStages \cup {"read", "book"} => ask'[q].kind # "post"
            /\ answer'[q] = "ok" => pc'[q] = "done"
    BY <2>1, <2>2 DEF TypeInv, AskFits
  <2> QED
    BY <2>1, <2>3, <2>4, <2>5 DEF AskFits
<1> QED
  BY <1>1, <1>2, <1>3, <1>5, <1>6 DEF TypeInv

------------------------------------------------------------------------------
(* Files: what a post merges, writes and renames. *)

LEMMA MergeKeepsSaves ==
    ASSUME WorldOK, NEW r \in Requests, ask[r] # None, NEW prev \in A!Entry \cup {NoEntry}
    PROVE  /\ A!Merge(prev, r) \in A!Entry
           /\ A!Merge(prev, r) # NoEntry
           /\ r \in A!Merge(prev, r).saves
           /\ prev # NoEntry => prev.saves \subseteq A!Merge(prev, r).saves
<1> DEFINE was == IF prev = NoEntry THEN [page |-> 0, place |-> 0, saves |-> {}] ELSE prev
<1>1. ask[r].page \in 0 .. MaxPage
  BY UserOfAsk DEF Asks
<1>2. was \in A!Entry
  BY ProgressAssumption DEF A!Entry
<1>3. A!Merge(prev, r) = [page  |-> IF ask[r].page # 0 \/ was.page = 0 THEN ask[r].page ELSE was.page,
                          place |-> ask[r].page,
                          saves |-> was.saves \cup {r}]
  BY DEF A!Merge
<1> HIDE DEF was
<1>4. A!Merge(prev, r) \in A!Entry
  BY <1>1, <1>2, <1>3 DEF A!Entry
<1>5. A!Merge(prev, r) # NoEntry
  BY <1>4, MarkersAssumption
<1>6. A!Merge(prev, r).saves = was.saves \cup {r}
  BY <1>3
<1> QED
  BY <1>4, <1>5, <1>6 DEF was

(* Replacing a user's file by the merged map keeps every save of everybody. *)
LEMMA MergedKeepsSaves ==
    ASSUME TypeInv, NEW r \in Requests, ask[r] # None,
           NEW after, after = [file EXCEPT ![User(r)] = Merged(r)]
    PROVE  /\ Merged(r) \in Records
           /\ after \in [Uids -> Records]
           /\ \A q \in Requests : (ask[q] # None /\ Saved(q)) \/ q = r =>
                /\ after[User(q)][ask[q].place] # NoEntry
                /\ q \in after[User(q)][ask[q].place].saves
<1> DEFINE u == User(r)
           p == ask[r].place
<1>1. u \in Uids /\ p \in Places
  BY UserOfAsk DEF TypeInv
<1>2. file \in [Uids -> Records] /\ file[u] \in Records /\ file[u][p] \in A!Entry \cup {NoEntry}
  BY <1>1 DEF TypeInv, FilesOK, Records
<1> DEFINE new == A!Merge(file[u][p], r)
<1>3. /\ new \in A!Entry /\ new # NoEntry /\ r \in new.saves
      /\ file[u][p] # NoEntry => file[u][p].saves \subseteq new.saves
  BY <1>2, MergeKeepsSaves DEF TypeInv
<1>4. Merged(r) = [file[u] EXCEPT ![p] = new]
  BY DEF Merged
<1> HIDE DEF u, p, new
<1>5. Merged(r) \in Records
  BY <1>1, <1>2, <1>3, <1>4 DEF Records
<1>6. Merged(r)[p] = new /\ \A other \in Places : other # p => Merged(r)[other] = file[u][other]
  BY <1>1, <1>2, <1>4 DEF Records
<1>7. after = [file EXCEPT ![u] = Merged(r)]
  BY DEF u
<1>8. after \in [Uids -> Records] /\ after[u] = Merged(r)
      /\ \A other \in Uids : other # u => after[other] = file[other]
  BY <1>1, <1>2, <1>5, <1>7
<1>9. ASSUME NEW q \in Requests, ask[q] # None, Saved(q)
      PROVE  /\ after[User(q)][ask[q].place] # NoEntry
             /\ q \in after[User(q)][ask[q].place].saves
  <2>1. User(q) \in Uids /\ ask[q].place \in Places
    BY <1>9, UserOfAsk DEF TypeInv
  <2>2. file[User(q)][ask[q].place] # NoEntry /\ q \in file[User(q)][ask[q].place].saves
    BY <1>9 DEF Saved
  <2>3. CASE User(q) = u /\ ask[q].place = p
    BY <1>3, <1>6, <1>8, <2>2, <2>3
  <2>4. CASE User(q) = u /\ ask[q].place # p
    BY <1>6, <1>8, <2>1, <2>2, <2>4
  <2>5. CASE User(q) # u
    BY <1>8, <2>1, <2>2, <2>5
  <2> QED
    BY <2>3, <2>4, <2>5
<1>10. after[User(r)][ask[r].place] # NoEntry /\ r \in after[User(r)][ask[r].place].saves
  BY <1>3, <1>6, <1>8 DEF u, p
<1> QED
  BY <1>5, <1>8, <1>9, <1>10

LEMMA StoreStepKeepsTypes ==
    ASSUME TypeInv, StoreInv, NEW r \in Requests, StoreStep(r)
    PROVE  TypeInv'
<1> USE DEF Goto
<1>1. JobsOK' /\ WorldOK'
  BY ServeKeepsJobs DEF Serve
<1>2. FoldersOK'
  BY StoreStepIsJob, OtherStepsKeepFolders DEF TypeInv
<1>3. ask[r] # None /\ UNCHANGED ask
  BY StoreStepIsJob DEF TypeInv, AskFits, Moves, Ends, Running, world
<1>4. User(r) \in Uids /\ ask[r].place \in Places
  BY <1>3, UserOfAsk DEF TypeInv
<1>5. NoRecords \in Records
  BY DEF NoRecords, Records
<1>6. Load(file[User(r)]) = file[User(r)]
  BY <1>4, MarkersAssumption DEF Load, TypeInv, FilesOK, Records
<1>7. MutexOK'
  <2> USE DEF TypeInv, MutexOK, JobsOK, Critical
  <2>1. CASE ReadStore(r) \/ ServeBook(r)
    BY <2>1 DEF ReadStore, ServeBook, Leave, LeavePanicking, LeaveWith, storeVars
  <2>2. CASE Lock(r)
    BY <2>2, RootsAssumption DEF Lock
  <2>3. CASE Merge(r) \/ StartWrite(r) \/ FinishWrite(r) \/ Rename(r) \/ WriteFails(r)
    BY <2>3 DEF Merge, StartWrite, FinishWrite, Rename, WriteFails
  <2>4. CASE Reply(r)
    BY <2>4, RootsAssumption DEF Reply, Leave, LeaveWith
  <2> QED
    BY <2>1, <2>2, <2>3, <2>4 DEF StoreStep
<1>8. FilesOK'
  <2> USE DEF TypeInv, FilesOK
  <2>1. CASE ReadStore(r) \/ ServeBook(r) \/ Lock(r) \/ Reply(r) \/ WriteFails(r)
    BY <2>1 DEF ReadStore, ServeBook, Lock, Reply, WriteFails, storeVars
  <2>2. CASE Merge(r)
    <3>1. data' = [data EXCEPT ![r] = Merged(r)]
      BY <1>6, <2>2 DEF Merge, Merged
    <3>2. Merged(r) \in Records
      BY <1>3, MergedKeepsSaves
    <3> QED
      BY <2>2, <3>1, <3>2 DEF Merge
  <2>3. CASE StartWrite(r) \/ FinishWrite(r)
    BY <1>4, <2>3 DEF StartWrite, FinishWrite
  <2>4. CASE Rename(r)
    <3>1. tmp[User(r)] \in Records
      BY <2>4 DEF Rename, StoreInv, FreshData
    <3> QED
      BY <1>4, <1>5, <2>4, <3>1 DEF Rename
  <2> QED
    BY <2>1, <2>2, <2>3, <2>4 DEF StoreStep
<1>9. AskFits'
  <2>1. \A q \in Requests : User(q)' = User(q)
    BY <1>3, StoreStepIsJob DEF User
  <2>2. \A q \in Requests \ {r} : pc'[q] = pc[q] /\ answer'[q] = answer[q]
    BY StoreStepIsJob DEF Moves, Ends, LeaveWith, TypeInv, JobsOK
  <2>3. \/ pc'[r] = "done"
        \/ pc'[r] \in Critical /\ answer'[r] = answer[r]
    <3>1. CASE ReadStore(r) \/ ServeBook(r) \/ Reply(r)
      BY <3>1 DEF ReadStore, ServeBook, Reply, Leave, LeavePanicking, LeaveWith, TypeInv, JobsOK
    <3>2. CASE Lock(r) \/ Merge(r) \/ StartWrite(r) \/ FinishWrite(r) \/ Rename(r) \/ WriteFails(r)
      BY <3>2 DEF Lock, Merge, StartWrite, FinishWrite, Rename, WriteFails, TypeInv, JobsOK,
                  threads, Critical
    <3> QED
      BY <3>1, <3>2 DEF StoreStep
  <2>4. answer[r] # "ok"
    BY StoreStepIsJob DEF TypeInv, AskFits, Moves, Ends, Running
  <2> QED
    BY <1>3, <2>1, <2>2, <2>3, <2>4 DEF TypeInv, AskFits, HomeStages, Critical
<1> QED
  BY <1>1, <1>2, <1>7, <1>8, <1>9 DEF TypeInv

(* Steps that change no file change no merged map and no saved post. *)
LEMMA SameFiles ==
    ASSUME NEW q \in Requests, UNCHANGED <<file, ask>>
    PROVE  User(q)' = User(q) /\ Merged(q)' = Merged(q) /\ (Saved(q)' <=> Saved(q))
BY DEF User, Merged, Saved, A!Merge

LEMMA RootsStepKeepsStore ==
    ASSUME TypeInv, StoreInv, NEW r \in Requests, RootsStep(r), UNCHANGED storeVars
    PROVE  StoreInv'
<1>1. UNCHANGED <<file, ask, tmp, data, failed>>
  BY RootsStepIsJob DEF world, storeVars
<1>2. \A q \in Requests : User(q)' = User(q) /\ Merged(q)' = Merged(q) /\ (Saved(q)' <=> Saved(q))
  BY <1>1, SameFiles
<1>3. /\ \A q \in Requests \ {r} : pc'[q] = pc[q] /\ answer'[q] = answer[q]
      /\ pc'[r] \notin Critical
      /\ answer'[r] = "ok" => answer[r] = "ok"
  <2> USE DEF TypeInv, JobsOK, Goto
  <2>1. CASE Refuse(r) \/ \E t \in Threads : Start(r, t)
    BY <2>1 DEF Refuse, Start, FirstStep, Critical
  <2>2. CASE \E label \in Running \ Critical : pc[r] \notin Critical \cup {"lock"} /\ Moves(r, label)
    BY <2>2 DEF Moves
  <2>3. CASE pc[r] = "resolve" /\ LeaveWith(r, "not found", frame[r].prev)
    BY <2>3 DEF LeaveWith, Critical
  <2> QED
    BY <2>1, <2>2, <2>3, RootsStepIsJob
<1>4. FreshData'
  BY <1>1, <1>2, <1>3 DEF StoreInv, FreshData, Critical
<1>5. SavedStays'
  BY <1>1, <1>2, <1>3 DEF StoreInv, SavedStays, Critical
<1> QED
  BY <1>4, <1>5 DEF StoreInv

LEMMA RenameReplaces ==
    ASSUME TypeInv, StoreInv, NEW r \in Requests, Rename(r)
    PROVE  /\ ask[r] # None
           /\ file' = [file EXCEPT ![User(r)] = Merged(r)]
           /\ \A q \in Requests : (ask[q] # None /\ Saved(q)) \/ q = r => Saved(q)'
<1>1. ask[r] # None /\ UNCHANGED ask
  BY DEF Rename, TypeInv, AskFits, inRoots, world
<1>2. file' = [file EXCEPT ![User(r)] = Merged(r)]
  BY DEF Rename, StoreInv, FreshData
<1>3. \A q \in Requests : User(q)' = User(q)
  BY <1>1 DEF User
<1> QED
  BY <1>1, <1>2, <1>3, MergedKeepsSaves DEF Saved

LEMMA StoreStepKeepsStore ==
    ASSUME TypeInv, StoreInv, NEW r \in Requests, StoreStep(r)
    PROVE  StoreInv'
<1> USE DEF Goto
<1>1. ask[r] # None /\ UNCHANGED ask
  BY StoreStepIsJob DEF TypeInv, AskFits, Moves, Ends, Running, world
<1>2. User(r) \in Uids /\ \A q \in Requests : User(q)' = User(q)
  BY <1>1, UserOfAsk DEF User, TypeInv
<1>3. \A q \in Requests \ {r} : pc'[q] = pc[q] /\ answer'[q] = answer[q]
  BY StoreStepIsJob DEF Moves, Ends, LeaveWith, TypeInv, JobsOK
<1>4. pc[r] \in Critical => \A q \in Requests \ {r} : pc[q] \notin Critical
  BY DEF TypeInv, MutexOK
<1>5. CASE ReadStore(r) \/ ServeBook(r)
  <2>1. UNCHANGED <<file, tmp, data, failed>>
    BY <1>5 DEF ReadStore, ServeBook, storeVars
  <2>2. pc'[r] = "done" /\ ask[r].kind # "post"
    BY <1>5 DEF ReadStore, ServeBook, Leave, LeavePanicking, LeaveWith, TypeInv, AskFits, JobsOK
  <2>3. \A q \in Requests : Merged(q)' = Merged(q) /\ (Saved(q)' <=> Saved(q))
    BY <1>1, <2>1, SameFiles
  <2> QED
    BY <1>1, <1>2, <1>3, <2>1, <2>2, <2>3 DEF StoreInv, FreshData, SavedStays
<1>6. CASE Lock(r) \/ StartWrite(r) \/ FinishWrite(r)
  <2>1. UNCHANGED <<file, data, failed, answer>>
    BY <1>6 DEF Lock, StartWrite, FinishWrite
  <2>2. \A q \in Requests : Merged(q)' = Merged(q) /\ (Saved(q)' <=> Saved(q))
    BY <1>1, <2>1, SameFiles
  <2>3. pc'[r] \in {"load", "writing", "rename"}
    BY <1>6 DEF Lock, StartWrite, FinishWrite, TypeInv, JobsOK
  <2>4. pc'[r] \in {"writing", "rename"} => data[r] = Merged(r)
    BY <1>6 DEF Lock, StartWrite, FinishWrite, TypeInv, JobsOK, StoreInv, FreshData
  <2>5. pc'[r] = "rename" => tmp'[User(r)] = data[r]
    BY <1>2, <1>6 DEF Lock, StartWrite, FinishWrite, TypeInv, JobsOK, FilesOK
  <2>6. \A q \in Requests \ {r} : pc[q] = "rename" => tmp' = tmp
    BY <1>4, <1>6 DEF Lock, StartWrite, FinishWrite, Critical
  <2>7. FreshData'
    BY <1>2, <1>3, <2>1, <2>2, <2>3, <2>4, <2>5, <2>6 DEF StoreInv, FreshData
  <2>8. SavedStays'
    BY <1>1, <1>3, <2>1, <2>2, <2>3 DEF StoreInv, SavedStays
  <2> QED
    BY <2>7, <2>8 DEF StoreInv
<1>7. CASE Merge(r)
  <2>1. UNCHANGED <<file, tmp, failed, answer>>
    BY <1>7 DEF Merge
  <2>2. \A q \in Requests : Merged(q)' = Merged(q) /\ (Saved(q)' <=> Saved(q))
    BY <1>1, <2>1, SameFiles
  <2>3. Load(file[User(r)]) = file[User(r)]
    BY <1>2, MarkersAssumption DEF Load, TypeInv, FilesOK, Records
  <2>4. data' = [data EXCEPT ![r] = Merged(r)]
    BY <1>7, <2>3 DEF Merge, Merged
  <2>5. pc'[r] = "write" /\ data'[r] = Merged(r) /\ \A q \in Requests \ {r} : data'[q] = data[q]
    BY <1>7, <2>4 DEF Merge, TypeInv, JobsOK, FilesOK
  <2> QED
    BY <1>1, <1>2, <1>3, <2>1, <2>2, <2>5 DEF StoreInv, FreshData, SavedStays
<1>8. CASE Rename(r)
  <2>1. \A q \in Requests : (ask[q] # None /\ Saved(q)) \/ q = r => Saved(q)'
    BY <1>8, RenameReplaces
  <2>2. UNCHANGED <<failed, answer>> /\ pc'[r] = "saved" /\ pc[r] \in Critical
    BY <1>8 DEF Rename, Critical, TypeInv, JobsOK
  <2>3. FreshData'
    BY <1>3, <1>4, <2>2 DEF FreshData, Critical
  <2>4. \A q \in Requests : pc'[q] = "saved" => q = r
    BY <1>3, <1>4, <2>2 DEF Critical
  <2>5. SavedStays'
    BY <1>1, <2>1, <2>2, <2>4 DEF StoreInv, SavedStays
  <2> QED
    BY <2>3, <2>5 DEF StoreInv
<1>9. CASE WriteFails(r)
  <2>1. UNCHANGED <<file, tmp, data, answer>> /\ failed' = failed \cup {r} /\ pc'[r] = "saved"
    BY <1>9 DEF WriteFails, TypeInv, JobsOK
  <2>2. \A q \in Requests : Merged(q)' = Merged(q) /\ (Saved(q)' <=> Saved(q))
    BY <1>1, <2>1, SameFiles
  <2> QED
    BY <1>1, <1>2, <1>3, <2>1, <2>2 DEF StoreInv, FreshData, SavedStays
<1>10. CASE Reply(r)
  <2>1. UNCHANGED <<file, tmp, data, failed>>
    BY <1>10 DEF Reply
  <2>2. pc[r] = "saved" /\ pc'[r] = "done"
    BY <1>10 DEF Reply, Leave, LeaveWith, TypeInv, JobsOK
  <2>3. \A q \in Requests : Merged(q)' = Merged(q) /\ (Saved(q)' <=> Saved(q))
    BY <1>1, <2>1, SameFiles
  <2> QED
    BY <1>1, <1>2, <1>3, <2>1, <2>2, <2>3 DEF StoreInv, FreshData, SavedStays
<1> QED
  BY <1>5, <1>6, <1>7, <1>8, <1>9, <1>10 DEF StoreStep

------------------------------------------------------------------------------
(* The platform, and the whole. *)

LEMMA GatewayKeepsInv ==
    ASSUME TypeInv, RootsInv, StoreInv, Regrant \/ Hang, UNCHANGED storeVars
    PROVE  TypeInv' /\ RootsInv' /\ StoreInv'
<1>1. /\ UNCHANGED <<base, ask, live, reqUid, frame, pc, answer, found, reached, told>>
      /\ UNCHANGED <<file, tmp, mu, data, failed>>
  BY DEF Regrant, Hang, threads, storeVars
<1>2. WorldOK'
  <2>1. events' \in 0 .. MaxEvents
    BY RootsAssumption DEF Regrant, Hang, Event, TypeInv, WorldOK
  <2>2. grant' \in Grants /\ hung' \in BOOLEAN /\ UNCHANGED auth
    BY DEF Regrant, Hang, TypeInv, WorldOK
  <2> QED
    BY <1>1, <2>1, <2>2 DEF TypeInv, WorldOK
<1>3. \A q \in Requests : Uid(q)' = Uid(q) /\ User(q)' = User(q) /\ Merged(q)' = Merged(q)
                          /\ (Saved(q)' <=> Saved(q))
  BY <1>1, SameFiles DEF Uid
<1>4. JobsOK' /\ FoldersOK' /\ MutexOK' /\ FilesOK' /\ AskFits'
  BY <1>1, <1>3 DEF TypeInv, JobsOK, FoldersOK, MutexOK, FilesOK, AskFits
<1>5. RootsInv'
  BY <1>1, <1>3 DEF RootsInv, SlotIsTold, OnlyOwnRoots
<1>6. StoreInv'
  BY <1>1, <1>3 DEF StoreInv, FreshData, SavedStays
<1> QED
  BY <1>2, <1>4, <1>5, <1>6 DEF TypeInv

LEMMA RestartKeepsInv ==
    ASSUME TypeInv, RootsInv, StoreInv, RestartService
    PROVE  TypeInv' /\ RootsInv' /\ StoreInv'
<1> USE DEF RestartService, Restart
<1>1. UNCHANGED <<ask, answer, file, tmp, data, failed>>
  OBVIOUS
<1>2. \A q \in Requests : User(q)' = User(q) /\ Merged(q)' = Merged(q) /\ (Saved(q)' <=> Saved(q))
  BY <1>1, SameFiles
<1>3. \A q \in Requests : pc'[q] \in {"new", "done"} /\ (pc'[q] = "new" <=> pc[q] = "new")
  BY DEF TypeInv, JobsOK
<1>4. WorldOK'
  <2>1. events' \in 0 .. MaxEvents
    BY RootsAssumption DEF Event, TypeInv, WorldOK
  <2>2. base' \in Configs /\ UNCHANGED <<grant, hung, auth, ask>>
    OBVIOUS
  <2> QED
    BY <2>1, <2>2 DEF TypeInv, WorldOK
<1>5. JobsOK'
  BY <1>3 DEF TypeInv, JobsOK, Stages
<1>6. FoldersOK'
  BY EmptySeq DEF FoldersOK
<1>7. MutexOK'
  BY <1>3, RootsAssumption DEF MutexOK, Critical
<1>8. FilesOK'
  BY DEF TypeInv, FilesOK
<1>9. AskFits'
  BY <1>1, <1>2, <1>3 DEF TypeInv, JobsOK, AskFits, HomeStages
<1>10. RootsInv'
  BY DEF RootsInv, SlotIsTold, OnlyOwnRoots
<1>11. StoreInv'
  BY <1>1, <1>2, <1>3 DEF StoreInv, FreshData, SavedStays
<1> QED
  BY <1>4, <1>5, <1>6, <1>7, <1>8, <1>9, <1>10, <1>11 DEF TypeInv

LEMMA StutterKeepsInv ==
    ASSUME TypeInv, RootsInv, StoreInv, UNCHANGED vars
    PROVE  TypeInv' /\ RootsInv' /\ StoreInv'
<1> USE DEF vars, rootsVars, world, threads, storeVars
<1>1. \A q \in Requests : Uid(q)' = Uid(q) /\ User(q)' = User(q) /\ Merged(q)' = Merged(q)
                          /\ (Saved(q)' <=> Saved(q))
  BY SameFiles DEF Uid
<1>2. TypeInv'
  BY <1>1 DEF TypeInv, WorldOK, JobsOK, FoldersOK, MutexOK, FilesOK, AskFits
<1>3. RootsInv'
  BY <1>1 DEF RootsInv, SlotIsTold, OnlyOwnRoots
<1>4. StoreInv'
  BY <1>1 DEF StoreInv, FreshData, SavedStays
<1> QED
  BY <1>2, <1>3, <1>4

LEMMA NextKeepsInv ==
    TypeInv /\ RootsInv /\ StoreInv /\ [Next]_vars => TypeInv' /\ RootsInv' /\ StoreInv'
<1> SUFFICES ASSUME TypeInv, RootsInv, StoreInv, [Next]_vars
             PROVE  TypeInv' /\ RootsInv' /\ StoreInv'
  OBVIOUS
<1>1. ASSUME NEW r \in Requests, RootsStep(r), UNCHANGED storeVars
      PROVE  TypeInv' /\ RootsInv' /\ StoreInv'
  BY <1>1, RootsStepKeepsTypes, RootsStepKeepsFolders, RootsStepKeepsStore
<1>2. ASSUME NEW r \in Requests, StoreStep(r)
      PROVE  TypeInv' /\ RootsInv' /\ StoreInv'
  <2>1. UNCHANGED <<base, ask, live, reached, told>>
    BY <1>2, StoreStepIsJob DEF world
  <2>2. RootsInv'
    BY <2>1 DEF RootsInv, SlotIsTold, OnlyOwnRoots, User
  <2> QED
    BY <1>2, <2>2, StoreStepKeepsTypes, StoreStepKeepsStore
<1>3. CASE (Regrant \/ Hang) /\ UNCHANGED storeVars
  BY <1>3, GatewayKeepsInv
<1>4. CASE RestartService
  BY <1>4, RestartKeepsInv
<1>5. CASE UNCHANGED vars
  BY <1>5, StutterKeepsInv
<1> QED
  BY <1>1, <1>2, <1>3, <1>4, <1>5 DEF Next, Serve

LEMMA InitMakesInv ==
    ASSUME NEW asks \in SUBSET [Requests -> Asks \cup {None}], Init(asks)
    PROVE  TypeInv /\ RootsInv /\ StoreInv
<1> USE DEF Init, RootsInit
<1>1. NoRecords \in Records
  BY DEF NoRecords, Records
<1>2. \A q \in Requests : pc[q] \in {"new", "done"} /\ (pc[q] = "new" => ask[q] # None)
  OBVIOUS
<1>3. WorldOK /\ FilesOK
  BY <1>1, RootsAssumption DEF WorldOK, FilesOK
<1>4. JobsOK
  BY <1>2 DEF JobsOK, Stages
<1>5. FoldersOK
  BY EmptySeq DEF FoldersOK
<1>6. MutexOK
  BY <1>2, RootsAssumption DEF MutexOK, Critical
<1>7. AskFits
  BY <1>2, MarkersAssumption DEF AskFits, HomeStages, Answers
<1>8. RootsInv
  BY DEF RootsInv, SlotIsTold, OnlyOwnRoots
<1>9. StoreInv
  BY <1>2, MarkersAssumption DEF StoreInv, FreshData, SavedStays, Answers
<1> QED
  BY <1>3, <1>4, <1>5, <1>6, <1>7, <1>8, <1>9 DEF TypeInv

THEOREM ShelfInvariance ==
    ASSUME NEW asks \in SUBSET [Requests -> Asks \cup {None}]
    PROVE  Spec(asks) => [](TypeInv /\ RootsInv /\ StoreInv)
<1>1. Init(asks) => TypeInv /\ RootsInv /\ StoreInv
  BY InitMakesInv
<1> QED
  BY <1>1, NextKeepsInv, PTL DEF Spec

------------------------------------------------------------------------------
(* The variables of config.rs, main.rs and progress.rs keep their types: a *)
(* running job has a thread of its own that carries its user's name, and   *)
(* the mutex belongs to whoever is between lock() and its end.             *)
THEOREM ShelfTypeCorrect ==
    ASSUME NEW asks \in SUBSET [Requests -> Asks \cup {None}]
    PROVE  Spec(asks) => []ShelfTypeOK
BY ShelfInvariance, TypeInvIsType, PTL

(* With one slot of granted folders for all users, replaced at any moment, *)
(* and names left over on threads, a request reaches only what lies under  *)
(* the configured folders or those its own user was told.                  *)
THEOREM NobodyElsesFolders ==
    ASSUME NEW asks \in SUBSET [Requests -> Asks \cup {None}]
    PROVE  Spec(asks) => []OnlyOwnRoots
<1>1. RootsInv => OnlyOwnRoots
  BY DEF RootsInv
<1> QED
  BY ShelfInvariance, <1>1, PTL

(* A post that was answered is in its user's file for good, unless its own *)
(* write failed.  Whole files are assumed to be readable (Load).           *)
THEOREM AnsweredPostsStay ==
    ASSUME NEW asks \in SUBSET [Requests -> Asks \cup {None}]
    PROVE  Spec(asks) => []AckedUnlessFailed
<1>1. TypeInv /\ StoreInv => AckedUnlessFailed
  <2> SUFFICES ASSUME TypeInv, StoreInv,
                      NEW r \in Requests, ask[r] # None, ask[r].kind = "post", answer[r] = "ok"
               PROVE  \/ r \in failed
                      \/ LET rec == Load(file[User(r)])[ask[r].place] IN
                         rec # NoEntry /\ r \in rec.saves
    BY DEF AckedUnlessFailed
  <2>1. User(r) \in Uids
    BY UserOfAsk DEF TypeInv
  <2>2. Load(file[User(r)]) = file[User(r)]
    BY <2>1, MarkersAssumption DEF Load, TypeInv, FilesOK, Records
  <2> QED
    BY <2>2 DEF StoreInv, SavedStays, Saved
<1> QED
  BY ShelfInvariance, <1>1, PTL

(* What AtomicProgress sees of the files. *)
Seen == [k \in Keys |-> Load(file[k[1]])[k[2]]]
Books == [r \in Requests |-> Key(r)]
Pages == [r \in Requests |-> IF ask[r] = None THEN 0 ELSE ask[r].page]

LEMMA InitIsAbstract ==
    ASSUME NEW asks \in SUBSET [Requests -> Asks \cup {None}], Init(asks)
    PROVE  A!Init
<1>1. ask \in [Requests -> Asks \cup {None}] /\ file = [u \in Uids |-> NoRecords]
  BY DEF Init, RootsInit
<1>2. Seen = [k \in Keys |-> NoEntry]
  <2>1. NoRecords # Torn
    BY MarkersAssumption DEF NoRecords
  <2> QED
    BY <1>1, <2>1 DEF Seen, Keys, Load, NoRecords
<1>3. Books \in [Requests -> Keys]
  BY <1>1, ProgressAssumption DEF Books, Key, Keys, Asks, User, Uids
<1>4. Pages \in [Requests -> 0 .. MaxPage]
  BY <1>1, ProgressAssumption DEF Pages, Asks
<1> QED
  BY <1>2, <1>3, <1>4 DEF A!Init, Seen, Books, Pages

(* A rename is a save of the atomic map, every other step leaves it alone. *)
LEMMA StepIsAbstract ==
    TypeInv /\ StoreInv /\ [Next]_vars => [A!Next]_<<Seen, Books, Pages>>
<1> SUFFICES ASSUME TypeInv, StoreInv, [Next]_vars PROVE [A!Next]_<<Seen, Books, Pages>>
  OBVIOUS
<1>1. UNCHANGED ask => UNCHANGED <<Books, Pages>>
  BY DEF Books, Pages, Key, User
<1>2. UNCHANGED ask
  BY RootsStepIsJob, StoreStepIsJob
     DEF Next, Serve, world, Regrant, Hang, RestartService, Restart, vars, rootsVars
<1>3. UNCHANGED file => UNCHANGED Seen
  BY DEF Seen, Load
<1>4. ASSUME NEW r \in Requests, Rename(r) PROVE A!Save(r)
  <2> DEFINE u == User(r)
             p == ask[r].place
             new == A!Merge(file[u][p], r)
  <2>1. ask[r] # None /\ file' = [file EXCEPT ![u] = Merged(r)]
    BY <1>4, RenameReplaces
  <2>2. u \in Uids /\ p \in Places /\ Key(r) = <<u, p>> /\ Key(r) \in Keys
    BY <2>1, UserOfAsk DEF TypeInv, Key, Keys
  <2>3. \A v \in Uids : file[v] \in Records /\ Load(file[v]) = file[v]
    BY MarkersAssumption DEF Load, TypeInv, FilesOK, Records
  <2>4. Merged(r) \in Records /\ file' \in [Uids -> Records]
    BY <2>1, MergedKeepsSaves
  <2>5. \A v \in Uids : Load(file'[v]) = file'[v]
    BY <2>4, MarkersAssumption DEF Load, Records
  <2>6. Merged(r) = [file[u] EXCEPT ![p] = new]
    BY DEF Merged
  <2> HIDE DEF u, p, new
  <2>7. \A v \in Uids, q \in Places :
            file'[v][q] = IF v = u /\ q = p THEN new ELSE file[v][q]
    BY <2>1, <2>2, <2>3, <2>6 DEF TypeInv, FilesOK, Records
  <2>8. Seen = [k \in Keys |-> file[k[1]][k[2]]] /\ Seen' = [k \in Keys |-> file'[k[1]][k[2]]]
    BY <2>3, <2>5 DEF Seen, Keys
  <2>9. Seen' = [Seen EXCEPT ![Key(r)] = new]
    <3>1. ASSUME NEW k \in Keys
          PROVE  file'[k[1]][k[2]] = IF k = Key(r) THEN new ELSE file[k[1]][k[2]]
      <4>1. k[1] \in Uids /\ k[2] \in Places /\ (k = Key(r) <=> k[1] = u /\ k[2] = p)
        BY <2>2 DEF Keys
      <4> QED
        BY <2>7, <4>1
    <3> QED
      BY <2>2, <2>8, <3>1
  <2>10. new = A!Merge(Seen[Books[r]], r) /\ Books[r] = Key(r)
    BY <2>2, <2>8 DEF new, Books
  <2>11. Seen' = [Seen EXCEPT ![Books[r]] = A!Merge(Seen[Books[r]], r)]
    BY <2>9, <2>10
  <2>12. UNCHANGED <<Books, Pages>>
    BY <1>1, <1>2
  <2> QED
    BY <2>11, <2>12 DEF A!Save, Seen, Books, Pages
<1>5. (\A r \in Requests : ~Rename(r)) => UNCHANGED file
  BY DEF Next, Serve, StoreStep, ReadStore, ServeBook, Lock, Merge, StartWrite, FinishWrite,
         WriteFails, Reply, RestartService, vars, storeVars
<1> QED
  BY <1>1, <1>2, <1>3, <1>4, <1>5 DEF A!Next

(* save_one of progress.rs, for all users at once and with ignored errors  *)
(* of writing and restarts, implements the atomic map that its Go          *)
(* counterpart does.  Whole files are assumed to be readable (Load).       *)
THEOREM FilesRefineAtomicProgress ==
    ASSUME NEW asks \in SUBSET [Requests -> Asks \cup {None}]
    PROVE  Spec(asks) => StoreIsAtomic
<1>1. Init(asks) => A!Init
  BY InitIsAbstract
<1> QED
  BY ShelfInvariance, <1>1, StepIsAbstract, PTL DEF Spec, StoreIsAtomic, A!Spec, Seen, Books, Pages
=============================================================================
