------------------------------ MODULE RustRoots -------------------------------
(***************************************************************************)
(* rustservice: the folders a request may reach.  config.rs keeps what the *)
(* gateway of the platform granted (trimapi.rs) in one slot for all users, *)
(* refreshed when a user lists the home of the library (main.rs list_body) *)
(* and read, with the user's name in a thread-local, wherever a path is    *)
(* resolved (pathsafe.rs).  A request runs on a blocking thread.           *)
(*                                                                         *)
(* Folders and files exist; how old the slot is, is left open, so a user's *)
(* own slot may pass for young (two seconds) or not.                       *)
(***************************************************************************)
EXTENDS RustLibrary

Path == Seq(STRING)

CONSTANTS
    Requests, Threads, Users,
    Debug,        \* the uid of a request without headers
    Shared,       \* the gateway's list of folders shared with everybody
    Nobody,       \* REQ_UID is the empty string
    None,         \* no slot, no frame, no answer of the gateway, no header
    Bracketed,    \* folders with a ] in their path
    Configs,      \* the sequences of folders cmd/main may write to roots.txt
    Grants,       \* what the gateway may grant: to each user and to Shared, a sequence
    MaxEvents     \* changes of grants, hangs and restarts (bounds the runs)

ASSUME RootsAssumption ==
    /\ MaxEvents \in Nat
    /\ Debug \notin Users /\ Shared \notin Users /\ Nobody \notin Users \cup {Debug}
    /\ None \notin Requests /\ None \notin Users
    /\ None \notin [thread : Threads, prev : Users \cup {Debug, Nobody}]
    /\ Configs \subseteq Seq(Path)
    /\ \A g \in Grants : g \in [Users \cup {Shared} -> Seq(Path)]

VARIABLES
    base,      \* the folders of the environment and roots.txt
    grant,     \* what the gateway grants
    hung,      \* the gateway accepts connections but does not answer
    auth,      \* PDFR_REQUIRE_AUTH
    ask,       \* what each request asks: user, kind, place, and page for a post
    live,      \* live_cache: whose folders, and which
    reqUid,    \* REQ_UID of each thread
    frame,     \* thread of each request and what with_request_uid will restore
    pc, answer,
    found,     \* folders the gateway has told to each request
    reached,   \* folders and files each request has listed or opened
    told,      \* folders each user was told since the process started (history)
    events

world == <<base, grant, hung, auth, ask>>
threads == <<reqUid, frame>>
rootsVars == <<world, live, threads, pc, answer, found, reached, told, events>>

Kinds == {"home", "dir", "book", "get", "recent", "post"}
Goto(r, label) == pc' = [pc EXCEPT ![r] = label]

(* get_user *)
User(r) == IF ask[r].user = None THEN Debug ELSE ask[r].user
Forbidden(r) == auth /\ ask[r].user = None

RootsInit(asks) ==
    /\ base \in Configs /\ grant \in Grants /\ auth \in BOOLEAN /\ ask \in asks
    /\ hung \in BOOLEAN /\ live = None
    /\ reqUid = [t \in Threads |-> Nobody]
    /\ frame = [r \in Requests |-> None]
    /\ pc = [r \in Requests |-> IF ask[r] = None THEN "done" ELSE "new"]
    /\ answer = [r \in Requests |-> None]
    /\ found = [r \in Requests |-> <<>>]
    /\ reached = [r \in Requests |-> {}]
    /\ told = [u \in Users |-> {}]
    /\ events = 0

------------------------------------------------------------------------------
(* main.rs: a handler gives its job to a thread. *)

Refuse(r) ==
    /\ pc[r] = "new" /\ Forbidden(r)
    /\ answer' = [answer EXCEPT ![r] = "forbidden"]
    /\ Goto(r, "done")
    /\ UNCHANGED <<world, live, threads, found, reached, told, events>>

FirstStep(r) ==
    CASE ask[r].kind = "home" -> "check"
      [] ask[r].kind = "recent" -> "read"
      [] OTHER -> "resolve"

(* with_request_uid *)
Start(r, t) ==
    /\ pc[r] = "new" /\ ~Forbidden(r)
    /\ \A q \in Requests : frame[q] # None => frame[q].thread # t
    /\ frame' = [frame EXCEPT ![r] = [thread |-> t, prev |-> reqUid[t]]]
    /\ reqUid' = [reqUid EXCEPT ![t] = User(r)]
    /\ Goto(r, FirstStep(r))
    /\ UNCHANGED <<world, live, answer, found, reached, told, events>>

LeaveWith(r, what, uid) ==
    /\ reqUid' = [reqUid EXCEPT ![frame[r].thread] = uid]
    /\ frame' = [frame EXCEPT ![r] = None]
    /\ answer' = [answer EXCEPT ![r] = what]
    /\ Goto(r, "done")

Leave(r, what) == LeaveWith(r, what, frame[r].prev)

(* A panic of the job ends it without restoring the thread-local. *)
LeavePanicking(r) == LeaveWith(r, "failed", reqUid[frame[r].thread])

Uid(r) == reqUid[frame[r].thread]

------------------------------------------------------------------------------
(* config.rs *)

CollectRootsOfAll(uid) == base \o IF live # None THEN live.paths ELSE <<>>

(* A folder that comes twice counts once: the first place decides the      *)
(* order, and Range the number.                                            *)
CollectRoots(uid) ==
    base \o IF uid # Nobody /\ live # None /\ live.key = uid THEN live.paths ELSE <<>>

(* refresh_live_roots, for the home of the library only. *)
CheckLive(r) ==
    /\ pc[r] = "check"
    /\ \/ /\ Uid(r) \in {Nobody, Debug} \/ (live # None /\ live.key = Uid(r))
          /\ Goto(r, "home")
       \/ /\ Uid(r) \notin {Nobody, Debug}
          /\ Goto(r, "shared")
    /\ UNCHANGED <<world, live, threads, answer, found, reached, told, events>>

(* trimapi.rs json_string_array: the first ] ends the array, also one in a *)
(* folder's name; that folder and those after it are lost.                 *)
JsonStringArray(paths) ==
    LET cut == SelectInSeq(paths, LAMBDA d : d \in Bracketed) IN
    IF cut = 0 THEN paths ELSE SubSeq(paths, 1, cut - 1)

(* rpc with connect_timeout: an answer, or nothing within RPC_TIMEOUT.  A  *)
(* limit of each read, not of the call: that a gateway which sends a few   *)
(* bytes now and then comes to an end is an assumption.                    *)
RepliesUntimed(who) == (IF hung THEN {} ELSE {None, JsonStringArray(grant[who])})
Replies(who) == {None} \cup (IF hung THEN {} ELSE {JsonStringArray(grant[who])})

(* query_accessible_folders: the shared folders if they can be had, *)
AskShared(r) ==
    /\ pc[r] = "shared"
    /\ \E reply \in Replies(Shared) :
          found' = [found EXCEPT ![r] = IF reply = None THEN <<>> ELSE reply]
    /\ Goto(r, "user")
    /\ UNCHANGED <<world, live, threads, answer, reached, told, events>>

(* and the user's own, without which the old slot stays. *)
AskUser(r) ==
    /\ pc[r] = "user"
    /\ \E reply \in Replies(Uid(r)) :
          IF reply = None THEN Goto(r, "home") /\ UNCHANGED found
          ELSE Goto(r, "install") /\ found' = [found EXCEPT ![r] = @ \o reply]
    /\ UNCHANGED <<world, live, threads, answer, reached, told, events>>

Install(r) ==
    /\ pc[r] = "install"
    /\ live' = [key |-> Uid(r), paths |-> found[r]]
    /\ told' = [told EXCEPT ![User(r)] = @ \cup Range(found[r])]
    /\ Goto(r, "home")
    /\ UNCHANGED <<world, threads, answer, found, reached, events>>

------------------------------------------------------------------------------
(* main.rs list_body: one root is listed itself, several are the listing,  *)
(* and then the roots are collected a second time (roots_as_entries).      *)

ListHome(r) ==
    LET roots == CollectRoots(Uid(r)) IN
    /\ pc[r] = "home"
    /\ IF Cardinality(Range(roots)) = 1
       THEN reached' = [reached EXCEPT ![r] = {roots[1]}] /\ Goto(r, "crumbs")
       ELSE UNCHANGED reached /\ Goto(r, "entries")
    /\ UNCHANGED <<world, live, threads, answer, found, told, events>>

RootsAsEntries(r) ==
    /\ pc[r] = "entries"
    /\ reached' = [reached EXCEPT ![r] = Range(CollectRoots(Uid(r)))]
    /\ Goto(r, "read")
    /\ UNCHANGED <<world, live, threads, answer, found, told, events>>

(* library.rs breadcrumb, after list_dir: root_of, and then rel_segments,   *)
(* which collects the roots once more.                                     *)
CrumbRoot(r) ==
    /\ pc[r] = "crumbs"
    /\ \E p \in reached[r] :
          LET root == RootOf(CollectRoots(Uid(r)), p) IN
          IF root = <<>> THEN Goto(r, "read") /\ UNCHANGED reached
          ELSE Goto(r, "segments") /\ reached' = [reached EXCEPT ![r] = @ \cup {root}]
    /\ UNCHANGED <<world, live, threads, answer, found, told, events>>

CrumbSegments(r) ==
    /\ pc[r] = "segments"
    /\ \E root, p \in reached[r] :
          /\ \A q \in reached[r] : IsPrefix(root, q) /\ IsPrefix(q, p)
          /\ reached' = [reached EXCEPT ![r] =
                @ \cup Breadcrumb(root, RelSegments(CollectRoots(Uid(r)), p))]
    /\ Goto(r, "read")
    /\ UNCHANGED <<world, live, threads, answer, found, told, events>>

(* resolve_in_roots, and where its callers go on. *)
Resolve(r) ==
    /\ pc[r] = "resolve"
    /\ IF Inside(CollectRoots(Uid(r)), ask[r].place)
       THEN /\ reached' = [reached EXCEPT ![r] = {ask[r].place}]
            /\ \/ ask[r].kind = "dir" /\ Goto(r, "crumbs")
               \/ ask[r].kind = "get" /\ Goto(r, "read")
               \/ ask[r].kind = "post" /\ Goto(r, "lock")
               \/ ask[r].kind = "book" /\ Goto(r, "book")
            /\ UNCHANGED <<threads, answer>>
       ELSE Leave(r, "not found") /\ UNCHANGED reached
    /\ UNCHANGED <<world, live, found, told, events>>

RootsStep(r) ==
    \/ Refuse(r) \/ (\E t \in Threads : Start(r, t))
    \/ CheckLive(r) \/ AskShared(r) \/ AskUser(r) \/ Install(r)
    \/ ListHome(r) \/ RootsAsEntries(r) \/ CrumbRoot(r) \/ CrumbSegments(r) \/ Resolve(r)

------------------------------------------------------------------------------
(* The platform. *)

Event == events < MaxEvents /\ events' = events + 1

Regrant ==
    /\ Event
    /\ grant' \in Grants \ {grant}
    /\ UNCHANGED <<base, hung, auth, ask, live, threads, pc, answer, found, reached, told>>

Hang ==
    /\ Event
    /\ hung' = ~hung
    /\ UNCHANGED <<base, grant, auth, ask, live, threads, pc, answer, found, reached, told>>

(* cmd/config_callback stops the service, writes roots.txt and starts it   *)
(* again; a crash is a restart with the same folders.                      *)
Restart ==
    /\ Event
    /\ base' \in Configs
    /\ live' = None
    /\ reqUid' = [t \in Threads |-> Nobody]
    /\ frame' = [r \in Requests |-> None]
    /\ pc' = [r \in Requests |-> IF pc[r] = "new" THEN "new" ELSE "done"]
    /\ found' = [r \in Requests |-> <<>>]
    /\ reached' = [r \in Requests |-> {}]
    /\ told' = [u \in Users |-> {}]
    /\ UNCHANGED <<grant, hung, auth, ask, answer>>

------------------------------------------------------------------------------
(* What a request lists or opens lies under a folder of the configuration  *)
(* or one the gateway told to the request's own user: never under one told *)
(* to another user who shares the slot, nor under one left over in the     *)
(* thread-local of a thread whose job panicked, and the crumbs of a        *)
(* listing lead no higher than its root.                                   *)
OnlyOwnRoots ==
    \A r \in Requests : \A p \in reached[r] :
        \E d \in Range(base) \cup (IF User(r) \in Users THEN told[User(r)] ELSE {}) :
            IsPrefix(d, p)

(* What the comment on refresh_live_roots says, that a successful query is *)
(* merged into the cache: a folder a user was told stays reachable to that *)
(* user for as long as the gateway grants it and the process runs.         *)
GrantedStays ==
    \A u \in Users :
        told[u] \cap (Range(grant[u]) \cup Range(grant[Shared])) \subseteq Range(CollectRoots(u))
=============================================================================
