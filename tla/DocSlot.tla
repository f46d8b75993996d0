------------------------------- MODULE DocSlot -------------------------------
(***************************************************************************)
(* goservice/internal/pdfpipe/sched.go: the per-book slot that serialises  *)
(* rendering.  Every request is one call of docSlot.acquire followed, when *)
(* it succeeds, by one call of docSlot.release; its context may be         *)
(* cancelled at any moment.  Critical sections of docSlot.mu are one       *)
(* action.  slotTable.get creates a book's slot on first use, in the state *)
(* Init gives it.  A request's book and priority are chosen in Init.       *)
(***************************************************************************)
EXTENDS Integers, FiniteSets

CONSTANTS
    Requests,    \* acquire calls
    Books,       \* paths of the slot table
    Priorities   \* what callers pass as pri, before the clamp

ASSUME PrioritiesAssumption == Priorities \subseteq Int

VARIABLES
    book, pri,   \* the arguments of each call
    active,      \* docSlot.active
    seq,         \* docSlot.seq
    waiting,     \* docSlot.heap, as a set
    ticket,      \* slotWaiter.seq
    granted,     \* requests whose slotWaiter.ch is closed
    cancelled,   \* requests whose ctx.Err() is not nil
    pc           \* where the call is

vars == <<book, pri, active, seq, waiting, ticket, granted, cancelled, pc>>

(* "took": owns the slot, ctx not yet checked.  "queued": in the select.   *)
(* "leaving": owns the slot and is about to call release on an error path. *)
Stages == {"idle", "took", "queued", "holding", "leaving", "done"}

(* One type invariant for the state of sched.go. *)
TypeOK ==
    /\ book \in [Requests -> Books]
    /\ pri \in [Requests -> Priorities]
    /\ active \in [Books -> BOOLEAN]
    /\ seq \in [Books -> Nat]
    /\ waiting \in [Books -> SUBSET Requests]
    /\ ticket \in [Requests -> Nat]
    /\ granted \subseteq Requests
    /\ cancelled \subseteq Requests
    /\ pc \in [Requests -> Stages]

Init ==
    /\ book \in [Requests -> Books]
    /\ pri \in [Requests -> Priorities]
    /\ active = [b \in Books |-> FALSE]
    /\ seq = [b \in Books |-> 0]
    /\ waiting = [b \in Books |-> {}]
    /\ ticket = [r \in Requests |-> 0]
    /\ granted = {}
    /\ cancelled = {}
    /\ pc = [r \in Requests |-> "idle"]

------------------------------------------------------------------------------
(* The order of the heap. *)

Clamped(p) == IF p < 0 THEN 0 ELSE p

Before(v, w) ==
    \/ Clamped(pri[v]) < Clamped(pri[w])
    \/ Clamped(pri[v]) = Clamped(pri[w]) /\ ticket[v] < ticket[w]

Live(b) == {w \in waiting[b] : w \notin cancelled}

------------------------------------------------------------------------------
(* docSlot.acquire *)

TakeSlotForgetful(r) ==
    /\ pc[r] = "idle"
    /\ ~active[book[r]]
    /\ pc' = [pc EXCEPT ![r] = "took"]
    /\ UNCHANGED <<book, pri, active, seq, waiting, ticket, granted, cancelled>>

TakeSlot(r) ==
    /\ pc[r] = "idle"
    /\ ~active[book[r]]
    /\ active' = [active EXCEPT ![book[r]] = TRUE]
    /\ pc' = [pc EXCEPT ![r] = "took"]
    /\ UNCHANGED <<book, pri, seq, waiting, ticket, granted, cancelled>>

EnqueueCountingDown(r) ==
    LET b == book[r] IN
    /\ pc[r] = "idle"
    /\ active[b]
    /\ seq' = [seq EXCEPT ![b] = @ - 1]
    /\ ticket' = [ticket EXCEPT ![r] = seq[b] - 1]
    /\ waiting' = [waiting EXCEPT ![b] = @ \cup {r}]
    /\ pc' = [pc EXCEPT ![r] = "queued"]
    /\ UNCHANGED <<book, pri, active, granted, cancelled>>

Enqueue(r) ==
    LET b == book[r] IN
    /\ pc[r] = "idle"
    /\ active[b]
    /\ seq' = [seq EXCEPT ![b] = @ + 1]
    /\ ticket' = [ticket EXCEPT ![r] = seq[b] + 1]
    /\ waiting' = [waiting EXCEPT ![b] = @ \cup {r}]
    /\ pc' = [pc EXCEPT ![r] = "queued"]
    /\ UNCHANGED <<book, pri, active, granted, cancelled>>

(* The select chooses <-w.ch. *)
Wake(r) ==
    /\ pc[r] = "queued"
    /\ r \in granted
    /\ pc' = [pc EXCEPT ![r] = "took"]
    /\ UNCHANGED <<book, pri, active, seq, waiting, ticket, granted, cancelled>>

(* The ctx.Err() test that follows both ways of getting the slot. *)
CheckContext(r) ==
    /\ pc[r] = "took"
    /\ pc' = [pc EXCEPT ![r] = IF r \in cancelled THEN "leaving" ELSE "holding"]
    /\ UNCHANGED <<book, pri, active, seq, waiting, ticket, granted, cancelled>>

(* The select chooses <-ctx.Done(): leave the heap and return; a slot that *)
(* was granted in the meantime is given back.                              *)
WithdrawIgnoringGrant(r) ==
    /\ pc[r] = "queued"
    /\ r \in cancelled
    /\ waiting' = [waiting EXCEPT ![book[r]] = @ \ {r}]
    /\ pc' = [pc EXCEPT ![r] = "done"]
    /\ UNCHANGED <<book, pri, active, seq, ticket, granted, cancelled>>

Withdraw(r) ==
    /\ pc[r] = "queued"
    /\ r \in cancelled
    /\ waiting' = [waiting EXCEPT ![book[r]] = @ \ {r}]
    /\ pc' = [pc EXCEPT ![r] = IF r \in granted THEN "leaving" ELSE "done"]
    /\ UNCHANGED <<book, pri, active, seq, ticket, granted, cancelled>>

------------------------------------------------------------------------------
(* docSlot.release *)

(* Pop down to the best waiter whose client is still there and grant it. *)
HandOverNoSkip(r) ==
    LET b == book[r] IN
    \E w \in waiting[b] :
        /\ \A v \in waiting[b] \ {w} : Before(w, v)
        /\ waiting' = [waiting EXCEPT ![b] = {v \in @ : Before(w, v)}]
        /\ granted' = granted \cup {w}
        /\ UNCHANGED active

HandOver(r) ==
    LET b == book[r] IN
    \E w \in Live(b) :
        /\ \A v \in Live(b) \ {w} : Before(w, v)
        /\ waiting' = [waiting EXCEPT ![b] = {v \in @ : Before(w, v)}]
        /\ granted' = granted \cup {w}
        /\ UNCHANGED active

(* Nobody is left to serve: the heap is drained and the slot is free. *)
FreeWithoutLooking(r) ==
    /\ active' = [active EXCEPT ![book[r]] = FALSE]
    /\ UNCHANGED <<waiting, granted>>

Free(r) ==
    /\ Live(book[r]) = {}
    /\ waiting' = [waiting EXCEPT ![book[r]] = {}]
    /\ active' = [active EXCEPT ![book[r]] = FALSE]
    /\ UNCHANGED granted

Release(r) ==
    /\ pc[r] \in {"holding", "leaving"}
    /\ HandOver(r) \/ Free(r)
    /\ pc' = [pc EXCEPT ![r] = "done"]
    /\ UNCHANGED <<book, pri, seq, ticket, cancelled>>

------------------------------------------------------------------------------
(* The client goes away: before the call, during it or, when the work that *)
(* needed the slot is not all there is to do, after it.                    *)
Cancel(r) ==
    /\ r \notin cancelled
    /\ cancelled' = cancelled \cup {r}
    /\ UNCHANGED <<book, pri, active, seq, waiting, ticket, granted, pc>>

Terminating ==
    /\ \A r \in Requests : pc[r] = "done"
    /\ UNCHANGED vars

Step(r) ==
    \/ TakeSlot(r) \/ Enqueue(r) \/ Wake(r) \/ CheckContext(r)
    \/ Withdraw(r) \/ Release(r)

Next == (\E r \in Requests : Step(r) \/ Cancel(r)) \/ Terminating

Spec == Init /\ [][Next]_vars

(* Goroutines run on, and a holder's rendering ends (PDFium returns).      *)
FairSpec == Spec /\ \A r \in Requests : WF_vars(Step(r))

------------------------------------------------------------------------------
(* Who has a book's slot: the calls between taking or being granted it and *)
(* release.                                                                *)
Owns(r) ==
    \/ pc[r] \in {"took", "holding", "leaving"}
    \/ pc[r] = "queued" /\ r \in granted

(* Two requests never render the same book at the same time (the comment   *)
(* that opens sched.go), however grants, cancellations and releases        *)
(* interleave.                                                             *)
MutualExclusion ==
    \A r, s \in Requests :
        pc[r] = "holding" /\ pc[s] = "holding" /\ book[r] = book[s] => r = s

(* The slot is never lost and never doubled: it is marked active exactly   *)
(* while one call owns it, so whoever waits has somebody to wait for.      *)
SlotAccounted ==
    \A b \in Books :
        /\ active[b] <=> \E r \in Requests : book[r] = b /\ Owns(r)
        /\ \A r, s \in Requests :
            book[r] = b /\ book[s] = b /\ Owns(r) /\ Owns(s) => r = s

(* A request still wanted by its client that sleeps in the select is in    *)
(* the heap of an active slot or already granted: release never pops one   *)
(* without waking it.                                                      *)
NoStrandedWaiter ==
    \A r \in Requests :
        pc[r] = "queued" /\ r \notin cancelled =>
            r \in granted \/ (r \in waiting[book[r]] /\ active[book[r]])

(* A request whose client stays gets the slot, also when every other       *)
(* request of the book is cancelled at the worst moment.                   *)
WantedRequestServed ==
    \A r \in Requests :
        (pc[r] = "queued") ~> (pc[r] = "holding" \/ r \in cancelled)
=============================================================================
