--------------------------- MODULE AtomicProgress ----------------------------
(***************************************************************************)
(* What the progress store of one user promises: a map from books to       *)
(* records in which every accepted save is merged at one instant, touching *)
(* the record of its own book only, and out of which nothing disappears.   *)
(***************************************************************************)
EXTENDS Integers

CONSTANTS
    Posts,      \* the saves devices send
    Books,
    MaxPage,    \* pages are numbered 0 .. MaxPage, as in the reader
    NoEntry     \* the book has no record

VARIABLES store, book, page

(* "place" is the page that the record's frac and percent were measured    *)
(* on; "saves" are the posts merged into it.                               *)
Entry == [page : 0 .. MaxPage, place : 0 .. MaxPage, saves : SUBSET Posts]

MergeOneBased(prev, h) ==
    [page |-> page[h] + 1, place |-> page[h], saves |-> {h}]

(* goservice/progress.go saveProgressEntry and rustservice/src/progress.rs *)
(* save_one: page 0 does not replace a page, the fraction always is        *)
(* replaced, and so is the percent, which no reader posts as absent or 0.  *)
Merge(prev, h) ==
    LET was == IF prev = NoEntry THEN [page |-> 0, place |-> 0, saves |-> {}] ELSE prev IN
    [page  |-> IF page[h] # 0 \/ was.page = 0 THEN page[h] ELSE was.page,
     place |-> page[h],
     saves |-> was.saves \cup {h}]

Init ==
    /\ store = [b \in Books |-> NoEntry]
    /\ book \in [Posts -> Books]
    /\ page \in [Posts -> 0 .. MaxPage]

Save(h) ==
    /\ store' = [store EXCEPT ![book[h]] = Merge(@, h)]
    /\ UNCHANGED <<book, page>>

Next == \E h \in Posts : Save(h)

Spec == Init /\ [][Next]_<<store, book, page>>
=============================================================================
