----------------------------- MODULE MCRustShelf ------------------------------
(***************************************************************************)
(* The roots and the progress store of the Rust service with three jobs on *)
(* two threads, in mixes of two users; and, in initial states of their own *)
(* with no requests, the pure parts of the service over small inputs.      *)
(***************************************************************************)
EXTENDS RustProgress, RustPure

CONSTANTS r1, r2, r3, u1, u2

Shelf == <<"shelf">>  One == <<"one">>  Two == <<"two">>  All == <<"all">>
Book == <<"shelf", "book">>
OnesBook == <<"one", "book">>

MCPlaces == {<<>>, Book, OnesBook}
MCConfigs == {<<Shelf>>, <<>>}
MCBracketed == {Two}
Granted(ones, twos) == (u1 :> ones) @@ (u2 :> twos) @@ (Shared :> <<All>>)
MCGrants == {Granted(<<One>>, <<Two>>), Granted(<<>>, <<Two, One>>)}

Ask(u, kind, place, page) == [user |-> u, kind |-> kind, place |-> place, page |-> page]
Mix(a, b, c) == (r1 :> a) @@ (r2 :> b) @@ (r3 :> c)

(* Mixes of requests, and the folders configured when they come. *)
Mixes == {
    <<Mix(Ask(u1, "home", <<>>, 0), Ask(u2, "home", <<>>, 0), Ask(u1, "dir", OnesBook, 0)), <<>> >>,
    <<Mix(Ask(u1, "home", <<>>, 0), Ask(u2, "book", OnesBook, 0), Ask(None, "home", <<>>, 0)), <<Shelf>> >>,
    <<Mix(Ask(u1, "post", Book, 1), Ask(u1, "post", Book, 0), Ask(u2, "post", Book, 1)), <<Shelf>> >>,
    <<Mix(Ask(u1, "home", <<>>, 0), Ask(u1, "post", OnesBook, 1), Ask(u1, "get", OnesBook, 0)), <<>> >>,
    <<Mix(Ask(u1, "post", Book, 1), Ask(u2, "recent", <<>>, 0), Ask(None, "post", Book, 1)), <<Shelf>> >>}

------------------------------------------------------------------------------
(* Inputs of the pure operators: two names and a directory; a map of one   *)
(* or two books to records; a page.                                        *)
Texts(chars, n) == UNION {[1 .. k -> chars] : k \in 0 .. n}

MCNames == Texts({45, 49, 66, 98}, 2) \cup Texts({49, 98}, 3)
         \cup {<<50>>, <<49, 50>>, <<50, 50>>, <<49, 49, 50>>, <<50, 49, 98>>}
Called(name, kind) == [name |-> name, kind |-> kind]
Dir(a, b) == <<Called(b, "pdf"), Called(<<46>> \o a, "folder"), Called(a, "pdf"),
               Called(a, "other"), Called(b, "folder"), Called(a \o b, "pdf")>>

Rec(name, page) == [page |-> page, name |-> name]
Label == <<"quote", "page", "quote", "colon", "0">>
Paths == Texts({"quote", "slash", "close"}, 1) \cup {Label, <<"slash", "quote">>}
Titles == Texts({"quote", "slash", "newline", "open", "close"}, 2) \cup {Label}
Map(path, title) == << <<path, Rec(title, "1")>>, <<<<"x">>, Rec(<<"slash">>, "0")>> >>

Boxes == {<<x[1], y[1], x[2], y[2]>> : x, y \in {<<0, 4>>, <<4, 8>>, <<6, 1>>, <<0, 9>>, <<5, 6>>}}
Scanned(w, h, k) == [w |-> w, h |-> h, ccitt |-> TRUE, parms |-> TRUE, k |-> k]
(* The last of each: a paper with fewer pixels than points, and a crop box *)
(* at its corner.                                                          *)
Pages == [media : {<<0, 0, 8, 6>>, <<8, 6, 0, 0>>, <<-1, 2, 5, 10>>, <<0, 0, 40, 30>>},
          crop : Boxes \cup {NoBox, <<38, 27, 40, 30>>}, rot : {0, 90, 180, -90},
          images : {{}, {Scanned(16, 12, FALSE), Scanned(8, 8, FALSE), Scanned(8, 6, FALSE)},
                    {Scanned(21, 28, FALSE), Scanned(42, 56, TRUE)}, {Scanned(21, 15, FALSE)},
                    {Scanned(8, 6, FALSE)}},
          dpi : {NoDpi, 0, 72}, fails : SUBSET {"scan", "region"}]

MCInputs ==
    {[kind |-> "order", a |-> a, b |-> b, dir |-> Dir(a, b)] : a \in MCNames, b \in MCNames}
    \cup [kind : {"text"}, map : {Map(path, title) : path \in Paths, title \in Titles}]
    \cup [kind : {"page"}, page : Pages] \cup {NoInput}

NoAsks == {[r \in Requests |-> None]}

MCInit ==
    /\ grant = Granted(<<One>>, <<Two>>)
    /\ \/ /\ \E m \in Mixes : Init({m[1]}) /\ base = m[2]
          /\ auth \/ (\E r \in Requests : ask[r].user = None)
          /\ given = NoInput
       \/ /\ Init(NoAsks) /\ base = <<>> /\ auth /\ ~hung
          /\ given \in Inputs \ {NoInput}

MCNext ==
    /\ UNCHANGED given
    /\ \/ given = NoInput /\ Next
       \/ given # NoInput /\ UNCHANGED vars

MCSpec == MCInit /\ [][MCNext]_<<vars, given>> /\ Fairness

=============================================================================
