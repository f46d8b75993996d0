----------------------------- MODULE MCRustPages ------------------------------
(* RustPages with three requests in two mixes: two pages of a book and one *)
(* of another, and a page and the facts of a book and a page of another.   *)
EXTENDS RustPages

CONSTANTS r1, r2, r3, b1, b2

Ask(b, k) == [book |-> b, sig |-> 0, kind |-> k]
Mixes == {<<Ask(b1, "page"), Ask(b1, "page"), Ask(b2, "page")>>,
          <<Ask(b1, "page"), Ask(b1, "meta"), Ask(b2, "page")>>}

MCInit == \E mix \in Mixes :
    Init /\ file[r1] = mix[1] /\ file[r2] = mix[2] /\ file[r3] = mix[3]
MCSpec == MCInit /\ [][Next]_vars /\ Fairness
=============================================================================
