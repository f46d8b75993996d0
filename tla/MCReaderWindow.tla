--------------------------- MODULE MCReaderWindow ----------------------------
(* ReaderWindow on a book of a few pages, opened at its very beginning. *)
EXTENDS ReaderWindow

MCInit == Init /\ center = 0 /\ ~scrolled
MCSpec == MCInit /\ [][Next]_vars /\ Fairness
=============================================================================
