----------------------------- MODULE MCProgress ------------------------------
(* Progress with three saves of two books by any devices and one crash. *)
EXTENDS Progress
=============================================================================
