----------------------------- MODULE MCDocCache ------------------------------
(* DocCache with a cache of one document, so that two books compete for it. *)
EXTENDS DocCache
=============================================================================
