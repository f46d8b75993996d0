------------------------------ MODULE MCDocSlot ------------------------------
(* DocSlot and its mapping to PrioritySlot, on four requests.              *)
EXTENDS SlotRefinement

(* -1 is clamped to 0 by acquire.                                          *)
MCPriorities == {-1, 0, 1}

(* Up to renaming of requests: two mixes of urgencies on one book, and   *)
(* two books of two requests each.                                         *)
MCInit ==
    /\ Init
    /\ \/ /\ \A r \in Requests : book[r] = "b1"
          /\ pri \in {<<-1, 0, 1, 1>>, <<0, 0, 0, 1>>}
       \/ book = <<"b1", "b1", "b2", "b2">> /\ pri = <<0, 1, -1, 0>>

MCSpec == MCInit /\ [][Next]_vars /\ \A r \in Requests : WF_vars(Step(r))
=============================================================================
