--------------------------- MODULE SlotRefinement ---------------------------
(* The state of sched.go seen as a PrioritySlot: who has the slot of each  *)
(* book, and the line that its heap stands for.                            *)
EXTENDS DocSlot

CONSTANT Nobody

ASSUME NobodyAssumption == Nobody \notin Requests

Holder ==
    [b \in Books |->
        IF \E r \in Requests : book[r] = b /\ Owns(r)
        THEN CHOOSE r \in Requests : book[r] = b /\ Owns(r)
        ELSE Nobody]

(* The waiters in the order of waiterHeap.Less, each at the place that the *)
(* number of waiters before it gives.                                      *)
Line ==
    [b \in Books |->
        [i \in 1 .. Cardinality(waiting[b]) |->
            CHOOSE w \in waiting[b] :
                Cardinality({v \in waiting[b] : Before(v, w)}) = i - 1]]

Promise == INSTANCE PrioritySlot WITH
    holder <- Holder,
    line <- Line,
    urgency <- [r \in Requests |-> Clamped(pri[r])],
    abandoned <- cancelled

(* sched.go keeps the promise of a priority slot: at most one holder, no   *)
(* bypass of the line, first come first served among equals, and the slot  *)
(* goes to the best request that is not abandoned (sched.go:9).            *)
ImplementsPrioritySlot == Promise!Spec
=============================================================================
