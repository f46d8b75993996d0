---------------------------- MODULE PrioritySlot ----------------------------
(***************************************************************************)
(* What a book's rendering slot promises, whatever structure implements    *)
(* it: one holder per book at a time, and a line in service order.  A      *)
(* request joins the line behind every request that is at least as urgent; *)
(* when the holder leaves, the slot passes to the first request of the     *)
(* line that its client has not abandoned.  A request gets the slot        *)
(* without standing in line only when the book has no holder.              *)
(***************************************************************************)
EXTENDS Integers, Sequences, SequencesExt

CONSTANTS
    Requests,    \* the page requests
    Books,       \* the books they render
    Nobody       \* holder of a free slot

VARIABLES
    holder,      \* holder[b]: the request that has b's slot, or Nobody
    line,        \* line[b]: the waiting requests of b in service order
    urgency,     \* urgency[r]: smaller is served earlier
    abandoned    \* requests whose client went away

slotVars == <<holder, line, urgency, abandoned>>

Init ==
    /\ holder = [b \in Books |-> Nobody]
    /\ line = [b \in Books |-> <<>>]
    /\ urgency \in [Requests -> Nat]
    /\ abandoned = {}

(* The first request of b's line that is still wanted, with what follows it. *)
FirstWanted(b, i) ==
    /\ i \in DOMAIN line[b]
    /\ line[b][i] \notin abandoned
    /\ \A j \in 1 .. i - 1 : line[b][j] \in abandoned

TakeFree(r, b) ==
    /\ holder[b] = Nobody
    /\ holder' = [holder EXCEPT ![b] = r]
    /\ UNCHANGED <<line, urgency, abandoned>>

Join(r, b) ==
    /\ holder[b] # Nobody
    /\ \E k \in 0 .. Len(line[b]) :
        /\ \A i \in 1 .. k : urgency[line[b][i]] <= urgency[r]
        /\ \A i \in k + 1 .. Len(line[b]) : urgency[line[b][i]] > urgency[r]
        /\ line' = [line EXCEPT ![b] = InsertAt(@, k + 1, r)]
    /\ UNCHANGED <<holder, urgency, abandoned>>

LeaveLine(r, b) ==
    /\ r \in abandoned
    /\ \E i \in DOMAIN line[b] :
        /\ line[b][i] = r
        /\ line' = [line EXCEPT ![b] = RemoveAt(@, i)]
    /\ UNCHANGED <<holder, urgency, abandoned>>

PassOn(b) ==
    /\ holder[b] # Nobody
    /\ \/ \E i \in 1 .. Len(line[b]) :
            /\ FirstWanted(b, i)
            /\ holder' = [holder EXCEPT ![b] = line[b][i]]
            /\ line' = [line EXCEPT ![b] = SubSeq(@, i + 1, Len(@))]
       \/ /\ ToSet(line[b]) \subseteq abandoned
          /\ holder' = [holder EXCEPT ![b] = Nobody]
          /\ line' = [line EXCEPT ![b] = <<>>]
    /\ UNCHANGED <<urgency, abandoned>>

Abandon(r) ==
    /\ abandoned' = abandoned \cup {r}
    /\ UNCHANGED <<holder, line, urgency>>

Next ==
    \/ \E r \in Requests, b \in Books :
        TakeFree(r, b) \/ Join(r, b) \/ LeaveLine(r, b)
    \/ \E b \in Books : PassOn(b)
    \/ \E r \in Requests : Abandon(r)

Spec == Init /\ [][Next]_slotVars
=============================================================================
