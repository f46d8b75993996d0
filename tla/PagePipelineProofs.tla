-------------------------- MODULE PagePipelineProofs -------------------------
(* Theorems about the slots of DocSlot, for any sets of requests, books    *)
(* and priorities, and about PagePipeline on top of them, for any page     *)
(* requests and Meta calls, any number of permits, and any moments at      *)
(* which clients leave.                                                    *)
EXTENDS PagePipeline, SlotRefinement, RankTheorems, FiniteSetTheorems

(* ---- sched.go: DocSlot ---- *)

(* Every waiter of a heap sleeps in its select, ungranted, on that book. *)
HeapSound ==
    /\ \A b \in Books : \A r \in waiting[b] :
        book[r] = b /\ pc[r] = "queued" /\ r \notin granted
    /\ \A b \in Books : ~active[b] => waiting[b] = {}
    /\ \A r \in granted : pc[r] # "idle"

(* SlotAccounted in two halves, which the prover handles one at a time. *)
ActiveIsOwned ==
    \A b \in Books : active[b] => \E r \in Requests : book[r] = b /\ Owns(r)

OwnedIsActive == \A r \in Requests : Owns(r) => active[book[r]]

OneOwner ==
    \A r, s \in Requests : book[r] = book[s] /\ Owns(r) /\ Owns(s) => r = s

(* The inductive invariant. *)
IInv ==
    /\ TypeOK
    /\ HeapSound
    /\ ActiveIsOwned
    /\ OwnedIsActive
    /\ OneOwner
    /\ NoStrandedWaiter

LEMMA InitIInv == Init => IInv
BY DEF Init, IInv, TypeOK, HeapSound, ActiveIsOwned, OwnedIsActive, OneOwner,
       NoStrandedWaiter, Owns, Stages

(* Each action of a request preserves the invariant. *)
LEMMA TakeSlotIInv ==
    ASSUME IInv, NEW r \in Requests, TakeSlot(r)
    PROVE  IInv'
<1> USE DEF TakeSlot, IInv
<1>1. TypeOK'
  BY DEF TypeOK, Stages
<1>2. HeapSound'
  BY DEF TypeOK, HeapSound
<1>3. \A q \in Requests : Owns(q)' <=> Owns(q) \/ q = r
  BY DEF TypeOK, Owns
<1>4. ActiveIsOwned' /\ OwnedIsActive' /\ OneOwner'
  BY <1>3 DEF TypeOK, ActiveIsOwned, OwnedIsActive, OneOwner
<1>5. NoStrandedWaiter'
  BY DEF TypeOK, NoStrandedWaiter
<1> QED
  BY <1>1, <1>2, <1>4, <1>5

LEMMA EnqueueIInv ==
    ASSUME IInv, NEW r \in Requests, Enqueue(r)
    PROVE  IInv'
<1> USE DEF Enqueue, IInv
<1>1. TypeOK'
  BY DEF TypeOK, Stages
<1>2. HeapSound'
  BY DEF TypeOK, HeapSound
<1>3. \A q \in Requests : Owns(q)' <=> Owns(q)
  BY DEF TypeOK, Owns, HeapSound
<1>4. ActiveIsOwned' /\ OwnedIsActive' /\ OneOwner'
  BY <1>3 DEF TypeOK, ActiveIsOwned, OwnedIsActive, OneOwner
<1>5. NoStrandedWaiter'
  BY DEF TypeOK, NoStrandedWaiter
<1> QED
  BY <1>1, <1>2, <1>4, <1>5

(* Wake and CheckContext move an owner on without touching the slot. *)
LEMMA OwnerMovesIInv ==
    ASSUME IInv, NEW r \in Requests, Wake(r) \/ CheckContext(r)
    PROVE  IInv'
<1> USE DEF Wake, CheckContext, IInv
<1>1. TypeOK'
  BY DEF TypeOK, Stages
<1>2. HeapSound'
  BY DEF TypeOK, HeapSound
<1>3. \A q \in Requests : Owns(q)' <=> Owns(q)
  BY DEF TypeOK, Owns
<1>4. ActiveIsOwned' /\ OwnedIsActive' /\ OneOwner'
  BY <1>3 DEF TypeOK, ActiveIsOwned, OwnedIsActive, OneOwner
<1>5. NoStrandedWaiter'
  BY DEF TypeOK, NoStrandedWaiter
<1> QED
  BY <1>1, <1>2, <1>4, <1>5

LEMMA WithdrawIInv ==
    ASSUME IInv, NEW r \in Requests, Withdraw(r)
    PROVE  IInv'
<1> USE DEF Withdraw, IInv
<1>1. TypeOK'
  BY DEF TypeOK, Stages
<1>2. HeapSound'
  BY DEF TypeOK, HeapSound
<1>3. \A q \in Requests : Owns(q)' <=> Owns(q)
  BY DEF TypeOK, Owns
<1>4. ActiveIsOwned' /\ OwnedIsActive' /\ OneOwner'
  BY <1>3 DEF TypeOK, ActiveIsOwned, OwnedIsActive, OneOwner
<1>5. NoStrandedWaiter'
  BY DEF TypeOK, NoStrandedWaiter
<1> QED
  BY <1>1, <1>2, <1>4, <1>5

(* The slot passes from r to the waiter w that the heap puts first. *)
LEMMA HandOverIInv ==
    ASSUME IInv, NEW r \in Requests, Release(r), HandOver(r)
    PROVE  IInv'
<1>1. PICK w \in Live(book[r]) :
        /\ \A v \in Live(book[r]) \ {w} : Before(w, v)
        /\ waiting' = [waiting EXCEPT ![book[r]] = {v \in @ : Before(w, v)}]
        /\ granted' = granted \cup {w}
        /\ UNCHANGED active
  BY DEF HandOver
<1>2. /\ pc[r] \in {"holding", "leaving"}
      /\ pc' = [pc EXCEPT ![r] = "done"]
      /\ UNCHANGED <<book, pri, seq, ticket, cancelled>>
  BY DEF Release
<1>3. /\ w \in waiting[book[r]] /\ w \notin cancelled
      /\ w \in Requests /\ book[w] = book[r] /\ pc[w] = "queued" /\ w \notin granted
      /\ w # r
  BY <1>1, <1>2 DEF Live, IInv, TypeOK, HeapSound
<1>4. ~Before(w, w)
  <2>1. pri[w] \in Int /\ ticket[w] \in Int
    <3>1. w \in Requests
      BY <1>3
    <3>2. pri[w] \in Priorities
      BY <3>1 DEF IInv, TypeOK
    <3>3. ticket[w] \in Nat
      BY <3>1 DEF IInv, TypeOK
    <3>4. pri[w] \in Int
      BY <3>2, PrioritiesAssumption, Zenon
    <3>5. ticket[w] \in Int
      BY <3>3
    <3> QED
      BY <3>4, <3>5
  <2>2. Clamped(pri[w]) \in Int
    BY <2>1 DEF Clamped
  <2> QED
    BY <2>1, <2>2 DEF Before
<1>5. TypeOK'
  BY <1>1, <1>2, <1>3 DEF IInv, TypeOK, Stages
<1>6. HeapSound'
  <2>1. \A b \in Books : \A q \in waiting'[b] : q \in waiting[b] /\ q # w
    BY <1>1, <1>3, <1>4 DEF IInv, TypeOK, HeapSound
  <2>2. \A q \in Requests : pc[q] = "queued" => pc'[q] = "queued"
    BY <1>2 DEF IInv, TypeOK
  <2>3. \A b \in Books : \A q \in waiting'[b] :
          book'[q] = b /\ pc'[q] = "queued" /\ q \notin granted'
    BY <1>1, <1>2, <2>1, <2>2 DEF IInv, TypeOK, HeapSound
  <2>4. \A b \in Books : ~active'[b] => waiting'[b] = {}
    BY <1>1, <2>1 DEF IInv, HeapSound
  <2>5. \A q \in granted' : pc'[q] # "idle"
    BY <1>1, <1>2, <1>3 DEF IInv, TypeOK, HeapSound
  <2> QED
    BY <2>3, <2>4, <2>5 DEF HeapSound
<1>7. \A q \in Requests : Owns(q)' <=> (Owns(q) /\ q # r) \/ q = w
  BY <1>1, <1>2, <1>3 DEF Owns, IInv, TypeOK
<1>8. Owns(r) /\ ~Owns(w)
  BY <1>2, <1>3 DEF Owns
<1>9. active' = active /\ book' = book
  BY <1>1, <1>2
<1>10. \A q \in Requests : Owns(q) /\ book[q] = book[r] => q = r
  BY <1>8 DEF IInv, OneOwner
<1>11. ActiveIsOwned'
  BY <1>3, <1>7, <1>9 DEF IInv, ActiveIsOwned
<1>12. OwnedIsActive'
  BY <1>3, <1>7, <1>8, <1>9 DEF IInv, OwnedIsActive
<1>13. OneOwner'
  BY <1>3, <1>7, <1>9, <1>10 DEF IInv, OneOwner
<1>14. NoStrandedWaiter'
  <2> SUFFICES ASSUME NEW q \in Requests, pc'[q] = "queued", q \notin cancelled',
                      q \notin granted'
               PROVE  q \in waiting'[book'[q]] /\ active'[book'[q]]
    BY DEF NoStrandedWaiter
  <2>1. /\ pc[q] = "queued" /\ q \notin cancelled /\ q \notin granted /\ q # w
    BY <1>1, <1>2 DEF IInv, TypeOK
  <2>2. q \in waiting[book[q]] /\ active[book[q]] /\ book[q] \in Books
    BY <2>1 DEF IInv, NoStrandedWaiter, TypeOK
  <2>3. CASE book[q] = book[r]
    <3>1. q \in Live(book[r]) \ {w}
      BY <2>1, <2>2, <2>3 DEF Live
    <3> QED
      BY <1>1, <1>2, <2>2, <2>3, <3>1 DEF IInv, TypeOK
  <2>4. CASE book[q] # book[r]
    BY <1>1, <1>2, <2>2, <2>4 DEF IInv, TypeOK
  <2> QED
    BY <2>3, <2>4
<1> QED
  BY <1>5, <1>6, <1>11, <1>12, <1>13, <1>14 DEF IInv

(* The slot becomes free because nobody wanted is left in the heap. *)
LEMMA FreeIInv ==
    ASSUME IInv, NEW r \in Requests, Release(r), Free(r)
    PROVE  IInv'
<1> USE DEF Release, Free, IInv
<1>1. TypeOK'
  BY DEF TypeOK, Stages
<1>2. HeapSound'
  BY DEF TypeOK, HeapSound
<1>3. \A q \in Requests : Owns(q)' <=> Owns(q) /\ q # r
  BY DEF TypeOK, Owns
<1>4. Owns(r)
  BY DEF Owns
<1>5. ActiveIsOwned' /\ OwnedIsActive' /\ OneOwner'
  BY <1>3, <1>4 DEF TypeOK, ActiveIsOwned, OwnedIsActive, OneOwner
<1>6. NoStrandedWaiter'
  BY DEF TypeOK, NoStrandedWaiter, Live
<1> QED
  BY <1>1, <1>2, <1>5, <1>6

LEMMA CancelIInv ==
    ASSUME IInv, NEW r \in Requests, Cancel(r)
    PROVE  IInv'
BY DEF Cancel, IInv, TypeOK, HeapSound, ActiveIsOwned, OwnedIsActive, OneOwner,
       NoStrandedWaiter, Owns

LEMMA NextIInv == IInv /\ [Next]_vars => IInv'
<1> SUFFICES ASSUME IInv, [Next]_vars PROVE IInv'
  OBVIOUS
<1>1. CASE UNCHANGED vars
  BY <1>1 DEF vars, IInv, TypeOK, HeapSound, ActiveIsOwned, OwnedIsActive, OneOwner,
              NoStrandedWaiter, Owns
<1>2. ASSUME NEW r \in Requests, Step(r) PROVE IInv'
  <2>1. CASE TakeSlot(r)      BY <2>1, TakeSlotIInv
  <2>2. CASE Enqueue(r)       BY <2>2, EnqueueIInv
  <2>3. CASE Wake(r)          BY <2>3, OwnerMovesIInv
  <2>4. CASE CheckContext(r)  BY <2>4, OwnerMovesIInv
  <2>5. CASE Withdraw(r)      BY <2>5, WithdrawIInv
  <2>6. CASE Release(r)
    <3>1. HandOver(r) \/ Free(r)
      BY <2>6 DEF Release
    <3> QED
      BY <2>6, <3>1, HandOverIInv, FreeIInv
  <2> QED
    BY <1>2, <2>1, <2>2, <2>3, <2>4, <2>5, <2>6 DEF Step
<1>3. ASSUME NEW r \in Requests, Cancel(r) PROVE IInv'
  BY <1>3, CancelIInv
<1> QED
  BY <1>1, <1>2, <1>3 DEF Next, Terminating

THEOREM Invariance == Spec => []IInv
BY InitIInv, NextIInv, PTL DEF Spec

(* The variables of sched.go keep their types in every reachable state. *)
THEOREM TypeCorrect == Spec => []TypeOK
<1>1. IInv => TypeOK
  BY DEF IInv
<1> QED
  BY Invariance, <1>1, PTL

(* The slot of a book is marked active exactly while one call owns it. *)
THEOREM SlotNeverLost == Spec => []SlotAccounted
<1>1. IInv => SlotAccounted
  BY DEF IInv, ActiveIsOwned, OwnedIsActive, OneOwner, SlotAccounted
<1> QED
  BY Invariance, <1>1, PTL

(* Rendering of one book is serial. *)
THEOREM RenderSerial == Spec => []MutualExclusion
<1>1. IInv => MutualExclusion
  BY DEF IInv, OneOwner, MutualExclusion, Owns
<1> QED
  BY Invariance, <1>1, PTL

(* A sleeping request that is still wanted always has a wake-up to come. *)
THEOREM WaitersAreReachable == Spec => []NoStrandedWaiter
<1>1. IInv => NoStrandedWaiter
  BY DEF IInv
<1> QED
  BY Invariance, <1>1, PTL

------------------------------------------------------------------------------
(* The heap as a line.  Tickets tell the waiters of a book apart, and the  *)
(* next ticket is later than all of theirs.                                *)
HeapOrdered ==
    \A b \in Books :
        /\ IsFiniteSet(waiting[b])
        /\ \A v \in waiting[b] : ticket[v] <= seq[b]
        /\ \A v, w \in waiting[b] : ticket[v] = ticket[w] => v = w

LEMMA InitHeapOrdered == Init => HeapOrdered
BY FS_EmptySet DEF Init, HeapOrdered

(* Whatever leaves a heap leaves the others in order. *)
LEMMA ShrinkHeapOrdered ==
    ASSUME TypeOK, HeapOrdered, ticket' = ticket, seq' = seq,
           \A b \in Books : waiting'[b] \subseteq waiting[b]
    PROVE  HeapOrdered'
<1>1. ASSUME NEW b \in Books PROVE IsFiniteSet(waiting'[b])
  BY FS_Subset DEF HeapOrdered
<1> QED
  BY <1>1 DEF HeapOrdered

LEMMA EnqueueHeapOrdered ==
    ASSUME IInv, HeapOrdered, NEW r \in Requests, Enqueue(r)
    PROVE  HeapOrdered'
<1>1. /\ book[r] \in Books /\ seq[book[r]] \in Nat
      /\ \A b \in Books : r \notin waiting[b]
  BY DEF Enqueue, IInv, TypeOK, HeapSound
<1>2. /\ seq' = [seq EXCEPT ![book[r]] = @ + 1]
      /\ ticket' = [ticket EXCEPT ![r] = seq[book[r]] + 1]
      /\ waiting' = [waiting EXCEPT ![book[r]] = @ \cup {r}]
  BY DEF Enqueue
<1>3. ASSUME NEW b \in Books, b # book[r]
      PROVE  waiting'[b] = waiting[b] /\ seq'[b] = seq[b]
  BY <1>2, <1>3 DEF IInv, TypeOK
<1>4. waiting'[book[r]] = waiting[book[r]] \cup {r} /\ seq'[book[r]] = seq[book[r]] + 1
  BY <1>1, <1>2 DEF IInv, TypeOK
<1>5. /\ ticket'[r] = seq[book[r]] + 1
      /\ \A b \in Books : \A v \in waiting[b] :
            v \in Requests /\ ticket'[v] = ticket[v] /\ ticket[v] \in Nat
  BY <1>1, <1>2 DEF IInv, TypeOK
<1>6. IsFiniteSet(waiting[book[r]] \cup {r})
  BY <1>1, FS_AddElement DEF HeapOrdered
<1>7. ASSUME NEW b \in Books PROVE IsFiniteSet(waiting'[b])
  BY <1>3, <1>4, <1>6 DEF HeapOrdered
<1>8. ASSUME NEW b \in Books
      PROVE  /\ \A v \in waiting'[b] : ticket'[v] <= seq'[b]
             /\ \A v, w \in waiting'[b] : ticket'[v] = ticket'[w] => v = w
  <2>1. CASE b # book[r]
    BY <1>3, <1>5, <2>1 DEF HeapOrdered
  <2>2. CASE b = book[r]
    <3>1. \A v \in waiting[b] : ticket'[v] <= seq[b] /\ ticket'[v] \in Nat
      BY <1>5 DEF HeapOrdered
    <3> QED
      BY <1>1, <1>4, <1>5, <2>2, <3>1 DEF HeapOrdered
  <2> QED
    BY <2>1, <2>2
<1> QED
  BY <1>7, <1>8 DEF HeapOrdered

LEMMA NextHeapOrdered == IInv /\ HeapOrdered /\ [Next]_vars => HeapOrdered'
<1> SUFFICES ASSUME IInv, HeapOrdered, [Next]_vars PROVE HeapOrdered'
  OBVIOUS
<1>1. ASSUME NEW r \in Requests, Enqueue(r) PROVE HeapOrdered'
  BY <1>1, EnqueueHeapOrdered
<1>2. ASSUME NEW r \in Requests,
             TakeSlot(r) \/ Wake(r) \/ CheckContext(r) \/ Withdraw(r) \/ Cancel(r)
      PROVE  HeapOrdered'
  <2>1. ticket' = ticket /\ seq' = seq
    BY <1>2 DEF TakeSlot, Wake, CheckContext, Withdraw, Cancel
  <2>2. \A b \in Books : waiting'[b] \subseteq waiting[b]
    BY <1>2 DEF TakeSlot, Wake, CheckContext, Withdraw, Cancel, IInv, TypeOK
  <2> QED
    BY <2>1, <2>2, ShrinkHeapOrdered DEF IInv
<1>3. ASSUME NEW r \in Requests, Release(r) PROVE HeapOrdered'
  <2>1. ticket' = ticket /\ seq' = seq
    BY <1>3 DEF Release
  <2>2. \A b \in Books : waiting'[b] \subseteq waiting[b]
    <3>1. CASE HandOver(r)
      BY <3>1 DEF HandOver, IInv, TypeOK
    <3>2. CASE Free(r)
      BY <3>2 DEF Free, IInv, TypeOK
    <3> QED
      BY <1>3, <3>1, <3>2 DEF Release
  <2> QED
    BY <2>1, <2>2, ShrinkHeapOrdered DEF IInv
<1>4. CASE UNCHANGED vars
  BY <1>4, ShrinkHeapOrdered DEF vars, IInv
<1> QED
  BY <1>1, <1>2, <1>3, <1>4 DEF Next, Step, Terminating

(* waiterHeap.Less on the waiters of a book. *)
Queue(b) == {vw \in waiting[b] \X waiting[b] : Before(vw[1], vw[2])}

(* Each line lists the waiters of its book in that order. *)
LinesSound ==
    \A b \in Books :
        /\ IsFiniteSet(waiting[b])
        /\ Orders(Queue(b), waiting[b])
        /\ InOrder(Line[b], Queue(b), waiting[b])

LEMMA UrgenciesAreNumbers ==
    ASSUME TypeOK, NEW r \in Requests
    PROVE  Clamped(pri[r]) \in Nat /\ ticket[r] \in Nat
<1>1. pri[r] \in Priorities /\ ticket[r] \in Nat
  BY DEF TypeOK
<1>2. pri[r] \in Int
  BY <1>1, PrioritiesAssumption, Zenon
<1> QED
  BY <1>1, <1>2 DEF Clamped

LEMMA HeapIsLine == IInv /\ HeapOrdered => LinesSound
<1> SUFFICES ASSUME IInv, HeapOrdered, NEW b \in Books
             PROVE  /\ IsFiniteSet(waiting[b])
                    /\ Orders(Queue(b), waiting[b])
                    /\ InOrder(Line[b], Queue(b), waiting[b])
  BY DEF LinesSound
<1> DEFINE S == waiting[b]
<1>1. IsFiniteSet(S) /\ S \subseteq Requests
  BY DEF HeapOrdered, IInv, TypeOK
<1>2. \A v \in S : Clamped(pri[v]) \in Nat /\ ticket[v] \in Nat
  BY <1>1, UrgenciesAreNumbers DEF IInv
<1>3. \A v, w \in S : <<v, w>> \in Queue(b) <=> Before(v, w)
  BY DEF Queue
<1>4. Orders(Queue(b), S)
  <2>1. \A v, w \in S : ticket[v] = ticket[w] => v = w
    BY DEF HeapOrdered
  <2>2. \A v \in S : ~Before(v, v)
    BY <1>2 DEF Before
  <2>3. \A v, w, x \in S : Before(v, w) /\ Before(w, x) => Before(v, x)
    BY <1>2 DEF Before
  <2>4. \A v, w \in S : v # w => Before(v, w) \/ Before(w, v)
    BY <1>2, <2>1 DEF Before
  <2> QED
    BY <1>3, <2>2, <2>3, <2>4 DEF Orders
<1>5. ASSUME NEW w \in S
      PROVE  Ahead(Queue(b), S, w) = {v \in S : Before(v, w)}
  BY <1>3 DEF Ahead
<1>6. Cardinality(S) \in Nat
  BY <1>1, FS_CardinalityType
<1> DEFINE at(i) == CHOOSE w \in S : Cardinality({v \in S : Before(v, w)}) = i - 1
<1>7. ASSUME NEW i \in 1 .. Cardinality(S)
      PROVE  /\ at(i) \in S
             /\ Cardinality({v \in S : Before(v, at(i))}) = i - 1
  <2>1. i - 1 \in 0 .. Cardinality(S) - 1
    BY <1>6
  <2>2. PICK w \in S : Cardinality(Ahead(Queue(b), S, w)) = i - 1
    BY <1>1, <1>4, <2>1, EveryPlaceTaken
  <2>3. \E x \in S : Cardinality({v \in S : Before(v, x)}) = i - 1
    BY <1>5, <2>2
  <2> HIDE DEF S
  <2> QED
    BY <2>3
<1>8. Line[b] = [i \in 1 .. Cardinality(S) |-> at(i)]
  BY DEF Line
<1> HIDE DEF at
<1>9. Line[b] \in Seq(S)
  <2>1. \A i \in 1 .. Cardinality(S) : at(i) \in S
    BY <1>7
  <2>2. [i \in 1 .. Cardinality(S) |-> at(i)] \in Seq(S)
    BY <1>6, <2>1
  <2> QED
    BY <1>8, <2>2
<1>10. Len(Line[b]) = Cardinality(S)
  BY <1>6, <1>8, <1>9, LenProperties
<1>11. ASSUME NEW i \in 1 .. Len(Line[b])
       PROVE  Cardinality(Ahead(Queue(b), S, Line[b][i])) = i - 1
  <2>1. Line[b][i] = at(i) /\ i \in 1 .. Cardinality(S)
    BY <1>8, <1>10
  <2> QED
    BY <1>5, <1>7, <2>1
<1> QED
  BY <1>1, <1>4, <1>9, <1>10, <1>11 DEF InOrder

(* The holder of a slot is the call that owns it, if there is one. *)
HoldersSound ==
    \A b \in Books :
        /\ \A r \in Requests : book[r] = b /\ Owns(r) => Holder[b] = r
        /\ (\A r \in Requests : book[r] = b => ~Owns(r)) => Holder[b] = Nobody

LEMMA OwnerIsHolder == IInv => HoldersSound
<1> SUFFICES ASSUME IInv, NEW b \in Books
             PROVE  /\ \A r \in Requests : book[r] = b /\ Owns(r) => Holder[b] = r
                    /\ (\A r \in Requests : book[r] = b => ~Owns(r)) => Holder[b] = Nobody
  BY DEF HoldersSound
<1>1. ASSUME NEW r \in Requests, book[r] = b, Owns(r) PROVE Holder[b] = r
  <2>1. Holder[b] = CHOOSE q \in Requests : book[q] = b /\ Owns(q)
    BY <1>1 DEF Holder
  <2>2. Holder[b] \in Requests /\ book[Holder[b]] = b /\ Owns(Holder[b])
    BY <1>1, <2>1
  <2> QED
    BY <1>1, <2>2 DEF IInv, OneOwner
<1>2. (\A r \in Requests : book[r] = b => ~Owns(r)) => Holder[b] = Nobody
  BY DEF Holder
<1> QED
  BY <1>1, <1>2

(* A book whose ownership a step leaves alone keeps its holder, and one    *)
(* whose heap and tickets it leaves alone keeps its line.                  *)
LEMMA SameHolder ==
    ASSUME HoldersSound, HoldersSound', book' = book, NEW b \in Books,
           \A r \in Requests : book[r] = b => (Owns(r)' <=> Owns(r))
    PROVE  Holder'[b] = Holder[b]
<1>1. CASE \E r \in Requests : book[r] = b /\ Owns(r)
  BY <1>1 DEF HoldersSound
<1>2. CASE \A r \in Requests : book[r] = b => ~Owns(r)
  BY <1>2 DEF HoldersSound
<1> QED
  BY <1>1, <1>2

(* The line after a step is known by its members and their order. *)
LEMMA NewLine ==
    ASSUME LinesSound', NEW b \in Books, NEW K \in Seq(waiting'[b]),
           \A x \in waiting'[b] : \E i \in 1 .. Len(K) : K[i] = x,
           \A i, j \in 1 .. Len(K) : i < j => Before(K[i], K[j])'
    PROVE  Line'[b] = K
<1>1. /\ IsFiniteSet(waiting'[b])
      /\ Orders(Queue(b)', waiting'[b])
      /\ InOrder(Line'[b], Queue(b)', waiting'[b])
  BY DEF LinesSound
<1>2. \A i \in 1 .. Len(K) : K[i] \in waiting'[b]
  BY ElementOfSeq
<1>3. \A i, j \in 1 .. Len(K) : i < j => <<K[i], K[j]>> \in Queue(b)'
  BY <1>2 DEF Queue
<1> QED
  BY <1>1, <1>3, OnlySortedList

LEMMA LineShape ==
    ASSUME LinesSound, NEW b \in Books
    PROVE  /\ Line[b] \in Seq(waiting[b])
           /\ Len(Line[b]) \in Nat
           /\ DOMAIN Line[b] = 1 .. Len(Line[b])
           /\ \A i \in 1 .. Len(Line[b]) : Line[b][i] \in waiting[b]
           /\ \A x \in waiting[b] : \E i \in 1 .. Len(Line[b]) : Line[b][i] = x
           /\ \A i, j \in 1 .. Len(Line[b]) : Before(Line[b][i], Line[b][j]) <=> i < j
<1> DEFINE L == Line[b]
<1>1. /\ IsFiniteSet(waiting[b])
      /\ Orders(Queue(b), waiting[b])
      /\ InOrder(L, Queue(b), waiting[b])
  BY DEF LinesSound
<1>2. L \in Seq(waiting[b])
  BY <1>1 DEF InOrder
<1> HIDE DEF L
<1>3. Len(L) \in Nat /\ DOMAIN L = 1 .. Len(L) /\ \A i \in 1 .. Len(L) : L[i] \in waiting[b]
  BY <1>2, LenProperties, ElementOfSeq
<1>4. /\ \A x \in waiting[b] : \E i \in 1 .. Len(L) : L[i] = x
      /\ \A i, j \in 1 .. Len(L) : <<L[i], L[j]>> \in Queue(b) <=> i < j
  BY <1>1, ListIsSorted
<1>5. \A i, j \in 1 .. Len(L) : Before(L[i], L[j]) <=> i < j
  BY <1>3, <1>4 DEF Queue
<1> QED
  BY <1>2, <1>3, <1>4, <1>5 DEF L

LEMMA SameLine ==
    ASSUME LinesSound, LinesSound', NEW b \in Books, waiting'[b] = waiting[b],
           \A v, w \in waiting[b] : Before(v, w) => Before(v, w)'
    PROVE  Line'[b] = Line[b]
<1> PICK K : K = Line[b]
  OBVIOUS
<1>1. /\ K \in Seq(waiting'[b])
      /\ \A x \in waiting'[b] : \E i \in 1 .. Len(K) : K[i] = x
      /\ \A i \in 1 .. Len(K) : K[i] \in waiting[b]
      /\ \A i, j \in 1 .. Len(K) : i < j => Before(K[i], K[j])
  BY LineShape
<1>2. \A i, j \in 1 .. Len(K) : i < j => Before(K[i], K[j])'
  BY <1>1
<1>3. Line'[b] = K
  BY <1>1, <1>2, NewLine DEF Before
<1> QED
  BY <1>3

(* What a step leaves alone, and what it changes for one book. *)
LEMMA HolderBecomes ==
    ASSUME NEW b \in Books, NEW h, Holder'[b] = h,
           \A c \in Books \ {b} : Holder'[c] = Holder[c]
    PROVE  Holder' = [Holder EXCEPT ![b] = h]
<1>1. Holder = [c \in Books |-> Holder[c]] /\ Holder' = [c \in Books |-> Holder'[c]]
  BY DEF Holder
<1> QED
  BY <1>1

LEMMA LineBecomes ==
    ASSUME NEW b \in Books, NEW K, Line'[b] = K,
           \A c \in Books \ {b} : Line'[c] = Line[c]
    PROVE  Line' = [Line EXCEPT ![b] = K]
<1>1. Line = [c \in Books |-> Line[c]] /\ Line' = [c \in Books |-> Line'[c]]
  BY DEF Line
<1> QED
  BY <1>1

LEMMA SameHolders ==
    ASSUME TypeOK, HoldersSound, HoldersSound', book' = book,
           \A r \in Requests : Owns(r)' <=> Owns(r)
    PROVE  Holder' = Holder
<1>1. ASSUME NEW b \in Books PROVE Holder'[b] = Holder[b]
  BY SameHolder
<1>2. Holder = [c \in Books |-> Holder[c]] /\ Holder' = [c \in Books |-> Holder'[c]]
  BY DEF Holder
<1> QED
  BY <1>1, <1>2

LEMMA SameLines ==
    ASSUME LinesSound, LinesSound', waiting' = waiting, ticket' = ticket, pri' = pri
    PROVE  Line' = Line
<1>1. \A v, w : Before(v, w) => Before(v, w)'
  BY DEF Before, Clamped
<1>2. ASSUME NEW b \in Books PROVE Line'[b] = Line[b]
  BY <1>1, SameLine
<1>3. Line = [c \in Books |-> Line[c]] /\ Line' = [c \in Books |-> Line'[c]]
  BY DEF Line
<1> QED
  BY <1>2, <1>3

LEMMA SameUrgency ==
    ASSUME pri' = pri
    PROVE  [r \in Requests |-> Clamped(pri'[r])] = [r \in Requests |-> Clamped(pri[r])]
OBVIOUS

Mapped == LinesSound /\ HoldersSound

(* The actions of sched.go, one by one. *)
LEMMA TakeSlotRefines ==
    ASSUME IInv, Mapped, Mapped', NEW r \in Requests, TakeSlot(r)
    PROVE  Promise!TakeFree(r, book[r])
<1>1. /\ pc' = [pc EXCEPT ![r] = "took"] /\ ~active[book[r]] /\ book[r] \in Books
      /\ UNCHANGED <<book, pri, waiting, ticket, granted, cancelled>>
  BY DEF TakeSlot, IInv, TypeOK
<1>2. \A q \in Requests : book[q] = book[r] => ~Owns(q)
  BY <1>1 DEF IInv, OwnedIsActive
<1>3. \A q \in Requests : Owns(q)' <=> Owns(q) \/ q = r
  BY <1>1 DEF Owns, IInv, TypeOK
<1>4. Holder[book[r]] = Nobody
  BY <1>1, <1>2 DEF Mapped, HoldersSound
<1>5. Holder'[book[r]] = r
  BY <1>1, <1>3 DEF Mapped, HoldersSound
<1>6. \A c \in Books \ {book[r]} : Holder'[c] = Holder[c]
  BY <1>1, <1>3, SameHolder DEF Mapped
<1>7. Holder' = [Holder EXCEPT ![book[r]] = r]
  BY <1>1, <1>5, <1>6, HolderBecomes
<1>8. Line' = Line
  BY <1>1, SameLines DEF Mapped
<1> QED
  BY <1>1, <1>4, <1>7, <1>8, SameUrgency DEF Promise!TakeFree

LEMMA OwnerMovesRefines ==
    ASSUME IInv, Mapped, Mapped', NEW r \in Requests, Wake(r) \/ CheckContext(r)
    PROVE  Holder' = Holder /\ Line' = Line
<1>1. UNCHANGED <<book, pri, waiting, ticket>>
  BY DEF Wake, CheckContext
<1>2. \A q \in Requests : Owns(q)' <=> Owns(q)
  BY DEF Wake, CheckContext, Owns, IInv, TypeOK
<1> QED
  BY <1>1, <1>2, SameHolders, SameLines DEF Mapped, IInv

(* Where a request joins the line: behind all that are at least as urgent. *)
LEMMA PlaceInLine ==
    ASSUME TypeOK, LinesSound, NEW b \in Books, NEW r \in Requests
    PROVE  \E k \in 0 .. Len(Line[b]) :
              /\ \A i \in 1 .. k : Clamped(pri[Line[b][i]]) <= Clamped(pri[r])
              /\ \A i \in k + 1 .. Len(Line[b]) : Clamped(pri[Line[b][i]]) > Clamped(pri[r])
<1> PICK L : L = Line[b]
  OBVIOUS
<1> DEFINE I == {i \in 1 .. Len(L) : Clamped(pri[L[i]]) > Clamped(pri[r])}
<1>1. /\ Len(L) \in Nat
      /\ \A i \in 1 .. Len(L) : L[i] \in waiting[b]
      /\ \A i, j \in 1 .. Len(L) : Before(L[i], L[j]) <=> i < j
  BY LineShape
<1>2. \A i \in 1 .. Len(L) : Clamped(pri[L[i]]) \in Nat
  BY <1>1, UrgenciesAreNumbers DEF TypeOK
<1>3. Clamped(pri[r]) \in Nat
  BY UrgenciesAreNumbers
<1>4. CASE I = {}
  <2>1. \A i \in 1 .. Len(L) : Clamped(pri[L[i]]) <= Clamped(pri[r])
    BY <1>2, <1>3, <1>4
  <2>2. Len(L) \in 0 .. Len(L) /\ Len(L) + 1 .. Len(L) = {}
    BY <1>1
  <2> QED
    BY <2>1, <2>2
<1>5. CASE I # {}
  <2>1. I \in SUBSET Nat
    BY <1>1
  <2>2. PICK m \in I : \A i \in I : m <= i
    <3> HIDE DEF I
    <3> QED
      BY <1>5, <2>1, LeastPosition
  <2>3. m \in 1 .. Len(L) /\ Clamped(pri[L[m]]) > Clamped(pri[r])
    BY <2>2
  <2>4. m - 1 \in 0 .. Len(L) /\ m - 1 + 1 = m
    BY <1>1, <2>3
  <2>5. ASSUME NEW i \in 1 .. m - 1 PROVE Clamped(pri[L[i]]) <= Clamped(pri[r])
    <3>1. i \in 1 .. Len(L) /\ ~(m <= i)
      BY <1>1, <2>3
    <3>2. i \notin I
      BY <2>2, <3>1
    <3> QED
      BY <1>2, <1>3, <3>1, <3>2
  <2>6. ASSUME NEW i \in m .. Len(L) PROVE Clamped(pri[L[i]]) > Clamped(pri[r])
    <3>1. i \in 1 .. Len(L) /\ (i = m \/ m < i)
      BY <1>1, <2>3
    <3>2. CASE i = m
      BY <2>3, <3>2
    <3>3. CASE m < i
      <4>1. Before(L[m], L[i])
        BY <1>1, <2>3, <3>1, <3>3
      <4>2. Clamped(pri[L[m]]) <= Clamped(pri[L[i]])
        BY <1>2, <2>3, <3>1, <4>1 DEF Before
      <4> QED
        BY <1>2, <1>3, <2>3, <3>1, <4>2
    <3> QED
      BY <3>1, <3>2, <3>3
  <2>7. \A i \in (m - 1) + 1 .. Len(L) : Clamped(pri[L[i]]) > Clamped(pri[r])
    BY <2>4, <2>6
  <2> QED
    BY <2>4, <2>5, <2>7
<1> QED
  BY <1>4, <1>5

LEMMA EnqueueRefines ==
    ASSUME IInv, HeapOrdered, Mapped, Mapped', NEW r \in Requests, Enqueue(r)
    PROVE  Promise!Join(r, book[r])
<1> PICK b \in Books : b = book[r]
  BY DEF IInv, TypeOK
<1> PICK L : L = Line[b]
  OBVIOUS
<1>1. /\ pc[r] = "idle" /\ active[b] /\ seq[b] \in Nat
      /\ \A c \in Books : r \notin waiting[c]
      /\ r \notin granted
  BY DEF Enqueue, IInv, TypeOK, HeapSound
<1>2. /\ ticket' = [ticket EXCEPT ![r] = seq[b] + 1]
      /\ waiting' = [waiting EXCEPT ![b] = @ \cup {r}]
      /\ pc' = [pc EXCEPT ![r] = "queued"]
      /\ UNCHANGED <<book, pri, active, granted, cancelled>>
  BY DEF Enqueue
<1>3. /\ waiting'[b] = waiting[b] \cup {r}
      /\ \A c \in Books \ {b} : waiting'[c] = waiting[c]
      /\ ticket'[r] = seq[b] + 1
      /\ \A c \in Books : \A v \in waiting[c] :
            v \in Requests /\ ticket'[v] = ticket[v] /\ ticket[v] \in Nat
  BY <1>1, <1>2 DEF IInv, TypeOK
<1>4. \A c \in Books : \A v, w \in waiting[c] : Before(v, w) => Before(v, w)'
  BY <1>2, <1>3 DEF Before, Clamped
<1>5. \A v \in waiting[b] : Clamped(pri[v]) \in Nat /\ ticket[v] < seq[b] + 1
  <2>1. \A v \in waiting[b] : ticket[v] <= seq[b]
    BY DEF HeapOrdered
  <2> QED
    BY <1>1, <1>3, <2>1, UrgenciesAreNumbers DEF IInv
<1>6. Clamped(pri[r]) \in Nat
  BY UrgenciesAreNumbers DEF IInv
<1>7. /\ L \in Seq(waiting[b]) /\ Len(L) \in Nat
      /\ \A i \in 1 .. Len(L) : L[i] \in waiting[b]
      /\ \A x \in waiting[b] : \E i \in 1 .. Len(L) : L[i] = x
      /\ \A i, j \in 1 .. Len(L) : Before(L[i], L[j]) <=> i < j
  BY LineShape DEF Mapped
<1>8. PICK k \in 0 .. Len(L) :
         /\ \A i \in 1 .. k : Clamped(pri[L[i]]) <= Clamped(pri[r])
         /\ \A i \in k + 1 .. Len(L) : Clamped(pri[L[i]]) > Clamped(pri[r])
  BY PlaceInLine DEF Mapped, IInv
<1>9. PICK K : K = SubSeq(L, 1, k) \o <<r>> \o SubSeq(L, k + 1, Len(L))
  OBVIOUS
<1>10. /\ K \in Seq(waiting'[b])
       /\ Len(K) = Len(L) + 1
       /\ \A i \in 1 .. k : K[i] = L[i]
       /\ K[k + 1] = r
       /\ \A i \in 1 .. Len(L) - k : K[k + 1 + i] = L[k + i]
  <2>1. PICK S : S = waiting'[b]
    OBVIOUS
  <2>2. waiting[b] \subseteq S /\ r \in S
    BY <1>3, <2>1
  <2>3. L \in Seq(S)
    BY <1>7, <2>2, SeqMonotonic
  <2>4. k \in 0 .. Len(L)
    OBVIOUS
  <2>5. K \in Seq(S) /\ Inserted(K, L, k, r)
    <3> HIDE <2>1
    <3> QED
      BY <1>9, <2>2, <2>3, <2>4, InsertedSeq
  <2> QED
    BY <2>1, <2>5 DEF Inserted
<1>11. ASSUME NEW i \in 1 .. Len(K)
       PROVE  \/ i \in 1 .. k /\ K[i] = L[i]
              \/ i = k + 1 /\ K[i] = r
              \/ i - 1 \in k + 1 .. Len(L) /\ K[i] = L[i - 1]
  <2>1. CASE i <= k
    BY <1>7, <1>10, <2>1
  <2>2. CASE i = k + 1
    BY <1>10, <2>2
  <2>3. CASE i > k + 1
    <3>1. Len(L) \in Int /\ k \in Int /\ i \in Int /\ i <= Len(L) + 1
      BY <1>7, <1>10
    <3>2. /\ i - (k + 1) \in 1 .. Len(L) - k
          /\ k + 1 + (i - (k + 1)) = i
          /\ k + (i - (k + 1)) = i - 1
          /\ i - 1 \in k + 1 .. Len(L)
      BY <2>3, <3>1
    <3>3. K[k + 1 + (i - (k + 1))] = L[k + (i - (k + 1))]
      BY <1>10, <3>2
    <3> QED
      BY <3>2, <3>3
  <2> QED
    BY <1>7, <1>10, <2>1, <2>2, <2>3
<1>12. \A v \in waiting[b] :
           /\ Clamped(pri[v]) <= Clamped(pri[r]) => Before(v, r)'
           /\ Clamped(pri[v]) > Clamped(pri[r]) => Before(r, v)'
  <2> SUFFICES ASSUME NEW v \in waiting[b]
               PROVE  /\ Clamped(pri[v]) <= Clamped(pri[r]) => Before(v, r)'
                      /\ Clamped(pri[v]) > Clamped(pri[r]) => Before(r, v)'
    OBVIOUS
  <2>1. Clamped(pri'[v]) = Clamped(pri[v]) /\ Clamped(pri'[r]) = Clamped(pri[r])
    BY <1>2
  <2>2. ticket'[v] < ticket'[r]
    BY <1>3, <1>5
  <2>3. Clamped(pri[v]) \in Nat /\ Clamped(pri[r]) \in Nat
    BY <1>5, <1>6
  <2> QED
    BY <2>1, <2>2, <2>3 DEF Before
<1>13. \A i \in 1 .. k : i \in 1 .. Len(L) /\ Before(L[i], r)'
  <2>1. \A i \in 1 .. k : i \in 1 .. Len(L)
    BY <1>7
  <2> QED
    BY <1>7, <1>8, <1>12, <2>1
<1>14. \A i \in k + 1 .. Len(L) : i \in 1 .. Len(L) /\ Before(r, L[i])'
  <2>1. \A i \in k + 1 .. Len(L) : i \in 1 .. Len(L)
    BY <1>7
  <2> QED
    BY <1>7, <1>8, <1>12, <2>1
<1>15. \A i, j \in 1 .. Len(L) : i < j => Before(L[i], L[j])'
  BY <1>4, <1>7
<1>16. ASSUME NEW i \in 1 .. Len(K), NEW j \in 1 .. Len(K), i < j
       PROVE  Before(K[i], K[j])'
  <2>1. k \in Int /\ Len(L) \in Int /\ Len(K) = Len(L) + 1
    BY <1>7, <1>10
  <2>2. CASE i \in 1 .. k /\ K[i] = L[i]
    <3>1. CASE j \in 1 .. k /\ K[j] = L[j]
      BY <1>13, <1>15, <1>16, <2>2, <3>1
    <3>2. CASE j = k + 1 /\ K[j] = r
      BY <1>13, <2>2, <3>2
    <3>3. CASE j - 1 \in k + 1 .. Len(L) /\ K[j] = L[j - 1]
      <4>1. i < j - 1
        BY <2>1, <2>2, <3>3
      <4> QED
        BY <1>13, <1>14, <1>15, <2>2, <3>3, <4>1
    <3> QED
      BY <1>11, <3>1, <3>2, <3>3
  <2>3. CASE i = k + 1 /\ K[i] = r
    <3>1. j - 1 \in k + 1 .. Len(L) /\ K[j] = L[j - 1]
      BY <1>11, <1>16, <2>1, <2>3
    <3> QED
      BY <1>14, <2>3, <3>1
  <2>4. CASE i - 1 \in k + 1 .. Len(L) /\ K[i] = L[i - 1]
    <3>1. j - 1 \in k + 1 .. Len(L) /\ K[j] = L[j - 1]
      BY <1>11, <1>16, <2>1, <2>4
    <3>2. i - 1 < j - 1
      BY <1>16, <2>1
    <3> QED
      BY <1>14, <1>15, <2>4, <3>1, <3>2
  <2> QED
    BY <1>11, <2>2, <2>3, <2>4
<1>17. ASSUME NEW x \in waiting'[b] PROVE \E i \in 1 .. Len(K) : K[i] = x
  <2>1. CASE x = r
    <3>1. k + 1 \in 1 .. Len(K)
      BY <1>7, <1>10
    <3> QED
      BY <1>10, <2>1, <3>1
  <2>2. CASE x # r
    <3>1. PICK i \in 1 .. Len(L) : L[i] = x
      BY <1>3, <1>7, <2>2
    <3>2. CASE i <= k
      <4>1. i \in 1 .. k /\ i \in 1 .. Len(K)
        BY <1>7, <1>10, <3>2
      <4> QED
        BY <1>10, <3>1, <4>1
    <3>3. CASE i > k
      <4>1. Len(L) \in Int /\ k \in Int /\ k >= 0
        BY <1>7
      <4>2. /\ i - k \in 1 .. Len(L) - k /\ k + (i - k) = i
            /\ k + 1 + (i - k) = i + 1 /\ i + 1 \in 1 .. Len(L) + 1
        BY <3>3, <4>1
      <4>3. K[k + 1 + (i - k)] = L[k + (i - k)]
        BY <1>10, <4>2
      <4>4. PICK j : j = i + 1
        OBVIOUS
      <4>5. K[j] = x /\ j \in 1 .. Len(K)
        BY <1>10, <3>1, <4>2, <4>3, <4>4
      <4> QED
        BY <4>5
    <3> QED
      BY <1>7, <3>2, <3>3
  <2> QED
    BY <2>1, <2>2
<1>18. Line'[b] = K
  BY <1>10, <1>16, <1>17, NewLine DEF Mapped, Before
<1>19. \A c \in Books \ {b} : Line'[c] = Line[c]
  BY <1>3, <1>4, SameLine DEF Mapped
<1>20. Line' = [Line EXCEPT ![b] = K]
  BY <1>18, <1>19, LineBecomes
<1>21. Holder' = Holder
  <2>1. \A q \in Requests : Owns(q)' <=> Owns(q)
    BY <1>1, <1>2 DEF Owns, IInv, TypeOK
  <2> QED
    BY <1>2, <2>1, SameHolders DEF Mapped, IInv
<1>22. Holder[b] # Nobody
  <2>1. PICK q \in Requests : book[q] = b /\ Owns(q)
    BY <1>1 DEF IInv, ActiveIsOwned
  <2> QED
    BY <2>1, NobodyAssumption DEF Mapped, HoldersSound
<1>23. Promise!InsertAt(L, k + 1, r) = K
  <2>1. k + 1 - 1 = k
    BY <1>7
  <2>2. SubSeq(L, 1, (k + 1) - 1) = SubSeq(L, 1, k)
    BY <2>1
  <2> QED
    BY <1>9, <2>2, Zenon DEF Promise!InsertAt
<1>24. [Line EXCEPT ![b] = Promise!InsertAt(@, k + 1, r)] = Line'
  BY <1>20, <1>23
<1>25. /\ \A i \in 1 .. k : Clamped(pri[Line[b][i]]) <= Clamped(pri[r])
       /\ \A i \in k + 1 .. Len(Line[b]) : Clamped(pri[Line[b][i]]) > Clamped(pri[r])
       /\ k \in 0 .. Len(Line[b])
  BY <1>8
<1>26. /\ \A i \in 1 .. Len(Line[b]) : Line[b][i] \in Requests
       /\ \A i \in 1 .. k : i \in 1 .. Len(Line[b])
       /\ \A i \in k + 1 .. Len(Line[b]) : i \in 1 .. Len(Line[b])
  BY <1>3, <1>7, <1>13, <1>14
<1>27. [q \in Requests |-> Clamped(pri'[q])] = [q \in Requests |-> Clamped(pri[q])]
  BY <1>2, SameUrgency
<1>28. Promise!Join(r, b)
  BY <1>2, <1>21, <1>22, <1>24, <1>25, <1>26, <1>27 DEF Promise!Join
<1> QED
  BY <1>28

(* A request that was still in the heap leaves the line; one that had been *)
(* granted the slot keeps it until it calls release.                       *)
LEMMA WithdrawRefines ==
    ASSUME IInv, Mapped, Mapped', NEW r \in Requests, Withdraw(r)
    PROVE  Promise!LeaveLine(r, book[r]) \/ (Holder' = Holder /\ Line' = Line)
<1> PICK b \in Books : b = book[r]
  BY DEF IInv, TypeOK
<1> PICK L : L = Line[b]
  OBVIOUS
<1>1. /\ pc[r] = "queued" /\ r \in cancelled
      /\ waiting' = [waiting EXCEPT ![b] = @ \ {r}]
      /\ pc' = [pc EXCEPT ![r] = IF r \in granted THEN "leaving" ELSE "done"]
      /\ UNCHANGED <<book, pri, active, seq, ticket, granted, cancelled>>
  BY DEF Withdraw
<1>2. \A q \in Requests : Owns(q)' <=> Owns(q)
  BY <1>1 DEF Owns, IInv, TypeOK
<1>3. Holder' = Holder
  BY <1>1, <1>2, SameHolders DEF Mapped, IInv
<1>4. CASE r \notin waiting[b]
  <2>1. waiting' = waiting
    BY <1>1, <1>4 DEF IInv, TypeOK
  <2> QED
    BY <1>1, <1>3, <2>1, SameLines DEF Mapped
<1>5. CASE r \in waiting[b]
  <2>1. /\ waiting'[b] = waiting[b] \ {r}
        /\ \A c \in Books \ {b} : waiting'[c] = waiting[c]
    BY <1>1 DEF IInv, TypeOK
  <2>2. \A v, w : Before(v, w) => Before(v, w)'
    BY <1>1 DEF Before, Clamped
  <2>3. /\ L \in Seq(waiting[b]) /\ Len(L) \in Nat /\ DOMAIN L = 1 .. Len(L)
        /\ \A i \in 1 .. Len(L) : L[i] \in waiting[b]
        /\ \A x \in waiting[b] : \E i \in 1 .. Len(L) : L[i] = x
        /\ \A i, j \in 1 .. Len(L) : Before(L[i], L[j]) <=> i < j
    BY LineShape DEF Mapped
  <2>4. PICK m \in 1 .. Len(L) : L[m] = r
    BY <1>5, <2>3
  <2>5. PICK K : K = SubSeq(L, 1, m - 1) \o SubSeq(L, m + 1, Len(L))
    OBVIOUS
  <2>6. K \in Seq(waiting[b]) /\ Shortened(K, L, m)
    <3>1. L \in Seq(waiting[b]) /\ m \in 1 .. Len(L)
      BY <2>3
    <3> QED
      BY <2>5, <3>1, ShortenedSeq
  <2>7. /\ Len(K) = Len(L) - 1
        /\ \A i \in 1 .. m - 1 : K[i] = L[i]
        /\ \A i \in 1 .. Len(L) - m : K[m - 1 + i] = L[m + i]
    BY <2>6 DEF Shortened
  <2>8. \A i \in 1 .. Len(L) : L[i] = r => i = m
    BY <2>3, <2>4
  <2>9. ASSUME NEW i \in 1 .. Len(K)
        PROVE  \/ i < m /\ i \in 1 .. Len(L) /\ K[i] = L[i]
               \/ i >= m /\ i + 1 \in 1 .. Len(L) /\ K[i] = L[i + 1]
    <3>1. Len(L) \in Int /\ m \in Int /\ i \in Int /\ i >= 1 /\ i <= Len(L) - 1 /\ m >= 1
      BY <2>3, <2>7
    <3>2. CASE i < m
      BY <2>7, <3>1, <3>2
    <3>3. CASE i >= m
      <4>1. /\ i - m + 1 \in 1 .. Len(L) - m /\ m - 1 + (i - m + 1) = i
            /\ m + (i - m + 1) = i + 1 /\ i + 1 \in 1 .. Len(L)
        BY <3>1, <3>3
      <4>2. K[m - 1 + (i - m + 1)] = L[m + (i - m + 1)]
        BY <2>7, <4>1
      <4> QED
        BY <3>3, <4>1, <4>2
    <3> QED
      BY <3>1, <3>2, <3>3
  <2>10. ASSUME NEW i \in 1 .. Len(K) PROVE K[i] \in waiting'[b]
    <3>1. CASE i < m /\ i \in 1 .. Len(L) /\ K[i] = L[i]
      <4>1. L[i] # r /\ L[i] \in waiting[b]
        BY <2>3, <2>8, <3>1
      <4> QED
        BY <2>1, <3>1, <4>1
    <3>2. CASE i >= m /\ i + 1 \in 1 .. Len(L) /\ K[i] = L[i + 1]
      <4>1. i + 1 # m
        BY <3>2
      <4>2. L[i + 1] # r /\ L[i + 1] \in waiting[b]
        BY <2>3, <2>8, <3>2, <4>1
      <4> QED
        BY <2>1, <3>2, <4>2
    <3> QED
      BY <2>9, <3>1, <3>2
  <2>11. K \in Seq(waiting'[b])
    BY <2>6, <2>10, SeqWithin
  <2>12. \A i, j \in 1 .. Len(L) : i < j => Before(L[i], L[j])'
    BY <2>2, <2>3
  <2>13. ASSUME NEW i \in 1 .. Len(K), NEW j \in 1 .. Len(K), i < j
         PROVE  Before(K[i], K[j])'
    <3>1. i \in Int /\ j \in Int /\ m \in Int
      BY <2>3, <2>7
    <3>2. CASE j < m
      <4>1. /\ i \in 1 .. Len(L) /\ K[i] = L[i]
            /\ j \in 1 .. Len(L) /\ K[j] = L[j]
        BY <2>9, <2>13, <3>1, <3>2
      <4> QED
        BY <2>12, <2>13, <4>1
    <3>3. CASE i < m /\ j >= m
      <4>1. /\ i \in 1 .. Len(L) /\ K[i] = L[i]
            /\ j + 1 \in 1 .. Len(L) /\ K[j] = L[j + 1] /\ i < j + 1
        BY <2>9, <2>13, <3>1, <3>3
      <4> QED
        BY <2>12, <4>1
    <3>4. CASE i >= m
      <4>1. /\ i + 1 \in 1 .. Len(L) /\ K[i] = L[i + 1]
            /\ j + 1 \in 1 .. Len(L) /\ K[j] = L[j + 1] /\ i + 1 < j + 1
        BY <2>9, <2>13, <3>1, <3>4
      <4> QED
        BY <2>12, <4>1
    <3> QED
      BY <3>1, <3>2, <3>3, <3>4
  <2>14. ASSUME NEW x \in waiting'[b] PROVE \E i \in 1 .. Len(K) : K[i] = x
    <3>1. PICK i \in 1 .. Len(L) : L[i] = x
      BY <2>1, <2>3
    <3>2. i # m
      BY <2>1, <2>4, <3>1
    <3>3. Len(L) \in Int /\ m \in Int /\ m >= 1 /\ m <= Len(L)
      BY <2>3
    <3>4. CASE i < m
      <4>1. i \in 1 .. m - 1 /\ i \in 1 .. Len(K)
        BY <2>7, <3>3, <3>4
      <4> QED
        BY <2>7, <3>1, <4>1
    <3>5. CASE i > m
      <4>1. /\ i - m \in 1 .. Len(L) - m /\ m + (i - m) = i
            /\ m - 1 + (i - m) = i - 1 /\ i - 1 \in 1 .. Len(L) - 1
        BY <3>3, <3>5
      <4>2. K[m - 1 + (i - m)] = L[m + (i - m)]
        BY <2>7, <4>1
      <4>3. PICK j : j = i - 1
        OBVIOUS
      <4>4. K[j] = x /\ j \in 1 .. Len(K)
        BY <2>7, <3>1, <4>1, <4>2, <4>3
      <4> QED
        BY <4>4
    <3> QED
      BY <3>2, <3>3, <3>4, <3>5
  <2>15. Line'[b] = K
    BY <2>11, <2>13, <2>14, NewLine DEF Mapped, Before
  <2>16. \A c \in Books \ {b} : Line'[c] = Line[c]
    BY <2>1, <2>2, SameLine DEF Mapped
  <2>17. Line' = [Line EXCEPT ![b] = K]
    BY <2>15, <2>16, LineBecomes
  <2>18. Promise!RemoveAt(L, m) = K
    BY <2>5, Zenon DEF Promise!RemoveAt
  <2>19. [Line EXCEPT ![b] = Promise!RemoveAt(@, m)] = Line'
    BY <2>17, <2>18
  <2>20. [q \in Requests |-> Clamped(pri'[q])] = [q \in Requests |-> Clamped(pri[q])]
    BY <1>1, SameUrgency
  <2>21. m \in DOMAIN Line[b] /\ Line[b][m] = r
    BY <2>3, <2>4
  <2>22. Promise!LeaveLine(r, b)
    BY <1>1, <1>3, <2>19, <2>20, <2>21 DEF Promise!LeaveLine
  <2> QED
    BY <2>22
<1> QED
  BY <1>4, <1>5

(* release passes the slot to the first of the line that is still wanted,  *)
(* and drops those before it.                                              *)
LEMMA HandOverRefines ==
    ASSUME IInv, Mapped, Mapped', NEW r \in Requests, Release(r), HandOver(r)
    PROVE  Promise!PassOn(book[r])
<1> PICK b \in Books : b = book[r]
  BY DEF IInv, TypeOK
<1> PICK L : L = Line[b]
  OBVIOUS
<1>1. PICK w \in Live(b) :
        /\ \A v \in Live(b) \ {w} : Before(w, v)
        /\ waiting' = [waiting EXCEPT ![b] = {v \in @ : Before(w, v)}]
        /\ granted' = granted \cup {w}
        /\ UNCHANGED active
  BY DEF HandOver
<1>2. /\ pc[r] \in {"holding", "leaving"}
      /\ pc' = [pc EXCEPT ![r] = "done"]
      /\ UNCHANGED <<book, pri, seq, ticket, cancelled>>
  BY DEF Release
<1>3. /\ w \in waiting[b] /\ w \notin cancelled
      /\ w \in Requests /\ book[w] = b /\ pc[w] = "queued" /\ w \notin granted
      /\ w # r
  BY <1>1, <1>2 DEF Live, IInv, TypeOK, HeapSound
<1>4. /\ waiting'[b] = {v \in waiting[b] : Before(w, v)}
      /\ \A c \in Books \ {b} : waiting'[c] = waiting[c]
  BY <1>1 DEF IInv, TypeOK
<1>5. \A u, v : Before(u, v) => Before(u, v)'
  BY <1>2 DEF Before, Clamped
<1>6. /\ L \in Seq(waiting[b]) /\ Len(L) \in Nat
      /\ \A i \in 1 .. Len(L) : L[i] \in waiting[b]
      /\ \A x \in waiting[b] : \E i \in 1 .. Len(L) : L[i] = x
      /\ \A i, j \in 1 .. Len(L) : Before(L[i], L[j]) <=> i < j
  BY LineShape DEF Mapped
<1>7. PICK m \in 1 .. Len(L) : L[m] = w
  BY <1>3, <1>6
<1>8. m \in 0 .. Len(L) /\ m \in Int /\ m >= 1
  BY <1>6
<1>9. PICK K : K = SubSeq(L, m + 1, Len(L))
  OBVIOUS
<1>10. K \in Seq(waiting[b]) /\ Len(K) = Len(L) - m /\ \A i \in 1 .. Len(K) : K[i] = L[m + i]
  <2>1. PICK S : S = waiting[b]
    OBVIOUS
  <2>2. L \in Seq(S) /\ m \in 0 .. Len(L)
    BY <1>6, <1>8, <2>1
  <2>3. K \in Seq(S) /\ Rest(K, L, m)
    BY <1>9, <2>2, RestIsRest
  <2> QED
    BY <2>1, <2>3 DEF Rest
<1>11. \A i \in 1 .. Len(K) : m + i \in 1 .. Len(L) /\ m < m + i
  BY <1>6, <1>8, <1>10
<1>12. ASSUME NEW i \in 1 .. Len(K) PROVE K[i] \in waiting'[b]
  <2>1. L[m + i] \in waiting[b] /\ Before(w, L[m + i])
    BY <1>6, <1>7, <1>11
  <2> QED
    BY <1>4, <1>10, <2>1
<1>13. K \in Seq(waiting'[b])
  BY <1>10, <1>12, SeqWithin
<1>14. ASSUME NEW i \in 1 .. Len(K), NEW j \in 1 .. Len(K), i < j
       PROVE  Before(K[i], K[j])'
  <2>1. m + i < m + j
    BY <1>8, <1>14
  <2>2. Before(L[m + i], L[m + j])
    BY <1>6, <1>11, <2>1
  <2> QED
    BY <1>5, <1>10, <2>2
<1>15. ASSUME NEW x \in waiting'[b] PROVE \E i \in 1 .. Len(K) : K[i] = x
  <2>1. PICK j \in 1 .. Len(L) : L[j] = x
    BY <1>4, <1>6
  <2>2. m < j
    BY <1>4, <1>6, <1>7, <2>1
  <2>3. j - m \in 1 .. Len(K) /\ m + (j - m) = j
    BY <1>6, <1>8, <1>10, <2>2
  <2>4. PICK i : i = j - m
    OBVIOUS
  <2>5. i \in 1 .. Len(K) /\ K[i] = x
    BY <1>10, <2>1, <2>3, <2>4
  <2> QED
    BY <2>5
<1>16. Line'[b] = K
  BY <1>13, <1>14, <1>15, NewLine DEF Mapped, Before
<1>17. \A c \in Books \ {b} : Line'[c] = Line[c]
  BY <1>4, <1>5, SameLine DEF Mapped
<1>18. Line' = [Line EXCEPT ![b] = K]
  BY <1>16, <1>17, LineBecomes
<1>19. \A q \in Requests : Owns(q)' <=> (Owns(q) /\ q # r) \/ q = w
  BY <1>1, <1>2, <1>3 DEF Owns, IInv, TypeOK
<1>20. Holder[b] = r
  BY <1>2 DEF Owns, Mapped, HoldersSound
<1>21. Holder'[b] = w
  BY <1>2, <1>3, <1>19 DEF Mapped, HoldersSound
<1>22. \A c \in Books \ {b} : Holder'[c] = Holder[c]
  BY <1>2, <1>3, <1>19, SameHolder DEF Mapped
<1>23. Holder' = [Holder EXCEPT ![b] = w]
  BY <1>21, <1>22, HolderBecomes
<1>24. ASSUME NEW j \in 1 .. m - 1 PROVE L[j] \in cancelled
  <2>1. j \in 1 .. Len(L) /\ j < m /\ ~(m < j)
    BY <1>6, <1>8
  <2>2. L[j] \in waiting[b] /\ ~Before(w, L[j]) /\ L[j] # w
    BY <1>6, <1>7, <2>1
  <2> QED
    BY <1>1, <2>2 DEF Live
<1>25. Promise!FirstWanted(b, m)
  <2>1. DOMAIN L = 1 .. Len(L)
    BY <1>6, LenProperties
  <2> QED
    BY <1>3, <1>7, <1>24, <2>1 DEF Promise!FirstWanted
<1>26. [Line EXCEPT ![b] = SubSeq(@, m + 1, Len(@))] = Line'
  BY <1>9, <1>18
<1>27. [Holder EXCEPT ![b] = Line[b][m]] = Holder'
  BY <1>7, <1>23
<1>28. [q \in Requests |-> Clamped(pri'[q])] = [q \in Requests |-> Clamped(pri[q])]
  BY <1>2, SameUrgency
<1>29. Holder[b] # Nobody /\ m \in 1 .. Len(Line[b])
  BY <1>20, NobodyAssumption
<1>30. Promise!PassOn(b)
  BY <1>2, <1>25, <1>26, <1>27, <1>28, <1>29 DEF Promise!PassOn
<1> QED
  BY <1>30

(* Nobody of the line is still wanted: the slot becomes free. *)
LEMMA FreeRefines ==
    ASSUME IInv, Mapped, Mapped', NEW r \in Requests, Release(r), Free(r)
    PROVE  Promise!PassOn(book[r])
<1> PICK b \in Books : b = book[r]
  BY DEF IInv, TypeOK
<1>1. /\ Live(b) = {}
      /\ waiting' = [waiting EXCEPT ![b] = {}]
      /\ UNCHANGED granted
      /\ pc[r] \in {"holding", "leaving"}
      /\ pc' = [pc EXCEPT ![r] = "done"]
      /\ UNCHANGED <<book, pri, seq, ticket, cancelled>>
  BY DEF Free, Release
<1>2. waiting'[b] = {} /\ \A c \in Books \ {b} : waiting'[c] = waiting[c]
  BY <1>1 DEF IInv, TypeOK
<1>3. \A u, v : Before(u, v) => Before(u, v)'
  BY <1>1 DEF Before, Clamped
<1>4. Line'[b] = <<>>
  <2>1. <<>> \in Seq(waiting'[b]) /\ 1 .. Len(<<>>) = {}
    OBVIOUS
  <2> QED
    BY <1>2, <2>1, NewLine DEF Mapped
<1>5. \A c \in Books \ {b} : Line'[c] = Line[c]
  BY <1>2, <1>3, SameLine DEF Mapped
<1>6. Line' = [Line EXCEPT ![b] = <<>>]
  BY <1>4, <1>5, LineBecomes
<1>7. \A q \in Requests : Owns(q)' <=> Owns(q) /\ q # r
  BY <1>1 DEF Owns, IInv, TypeOK
<1>8. Owns(r)
  BY <1>1 DEF Owns
<1>9. Holder[b] = r
  BY <1>8 DEF Mapped, HoldersSound
<1>10. \A q \in Requests : book[q] = b => ~Owns(q)'
  BY <1>7, <1>8 DEF IInv, OneOwner
<1>11. Holder'[b] = Nobody
  BY <1>1, <1>10 DEF Mapped, HoldersSound
<1>12. \A c \in Books \ {b} : Holder'[c] = Holder[c]
  BY <1>1, <1>7, SameHolder DEF Mapped
<1>13. Holder' = [Holder EXCEPT ![b] = Nobody]
  BY <1>11, <1>12, HolderBecomes
<1>14. Promise!ToSet(Line[b]) \subseteq cancelled
  <2>1. \A i \in DOMAIN Line[b] : Line[b][i] \in waiting[b]
    BY LineShape DEF Mapped
  <2> QED
    BY <1>1, <2>1 DEF Live, Promise!ToSet
<1>15. [q \in Requests |-> Clamped(pri'[q])] = [q \in Requests |-> Clamped(pri[q])]
  BY <1>1, SameUrgency
<1>16. Promise!PassOn(b)
  BY <1>1, <1>6, <1>9, <1>13, <1>14, <1>15, NobodyAssumption DEF Promise!PassOn
<1> QED
  BY <1>16

LEMMA CancelRefines ==
    ASSUME IInv, Mapped, Mapped', NEW r \in Requests, Cancel(r)
    PROVE  Promise!Abandon(r)
<1>1. /\ cancelled' = cancelled \cup {r}
      /\ UNCHANGED <<book, pri, waiting, ticket, granted, pc>>
  BY DEF Cancel
<1>2. Holder' = Holder
  <2>1. \A q \in Requests : Owns(q)' <=> Owns(q)
    BY <1>1 DEF Owns
  <2> QED
    BY <1>1, <2>1, SameHolders DEF Mapped, IInv
<1>3. Line' = Line
  BY <1>1, SameLines DEF Mapped
<1> QED
  BY <1>1, <1>2, <1>3, SameUrgency DEF Promise!Abandon

LEMMA SlotStepRefines ==
    IInv /\ HeapOrdered /\ Mapped /\ Mapped' /\ [Next]_vars
        => [Promise!Next]_(Promise!slotVars)
<1> SUFFICES ASSUME IInv, HeapOrdered, Mapped, Mapped', [Next]_vars
             PROVE  [Promise!Next]_(Promise!slotVars)
  OBVIOUS
<1>1. ASSUME pri' = pri, cancelled' = cancelled, Holder' = Holder, Line' = Line
      PROVE  UNCHANGED Promise!slotVars
  BY <1>1, SameUrgency DEF Promise!slotVars
<1>2. ASSUME NEW r \in Requests, NEW b \in Books,
             Promise!TakeFree(r, b) \/ Promise!Join(r, b) \/ Promise!LeaveLine(r, b)
      PROVE  Promise!Next
  BY <1>2 DEF Promise!Next
<1>3. ASSUME NEW r \in Requests, Step(r) PROVE [Promise!Next]_(Promise!slotVars)
  <2>1. book[r] \in Books
    BY DEF IInv, TypeOK
  <2>2. CASE TakeSlot(r)
    BY <1>2, <2>1, <2>2, TakeSlotRefines
  <2>3. CASE Enqueue(r)
    BY <1>2, <2>1, <2>3, EnqueueRefines
  <2>4. CASE Wake(r) \/ CheckContext(r)
    BY <1>1, <2>4, OwnerMovesRefines DEF Wake, CheckContext
  <2>5. CASE Withdraw(r)
    BY <1>1, <1>2, <2>1, <2>5, WithdrawRefines DEF Withdraw
  <2>6. CASE Release(r)
    <3>1. HandOver(r) \/ Free(r)
      BY <2>6 DEF Release
    <3>2. Promise!PassOn(book[r])
      BY <2>6, <3>1, HandOverRefines, FreeRefines
    <3> QED
      BY <2>1, <3>2 DEF Promise!Next
  <2> QED
    BY <1>3, <2>2, <2>3, <2>4, <2>5, <2>6 DEF Step
<1>4. ASSUME NEW r \in Requests, Cancel(r) PROVE Promise!Next
  BY <1>4, CancelRefines DEF Promise!Next
<1>5. CASE UNCHANGED vars
  <2>1. /\ UNCHANGED <<book, pri, waiting, ticket, cancelled>>
        /\ \A q \in Requests : Owns(q)' <=> Owns(q)
    BY <1>5 DEF vars, Owns
  <2>2. Holder' = Holder /\ Line' = Line
    BY <2>1, SameHolders, SameLines DEF Mapped, IInv
  <2> QED
    BY <1>1, <2>1, <2>2
<1> QED
  BY <1>3, <1>4, <1>5 DEF Next, Terminating

LEMMA SlotInitRefines == Init => Promise!Init
<1> SUFFICES ASSUME Init PROVE Promise!Init
  OBVIOUS
<1>1. \A r \in Requests : ~Owns(r)
  BY DEF Init, Owns
<1>2. Holder = [b \in Books |-> Nobody]
  BY <1>1 DEF Holder
<1>3. Line = [b \in Books |-> <<>>]
  <2>1. Line = [b \in Books |-> Line[b]]
    BY DEF Line
  <2>2. ASSUME NEW b \in Books PROVE Line[b] = <<>>
    <3>1. waiting[b] = {} /\ Cardinality({}) = 0
      BY FS_EmptySet DEF Init
    <3>2. InOrder(Line[b], Queue(b), waiting[b])
      BY InitIInv, InitHeapOrdered, HeapIsLine DEF LinesSound
    <3>3. Line[b] \in Seq({}) /\ Len(Line[b]) = 0
      BY <3>1, <3>2 DEF InOrder
    <3> QED
      BY <3>3, EmptySeq
  <2> QED
    BY <2>1, <2>2
<1>4. [r \in Requests |-> Clamped(pri[r])] \in [Requests -> Nat]
  <2>1. TypeOK
    BY InitIInv DEF IInv
  <2>2. \A r \in Requests : Clamped(pri[r]) \in Nat
    BY <2>1, UrgenciesAreNumbers
  <2> QED
    BY <2>2
<1>5. cancelled = {}
  BY DEF Init
<1> QED
  BY <1>2, <1>3, <1>4, <1>5 DEF Promise!Init

(* sched.go implements a priority slot: for any number of requests, books  *)
(* and priorities, every step of acquire, release or a leaving client is a *)
(* step of the slot that PrioritySlot describes, or does not show in it.   *)
THEOREM SlotRefines == Spec => ImplementsPrioritySlot
<1>1. IInv /\ HeapOrdered => Mapped
  BY HeapIsLine, OwnerIsHolder DEF Mapped
<1> QED
  BY Invariance, InitHeapOrdered, NextHeapOrdered, SlotInitRefines, SlotStepRefines, <1>1, PTL
     DEF Spec, ImplementsPrioritySlot, Promise!Spec

------------------------------------------------------------------------------
(* ---- service.go: PagePipeline ---- *)

(* service.go uses sched.go as sched.go means to be used: every step of a  *)
(* page request is a step of its slot or leaves the slots alone, so what   *)
(* is proved of the slots holds in the pipeline.                           *)
THEOREM PipelineUsesSlots == PipeSpec => Spec
<1>1. PipeInit => Init
  BY DEF PipeInit
<1>2. [PipeNext]_pipeVars => [Next]_vars
  <2> SUFFICES ASSUME [PipeNext]_pipeVars PROVE [Next]_vars
    OBVIOUS
  <2>1. ASSUME NEW r \in Requests, Call(r) PROVE [Next]_vars
    <3>1. Step(r) \/ UNCHANGED vars
      BY <2>1 DEF Call, LookUp, AcquireDocSlot, TakePermit, GiveUpPermit, ReturnSlotEarly,
                  Recheck, Render, ReturnPermit, ReturnSlot, Encode, SavePage, Step
    <3> QED
      BY <3>1 DEF Next
  <2>2. ASSUME NEW r \in Requests, ClientLeaves(r) PROVE [Next]_vars
    BY <2>2 DEF ClientLeaves, Cancel, Next
  <2>3. ASSUME NEW m \in MetaCalls, MetaCall(m) PROVE [Next]_vars
    BY <2>3 DEF MetaCall, MetaLookUp, MetaTakePermit, MetaRender, MetaSave, MetaReturnPermit
  <2>4. CASE UNCHANGED pipeVars
    BY <2>4 DEF pipeVars
  <2> QED
    BY <2>1, <2>2, <2>3, <2>4 DEF PipeNext
<1> QED
  BY <1>1, <1>2, PTL DEF PipeSpec, Spec

(* In the pipeline, too, a slot passes by priority and arrival, never to a *)
(* request that was abandoned, and past nobody who waits.                  *)
THEOREM PipelineKeepsPromise == PipeSpec => ImplementsPrioritySlot
BY PipelineUsesSlots, SlotRefines, PTL

------------------------------------------------------------------------------
(* The inductive invariant, in three parts. *)

(* The types without the bounds of the permit count, which follow from     *)
(* PermitsHeld.                                                            *)
PipeTypes ==
    /\ page \in [Requests -> Pages]
    /\ stage \in [Requests -> CallStages]
    /\ rendered \subseteq Requests
    /\ served \subseteq Requests
    /\ metaBook \in [MetaCalls -> Books]
    /\ metaStage \in [MetaCalls -> MetaStages]
    /\ diskPages \subseteq Books \X Pages
    /\ diskMeta \subseteq Books

(* RenderPageTimed and docSlot.acquire agree on who has the slot. *)
StageFitsSlot ==
    \A r \in Requests :
        /\ stage[r] = "lookup" => pc[r] = "idle"
        /\ stage[r] = "acquiring" => pc[r] \in {"idle", "took", "queued", "leaving"}
        /\ stage[r] \in {"permit", "giveup", "recheck", "render", "unpermit", "unslot"} =>
              pc[r] = "holding"
        /\ stage[r] \in {"encode", "save"} => pc[r] = "done"
        /\ stage[r] = "finished" => pc[r] \in {"idle", "done"}

Holders == {r \in Requests : HasPermit(r)}
MetaHolders == {m \in MetaCalls : MetaHasPermit(m)}

(* PermitsAccounted, with the finiteness that gives the count its meaning: *)
(* there may be any number of calls, but few hold permits.                 *)
PermitsHeld ==
    /\ IsFiniteSet(Holders) /\ IsFiniteSet(MetaHolders)
    /\ permits = Cardinality(Holders) + Cardinality(MetaHolders)
    /\ permits <= Concurrency

PipeInv ==
    /\ IInv
    /\ PipeTypes
    /\ StageFitsSlot
    /\ PermitsHeld

(* What each step does to the set of those who hold permits. *)
LEMMA PermitTaken ==
    ASSUME PermitsHeld, permits < Concurrency, permits' = permits + 1,
           \/ /\ \E x : x \notin Holders /\ Holders' = Holders \cup {x}
              /\ MetaHolders' = MetaHolders
           \/ /\ \E x : x \notin MetaHolders /\ MetaHolders' = MetaHolders \cup {x}
              /\ Holders' = Holders
    PROVE  PermitsHeld'
<1>1. Concurrency \in Nat
  BY PipeAssumption
<1>2. Cardinality(Holders) \in Nat /\ Cardinality(MetaHolders) \in Nat
  BY FS_CardinalityType DEF PermitsHeld
<1>3. /\ IsFiniteSet(Holders') /\ IsFiniteSet(MetaHolders')
      /\ Cardinality(Holders') + Cardinality(MetaHolders')
            = Cardinality(Holders) + Cardinality(MetaHolders) + 1
  <2>1. ASSUME NEW S, IsFiniteSet(S), NEW x, x \notin S
        PROVE  /\ IsFiniteSet(S \cup {x})
               /\ Cardinality(S \cup {x}) = Cardinality(S) + 1
    BY <2>1, FS_AddElement
  <2>2. CASE /\ \E x : x \notin Holders /\ Holders' = Holders \cup {x}
             /\ MetaHolders' = MetaHolders
    <3>1. IsFiniteSet(Holders) /\ IsFiniteSet(MetaHolders)
      BY DEF PermitsHeld
    <3>2. IsFiniteSet(Holders') /\ Cardinality(Holders') = Cardinality(Holders) + 1
      BY <2>1, <2>2, <3>1
    <3> QED
      BY <1>2, <2>2, <3>1, <3>2
  <2>3. CASE /\ \E x : x \notin MetaHolders /\ MetaHolders' = MetaHolders \cup {x}
             /\ Holders' = Holders
    <3>1. IsFiniteSet(MetaHolders) /\ IsFiniteSet(Holders)
      BY DEF PermitsHeld
    <3>2. IsFiniteSet(MetaHolders') /\ Cardinality(MetaHolders') = Cardinality(MetaHolders) + 1
      BY <2>1, <2>3, <3>1
    <3> QED
      BY <1>2, <2>3, <3>1, <3>2
  <2> QED
    BY <2>2, <2>3
<1> QED
  BY <1>1, <1>2, <1>3 DEF PermitsHeld

LEMMA PermitReturned ==
    ASSUME PermitsHeld, permits' = permits - 1,
           \/ /\ \E x : x \in Holders /\ Holders' = Holders \ {x}
              /\ MetaHolders' = MetaHolders
           \/ /\ \E x : x \in MetaHolders /\ MetaHolders' = MetaHolders \ {x}
              /\ Holders' = Holders
    PROVE  PermitsHeld'
<1>1. Concurrency \in Nat
  BY PipeAssumption
<1>2. Cardinality(Holders) \in Nat /\ Cardinality(MetaHolders) \in Nat
  BY FS_CardinalityType DEF PermitsHeld
<1>3. /\ IsFiniteSet(Holders') /\ IsFiniteSet(MetaHolders')
      /\ Cardinality(Holders') + Cardinality(MetaHolders')
            = Cardinality(Holders) + Cardinality(MetaHolders) - 1
  <2>1. ASSUME NEW S, IsFiniteSet(S), NEW x, x \in S
        PROVE  /\ IsFiniteSet(S \ {x})
               /\ Cardinality(S \ {x}) = Cardinality(S) - 1
    BY <2>1, FS_RemoveElement
  <2>2. CASE /\ \E x : x \in Holders /\ Holders' = Holders \ {x}
             /\ MetaHolders' = MetaHolders
    <3>1. IsFiniteSet(Holders) /\ IsFiniteSet(MetaHolders)
      BY DEF PermitsHeld
    <3>2. IsFiniteSet(Holders') /\ Cardinality(Holders') = Cardinality(Holders) - 1
      BY <2>1, <2>2, <3>1
    <3> QED
      BY <1>2, <2>2, <3>1, <3>2
  <2>3. CASE /\ \E x : x \in MetaHolders /\ MetaHolders' = MetaHolders \ {x}
             /\ Holders' = Holders
    <3>1. IsFiniteSet(MetaHolders) /\ IsFiniteSet(Holders)
      BY DEF PermitsHeld
    <3>2. IsFiniteSet(MetaHolders') /\ Cardinality(MetaHolders') = Cardinality(MetaHolders) - 1
      BY <2>1, <2>3, <3>1
    <3> QED
      BY <1>2, <2>3, <3>1, <3>2
  <2> QED
    BY <2>2, <2>3
<1> QED
  BY <1>1, <1>2, <1>3 DEF PermitsHeld

LEMMA PermitsKept ==
    ASSUME PermitsHeld, permits' = permits, Holders' = Holders, MetaHolders' = MetaHolders
    PROVE  PermitsHeld'
BY DEF PermitsHeld

(* An action of a page request leaves the other requests, and Meta, alone, *)
(* and fits the slot's step.  Each action is checked against the parts of  *)
(* the invariant it can disturb.                                           *)
LEMMA CallKeepsTypes ==
    ASSUME PipeInv, NEW r \in Requests, Call(r)
    PROVE  PipeTypes'
<1> USE DEF PipeInv, PipeTypes, CallStages, Goto, callVars, metaVars, diskVars
<1>1. CASE LookUp(r)           BY <1>1 DEF LookUp
<1>2. CASE AcquireDocSlot(r)   BY <1>2 DEF AcquireDocSlot
<1>3. CASE TakePermit(r)       BY <1>3 DEF TakePermit
<1>4. CASE GiveUpPermit(r)     BY <1>4 DEF GiveUpPermit
<1>5. CASE ReturnSlotEarly(r)  BY <1>5 DEF ReturnSlotEarly
<1>6. CASE Recheck(r)          BY <1>6 DEF Recheck
<1>7. CASE Render(r)           BY <1>7 DEF Render
<1>8. CASE ReturnPermit(r)     BY <1>8 DEF ReturnPermit
<1>9. CASE ReturnSlot(r)       BY <1>9 DEF ReturnSlot
<1>10. CASE Encode(r)          BY <1>10 DEF Encode
<1>11. CASE SavePage(r)        BY <1>11 DEF SavePage, Wanted, IInv, TypeOK
<1> QED
  BY <1>1, <1>2, <1>3, <1>4, <1>5, <1>6, <1>7, <1>8, <1>9, <1>10, <1>11 DEF Call

(* How acquire moves on: never from the slot back into the queue. *)
LEMMA StepMovesOne ==
    ASSUME TypeOK, NEW r \in Requests, Step(r)
    PROVE  /\ \A q \in Requests \ {r} : pc'[q] = pc[q]
           /\ pc[r] = "idle" => pc'[r] \in {"took", "queued"}
           /\ pc[r] = "took" => pc'[r] \in {"leaving", "holding"}
           /\ pc[r] = "queued" => pc'[r] \in {"took", "leaving", "done"}
           /\ pc[r] = "leaving" => pc'[r] = "done"
BY DEF TypeOK, Stages, Step, TakeSlot, Enqueue, Wake, CheckContext, Withdraw, Release

LEMMA CallFitsSlot ==
    ASSUME PipeInv, NEW r \in Requests, Call(r)
    PROVE  StageFitsSlot'
<1> USE DEF PipeInv, PipeTypes, CallStages, StageFitsSlot, Goto
<1>1. CASE LookUp(r)           BY <1>1 DEF LookUp, vars
<1>2. CASE AcquireDocSlot(r)   BY <1>2, StepMovesOne DEF AcquireDocSlot, IInv
<1>3. CASE TakePermit(r)       BY <1>3 DEF TakePermit, vars
<1>4. CASE GiveUpPermit(r)     BY <1>4 DEF GiveUpPermit, vars
<1>5. CASE ReturnSlotEarly(r)  BY <1>5 DEF ReturnSlotEarly, Release, IInv, TypeOK
<1>6. CASE Recheck(r)          BY <1>6 DEF Recheck, vars
<1>7. CASE Render(r)           BY <1>7 DEF Render, vars
<1>8. CASE ReturnPermit(r)     BY <1>8 DEF ReturnPermit, vars
<1>9. CASE ReturnSlot(r)       BY <1>9 DEF ReturnSlot, Release, IInv, TypeOK
<1>10. CASE Encode(r)          BY <1>10 DEF Encode, vars
<1>11. CASE SavePage(r)        BY <1>11 DEF SavePage, vars
<1> QED
  BY <1>1, <1>2, <1>3, <1>4, <1>5, <1>6, <1>7, <1>8, <1>9, <1>10, <1>11 DEF Call

LEMMA CallKeepsCount ==
    ASSUME PipeInv, NEW r \in Requests, Call(r)
    PROVE  PermitsHeld'
<1> USE DEF PipeInv, PipeTypes, CallStages, Holders, MetaHolders, HasPermit, MetaHasPermit,
            Goto, metaVars
<1>1. ASSUME \/ LookUp(r) \/ AcquireDocSlot(r) \/ GiveUpPermit(r) \/ ReturnSlotEarly(r)
             \/ Recheck(r) \/ Render(r) \/ ReturnSlot(r) \/ Encode(r) \/ SavePage(r)
      PROVE  PermitsHeld'
  <2>1. permits' = permits /\ MetaHolders' = MetaHolders
    BY <1>1 DEF LookUp, AcquireDocSlot, GiveUpPermit, ReturnSlotEarly, Recheck, Render,
                ReturnSlot, Encode, SavePage
  <2>2. Holders' = Holders
    BY <1>1 DEF LookUp, AcquireDocSlot, GiveUpPermit, ReturnSlotEarly, Recheck, Render,
                ReturnSlot, Encode, SavePage
  <2> QED
    BY <2>1, <2>2, PermitsKept
<1>2. CASE TakePermit(r)
  <2>1. r \notin Holders /\ Holders' = Holders \cup {r} /\ MetaHolders' = MetaHolders
    BY <1>2 DEF TakePermit
  <2> QED
    BY <1>2, <2>1, PermitTaken DEF TakePermit
<1>3. CASE ReturnPermit(r)
  <2>1. r \in Holders /\ Holders' = Holders \ {r} /\ MetaHolders' = MetaHolders
    BY <1>3 DEF ReturnPermit
  <2> QED
    BY <1>3, <2>1, PermitReturned DEF ReturnPermit
<1> QED
  BY <1>1, <1>2, <1>3 DEF Call

(* A call of Meta touches permits and meta files only. *)
LEMMA MetaKeepsInv ==
    ASSUME PipeInv, NEW m \in MetaCalls, MetaCall(m)
    PROVE  PipeTypes' /\ StageFitsSlot' /\ PermitsHeld'
<1> USE DEF PipeInv, MetaGoto
<1>1. UNCHANGED <<vars, page, stage, rendered, served, metaBook, diskPages>>
  BY DEF MetaCall, MetaLookUp, MetaTakePermit, MetaRender, MetaSave, MetaReturnPermit,
         callVars, diskVars
<1>2. PipeTypes'
  BY <1>1 DEF MetaCall, MetaLookUp, MetaTakePermit, MetaRender, MetaSave, MetaReturnPermit,
              PipeTypes, MetaStages, diskVars
<1>3. StageFitsSlot'
  BY <1>1 DEF StageFitsSlot, vars
<1>4. Holders' = Holders
  BY <1>1 DEF Holders, HasPermit
<1>5. PermitsHeld'
  <2> USE DEF PipeTypes, MetaHolders, MetaHasPermit
  <2>1. CASE MetaLookUp(m) \/ MetaRender(m) \/ MetaSave(m)
    <3>1. permits' = permits /\ MetaHolders' = MetaHolders
      BY <2>1 DEF MetaLookUp, MetaRender, MetaSave
    <3> QED
      BY <1>4, <3>1, PermitsKept
  <2>2. CASE MetaTakePermit(m)
    <3>1. m \notin MetaHolders /\ MetaHolders' = MetaHolders \cup {m}
      BY <2>2 DEF MetaTakePermit
    <3> QED
      BY <1>4, <2>2, <3>1, PermitTaken DEF MetaTakePermit
  <2>3. CASE MetaReturnPermit(m)
    <3>1. m \in MetaHolders /\ MetaHolders' = MetaHolders \ {m}
      BY <2>3 DEF MetaReturnPermit
    <3> QED
      BY <1>4, <2>3, <3>1, PermitReturned DEF MetaReturnPermit
  <2> QED
    BY <2>1, <2>2, <2>3 DEF MetaCall
<1> QED
  BY <1>2, <1>3, <1>5

LEMMA InitPipeInv == PipeInit => PipeTypes /\ StageFitsSlot /\ PermitsHeld
<1> SUFFICES ASSUME PipeInit PROVE PipeTypes /\ StageFitsSlot /\ PermitsHeld
  OBVIOUS
<1>1. PipeTypes /\ StageFitsSlot
  BY DEF PipeInit, Init, PipeTypes, StageFitsSlot, CallStages, MetaStages
<1>2. Holders = {} /\ MetaHolders = {}
  BY DEF PipeInit, Holders, MetaHolders, HasPermit, MetaHasPermit
<1>3. PermitsHeld
  BY <1>2, FS_EmptySet, PipeAssumption DEF PermitsHeld, PipeInit
<1> QED
  BY <1>1, <1>3

LEMMA NextPipeInv ==
    PipeInv /\ [PipeNext]_pipeVars => PipeTypes' /\ StageFitsSlot' /\ PermitsHeld'
<1> SUFFICES ASSUME PipeInv, [PipeNext]_pipeVars
             PROVE  PipeTypes' /\ StageFitsSlot' /\ PermitsHeld'
  OBVIOUS
<1>1. ASSUME NEW r \in Requests, Call(r)
      PROVE  PipeTypes' /\ StageFitsSlot' /\ PermitsHeld'
  BY <1>1, CallKeepsTypes, CallFitsSlot, CallKeepsCount
<1>2. ASSUME \/ \E r \in Requests : ClientLeaves(r)
             \/ UNCHANGED pipeVars
      PROVE  PipeTypes' /\ StageFitsSlot' /\ PermitsHeld'
  <2>1. UNCHANGED <<pc, callVars, metaVars, permits, diskVars>>
    BY <1>2 DEF ClientLeaves, pipeVars, vars
  <2>2. PipeTypes' /\ StageFitsSlot'
    BY <2>1 DEF PipeInv, PipeTypes, StageFitsSlot, callVars, metaVars, diskVars
  <2>3. Holders' = Holders /\ MetaHolders' = MetaHolders
    BY <2>1 DEF Holders, MetaHolders, HasPermit, MetaHasPermit, callVars, metaVars
  <2>4. PermitsHeld'
    BY <2>1, <2>3, PermitsKept DEF PipeInv
  <2> QED
    BY <2>2, <2>4
<1>3. ASSUME NEW m \in MetaCalls, MetaCall(m)
      PROVE  PipeTypes' /\ StageFitsSlot' /\ PermitsHeld'
  BY <1>3, MetaKeepsInv
<1> QED
  BY <1>1, <1>2, <1>3 DEF PipeNext

(* The slots keep their invariant because the pipeline only takes steps of *)
(* theirs; the rest follows step by step.                                  *)
THEOREM PipeInvariance == PipeSpec => []PipeInv
<1>1. PipeSpec => []IInv
  BY PipelineUsesSlots, Invariance, PTL
<1>2. PipeInit => PipeTypes /\ StageFitsSlot /\ PermitsHeld
  BY InitPipeInv
<1>3. /\ IInv /\ PipeTypes /\ StageFitsSlot /\ PermitsHeld
      /\ [PipeNext]_pipeVars
      => PipeTypes' /\ StageFitsSlot' /\ PermitsHeld'
  BY NextPipeInv DEF PipeInv
<1>4. PipeInv <=> IInv /\ PipeTypes /\ StageFitsSlot /\ PermitsHeld
  BY DEF PipeInv
<1> QED
  BY <1>1, <1>2, <1>3, <1>4, PTL DEF PipeSpec

------------------------------------------------------------------------------
(* The variables of service.go keep their types, and the semaphore its     *)
(* bounds.                                                                 *)
THEOREM PipeTypeCorrect == PipeSpec => []PipeTypeOK
<1>1. PipeInv => PipeTypeOK
  <2> SUFFICES ASSUME PipeInv PROVE PipeTypeOK
    OBVIOUS
  <2>1. permits \in 0 .. Concurrency
    <3>1. Cardinality(Holders) \in Nat /\ Cardinality(MetaHolders) \in Nat
      BY FS_CardinalityType DEF PipeInv, PermitsHeld
    <3> QED
      BY <3>1, PipeAssumption DEF PipeInv, PermitsHeld
  <2> QED
    BY <2>1 DEF PipeInv, PipeTypes, PipeTypeOK, IInv
<1> QED
  BY PipeInvariance, <1>1, PTL

(* No permit of the semaphore is lost or returned twice, and no more       *)
(* renderings run than it has permits.                                     *)
THEOREM NoPermitLost == PipeSpec => []PermitsAccounted
<1>1. PipeInv => PermitsAccounted
  BY DEF PipeInv, PermitsHeld, PermitsAccounted, Holders, MetaHolders
<1> QED
  BY PipeInvariance, <1>1, PTL

(* However many readers a book has, it takes one permit. *)
THEOREM BookTakesOnePermit == PipeSpec => []OnePermitPerBook
<1>1. PipeInv => OnePermitPerBook
  BY DEF PipeInv, StageFitsSlot, IInv, OneOwner, Owns, HasPermit, OnePermitPerBook
<1> QED
  BY PipeInvariance, <1>1, PTL

(* A call that has returned neither owns the slot nor waits in its heap.   *)
THEOREM ReturnedCallsAreOut == PipeSpec => []ExitReleasesAll
<1>1. PipeInv => ExitReleasesAll
  BY DEF PipeInv, StageFitsSlot, IInv, TypeOK, HeapSound, Owns, ExitReleasesAll
<1> QED
  BY PipeInvariance, <1>1, PTL

(* A request that has become pointless before its rendering is pointless   *)
(* for good, and Recheck will see it.                                      *)
Doomed(r) ==
    /\ stage[r] # "render"
    /\ r \in cancelled \/ Wanted(r) \in diskPages

LEMMA DoomedStays ==
    ASSUME PipeInv, NEW r \in Requests, Doomed(r), [PipeNext]_pipeVars
    PROVE  Doomed(r)'
<1>1. /\ cancelled \subseteq cancelled' /\ diskPages \subseteq diskPages'
      /\ book' = book /\ page' = page
  <2>1. ASSUME NEW q \in Requests, Step(q) PROVE cancelled' = cancelled /\ book' = book
    BY <2>1 DEF Step, TakeSlot, Enqueue, Wake, CheckContext, Withdraw, Release
  <2>2. ASSUME NEW q \in Requests, Release(q) PROVE Step(q)
    BY <2>2 DEF Step
  <2>3. ASSUME NEW q \in Requests, Call(q)
        PROVE  /\ cancelled' = cancelled /\ diskPages \subseteq diskPages'
               /\ book' = book /\ page' = page
    BY <2>1, <2>2, <2>3
       DEF Call, LookUp, AcquireDocSlot, TakePermit, GiveUpPermit, ReturnSlotEarly, Recheck,
           Render, ReturnPermit, ReturnSlot, Encode, SavePage, vars, diskVars
  <2>4. ASSUME NEW q \in Requests, ClientLeaves(q)
        PROVE  /\ cancelled \subseteq cancelled' /\ diskPages \subseteq diskPages'
               /\ book' = book /\ page' = page
    BY <2>4 DEF ClientLeaves, callVars, diskVars
  <2>5. ASSUME NEW m \in MetaCalls, MetaCall(m)
        PROVE  UNCHANGED <<cancelled, diskPages, book, page>>
    BY <2>5 DEF MetaCall, MetaLookUp, MetaTakePermit, MetaRender, MetaSave, MetaReturnPermit,
                vars, callVars, diskVars
  <2> QED
    BY <2>3, <2>4, <2>5 DEF PipeNext, pipeVars, vars, callVars, diskVars
<1>2. stage'[r] # "render"
  <2>1. ASSUME NEW q \in Requests, Call(q) PROVE stage'[r] # "render"
    <3>1. Wanted(r) = <<book[r], page[r]>>
      BY DEF Wanted
    <3> QED
      BY <2>1, <3>1 DEF PipeInv, PipeTypes, Doomed, Goto, Call, LookUp, AcquireDocSlot,
          TakePermit, GiveUpPermit, ReturnSlotEarly, Recheck, Render, ReturnPermit, ReturnSlot,
          Encode, SavePage
  <2>2. ASSUME \/ \E q \in Requests : ClientLeaves(q)
               \/ \E m \in MetaCalls : MetaCall(m)
               \/ UNCHANGED pipeVars
        PROVE  stage' = stage
    BY <2>2 DEF ClientLeaves, MetaCall, MetaLookUp, MetaTakePermit, MetaRender, MetaSave,
                MetaReturnPermit, callVars, pipeVars
  <2> QED
    BY <2>1, <2>2 DEF PipeNext, Doomed
<1>3. Wanted(r)' = Wanted(r)
  BY <1>1 DEF Wanted
<1> QED
  BY <1>1, <1>2, <1>3 DEF Doomed

(* Nothing is rendered in vain. *)
THEOREM NothingRenderedInVain == PipeSpec => NoVainRender
<1> SUFFICES ASSUME NEW r \in Requests
             PROVE  PipeSpec => [](Pointless(r) => [](stage[r] # "render"))
  BY DEF NoVainRender
<1>1. Pointless(r) => Doomed(r)
  BY DEF Pointless, Doomed
<1>2. Doomed(r) => stage[r] # "render"
  BY DEF Doomed
<1>3. PipeInv /\ Doomed(r) /\ [PipeNext]_pipeVars => Doomed(r)'
  BY DoomedStays
<1> QED
  BY <1>1, <1>2, <1>3, PipeInvariance, PTL DEF PipeSpec
=============================================================================
