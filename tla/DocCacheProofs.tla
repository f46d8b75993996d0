---------------------------- MODULE DocCacheProofs ---------------------------
(* Theorems about DocCache for any goroutines, books and documents, any    *)
(* size of the cache and any limit of operations.                          *)
EXTENDS DocCache, RankTheorems, SequenceTheorems

(* The inductive invariant.  RefsExact is a part of it as it stands.       *)

(* The types, without the length of order, which follows from OrderSound.  *)
Types ==
    /\ cache \in [Paths -> Docs \cup {NoDoc}]
    /\ order \in Seq(Paths)
    /\ docs \in [Docs -> DocState]
    /\ pc \in [Threads -> Stages]
    /\ path \in [Threads -> Paths]
    /\ doc \in [Threads -> Docs \cup {NoDoc}]
    /\ victim \in [Threads -> Docs \cup {NoDoc}]
    /\ calls \in 0 .. Budget
    /\ reaped \subseteq Docs /\ closing \subseteq Docs
    /\ closeCalled \in BOOLEAN

WithDoc == {"lock", "unref", "destroy-own", "using", "release"}
WithVictim == {"destroy-victim", "publish", "destroy-own", "destroy-spent"}

(* Where a goroutine is tells which documents it has in hand, and they are *)
(* documents of the book it was called for.                                *)
Hands ==
    \A t \in Threads :
        /\ doc[t] # NoDoc <=> pc[t] \in WithDoc
        /\ victim[t] # NoDoc <=> pc[t] \in WithVictim
        /\ doc[t] # NoDoc => docs[doc[t]].path = path[t]
        /\ pc[t] = "publish" => docs[victim[t]].path = path[t]

(* Cached documents are open and stand under their own path. *)
CacheSound ==
    \A p \in Paths : cache[p] # NoDoc => docs[cache[p]].open /\ docs[cache[p]].path = p

OrderSound == ToSet(order) = Cached /\ IsInjective(order)

(* What somebody is about to destroy can no longer be found.               *)
CondemnedUncached ==
    \A p \in Paths :
        /\ \A t \in Threads : victim[t] # NoDoc => cache[p] # victim[t]
        /\ cache[p] \notin reaped \cup closing

(* A document that openFresh has not entered yet is its creator's alone.   *)
NewIsPrivate ==
    \A t \in Threads : pc[t] = "publish" =>
        LET d == victim[t] IN
        /\ docs[d].open /\ docs[d].lock = t
        /\ d \notin reaped \cup closing
        /\ \A u \in Threads : doc[u] # d /\ (u # t => victim[u] # d)

(* Until Close, a referenced document stays in the cache; Close takes it   *)
(* out, and destroys it when it can.                                       *)
ReferencedStays ==
    \A t \in Threads : doc[t] # NoDoc =>
        LET d == doc[t] IN
        \/ cache[docs[d].path] = d
        \/ closeCalled /\ (d \in closing \/ ~docs[d].open)

(* The first part of NothingLeaked. *)
OpenTracked ==
    \A d \in Docs : docs[d].open =>
        \/ cache[docs[d].path] = d
        \/ d \in reaped \cup closing
        \/ \E t \in Threads : d \in {doc[t], victim[t]}

(* Only Close fills closing. *)
CloseOnce == closing # {} => closeCalled

CacheInv ==
    /\ Types
    /\ Hands
    /\ RefsExact
    /\ CacheSound
    /\ OrderSound
    /\ CondemnedUncached
    /\ NewIsPrivate
    /\ ReferencedStays
    /\ OpenTracked
    /\ NeverUseClosed
    /\ CloseOnce

------------------------------------------------------------------------------
(* Renderer.order as a list without duplicates. *)

LEMMA InjectiveAppend ==
    ASSUME NEW S, NEW s \in Seq(S), IsInjective(s), NEW e \in S, e \notin ToSet(s)
    PROVE  /\ Append(s, e) \in Seq(S) /\ IsInjective(Append(s, e))
           /\ ToSet(Append(s, e)) = ToSet(s) \cup {e}
<1> DEFINE a == Append(s, e)
<1>1. Len(s) \in Nat /\ DOMAIN s = 1 .. Len(s) /\ \A i \in DOMAIN s : s[i] \in S
  BY LenProperties, ElementOfSeq
<1>2. /\ a \in Seq(S) /\ DOMAIN a = 1 .. Len(s) + 1
      /\ \A i \in 1 .. Len(s) : a[i] = s[i]
      /\ a[Len(s) + 1] = e
  BY <1>1, AppendProperties, LenProperties
<1> HIDE DEF a
<1>3. IsInjective(a)
  BY <1>1, <1>2 DEF IsInjective, ToSet
<1>4. ToSet(a) = ToSet(s) \cup {e}
  BY <1>1, <1>2 DEF ToSet
<1> QED
  BY <1>2, <1>3, <1>4 DEF a

LEMMA RemoveFirstFromInjective ==
    ASSUME NEW S, NEW s \in Seq(S), IsInjective(s), NEW e
    PROVE  /\ RemoveFirst(s, e) \in Seq(S) /\ IsInjective(RemoveFirst(s, e))
           /\ ToSet(RemoveFirst(s, e)) = ToSet(s) \ {e}
<1>1. Len(s) \in Nat /\ DOMAIN s = 1 .. Len(s) /\ \A i \in DOMAIN s : s[i] \in S
  BY LenProperties, ElementOfSeq
<1>2. CASE \A i \in 1 .. Len(s) : s[i] # e
  BY <1>1, <1>2 DEF RemoveFirst, ToSet
<1>3. CASE \E i \in 1 .. Len(s) : s[i] = e
  <2> DEFINE I == {i \in 1 .. Len(s) : s[i] = e}
             m == Min(I)
             r == SubSeq(s, 1, m - 1) \o SubSeq(s, m + 1, Len(s))
  <2>1. I \in SUBSET Nat /\ I # {}
    BY <1>1, <1>3
  <2>2. m \in I
    <3> HIDE DEF I
    <3> QED
      BY <2>1, LeastPosition
  <2>3. RemoveFirst(s, e) = r
    BY <1>3, <2>1 DEF RemoveFirst, RemoveAt, SelectInSeq
  <2> HIDE DEF m
  <2>4. m \in 1 .. Len(s) /\ s[m] = e
    BY <2>2
  <2>5. /\ r \in Seq(S) /\ Len(r) = Len(s) - 1
        /\ \A i \in 1 .. Len(s) - 1 : r[i] = IF i < m THEN s[i] ELSE s[i + 1]
    <3>1. PICK t : t = SubSeq(s, 1, m - 1) \o SubSeq(s, m + 1, Len(s))
      OBVIOUS
    <3>2. t \in Seq(S) /\ Shortened(t, s, m)
      BY <2>4, <3>1, ShortenedSeq
    <3>3. ASSUME NEW i \in 1 .. Len(s) - 1 PROVE t[i] = IF i < m THEN s[i] ELSE s[i + 1]
      <4>1. CASE i < m
        <5>1. i \in 1 .. m - 1
          BY <1>1, <2>4, <4>1
        <5> QED
          BY <3>2, <4>1, <5>1 DEF Shortened
      <4>2. CASE ~(i < m)
        <5>1. i - m + 1 \in 1 .. Len(s) - m /\ m - 1 + (i - m + 1) = i /\ m + (i - m + 1) = i + 1
          BY <1>1, <2>4, <4>2
        <5>2. t[m - 1 + (i - m + 1)] = s[m + (i - m + 1)]
          BY <3>2, <5>1 DEF Shortened
        <5> QED
          BY <4>2, <5>1, <5>2
      <4> QED
        BY <4>1, <4>2
    <3>4. t \in Seq(S) /\ Len(t) = Len(s) - 1
      BY <3>2 DEF Shortened
    <3> QED
      BY <3>1, <3>3, <3>4
  <2>6. DOMAIN r = 1 .. Len(s) - 1
    BY <2>5, LenProperties
  <2> HIDE DEF r, I
  <2>7. IsInjective(r)
    BY <1>1, <2>4, <2>5, <2>6 DEF IsInjective
  <2>8. ToSet(r) = ToSet(s) \ {e}
    <3>1. ASSUME NEW j \in 1 .. Len(s) - 1 PROVE r[j] \in ToSet(s) \ {e}
      BY <1>1, <2>4, <2>5 DEF IsInjective, ToSet
    <3>2. ASSUME NEW j \in 1 .. Len(s), s[j] # e PROVE \E i \in 1 .. Len(s) - 1 : r[i] = s[j]
      <4>1. CASE j < m
        BY <1>1, <2>4, <2>5, <4>1
      <4>2. CASE j > m
        <5>1. j - 1 \in 1 .. Len(s) - 1 /\ r[j - 1] = s[j]
          BY <1>1, <2>4, <2>5, <4>2
        <5> QED
          BY <5>1
      <4> QED
        BY <2>4, <3>2, <4>1, <4>2
    <3>3. ToSet(r) \subseteq ToSet(s) \ {e}
      BY <2>6, <3>1 DEF ToSet
    <3>4. ToSet(s) \ {e} \subseteq ToSet(r)
      BY <1>1, <2>6, <3>2 DEF ToSet
    <3> QED
      BY <3>3, <3>4
  <2> QED
    BY <2>3, <2>5, <2>7, <2>8
<1> QED
  BY <1>2, <1>3

(* touchLocked moves a path to the end, or enters it there. *)
LEMMA TouchedOrder ==
    ASSUME NEW S, NEW s \in Seq(S), IsInjective(s), NEW e \in S
    PROVE  LET a == Append(RemoveFirst(s, e), e)
           IN  a \in Seq(S) /\ IsInjective(a) /\ ToSet(a) = ToSet(s) \cup {e}
<1>1. /\ RemoveFirst(s, e) \in Seq(S) /\ IsInjective(RemoveFirst(s, e))
      /\ ToSet(RemoveFirst(s, e)) = ToSet(s) \ {e}
  BY RemoveFirstFromInjective
<1> QED
  BY <1>1, InjectiveAppend

(* What Without keeps: position k takes the path that has k - 1 kept ones  *)
(* before it.                                                              *)
LEMMA WithoutFromInjective ==
    ASSUME order \in Seq(Paths), IsInjective(order), NEW S
    PROVE  /\ Without(S) \in Seq(Paths) /\ IsInjective(Without(S))
           /\ ToSet(Without(S)) = ToSet(order) \ S
<1> DEFINE kept == {i \in DOMAIN order : order[i] \notin S}
           n == Cardinality(kept)
           before(i) == {j \in kept : j < i}
           at(k) == CHOOSE i \in kept : Cardinality(before(i)) = k - 1
<1>1. /\ Len(order) \in Nat /\ DOMAIN order = 1 .. Len(order)
      /\ order \in [DOMAIN order -> Paths]
  BY LenProperties
<1>2. IsFiniteSet(kept) /\ kept \in SUBSET Int
  <2>1. IsFiniteSet(1 .. Len(order))
    BY <1>1, FS_Interval, 1 \in Int, Len(order) \in Int
  <2>2. kept \in SUBSET DOMAIN order
    OBVIOUS
  <2>3. IsFiniteSet(kept)
    BY <1>1, <2>1, <2>2, FS_Subset
  <2> QED
    BY <1>1, <2>3
<1>3. /\ Orders(LessThan, kept)
      /\ \A i \in kept : Ahead(LessThan, kept, i) = before(i)
  <2> HIDE DEF kept
  <2> QED
    BY <1>2, IntegersOrdered
<1>4. n \in Nat
  BY <1>2, FS_CardinalityType
<1>5. \A k \in 1 .. n : at(k) \in kept /\ Cardinality(before(at(k))) = k - 1
  <2> TAKE k \in 1 .. n
  <2>1. k - 1 \in 0 .. n - 1
    BY <1>4
  <2> HIDE DEF kept
  <2>2. \E i \in kept : Cardinality(Ahead(LessThan, kept, i)) = k - 1
    <3> HIDE DEF before, at
    <3>1. IsFiniteSet(kept) /\ Orders(LessThan, kept)
      BY <1>2, <1>3
    <3> QED
      BY <2>1, <3>1, EveryPlaceTaken
  <2>3. \E i \in kept : Cardinality(before(i)) = k - 1
    BY <1>3, <2>2
  <2> QED
    BY <2>3
<1>6. \A i \in kept : \E k \in 1 .. n : at(k) = i
  <2> TAKE i \in kept
  <2> DEFINE k == Cardinality(before(i)) + 1
  <2> HIDE DEF kept
  <2>1. Cardinality(before(i)) \in 0 .. n - 1
    BY <1>2, <1>3, AheadBounded
  <2>2. k \in 1 .. n /\ Cardinality(before(i)) = k - 1
    BY <1>4, <2>1
  <2>3. at(k) \in kept /\ Cardinality(before(at(k))) = Cardinality(before(i))
    BY <1>5, <2>2
  <2>4. at(k) = i
    <3> HIDE DEF at, k
    <3>1. Cardinality(Ahead(LessThan, kept, at(k))) = Cardinality(Ahead(LessThan, kept, i))
      BY <1>3, <2>3
    <3> QED
      BY <1>2, <1>3, <2>3, <3>1, AheadTellsApart
  <2> QED
    BY <2>2, <2>4
<1>7. \A k, l \in 1 .. n : at(k) = at(l) => k = l
  <2> HIDE DEF at, kept
  <2> TAKE k, l \in 1 .. n
  <2> HAVE at(k) = at(l)
  <2>1. k - 1 = l - 1
    BY <1>5
  <2> QED
    BY <1>4, <2>1
<1>8. Without(S) = [k \in 1 .. n |-> order[at(k)]]
  BY DEF Without
<1>9. \A k \in 1 .. n : at(k) \in DOMAIN order /\ order[at(k)] \in Paths \ S
  <2> HIDE DEF at
  <2> QED
    BY <1>1, <1>5
<1>10. [k \in 1 .. n |-> order[at(k)]] \in Seq(Paths)
  <2> HIDE DEF at, n
  <2> QED
    BY <1>4, <1>9
<1>11. IsInjective([k \in 1 .. n |-> order[at(k)]])
  <2> HIDE DEF at, n, kept
  <2> QED
    BY <1>7, <1>9 DEF IsInjective
<1>12. ToSet([k \in 1 .. n |-> order[at(k)]]) = ToSet(order) \ S
  <2>1. \A i \in DOMAIN order : order[i] \notin S => i \in kept
    OBVIOUS
  <2> HIDE DEF at, n, kept
  <2> QED
    BY <1>6, <1>9, <2>1 DEF ToSet
<1> QED
  BY <1>8, <1>10, <1>11, <1>12

------------------------------------------------------------------------------
(* Counting references. *)

LEMMA RefsAreCounted ==
    ASSUME Types, RefsExact, NEW d \in Docs
    PROVE  /\ IsFiniteSet(Referrers(d)) /\ docs[d].refs \in Nat
           /\ docs[d].refs = Cardinality(Referrers(d))
<1>1. Referrers(d) \in SUBSET Threads
  BY DEF Referrers
<1>2. IsFiniteSet(Referrers(d))
  BY <1>1, FS_Subset, CacheAssumption
<1>3. Cardinality(Referrers(d)) \in Nat
  BY <1>2, FS_CardinalityType
<1> QED
  BY <1>2, <1>3 DEF RefsExact

(* "refs == 0" means that nobody has the document in hand.                 *)
LEMMA UnusedIsFree ==
    ASSUME Types, RefsExact, NEW d \in Docs, docs[d].refs = 0, NEW t \in Threads
    PROVE  doc[t] # d /\ ~(pc[t] = "publish" /\ victim[t] = d)
<1>1. Referrers(d) = {}
  BY RefsAreCounted, FS_EmptySet
<1> QED
  BY <1>1 DEF Referrers

(* Whoever leaves a document can tell from refs whether others stay.       *)
LEMMA OthersLeft ==
    ASSUME Types, RefsExact, NEW d \in Docs, NEW t \in Referrers(d)
    PROVE  /\ docs[d].refs \in Nat \ {0}
           /\ Cardinality(Referrers(d) \ {t}) = docs[d].refs - 1
           /\ docs[d].refs = 1 <=> Referrers(d) \ {t} = {}
<1> DEFINE n == docs[d].refs
           others == Referrers(d) \ {t}
<1>1. IsFiniteSet(Referrers(d)) /\ n \in Nat /\ n = Cardinality(Referrers(d))
  BY RefsAreCounted
<1>2. IsFiniteSet(others) /\ Cardinality(others) = n - 1
  BY <1>1, FS_RemoveElement
<1> HIDE DEF n, others
<1>3. Cardinality(others) \in Nat /\ (Cardinality(others) = 0 <=> others = {})
  BY <1>2, FS_CardinalityType, FS_EmptySet
<1>4. n \in Nat \ {0} /\ (n = 1 <=> others = {})
  BY <1>1, <1>2, <1>3
<1> QED
  BY <1>2, <1>4 DEF n, others

(* The types, element by element. *)
LEMMA Members ==
    ASSUME Types
    PROVE  /\ NoDoc \notin Docs \cup reaped \cup closing
           /\ \A p \in Paths : cache[p] \in Docs \cup {NoDoc}
           /\ \A t \in Threads : /\ doc[t] \in Docs \cup {NoDoc} /\ victim[t] \in Docs \cup {NoDoc}
                                 /\ path[t] \in Paths
           /\ \A d \in Docs : docs[d].path \in Paths /\ docs[d].open \in BOOLEAN
BY CacheAssumption DEF Types, DocState

LEMMA DocsTyped ==
    ASSUME docs \in [Docs -> DocState], NEW c \in Docs, NEW s \in DocState
    PROVE  [docs EXCEPT ![c] = s] \in [Docs -> DocState]
OBVIOUS

(* The three ways a step may change what refs counts. *)
LEMMA ReferencesKept ==
    ASSUME RefsExact, \A d \in Docs : docs'[d].refs = docs[d].refs,
           \A d \in Docs : Referrers(d)' = Referrers(d)
    PROVE  RefsExact'
BY DEF RefsExact

LEMMA ReferenceGained ==
    ASSUME Types, RefsExact, NEW c \in Docs, NEW t, t \notin Referrers(c),
           Referrers(c)' = Referrers(c) \cup {t}, docs'[c].refs = docs[c].refs + 1,
           \A d \in Docs \ {c} : Referrers(d)' = Referrers(d) /\ docs'[d].refs = docs[d].refs
    PROVE  RefsExact'
<1>1. IsFiniteSet(Referrers(c)) /\ docs[c].refs = Cardinality(Referrers(c))
  BY RefsAreCounted
<1>2. Cardinality(Referrers(c) \cup {t}) = Cardinality(Referrers(c)) + 1
  BY <1>1, FS_AddElement
<1>3. docs'[c].refs = Cardinality(Referrers(c)')
  BY <1>1, <1>2
<1> QED
  BY <1>3 DEF RefsExact

LEMMA ReferenceDropped ==
    ASSUME Types, RefsExact, NEW c \in Docs, NEW t \in Referrers(c),
           Referrers(c)' = Referrers(c) \ {t}, docs'[c].refs = docs[c].refs - 1,
           \A d \in Docs \ {c} : Referrers(d)' = Referrers(d) /\ docs'[d].refs = docs[d].refs
    PROVE  RefsExact'
<1>1. docs'[c].refs = Cardinality(Referrers(c)')
  BY OthersLeft
<1> QED
  BY <1>1 DEF RefsExact

------------------------------------------------------------------------------
(* Each action preserves the invariant. *)

(* A usable cached document gains a reference in the same critical section
   that found it. *)
LEMMA HitKeeps ==
    ASSUME CacheInv, NEW t \in Threads, NEW p \in Paths, Hit(t, p)
    PROVE  CacheInv'
<1>1. Types /\ Hands /\ NoDoc \notin Docs /\ Free \notin Threads
  BY CacheAssumption DEF CacheInv
<1>2. PICK c \in Docs :
        /\ c = cache[p] /\ docs[c].open /\ docs[c].path = p
        /\ docs' = [docs EXCEPT ![c].refs = @ + 1]
        /\ order' = Append(RemoveFirst(order, p), p)
        /\ doc'[t] = c /\ \A u \in Threads \ {t} : doc'[u] = doc[u]
        /\ path'[t] = p /\ \A u \in Threads \ {t} : path'[u] = path[u]
        /\ pc[t] = "idle" /\ pc'[t] = "lock"
        /\ \A u \in Threads \ {t} : pc'[u] = pc[u]
        /\ cache' = cache /\ victim' = victim
        /\ reaped' = reaped /\ closing' = closing /\ closeCalled' = closeCalled
  <2>1. cache[p] \in Docs /\ docs[cache[p]].open /\ docs[cache[p]].path = p
    BY <1>1, Members DEF CacheInv, CacheSound, Hit, Usable
  <2> QED
    BY <1>1, <2>1 DEF Types, Hit, Touch, Goto, reaperVars
<1>3. /\ docs' \in [Docs -> DocState]
      /\ docs'[c].refs = docs[c].refs + 1
      /\ \A d \in Docs : /\ docs'[d].path = docs[d].path
                        /\ docs'[d].open = docs[d].open
      /\ \A d \in Docs : docs'[d].lock = docs[d].lock
      /\ \A d \in Docs : d # c => docs'[d] = docs[d]
  <2>1. docs[c] \in DocState /\ docs \in [Docs -> DocState]
    BY <1>1 DEF Types
  <2>2. [docs[c] EXCEPT !.refs = docs[c].refs + 1] \in DocState
    BY <2>1 DEF DocState
  <2>3. docs' = [docs EXCEPT ![c] = [docs[c] EXCEPT !.refs = docs[c].refs + 1]]
    BY <1>2, <2>1
  <2>4. docs' \in [Docs -> DocState]
    BY <2>1, <2>2, <2>3, DocsTyped
  <2>5. /\ docs'[c] = [docs[c] EXCEPT !.refs = docs[c].refs + 1]
        /\ \A d \in Docs : d # c => docs'[d] = docs[d]
    BY <2>1, <2>3
  <2> QED
    BY <2>1, <2>4, <2>5 DEF DocState
<1>4. Types'
  <2>1. order' \in Seq(Paths)
    BY <1>1, <1>2, TouchedOrder DEF CacheInv, Types, OrderSound
  <2>2. /\ doc' \in [Threads -> Docs \cup {NoDoc}] /\ path' \in [Threads -> Paths]
        /\ pc' \in [Threads -> Stages] /\ calls' \in 0 .. Budget
    BY <1>1, <1>2, CacheAssumption DEF Types, Stages, Hit, Goto
  <2> QED
    BY <1>1, <1>2, <1>3, <2>1, <2>2 DEF Types
<1>5. Hands'
  BY <1>1, <1>2, <1>3, Members DEF CacheInv, Hands, WithDoc, WithVictim
<1>6. RefsExact'
  <2>1. t \notin Referrers(c) /\ Referrers(c)' = Referrers(c) \cup {t}
    BY <1>1, <1>2 DEF Referrers, Hands, WithDoc
  <2>2. \A d \in Docs \ {c} : Referrers(d)' = Referrers(d) /\ docs'[d].refs = docs[d].refs
    BY <1>1, <1>2, <1>3 DEF Referrers, Hands, WithDoc
  <2> QED
    BY <1>1, <1>3, <2>1, <2>2, ReferenceGained DEF CacheInv
<1>7. CacheSound'
  BY <1>1, <1>2, <1>3, Members DEF CacheInv, CacheSound
<1>8. OrderSound'
  <2>1. p \in ToSet(order) /\ IsInjective(order) /\ order \in Seq(Paths)
    BY <1>1, <1>2 DEF CacheInv, Types, OrderSound, Cached
  <2>2. ToSet(order') = ToSet(order) \cup {p} /\ IsInjective(order')
    BY <1>2, <2>1, TouchedOrder
  <2> QED
    BY <1>2, <2>1, <2>2 DEF CacheInv, OrderSound, Cached
<1>9. CondemnedUncached'
  BY <1>1, <1>2, <1>3, Members DEF CacheInv, CondemnedUncached
<1>10. NewIsPrivate'
  BY <1>1, <1>2, <1>3, Members
     DEF CacheInv, NewIsPrivate, Hands, WithDoc, WithVictim, CondemnedUncached
<1>11. ReferencedStays'
  BY <1>1, <1>2, <1>3, Members DEF CacheInv, ReferencedStays
<1>12. OpenTracked'
  BY <1>1, <1>2, <1>3, Members DEF CacheInv, OpenTracked, Hands, WithDoc, WithVictim
<1>13. NeverUseClosed'
  BY <1>1, <1>2, <1>3, Members
     DEF CacheInv, NeverUseClosed, Hands, WithDoc, WithVictim
<1>14. CloseOnce'
  BY <1>1, <1>2, <1>3, Members DEF CacheInv, CloseOnce
<1> QED
  BY <1>4, <1>5, <1>6, <1>7, <1>8, <1>9, <1>10, <1>11, <1>12, <1>13, <1>14
     DEF CacheInv

(* Nothing is referenced yet. *)
LEMMA MissKeeps ==
    ASSUME CacheInv, NEW t \in Threads, NEW p \in Paths, Miss(t, p)
    PROVE  CacheInv'
<1>1. Types /\ Hands /\ NoDoc \notin Docs /\ Free \notin Threads
  BY CacheAssumption DEF CacheInv
<1>2. /\ path'[t] = p /\ \A u \in Threads \ {t} : path'[u] = path[u]
      /\ pc[t] = "idle" /\ pc'[t] = "evict"
      /\ \A u \in Threads \ {t} : pc'[u] = pc[u]
      /\ cache' = cache /\ order' = order /\ docs' = docs /\ doc' = doc
      /\ victim' = victim
      /\ reaped' = reaped /\ closing' = closing /\ closeCalled' = closeCalled
  BY <1>1 DEF Types, Miss, Goto, reaperVars
<1>3. Types'
  <2>1. /\ /\ path' \in [Threads -> Paths] /\ pc' \in [Threads -> Stages]
        /\ calls' \in 0 .. Budget
    BY <1>1, CacheAssumption DEF Types, Stages, Miss, Goto
  <2> QED
    BY <1>1, <1>2, <2>1 DEF Types
<1>4. Hands'
  BY <1>1, <1>2, Members DEF CacheInv, Hands, WithDoc, WithVictim
<1>5. RefsExact'
  <2>1. \A x \in Docs : Referrers(x)' = Referrers(x)
    BY <1>1, <1>2 DEF Referrers
  <2> QED
    BY <1>2, <2>1, ReferencesKept DEF CacheInv
<1>6. CacheSound'
  BY <1>1, <1>2, Members DEF CacheInv, CacheSound
<1>7. OrderSound'
  BY <1>1, <1>2, Members DEF CacheInv, OrderSound, Cached
<1>8. CondemnedUncached'
  BY <1>1, <1>2, Members DEF CacheInv, CondemnedUncached
<1>9. NewIsPrivate'
  BY <1>1, <1>2, Members DEF CacheInv, NewIsPrivate, Hands, WithDoc, WithVictim
<1>10. ReferencedStays'
  BY <1>1, <1>2, Members DEF CacheInv, ReferencedStays
<1>11. OpenTracked'
  BY <1>1, <1>2, Members DEF CacheInv, OpenTracked
<1>12. NeverUseClosed'
  BY <1>1, <1>2, Members DEF CacheInv, NeverUseClosed, Hands, WithDoc, WithVictim
<1>13. CloseOnce'
  BY <1>1, <1>2, Members DEF CacheInv, CloseOnce
<1> QED
  BY <1>3, <1>4, <1>5, <1>6, <1>7, <1>8, <1>9, <1>10, <1>11, <1>12, <1>13
     DEF CacheInv

(* The mutex is free, so nobody else is using the document. *)
LEMMA LockOpenKeeps ==
    ASSUME CacheInv, NEW t \in Threads, Lock(t), docs[doc[t]].open
    PROVE  CacheInv'
<1>1. Types /\ Hands /\ NoDoc \notin Docs /\ Free \notin Threads
  BY CacheAssumption DEF CacheInv
<1>2. /\ pc[t] = "lock" /\ pc'[t] = "using"
      /\ \A u \in Threads \ {t} : pc'[u] = pc[u]
      /\ cache' = cache /\ order' = order /\ path' = path /\ doc' = doc
      /\ victim' = victim
      /\ reaped' = reaped /\ closing' = closing /\ closeCalled' = closeCalled
      /\ doc[t] \in Docs /\ docs[doc[t]].lock = Free
  BY <1>1 DEF Types, DocState, Hands, WithDoc, WithVictim, Lock, Goto, reaperVars
<1>3. /\ docs' \in [Docs -> DocState]
      /\ docs'[doc[t]].lock = t
      /\ \A d \in Docs : /\ docs'[d].path = docs[d].path
                        /\ docs'[d].open = docs[d].open
      /\ \A d \in Docs : docs'[d].refs = docs[d].refs
      /\ \A d \in Docs : d # doc[t] => docs'[d] = docs[d]
  <2>1. PICK c \in Docs : c = doc[t]
    BY <1>2
  <2>2. docs[c] \in DocState /\ docs \in [Docs -> DocState] /\ t \in Threads
    BY <1>1, <1>2, <2>1 DEF Types, DocState
  <2>3. [docs[c] EXCEPT !.lock = t] \in DocState
    BY <2>2, CacheAssumption DEF DocState
  <2>4. docs' = [docs EXCEPT ![c] = [docs[c] EXCEPT !.lock = t]]
    BY <1>1, <1>2, <2>1 DEF Types, Lock, Goto, reaperVars
  <2>5. docs' \in [Docs -> DocState]
    BY <2>2, <2>3, <2>4, DocsTyped
  <2>6. /\ docs'[c] = [docs[c] EXCEPT !.lock = t]
        /\ \A d \in Docs : d # c => docs'[d] = docs[d]
    BY <2>2, <2>4
  <2> QED
    BY <2>1, <2>2, <2>5, <2>6 DEF DocState
<1>4. Types'
  BY <1>1, <1>2, <1>3 DEF Types, Stages, Lock, Goto, reaperVars
<1>5. Hands'
  BY <1>1, <1>2, <1>3, Members DEF CacheInv, Hands, WithDoc, WithVictim
<1>6. RefsExact'
  <2>1. \A x \in Docs : Referrers(x)' = Referrers(x)
    BY <1>1, <1>2 DEF Referrers
  <2> QED
    BY <1>2, <1>3, <2>1, ReferencesKept DEF CacheInv
<1>7. CacheSound'
  BY <1>1, <1>2, <1>3, Members DEF CacheInv, CacheSound
<1>8. OrderSound'
  BY <1>1, <1>2, <1>3, Members DEF CacheInv, OrderSound, Cached
<1>9. CondemnedUncached'
  BY <1>1, <1>2, <1>3, Members DEF CacheInv, CondemnedUncached
<1>10. NewIsPrivate'
  BY <1>1, <1>2, <1>3, Members
     DEF CacheInv, NewIsPrivate, Hands, WithDoc, WithVictim
<1>11. ReferencedStays'
  BY <1>1, <1>2, <1>3, Members DEF CacheInv, ReferencedStays
<1>12. OpenTracked'
  BY <1>1, <1>2, <1>3, Members DEF CacheInv, OpenTracked
<1>13. NeverUseClosed'
  BY <1>1, <1>2, <1>3, Members
     DEF CacheInv, NeverUseClosed, Hands, WithDoc, WithVictim
<1>14. CloseOnce'
  BY <1>1, <1>2, <1>3, Members DEF CacheInv, CloseOnce
<1> QED
  BY <1>4, <1>5, <1>6, <1>7, <1>8, <1>9, <1>10, <1>11, <1>12, <1>13, <1>14
     DEF CacheInv

(* The document was closed meanwhile. *)
LEMMA LockClosedKeeps ==
    ASSUME CacheInv, NEW t \in Threads, Lock(t), ~docs[doc[t]].open
    PROVE  CacheInv'
<1>1. Types /\ Hands /\ NoDoc \notin Docs /\ Free \notin Threads
  BY CacheAssumption DEF CacheInv
<1>2. /\ pc[t] = "lock" /\ pc'[t] = "unref"
      /\ \A u \in Threads \ {t} : pc'[u] = pc[u]
      /\ cache' = cache /\ order' = order /\ path' = path /\ doc' = doc
      /\ victim' = victim /\ docs' = docs
      /\ reaped' = reaped /\ closing' = closing /\ closeCalled' = closeCalled
  BY <1>1 DEF Types, DocState, Hands, WithDoc, WithVictim, Lock, Goto, reaperVars
<1>3. Types'
  BY <1>1, <1>2 DEF Types, Stages, Lock, Goto, reaperVars
<1>4. Hands'
  BY <1>1, <1>2, Members DEF CacheInv, Hands, WithDoc, WithVictim
<1>5. RefsExact'
  <2>1. \A x \in Docs : Referrers(x)' = Referrers(x)
    BY <1>1, <1>2 DEF Referrers
  <2> QED
    BY <1>2, <2>1, ReferencesKept DEF CacheInv
<1>6. CacheSound'
  BY <1>1, <1>2, Members DEF CacheInv, CacheSound
<1>7. OrderSound'
  BY <1>1, <1>2, Members DEF CacheInv, OrderSound, Cached
<1>8. CondemnedUncached'
  BY <1>1, <1>2, Members DEF CacheInv, CondemnedUncached
<1>9. NewIsPrivate'
  BY <1>1, <1>2, Members DEF CacheInv, NewIsPrivate, Hands, WithDoc, WithVictim
<1>10. ReferencedStays'
  BY <1>1, <1>2, Members DEF CacheInv, ReferencedStays
<1>11. OpenTracked'
  BY <1>1, <1>2, Members DEF CacheInv, OpenTracked
<1>12. NeverUseClosed'
  BY <1>1, <1>2, Members DEF CacheInv, NeverUseClosed, Hands, WithDoc, WithVictim
<1>13. CloseOnce'
  BY <1>1, <1>2, Members DEF CacheInv, CloseOnce
<1> QED
  BY <1>3, <1>4, <1>5, <1>6, <1>7, <1>8, <1>9, <1>10, <1>11, <1>12, <1>13
     DEF CacheInv

(* The reference on it is dropped. *)
LEMMA UnrefKeeps ==
    ASSUME CacheInv, NEW t \in Threads, Unref(t)
    PROVE  CacheInv'
<1>1. Types /\ Hands /\ NoDoc \notin Docs /\ Free \notin Threads
  BY CacheAssumption DEF CacheInv
<1>2. /\ pc[t] = "unref" /\ pc'[t] = "evict"
      /\ \A u \in Threads \ {t} : pc'[u] = pc[u]
      /\ cache' = cache /\ order' = order /\ path' = path /\ victim' = victim
      /\ reaped' = reaped /\ closing' = closing /\ closeCalled' = closeCalled
      /\ doc[t] \in Docs /\ doc'[t] = NoDoc
      /\ \A u \in Threads \ {t} : doc'[u] = doc[u]
  BY <1>1 DEF Types, DocState, Hands, WithDoc, WithVictim, Unref, Goto, reaperVars
<1>3. /\ docs' \in [Docs -> DocState]
      /\ docs'[doc[t]].refs = docs[doc[t]].refs - 1
      /\ \A d \in Docs : /\ docs'[d].path = docs[d].path
                        /\ docs'[d].open = docs[d].open
      /\ \A d \in Docs : docs'[d].lock = docs[d].lock
      /\ \A d \in Docs : d # doc[t] => docs'[d] = docs[d]
  <2>1. PICK c \in Docs : c = doc[t]
    BY <1>2
  <2>2. /\ docs[c] \in DocState /\ docs \in [Docs -> DocState]
        /\ docs[c].refs - 1 \in Nat
    <3>1. t \in Referrers(c)
      BY <2>1 DEF Referrers
    <3>2. docs[c].refs \in Nat \ {0}
      BY <1>1, <3>1, OthersLeft DEF CacheInv
    <3> QED
      BY <1>1, <3>2 DEF Types
  <2>3. [docs[c] EXCEPT !.refs = docs[c].refs - 1] \in DocState
    BY <2>2, CacheAssumption DEF DocState
  <2>4. docs' = [docs EXCEPT ![c] = [docs[c] EXCEPT !.refs = docs[c].refs - 1]]
    BY <1>1, <1>2, <2>1 DEF Types, Unref, Goto, reaperVars
  <2>5. docs' \in [Docs -> DocState]
    BY <2>2, <2>3, <2>4, DocsTyped
  <2>6. /\ docs'[c] = [docs[c] EXCEPT !.refs = docs[c].refs - 1]
        /\ \A d \in Docs : d # c => docs'[d] = docs[d]
    BY <2>2, <2>4
  <2> QED
    BY <2>1, <2>2, <2>5, <2>6 DEF DocState
<1>4. Types'
  BY <1>1, <1>2, <1>3 DEF Types, Stages, Unref, Goto, reaperVars
<1>5. Hands'
  BY <1>1, <1>2, <1>3, Members DEF CacheInv, Hands, WithDoc, WithVictim
<1>6. RefsExact'
  <2>1. PICK c \in Docs : c = doc[t]
    BY <1>2
  <2>2. t \in Referrers(c) /\ docs'[c].refs = docs[c].refs - 1
    BY <1>1, <1>2, <1>3, <2>1 DEF Referrers, Hands, WithDoc
  <2>3. Referrers(c)' = Referrers(c) \ {t}
    BY <1>1, <1>2, <2>1 DEF Referrers
  <2>4. \A d \in Docs \ {c} : Referrers(d)' = Referrers(d)
    BY <1>1, <1>2, <2>1 DEF Referrers
  <2> QED
    BY <1>1, <1>3, <2>1, <2>2, <2>3, <2>4, ReferenceDropped DEF CacheInv
<1>7. CacheSound'
  BY <1>1, <1>2, <1>3, Members DEF CacheInv, CacheSound
<1>8. OrderSound'
  BY <1>1, <1>2, <1>3, Members DEF CacheInv, OrderSound, Cached
<1>9. CondemnedUncached'
  BY <1>1, <1>2, <1>3, Members DEF CacheInv, CondemnedUncached
<1>10. NewIsPrivate'
  BY <1>1, <1>2, <1>3, Members
     DEF CacheInv, NewIsPrivate, Hands, WithDoc, WithVictim
<1>11. ReferencedStays'
  BY <1>1, <1>2, <1>3, Members DEF CacheInv, ReferencedStays
<1>12. OpenTracked'
  BY <1>1, <1>2, <1>3, Members DEF CacheInv, OpenTracked, ReferencedStays
<1>13. NeverUseClosed'
  BY <1>1, <1>2, <1>3, Members
     DEF CacheInv, NeverUseClosed, Hands, WithDoc, WithVictim
<1>14. CloseOnce'
  BY <1>1, <1>2, <1>3, Members DEF CacheInv, CloseOnce
<1> QED
  BY <1>4, <1>5, <1>6, <1>7, <1>8, <1>9, <1>10, <1>11, <1>12, <1>13, <1>14
     DEF CacheInv

(* What openFresh evicts has refs = 0: by RefsExact nobody has it in hand. *)
LEMMA EvictVictimKeeps ==
    ASSUME CacheInv, NEW t \in Threads, Evict(t), pc'[t] = "destroy-victim"
    PROVE  CacheInv'
<1>1. Types /\ Hands /\ NoDoc \notin Docs /\ Free \notin Threads
  BY CacheAssumption DEF CacheInv
<1>2. PICK p \in Paths :
        /\ cache[p] \in Docs /\ docs[cache[p]].refs = 0
        /\ victim' = [victim EXCEPT ![t] = cache[p]]
        /\ cache' = [cache EXCEPT ![p] = NoDoc]
        /\ order' = RemoveFirst(order, p)
  BY <1>1, ElementOfSeq, LenProperties
     DEF Types, Evict, Uncache, Idle, Goto, reaperVars
<1>3. /\ victim'[t] = cache[p] /\ \A u \in Threads \ {t} : victim'[u] = victim[u]
      /\ cache'[p] = NoDoc /\ \A q \in Paths \ {p} : cache'[q] = cache[q]
      /\ pc[t] = "evict" /\ pc'[t] = "destroy-victim"
      /\ \A u \in Threads \ {t} : pc'[u] = pc[u]
      /\ docs' = docs /\ path' = path /\ doc' = doc
      /\ reaped' = reaped /\ closing' = closing /\ closeCalled' = closeCalled
  BY <1>1, <1>2 DEF Types, Evict, Uncache, Idle, Goto, reaperVars
<1>4. Types'
  <2>1. order' \in Seq(Paths)
    BY <1>1, <1>2, RemoveFirstFromInjective DEF CacheInv, Types, OrderSound
  <2>2. pc' \in [Threads -> Stages] /\ victim' \in [Threads -> Docs \cup {NoDoc}]
    BY <1>1, <1>2 DEF Types, Stages, Evict, Goto
  <2>3. cache' \in [Paths -> Docs \cup {NoDoc}]
    BY <1>1, <1>2 DEF Types
  <2> QED
    BY <1>1, <1>3, <2>1, <2>2, <2>3 DEF Types, Evict, reaperVars
<1>5. Hands'
  BY <1>1, <1>2, <1>3, Members DEF CacheInv, Hands, WithDoc, WithVictim
<1>6. RefsExact'
  <2>1. \A x \in Docs : Referrers(x)' = Referrers(x)
    BY <1>1, <1>2, <1>3 DEF Referrers
  <2> QED
    BY <1>2, <1>3, <2>1, ReferencesKept DEF CacheInv
<1>7. CacheSound'
  BY <1>1, <1>2, <1>3, Members DEF CacheInv, CacheSound
<1>8. OrderSound'
  <2>1. ToSet(order') = ToSet(order) \ {p} /\ IsInjective(order')
    BY <1>1, <1>2, RemoveFirstFromInjective DEF CacheInv, Types, OrderSound
  <2> QED
    BY <1>3, <2>1 DEF CacheInv, OrderSound, Cached
<1>9. CondemnedUncached'
  <2>1. \A q \in Paths : cache'[q] # cache[p]
    BY <1>1, <1>2, <1>3, Members DEF CacheInv, CacheSound
  <2>2. \A q \in Paths : cache'[q] \in {NoDoc, cache[q]}
    BY <1>3
  <2> QED
    BY <1>1, <1>2, <1>3, <2>1, <2>2, Members DEF CacheInv, CondemnedUncached
<1>10. NewIsPrivate'
  BY <1>1, <1>2, <1>3, Members
     DEF CacheInv, NewIsPrivate, Hands, WithDoc, WithVictim, CondemnedUncached
<1>11. ReferencedStays'
  <2>1. \A u \in Threads : doc[u] # cache[p]
    BY <1>1, <1>2, UnusedIsFree DEF CacheInv
  <2> QED
    BY <1>1, <1>2, <1>3, <2>1, Members DEF CacheInv, ReferencedStays
<1>12. OpenTracked'
  BY <1>1, <1>2, <1>3, Members
     DEF CacheInv, OpenTracked, CacheSound, Hands, WithDoc, WithVictim
<1>13. NeverUseClosed'
  BY <1>1, <1>2, <1>3, Members
     DEF CacheInv, NeverUseClosed, Hands, WithDoc, WithVictim
<1>14. CloseOnce'
  BY <1>1, <1>2, <1>3, Members DEF CacheInv, CloseOnce
<1> QED
  BY <1>4, <1>5, <1>6, <1>7, <1>8, <1>9, <1>10, <1>11, <1>12, <1>13, <1>14
     DEF CacheInv

(* There is room, or nothing that could be evicted. *)
LEMMA EvictNoneKeeps ==
    ASSUME CacheInv, NEW t \in Threads, Evict(t), pc'[t] # "destroy-victim"
    PROVE  CacheInv'
<1>1. Types /\ Hands /\ NoDoc \notin Docs /\ Free \notin Threads
  BY CacheAssumption DEF CacheInv
<1>2. /\ pc[t] = "evict" /\ pc'[t] = "open"
      /\ \A u \in Threads \ {t} : pc'[u] = pc[u]
      /\ cache' = cache /\ order' = order /\ docs' = docs /\ path' = path
      /\ doc' = doc /\ victim' = victim
      /\ reaped' = reaped /\ closing' = closing /\ closeCalled' = closeCalled
  BY <1>1
     DEF Types, DocState, Hands, WithDoc, WithVictim, Evict, Uncache, Idle, Goto,
         reaperVars
<1>3. Types'
  BY <1>1, <1>2 DEF Types, Stages, Evict, Uncache, Idle, Goto, reaperVars
<1>4. Hands'
  BY <1>1, <1>2, Members DEF CacheInv, Hands, WithDoc, WithVictim
<1>5. RefsExact'
  <2>1. \A x \in Docs : Referrers(x)' = Referrers(x)
    BY <1>1, <1>2 DEF Referrers
  <2> QED
    BY <1>2, <2>1, ReferencesKept DEF CacheInv
<1>6. CacheSound'
  BY <1>1, <1>2, Members DEF CacheInv, CacheSound
<1>7. OrderSound'
  BY <1>1, <1>2, Members DEF CacheInv, OrderSound, Cached
<1>8. CondemnedUncached'
  BY <1>1, <1>2, Members DEF CacheInv, CondemnedUncached
<1>9. NewIsPrivate'
  BY <1>1, <1>2, Members DEF CacheInv, NewIsPrivate, Hands, WithDoc, WithVictim
<1>10. ReferencedStays'
  BY <1>1, <1>2, Members DEF CacheInv, ReferencedStays
<1>11. OpenTracked'
  BY <1>1, <1>2, Members DEF CacheInv, OpenTracked
<1>12. NeverUseClosed'
  BY <1>1, <1>2, Members DEF CacheInv, NeverUseClosed, Hands, WithDoc, WithVictim
<1>13. CloseOnce'
  BY <1>1, <1>2, Members DEF CacheInv, CloseOnce
<1> QED
  BY <1>3, <1>4, <1>5, <1>6, <1>7, <1>8, <1>9, <1>10, <1>11, <1>12, <1>13
     DEF CacheInv

(* A goroutine destroys what it had taken out of the cache. *)
LEMMA DestroyedKeeps ==
    ASSUME CacheInv, NEW t \in Threads, DestroyVictim(t) \/ DestroyOwn(t) \/ DestroySpent(t)
    PROVE  CacheInv'
<1>1. Types /\ Hands /\ NoDoc \notin Docs /\ Free \notin Threads
  BY CacheAssumption DEF CacheInv
<1>2. /\ /\ victim[t] \in Docs
      /\ pc[t] \in {"destroy-victim", "destroy-own", "destroy-spent"}
      /\ pc'[t] \in {"evict", "lock", "idle"} /\ (pc'[t] = "lock" <=> pc[t] = "destroy-own")
      /\ \A u \in Threads \ {t} : pc'[u] = pc[u]
      /\ victim'[t] = NoDoc /\ \A u \in Threads \ {t} : victim'[u] = victim[u]
      /\ docs[victim[t]].lock = Free
      /\ cache' = cache /\ order' = order /\ path' = path /\ doc' = doc
      /\ reaped' = reaped /\ closing' = closing /\ closeCalled' = closeCalled
  BY <1>1
     DEF Types, DocState, Hands, WithDoc, WithVictim, DestroyVictim, DestroyOwn,
         DestroySpent, Destroy, Goto, reaperVars
<1>3. /\ docs' \in [Docs -> DocState]
      /\ docs'[victim[t]].open = FALSE
      /\ \A d \in Docs : /\ docs'[d].path = docs[d].path
                        /\ docs'[d].refs = docs[d].refs
      /\ \A d \in Docs : docs'[d].lock = docs[d].lock
      /\ \A d \in Docs : d # victim[t] => docs'[d] = docs[d]
  <2>1. PICK c \in Docs : c = victim[t]
    BY <1>2
  <2>2. docs[c] \in DocState /\ docs \in [Docs -> DocState] /\ FALSE \in BOOLEAN
    BY <1>1, <1>2, <2>1 DEF Types, DocState
  <2>3. [docs[c] EXCEPT !.open = FALSE] \in DocState
    BY <2>2, CacheAssumption DEF DocState
  <2>4. docs' = [docs EXCEPT ![c] = [docs[c] EXCEPT !.open = FALSE]]
    BY <1>1, <1>2, <2>1
       DEF Types, DestroyVictim, DestroyOwn, DestroySpent, Destroy, Goto, reaperVars
  <2>5. docs' \in [Docs -> DocState]
    BY <2>2, <2>3, <2>4, DocsTyped
  <2>6. /\ docs'[c] = [docs[c] EXCEPT !.open = FALSE]
        /\ \A d \in Docs : d # c => docs'[d] = docs[d]
    BY <2>2, <2>4
  <2> QED
    BY <2>1, <2>2, <2>5, <2>6 DEF DocState
<1>4. Types'
  BY <1>1, <1>2, <1>3
     DEF Types, Stages, DestroyVictim, DestroyOwn, DestroySpent, Destroy, Goto,
         reaperVars
<1>5. Hands'
  BY <1>1, <1>2, <1>3, Members DEF CacheInv, Hands, WithDoc, WithVictim
<1>6. RefsExact'
  <2>1. \A x \in Docs : Referrers(x)' = Referrers(x)
    BY <1>1, <1>2 DEF Referrers
  <2> QED
    BY <1>2, <1>3, <2>1, ReferencesKept DEF CacheInv
<1>7. CacheSound'
  BY <1>1, <1>2, <1>3, Members DEF CacheInv, CacheSound, CondemnedUncached
<1>8. OrderSound'
  BY <1>1, <1>2, <1>3, Members DEF CacheInv, OrderSound, Cached
<1>9. CondemnedUncached'
  BY <1>1, <1>2, <1>3, Members DEF CacheInv, CondemnedUncached
<1>10. NewIsPrivate'
  BY <1>1, <1>2, <1>3, Members
     DEF CacheInv, NewIsPrivate, Hands, WithDoc, WithVictim
<1>11. ReferencedStays'
  BY <1>1, <1>2, <1>3, Members DEF CacheInv, ReferencedStays
<1>12. OpenTracked'
  BY <1>1, <1>2, <1>3, Members DEF CacheInv, OpenTracked
<1>13. NeverUseClosed'
  BY <1>1, <1>2, <1>3, Members
     DEF CacheInv, NeverUseClosed, Hands, WithDoc, WithVictim
<1>14. CloseOnce'
  BY <1>1, <1>2, <1>3, Members DEF CacheInv, CloseOnce
<1> QED
  BY <1>4, <1>5, <1>6, <1>7, <1>8, <1>9, <1>10, <1>11, <1>12, <1>13, <1>14
     DEF CacheInv

(* The new document is unreachable, hence unreferenced. *)
LEMMA OpenKeeps ==
    ASSUME CacheInv, NEW t \in Threads, Open(t)
    PROVE  CacheInv'
<1>1. Types /\ Hands /\ NoDoc \notin Docs /\ Free \notin Threads
  BY CacheAssumption DEF CacheInv
<1>2. PICK d \in Docs :
        /\ ~docs[d].open /\ d \notin reaped \cup closing
        /\ \A u \in Threads : doc[u] # d /\ victim[u] # d
        /\ docs' = [docs EXCEPT ![d] = [path |-> path[t], open |-> TRUE, refs |-> 1,
                                        ops |-> 0, lock |-> t]]
        /\ victim'[t] = d /\ \A u \in Threads \ {t} : victim'[u] = victim[u]
        /\ pc[t] = "open" /\ pc'[t] = "publish"
        /\ \A u \in Threads \ {t} : pc'[u] = pc[u]
        /\ cache' = cache /\ order' = order /\ path' = path /\ doc' = doc
        /\ reaped' = reaped /\ closing' = closing /\ closeCalled' = closeCalled
  <2>1. PICK d \in Docs :
            /\ ~Reachable(d) /\ victim' = [victim EXCEPT ![t] = d]
            /\ docs' = [docs EXCEPT ![d] = [path |-> path[t], open |-> TRUE, refs |-> 1,
                                            ops |-> 0, lock |-> t]]
    BY DEF Open
  <2>2. /\ ~docs[d].open /\ d \notin reaped \cup closing
        /\ \A u \in Threads : doc[u] # d /\ victim[u] # d
    BY <2>1 DEF Reachable
  <2>3. victim'[t] = d /\ \A u \in Threads \ {t} : victim'[u] = victim[u]
    BY <1>1, <2>1 DEF Types
  <2> QED
    BY <1>1, <2>1, <2>2, <2>3 DEF Types, Open, Goto, reaperVars
<1>3. /\ docs' \in [Docs -> DocState]
      /\ docs'[d] = [path |-> path[t], open |-> TRUE, refs |-> 1,
                     ops |-> 0, lock |-> t]
      /\ \A e \in Docs : e # d => docs'[e] = docs[e]
  <2>1. [path |-> path[t], open |-> TRUE, refs |-> 1,
         ops |-> 0, lock |-> t] \in DocState
    BY <1>1, CacheAssumption DEF Types, DocState
  <2> QED
    BY <1>1, <1>2, <2>1, DocsTyped DEF Types
<1>4. Types'
  BY <1>1, <1>2, <1>3 DEF Types, Stages, Open, Reachable, Goto, reaperVars
<1>5. Hands'
  BY <1>1, <1>2, <1>3, Members DEF CacheInv, Hands, WithDoc, WithVictim
<1>6. RefsExact'
  <2>1. Referrers(d)' = {t}
    BY <1>1, <1>2 DEF Referrers
  <2>2. docs'[d].refs = Cardinality(Referrers(d)')
    <3>1. Cardinality({t}) = 1
      BY FS_Singleton
    <3>2. docs'[d].refs = 1
      BY <1>3
    <3> QED
      BY <2>1, <3>1, <3>2
  <2>3. \A e \in Docs \ {d} : Referrers(e)' = Referrers(e)
    BY <1>1, <1>2 DEF Referrers
  <2> QED
    BY <1>3, <2>2, <2>3 DEF CacheInv, RefsExact
<1>7. CacheSound'
  BY <1>1, <1>2, <1>3, Members DEF CacheInv, CacheSound
<1>8. OrderSound'
  BY <1>1, <1>2, <1>3, Members DEF CacheInv, OrderSound, Cached
<1>9. CondemnedUncached'
  BY <1>1, <1>2, <1>3, Members DEF CacheInv, CondemnedUncached, CacheSound
<1>10. NewIsPrivate'
  BY <1>1, <1>2, <1>3, Members
     DEF CacheInv, NewIsPrivate, Hands, WithDoc, WithVictim
<1>11. ReferencedStays'
  BY <1>1, <1>2, <1>3, Members DEF CacheInv, ReferencedStays
<1>12. OpenTracked'
  BY <1>1, <1>2, <1>3, Members DEF CacheInv, OpenTracked, Hands, WithDoc, WithVictim
<1>13. NeverUseClosed'
  BY <1>1, <1>2, <1>3, Members
     DEF CacheInv, NeverUseClosed, Hands, WithDoc, WithVictim
<1>14. CloseOnce'
  BY <1>1, <1>2, <1>3, Members DEF CacheInv, CloseOnce
<1> QED
  BY <1>4, <1>5, <1>6, <1>7, <1>8, <1>9, <1>10, <1>11, <1>12, <1>13, <1>14
     DEF CacheInv

(* OpenDocument fails. *)
LEMMA OpenFailsKeeps ==
    ASSUME CacheInv, NEW t \in Threads, OpenFails(t)
    PROVE  CacheInv'
<1>1. Types /\ Hands /\ NoDoc \notin Docs /\ Free \notin Threads
  BY CacheAssumption DEF CacheInv
<1>2. /\ pc[t] = "open" /\ pc'[t] = "idle"
      /\ \A u \in Threads \ {t} : pc'[u] = pc[u]
      /\ cache' = cache /\ order' = order /\ docs' = docs /\ path' = path
      /\ doc' = doc /\ victim' = victim
      /\ reaped' = reaped /\ closing' = closing /\ closeCalled' = closeCalled
  BY <1>1
     DEF Types, DocState, Hands, WithDoc, WithVictim, OpenFails, Goto, reaperVars
<1>3. Types'
  BY <1>1, <1>2 DEF Types, Stages, OpenFails, Goto, reaperVars
<1>4. Hands'
  BY <1>1, <1>2, Members DEF CacheInv, Hands, WithDoc, WithVictim
<1>5. RefsExact'
  <2>1. \A x \in Docs : Referrers(x)' = Referrers(x)
    BY <1>1, <1>2 DEF Referrers
  <2> QED
    BY <1>2, <2>1, ReferencesKept DEF CacheInv
<1>6. CacheSound'
  BY <1>1, <1>2, Members DEF CacheInv, CacheSound
<1>7. OrderSound'
  BY <1>1, <1>2, Members DEF CacheInv, OrderSound, Cached
<1>8. CondemnedUncached'
  BY <1>1, <1>2, Members DEF CacheInv, CondemnedUncached
<1>9. NewIsPrivate'
  BY <1>1, <1>2, Members DEF CacheInv, NewIsPrivate, Hands, WithDoc, WithVictim
<1>10. ReferencedStays'
  BY <1>1, <1>2, Members DEF CacheInv, ReferencedStays
<1>11. OpenTracked'
  BY <1>1, <1>2, Members DEF CacheInv, OpenTracked
<1>12. NeverUseClosed'
  BY <1>1, <1>2, Members DEF CacheInv, NeverUseClosed, Hands, WithDoc, WithVictim
<1>13. CloseOnce'
  BY <1>1, <1>2, Members DEF CacheInv, CloseOnce
<1> QED
  BY <1>3, <1>4, <1>5, <1>6, <1>7, <1>8, <1>9, <1>10, <1>11, <1>12, <1>13
     DEF CacheInv

(* The race is lost: by CacheSound whatever is cached is open. *)
LEMMA PublishExistingKeeps ==
    ASSUME CacheInv, NEW t \in Threads, Publish(t), cache[path[t]] # NoDoc
    PROVE  CacheInv'
<1>1. Types /\ Hands /\ NoDoc \notin Docs /\ Free \notin Threads
  BY CacheAssumption DEF CacheInv
<1>2. PICK e \in Docs, v \in Docs :
        /\ path[t] \in Paths /\ e = cache[path[t]] /\ docs[e].open
        /\ docs[e].path = path[t]
        /\ v = victim[t] /\ v # e /\ docs[v].path = path[t] /\ docs[v].lock = t
        /\ order' = Append(RemoveFirst(order, path[t]), path[t])
        /\ doc'[t] = e /\ \A u \in Threads \ {t} : doc'[u] = doc[u]
        /\ pc[t] = "publish" /\ pc'[t] = "destroy-own"
        /\ \A u \in Threads \ {t} : pc'[u] = pc[u]
        /\ cache' = cache /\ victim' = victim /\ path' = path
        /\ reaped' = reaped /\ closing' = closing /\ closeCalled' = closeCalled
  <2>1. cache[path[t]] \in Docs /\ path[t] \in Paths /\ pc[t] = "publish"
    BY <1>1, Members DEF Publish
  <2>2. docs[cache[path[t]]].open /\ docs[cache[path[t]]].path = path[t]
    BY <2>1 DEF CacheInv, CacheSound
  <2>3. /\ victim[t] \in Docs /\ docs[victim[t]].path = path[t]
        /\ victim[t] # cache[path[t]]
    BY <1>1, <2>1, Members DEF CacheInv, CondemnedUncached, Hands, WithVictim
  <2>4. docs[victim[t]].lock = t
    BY <2>1 DEF CacheInv, NewIsPrivate
  <2>5. /\ Touch(path[t]) /\ doc' = [doc EXCEPT ![t] = cache[path[t]]]
        /\ Goto(t, "destroy-own") /\ UNCHANGED <<cache, victim>>
    BY <2>1, <2>2 DEF Publish
  <2>6. doc'[t] = cache[path[t]] /\ \A u \in Threads \ {t} : doc'[u] = doc[u]
    BY <1>1, <2>5 DEF Types
  <2> QED
    BY <1>1, <2>1, <2>2, <2>3, <2>4, <2>5, <2>6
       DEF Types, Publish, Touch, Goto, reaperVars
<1>3. /\ docs' \in [Docs -> DocState]
      /\ docs'[e].refs = docs[e].refs + 1 /\ docs'[v].refs = 0
      /\ \A d \in Docs : /\ docs'[d].path = docs[d].path
                        /\ docs'[d].open = docs[d].open
      /\ docs'[e].lock = docs[e].lock
      /\ \A d \in Docs : d # e /\ d # v => docs'[d] = docs[d]
  <2>1. docs \in [Docs -> DocState] /\ docs[e] \in DocState /\ docs[v] \in DocState
    BY <1>1 DEF Types
  <2>2. [docs[e] EXCEPT !.refs = docs[e].refs + 1] \in DocState
    BY <2>1 DEF DocState
  <2>3. [docs[v] EXCEPT !.refs = 0, !.lock = Free] \in DocState
    BY <2>1 DEF DocState
  <2>4. docs' = [[docs EXCEPT ![e] = [docs[e] EXCEPT !.refs = docs[e].refs + 1]]
                     EXCEPT ![v] = [docs[v] EXCEPT !.refs = 0, !.lock = Free]]
    <3>1. docs' = [docs EXCEPT ![e].refs = @ + 1, ![v].refs = 0, ![v].lock = Free]
      BY <1>2 DEF Publish
    <3> QED
      BY <1>2, <2>1, <3>1
  <2>5. docs' \in [Docs -> DocState]
    BY <2>1, <2>2, <2>3, <2>4
  <2>6. /\ docs'[e] = [docs[e] EXCEPT !.refs = docs[e].refs + 1]
        /\ docs'[v] = [docs[v] EXCEPT !.refs = 0, !.lock = Free]
        /\ \A d \in Docs : d # e /\ d # v => docs'[d] = docs[d]
    BY <1>2, <2>1, <2>4
  <2>7. /\ docs'[e].refs = docs[e].refs + 1 /\ docs'[e].lock = docs[e].lock
        /\ docs'[e].path = docs[e].path /\ docs'[e].open = docs[e].open
    BY <2>1, <2>6 DEF DocState
  <2>8. /\ docs'[v].refs = 0
        /\ docs'[v].path = docs[v].path /\ docs'[v].open = docs[v].open
    BY <2>1, <2>6 DEF DocState
  <2> QED
    BY <2>5, <2>6, <2>7, <2>8
<1>4. Types'
  <2>1. order' \in Seq(Paths)
    BY <1>1, <1>2, TouchedOrder DEF CacheInv, Types, OrderSound
  <2>2. doc' \in [Threads -> Docs \cup {NoDoc}] /\ pc' \in [Threads -> Stages]
    BY <1>1, <1>2 DEF Types, Stages, Publish, PublishNew, Goto
  <2> QED
    BY <1>1, <1>2, <1>3, <2>1, <2>2 DEF Types, Publish
<1>5. Hands'
  BY <1>1, <1>2, <1>3, Members DEF CacheInv, Hands, WithDoc, WithVictim
<1>6. RefsExact'
  <2>1. e \notin {v} /\ Referrers(v)' = {}
    BY <1>1, <1>2 DEF CacheInv, NewIsPrivate, Referrers
  <2>2. docs'[v].refs = Cardinality(Referrers(v)')
    BY <1>3, <2>1, FS_EmptySet
  <2>3. t \notin Referrers(e) /\ Referrers(e)' = Referrers(e) \cup {t}
    BY <1>1, <1>2 DEF Referrers, Hands, WithDoc
  <2>4. docs'[e].refs = Cardinality(Referrers(e)')
    <3>1. /\ IsFiniteSet(Referrers(e)) /\ docs[e].refs = Cardinality(Referrers(e))
      BY <1>1, RefsAreCounted DEF CacheInv
    <3>2. Cardinality(Referrers(e) \cup {t}) = Cardinality(Referrers(e)) + 1
      BY <2>3, <3>1, FS_AddElement
    <3> QED
      BY <1>3, <2>3, <3>1, <3>2
  <2>5. \A d \in Docs \ {e, v} : Referrers(d)' = Referrers(d)
    BY <1>1, <1>2 DEF Referrers, Hands, WithDoc
  <2> QED
    BY <1>3, <2>2, <2>4, <2>5 DEF CacheInv, RefsExact
<1>7. CacheSound'
  BY <1>1, <1>2, <1>3, Members DEF CacheInv, CacheSound
<1>8. OrderSound'
  <2>1. path[t] \in ToSet(order) /\ IsInjective(order) /\ order \in Seq(Paths)
    BY <1>1, <1>2 DEF CacheInv, Types, OrderSound, Cached
  <2>2. ToSet(order') = ToSet(order) \cup {path[t]} /\ IsInjective(order')
    BY <1>2, <2>1, TouchedOrder
  <2> QED
    BY <1>2, <2>1, <2>2 DEF CacheInv, OrderSound, Cached
<1>9. CondemnedUncached'
  BY <1>1, <1>2, <1>3, Members DEF CacheInv, CondemnedUncached
<1>10. NewIsPrivate'
  BY <1>1, <1>2, <1>3, Members
     DEF CacheInv, NewIsPrivate, Hands, WithDoc, WithVictim, CondemnedUncached
<1>11. ReferencedStays'
  BY <1>1, <1>2, <1>3, Members DEF CacheInv, ReferencedStays
<1>12. OpenTracked'
  BY <1>1, <1>2, <1>3, Members DEF CacheInv, OpenTracked, Hands, WithDoc, WithVictim
<1>13. NeverUseClosed'
  BY <1>1, <1>2, <1>3, Members
     DEF CacheInv, NeverUseClosed, Hands, WithDoc, WithVictim, NewIsPrivate
<1>14. CloseOnce'
  BY <1>1, <1>2, <1>3, Members DEF CacheInv, CloseOnce
<1> QED
  BY <1>4, <1>5, <1>6, <1>7, <1>8, <1>9, <1>10, <1>11, <1>12, <1>13, <1>14
     DEF CacheInv

(* The race is won: the book has no cached document. *)
LEMMA PublishNewKeeps ==
    ASSUME CacheInv, NEW t \in Threads, Publish(t), cache[path[t]] = NoDoc
    PROVE  CacheInv'
<1>1. Types /\ Hands /\ NoDoc \notin Docs /\ Free \notin Threads
  BY CacheAssumption DEF CacheInv
<1>2. /\ path[t] \in Paths /\ victim[t] \in Docs /\ docs[victim[t]].path = path[t]
      /\ docs[victim[t]].open /\ docs[victim[t]].lock = t
      /\ victim[t] \notin reaped \cup closing
      /\ \A u \in Threads : doc[u] # victim[t] /\ (u # t => victim[u] # victim[t])
      /\ cache' = [cache EXCEPT ![path[t]] = victim[t]]
      /\ order' = Append(RemoveFirst(order, path[t]), path[t])
      /\ doc' = [doc EXCEPT ![t] = victim[t]]
      /\ victim' = [victim EXCEPT ![t] = NoDoc]
      /\ pc[t] = "publish" /\ pc'[t] = "using"
      /\ \A u \in Threads \ {t} : pc'[u] = pc[u]
      /\ docs' = docs /\ path' = path /\ calls' = calls
      /\ reaped' = reaped /\ closing' = closing /\ closeCalled' = closeCalled
  <2>1. /\ victim[t] \in Docs /\ path[t] \in Paths /\ docs[victim[t]].path = path[t]
        /\ pc[t] = "publish"
    BY <1>1, Members DEF Publish, Hands, WithVictim
  <2>2. /\ /\ docs[victim[t]].open /\ docs[victim[t]].lock = t
        /\ victim[t] \notin reaped \cup closing
        /\ \A u \in Threads : doc[u] # victim[t] /\ (u # t => victim[u] # victim[t])
    BY <2>1 DEF CacheInv, NewIsPrivate
  <2>3. PublishNew(t) /\ UNCHANGED <<path, calls, reaperVars>>
    BY DEF Publish
  <2> QED
    BY <1>1, <2>1, <2>2, <2>3 DEF Types, PublishNew, Touch, Goto, reaperVars
<1>3. /\ /\ cache'[path[t]] = victim[t]
      /\ \A q \in Paths \ {path[t]} : cache'[q] = cache[q]
      /\ doc'[t] = victim[t] /\ \A u \in Threads \ {t} : doc'[u] = doc[u]
      /\ victim'[t] = NoDoc /\ \A u \in Threads \ {t} : victim'[u] = victim[u]
  BY <1>1, <1>2 DEF Types
<1>4. Types'
  <2>1. order' \in Seq(Paths)
    BY <1>1, <1>2, TouchedOrder DEF CacheInv, Types, OrderSound
  <2>2. pc' \in [Threads -> Stages]
    BY <1>1 DEF Types, Stages, Publish, PublishNew, Goto
  <2>3. /\ /\ doc' \in [Threads -> Docs \cup {NoDoc}]
        /\ victim' \in [Threads -> Docs \cup {NoDoc}]
        /\ cache' \in [Paths -> Docs \cup {NoDoc}]
    BY <1>1, <1>2 DEF Types
  <2> QED
    BY <1>1, <1>2, <2>1, <2>2, <2>3 DEF Types
<1>5. Hands'
  BY <1>1, <1>2, <1>3, Members DEF CacheInv, Hands, WithDoc, WithVictim
<1>6. RefsExact'
  <2>1. \A d \in Docs : Referrers(d)' = Referrers(d)
    BY <1>1, <1>2, <1>3 DEF Referrers, Hands, WithDoc
  <2> QED
    BY <1>2, <2>1, ReferencesKept DEF CacheInv
<1>7. CacheSound'
  BY <1>1, <1>2, <1>3, Members DEF CacheInv, CacheSound
<1>8. OrderSound'
  <2>1. ToSet(order') = ToSet(order) \cup {path[t]} /\ IsInjective(order')
    BY <1>1, <1>2, TouchedOrder DEF CacheInv, Types, OrderSound
  <2>2. Cached' = Cached \cup {path[t]}
    BY <1>1, <1>2, <1>3 DEF Cached
  <2> QED
    BY <2>1, <2>2 DEF CacheInv, OrderSound
<1>9. CondemnedUncached'
  BY <1>1, <1>2, <1>3, Members DEF CacheInv, CondemnedUncached
<1>10. NewIsPrivate'
  BY <1>1, <1>2, <1>3, Members
     DEF CacheInv, NewIsPrivate, Hands, WithDoc, WithVictim
<1>11. ReferencedStays'
  BY <1>1, <1>2, <1>3, Members DEF CacheInv, ReferencedStays
<1>12. OpenTracked'
  BY <1>1, <1>2, <1>3, Members DEF CacheInv, OpenTracked, Hands, WithDoc, WithVictim
<1>13. NeverUseClosed'
  BY <1>1, <1>2, <1>3, Members
     DEF CacheInv, NeverUseClosed, Hands, WithDoc, WithVictim
<1>14. CloseOnce'
  BY <1>1, <1>2, <1>3, Members DEF CacheInv, CloseOnce
<1> QED
  BY <1>4, <1>5, <1>6, <1>7, <1>8, <1>9, <1>10, <1>11, <1>12, <1>13, <1>14
     DEF CacheInv

(* Work on the document ends, failed or not. *)
LEMMA UseKeeps ==
    ASSUME CacheInv, NEW t \in Threads, Use(t)
    PROVE  CacheInv'
<1>1. Types /\ Hands /\ NoDoc \notin Docs /\ Free \notin Threads
  BY CacheAssumption DEF CacheInv
<1>2. /\ pc[t] = "using" /\ pc'[t] = "release"
      /\ \A u \in Threads \ {t} : pc'[u] = pc[u]
      /\ cache' = cache /\ order' = order /\ path' = path /\ doc' = doc
      /\ victim' = victim /\ calls' = calls
      /\ reaped' = reaped /\ closing' = closing /\ closeCalled' = closeCalled
      /\ doc[t] \in Docs /\ docs[doc[t]].open /\ docs[doc[t]].lock = t
  BY <1>1, Members
     DEF CacheInv, Types, Hands, WithDoc, NeverUseClosed, Use, Goto, reaperVars
<1>3. /\ docs' \in [Docs -> DocState]
      /\ \A d \in Docs : /\ docs'[d].path = docs[d].path
                        /\ docs'[d].open = docs[d].open
      /\ \A d \in Docs : docs'[d].refs = docs[d].refs
      /\ \A d \in Docs : d # doc[t] => docs'[d] = docs[d]
  <2>1. PICK c \in Docs : c = doc[t]
    BY <1>2
  <2>2. PICK done \in {0, 1} :
            docs' = [docs EXCEPT ![c].lock = Free,
                                 ![c].ops = IF @ + done > MaxOps THEN MaxOps ELSE @ + done]
    BY <2>1 DEF Use
  <2>3. docs[c] \in DocState /\ docs \in [Docs -> DocState]
    BY <1>1 DEF Types
  <2>4. PICK n \in 0 .. MaxOps :
            n = IF docs[c].ops + done > MaxOps THEN MaxOps ELSE docs[c].ops + done
    BY <2>3, CacheAssumption DEF DocState
  <2>5. [docs[c] EXCEPT !.lock = Free, !.ops = n] \in DocState
    BY <2>3, <2>4 DEF DocState
  <2>6. docs' = [docs EXCEPT ![c] = [docs[c] EXCEPT !.lock = Free, !.ops = n]]
    BY <2>2, <2>3, <2>4
  <2>7. docs' \in [Docs -> DocState]
    BY <2>3, <2>5, <2>6, DocsTyped
  <2>8. /\ docs'[c] = [docs[c] EXCEPT !.lock = Free, !.ops = n]
        /\ \A d \in Docs : d # c => docs'[d] = docs[d]
    BY <2>3, <2>6
  <2>9. /\ docs'[c].refs = docs[c].refs
        /\ docs'[c].path = docs[c].path /\ docs'[c].open = docs[c].open
    BY <2>3, <2>8 DEF DocState
  <2> QED
    BY <2>1, <2>7, <2>8, <2>9
<1>4. Types'
  BY <1>1, <1>2, <1>3 DEF Types, Stages, Use, Goto, reaperVars
<1>5. Hands'
  BY <1>1, <1>2, <1>3, Members DEF CacheInv, Hands, WithDoc, WithVictim
<1>6. RefsExact'
  <2>1. \A x \in Docs : Referrers(x)' = Referrers(x)
    BY <1>1, <1>2 DEF Referrers
  <2> QED
    BY <1>2, <1>3, <2>1, ReferencesKept DEF CacheInv
<1>7. CacheSound'
  BY <1>1, <1>2, <1>3, Members DEF CacheInv, CacheSound
<1>8. OrderSound'
  BY <1>1, <1>2, <1>3, Members DEF CacheInv, OrderSound, Cached
<1>9. CondemnedUncached'
  BY <1>1, <1>2, <1>3, Members DEF CacheInv, CondemnedUncached
<1>10. NewIsPrivate'
  BY <1>1, <1>2, <1>3, Members
     DEF CacheInv, NewIsPrivate, Hands, WithDoc, WithVictim
<1>11. ReferencedStays'
  BY <1>1, <1>2, <1>3, Members DEF CacheInv, ReferencedStays
<1>12. OpenTracked'
  BY <1>1, <1>2, <1>3, Members DEF CacheInv, OpenTracked
<1>13. NeverUseClosed'
  BY <1>1, <1>2, <1>3, Members
     DEF CacheInv, NeverUseClosed, Hands, WithDoc, WithVictim
<1>14. CloseOnce'
  BY <1>1, <1>2, <1>3, Members DEF CacheInv, CloseOnce
<1> QED
  BY <1>4, <1>5, <1>6, <1>7, <1>8, <1>9, <1>10, <1>11, <1>12, <1>13, <1>14
     DEF CacheInv

(* The reference is dropped, the document stays. *)
LEMMA ReleaseKeptKeeps ==
    ASSUME CacheInv, NEW t \in Threads, Release(t), pc'[t] # "destroy-spent"
    PROVE  CacheInv'
<1>1. Types /\ Hands /\ NoDoc \notin Docs /\ Free \notin Threads
  BY CacheAssumption DEF CacheInv
<1>2. PICK c \in Docs :
        /\ pc[t] = "release" /\ c = doc[t] /\ doc'[t] = NoDoc
        /\ \A u \in Threads \ {t} : doc'[u] = doc[u]
        /\ docs' = [docs EXCEPT ![c].refs = docs[c].refs - 1]
        /\ docs[c].refs \in Nat \ {0} /\ t \in Referrers(c)
        /\ pc'[t] = "idle" /\ \A u \in Threads \ {t} : pc'[u] = pc[u]
        /\ cache' = cache /\ order' = order /\ path' = path /\ victim' = victim
        /\ calls' = calls
        /\ reaped' = reaped /\ closing' = closing /\ closeCalled' = closeCalled
  <2>1. doc[t] \in Docs /\ t \in Referrers(doc[t])
    BY <1>1, Members DEF Hands, WithDoc, Referrers, Release
  <2>2. docs[doc[t]].refs \in Nat \ {0}
    BY <1>1, <2>1, OthersLeft DEF CacheInv
  <2>3. (IF docs[doc[t]].refs = 0 THEN 0 ELSE docs[doc[t]].refs - 1) = docs[doc[t]].refs - 1
    BY <2>2
  <2>4. docs' = [docs EXCEPT ![doc[t]].refs = docs[doc[t]].refs - 1]
    BY <2>3 DEF Release
  <2> QED
    BY <1>1, <2>1, <2>2, <2>4 DEF Types, Release, Goto, reaperVars
<1>3. /\ docs' \in [Docs -> DocState]
      /\ docs'[c].refs = docs[c].refs - 1
      /\ \A d \in Docs : /\ docs'[d].path = docs[d].path
                        /\ docs'[d].open = docs[d].open
      /\ \A d \in Docs : docs'[d].lock = docs[d].lock
      /\ \A d \in Docs : d # c => docs'[d] = docs[d]
  <2>1. /\ docs[c] \in DocState /\ docs \in [Docs -> DocState]
        /\ docs[c].refs - 1 \in Nat
    BY <1>1, <1>2 DEF Types, DocState
  <2>2. [docs[c] EXCEPT !.refs = docs[c].refs - 1] \in DocState
    BY <2>1 DEF DocState
  <2>3. docs' \in [Docs -> DocState]
    BY <1>2, <2>1, <2>2, DocsTyped
  <2>4. /\ docs'[c] = [docs[c] EXCEPT !.refs = docs[c].refs - 1]
        /\ \A d \in Docs : d # c => docs'[d] = docs[d]
    BY <1>2, <2>1
  <2> QED
    BY <2>1, <2>3, <2>4 DEF DocState
<1>4. Types'
  <2>1. doc' \in [Threads -> Docs \cup {NoDoc}] /\ pc' \in [Threads -> Stages]
    BY <1>1 DEF Types, Stages, Release, Goto
  <2> QED
    BY <1>1, <1>2, <1>3, <2>1 DEF Types
<1>5. Hands'
  BY <1>1, <1>2, <1>3, Members DEF CacheInv, Hands, WithDoc, WithVictim
<1>6. RefsExact'
  <2>1. Referrers(c)' = Referrers(c) \ {t}
    BY <1>1, <1>2 DEF Referrers
  <2>2. \A d \in Docs \ {c} : Referrers(d)' = Referrers(d) /\ docs'[d].refs = docs[d].refs
    BY <1>1, <1>2, <1>3 DEF Referrers
  <2> QED
    BY <1>1, <1>2, <1>3, <2>1, <2>2, ReferenceDropped DEF CacheInv
<1>7. CacheSound'
  BY <1>1, <1>2, <1>3, Members DEF CacheInv, CacheSound
<1>8. OrderSound'
  BY <1>1, <1>2, <1>3, Members DEF CacheInv, OrderSound, Cached
<1>9. CondemnedUncached'
  BY <1>1, <1>2, <1>3, Members DEF CacheInv, CondemnedUncached
<1>10. NewIsPrivate'
  BY <1>1, <1>2, <1>3, Members
     DEF CacheInv, NewIsPrivate, Hands, WithDoc, WithVictim
<1>11. ReferencedStays'
  BY <1>1, <1>2, <1>3, Members DEF CacheInv, ReferencedStays
<1>12. OpenTracked'
  BY <1>1, <1>2, <1>3, Members DEF CacheInv, OpenTracked, ReferencedStays
<1>13. NeverUseClosed'
  BY <1>1, <1>2, <1>3, Members
     DEF CacheInv, NeverUseClosed, Hands, WithDoc, WithVictim
<1>14. CloseOnce'
  BY <1>1, <1>2, <1>3, Members DEF CacheInv, CloseOnce
<1> QED
  BY <1>4, <1>5, <1>6, <1>7, <1>8, <1>9, <1>10, <1>11, <1>12, <1>13, <1>14
     DEF CacheInv

(* refs = 1 means that the last user may destroy it. *)
LEMMA ReleaseSpentKeeps ==
    ASSUME CacheInv, NEW t \in Threads, Release(t), pc'[t] = "destroy-spent"
    PROVE  CacheInv'
<1>1. Types /\ Hands /\ NoDoc \notin Docs /\ Free \notin Threads
  BY CacheAssumption DEF CacheInv
<1>2. PICK c \in Docs :
        /\ pc[t] = "release" /\ c = doc[t] /\ doc'[t] = NoDoc
        /\ \A u \in Threads \ {t} : doc'[u] = doc[u]
        /\ docs' = [docs EXCEPT ![c].refs = docs[c].refs - 1]
        /\ docs[c].refs \in Nat \ {0} /\ t \in Referrers(c)
        /\ \A u \in Threads \ {t} : pc'[u] = pc[u]
        /\ docs[c].refs = 1
        /\ victim'[t] = c /\ \A u \in Threads \ {t} : victim'[u] = victim[u]
        /\ IF cache[docs[c].path] = c
           THEN Uncache(docs[c].path) ELSE cache' = cache /\ order' = order
        /\ path' = path /\ calls' = calls
        /\ reaped' = reaped /\ closing' = closing /\ closeCalled' = closeCalled
  <2>1. doc[t] \in Docs /\ t \in Referrers(doc[t])
    BY <1>1, Members DEF Hands, WithDoc, Referrers, Release
  <2>2. docs[doc[t]].refs \in Nat \ {0}
    BY <1>1, <2>1, OthersLeft DEF CacheInv
  <2>3. (IF docs[doc[t]].refs = 0 THEN 0 ELSE docs[doc[t]].refs - 1) = docs[doc[t]].refs - 1
    BY <2>2
  <2>4. docs' = [docs EXCEPT ![doc[t]].refs = docs[doc[t]].refs - 1]
    BY <2>3 DEF Release
  <2>5. /\ docs[doc[t]].refs - 1 = 0
        /\ IF cache[docs[doc[t]].path] = doc[t] THEN Uncache(docs[doc[t]].path)
                                                ELSE UNCHANGED <<cache, order>>
        /\ victim' = [victim EXCEPT ![t] = doc[t]]
    BY <1>1, <2>3 DEF Types, Release, Goto
  <2>6. docs[doc[t]].refs = 1
    BY <2>2, <2>5
  <2> QED
    BY <1>1, <2>1, <2>2, <2>4, <2>5, <2>6 DEF Types, Release, Goto, reaperVars
<1>3. /\ docs' \in [Docs -> DocState]
      /\ docs'[c].refs = docs[c].refs - 1
      /\ \A d \in Docs : /\ docs'[d].path = docs[d].path
                        /\ docs'[d].open = docs[d].open
      /\ \A d \in Docs : docs'[d].lock = docs[d].lock
      /\ \A d \in Docs : d # c => docs'[d] = docs[d]
      /\ \A p \in Paths : cache'[p] = IF cache[p] = c THEN NoDoc ELSE cache[p]
  <2>1. /\ docs[c] \in DocState /\ docs \in [Docs -> DocState]
        /\ docs[c].refs - 1 \in Nat
    BY <1>1, <1>2 DEF Types, DocState
  <2>2. [docs[c] EXCEPT !.refs = docs[c].refs - 1] \in DocState
    BY <2>1 DEF DocState
  <2>3. docs' \in [Docs -> DocState]
    BY <1>2, <2>1, <2>2, DocsTyped
  <2>4. /\ docs'[c] = [docs[c] EXCEPT !.refs = docs[c].refs - 1]
        /\ \A d \in Docs : d # c => docs'[d] = docs[d]
    BY <1>2, <2>1
  <2>5. \A p \in Paths : cache'[p] = IF cache[p] = c THEN NoDoc ELSE cache[p]
    BY <1>1, <1>2, Members DEF CacheInv, CacheSound, Types, Uncache
  <2>6. /\ docs'[c].refs = docs[c].refs - 1 /\ docs'[c].lock = docs[c].lock
        /\ docs'[c].path = docs[c].path /\ docs'[c].open = docs[c].open
    BY <2>1, <2>4 DEF DocState
  <2> QED
    BY <2>3, <2>4, <2>5, <2>6
<1>4. Types'
  <2>1. doc' \in [Threads -> Docs \cup {NoDoc}] /\ pc' \in [Threads -> Stages]
    BY <1>1 DEF Types, Stages, Release, Goto
  <2>2. order' \in Seq(Paths) /\ cache' \in [Paths -> Docs \cup {NoDoc}]
    BY <1>1, <1>2, Members, RemoveFirstFromInjective
       DEF CacheInv, Types, OrderSound, Uncache
  <2>3. victim' \in [Threads -> Docs \cup {NoDoc}]
    BY <1>1, <1>2 DEF Types, Release
  <2> QED
    BY <1>1, <1>2, <1>3, <2>1, <2>2, <2>3 DEF Types
<1>5. Hands'
  BY <1>1, <1>2, <1>3, Members DEF CacheInv, Hands, WithDoc, WithVictim
<1>6. RefsExact'
  <2>1. Referrers(c)' = Referrers(c) \ {t}
    BY <1>1, <1>2 DEF Referrers
  <2>2. \A d \in Docs \ {c} : Referrers(d)' = Referrers(d) /\ docs'[d].refs = docs[d].refs
    BY <1>1, <1>2, <1>3 DEF Referrers
  <2> QED
    BY <1>1, <1>2, <1>3, <2>1, <2>2, ReferenceDropped DEF CacheInv
<1>7. CacheSound'
  BY <1>1, <1>2, <1>3, Members DEF CacheInv, CacheSound
<1>8. OrderSound'
  <2>1. PICK p \in Paths : p = docs[c].path
    BY <1>1, <1>2, Members
  <2>2. CASE cache[p] = c
    <3>1. ToSet(order') = ToSet(order) \ {p} /\ IsInjective(order')
      BY <1>1, <1>2, <2>1, <2>2, RemoveFirstFromInjective
         DEF CacheInv, Types, OrderSound, Uncache
    <3>2. Cached' = Cached \ {p}
      BY <1>1, <1>2, <1>3, <2>1, <2>2, Members DEF Cached, CacheInv, CacheSound
    <3> QED
      BY <3>1, <3>2 DEF CacheInv, OrderSound
  <2>3. CASE cache[p] # c
    BY <1>2, <2>1, <2>3 DEF CacheInv, OrderSound, Cached
  <2> QED
    BY <2>2, <2>3
<1>9. CondemnedUncached'
  BY <1>1, <1>2, <1>3, Members DEF CacheInv, CondemnedUncached
<1>10. NewIsPrivate'
  BY <1>1, <1>2, <1>3, Members
     DEF CacheInv, NewIsPrivate, Hands, WithDoc, WithVictim
<1>11. ReferencedStays'
  <2>1. Referrers(c) \ {t} = {}
    BY <1>1, <1>2, OthersLeft DEF CacheInv
  <2>2. \A u \in Threads : doc'[u] # NoDoc => doc'[u] = doc[u] /\ doc[u] # c
    BY <1>2, <2>1 DEF Referrers
  <2> QED
    BY <1>1, <1>2, <1>3, <2>2, Members DEF CacheInv, ReferencedStays
<1>12. OpenTracked'
  BY <1>1, <1>2, <1>3, Members DEF CacheInv, OpenTracked, Hands, WithDoc, WithVictim
<1>13. NeverUseClosed'
  BY <1>1, <1>2, <1>3, Members
     DEF CacheInv, NeverUseClosed, Hands, WithDoc, WithVictim
<1>14. CloseOnce'
  BY <1>1, <1>2, <1>3, Members DEF CacheInv, CloseOnce
<1> QED
  BY <1>4, <1>5, <1>6, <1>7, <1>8, <1>9, <1>10, <1>11, <1>12, <1>13, <1>14
     DEF CacheInv

(* The reaper takes out documents with refs = 0. *)
LEMMA ReapKeeps ==
    ASSUME CacheInv, Reap
    PROVE  CacheInv'
<1>1. Types /\ Hands /\ NoDoc \notin Docs /\ Free \notin Threads
  BY CacheAssumption DEF CacheInv
<1>2. PICK S \in SUBSET Paths :
        /\ reaped = {} /\ reaped' = {cache[p] : p \in S}
        /\ \A p \in S : cache[p] \in Docs /\ docs[cache[p]].refs = 0
        /\ cache' = [p \in Paths |-> IF p \in S THEN NoDoc ELSE cache[p]]
        /\ order' = Without(S)
        /\ docs' = docs /\ pc' = pc /\ path' = path /\ doc' = doc
        /\ victim' = victim /\ calls' = calls
        /\ closing' = closing /\ closeCalled' = closeCalled
  BY <1>1, Members DEF Reap, Idle, Cached, threadVars
<1>3. /\ \A p \in Paths : cache'[p] = IF p \in S THEN NoDoc ELSE cache[p]
  BY <1>2
<1>4. Types'
  <2>1. order' \in Seq(Paths)
    BY <1>1, <1>2, WithoutFromInjective DEF CacheInv, Types, OrderSound
  <2>2. cache' \in [Paths -> Docs \cup {NoDoc}] /\ reaped' \subseteq Docs
    BY <1>1, <1>2 DEF Types
  <2> QED
    BY <1>1, <1>2, <2>1, <2>2 DEF Types
<1>5. Hands'
  BY <1>1, <1>2, <1>3, Members DEF CacheInv, Hands, WithDoc, WithVictim
<1>6. RefsExact'
  <2>1. \A x \in Docs : Referrers(x)' = Referrers(x)
    BY <1>1, <1>2 DEF Referrers
  <2> QED
    BY <1>2, <2>1, ReferencesKept DEF CacheInv
<1>7. CacheSound'
  BY <1>1, <1>2, <1>3, Members DEF CacheInv, CacheSound
<1>8. OrderSound'
  <2>1. ToSet(order') = ToSet(order) \ S /\ IsInjective(order')
    BY <1>1, <1>2, WithoutFromInjective DEF CacheInv, Types, OrderSound
  <2>2. Cached' = Cached \ S
    BY <1>3 DEF Cached
  <2> QED
    BY <2>1, <2>2 DEF CacheInv, OrderSound
<1>9. CondemnedUncached'
  <2>1. \A p \in S, q \in Paths \ S : cache[q] # cache[p]
    BY <1>1, <1>2, Members DEF CacheInv, CacheSound
  <2>2. \A q \in Paths : cache'[q] \notin reaped'
    BY <1>1, <1>2, <1>3, <2>1
  <2> QED
    BY <1>1, <1>2, <1>3, <2>2, Members DEF CacheInv, CondemnedUncached
<1>10. NewIsPrivate'
  BY <1>1, <1>2, <1>3, Members
     DEF CacheInv, NewIsPrivate, Hands, WithDoc, WithVictim, CondemnedUncached
<1>11. ReferencedStays'
  <2>1. \A u \in Threads, p \in S : doc[u] # cache[p]
    BY <1>1, <1>2, UnusedIsFree DEF CacheInv
  <2> QED
    BY <1>1, <1>2, <1>3, <2>1, Members DEF CacheInv, ReferencedStays
<1>12. OpenTracked'
  BY <1>1, <1>2, <1>3, Members DEF CacheInv, OpenTracked
<1>13. NeverUseClosed'
  BY <1>1, <1>2, <1>3, Members
     DEF CacheInv, NeverUseClosed, Hands, WithDoc, WithVictim
<1>14. CloseOnce'
  BY <1>1, <1>2, <1>3, Members DEF CacheInv, CloseOnce
<1> QED
  BY <1>4, <1>5, <1>6, <1>7, <1>8, <1>9, <1>10, <1>11, <1>12, <1>13, <1>14
     DEF CacheInv

(* The reaper and Close destroy what they had taken out. *)
LEMMA LateDestroyKeeps ==
    ASSUME CacheInv, NEW d \in Docs, ReaperDestroys(d) \/ CloseDestroys(d)
    PROVE  CacheInv'
<1>1. Types /\ Hands /\ NoDoc \notin Docs /\ Free \notin Threads
  BY CacheAssumption DEF CacheInv
<1>2. /\ d \in reaped \cup closing /\ docs[d].lock = Free
      /\ docs' = [docs EXCEPT ![d].open = FALSE]
      /\ reaped' \subseteq reaped /\ closing' \subseteq closing
      /\ \A e \in Docs \ {d} : e \in reaped \cup closing => e \in reaped' \cup closing'
      /\ \A e \in Docs \ {d} : e \in closing => e \in closing'
      /\ cache' = cache /\ order' = order /\ pc' = pc /\ path' = path /\ doc' = doc
      /\ victim' = victim /\ calls' = calls /\ closeCalled' = closeCalled
  BY <1>1
     DEF Types, DocState, Hands, WithDoc, WithVictim, ReaperDestroys,
         CloseDestroys, Destroy, threadVars
<1>3. /\ docs' \in [Docs -> DocState]
      /\ docs'[d].open = FALSE
      /\ \A e \in Docs : /\ docs'[e].path = docs[e].path
                        /\ docs'[e].refs = docs[e].refs
      /\ \A e \in Docs : docs'[e].lock = docs[e].lock
      /\ \A e \in Docs : e # d => docs'[e] = docs[e]
  <2>1. docs[d] \in DocState /\ docs \in [Docs -> DocState]
    BY <1>1 DEF Types
  <2>2. [docs[d] EXCEPT !.open = FALSE] \in DocState
    BY <2>1 DEF DocState
  <2>3. docs' = [docs EXCEPT ![d] = [docs[d] EXCEPT !.open = FALSE]]
    BY <1>2, <2>1
  <2>4. docs' \in [Docs -> DocState]
    BY <2>1, <2>2, <2>3, DocsTyped
  <2>5. /\ docs'[d] = [docs[d] EXCEPT !.open = FALSE]
        /\ \A e \in Docs : e # d => docs'[e] = docs[e]
    BY <2>1, <2>3
  <2> QED
    BY <2>1, <2>4, <2>5 DEF DocState
<1>4. Types'
  BY <1>1, <1>2, <1>3 DEF Types
<1>5. Hands'
  BY <1>1, <1>2, <1>3, Members DEF CacheInv, Hands, WithDoc, WithVictim
<1>6. RefsExact'
  <2>1. \A x \in Docs : Referrers(x)' = Referrers(x)
    BY <1>1, <1>2 DEF Referrers
  <2> QED
    BY <1>2, <1>3, <2>1, ReferencesKept DEF CacheInv
<1>7. CacheSound'
  BY <1>1, <1>2, <1>3, Members DEF CacheInv, CacheSound, CondemnedUncached
<1>8. OrderSound'
  BY <1>1, <1>2, <1>3, Members DEF CacheInv, OrderSound, Cached
<1>9. CondemnedUncached'
  BY <1>1, <1>2, <1>3, Members DEF CacheInv, CondemnedUncached
<1>10. NewIsPrivate'
  BY <1>1, <1>2, <1>3, Members
     DEF CacheInv, NewIsPrivate, Hands, WithDoc, WithVictim
<1>11. ReferencedStays'
  BY <1>1, <1>2, <1>3, Members DEF CacheInv, ReferencedStays
<1>12. OpenTracked'
  BY <1>1, <1>2, <1>3, Members DEF CacheInv, OpenTracked
<1>13. NeverUseClosed'
  BY <1>1, <1>2, <1>3, Members
     DEF CacheInv, NeverUseClosed, Hands, WithDoc, WithVictim
<1>14. CloseOnce'
  BY <1>1, <1>2, <1>3, Members DEF CacheInv, CloseOnce
<1> QED
  BY <1>4, <1>5, <1>6, <1>7, <1>8, <1>9, <1>10, <1>11, <1>12, <1>13, <1>14
     DEF CacheInv

(* Close takes out everything, referenced or not. *)
LEMMA CloseKeeps ==
    ASSUME CacheInv, Close
    PROVE  CacheInv'
<1>1. Types /\ Hands /\ NoDoc \notin Docs /\ Free \notin Threads
  BY CacheAssumption DEF CacheInv
<1>2. /\ ~closeCalled /\ closeCalled'
      /\ closing' = {cache[p] : p \in Cached}
      /\ cache' = [p \in Paths |-> NoDoc]
      /\ order' = <<>>
      /\ docs' = docs /\ pc' = pc /\ path' = path /\ doc' = doc /\ victim' = victim
      /\ calls' = calls
      /\ reaped' = reaped
  BY <1>1 DEF Close, threadVars
<1>3. /\ \A p \in Paths : cache'[p] = NoDoc
      /\ closing' \subseteq Docs
      /\ \A p \in Paths : cache[p] # NoDoc => cache[p] \in closing'
  BY <1>1, <1>2, Members DEF Cached
<1>4. Types'
  <2>1. cache' \in [Paths -> Docs \cup {NoDoc}] /\ order' \in Seq(Paths)
    BY <1>2
  <2>2. closeCalled' \in BOOLEAN
    BY DEF Close
  <2> QED
    BY <1>1, <1>2, <1>3, <2>1, <2>2 DEF Types
<1>5. Hands'
  BY <1>1, <1>2, <1>3, Members DEF CacheInv, Hands, WithDoc, WithVictim
<1>6. RefsExact'
  <2>1. \A x \in Docs : Referrers(x)' = Referrers(x)
    BY <1>1, <1>2 DEF Referrers
  <2> QED
    BY <1>2, <2>1, ReferencesKept DEF CacheInv
<1>7. CacheSound'
  BY <1>1, <1>2, <1>3, Members DEF CacheInv, CacheSound
<1>8. OrderSound'
  <2>1. Cached' = {} /\ ToSet(order') = {} /\ IsInjective(order')
    BY <1>2, <1>3 DEF Cached, ToSet, IsInjective
  <2> QED
    BY <2>1 DEF OrderSound
<1>9. CondemnedUncached'
  BY <1>1, <1>2, <1>3, Members DEF CacheInv, CondemnedUncached
<1>10. NewIsPrivate'
  <2>1. \A u \in Threads : victim[u] # NoDoc => victim[u] \notin closing'
    BY <1>1, <1>2, Members DEF CacheInv, CondemnedUncached, Cached
  <2> QED
    BY <1>1, <1>2, <1>3, <2>1, Members DEF CacheInv, NewIsPrivate, Hands, WithVictim
<1>11. ReferencedStays'
  <2>1. \A u \in Threads : doc[u] # NoDoc => cache[docs[doc[u]].path] = doc[u]
    BY <1>1, <1>2 DEF CacheInv, ReferencedStays
  <2> QED
    BY <1>1, <1>2, <1>3, <2>1, Members DEF ReferencedStays
<1>12. OpenTracked'
  <2>1. closing = {}
    BY <1>2 DEF CacheInv, CloseOnce
  <2> QED
    BY <1>1, <1>2, <1>3, <2>1, Members DEF CacheInv, OpenTracked
<1>13. NeverUseClosed'
  BY <1>1, <1>2, <1>3, Members
     DEF CacheInv, NeverUseClosed, Hands, WithDoc, WithVictim
<1>14. CloseOnce'
  BY <1>1, <1>2, <1>3, Members DEF CacheInv, CloseOnce
<1> QED
  BY <1>4, <1>5, <1>6, <1>7, <1>8, <1>9, <1>10, <1>11, <1>12, <1>13, <1>14
     DEF CacheInv

------------------------------------------------------------------------------
(* The invariant holds. *)

LEMMA InitCacheInv == Init => CacheInv
<1> SUFFICES ASSUME Init PROVE CacheInv
  OBVIOUS
<1>1. \A p \in Paths : cache[p] = NoDoc
  BY DEF Init
<1>2. \A t \in Threads : doc[t] = NoDoc /\ victim[t] = NoDoc /\ pc[t] = "idle"
  BY DEF Init
<1>3. \A d \in Docs : docs[d].open = FALSE /\ docs[d].refs = 0
  BY DEF Init
<1>4. reaped = {} /\ closing = {} /\ order = <<>> /\ NoDoc \notin Docs
  BY CacheAssumption DEF Init
<1>5. Types
  <2>1. AnyPath \in Paths
    BY CacheAssumption DEF AnyPath
  <2>2. [path |-> AnyPath, open |-> FALSE, refs |-> 0, ops |-> 0, lock |-> Free] \in DocState
    BY <2>1, CacheAssumption DEF DocState
  <2>3. docs \in [Docs -> DocState] /\ calls \in 0 .. Budget
    BY <2>2, CacheAssumption DEF Init
  <2>4. pc \in [Threads -> Stages] /\ path \in [Threads -> Paths]
    BY <2>1 DEF Init, Stages
  <2>5. order \in Seq(Paths)
    BY <1>4
  <2>6. /\ /\ cache \in [Paths -> Docs \cup {NoDoc}]
        /\ doc \in [Threads -> Docs \cup {NoDoc}]
        /\ victim \in [Threads -> Docs \cup {NoDoc}] /\ closeCalled \in BOOLEAN
    BY DEF Init
  <2> QED
    BY <1>4, <2>3, <2>4, <2>5, <2>6 DEF Types
<1>6. Hands
  BY <1>2 DEF Hands, WithDoc, WithVictim
<1>7. RefsExact
  <2>1. \A d \in Docs : Referrers(d) = {}
    BY <1>2, <1>4 DEF Referrers
  <2>2. Cardinality({}) = 0
    BY FS_EmptySet
  <2> QED
    BY <1>3, <2>1, <2>2 DEF RefsExact
<1>8. OrderSound
  BY <1>1, <1>4 DEF OrderSound, Cached, ToSet, IsInjective
<1>9. CacheSound /\ NewIsPrivate /\ ReferencedStays /\ OpenTracked /\ NeverUseClosed
  BY <1>1, <1>2, <1>3
     DEF CacheSound, NewIsPrivate, ReferencedStays, OpenTracked, NeverUseClosed
<1>10. CondemnedUncached /\ CloseOnce
  BY <1>1, <1>2, <1>4 DEF CondemnedUncached, CloseOnce
<1> QED
  BY <1>5, <1>6, <1>7, <1>8, <1>9, <1>10 DEF CacheInv

LEMMA NextCacheInv == CacheInv /\ [Next]_vars => CacheInv'
<1> SUFFICES ASSUME CacheInv, [Next]_vars PROVE CacheInv'
  OBVIOUS
<1>1. CASE UNCHANGED vars
  BY <1>1
     DEF CacheInv, Types, Hands, RefsExact, Referrers, CacheSound, OrderSound,
         Cached,
     CondemnedUncached, NewIsPrivate, ReferencedStays, OpenTracked, NeverUseClosed,
     CloseOnce, vars
<1>2. ASSUME NEW t \in Threads, Thread(t) PROVE CacheInv'
  <2>1. ASSUME NEW p \in Paths, Hit(t, p) PROVE CacheInv'
    BY <2>1, HitKeeps
  <2>2. ASSUME NEW p \in Paths, Miss(t, p) PROVE CacheInv'
    BY <2>2, MissKeeps
  <2>3. CASE Lock(t)
    BY <2>3, LockOpenKeeps, LockClosedKeeps
  <2>4. CASE Unref(t)
    BY <2>4, UnrefKeeps
  <2>5. CASE Evict(t)
    BY <2>5, EvictVictimKeeps, EvictNoneKeeps
  <2>6. CASE DestroyVictim(t) \/ DestroyOwn(t) \/ DestroySpent(t)
    BY <2>6, DestroyedKeeps
  <2>7. CASE Open(t)
    BY <2>7, OpenKeeps
  <2>8. CASE OpenFails(t)
    BY <2>8, OpenFailsKeeps
  <2>9. CASE Publish(t)
    BY <2>9, PublishExistingKeeps, PublishNewKeeps
  <2>10. CASE Use(t)
    BY <2>10, UseKeeps
  <2>11. CASE Release(t)
    BY <2>11, ReleaseKeptKeeps, ReleaseSpentKeeps
  <2> QED
    BY <1>2, <2>1, <2>2, <2>3, <2>4, <2>5, <2>6, <2>7, <2>8, <2>9, <2>10, <2>11
       DEF Thread
<1>3. CASE Reap
  BY <1>3, ReapKeeps
<1>4. CASE Close
  BY <1>4, CloseKeeps
<1>5. ASSUME NEW d \in Docs, ReaperDestroys(d) \/ CloseDestroys(d) PROVE CacheInv'
  BY <1>5, LateDestroyKeeps
<1> QED
  BY <1>1, <1>2, <1>3, <1>4, <1>5 DEF Next

(* Every state of the cache satisfies the inductive invariant. *)
THEOREM CacheInvariance == Spec => []CacheInv
BY InitCacheInv, NextCacheInv, PTL DEF Spec

------------------------------------------------------------------------------
(* The state of render.go has its types; removeOrderLocked before every    *)
(* append keeps order no longer than there are books.                      *)
THEOREM CacheTypeCorrect == Spec => []CacheTypeOK
<1>1. CacheInv => CacheTypeOK
  <2> SUFFICES ASSUME CacheInv PROVE Len(order) <= Cardinality(Paths)
    BY DEF CacheInv, Types, CacheTypeOK
  <2>1. order \in Seq(Paths) /\ IsInjective(order)
    BY DEF CacheInv, Types, OrderSound
  <2>2. /\ Len(order) \in Nat /\ DOMAIN order = 1 .. Len(order)
        /\ order \in [1 .. Len(order) -> Paths]
    BY <2>1, LenProperties
  <2>3. order \in Injection(1 .. Len(order), Paths)
    BY <2>1, <2>2 DEF Injection, IsInjective
  <2>4. IsFiniteSet(1 .. Len(order)) /\ Cardinality(1 .. Len(order)) = Len(order)
    BY <2>2, FS_Interval, 1 \in Int, Len(order) \in Int
  <2> QED
    BY <2>3, <2>4, CacheAssumption, FS_Injection
<1> QED
  BY <1>1, CacheInvariance, PTL

(* refs is the number of goroutines that may still touch the document, so  *)
(* "refs == 0" is a safe test for evicting, reaping and recycling it.      *)
THEOREM ReferencesExact == Spec => []RefsExact
<1>1. CacheInv => RefsExact
  BY DEF CacheInv
<1> QED
  BY <1>1, CacheInvariance, PTL

(* Nobody works on a closed document or without its mutex, although        *)
(* eviction, the reaper and Close destroy documents of other goroutines.   *)
THEOREM ClosedNeverUsed == Spec => []NeverUseClosed
<1>1. CacheInv => NeverUseClosed
  BY DEF CacheInv
<1> QED
  BY <1>1, CacheInvariance, PTL

(* Until Close, a book is worked on by one goroutine at a time: what is    *)
(* used is what the cache holds for the book, and its mutex has one owner. *)
THEOREM BookSerial == Spec => []SameBookSerial
<1>1. CacheInv => SameBookSerial
  <2> SUFFICES ASSUME CacheInv, ~closeCalled, NEW t \in Threads, NEW u \in Threads,
                      pc[t] = "using", pc[u] = "using", path[t] = path[u]
               PROVE  t = u
    BY DEF SameBookSerial
  <2>1. /\ doc[t] # NoDoc /\ docs[doc[t]].path = path[t] /\ doc[u] # NoDoc
        /\ docs[doc[u]].path = path[u]
    BY DEF CacheInv, Hands, WithDoc
  <2>2. cache[path[t]] = doc[t] /\ cache[path[u]] = doc[u]
    BY <2>1 DEF CacheInv, ReferencedStays
  <2>3. docs[doc[t]].lock = t /\ docs[doc[u]].lock = u
    BY DEF CacheInv, NeverUseClosed
  <2> QED
    BY <2>2, <2>3
<1> QED
  BY <1>1, CacheInvariance, PTL

(* An open document is in the cache, in a goroutine's hands or about to be *)
(* destroyed; cache and order describe the same open documents.            *)
THEOREM NothingIsLeaked == Spec => []NothingLeaked
<1>1. CacheInv => NothingLeaked
  BY DEF CacheInv, NothingLeaked, OpenTracked, CacheSound, OrderSound, Cached
<1> QED
  BY <1>1, CacheInvariance, PTL
==============================================================================
