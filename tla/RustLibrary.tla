----------------------------- MODULE RustLibrary ------------------------------
(***************************************************************************)
(* rustservice/src/library.rs and pathsafe.rs: the order of a listing, and *)
(* paths against the roots of the library.  Pure operators.                *)
(*                                                                         *)
(* A path is the sequence of its names, canonical as Path::canonicalize    *)
(* leaves it; the name of an entry is a sequence of character codes.       *)
(***************************************************************************)
EXTENDS Integers, SequencesExt

CONSTANT U64_MAX   \* the largest number that parse::<u64> accepts

Name == Seq(Nat)
Entry == [name : Name, kind : {"folder", "pdf", "other"}]

------------------------------------------------------------------------------
(* pathsafe.rs: roots are a sequence, tried in order. *)

RootOf(roots, p) ==
    LET i == SelectInSeq(roots, LAMBDA r : IsPrefix(r, p)) IN
    IF i = 0 THEN <<>> ELSE roots[i]

Inside(roots, p) == RootOf(roots, p) # <<>>

RelSegments(roots, p) ==
    IF Inside(roots, p) THEN SubSeq(p, Len(RootOf(roots, p)) + 1, Len(p)) ELSE <<>>

(* The path of every step from root down along segs. *)
Breadcrumb(root, segs) == {root \o SubSeq(segs, 1, n) : n \in 0 .. Len(segs)}

------------------------------------------------------------------------------
(* natural_cmp *)

IsDigit(c) == c \in 48 .. 57
Lower(c) == IF c \in 65 .. 90 THEN c + 32 ELSE c

(* The end of the run of digits of s that starts at i. *)
RunEnd(s, i) ==
    CHOOSE e \in i .. Len(s) + 1 :
        /\ \A k \in i .. e - 1 : IsDigit(s[k])
        /\ e <= Len(s) => ~IsDigit(s[e])

DigitsAt(s, i) == SubSeq(s, i, RunEnd(s, i) - 1)

(* parse::<u64>().unwrap_or(0) *)
Number(s) ==
    LET value[n \in 0 .. Len(s)] == IF n = 0 THEN 0 ELSE 10 * value[n - 1] + (s[n] - 48)
    IN  IF value[Len(s)] > U64_MAX THEN 0 ELSE value[Len(s)]

Order(x, y) == IF x < y THEN -1 ELSE IF x > y THEN 1 ELSE 0

(* Two characters that are not both digits. *)
OrderOneSided(c, d) == Order(c, Lower(d))
OrderLower(c, d) == Order(Lower(c), Lower(d))

BothDigits(a, i, b, j) == IsDigit(a[i]) /\ IsDigit(b[j])
Here(a, i, b, j) ==
    IF BothDigits(a, i, b, j) THEN Order(Number(DigitsAt(a, i)), Number(DigitsAt(b, j)))
    ELSE OrderLower(a[i], b[j])

(* The comparison from the i-th character of a and the j-th of b on.       *)
From(a, b) ==
    LET cmp[at \in (1 .. Len(a) + 1) \X (1 .. Len(b) + 1)] ==
            LET i == at[1]
                j == at[2]
            IN  IF i > Len(a) \/ j > Len(b) THEN Order(Len(a) + 1 - i, Len(b) + 1 - j)
                ELSE IF Here(a, i, b, j) # 0 THEN Here(a, i, b, j)
                ELSE IF BothDigits(a, i, b, j) THEN cmp[<<RunEnd(a, i), RunEnd(b, j)>>]
                ELSE cmp[<<i + 1, j + 1>>]
    IN  cmp

NaturalCmp(a, b) == From(a, b)[<<1, 1>>]

(* list_dir: what read_dir yields, in any order, as entries with a name    *)
(* and a kind; hidden ones and files that are no PDF are left out.         *)
Hidden(e) == e.name # <<>> /\ e.name[1] = 46

Shown(e, kind) == ~Hidden(e) /\ e.kind = kind

(* sort_by is stable: an entry comes after those it equals. *)
Placed(sorted, e) ==
    LET after == SelectInSeq(sorted, LAMBDA x : NaturalCmp(e.name, x.name) < 0) IN
    IF after = 0 THEN Append(sorted, e) ELSE InsertAt(sorted, after, e)

SortNames(dir, kind) ==
    LET sorted[n \in 0 .. Len(dir)] ==
            IF n = 0 THEN <<>>
            ELSE IF Shown(dir[n], kind) THEN Placed(sorted[n - 1], dir[n])
            ELSE sorted[n - 1]
    IN  sorted[Len(dir)]

ListDir(dir) == SortNames(dir, "folder") \o SortNames(dir, "pdf")

------------------------------------------------------------------------------
(* The order of a listing is a total preorder of the names, as sort_by     *)
(* requires (it may panic otherwise), for runs of digits of different      *)
(* lengths, too long for a number, and letters of either case; and a       *)
(* listing does not depend on the order in which the directory was read,   *)
(* but for entries that compare equal.                                     *)
TotalAt(a, b, names) ==
    /\ NaturalCmp(a, b) = -NaturalCmp(b, a)
    /\ NaturalCmp(a, b) <= 0 =>
          \A c \in names : NaturalCmp(b, c) <= 0 => NaturalCmp(a, c) <= 0

SameListing(dir) ==
    LET one == ListDir(dir)
        other == ListDir(Reverse(dir))
    IN  /\ Len(one) = Len(other)
        /\ \A n \in DOMAIN one :
            one[n].kind = other[n].kind /\ NaturalCmp(one[n].name, other[n].name) = 0
=============================================================================
