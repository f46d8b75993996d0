----------------------------- MODULE ProgressText -----------------------------
(***************************************************************************)
(* rustservice/src/progress.rs: the hand-written JSON of a user's progress *)
(* file, from a map of paths to records to text and back.  Pure operators. *)
(*                                                                         *)
(* A text is a sequence of characters, of which the ones the code tells    *)
(* apart have names; "page" and "name" stand for the letters of the two    *)
(* labels, a digit for a number.  Of a record the text keeps one number    *)
(* and one string, of the characters to escape the newline; a map is the   *)
(* sequence of its entries <<path, record>>, in the order of a BTreeMap.   *)
(***************************************************************************)
EXTENDS Integers, SequencesExt

CONSTANT Char   \* the characters of names and paths

Digits == {"0", "1"}
ToldApart == {"quote", "slash", "newline", "n", "open", "close", "colon", "comma", "page", "name"} \cup Digits

ASSUME CharAssumption == ToldApart \subseteq Char

Text == Seq(Char)
Record == [page : Digits, name : Text]

(* esc *)
Escaped(c) ==
    CASE c = "quote" -> <<"slash", "quote">> [] c = "slash" -> <<"slash", "slash">>
      [] c = "newline" -> <<"slash", "n">>   [] OTHER -> <<c>>
Esc(t) ==
    LET out[n \in 0 .. Len(t)] == IF n = 0 THEN <<>> ELSE out[n - 1] \o Escaped(t[n])
    IN  out[Len(t)]

(* unesc: a lone backslash at the end is dropped. *)
Unescaped(st, c) ==
    IF ~st.esc /\ c = "slash" THEN [esc |-> TRUE, out |-> st.out]
    ELSE [esc |-> FALSE, out |-> Append(st.out, IF st.esc /\ c = "n" THEN "newline" ELSE c)]
Unesc(t) ==
    LET read[n \in 0 .. Len(t)] ==
            IF n = 0 THEN [esc |-> FALSE, out |-> <<>>] ELSE Unescaped(read[n - 1], t[n])
    IN  read[Len(t)].out

(* progress_to_json, and what save_all puts into the file. *)
Quoted(t) == <<"quote">> \o t \o <<"quote">>
RecordText(p) ==
    <<"open">> \o Quoted(<<"page">>) \o <<"colon", p.page, "comma">>
            \o Quoted(<<"name">>) \o <<"colon">> \o Quoted(Esc(p.name)) \o <<"close">>
EntryText(e) == Quoted(Esc(e[1])) \o <<"colon">> \o RecordText(e[2])
Comma(n) == IF n = 1 THEN <<>> ELSE <<"comma">>
SaveText(map) ==
    LET body[n \in 0 .. Len(map)] ==
            IF n = 0 THEN <<>> ELSE body[n - 1] \o Comma(n) \o EntryText(map[n])
    IN  <<"open">> \o body[Len(map)] \o <<"close">>

------------------------------------------------------------------------------
(* The first of the places found in s, or the end. *)
Seek(s, places) == Min(places \cup {Len(s) + 1})

(* The closing quote of the string that begins at i: one after an even     *)
(* number of backslashes.                                                  *)
FirstQuote(s, i) == Seek(s, {k \in i .. Len(s) : s[k] = "quote"})
StringEnd(s, i) ==
    LET slashes(k) == k - 1 - Max({j \in i .. k - 1 : s[j] # "slash"} \cup {i - 1}) IN
    Seek(s, {k \in i .. Len(s) : s[k] = "quote" /\ slashes(k) % 2 = 0})

(* jnum and jstr *)
After(s, label) ==
    Seek(s, {k \in 1 .. Len(s) - 3 : SubSeq(s, k, k + 3) = Quoted(<<label>>) \o <<"colon">>}) + 4
JNum(s, label) ==
    LET i == After(s, label) IN
    IF i <= Len(s) /\ s[i] \in Digits THEN s[i] ELSE "0"
JStr(s, label) ==
    LET i == After(s, label) IN
    IF i <= Len(s) /\ s[i] = "quote"
    THEN Unesc(SubSeq(s, i + 1, StringEnd(s, i + 1) - 1)) ELSE <<>>

ParseProgressObj(s) == [page |-> JNum(s, "page"), name |-> JStr(s, "name")]

(* The brace that closes the object opened at i, braces in strings aside. *)
ModeAfter(mode, c) ==
    IF mode = "skip" THEN "string"
    ELSE IF mode = "string" /\ c = "slash" THEN "skip"
    ELSE IF c = "quote" THEN (IF mode = "string" THEN "plain" ELSE "string") ELSE mode
ScanOn(st, c) ==
    IF st.depth = 0 /\ st.read > 0 THEN st
    ELSE [read  |-> st.read + 1,
          mode  |-> ModeAfter(st.mode, c),
          depth |-> IF st.mode # "plain" THEN st.depth
                    ELSE IF c = "open" THEN st.depth + 1
                    ELSE IF c = "close" THEN st.depth - 1 ELSE st.depth]
ObjectEnd(s, i) ==
    LET scan[n \in 0 .. Len(s) + 1 - i] ==
            IF n = 0 THEN [read |-> 0, mode |-> "plain", depth |-> 0]
            ELSE ScanOn(scan[n - 1], s[i + n - 1])
        end == scan[Len(s) + 1 - i]
    IN  IF end.depth = 0 THEN i + end.read - 1 ELSE Len(s) + 1

(* split_top_objects, and load_all's parsing of every body. *)
LoadText(s) ==
    LET from[i \in 1 .. Len(s) + 2] ==
            LET q == Seek(s, {k \in i .. Len(s) : s[k] \in {"quote", "close"}})
                e == StringEnd(s, q + 1)
                v == Seek(s, {k \in e + 1 .. Len(s) : s[k] = "open"})
                end == ObjectEnd(s, v)
            IN  IF q > Len(s) \/ s[q] = "close" \/ v > Len(s) \/ end > Len(s) THEN <<>>
                ELSE << <<Unesc(SubSeq(s, q + 1, e - 1)), ParseProgressObj(SubSeq(s, v, end))>> >>
                     \o from[end + 1]
    IN  from[Seek(s, {k \in DOMAIN s : s[k] = "open"}) + 1]

------------------------------------------------------------------------------
(* What load_all reads of what save_all wrote is the same map, for names   *)
(* and paths with quotes, backslashes, braces and labels in them; of a     *)
(* file cut short at any character (save_all renames without syncing) it   *)
(* reads the records that are complete, and nothing else.  (A cut inside a *)
(* character of several bytes leaves no text, which counts as empty.)      *)
SurvivesCut(map) ==
    LET text == SaveText(map)
        whole(n) == Cardinality({i \in DOMAIN map : Len(SaveText(SubSeq(map, 1, i))) <= n + 1})
    IN  \A n \in 0 .. Len(text) : LoadText(SubSeq(text, 1, n)) = SubSeq(map, 1, whole(n))
=============================================================================
