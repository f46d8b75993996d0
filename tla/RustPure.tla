------------------------------- MODULE RustPure -------------------------------
(***************************************************************************)
(* The pure parts of the Rust service over given inputs: the order of a    *)
(* listing (library.rs), the text of a progress file (progress.rs), and    *)
(* the picture of a page (pdfdoc.rs).                                      *)
(***************************************************************************)
EXTENDS RustLibrary, ProgressText, RustPageBox

CONSTANTS
    Inputs,   \* what the operators are given
    Names     \* names that two given ones are compared among

VARIABLE given

OrderInput == [kind : {"order"}, a : Name, b : Name, dir : Seq(Entry)]
TextInput == [kind : {"text"}, map : Seq(Text \X Record)]
PageInput == [kind : {"page"}, page : Page]

NoInput == [kind |-> "none"]

ASSUME InputsAssumption ==
    /\ Inputs \subseteq OrderInput \cup TextInput \cup PageInput \cup {NoInput}
    /\ Names \subseteq Name

PureSpec == given \in Inputs /\ [][FALSE]_given

------------------------------------------------------------------------------
(* library.rs sorts listings by an order that is total on all names, and   *)
(* lists a directory alike however it was read.                            *)
ListingOrdered ==
    given.kind = "order" => TotalAt(given.a, given.b, Names) /\ SameListing(given.dir)

(* progress.rs reads back what it wrote, and of a cut file what is whole.  *)
TextSurvivesCut == given.kind = "text" => SurvivesCut(given.map)

(* pdfdoc.rs cuts the crop box out of a scan.                              *)
CutFitsImage == given.kind = "page" => CutIsCropBox(given.page)

(* pdfdoc.rs makes a picture that lies as the visible part of its page     *)
(* does, unless it fell back to drawing the whole page.                    *)
PictureLiesAsBox == given.kind = "page" => LiesAsBox(given.page)
=============================================================================
