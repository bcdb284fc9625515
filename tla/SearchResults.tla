--------------------------- MODULE SearchResults ---------------------------
(***************************************************************************)
(* The page inside the frame MSearchResults: SearchResults and             *)
(* createResults in docs/search/search.js.  Which page that is, b.asked    *)
(* tells; its own state is the set open of the rows whose entries are      *)
(* displayed.  Browsers raise keypress only for keys that make a character,*)
(* which do nothing here, so that a key acts when it goes down and each    *)
(* time it is repeated, and lastKey and repeatOn have no part.             *)
(*                                                                         *)
(* A row belongs to a name and has no entries of its own if the name was   *)
(* found once.  Rows are numbered from 1, the code's Item0.                *)
(***************************************************************************)
EXTENDS SearchBox, FiniteSetsExt

CONSTANTS
  IdOf,  \* convertToId: what a character becomes in the identifier of a row
  Data   \* searchData: for each filter and each of its pages the rows

\* The rows of a page are sorted: those that begin alike are next to each other.
Sorted(rows) ==
  \A i, k \in DOMAIN rows : \A j \in i .. k : \A n \in 0 .. Len(rows[i].name) :
    LET start == SubSeq(rows[i].name, 1, n)
    IN  IsPrefix(start, rows[k].name) => IsPrefix(start, rows[j].name)

ASSUME ResultsAssumption ==
  /\ Data \in Seq(Seq(Seq([name : Seq({IdOf[c] : c \in Chars}), entries : Nat])))
  /\ Len(Data) = Count
  /\ \A f \in DOMAIN Data :
       /\ Sections[f] # << >> /\ Len(Data[f]) = Len(Sections[f])
       /\ \A p \in DOMAIN Data[f] : Sorted(Data[f][p])

Rows(b) ==
  IF b.loading \/ b.asked.page = 0 THEN << >>
  ELSE Data[b.asked.index + 1][b.asked.page]
HasEntries(b, r) == r \in DOMAIN Rows(b) /\ Rows(b)[r].entries > 0

ConvertToId(q) == [i \in DOMAIN q |-> IdOf[q[i]]]
TrimEnd(q) == Reverse(Trim(Reverse(q)))

\* The rows that SearchResults.Search displays.
Matches(b) ==
  LET search == ConvertToId(TrimEnd(b.asked.query))
  IN  {r \in DOMAIN Rows(b) : IsPrefix(search, Rows(b)[r].name)}

\* focus() does nothing for an element that is not displayed.
Displayed(b, open, place) ==
  /\ b.results
  /\ place.row \in Matches(b)
  /\ place.child > 0 => place.row \in open
FocusIn(b, open, place) == IF Displayed(b, open, place) THEN MoveFocus(b, place) ELSE b

\* The next or the previous row displayed, from row i on; 0 if there is none.
NavNext(b, i) ==
  LET found == {r \in Matches(b) : r >= i}
  IN  IF found = {} THEN 0 ELSE Min(found)
NavPrev(b, i) ==
  LET found == {r \in Matches(b) : r <= i}
  IN  IF found = {} THEN 0 ELSE Max(found)

\* Escape: the panel is closed, then the field gets the focus.
LeaveResults(b) == MoveFocus(CloseResultsWindow(b), Field)

\* Faulty: passes the entries of the row above.
UpToRow(b, open, r) ==
  IF NavPrev(b, r - 1) = 0 THEN MoveFocus(b, Field)
  ELSE FocusIn(b, open, Item(NavPrev(b, r - 1)))

\* Nav for row r: the place Up goes to looks for entries of row r - 1.
UpFrom(b, open, r) ==
  LET p == NavPrev(b, r - 1)
  IN  IF p = 0 THEN MoveFocus(b, Field)
      ELSE IF p \in open /\ HasEntries(b, r - 1)
           THEN FocusIn(b, open, Child(r - 1, Rows(b)[r - 1].entries))
           ELSE FocusIn(b, open, Item(p))

NextRow(b, open, i) == IF NavNext(b, i) = 0 THEN b ELSE FocusIn(b, open, Item(NavNext(b, i)))

DownFrom(b, open, r) ==
  IF r \in open THEN FocusIn(b, open, Child(r, 1)) ELSE NextRow(b, open, r + 1)

Nav(b, open, r, key) ==
  CASE key = "Up" -> UpFrom(b, open, r)
    [] key = "Down" -> DownFrom(b, open, r)
    [] key = "Escape" -> LeaveResults(b)
    [] OTHER -> b

NavChild(b, open, r, c, key) ==
  CASE key = "Up" -> FocusIn(b, open, Child(r, c - 1))
    [] key = "Down" -> IF c < Rows(b)[r].entries THEN FocusIn(b, open, Child(r, c + 1))
                       ELSE NextRow(b, open, r + 1)
    [] key = "Escape" -> LeaveResults(b)
    [] OTHER -> b

NavAt(b, open, key) ==
  IF b.focus.child = 0 THEN Nav(b, open, b.focus.row, key)
  ELSE NavChild(b, open, b.focus.row, b.focus.child, key)

\* Right and Left on a row display and hide its entries.
Unfold(b, open, key) ==
  IF b.focus.child = 0 /\ HasEntries(b, b.focus.row)
  THEN CASE key = "Right" -> open \cup {b.focus.row}
         [] key = "Left" -> open \ {b.focus.row}
         [] OTHER -> open
  ELSE open

Toggle(open, r) == IF r \in open THEN open \ {r} ELSE open \cup {r}

\* The page tells itself to focus the first row; nomatches does not listen.
TakeFocus(b, open) == NextRow(b, open, 1)
=============================================================================
