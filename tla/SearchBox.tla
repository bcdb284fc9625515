----------------------------- MODULE SearchBox -----------------------------
(***************************************************************************)
(* The search panel of the documentation's pages: SearchBox in             *)
(* docs/search/search.js.  Its handlers call each other, so that each one  *)
(* is an operator on the state of the panel, a record b:                   *)
(*                                                                         *)
(*   value         the text of the field MSearchField                      *)
(*   focus         where the keyboard focus is                             *)
(*   boxActive     MSearchBox has the class MSearchBoxActive               *)
(*   searchActive, searchIndex                  as in the code             *)
(*   last          lastSearchValue                                         *)
(*   keyTimeout    keyTimeout names a running timer                        *)
(*   strays        running key timers whose number has been overwritten    *)
(*   hideTimeout   the timer that will close the list of filters runs      *)
(*   results, close, select   MSearchResultsWindow, MSearchClose and       *)
(*                 MSearchSelectWindow are displayed                       *)
(*   asked, loading  the location that the frame MSearchResults was last   *)
(*                 given, and whether it has yet to load it; what the user *)
(*                 may still do to the page it replaces is left out        *)
(*   missed        history: the text has changed, and no keyup has compared*)
(*                 it with the last search, or the search was called off   *)
(*   kept          history: the filter was changed under results that were *)
(*                 kept, there being no text to search for                 *)
(*   unsettled     history: the field was reset while a key timer was      *)
(*                 running, or menu.js has replaced it since               *)
(*                                                                         *)
(* Positions and sizes, which code units are surrogates and how the items  *)
(* of the list are marked are left out.                                    *)
(***************************************************************************)
EXTENDS Integers, Sequences, SequencesExt

CONSTANTS
  Chars,    \* the characters a user may type
  SP,       \* the space, one of them
  Queries,  \* what the text of the field may be: sequences of characters
  LABEL,    \* searchLabel, the text of a field that is not in use; nobody types it
  Sections  \* indexSectionsWithContent: for each filter its first letters

ASSUME SearchBoxAssumption ==
  /\ SP \in Chars
  /\ Queries \subseteq Seq(Chars) /\ LABEL \in Seq(Chars) \ Queries
  /\ << >> \in Queries
  /\ Sections \in Seq(Seq(Chars \ {SP})) /\ Sections # << >>

Count == Len(Sections)
EMPTY == << >>

\* value.replace(/ +/g, "") and value.replace(/^ +/, ""); kept[i] is what the first keeps
\* of the first i characters.
Compact(q) ==
  LET kept[i \in 0 .. Len(q)] ==
        IF i = 0 THEN EMPTY
        ELSE IF q[i] = SP THEN kept[i - 1] ELSE Append(kept[i - 1], q[i])
  IN  kept[Len(q)]
Trim(q) ==
  LET first == SelectInSeq(q, LAMBDA c : c # SP)
  IN  IF first = 0 THEN EMPTY ELSE SubSeq(q, first, Len(q))

\* Places for the focus: nowhere that matters, the field, an item of the list of
\* filters, or a row of the results (child 0) and the entries below it.
Place(at, row, child) == [at |-> at, row |-> row, child |-> child]
Elsewhere == Place("none", 0, 0)
Field == Place("field", 0, 0)
Filter == Place("filter", 0, 0)
Item(r) == Place("row", r, 0)
Child(r, c) == Place("row", r, c)

\* A location of the frame: the page of a first letter, 0 for nomatches, and the
\* query.
Location(index, page, query) == [index |-> index, page |-> page, query |-> query]
Blank == Location(0, 0, EMPTY)

FreshBox ==
  [value |-> LABEL, focus |-> Elsewhere, boxActive |-> FALSE, searchActive |-> FALSE,
   searchIndex |-> 0, last |-> EMPTY, keyTimeout |-> FALSE, strays |-> 0,
   hideTimeout |-> FALSE, results |-> FALSE, close |-> FALSE, select |-> FALSE,
   asked |-> Blank, loading |-> FALSE, missed |-> FALSE, kept |-> FALSE, unsettled |-> FALSE]

TimerRuns(b) == b.keyTimeout \/ b.strays > 0

Activate(b, isActive) ==
  IF isActive \/ b.results
  THEN IF b.value = LABEL
       THEN [b EXCEPT !.boxActive = TRUE, !.value = EMPTY, !.searchActive = TRUE]
       ELSE [b EXCEPT !.boxActive = TRUE]
  ELSE [b EXCEPT !.boxActive = FALSE, !.value = LABEL, !.searchActive = FALSE,
                 !.last = EMPTY, !.unsettled = TimerRuns(b), !.missed = FALSE, !.kept = FALSE]

\* Faulty: does not notice that the user leaves.
ActivateOnly(b, isActive) == IF isActive THEN Activate(b, TRUE) ELSE b

OnSearchFieldFocus(b, isActive) == Activate(b, isActive)

\* The focus moves: the field is told when it loses and when it gets it.
MoveFocus(b, to) ==
  LET left == IF b.focus = Field /\ to # Field
              THEN OnSearchFieldFocus([b EXCEPT !.focus = to], FALSE)
              ELSE [b EXCEPT !.focus = to]
  IN  IF b.focus # Field /\ to = Field THEN OnSearchFieldFocus(left, TRUE) ELSE left

\* Faulty: leaves the timer that hides the list.
ShowOnly(b) == [b EXCEPT !.select = TRUE]

OnSearchSelectShow(b) == [b EXCEPT !.select = TRUE, !.hideTimeout = FALSE]

OnSearchSelectHide(b) == [b EXCEPT !.hideTimeout = TRUE]

CloseSelectionWindow(b) == [b EXCEPT !.select = FALSE]

HideResults(b) == [b EXCEPT !.results = FALSE, !.close = FALSE]
\* Faulty: leaves the panel as it is.
HideOnly(b) == HideResults(b)

CloseResultsWindow(b) == Activate(HideResults(b), FALSE)

\* Search throws when no section belongs to searchIndex.
NoSection(b) == b.searchIndex >= Count

\* The page of the first character: indexOf of an empty string is 0, which is
\* the page of the first letter.
PageOf(section, q) ==
  IF q = EMPTY THEN 1
  ELSE IF \E i \in DOMAIN section : section[i] = Head(q)
       THEN CHOOSE i \in DOMAIN section : section[i] = Head(q)
       ELSE 0

Search(b) ==
  LET q == Trim(b.value)
      forgotten == [b EXCEPT !.strays = IF b.keyTimeout THEN @ + 1 ELSE @,
                             !.keyTimeout = FALSE]
  IN  IF NoSection(b) THEN forgotten
      ELSE [forgotten EXCEPT
              !.asked = Location(b.searchIndex, PageOf(Sections[b.searchIndex + 1], q), q),
              !.loading = TRUE, !.focus = IF @.at = "row" THEN Elsewhere ELSE @,
              !.results = TRUE,
              !.close = IF b.results THEN @ ELSE TRUE,
              !.last = q, !.missed = FALSE, !.kept = FALSE]

\* A timer fires: they run equally long, so those with a forgotten number, which
\* were started earlier, come first.
KeyTimerFires(b) ==
  Search(IF b.strays > 0 THEN [b EXCEPT !.strays = @ - 1]
                         ELSE [b EXCEPT !.keyTimeout = FALSE])

Searches(b) == Compact(b.value) # EMPTY /\ b.searchActive
\* Faulty: shows the results found under the filter before.
ChooseOnly(b, id) == [b EXCEPT !.searchIndex = id]

OnSelectItem(b, id) ==
  LET chosen == [b EXCEPT !.searchIndex = id]
  IN  IF Searches(b) THEN Search(chosen) ELSE [chosen EXCEPT !.kept = @ \/ b.results]

OnSearchSelectKey(b, key) ==
  CASE key = "Down" /\ b.searchIndex < Count -> OnSelectItem(b, b.searchIndex + 1)
    [] key = "Up" /\ b.searchIndex > 0 -> OnSelectItem(b, b.searchIndex - 1)
    [] key \in {"Enter", "Escape"} ->
         LET chosen == OnSelectItem(b, b.searchIndex)
         IN  IF Searches(b) /\ NoSection(b) THEN chosen
             ELSE MoveFocus(CloseSelectionWindow(chosen), Field)
    [] OTHER -> b

\* What OnSearchFieldChange does when no key took it elsewhere.
CompareWithLast(b) ==
  LET v == Compact(b.value)
      seen == [b EXCEPT !.missed = FALSE]
  IN  IF v = b.last THEN seen
      ELSE IF v # EMPTY THEN [seen EXCEPT !.keyTimeout = TRUE]
      ELSE [HideResults(seen) EXCEPT !.last = EMPTY, !.unsettled = b.strays > 0]

\* Faulty: on Escape, leaves the panel before the results are hidden.
EscapeLeavesFirst(b, key) ==
  LET c == [b EXCEPT !.keyTimeout = FALSE, !.missed = @ \/ b.keyTimeout]
  IN  CASE key = "ShiftDown" -> MoveFocus(OnSearchSelectShow(c), Filter)
        [] key = "Escape" ->
             [HideResults(Activate(MoveFocus(c, Elsewhere), FALSE)) EXCEPT !.last = EMPTY]
        [] OTHER -> CompareWithLast(c)

\* keyup in the field, the running timer being cleared first.
OnSearchFieldChange(b, key) ==
  LET c == [b EXCEPT !.keyTimeout = FALSE, !.missed = @ \/ b.keyTimeout]
  IN  CASE key = "ShiftDown" -> MoveFocus(OnSearchSelectShow(c), Filter)
        [] key = "Escape" ->
             Activate([HideResults(MoveFocus(c, Elsewhere)) EXCEPT !.last = EMPTY], FALSE)
        [] OTHER -> CompareWithLast(c)

\* Down and Enter tell the frame to take the focus.
AsksFrame(key) == key \in {"Down", "Enter"}

\* menu.js puts a new panel into the page when the width changes: the text is
\* the label again, the class inactive and the closing icon hidden, while what
\* SearchBox remembers stays.  Removing the field may or may not blur it.
ResetState(b) ==
  [b EXCEPT !.value = LABEL, !.boxActive = FALSE, !.close = FALSE,
            !.focus = IF b.focus.at = "row" THEN @ ELSE Elsewhere,
            !.unsettled = TRUE, !.missed = FALSE]
=============================================================================
