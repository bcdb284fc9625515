------------------------------- MODULE Search -------------------------------
(***************************************************************************)
(* The search of the documentation as a whole: the panel (SearchBox), the  *)
(* page in the frame (SearchResults), the user at the keyboard and with    *)
(* the mouse, the timers and the loading of pages.  The message that the   *)
(* panel sends to the frame is handled before the next event.  Which       *)
(* element calls which handler is set in menu.js, index.html and           *)
(* createResults.                                                          *)
(*                                                                         *)
(* A key is held between keydown and keyup, and the focus may move in the  *)
(* meantime: the element that gets the keyup need not be the one that got  *)
(* the keydown.                                                            *)
(***************************************************************************)
EXTENDS SearchResults, FiniteSets

CONSTANT MaxStrays  \* bound: key timers whose number is forgotten

VARIABLES
  box,      \* the panel
  open,     \* the page in the frame: rows whose entries are displayed
  held,     \* the key that is down, "" if none
  pointer   \* the mouse is over the icon, over the list of filters, or neither

vars == <<box, open, held, pointer>>

\* The keys that make a difference where they are pressed.  "Char" changes the
\* text of the field, and is any key that is pressed outside the panel.
KeysAt ==
  [none |-> {"Char"},
   field |-> {"Char", "Down", "ShiftDown", "Escape"},
   filter |-> {"Up", "Down", "Enter", "Escape"},
   row |-> {"Up", "Down", "Left", "Right", "Enter", "Escape"}]
Keys == UNION {KeysAt[at] : at \in DOMAIN KeysAt}
KeyCode(key) == IF key = "ShiftDown" THEN "Down" ELSE key

Init ==
  /\ box = FreshBox
  /\ open = {}
  /\ held = ""
  /\ pointer = "away"

InFrame == box.focus.at = "row"
Bounded == box.strays <= MaxStrays

\* A search replaces the page in the frame.
ReplacePage == open' = IF box'.loading THEN {} ELSE open

\* A list that closes is not under the mouse any more.
KeepPointer == pointer' = IF pointer = "list" /\ ~box'.select THEN "away" ELSE pointer

\* A click on a row or an entry, or Enter on it: a row with entries is toggled, a
\* link closes the panel.  A link to another page starts with a new panel.
Click(b, place) ==
  LET there == MoveFocus(b, place)
  IN  IF place.child = 0 /\ HasEntries(box, place.row)
      THEN /\ box' = there /\ open' = Toggle(open, place.row)
      ELSE /\ box' = CloseResultsWindow([there EXCEPT !.focus = Elsewhere])
           /\ open' = open

---------------------------------------------------------------------------
(* The keyboard. *)

Edit(q) == box' = [box EXCEPT !.value = q, !.missed = TRUE]

KeyDown(key) ==
  /\ held \in {"", key} /\ key \in KeysAt[box.focus.at]
  /\ held' = key
  /\ CASE box.focus = Field /\ key = "Char" ->
            /\ \E q \in Queries \ {box.value} : Edit(q)
            /\ UNCHANGED open
       [] box.focus = Filter ->
            /\ box' = OnSearchSelectKey(box, KeyCode(key))
            /\ ReplacePage
       [] InFrame /\ key = "Enter" -> Click(box, box.focus)
       [] InFrame /\ key # "Enter" ->
            /\ box' = NavAt(box, open, key)
            /\ open' = Unfold(box, open, key)
       [] OTHER -> UNCHANGED <<box, open>>
  /\ Bounded'
  /\ KeepPointer

KeyUp ==
  /\ held # ""
  /\ held' = ""
  /\ IF box.focus = Field
     THEN LET b == OnSearchFieldChange(box, held)
          IN  box' = IF AsksFrame(held) THEN TakeFocus(b, open) ELSE b
     ELSE UNCHANGED box
  /\ UNCHANGED <<open, pointer>>

---------------------------------------------------------------------------
(* The mouse. *)

FocusField == box.focus # Field /\ box' = MoveFocus(box, Field)
Leave == box.focus # Elsewhere /\ box' = MoveFocus(box, Elsewhere)
Paste == box.focus = Field /\ \E q \in Queries \ {box.value} : Edit(q)
CloseLink == box.close /\ box' = CloseResultsWindow(MoveFocus(box, Elsewhere))
SelectItem == box.select /\ \E id \in 0 .. Count - 1 :
                              box' = OnSelectItem(MoveFocus(box, Filter), id)
ClickPanel ==
  /\ FocusField \/ Leave \/ Paste \/ CloseLink \/ SelectItem
  /\ Bounded'
  /\ ReplacePage
  /\ UNCHANGED <<held, pointer>>

ClickResult ==
  /\ \E r \in DOMAIN Rows(box) : \E c \in 0 .. Rows(box)[r].entries :
       /\ Displayed(box, open, Child(r, c))
       /\ Click(box, Child(r, c))
  /\ UNCHANGED <<held, pointer>>

MouseOver(place) ==
  /\ pointer = "away"
  /\ place = "list" => box.select
  /\ pointer' = place
  /\ box' = OnSearchSelectShow(box)
  /\ UNCHANGED <<open, held>>

MouseOut ==
  /\ pointer # "away"
  /\ pointer' = "away"
  /\ box' = OnSearchSelectHide(box)
  /\ UNCHANGED <<open, held>>

---------------------------------------------------------------------------
(* The browser. *)

KeyTimer ==
  /\ TimerRuns(box)
  /\ box' = KeyTimerFires(box)
  /\ ReplacePage
  /\ UNCHANGED <<held, pointer>>

HideTimer ==
  /\ box.hideTimeout
  /\ box' = CloseSelectionWindow([box EXCEPT !.hideTimeout = FALSE])
  /\ KeepPointer
  /\ UNCHANGED <<open, held>>

Load ==
  /\ box.loading
  /\ box' = [box EXCEPT !.loading = FALSE]
  /\ UNCHANGED <<open, held, pointer>>

Resize ==
  /\ \E blurred \in BOOLEAN :
       box' = ResetState(IF blurred /\ box.focus = Field THEN MoveFocus(box, Elsewhere)
                         ELSE box)
  /\ pointer' = IF pointer = "icon" THEN "away" ELSE pointer
  /\ UNCHANGED <<open, held>>

Next ==
  \/ \E key \in Keys : KeyDown(key)
  \/ KeyUp
  \/ ClickPanel
  \/ ClickResult
  \/ \E place \in {"icon", "list"} : MouseOver(place)
  \/ MouseOut
  \/ KeyTimer
  \/ HideTimer
  \/ Load
  \/ Resize

Spec == Init /\ [][Next]_vars

---------------------------------------------------------------------------
(* Properties. *)

Places == [at : {"none", "field", "filter", "row"}, row : Nat, child : Nat]
TypeOK ==
  /\ box.value \in Queries \cup {LABEL}
  /\ box.focus \in Places
  /\ box.searchIndex \in 0 .. Count
  /\ box.strays \in 0 .. MaxStrays
  /\ held \in Keys \cup {""}
  /\ pointer \in {"away", "icon", "list"}

\* Results that are not displayed are forgotten, on every way to close them:
\* otherwise the same query, typed again, would be taken for one that has been
\* answered, and no results would come.
HiddenResultsForgotten == ~box.results => box.last = EMPTY

\* Once every change of the text has been noticed and no timer runs, the results
\* displayed answer the text in the field, up to spaces, under the filter chosen;
\* except with the filter after the last one, which OnSearchSelectKey allows and
\* under which nothing can be searched.
ResultsAnswerField ==
  (box.results /\ ~box.missed /\ ~TimerRuns(box) /\ box.value \notin {EMPTY, LABEL}
     /\ box.searchIndex < Count)
  => /\ Compact(box.asked.query) = Compact(box.value)
     /\ box.kept \/ box.asked.index = box.searchIndex

\* The panel is active while it is in use, by the field having the focus or the
\* results being displayed, and afterwards shows its label and has forgotten that
\* it was in use, unless the field was reset or replaced over a pending search:
\* Activate does not stop the timer, and menu.js does not reset the SearchBox.
PanelReset ==
  ~box.unsettled =>
    IF box.focus = Field \/ box.results
    THEN box.boxActive /\ box.value # LABEL
    ELSE ~box.boxActive /\ box.value = LABEL /\ ~box.searchActive

\* The list of filters is not closed under the mouse: no timer that would do so
\* runs, whatever happened between the mouse's ways out and back.
PointerKeepsList ==
  pointer # "away" => ~box.hideTimeout /\ (pointer = "list" => box.select)

\* The rows and entries displayed, and their order on the page.
Shown(b, unfolded) ==
  {Item(r) : r \in Matches(b)}
    \cup UNION {{Child(r, c) : c \in 1 .. Rows(b)[r].entries} : r \in Matches(b) \cap unfolded}
Above(p, q) == p.row < q.row \/ (p.row = q.row /\ p.child < q.child)

\* Down and Up walk through what is displayed, one by one, whatever is unfolded
\* and whatever the query hides; Up leads from the first row back to the field,
\* and Down stays at the last one.  The focus is never on something hidden.
WalkFollowsOrder ==
  InFrame =>
    LET down == NavAt(box, open, "Down").focus
        up == NavAt(box, open, "Up").focus
        below == {p \in Shown(box, open) : Above(box.focus, p)}
        above == {p \in Shown(box, open) : Above(p, box.focus)}
    IN  /\ box.focus \in Shown(box, open)
        /\ IF below = {} THEN down = box.focus
           ELSE down \in below /\ \A p \in below : ~Above(p, down)
        /\ IF above = {} THEN up = Field
           ELSE up \in above /\ \A p \in above : ~Above(up, p)

\* Results appear only before a user who is in the field, unless the field has
\* been reset or replaced while a timer was running.
OpensOnlyOnDemand ==
  [][~box.results /\ box'.results =>
       box.focus = Field \/ box.unsettled]_vars
=============================================================================
