----------------------------- MODULE SearchProofs -----------------------------
(***************************************************************************)
(* Theorems about Search, for any text, any filters and any results.       *)
(***************************************************************************)
EXTENDS Search, SequenceTheorems, WellFoundedInduction, TLAPS

-----------------------------------------------------------------------------
(* The panel *)

Fields == {"value", "focus", "boxActive", "searchActive", "searchIndex", "last", "keyTimeout",
           "strays", "hideTimeout", "results", "close", "select", "asked", "loading", "missed",
           "kept", "unsettled"}

IsBox(b) ==
  /\ DOMAIN b = Fields
  /\ b.strays \in Nat
  /\ b.boxActive \in BOOLEAN /\ b.searchActive \in BOOLEAN /\ b.keyTimeout \in BOOLEAN
  /\ b.hideTimeout \in BOOLEAN /\ b.results \in BOOLEAN /\ b.select \in BOOLEAN
  /\ b.unsettled \in BOOLEAN

InUse(b) == b.focus = Field \/ b.results

\* Results that are hidden are forgotten.
Forgotten(b) == ~b.results => b.last = EMPTY

\* Settled or not, a field with the focus is active and does not show the label.
FieldActive(b) == b.focus = Field => b.boxActive /\ b.value # LABEL

\* The property PanelReset, of any panel.
Reset(b) ==
  ~b.unsettled =>
    IF InUse(b) THEN b.boxActive /\ b.value # LABEL
                ELSE ~b.boxActive /\ b.value = LABEL /\ ~b.searchActive

\* A timer that runs while the panel is not in use was there when it was reset.
TimersKnown(b) == TimerRuns(b) => b.unsettled \/ InUse(b)

BoxOK(b) == IsBox(b) /\ Forgotten(b) /\ FieldActive(b) /\ Reset(b) /\ TimersKnown(b)

\* The list of filters, and the timer that closes it.
SameList(b, c) == b.select = c.select /\ b.hideTimeout = c.hideTimeout

\* What most handlers do: they open no results, and leave the list alone.
Opens(b, c) == ~b.results /\ c.results
Quiet(b, c) == BoxOK(c) /\ SameList(b, c) /\ ~Opens(b, c)

\* The places are different, and the label is no text that a user types.
LEMMA PlacesDiffer ==
  /\ Elsewhere # Field /\ Filter # Field /\ Filter # Elsewhere
  /\ Elsewhere.at # "row" /\ Field.at # "row" /\ Filter.at # "row"
  /\ \A r, c : Child(r, c) # Field /\ Item(r) # Field
  /\ EMPTY # LABEL /\ \A q \in Queries : q # LABEL
  BY SearchBoxAssumption DEF Elsewhere, Field, Filter, Child, Item, Place, EMPTY

\* What Activate does: called to deactivate, it resets a panel without results.
LEMMA ActivateKeeps ==
  ASSUME NEW b, IsBox(b), NEW isActive \in BOOLEAN,
         isActive \/ b.results => Forgotten(b) /\ TimersKnown(b),
         isActive => b.focus = Field,
         ~isActive => b.focus # Field
  PROVE  BoxOK(Activate(b, isActive)) /\ SameList(b, Activate(b, isActive))
<1> DEFINE r == Activate(b, isActive)
<1>1. CASE (isActive \/ b.results) /\ b.value = LABEL
  <2>1. r = [b EXCEPT !.boxActive = TRUE, !.value = EMPTY, !.searchActive = TRUE]
    BY <1>1 DEF Activate
  <2> HIDE DEF r
  <2>2. /\ IsBox(r) /\ SameList(b, r) /\ r.boxActive /\ r.value = EMPTY
        /\ r.focus = b.focus /\ r.results = b.results /\ r.last = b.last
        /\ r.keyTimeout = b.keyTimeout /\ r.strays = b.strays /\ r.unsettled = b.unsettled
    BY <2>1 DEF IsBox, Fields, SameList
  <2>3. InUse(r) /\ r.value # LABEL
    BY <1>1, <2>2, PlacesDiffer DEF InUse
  <2> QED
    BY <1>1, <2>2, <2>3 DEF r, BoxOK, Forgotten, FieldActive, Reset, TimersKnown, TimerRuns
<1>2. CASE (isActive \/ b.results) /\ b.value # LABEL
  <2>1. r = [b EXCEPT !.boxActive = TRUE]
    BY <1>2 DEF Activate
  <2> HIDE DEF r
  <2>2. /\ IsBox(r) /\ SameList(b, r) /\ r.boxActive /\ r.value = b.value
        /\ r.focus = b.focus /\ r.results = b.results /\ r.last = b.last
        /\ r.keyTimeout = b.keyTimeout /\ r.strays = b.strays /\ r.unsettled = b.unsettled
    BY <2>1 DEF IsBox, Fields, SameList
  <2>3. InUse(r)
    BY <1>2, <2>2 DEF InUse
  <2> QED
    BY <1>2, <2>2, <2>3 DEF r, BoxOK, Forgotten, FieldActive, Reset, TimersKnown, TimerRuns
<1>3. CASE ~isActive /\ ~b.results
  <2>1. r = [b EXCEPT !.boxActive = FALSE, !.value = LABEL, !.searchActive = FALSE,
                      !.last = EMPTY, !.unsettled = TimerRuns(b), !.missed = FALSE, !.kept = FALSE]
    BY <1>3 DEF Activate
  <2> HIDE DEF r
  <2>2. /\ IsBox(r) /\ SameList(b, r) /\ ~r.boxActive /\ r.value = LABEL /\ ~r.searchActive
        /\ r.focus = b.focus /\ r.results = b.results /\ r.last = EMPTY
        /\ r.keyTimeout = b.keyTimeout /\ r.strays = b.strays
        /\ r.unsettled <=> TimerRuns(b)
    BY <2>1 DEF IsBox, Fields, SameList, TimerRuns
  <2>3. ~InUse(r)
    BY <1>3, <2>2 DEF InUse
  <2> QED
    BY <1>3, <2>2, <2>3 DEF r, BoxOK, Forgotten, FieldActive, Reset, TimersKnown, TimerRuns
<1> QED
  BY <1>1, <1>2, <1>3 DEF IsBox

\* The focus moves, which shows or hides no results.
LEMMA MoveFocusKeeps ==
  ASSUME NEW b, BoxOK(b), NEW to
  PROVE  /\ BoxOK(MoveFocus(b, to)) /\ SameList(b, MoveFocus(b, to))
         /\ MoveFocus(b, to).results = b.results /\ MoveFocus(b, to).focus = to
         /\ b.focus # Field => MoveFocus(b, to).unsettled = b.unsettled
<1> DEFINE r == [b EXCEPT !.focus = to]
<1>1. /\ IsBox(r) /\ SameList(b, r) /\ Forgotten(r) /\ r.focus = to
      /\ r.results = b.results /\ r.unsettled = b.unsettled /\ r.searchActive = b.searchActive
      /\ r.boxActive = b.boxActive /\ r.value = b.value
      /\ r.keyTimeout = b.keyTimeout /\ r.strays = b.strays
  BY DEF BoxOK, IsBox, Fields, SameList, Forgotten
<1>2. MoveFocus(b, to) =
        IF b.focus # Field /\ to = Field
        THEN Activate(IF b.focus = Field /\ to # Field THEN Activate(r, FALSE) ELSE r, TRUE)
        ELSE IF b.focus = Field /\ to # Field THEN Activate(r, FALSE) ELSE r
  BY DEF MoveFocus, OnSearchFieldFocus
<1> HIDE DEF r
<1>3. CASE b.focus = Field /\ to # Field
  <2>1. r.results => TimersKnown(r)
    BY DEF TimersKnown, InUse
  <2>2. BoxOK(Activate(r, FALSE)) /\ SameList(r, Activate(r, FALSE))
    BY <1>1, <1>3, <2>1, ActivateKeeps
  <2>3. Activate(r, FALSE).results = r.results /\ Activate(r, FALSE).focus = r.focus
    BY <1>1 DEF Activate, IsBox, Fields
  <2> QED
    BY <1>1, <1>2, <1>3, <2>2, <2>3 DEF SameList
<1>4. CASE b.focus # Field /\ to = Field
  <2>1. TimersKnown(r)
    BY <1>1, <1>4 DEF TimersKnown, InUse
  <2>2. BoxOK(Activate(r, TRUE)) /\ SameList(r, Activate(r, TRUE))
    BY <1>1, <1>4, <2>1, ActivateKeeps
  <2>3. /\ Activate(r, TRUE).results = r.results /\ Activate(r, TRUE).focus = r.focus
        /\ Activate(r, TRUE).unsettled = r.unsettled
    BY <1>1 DEF Activate, IsBox, Fields
  <2> QED
    BY <1>1, <1>2, <1>4, <2>2, <2>3 DEF SameList
<1>5. CASE (b.focus = Field) <=> (to = Field)
  <2>1. MoveFocus(b, to) = r
    BY <1>2, <1>5
  <2>2. FieldActive(r) /\ Reset(r) /\ TimersKnown(r)
    BY <1>1, <1>5 DEF BoxOK, FieldActive, Reset, TimersKnown, InUse, TimerRuns
  <2> QED
    BY <1>1, <2>1, <2>2 DEF BoxOK
<1> QED
  BY <1>3, <1>4, <1>5

\* A search displays results and remembers what it searched for.
LEMMA SearchKeeps ==
  ASSUME NEW b, BoxOK(b), InUse(b) \/ b.unsettled
  PROVE  /\ BoxOK(Search(b)) /\ SameList(b, Search(b))
         /\ Search(b).unsettled = b.unsettled
<1> DEFINE c == [b EXCEPT !.strays = IF b.keyTimeout THEN @ + 1 ELSE @, !.keyTimeout = FALSE]
<1>1. /\ IsBox(c) /\ SameList(b, c) /\ c.results = b.results /\ c.focus = b.focus
      /\ c.unsettled = b.unsettled /\ c.boxActive = b.boxActive /\ c.value = b.value
      /\ c.searchActive = b.searchActive /\ c.last = b.last
  BY DEF BoxOK, IsBox, Fields, SameList
<1>2. BoxOK(c)
  BY <1>1 DEF BoxOK, Forgotten, FieldActive, Reset, TimersKnown, InUse
<1> DEFINE q == Trim(b.value)
           found == Location(b.searchIndex, PageOf(Sections[b.searchIndex + 1], q), q)
           r == [c EXCEPT !.asked = found, !.loading = TRUE,
                          !.focus = IF @.at = "row" THEN Elsewhere ELSE @,
                          !.results = TRUE,
                          !.close = IF b.results THEN @ ELSE TRUE,
                          !.last = q, !.missed = FALSE, !.kept = FALSE]
<1>3. Search(b) = IF NoSection(b) THEN c ELSE r
  BY DEF Search
<1> HIDE DEF c, q, found
<1>4. /\ IsBox(r) /\ SameList(c, r) /\ r.results
      /\ r.focus = (IF c.focus.at = "row" THEN Elsewhere ELSE c.focus)
      /\ r.unsettled = c.unsettled /\ r.boxActive = c.boxActive /\ r.value = c.value
  BY <1>1 DEF IsBox, Fields, SameList
<1> HIDE DEF r
<1>5. r.focus = Field => c.focus = Field
  BY <1>4, PlacesDiffer
<1>6. BoxOK(r)
  BY <1>1, <1>2, <1>4, <1>5 DEF BoxOK, Forgotten, FieldActive, Reset, TimersKnown, InUse
<1> QED
  BY <1>1, <1>2, <1>3, <1>4, <1>6 DEF SameList

\* A filter is chosen: without results, only a panel in use searches.
LEMMA SelectKeeps ==
  ASSUME NEW b, BoxOK(b), NEW id
  PROVE  /\ BoxOK(OnSelectItem(b, id)) /\ SameList(b, OnSelectItem(b, id))
         /\ OnSelectItem(b, id).unsettled = b.unsettled
         /\ ~b.results /\ OnSelectItem(b, id).results => b.focus = Field \/ b.unsettled
<1> DEFINE c == [b EXCEPT !.searchIndex = id]
<1>1. IsBox(c) /\ SameList(b, c) /\ (\A f \in Fields \ {"searchIndex"} : c[f] = b[f])
  BY DEF BoxOK, IsBox, Fields, SameList
<1>2. /\ c.results = b.results /\ c.focus = b.focus /\ c.unsettled = b.unsettled
      /\ c.boxActive = b.boxActive /\ c.value = b.value /\ c.searchActive = b.searchActive
      /\ c.last = b.last /\ c.keyTimeout = b.keyTimeout /\ c.strays = b.strays
  BY DEF BoxOK, IsBox, Fields
<1>3. BoxOK(c)
  BY <1>1, <1>2 DEF BoxOK, Forgotten, FieldActive, Reset, TimersKnown, InUse, TimerRuns
<1> DEFINE r == [c EXCEPT !.kept = @ \/ b.results]
<1>4. OnSelectItem(b, id) = IF Searches(b) THEN Search(c) ELSE r
  BY DEF OnSelectItem
<1> HIDE DEF c
<1>5. CASE Searches(b)
  <2>1. InUse(c) \/ c.unsettled
    BY <1>2, <1>5 DEF Searches, BoxOK, Reset, InUse
  <2>2. BoxOK(Search(c)) /\ SameList(c, Search(c)) /\ Search(c).unsettled = c.unsettled
    BY <1>3, <2>1, SearchKeeps
  <2> QED
    BY <1>1, <1>2, <1>4, <1>5, <2>1, <2>2 DEF SameList, InUse
<1>6. CASE ~Searches(b)
  <2>1. /\ IsBox(r) /\ SameList(c, r) /\ r.results = c.results /\ r.focus = c.focus
        /\ r.unsettled = c.unsettled /\ r.boxActive = c.boxActive /\ r.value = c.value
        /\ r.searchActive = c.searchActive /\ r.last = c.last
        /\ r.keyTimeout = c.keyTimeout /\ r.strays = c.strays
    BY <1>3 DEF BoxOK, IsBox, Fields, SameList
  <2> HIDE DEF r
  <2>2. BoxOK(r)
    BY <1>3, <2>1 DEF BoxOK, Forgotten, FieldActive, Reset, TimersKnown, InUse, TimerRuns
  <2> QED
    BY <1>1, <1>2, <1>4, <1>6, <2>1, <2>2 DEF SameList
<1> QED
  BY <1>5, <1>6

\* A key timer searches in a panel that is in use, or was reset over the timer.
LEMMA KeyTimerKeeps ==
  ASSUME NEW b, BoxOK(b), TimerRuns(b)
  PROVE  /\ BoxOK(KeyTimerFires(b)) /\ SameList(b, KeyTimerFires(b))
         /\ Opens(b, KeyTimerFires(b)) => b.focus = Field \/ b.unsettled
<1> DEFINE c == IF b.strays > 0 THEN [b EXCEPT !.strays = @ - 1]
                                ELSE [b EXCEPT !.keyTimeout = FALSE]
<1>1. /\ IsBox(c) /\ SameList(b, c) /\ c.results = b.results /\ c.focus = b.focus
      /\ c.unsettled = b.unsettled /\ c.boxActive = b.boxActive /\ c.value = b.value
      /\ c.searchActive = b.searchActive /\ c.last = b.last
  <2>1. CASE b.strays > 0
    BY <2>1 DEF BoxOK, IsBox, Fields, SameList
  <2>2. CASE ~(b.strays > 0)
    BY <2>2 DEF BoxOK, IsBox, Fields, SameList
  <2> QED
    BY <2>1, <2>2
<1>2. KeyTimerFires(b) = Search(c)
  BY DEF KeyTimerFires
<1> HIDE DEF c
<1>3. InUse(c) \/ c.unsettled
  BY <1>1 DEF BoxOK, TimersKnown, InUse
<1>4. BoxOK(c)
  BY <1>1, <1>3 DEF BoxOK, Forgotten, FieldActive, Reset, TimersKnown, InUse
<1> QED
  BY <1>1, <1>2, <1>3, <1>4, SearchKeeps DEF SameList, InUse, Opens

\* Closing the results forgets them and resets the panel.
LEMMA CloseKeeps ==
  ASSUME NEW b, IsBox(b), b.focus # Field
  PROVE  /\ BoxOK(CloseResultsWindow(b)) /\ SameList(b, CloseResultsWindow(b))
         /\ ~CloseResultsWindow(b).results
<1> DEFINE c == HideResults(b)
<1>1. IsBox(c) /\ SameList(b, c) /\ ~c.results /\ c.focus = b.focus
  BY DEF HideResults, IsBox, Fields, SameList
<1>2. CloseResultsWindow(b) = Activate(c, FALSE)
  BY DEF CloseResultsWindow
<1> HIDE DEF c
<1>3. BoxOK(Activate(c, FALSE)) /\ SameList(c, Activate(c, FALSE))
  BY <1>1, ActivateKeeps
<1>4. Activate(c, FALSE).results = c.results
  BY <1>1 DEF Activate, IsBox, Fields
<1> QED
  BY <1>1, <1>2, <1>3, <1>4 DEF SameList

\* A key in the list of filters.
LEMMA SelectKeyKeeps ==
  ASSUME NEW b, BoxOK(b), b.focus = Filter, NEW key
  PROVE  LET c == OnSearchSelectKey(b, key)
         IN  /\ BoxOK(c) /\ c.hideTimeout = b.hideTimeout
             /\ Opens(b, c) => b.unsettled
<1>1. \A id : /\ BoxOK(OnSelectItem(b, id)) /\ SameList(b, OnSelectItem(b, id))
              /\ Opens(b, OnSelectItem(b, id)) => b.unsettled
  BY SelectKeeps, PlacesDiffer DEF Opens
<1> DEFINE chosen == OnSelectItem(b, b.searchIndex)
           closed == CloseSelectionWindow(chosen)
<1>2. BoxOK(closed) /\ closed.hideTimeout = b.hideTimeout /\ closed.results = chosen.results
  <2>1. PICK d : d = chosen
    OBVIOUS
  <2>2. BoxOK(d) /\ SameList(b, d)
    BY <1>1, <2>1
  <2>3. PICK r : r = [d EXCEPT !.select = FALSE]
    OBVIOUS
  <2>4. /\ IsBox(r) /\ r.results = d.results /\ r.focus = d.focus
        /\ r.unsettled = d.unsettled /\ r.boxActive = d.boxActive /\ r.value = d.value
        /\ r.searchActive = d.searchActive /\ r.last = d.last
        /\ r.keyTimeout = d.keyTimeout /\ r.strays = d.strays /\ r.hideTimeout = d.hideTimeout
    BY <2>2, <2>3 DEF BoxOK, IsBox, Fields
  <2>5. BoxOK(r)
    BY <2>2, <2>4 DEF BoxOK, Forgotten, FieldActive, Reset, TimersKnown, InUse, TimerRuns
  <2>6. closed = r
    BY <2>1, <2>3 DEF CloseSelectionWindow
  <2> QED
    BY <2>1, <2>2, <2>4, <2>5, <2>6 DEF SameList
<1>3. \/ OnSearchSelectKey(b, key) = b
      \/ \E id : OnSearchSelectKey(b, key) = OnSelectItem(b, id)
      \/ OnSearchSelectKey(b, key) = MoveFocus(closed, Field)
  BY DEF OnSearchSelectKey
<1> QED
  BY <1>1, <1>2, <1>3, MoveFocusKeeps DEF SameList, Opens

\* A panel whose field has the focus stays in order as long as it stays active.
LEMMA FieldKeeps ==
  ASSUME NEW b, BoxOK(b), b.focus = Field, NEW c, IsBox(c), c.focus = Field,
         c.boxActive, c.value # LABEL,
         (c.results = b.results /\ c.last = b.last) \/ (~c.results /\ c.last = EMPTY)
  PROVE  BoxOK(c) /\ ~Opens(b, c)
  BY DEF BoxOK, Forgotten, FieldActive, Reset, TimersKnown, InUse, Opens

\* A keyup in the field.
LEMMA FieldChangeKeeps ==
  ASSUME NEW b, BoxOK(b), b.focus = Field, NEW key
  PROVE  LET c == OnSearchFieldChange(b, key)
         IN  /\ BoxOK(c) /\ ~Opens(b, c)
             /\ SameList(b, c) \/ (c.select /\ ~c.hideTimeout)
<1> DEFINE c == [b EXCEPT !.keyTimeout = FALSE, !.missed = @ \/ b.keyTimeout]
<1>1. /\ IsBox(c) /\ SameList(b, c) /\ c.results = b.results /\ c.focus = Field
      /\ c.boxActive = b.boxActive /\ c.value = b.value /\ c.last = b.last
  BY DEF BoxOK, IsBox, Fields, SameList
<1>2. OnSearchFieldChange(b, key) =
        CASE key = "ShiftDown" -> MoveFocus(OnSearchSelectShow(c), Filter)
          [] key = "Escape" ->
               Activate([HideResults(MoveFocus(c, Elsewhere)) EXCEPT !.last = EMPTY], FALSE)
          [] OTHER -> CompareWithLast(c)
  BY DEF OnSearchFieldChange
<1> HIDE DEF c
<1>3. BoxOK(c) /\ c.boxActive /\ c.value # LABEL
  BY <1>1, FieldKeeps DEF BoxOK, FieldActive
<1>4. CASE key = "ShiftDown"
  <2>1. PICK d : d = OnSearchSelectShow(c)
    OBVIOUS
  <2>2. /\ IsBox(d) /\ d.results = c.results /\ d.focus = Field /\ d.select /\ ~d.hideTimeout
        /\ d.boxActive = c.boxActive /\ d.value = c.value /\ d.last = c.last
    BY <1>1, <2>1 DEF OnSearchSelectShow, IsBox, Fields
  <2>3. BoxOK(d)
    BY <1>1, <1>3, <2>2, FieldKeeps
  <2> QED
    BY <1>1, <1>2, <1>4, <2>1, <2>2, <2>3, MoveFocusKeeps DEF SameList, Opens
<1>5. CASE key = "Escape"
  <2>1. PICK m : m = MoveFocus(c, Elsewhere)
    OBVIOUS
  <2>2. BoxOK(m) /\ SameList(c, m) /\ m.focus = Elsewhere
    BY <1>3, <2>1, MoveFocusKeeps
  <2>3. PICK d : d = [HideResults(m) EXCEPT !.last = EMPTY]
    OBVIOUS
  <2>4. IsBox(d) /\ SameList(m, d) /\ ~d.results /\ d.focus # Field
    BY <2>2, <2>3, PlacesDiffer DEF HideResults, BoxOK, IsBox, Fields, SameList
  <2>5. BoxOK(Activate(d, FALSE)) /\ SameList(d, Activate(d, FALSE))
    BY <2>4, ActivateKeeps
  <2>6. ~Activate(d, FALSE).results
    BY <2>4 DEF Activate, IsBox, Fields
  <2>7. OnSearchFieldChange(b, key) = Activate(d, FALSE)
    BY <1>2, <1>5, <2>1, <2>3
  <2> QED
    BY <1>1, <2>2, <2>4, <2>5, <2>6, <2>7 DEF SameList, Opens
<1>6. CASE key \notin {"ShiftDown", "Escape"}
  <2> DEFINE Left(d) == /\ IsBox(d) /\ SameList(c, d) /\ d.focus = Field
                        /\ d.boxActive = c.boxActive /\ d.value = c.value
                        /\ \/ d.results = c.results /\ d.last = c.last
                           \/ ~d.results /\ d.last = EMPTY
  <2>1. PICK seen : seen = [c EXCEPT !.missed = FALSE]
    OBVIOUS
  <2>2. Left(seen) /\ Left([seen EXCEPT !.keyTimeout = TRUE])
    BY <1>1, <2>1 DEF IsBox, Fields, SameList
  <2>3. PICK hidden : hidden = HideResults(seen)
    OBVIOUS
  <2>4. IsBox(hidden) /\ SameList(c, hidden) /\ hidden.focus = Field
        /\ hidden.boxActive = c.boxActive /\ hidden.value = c.value /\ ~hidden.results
    BY <2>2, <2>3 DEF HideResults, IsBox, Fields, SameList
  <2>5. Left([hidden EXCEPT !.last = EMPTY, !.unsettled = c.strays > 0])
    BY <2>4 DEF IsBox, Fields, SameList
  <2>6. PICK d : d = CompareWithLast(c)
    OBVIOUS
  <2>7. \/ d = seen
        \/ d = [seen EXCEPT !.keyTimeout = TRUE]
        \/ d = [hidden EXCEPT !.last = EMPTY, !.unsettled = c.strays > 0]
    BY <2>1, <2>3, <2>6 DEF CompareWithLast
  <2>8. Left(d)
    BY <2>2, <2>5, <2>7
  <2>9. BoxOK(d) /\ ~Opens(c, d)
    BY <1>1, <1>3, <2>8, FieldKeeps
  <2>10. OnSearchFieldChange(b, key) = d
    BY <1>2, <1>6, <2>6
  <2> QED
    BY <1>1, <2>8, <2>9, <2>10 DEF SameList, Opens
<1> QED
  BY <1>4, <1>5, <1>6

-----------------------------------------------------------------------------
(* The page in the frame *)

\* The focus moves within the frame, or stays.
LEMMA FocusInKeeps ==
  ASSUME NEW b, BoxOK(b), NEW shown, NEW place
  PROVE  /\ Quiet(b, FocusIn(b, shown, place)) /\ Quiet(b, MoveFocus(b, place))
         /\ Quiet(b, b)
  BY MoveFocusKeeps DEF FocusIn, Quiet, SameList, Opens

\* The same for the next row.
LEMMA NextRowKeeps ==
  ASSUME NEW b, BoxOK(b), NEW shown, NEW i
  PROVE  Quiet(b, NextRow(b, shown, i))
  BY FocusInKeeps DEF NextRow

\* Escape in the results.
LEMMA LeaveKeeps ==
  ASSUME NEW b, BoxOK(b), b.focus # Field
  PROVE  Quiet(b, LeaveResults(b))
<1>1. PICK c : c = CloseResultsWindow(b)
  OBVIOUS
<1>2. BoxOK(c) /\ SameList(b, c) /\ ~c.results
  BY <1>1, CloseKeeps DEF BoxOK
<1> QED
  BY <1>1, <1>2, MoveFocusKeeps DEF LeaveResults, Quiet, SameList, Opens

\* A key on a row or an entry.
LEMMA NavKeeps ==
  ASSUME NEW b, BoxOK(b), b.focus # Field, NEW shown, NEW key
  PROVE  Quiet(b, NavAt(b, shown, key))
<1>1. \A r : Quiet(b, UpFrom(b, shown, r)) /\ Quiet(b, DownFrom(b, shown, r))
  BY FocusInKeeps, NextRowKeeps DEF UpFrom, DownFrom
<1>2. \A r : Quiet(b, Nav(b, shown, r, key))
  BY <1>1, FocusInKeeps, LeaveKeeps DEF Nav
<1>3. \A r, c : Quiet(b, NavChild(b, shown, r, c, key))
  BY FocusInKeeps, NextRowKeeps, LeaveKeeps DEF NavChild
<1> QED
  BY <1>2, <1>3 DEF NavAt

\* A click on a row toggles it, on a link closes the panel.
LEMMA ClickKeeps ==
  ASSUME BoxOK(box), NEW place, place # Field, Click(box, place)
  PROVE  Quiet(box, box')
<1>1. PICK there : there = MoveFocus(box, place)
  OBVIOUS
<1>2. BoxOK(there) /\ SameList(box, there) /\ there.results = box.results
  BY <1>1, MoveFocusKeeps
<1>3. PICK gone : gone = [there EXCEPT !.focus = Elsewhere]
  OBVIOUS
<1>4. IsBox(gone) /\ SameList(there, gone) /\ gone.focus # Field
  BY <1>2, <1>3, PlacesDiffer DEF BoxOK, IsBox, Fields, SameList
<1>5. PICK closed : closed = CloseResultsWindow(gone)
  OBVIOUS
<1>6. BoxOK(closed) /\ SameList(gone, closed) /\ ~closed.results
  BY <1>4, <1>5, CloseKeeps
<1>7. box' = there \/ box' = closed
  BY <1>1, <1>3, <1>5 DEF Click
<1> QED
  BY <1>2, <1>4, <1>6, <1>7 DEF Quiet, SameList, Opens

-----------------------------------------------------------------------------
(* The invariant *)

SearchInv == BoxOK(box) /\ PointerKeepsList

\* No results appear before a user who has left.
OnDemand == Opens(box, box') => box.focus = Field \/ box.unsettled

\* The mouse over the list keeps it.
LEMMA PointerStays ==
  ASSUME SearchInv, SameList(box, box'), UNCHANGED pointer \/ pointer' = "away"
  PROVE  PointerKeepsList'
  BY DEF SearchInv, PointerKeepsList, SameList

\* The panel of a fresh page.
LEMMA InitSearchInv == Init => SearchInv
<1> SUFFICES ASSUME Init PROVE SearchInv
  OBVIOUS
<1>1. box = FreshBox /\ pointer = "away"
  BY DEF Init
<1>2. IsBox(box)
  BY <1>1 DEF FreshBox, IsBox, Fields
<1>3. ~box.results /\ box.focus # Field /\ box.last = EMPTY /\ ~box.keyTimeout
      /\ box.strays = 0 /\ ~box.boxActive /\ box.value = LABEL /\ ~box.searchActive
  BY <1>1, PlacesDiffer DEF FreshBox
<1> QED
  BY <1>1, <1>2, <1>3 DEF SearchInv, BoxOK, Forgotten, FieldActive, Reset, TimersKnown,
                          TimerRuns, InUse, PointerKeepsList

\* A key goes down, wherever the focus is.
LEMMA KeyDownKeeps ==
  ASSUME SearchInv, NEW key, KeyDown(key)
  PROVE  SearchInv' /\ OnDemand
<1> USE DEF SearchInv
<1>1. KeepPointer
  BY DEF KeyDown
<1>2. ASSUME Quiet(box, box') PROVE SearchInv' /\ OnDemand
  BY <1>1, <1>2, PointerStays DEF Quiet, KeepPointer, OnDemand
<1>3. CASE box.focus = Field /\ key = "Char"
  <2>1. PICK q \in Queries : box' = [box EXCEPT !.value = q, !.missed = TRUE]
    BY <1>3, PlacesDiffer DEF KeyDown, InFrame, Edit
  <2>2. /\ IsBox(box') /\ SameList(box, box') /\ box'.focus = Field /\ box'.value = q
        /\ box'.boxActive = box.boxActive /\ box'.results = box.results /\ box'.last = box.last
    BY <1>3, <2>1 DEF BoxOK, IsBox, Fields, SameList
  <2>3. BoxOK(box') /\ ~Opens(box, box')
    BY <1>3, <2>2, PlacesDiffer, FieldKeeps DEF BoxOK, FieldActive
  <2> QED
    BY <1>2, <2>2, <2>3 DEF Quiet
<1>4. CASE box.focus = Filter
  <2>1. box' = OnSearchSelectKey(box, KeyCode(key))
    BY <1>4, PlacesDiffer DEF KeyDown, InFrame
  <2>2. /\ BoxOK(box') /\ box'.hideTimeout = box.hideTimeout
        /\ Opens(box, box') => box.unsettled
    BY <1>4, <2>1, SelectKeyKeeps
  <2>3. PointerKeepsList'
    BY <1>1, <2>2 DEF KeepPointer, PointerKeepsList
  <2> QED
    BY <2>2, <2>3 DEF OnDemand
<1>5. CASE InFrame /\ key = "Enter"
  <2>1. Click(box, box.focus) /\ box.focus # Field
    BY <1>5, PlacesDiffer DEF KeyDown, InFrame
  <2> QED
    BY <1>2, <2>1, ClickKeeps
<1>6. CASE InFrame /\ key # "Enter"
  <2>1. box' = NavAt(box, open, key) /\ box.focus # Field
    BY <1>6, PlacesDiffer DEF KeyDown, InFrame
  <2> QED
    BY <1>2, <2>1, NavKeeps
<1>7. CASE box' = box
  BY <1>2, <1>7, FocusInKeeps
<1> QED
  BY <1>3, <1>4, <1>5, <1>6, <1>7 DEF KeyDown

\* A key goes up, wherever the focus is by then.
LEMMA KeyUpKeeps ==
  ASSUME SearchInv, KeyUp
  PROVE  SearchInv' /\ OnDemand
<1> USE DEF SearchInv
<1>1. CASE box.focus = Field
  <2>1. PICK b : b = OnSearchFieldChange(box, held)
    OBVIOUS
  <2>2. BoxOK(b) /\ ~Opens(box, b) /\ (SameList(box, b) \/ (b.select /\ ~b.hideTimeout))
    BY <1>1, <2>1, FieldChangeKeeps
  <2>3. box' = b \/ box' = TakeFocus(b, open)
    BY <1>1, <2>1 DEF KeyUp
  <2>4. Quiet(b, box')
    BY <2>2, <2>3, NextRowKeeps, FocusInKeeps DEF TakeFocus
  <2>5. PointerKeepsList'
    BY <2>2, <2>4 DEF KeyUp, PointerKeepsList, Quiet, SameList
  <2> QED
    BY <2>2, <2>4, <2>5 DEF Quiet, Opens, OnDemand, BoxOK, IsBox
<1>2. CASE box.focus # Field
  BY <1>2 DEF KeyUp, OnDemand, Opens, PointerKeepsList
<1> QED
  BY <1>1, <1>2

\* The mouse in the panel.
LEMMA ClickPanelKeeps ==
  ASSUME SearchInv, ClickPanel
  PROVE  SearchInv' /\ OnDemand
<1> USE DEF SearchInv
<1>1. UNCHANGED pointer
  BY DEF ClickPanel
<1>2. ASSUME Quiet(box, box') PROVE SearchInv' /\ OnDemand
  BY <1>1, <1>2, PointerStays DEF Quiet, OnDemand
<1>3. CASE FocusField \/ Leave
  BY <1>2, <1>3, FocusInKeeps DEF FocusField, Leave
<1>4. CASE Paste
  <2>1. PICK q \in Queries : box' = [box EXCEPT !.value = q, !.missed = TRUE]
    BY <1>4 DEF Paste, Edit
  <2>2. /\ IsBox(box') /\ SameList(box, box') /\ box'.focus = Field /\ box'.value = q
        /\ box'.boxActive = box.boxActive /\ box'.results = box.results /\ box'.last = box.last
    BY <1>4, <2>1 DEF Paste, BoxOK, IsBox, Fields, SameList
  <2>3. BoxOK(box') /\ ~Opens(box, box')
    BY <1>4, <2>2, PlacesDiffer, FieldKeeps DEF Paste, BoxOK, FieldActive
  <2> QED
    BY <1>2, <2>2, <2>3 DEF Quiet
<1>5. CASE CloseLink
  <2>1. PICK m : m = MoveFocus(box, Elsewhere)
    OBVIOUS
  <2>2. BoxOK(m) /\ SameList(box, m) /\ m.focus # Field
    BY <2>1, MoveFocusKeeps, PlacesDiffer
  <2>3. box' = CloseResultsWindow(m)
    BY <1>5, <2>1 DEF CloseLink
  <2> QED
    BY <1>2, <2>2, <2>3, CloseKeeps DEF Quiet, BoxOK, SameList, Opens
<1>6. CASE SelectItem
  <2>1. PICK m : m = MoveFocus(box, Filter)
    OBVIOUS
  <2>2. BoxOK(m) /\ SameList(box, m) /\ m.focus # Field /\ m.results = box.results
        /\ (box.focus # Field => m.unsettled = box.unsettled)
    BY <2>1, MoveFocusKeeps, PlacesDiffer
  <2>3. PICK id : box' = OnSelectItem(m, id)
    BY <1>6, <2>1 DEF SelectItem
  <2>4. /\ BoxOK(box') /\ SameList(m, box')
        /\ ~m.results /\ box'.results => m.focus = Field \/ m.unsettled
    BY <2>2, <2>3, SelectKeeps
  <2>5. SameList(box, box')
    BY <2>2, <2>4 DEF SameList
  <2> QED
    BY <1>1, <2>2, <2>4, <2>5, PointerStays DEF OnDemand, Opens
<1> QED
  BY <1>3, <1>4, <1>5, <1>6 DEF ClickPanel

\* The steps of the mouse and of the browser that change single fields.
LEMMA SameUse ==
  ASSUME BoxOK(box), IsBox(box'), box'.results = box.results, box'.focus = box.focus,
         box'.unsettled = box.unsettled, box'.boxActive = box.boxActive, box'.value = box.value,
         box'.searchActive = box.searchActive, box'.last = box.last,
         box'.keyTimeout = box.keyTimeout, box'.strays = box.strays
  PROVE  BoxOK(box') /\ OnDemand
  BY DEF BoxOK, Forgotten, FieldActive, Reset, TimersKnown, InUse, TimerRuns, OnDemand, Opens

\* The mouse over the panel, the timer of the list and the frame.
LEMMA OthersKeep ==
  ASSUME SearchInv,
         \/ \E place \in {"icon", "list"} : MouseOver(place)
         \/ MouseOut \/ HideTimer \/ Load
  PROVE  SearchInv' /\ OnDemand
<1> USE DEF SearchInv
<1>1. CASE \E place \in {"icon", "list"} : MouseOver(place)
  <2>1. box' = [box EXCEPT !.select = TRUE, !.hideTimeout = FALSE]
    BY <1>1 DEF MouseOver, OnSearchSelectShow
  <2>2. BoxOK(box') /\ OnDemand /\ box'.select /\ ~box'.hideTimeout
    BY <2>1, SameUse DEF BoxOK, IsBox, Fields
  <2> QED
    BY <2>2 DEF PointerKeepsList
<1>2. CASE MouseOut
  <2>1. box' = [box EXCEPT !.hideTimeout = TRUE] /\ pointer' = "away"
    BY <1>2 DEF MouseOut, OnSearchSelectHide
  <2>2. BoxOK(box') /\ OnDemand
    BY <2>1, SameUse DEF BoxOK, IsBox, Fields
  <2> QED
    BY <2>1, <2>2 DEF PointerKeepsList
<1>3. CASE HideTimer
  <2>1. PICK c : c = [box EXCEPT !.hideTimeout = FALSE]
    OBVIOUS
  <2>2. box' = [c EXCEPT !.select = FALSE]
    BY <1>3, <2>1 DEF HideTimer, CloseSelectionWindow
  <2>3. BoxOK(box') /\ OnDemand
    BY <2>1, <2>2, SameUse DEF BoxOK, IsBox, Fields
  <2>4. pointer = "away" /\ pointer' = "away"
    BY <1>3 DEF HideTimer, KeepPointer, PointerKeepsList
  <2> QED
    BY <2>3, <2>4 DEF PointerKeepsList
<1>4. CASE Load
  <2>1. box' = [box EXCEPT !.loading = FALSE] /\ UNCHANGED pointer
    BY <1>4 DEF Load
  <2>2. BoxOK(box') /\ OnDemand /\ SameList(box, box')
    BY <2>1, SameUse DEF BoxOK, IsBox, Fields, SameList
  <2> QED
    BY <2>1, <2>2, PointerStays
<1> QED
  BY <1>1, <1>2, <1>3, <1>4

\* menu.js replaces the field.
LEMMA ResizeKeeps ==
  ASSUME SearchInv, Resize
  PROVE  SearchInv' /\ OnDemand
<1> USE DEF SearchInv
<1>1. PICK b : (b = box \/ b = MoveFocus(box, Elsewhere)) /\ box' = ResetState(b)
  BY DEF Resize
<1>2. BoxOK(b) /\ SameList(box, b) /\ b.results = box.results
  BY <1>1, MoveFocusKeeps DEF SameList
<1>3. /\ IsBox(box') /\ SameList(b, box') /\ box'.results = b.results /\ box'.last = b.last
      /\ box'.unsettled /\ box'.focus = (IF b.focus.at = "row" THEN b.focus ELSE Elsewhere)
  BY <1>1, <1>2 DEF ResetState, BoxOK, IsBox, Fields, SameList
<1>4. box'.focus # Field
  BY <1>3, PlacesDiffer
<1>5. BoxOK(box') /\ OnDemand
  BY <1>2, <1>3, <1>4 DEF BoxOK, Forgotten, FieldActive, Reset, TimersKnown, OnDemand, Opens
<1> QED
  BY <1>2, <1>3, <1>5, PointerStays DEF Resize, SameList

\* Every step keeps the invariant, and opens results on demand only.
LEMMA NextSearchInv == SearchInv /\ [Next]_vars => SearchInv' /\ (Next => OnDemand)
<1> SUFFICES ASSUME SearchInv, [Next]_vars PROVE SearchInv' /\ (Next => OnDemand)
  OBVIOUS
<1>1. CASE \E key \in Keys : KeyDown(key)
  BY <1>1, KeyDownKeeps
<1>2. CASE KeyUp
  BY <1>2, KeyUpKeeps
<1>3. CASE ClickPanel
  BY <1>3, ClickPanelKeeps
<1>4. CASE ClickResult
  <2>1. PICK r, c : Click(box, Child(r, c)) /\ UNCHANGED pointer
    BY <1>4 DEF ClickResult
  <2>2. Quiet(box, box')
    BY <2>1, ClickKeeps, PlacesDiffer DEF SearchInv
  <2> QED
    BY <2>1, <2>2, PointerStays DEF Quiet, SearchInv, OnDemand
<1>5. CASE \/ \E place \in {"icon", "list"} : MouseOver(place)
           \/ MouseOut \/ HideTimer \/ Load
  BY <1>5, OthersKeep
<1>6. CASE KeyTimer
  <2>1. /\ BoxOK(box') /\ SameList(box, box') /\ OnDemand
    BY <1>6, KeyTimerKeeps DEF KeyTimer, SearchInv, OnDemand
  <2> QED
    BY <1>6, <2>1, PointerStays DEF KeyTimer, SearchInv
<1>7. CASE Resize
  BY <1>7, ResizeKeeps
<1>8. CASE UNCHANGED vars
  BY <1>8, FocusInKeeps DEF vars, SearchInv, PointerKeepsList, OnDemand, Opens
<1> QED
  BY <1>1, <1>2, <1>3, <1>4, <1>5, <1>6, <1>7, <1>8 DEF Next

\* The invariant holds in every reachable state.
LEMMA SearchInvAlways == Spec => []SearchInv
<1>1. SearchInv /\ [Next]_vars => SearchInv'
  BY NextSearchInv
<1> QED
  BY <1>1, InitSearchInv, PTL DEF Spec

-----------------------------------------------------------------------------
(* The text *)

\* Every set of numbers has a least one.
LEMMA LeastNumber ==
  ASSUME NEW T, T \subseteq Nat, T # {}
  PROVE  \E x \in T : \A y \in T : x <= y
<1>1. \A x, y \in Nat : x < y => <<x, y>> \in OpToRel(<, Nat)
  BY Zenon DEF OpToRel
<1>2. \A R : IsWellFoundedOn(R, Nat) => \E x \in T : \A y \in T : ~(<<y, x>> \in R)
  BY WFMin
<1>3. PICK x \in T : \A y \in T : ~(<<y, x>> \in OpToRel(<, Nat))
  BY <1>2, NatLessThanWellFounded
<1>4. \A y \in T : ~(y < x)
  BY <1>1, <1>3
<1> QED
  BY <1>4

\* Induction over the places of a text, as a fact on sets.
LEMMA UpTo ==
  ASSUME NEW n \in Nat, NEW T, 0 \in T, \A i \in 0 .. n - 1 : i \in T => i + 1 \in T
  PROVE  \A i \in 0 .. n : i \in T
<1> DEFINE out == {i \in 0 .. n : i \notin T}
<1> SUFFICES ASSUME out # {} PROVE FALSE
  OBVIOUS
<1>1. PICK x \in out : \A y \in out : x <= y
  <2>1. out \subseteq Nat
    OBVIOUS
  <2> HIDE DEF out
  <2> QED
    BY <2>1, LeastNumber
<1>2. x \in 1 .. n /\ x - 1 \in 0 .. n - 1 /\ x - 1 \notin out
  BY <1>1
<1> QED
  BY <1>1, <1>2

\* What Compact has kept of the first i characters of q.
Kept(q, f, i) ==
  IF i = 0 THEN EMPTY ELSE IF q[i] = SP THEN f[i - 1] ELSE Append(f[i - 1], q[i])
IsKept(q, n, f) == f = [i \in 0 .. n |-> Kept(q, f, i)]

\* What is kept is determined step by step.
LEMMA KeptExists ==
  ASSUME NEW q, NEW n \in Nat
  PROVE  \E f : IsKept(q, n, f)
<1> DEFINE T == {k \in Nat : \E f : IsKept(q, k, f)}
<1>1. 0 \in T
  <2>1. IsKept(q, 0, [i \in 0 .. 0 |-> EMPTY])
    BY DEF IsKept, Kept
  <2> QED
    BY <2>1
<1>2. ASSUME NEW k \in T PROVE k + 1 \in T
  <2>1. PICK f : IsKept(q, k, f)
    BY <1>2
  <2>2. \A i \in 0 .. k : f[i] = Kept(q, f, i)
    BY <2>1 DEF IsKept
  <2> DEFINE g == [i \in 0 .. k + 1 |-> IF i = k + 1 THEN Kept(q, f, i) ELSE f[i]]
  <2>3. \A i \in 0 .. k + 1 : i # 0 => g[i - 1] = f[i - 1]
    OBVIOUS
  <2>4. \A i \in 0 .. k + 1 : g[i] = Kept(q, f, i)
    BY <2>2
  <2>5. \A i \in 0 .. k + 1 : Kept(q, g, i) = Kept(q, f, i)
    BY <2>3 DEF Kept
  <2>6. g = [i \in 0 .. k + 1 |-> g[i]]
    OBVIOUS
  <2> HIDE DEF g
  <2>7. IsKept(q, k + 1, g)
    BY <2>4, <2>5, <2>6 DEF IsKept
  <2> QED
    BY <2>7
<1> HIDE DEF T
<1>3. n \in T
  BY <1>1, <1>2, UpTo
<1> QED
  BY <1>3 DEF T

\* Compact step by step.
CompactOf(q, f) ==
  /\ f[0] = EMPTY /\ Compact(q) = f[Len(q)]
  /\ \A i \in 0 .. Len(q) - 1 :
       f[i + 1] = IF q[i + 1] = SP THEN f[i] ELSE Append(f[i], q[i + 1])

\* What the steps of Compact are.
LEMMA CompactSteps ==
  ASSUME NEW q \in Seq(Chars)
  PROVE  \E f : CompactOf(q, f)
<1>1. PICK n \in Nat : n = Len(q)
  OBVIOUS
<1>2. PICK f : f = CHOOSE g : IsKept(q, n, g)
  OBVIOUS
<1>3. IsKept(q, n, f)
  BY <1>2, KeptExists
<1>4. Compact(q) = f[n]
  BY <1>1, <1>2, Zenon DEF Compact, IsKept, Kept
<1>5. \A i \in 0 .. n : f[i] = Kept(q, f, i)
  BY <1>3 DEF IsKept
<1>6. ASSUME NEW i \in 0 .. n - 1
      PROVE  f[i + 1] = IF q[i + 1] = SP THEN f[i] ELSE Append(f[i], q[i + 1])
  <2>1. i + 1 \in 0 .. n /\ i + 1 # 0 /\ (i + 1) - 1 = i
    OBVIOUS
  <2> QED
    BY <1>5, <2>1 DEF Kept
<1>7. f[0] = EMPTY
  BY <1>5 DEF Kept
<1> QED
  BY <1>1, <1>4, <1>6, <1>7 DEF CompactOf

\* No space is kept.
LEMMA CompactHasNoSpace ==
  ASSUME NEW q \in Seq(Chars)
  PROVE  Compact(q) \in Seq(Chars \ {SP})
<1>1. PICK f : CompactOf(q, f)
  BY CompactSteps
<1>2. PICK n \in Nat : n = Len(q)
  OBVIOUS
<1>3. PICK S : S = Seq(Chars \ {SP})
  OBVIOUS
<1> DEFINE T == {i \in 0 .. n : f[i] \in S}
<1>4. 0 \in T
  <2>1. << >> \in S
    BY <1>3
  <2>2. f[0] = << >>
    BY <1>1 DEF CompactOf, EMPTY
  <2> QED
    BY <2>1, <2>2
<1>5. ASSUME NEW i \in 0 .. n - 1, i \in T PROVE i + 1 \in T
  <2>1. q[i + 1] \in Chars /\ f[i] \in S
    BY <1>2, <1>5
  <2>2. f[i + 1] = IF q[i + 1] = SP THEN f[i] ELSE Append(f[i], q[i + 1])
    BY <1>1, <1>2 DEF CompactOf
  <2>3. q[i + 1] # SP => Append(f[i], q[i + 1]) \in S
    BY <1>3, <2>1, AppendProperties
  <2>4. f[i + 1] \in S /\ i + 1 \in 0 .. n
    BY <2>1, <2>2, <2>3
  <2> QED
    BY <2>4
<1>6. 0 \in T /\ \A i \in 0 .. n - 1 : i \in T => i + 1 \in T
  BY <1>4, <1>5
<1> HIDE DEF T
<1>7. n \in T
  <2>1. n \in Nat /\ n \in 0 .. n
    OBVIOUS
  <2>2. \A i \in 0 .. n : i \in T
    BY <1>6, <2>1, UpTo, Zenon
  <2> QED
    BY <2>1, <2>2
<1> QED
  BY <1>1, <1>2, <1>3, <1>7 DEF T, CompactOf

\* A text without spaces stays as it is.
LEMMA CompactOfCompact ==
  ASSUME NEW c \in Seq(Chars \ {SP})
  PROVE  Compact(c) = c
<1>1. PICK f : CompactOf(c, f)
  <2>1. c \in Seq(Chars)
    BY SeqMonotonic
  <2> QED
    BY <2>1, CompactSteps
<1>2. PICK n \in Nat : n = Len(c)
  OBVIOUS
<1> DEFINE T == {i \in 0 .. n : f[i] = SubSeq(c, 1, i)}
<1>3. 0 \in T
  <2>1. SubSeq(c, 1, 0) = << >>
    OBVIOUS
  <2>2. f[0] = << >>
    BY <1>1 DEF CompactOf, EMPTY
  <2>3. 0 \in 0 .. n
    OBVIOUS
  <2> QED
    BY <2>1, <2>2, <2>3
<1>4. ASSUME NEW i \in 0 .. n - 1, i \in T PROVE i + 1 \in T
  <2>1. f[i + 1] = IF c[i + 1] = SP THEN f[i] ELSE Append(f[i], c[i + 1])
    BY <1>1, <1>2 DEF CompactOf
  <2>2. c[i + 1] # SP /\ i + 1 \in 0 .. n
    BY <1>2
  <2>3. Append(SubSeq(c, 1, i), c[i + 1]) = SubSeq(c, 1, i + 1)
    BY <1>2
  <2>4. f[i] = SubSeq(c, 1, i)
    BY <1>4
  <2>5. f[i + 1] = SubSeq(c, 1, i + 1)
    BY <2>1, <2>2, <2>3, <2>4, Zenon
  <2> QED
    BY <2>2, <2>5
<1>5. 0 \in T /\ \A i \in 0 .. n - 1 : i \in T => i + 1 \in T
  BY <1>3, <1>4
<1> HIDE DEF T
<1>6. n \in T
  <2>1. n \in Nat /\ n \in 0 .. n
    OBVIOUS
  <2>2. \A i \in 0 .. n : i \in T
    BY <1>5, <2>1, UpTo, Zenon
  <2> QED
    BY <2>1, <2>2
<1>7. SubSeq(c, 1, n) = c
  BY <1>2, SubSeqFull
<1> QED
  BY <1>1, <1>2, <1>6, <1>7 DEF T, CompactOf

\* The spaces before a text make no difference.
LEMMA CompactOfTrim ==
  ASSUME NEW q \in Seq(Chars)
  PROVE  Compact(Trim(q)) = Compact(q)
<1> DEFINE I == {i \in 1 .. Len(q) : q[i] # SP}
<1>1. PICK n \in Nat : n = Len(q)
  OBVIOUS
<1>2. PICK f : CompactOf(q, f)
  BY CompactSteps
<1>3. I \subseteq Nat
  BY <1>1
<1>4. Trim(q) = LET first == IF I # {} THEN Min(I) ELSE 0
                IN  IF first = 0 THEN EMPTY ELSE SubSeq(q, first, Len(q))
  BY DEF Trim, SelectInSeq
<1>5. CASE I = {}
  <2> DEFINE T == {i \in 0 .. n : f[i] = EMPTY}
  <2>1. 0 \in T /\ \A i \in 0 .. n - 1 : i \in T => i + 1 \in T
    BY <1>1, <1>2, <1>5 DEF CompactOf
  <2>2. \A i \in 0 .. n : i \in T
    <3> HIDE DEF T
    <3> QED
      BY <2>1, UpTo, Zenon
  <2>3. Compact(q) = EMPTY
    BY <1>1, <1>2, <2>2 DEF CompactOf
  <2>4. Trim(q) = EMPTY
    BY <1>4, <1>5
  <2>5. Compact(EMPTY) = EMPTY
    <3>1. EMPTY \in Seq(Chars \ {SP})
      BY DEF EMPTY
    <3> QED
      BY <3>1, CompactOfCompact
  <2> QED
    BY <2>3, <2>4, <2>5
<1>6. CASE I # {}
  <2>1. PICK m \in I : m = Min(I) /\ \A i \in I : m <= i
    <3>1. \E x \in I : \A y \in I : x <= y
      <4> HIDE DEF I
      <4> QED
        BY <1>3, <1>6, LeastNumber
    <3> HIDE DEF I
    <3> QED
      BY <3>1, Zenon DEF Min
  <2>2. m \in 1 .. n /\ \A i \in 1 .. m - 1 : q[i] = SP
    <3>1. m \in 1 .. n
      BY <1>1
    <3>2. ASSUME NEW i \in 1 .. m - 1 PROVE q[i] = SP
      <4>1. i \in 1 .. n /\ ~(m <= i)
        BY <3>1
      <4>2. i \notin I
        BY <2>1, <4>1
      <4> QED
        BY <1>1, <4>1, <4>2
    <3> QED
      BY <3>1, <3>2
  <2>3. PICK u : u = SubSeq(q, m, n)
    OBVIOUS
  <2>4. Trim(q) = u
    <3>1. m # 0
      BY <2>2
    <3> HIDE DEF I
    <3> QED
      BY <1>1, <1>4, <1>6, <2>1, <2>3, <3>1
  <2>5. /\ u \in Seq(Chars) /\ Len(u) = n - m + 1
        /\ \A j \in 1 .. n - m + 1 : u[j] = q[m - 1 + j]
    BY <1>1, <2>2, <2>3
  <2>6. PICK g : CompactOf(u, g)
    BY <2>5, CompactSteps
  <2>7. f[m - 1] = EMPTY
    <3> DEFINE T == {i \in 0 .. m - 1 : f[i] = EMPTY}
    <3>1. 0 \in T /\ \A i \in 0 .. (m - 1) - 1 : i \in T => i + 1 \in T
      BY <1>1, <1>2, <2>2 DEF CompactOf
    <3>2. \A i \in 0 .. m - 1 : i \in T
      <4>1. m - 1 \in Nat
        BY <2>2
      <4> HIDE DEF T
      <4> QED
        BY <3>1, <4>1, UpTo, Zenon
    <3> QED
      BY <2>2, <3>2
  <2>8. f[n] = g[n - m + 1]
    <3> DEFINE k == n - m + 1
               T == {j \in 0 .. k : f[m - 1 + j] = g[j]}
    <3>1. 0 \in T
      BY <2>2, <2>6, <2>7 DEF CompactOf
    <3>2. ASSUME NEW j \in 0 .. k - 1, j \in T PROVE j + 1 \in T
      <4>1. /\ m - 1 + j \in 0 .. n - 1 /\ j + 1 \in 1 .. k
            /\ m - 1 + (j + 1) = (m - 1 + j) + 1
        BY <2>2
      <4>2. u[j + 1] = q[(m - 1 + j) + 1]
        BY <2>5, <4>1
      <4>3. f[(m - 1 + j) + 1] = IF q[(m - 1 + j) + 1] = SP THEN f[m - 1 + j]
                                 ELSE Append(f[m - 1 + j], q[(m - 1 + j) + 1])
        BY <1>1, <1>2, <4>1 DEF CompactOf
      <4>4. g[j + 1] = IF u[j + 1] = SP THEN g[j] ELSE Append(g[j], u[j + 1])
        BY <2>5, <2>6, <4>1 DEF CompactOf
      <4>5. f[m - 1 + j] = g[j]
        BY <3>2
      <4>6. f[(m - 1 + j) + 1] = g[j + 1]
        BY <4>2, <4>3, <4>4, <4>5, Zenon
      <4> QED
        BY <4>1, <4>6
    <3>3. \A j \in 0 .. k : j \in T
      <4>1. k \in Nat /\ \A j \in 0 .. k - 1 : j \in T => j + 1 \in T
        BY <2>2, <3>2
      <4> HIDE DEF T, k
      <4> QED
        BY <3>1, <4>1, UpTo, Zenon
    <3>4. f[m - 1 + k] = g[k]
      <4>1. k \in 0 .. k
        BY <2>2
      <4> QED
        BY <3>3, <4>1
    <3>5. m - 1 + k = n
      BY <2>2
    <3> QED
      BY <3>4, <3>5
  <2> QED
    BY <1>1, <1>2, <2>4, <2>5, <2>6, <2>8 DEF CompactOf
<1> QED
  BY <1>5, <1>6

-----------------------------------------------------------------------------
(* What the results answer *)

\* The results are those of the last search, which is the one the frame was asked for.
Base(b) ==
  /\ IsBox(b) /\ b.value \in Seq(Chars) /\ b.searchIndex \in 0 .. Count
  /\ b.value # LABEL => b.searchActive
  /\ b.results => b.last = b.asked.query

\* They were found under the filter chosen.
UnderFilter(b) ==
  b.results /\ b.searchIndex < Count => b.kept \/ b.asked.index = b.searchIndex

\* They answer the text, or a search for it is to come, or cannot be made.
Answered(b) ==
  b.results /\ ~b.missed /\ b.value # EMPTY /\ b.value # LABEL =>
    \/ Compact(b.asked.query) = Compact(b.value)
    \/ Compact(b.value) # EMPTY /\ (TimerRuns(b) \/ b.searchIndex = Count)

AnswersOK(b) == Base(b) /\ UnderFilter(b) /\ Answered(b)

\* Nothing that matters for the search is different in c.
SameSearch(b, c) ==
  /\ IsBox(c) /\ c.value = b.value /\ c.searchIndex = b.searchIndex
  /\ c.searchActive = b.searchActive /\ c.last = b.last /\ c.asked = b.asked
  /\ c.results = b.results /\ c.kept = b.kept /\ c.missed = b.missed
  /\ c.keyTimeout = b.keyTimeout /\ c.strays = b.strays

\* Such a change keeps the results right.
LEMMA SameAnswers ==
  ASSUME NEW b, AnswersOK(b), NEW c, SameSearch(b, c)
  PROVE  AnswersOK(c)
  BY DEF AnswersOK, Base, UnderFilter, Answered, SameSearch, TimerRuns

\* The panel is hidden: there are no results that could be wrong.
LEMMA HiddenAnswers ==
  ASSUME NEW b, AnswersOK(b), NEW c, IsBox(c), c.value = b.value,
         c.searchIndex = b.searchIndex, c.searchActive = b.searchActive, ~c.results
  PROVE  AnswersOK(c)
  BY DEF AnswersOK, Base, UnderFilter, Answered

\* A panel that becomes active starts with no text, one that is left shows the label.
LEMMA ActivateAnswers ==
  ASSUME NEW b, AnswersOK(b), NEW isActive \in BOOLEAN
  PROVE  AnswersOK(Activate(b, isActive))
<1>1. IsBox(b) /\ LABEL \in Seq(Chars) /\ EMPTY \in Seq(Chars)
  BY SearchBoxAssumption DEF AnswersOK, Base, EMPTY
<1>2. PICK r : r = Activate(b, isActive)
  OBVIOUS
<1>3. CASE (isActive \/ b.results) /\ b.value = LABEL
  <2>1. r = [b EXCEPT !.boxActive = TRUE, !.value = EMPTY, !.searchActive = TRUE]
    BY <1>2, <1>3 DEF Activate
  <2>2. /\ IsBox(r) /\ r.value = EMPTY /\ r.searchActive /\ r.searchIndex = b.searchIndex
        /\ r.results = b.results /\ r.last = b.last /\ r.asked = b.asked /\ r.kept = b.kept
    BY <1>1, <2>1 DEF IsBox, Fields
  <2>3. AnswersOK(r)
    BY <1>1, <2>2 DEF AnswersOK, Base, UnderFilter, Answered
  <2> QED
    BY <1>2, <2>3
<1>4. CASE (isActive \/ b.results) /\ b.value # LABEL
  <2>1. r = [b EXCEPT !.boxActive = TRUE]
    BY <1>2, <1>4 DEF Activate
  <2>2. SameSearch(b, r)
    BY <1>1, <2>1 DEF IsBox, Fields, SameSearch
  <2> QED
    BY <1>2, <2>2, SameAnswers
<1>5. CASE ~isActive /\ ~b.results
  <2>1. r = [b EXCEPT !.boxActive = FALSE, !.value = LABEL, !.searchActive = FALSE,
                      !.last = EMPTY, !.unsettled = TimerRuns(b), !.missed = FALSE, !.kept = FALSE]
    BY <1>2, <1>5 DEF Activate
  <2>2. IsBox(r) /\ r.value = LABEL /\ r.searchIndex = b.searchIndex /\ ~r.results
    BY <1>1, <1>5, <2>1 DEF IsBox, Fields, TimerRuns
  <2>3. AnswersOK(r)
    BY <1>1, <2>2 DEF AnswersOK, Base, UnderFilter, Answered
  <2> QED
    BY <1>2, <2>3
<1> QED
  BY <1>1, <1>3, <1>4, <1>5 DEF IsBox

\* Moving the focus may activate the panel, or leave it, and searches nothing.
LEMMA MoveFocusAnswers ==
  ASSUME NEW b, AnswersOK(b), NEW to
  PROVE  AnswersOK(MoveFocus(b, to))
<1>1. PICK r : r = [b EXCEPT !.focus = to]
  OBVIOUS
<1>2. SameSearch(b, r)
  BY <1>1 DEF AnswersOK, Base, IsBox, Fields, SameSearch
<1>3. AnswersOK(r)
  BY <1>2, SameAnswers
<1>4. PICK left : left = IF b.focus = Field /\ to # Field THEN Activate(r, FALSE) ELSE r
  OBVIOUS
<1>5. AnswersOK(left)
  BY <1>3, <1>4, ActivateAnswers
<1>6. MoveFocus(b, to) = IF b.focus # Field /\ to = Field THEN Activate(left, TRUE) ELSE left
  BY <1>1, <1>4 DEF MoveFocus, OnSearchFieldFocus
<1> QED
  BY <1>5, <1>6, ActivateAnswers

\* A search answers the text, but for the filter after the last one.
LEMMA SearchAnswers ==
  ASSUME NEW b, Base(b), b.searchIndex = Count => Answered(b)
  PROVE  AnswersOK(Search(b))
<1>1. PICK c : c = [b EXCEPT !.strays = IF b.keyTimeout THEN @ + 1 ELSE @, !.keyTimeout = FALSE]
  OBVIOUS
<1>2. /\ IsBox(c) /\ c.value = b.value /\ c.searchIndex = b.searchIndex
      /\ c.searchActive = b.searchActive /\ c.last = b.last /\ c.asked = b.asked
      /\ c.results = b.results /\ c.kept = b.kept /\ c.missed = b.missed
      /\ TimerRuns(c) <=> TimerRuns(b)
  BY <1>1 DEF Base, IsBox, Fields, TimerRuns
<1>3. Base(c) /\ Count \in Nat
  BY <1>2, SearchBoxAssumption DEF Base, Count
<1>4. PICK q : q = Trim(b.value)
  OBVIOUS
<1>5. PICK found : found = Location(b.searchIndex, PageOf(Sections[b.searchIndex + 1], q), q)
  OBVIOUS
<1>6. PICK r : r = [c EXCEPT !.asked = found, !.loading = TRUE,
                             !.focus = IF @.at = "row" THEN Elsewhere ELSE @,
                             !.results = TRUE,
                             !.close = IF b.results THEN @ ELSE TRUE,
                             !.last = q, !.missed = FALSE, !.kept = FALSE]
  OBVIOUS
<1>7. Search(b) = IF NoSection(b) THEN c ELSE r
  BY <1>1, <1>4, <1>5, <1>6 DEF Search
<1>8. CASE NoSection(b)
  <2>1. c.searchIndex = Count /\ b.searchIndex = Count
    BY <1>2, <1>3, <1>8 DEF NoSection, Base
  <2>2. UnderFilter(c) /\ Answered(c)
    BY <1>2, <1>3, <2>1 DEF UnderFilter, Answered
  <2> QED
    BY <1>3, <1>7, <1>8, <2>2 DEF AnswersOK
<1>9. CASE ~NoSection(b)
  <2>1. /\ IsBox(r) /\ r.value = c.value /\ r.searchIndex = c.searchIndex
        /\ r.searchActive = c.searchActive /\ r.last = q /\ r.asked = found
    BY <1>2, <1>6 DEF IsBox, Fields
  <2>2. found.query = q /\ found.index = r.searchIndex
    BY <1>2, <1>5, <2>1 DEF Location
  <2>3. Compact(q) = Compact(r.value)
    BY <1>2, <1>4, <2>1, CompactOfTrim DEF Base
  <2>4. AnswersOK(r)
    BY <1>3, <2>1, <2>2, <2>3 DEF AnswersOK, Base, UnderFilter, Answered
  <2> QED
    BY <1>7, <1>9, <2>4
<1> QED
  BY <1>8, <1>9

\* A filter that is selected searches again at once, where it may.
LEMMA SelectAnswers ==
  ASSUME NEW b, AnswersOK(b), NEW id \in 0 .. Count
  PROVE  AnswersOK(OnSelectItem(b, id))
<1>1. PICK c : c = [b EXCEPT !.searchIndex = id]
  OBVIOUS
<1>2. /\ IsBox(c) /\ c.value = b.value /\ c.searchIndex = id
      /\ c.searchActive = b.searchActive /\ c.last = b.last /\ c.asked = b.asked
      /\ c.results = b.results /\ c.missed = b.missed /\ c.kept = b.kept
      /\ Base(c)
  <2>1. /\ IsBox(c) /\ c.value = b.value /\ c.searchIndex = id
        /\ c.searchActive = b.searchActive /\ c.last = b.last /\ c.asked = b.asked
        /\ c.results = b.results /\ c.missed = b.missed /\ c.kept = b.kept
    BY <1>1 DEF AnswersOK, Base, IsBox, Fields
  <2> QED
    BY <2>1 DEF AnswersOK, Base
<1>3. PICK r : r = [c EXCEPT !.kept = @ \/ b.results]
  OBVIOUS
<1>4. OnSelectItem(b, id) = IF Searches(b) THEN Search(c) ELSE r
  BY <1>1, <1>3 DEF OnSelectItem
<1>5. CASE Searches(b)
  <2>1. c.searchIndex = Count => Answered(c)
    BY <1>2, <1>5 DEF Searches, Answered
  <2> QED
    BY <1>2, <1>4, <1>5, <2>1, SearchAnswers
<1>6. CASE ~Searches(b)
  <2>1. /\ IsBox(r) /\ r.value = c.value /\ r.searchIndex = c.searchIndex
        /\ r.searchActive = c.searchActive /\ r.last = c.last /\ r.asked = c.asked
        /\ r.results = c.results /\ r.missed = c.missed
        /\ b.results => r.kept
    BY <1>2, <1>3 DEF IsBox, Fields
  <2>2. Base(r) /\ UnderFilter(r)
    BY <1>2, <2>1 DEF Base, UnderFilter
  <2>3. b.value # LABEL => Compact(b.value) = EMPTY
    BY <1>6 DEF Searches, AnswersOK, Base
  <2>4. Answered(r)
    BY <1>2, <2>1, <2>3 DEF AnswersOK, Answered
  <2> QED
    BY <1>4, <1>6, <2>2, <2>4 DEF AnswersOK
<1> QED
  BY <1>5, <1>6

\* A timer that fires compares the text and searches when it differs.
LEMMA KeyTimerAnswers ==
  ASSUME NEW b, AnswersOK(b), TimerRuns(b)
  PROVE  AnswersOK(KeyTimerFires(b))
<1>1. PICK c : c = IF b.strays > 0 THEN [b EXCEPT !.strays = @ - 1]
                                   ELSE [b EXCEPT !.keyTimeout = FALSE]
  OBVIOUS
<1>2. /\ IsBox(c) /\ c.value = b.value /\ c.searchIndex = b.searchIndex
      /\ c.searchActive = b.searchActive /\ c.last = b.last /\ c.asked = b.asked
      /\ c.results = b.results /\ c.missed = b.missed
  <2>1. CASE b.strays > 0
    BY <1>1, <2>1 DEF AnswersOK, Base, IsBox, Fields
  <2>2. CASE ~(b.strays > 0)
    BY <1>1, <2>2 DEF AnswersOK, Base, IsBox, Fields
  <2> QED
    BY <2>1, <2>2
<1>3. Base(c)
  BY <1>2 DEF AnswersOK, Base
<1>4. c.searchIndex = Count => Answered(c)
  BY <1>2 DEF AnswersOK, Answered
<1> QED
  BY <1>1, <1>3, <1>4, SearchAnswers DEF KeyTimerFires

\* Closing the results forgets the last search.
LEMMA CloseAnswers ==
  ASSUME NEW b, AnswersOK(b)
  PROVE  AnswersOK(HideResults(b)) /\ AnswersOK(CloseResultsWindow(b))
<1>1. PICK c : c = HideResults(b)
  OBVIOUS
<1>2. /\ IsBox(c) /\ c.value = b.value /\ c.searchIndex = b.searchIndex
      /\ c.searchActive = b.searchActive /\ ~c.results
  BY <1>1 DEF HideResults, AnswersOK, Base, IsBox, Fields
<1>3. AnswersOK(c)
  BY <1>2, HiddenAnswers
<1> QED
  BY <1>1, <1>3, ActivateAnswers DEF CloseResultsWindow

\* The keys in the list of filters.
LEMMA SelectKeyAnswers ==
  ASSUME NEW b, AnswersOK(b), NEW key
  PROVE  AnswersOK(OnSearchSelectKey(b, key))
<1>1. b.searchIndex \in 0 .. Count /\ Count \in Nat
  BY SearchBoxAssumption DEF AnswersOK, Base, Count
<1>2. PICK chosen : chosen = OnSelectItem(b, b.searchIndex)
  OBVIOUS
<1>3. AnswersOK(chosen)
  BY <1>1, <1>2, SelectAnswers
<1>4. PICK closed : closed = CloseSelectionWindow(chosen)
  OBVIOUS
<1>5. SameSearch(chosen, closed)
  BY <1>3, <1>4 DEF CloseSelectionWindow, AnswersOK, Base, IsBox, Fields, SameSearch
<1>6. AnswersOK(closed)
  BY <1>3, <1>5, SameAnswers
<1>7. \/ OnSearchSelectKey(b, key) = b \/ OnSearchSelectKey(b, key) = chosen
      \/ b.searchIndex < Count /\ OnSearchSelectKey(b, key) = OnSelectItem(b, b.searchIndex + 1)
      \/ b.searchIndex > 0 /\ OnSearchSelectKey(b, key) = OnSelectItem(b, b.searchIndex - 1)
      \/ OnSearchSelectKey(b, key) = MoveFocus(closed, Field)
  BY <1>2, <1>4 DEF OnSearchSelectKey
<1>8. ASSUME b.searchIndex < Count PROVE AnswersOK(OnSelectItem(b, b.searchIndex + 1))
  <2>1. b.searchIndex + 1 \in 0 .. Count
    BY <1>1, <1>8
  <2> QED
    BY <2>1, SelectAnswers
<1>9. ASSUME b.searchIndex > 0 PROVE AnswersOK(OnSelectItem(b, b.searchIndex - 1))
  <2>1. b.searchIndex - 1 \in 0 .. Count
    BY <1>1, <1>9
  <2> QED
    BY <2>1, SelectAnswers
<1> QED
  BY <1>3, <1>6, <1>7, <1>8, <1>9, MoveFocusAnswers

\* A key in the field opens the list of filters, closes the panel or compares the text.
LEMMA FieldChangeAnswers ==
  ASSUME NEW b, AnswersOK(b), NEW key
  PROVE  AnswersOK(OnSearchFieldChange(b, key))
<1>1. PICK c : c = [b EXCEPT !.keyTimeout = FALSE, !.missed = @ \/ b.keyTimeout]
  OBVIOUS
<1>2. /\ IsBox(c) /\ c.value = b.value /\ c.searchIndex = b.searchIndex
      /\ c.searchActive = b.searchActive /\ c.last = b.last /\ c.asked = b.asked
      /\ c.results = b.results /\ c.kept = b.kept /\ c.strays = b.strays
      /\ ~c.missed => ~b.missed /\ ~b.keyTimeout
  BY <1>1 DEF AnswersOK, Base, IsBox, Fields
<1>3. AnswersOK(c)
  BY <1>2 DEF AnswersOK, Base, UnderFilter, Answered, TimerRuns
<1>4. OnSearchFieldChange(b, key) =
        CASE key = "ShiftDown" -> MoveFocus(OnSearchSelectShow(c), Filter)
          [] key = "Escape" ->
               Activate([HideResults(MoveFocus(c, Elsewhere)) EXCEPT !.last = EMPTY], FALSE)
          [] OTHER -> CompareWithLast(c)
  BY <1>1 DEF OnSearchFieldChange
<1>5. CASE key = "ShiftDown"
  <2>1. PICK d : d = OnSearchSelectShow(c)
    OBVIOUS
  <2>2. SameSearch(c, d)
    BY <1>2, <2>1 DEF OnSearchSelectShow, IsBox, Fields, SameSearch
  <2> QED
    BY <1>3, <1>4, <1>5, <2>1, <2>2, SameAnswers, MoveFocusAnswers
<1>6. CASE key = "Escape"
  <2>1. PICK m : m = HideResults(MoveFocus(c, Elsewhere))
    OBVIOUS
  <2>2. AnswersOK(m)
    BY <1>3, <2>1, MoveFocusAnswers, CloseAnswers
  <2>3. PICK d : d = [m EXCEPT !.last = EMPTY]
    OBVIOUS
  <2>4. ~m.results
    <3>1. PICK n : n = MoveFocus(c, Elsewhere)
      OBVIOUS
    <3>2. IsBox(n)
      BY <1>3, <3>1, MoveFocusAnswers DEF AnswersOK, Base
    <3> QED
      BY <2>1, <3>1, <3>2 DEF HideResults, IsBox, Fields
  <2>5. /\ IsBox(d) /\ d.value = m.value /\ d.searchIndex = m.searchIndex
        /\ d.searchActive = m.searchActive /\ ~d.results
    BY <2>2, <2>3, <2>4 DEF AnswersOK, Base, IsBox, Fields
  <2>6. AnswersOK(d)
    BY <2>2, <2>5, HiddenAnswers
  <2> QED
    BY <1>4, <1>6, <2>1, <2>3, <2>6, ActivateAnswers
<1>7. CASE key \notin {"ShiftDown", "Escape"}
  <2>1. PICK v : v = Compact(c.value)
    OBVIOUS
  <2>2. PICK seen : seen = [c EXCEPT !.missed = FALSE]
    OBVIOUS
  <2>3. /\ IsBox(seen) /\ seen.value = c.value /\ seen.searchIndex = c.searchIndex
        /\ seen.searchActive = c.searchActive /\ seen.last = c.last /\ seen.asked = c.asked
        /\ seen.results = c.results /\ seen.kept = c.kept
    BY <1>2, <2>2 DEF IsBox, Fields
  <2>4. Base(seen) /\ UnderFilter(seen)
    BY <1>3, <2>3 DEF AnswersOK, Base, UnderFilter
  <2>5. CompareWithLast(c) =
          IF v = c.last THEN seen
          ELSE IF v # EMPTY THEN [seen EXCEPT !.keyTimeout = TRUE]
          ELSE [HideResults(seen) EXCEPT !.last = EMPTY, !.unsettled = c.strays > 0]
    BY <2>1, <2>2 DEF CompareWithLast
  <2>6. CASE v = c.last
    <3>1. Compact(v) = v
      BY <1>3, <2>1, CompactHasNoSpace, CompactOfCompact DEF AnswersOK, Base
    <3>2. seen.results => Compact(seen.asked.query) = Compact(seen.value)
      BY <1>3, <2>1, <2>3, <2>6, <3>1 DEF AnswersOK, Base
    <3>3. Answered(seen)
      BY <3>2 DEF Answered
    <3> QED
      BY <1>4, <1>7, <2>4, <2>5, <2>6, <3>3 DEF AnswersOK
  <2>7. CASE v # c.last /\ v # EMPTY
    <3>1. PICK d : d = [seen EXCEPT !.keyTimeout = TRUE]
      OBVIOUS
    <3>2. /\ IsBox(d) /\ d.value = seen.value /\ d.searchIndex = seen.searchIndex
          /\ d.searchActive = seen.searchActive /\ d.last = seen.last /\ d.asked = seen.asked
          /\ d.results = seen.results /\ d.kept = seen.kept /\ d.keyTimeout
      BY <2>3, <3>1 DEF IsBox, Fields
    <3>3. Base(d) /\ UnderFilter(d)
      BY <2>4, <3>2 DEF Base, UnderFilter
    <3>4. Answered(d)
      BY <2>1, <2>3, <2>7, <3>2 DEF Answered, TimerRuns
    <3> QED
      BY <1>4, <1>7, <2>5, <2>7, <3>1, <3>3, <3>4 DEF AnswersOK
  <2>8. CASE v # c.last /\ v = EMPTY
    <3>1. PICK hidden : hidden = HideResults(seen)
      OBVIOUS
    <3>2. /\ IsBox(hidden) /\ hidden.value = seen.value /\ ~hidden.results
          /\ hidden.searchIndex = seen.searchIndex /\ hidden.searchActive = seen.searchActive
      BY <2>3, <3>1 DEF HideResults, IsBox, Fields
    <3>3. PICK d : d = [hidden EXCEPT !.last = EMPTY, !.unsettled = c.strays > 0]
      OBVIOUS
    <3>4. /\ IsBox(d) /\ d.value = c.value /\ d.searchIndex = c.searchIndex
          /\ d.searchActive = c.searchActive /\ ~d.results
      BY <2>3, <3>2, <3>3 DEF IsBox, Fields
    <3> QED
      BY <1>3, <1>4, <1>7, <2>5, <2>8, <3>1, <3>3, <3>4, HiddenAnswers
  <2> QED
    BY <2>6, <2>7, <2>8
<1> QED
  BY <1>5, <1>6, <1>7

\* The keys that move through the results.
LEMMA NavAnswers ==
  ASSUME NEW b, AnswersOK(b), NEW shown, NEW key
  PROVE  AnswersOK(NavAt(b, shown, key)) /\ AnswersOK(TakeFocus(b, shown))
<1>1. \A place : AnswersOK(FocusIn(b, shown, place))
  BY MoveFocusAnswers DEF FocusIn
<1>2. \A i : AnswersOK(NextRow(b, shown, i))
  BY <1>1 DEF NextRow
<1>3. AnswersOK(LeaveResults(b))
  BY CloseAnswers, MoveFocusAnswers DEF LeaveResults
<1>4. \A r : AnswersOK(UpFrom(b, shown, r)) /\ AnswersOK(DownFrom(b, shown, r))
  BY <1>1, <1>2, MoveFocusAnswers DEF UpFrom, DownFrom
<1>5. \A r : AnswersOK(Nav(b, shown, r, key))
  BY <1>3, <1>4 DEF Nav
<1>6. \A r, c : AnswersOK(NavChild(b, shown, r, c, key))
  BY <1>1, <1>2, <1>3 DEF NavChild
<1> QED
  BY <1>2, <1>5, <1>6 DEF NavAt, TakeFocus

\* The text of a field that has the focus changes.
LEMMA EditAnswers ==
  ASSUME BoxOK(box), AnswersOK(box), box.focus = Field, NEW q \in Queries, Edit(q)
  PROVE  AnswersOK(box')
<1>1. box' = [box EXCEPT !.value = q, !.missed = TRUE]
  BY DEF Edit
<1>2. /\ IsBox(box') /\ box'.value = q /\ box'.missed /\ box'.searchIndex = box.searchIndex
      /\ box'.searchActive = box.searchActive /\ box'.last = box.last /\ box'.asked = box.asked
      /\ box'.results = box.results /\ box'.kept = box.kept
  BY <1>1 DEF AnswersOK, Base, IsBox, Fields
<1>3. box'.searchActive /\ q \in Seq(Chars)
  BY <1>2, SearchBoxAssumption DEF AnswersOK, Base, BoxOK, FieldActive
<1> QED
  BY <1>2, <1>3 DEF AnswersOK, Base, UnderFilter, Answered

\* A click, which may close the panel.
LEMMA ClickAnswers ==
  ASSUME AnswersOK(box), NEW place, Click(box, place)
  PROVE  AnswersOK(box')
<1>1. PICK there : there = MoveFocus(box, place)
  OBVIOUS
<1>2. AnswersOK(there)
  BY <1>1, MoveFocusAnswers
<1>3. PICK gone : gone = [there EXCEPT !.focus = Elsewhere]
  OBVIOUS
<1>4. SameSearch(there, gone)
  BY <1>2, <1>3 DEF AnswersOK, Base, IsBox, Fields, SameSearch
<1>5. AnswersOK(CloseResultsWindow(gone))
  BY <1>2, <1>4, SameAnswers, CloseAnswers
<1>6. box' = there \/ box' = CloseResultsWindow(gone)
  BY <1>1, <1>3 DEF Click
<1> QED
  BY <1>2, <1>5, <1>6

\* The first panel has no results.
LEMMA InitAnswers == Init => AnswersOK(box)
<1> SUFFICES ASSUME Init PROVE AnswersOK(box)
  OBVIOUS
<1>1. IsBox(box)
  BY InitSearchInv DEF SearchInv, BoxOK
<1>2. box = FreshBox
  BY DEF Init
<1>3. box.value = LABEL /\ box.searchIndex = 0 /\ ~box.results
  BY <1>2 DEF FreshBox
<1>4. LABEL \in Seq(Chars) /\ 0 \in 0 .. Count
  BY SearchBoxAssumption DEF Count
<1> QED
  BY <1>1, <1>3, <1>4 DEF AnswersOK, Base, UnderFilter, Answered

\* Every step keeps the results right.
LEMMA NextAnswers == SearchInv /\ AnswersOK(box) /\ [Next]_vars => AnswersOK(box)'
<1> SUFFICES ASSUME BoxOK(box), AnswersOK(box), [Next]_vars PROVE AnswersOK(box')
  BY DEF SearchInv
<1>1. ASSUME NEW key, KeyDown(key) PROVE AnswersOK(box')
  <2>1. CASE box.focus = Field /\ key = "Char"
    <3>1. PICK q \in Queries : Edit(q)
      BY <1>1, <2>1, PlacesDiffer DEF KeyDown, InFrame
    <3> QED
      BY <2>1, <3>1, EditAnswers
  <2>2. CASE box.focus = Filter
    BY <1>1, <2>2, PlacesDiffer, SelectKeyAnswers DEF KeyDown, InFrame
  <2>3. CASE InFrame /\ key = "Enter"
    <3>1. Click(box, box.focus)
      BY <1>1, <2>3, PlacesDiffer DEF KeyDown, InFrame
    <3> QED
      BY <3>1, ClickAnswers
  <2>4. CASE InFrame /\ key # "Enter"
    BY <1>1, <2>4, PlacesDiffer, NavAnswers DEF KeyDown, InFrame
  <2>5. CASE box' = box
    BY <2>5
  <2> QED
    BY <1>1, <2>1, <2>2, <2>3, <2>4, <2>5 DEF KeyDown
<1>2. CASE KeyUp
  <2>1. PICK b : b = OnSearchFieldChange(box, held)
    OBVIOUS
  <2>2. box' = b \/ box' = TakeFocus(b, open) \/ box' = box
    BY <1>2, <2>1 DEF KeyUp
  <2> QED
    BY <2>1, <2>2, FieldChangeAnswers, NavAnswers
<1>3. CASE ClickPanel
  <2>1. CASE FocusField \/ Leave
    BY <2>1, MoveFocusAnswers DEF FocusField, Leave
  <2>2. CASE Paste
    BY <2>2, EditAnswers DEF Paste
  <2>3. CASE CloseLink
    BY <2>3, MoveFocusAnswers, CloseAnswers DEF CloseLink
  <2>4. CASE SelectItem
    <3>1. PICK id \in 0 .. Count - 1 : box' = OnSelectItem(MoveFocus(box, Filter), id)
      BY <2>4 DEF SelectItem
    <3>2. id \in 0 .. Count
      BY <3>1, SearchBoxAssumption DEF Count
    <3> QED
      BY <3>1, <3>2, MoveFocusAnswers, SelectAnswers
  <2> QED
    BY <1>3, <2>1, <2>2, <2>3, <2>4 DEF ClickPanel
<1>4. CASE ClickResult
  BY <1>4, ClickAnswers DEF ClickResult
<1>5. ASSUME SameSearch(box, box') PROVE AnswersOK(box')
  BY <1>5, SameAnswers
<1>6. CASE \/ \E place \in {"icon", "list"} : MouseOver(place)
           \/ MouseOut \/ HideTimer \/ Load
  <2>1. \/ box' = [box EXCEPT !.select = TRUE, !.hideTimeout = FALSE]
        \/ box' = [box EXCEPT !.hideTimeout = TRUE]
        \/ box' = [[box EXCEPT !.hideTimeout = FALSE] EXCEPT !.select = FALSE]
        \/ box' = [box EXCEPT !.loading = FALSE]
    BY <1>6 DEF MouseOver, MouseOut, HideTimer, Load, OnSearchSelectShow, OnSearchSelectHide,
                CloseSelectionWindow
  <2>2. SameSearch(box, box')
    BY <2>1 DEF AnswersOK, Base, IsBox, Fields, SameSearch
  <2> QED
    BY <1>5, <2>2
<1>7. CASE KeyTimer
  BY <1>7, KeyTimerAnswers DEF KeyTimer
<1>8. CASE Resize
  <2>1. PICK b : (b = box \/ b = MoveFocus(box, Elsewhere)) /\ box' = ResetState(b)
    BY <1>8 DEF Resize
  <2>2. AnswersOK(b) /\ LABEL \in Seq(Chars)
    BY <2>1, MoveFocusAnswers, SearchBoxAssumption
  <2>3. /\ IsBox(box') /\ box'.value = LABEL /\ box'.searchIndex = b.searchIndex
        /\ box'.searchActive = b.searchActive /\ box'.last = b.last /\ box'.asked = b.asked
        /\ box'.results = b.results /\ box'.kept = b.kept
    BY <2>1, <2>2 DEF ResetState, AnswersOK, Base, IsBox, Fields
  <2> QED
    BY <2>2, <2>3 DEF AnswersOK, Base, UnderFilter, Answered
<1>9. CASE UNCHANGED vars
  BY <1>9 DEF vars
<1> QED
  BY <1>1, <1>2, <1>3, <1>4, <1>6, <1>7, <1>8, <1>9 DEF Next

-----------------------------------------------------------------------------
(* The rows *)

Letters == {IdOf[c] : c \in Chars}
RowRecord == [name : Seq(Letters), entries : Nat]

\* The page that was asked for is one of the pages.
AskedOK(b) ==
  /\ b.asked.query \in Seq(Chars)
  /\ b.asked.index \in 0 .. Count - 1
  /\ b.asked.page \in 0 .. Len(Sections[b.asked.index + 1])

\* What is left of a query is a text.
LEMMA TrimIsText ==
  ASSUME NEW q \in Seq(Chars)
  PROVE  Trim(q) \in Seq(Chars)
<1>1. PICK n \in Nat : n = Len(q)
  OBVIOUS
<1> DEFINE I == {i \in 1 .. n : q[i] # SP}
<1>2. Trim(q) = LET first == IF I # {} THEN Min(I) ELSE 0
                IN  IF first = 0 THEN EMPTY ELSE SubSeq(q, first, n)
  BY <1>1 DEF Trim, SelectInSeq
<1>3. I \subseteq 1 .. n /\ I \subseteq Nat
  OBVIOUS
<1>4. I # {} => Min(I) \in 1 .. n
  <2> HIDE DEF I
  <2> SUFFICES ASSUME I # {} PROVE Min(I) \in 1 .. n
    OBVIOUS
  <2>1. \E x \in I : \A y \in I : x <= y
    BY <1>3, LeastNumber
  <2>2. Min(I) \in I
    BY <2>1, Zenon DEF Min
  <2> QED
    BY <1>3, <2>2
<1>5. EMPTY \in Seq(Chars)
  BY DEF EMPTY
<1> HIDE DEF I
<1>6. PICK first : first = IF I # {} THEN Min(I) ELSE 0
  OBVIOUS
<1>7. Trim(q) = IF first = 0 THEN EMPTY ELSE SubSeq(q, first, n)
  BY <1>2, <1>6
<1>8. first = 0 \/ first \in 1 .. n
  BY <1>4, <1>6
<1> QED
  BY <1>1, <1>5, <1>7, <1>8

\* So is the query that rows are compared with.
LEMMA SearchIsText ==
  ASSUME NEW q \in Seq(Chars)
  PROVE  ConvertToId(TrimEnd(q)) \in Seq(Letters)
<1>1. \A s \in Seq(Chars) : Reverse(s) \in Seq(Chars)
  BY DEF Reverse
<1>2. TrimEnd(q) \in Seq(Chars)
  BY <1>1, TrimIsText DEF TrimEnd
<1>3. PICK s \in Seq(Chars) : s = TrimEnd(q)
  BY <1>2
<1>4. [i \in DOMAIN s |-> IdOf[s[i]]] \in Seq(Letters)
  BY DEF Letters
<1> QED
  BY <1>3, <1>4 DEF ConvertToId

\* Rows are rows, and those of a page are sorted.
LEMMA RowsAreSorted ==
  ASSUME NEW b, AskedOK(b)
  PROVE  Rows(b) \in Seq(RowRecord) /\ Sorted(Rows(b))
<1>1. CASE b.loading \/ b.asked.page = 0
  <2>1. Rows(b) = << >>
    BY <1>1 DEF Rows
  <2> QED
    BY <2>1 DEF Sorted
<1>2. CASE ~(b.loading \/ b.asked.page = 0)
  <2>1. PICK f : f = b.asked.index + 1
    OBVIOUS
  <2>2. Count \in Nat /\ Len(Data) = Count /\ Data \in Seq(Seq(Seq(RowRecord)))
    BY SearchBoxAssumption, ResultsAssumption DEF Count, RowRecord, Letters
  <2>3. f \in 1 .. Count /\ f \in DOMAIN Data
    BY <2>1, <2>2 DEF AskedOK
  <2>4. Len(Data[f]) = Len(Sections[f]) /\ Data[f] \in Seq(Seq(RowRecord))
    <3>1. Len(Data[f]) = Len(Sections[f])
      BY <2>3, ResultsAssumption, Zenon
    <3> QED
      BY <2>2, <2>3, <3>1
  <2>5. b.asked.page \in DOMAIN Data[f]
    BY <1>2, <2>1, <2>4 DEF AskedOK
  <2>6. Rows(b) = Data[f][b.asked.page]
    BY <1>2, <2>1 DEF Rows
  <2>7. Sorted(Data[f][b.asked.page])
    BY <2>3, <2>5, ResultsAssumption
  <2> QED
    BY <2>4, <2>5, <2>6, <2>7
<1> QED
  BY <1>1, <1>2

\* The rows displayed are next to each other.
LEMMA MatchesAdjoin ==
  ASSUME NEW b, AskedOK(b)
  PROVE  /\ Matches(b) \subseteq DOMAIN Rows(b)
         /\ \A i, k \in Matches(b) : \A j \in i .. k : j \in Matches(b)
<1>1. PICK search \in Seq(Letters) : search = ConvertToId(TrimEnd(b.asked.query))
  BY SearchIsText DEF AskedOK
<1>2. Matches(b) = {r \in DOMAIN Rows(b) : IsPrefix(search, Rows(b)[r].name)}
  BY <1>1 DEF Matches
<1>3. ASSUME NEW i \in Matches(b), NEW k \in Matches(b), NEW j \in i .. k
      PROVE  j \in Matches(b)
  <2>1. PICK rows \in Seq(RowRecord) : rows = Rows(b) /\ Sorted(rows)
    BY RowsAreSorted
  <2>2. i \in DOMAIN rows /\ k \in DOMAIN rows /\ j \in DOMAIN rows
    BY <1>2, <1>3, <2>1
  <2>3. PICK first \in Seq(Letters) : first = rows[i].name
    <3>1. rows[i] \in RowRecord
      BY <2>1, <2>2
    <3> QED
      BY <3>1 DEF RowRecord
  <2>4. IsPrefix(search, first) /\ IsPrefix(search, rows[k].name)
    BY <1>2, <2>1, <2>3
  <2>5. Len(search) \in 0 .. Len(first) /\ SubSeq(first, 1, Len(search)) = search
    <3>1. Len(search) <= Len(first) /\ SubSeq(search, 1, Len(search)) = SubSeq(first, 1, Len(search))
      BY <2>4 DEF IsPrefix
    <3>2. SubSeq(search, 1, Len(search)) = search
      OBVIOUS
    <3> QED
      BY <3>1, <3>2
  <2>6. IsPrefix(search, rows[j].name)
    <3>1. PICK n \in 0 .. Len(first) : n = Len(search)
      BY <2>5
    <3>2. LET start == SubSeq(rows[i].name, 1, n)
          IN  IsPrefix(start, rows[k].name) => IsPrefix(start, rows[j].name)
      BY <2>1, <2>2, <2>3, <3>1, Zenon DEF Sorted
    <3> QED
      BY <2>3, <2>4, <2>5, <3>1, <3>2, Zenon
  <2> QED
    BY <1>2, <2>1, <2>2, <2>6
<1> QED
  BY <1>2, <1>3

-----------------------------------------------------------------------------
(* The places displayed *)

\* Row r is displayed, and so is its entry c, where entry 0 is the row itself.
IsShown(b, op, r, c) ==
  r \in Matches(b) /\ (c = 0 \/ (r \in op /\ c \in 1 .. Rows(b)[r].entries))

\* A place is displayed if its row and its entry are.
LEMMA ShownPlaces ==
  ASSUME NEW b, NEW op
  PROVE  /\ \A p : p \in Shown(b, op) <=> \E r, c : p = Child(r, c) /\ IsShown(b, op, r, c)
         /\ \A r, c : Child(r, c) \in Shown(b, op) <=> IsShown(b, op, r, c)
<1>1. \A r : Item(r) = Child(r, 0)
  BY DEF Item, Child
<1>2. \A r, c, s, d : Child(r, c) = Child(s, d) => r = s /\ c = d
  BY DEF Child, Place
<1>3. ASSUME NEW p
      PROVE  p \in Shown(b, op) <=> \E r, c : p = Child(r, c) /\ IsShown(b, op, r, c)
  <2>1. p \in Shown(b, op) <=>
          \/ \E r \in Matches(b) : p = Item(r)
          \/ \E r \in Matches(b) \cap op : \E c \in 1 .. Rows(b)[r].entries : p = Child(r, c)
    <3>1. p \in {Item(r) : r \in Matches(b)} <=> \E r \in Matches(b) : p = Item(r)
      OBVIOUS
    <3>2. p \in UNION {{Child(r, c) : c \in 1 .. Rows(b)[r].entries} : r \in Matches(b) \cap op}
            <=> \E r \in Matches(b) \cap op : \E c \in 1 .. Rows(b)[r].entries : p = Child(r, c)
      <4> DEFINE Entries(r) == {Child(r, c) : c \in 1 .. Rows(b)[r].entries}
      <4>1. \A r : p \in Entries(r) <=> \E c \in 1 .. Rows(b)[r].entries : p = Child(r, c)
        OBVIOUS
      <4>2. p \in UNION {Entries(r) : r \in Matches(b) \cap op}
              <=> \E r \in Matches(b) \cap op : p \in Entries(r)
        <5> HIDE DEF Entries
        <5> QED
          OBVIOUS
      <4> QED
        BY <4>1, <4>2, Zenon
    <3> QED
      BY <3>1, <3>2, Zenon DEF Shown
  <2> QED
    BY <1>1, <2>1, Zenon DEF IsShown
<1>4. ASSUME NEW r, NEW c
      PROVE  Child(r, c) \in Shown(b, op) <=> IsShown(b, op, r, c)
  <2>1. Child(r, c) \in Shown(b, op) <=> \E s, d : Child(r, c) = Child(s, d) /\ IsShown(b, op, s, d)
    BY <1>3
  <2>2. ASSUME NEW s, NEW d, Child(r, c) = Child(s, d), IsShown(b, op, s, d)
        PROVE  IsShown(b, op, r, c)
    <3>1. r = s /\ c = d
      BY <1>2, <2>2
    <3> QED
      BY <2>2, <3>1
  <2> QED
    BY <2>1, <2>2
<1> QED
  BY <1>3, <1>4

\* Only rows with entries are unfolded, and the focus is on something displayed.
FrameOK(b, op) ==
  /\ IsBox(b) /\ AskedOK(b)
  /\ \A r \in op : r \in DOMAIN Rows(b) /\ Rows(b)[r].entries > 0
  /\ b.focus.at = "row" => b.results /\ b.focus \in Shown(b, op)

\* What MoveFocus does not change.
LEMMA ActivateStays ==
  ASSUME NEW b, IsBox(b), NEW isActive \in BOOLEAN, NEW c, c = Activate(b, isActive)
  PROVE  /\ IsBox(c) /\ c.asked = b.asked /\ c.loading = b.loading
         /\ c.results = b.results /\ c.focus = b.focus
<1>1. CASE (isActive \/ b.results) /\ b.value = LABEL
  <2>1. c = [b EXCEPT !.boxActive = TRUE, !.value = EMPTY, !.searchActive = TRUE]
    BY <1>1 DEF Activate
  <2> QED
    BY <2>1 DEF IsBox, Fields
<1>2. CASE (isActive \/ b.results) /\ b.value # LABEL
  <2>1. c = [b EXCEPT !.boxActive = TRUE]
    BY <1>2 DEF Activate
  <2> QED
    BY <2>1 DEF IsBox, Fields
<1>3. CASE ~isActive /\ ~b.results
  <2>1. c = [b EXCEPT !.boxActive = FALSE, !.value = LABEL, !.searchActive = FALSE,
                      !.last = EMPTY, !.unsettled = TimerRuns(b), !.missed = FALSE,
                      !.kept = FALSE]
    BY <1>3 DEF Activate, IsBox
  <2> QED
    BY <2>1 DEF IsBox, Fields, TimerRuns
<1> QED
  BY <1>1, <1>2, <1>3 DEF IsBox

\* The focus goes where it is moved, and the page stays.
LEMMA MoveFocusStays ==
  ASSUME NEW b, IsBox(b), NEW to, NEW c, c = MoveFocus(b, to)
  PROVE  /\ IsBox(c) /\ c.asked = b.asked /\ c.loading = b.loading
         /\ c.results = b.results /\ c.focus = to
<1>1. PICK moved : moved = [b EXCEPT !.focus = to]
  OBVIOUS
<1>2. /\ IsBox(moved) /\ moved.asked = b.asked /\ moved.loading = b.loading
      /\ moved.results = b.results /\ moved.focus = to
  BY <1>1 DEF IsBox, Fields
<1>3. PICK left : left = IF b.focus = Field /\ to # Field THEN Activate(moved, FALSE) ELSE moved
  OBVIOUS
<1>4. /\ IsBox(left) /\ left.asked = b.asked /\ left.loading = b.loading
      /\ left.results = b.results /\ left.focus = to
  BY <1>2, <1>3, ActivateStays
<1>5. c = IF b.focus # Field /\ to = Field THEN Activate(left, TRUE) ELSE left
  BY <1>1, <1>3 DEF MoveFocus, OnSearchFieldFocus
<1> QED
  BY <1>4, <1>5, ActivateStays

\* The same page is displayed, though perhaps with the focus elsewhere.
SamePage(b, c) == IsBox(c) /\ c.asked = b.asked /\ c.loading = b.loading

\* Then the same is displayed.
LEMMA SamePageShown ==
  ASSUME NEW b, NEW c, SamePage(b, c), NEW op
  PROVE  /\ Rows(c) = Rows(b) /\ Matches(c) = Matches(b) /\ Shown(c, op) = Shown(b, op)
         /\ AskedOK(b) => AskedOK(c)
<1>1. Rows(c) = Rows(b)
  BY DEF SamePage, Rows
<1>2. Matches(c) = Matches(b)
  BY <1>1 DEF SamePage, Matches
<1> QED
  BY <1>1, <1>2 DEF SamePage, Shown, AskedOK

\* The focus can be moved to what is displayed.
LEMMA FocusInMoves ==
  ASSUME NEW b, NEW op, IsBox(b), NEW r, NEW c, IsShown(b, op, r, c), b.results
  PROVE  /\ FocusIn(b, op, Child(r, c)) = MoveFocus(b, Child(r, c))
         /\ FocusIn(b, op, Child(r, c)).focus = Child(r, c)
<1>1. Child(r, c).row = r /\ Child(r, c).child = c
  BY DEF Child, Place
<1>2. Displayed(b, op, Child(r, c))
  BY <1>1 DEF Displayed, IsShown
<1> QED
  BY <1>2, MoveFocusStays DEF FocusIn

\* NextRow goes to the next row displayed.
LEMMA NextRowGoes ==
  ASSUME NEW b, NEW op, AskedOK(b), NEW i \in Nat
  PROVE  \/ /\ \A r \in Matches(b) : r < i
            /\ NextRow(b, op, i) = b
         \/ \E n \in Matches(b) :
              /\ n >= i /\ \A r \in Matches(b) : r >= i => r >= n
              /\ NextRow(b, op, i) = FocusIn(b, op, Child(n, 0))
<1> DEFINE found == {r \in Matches(b) : r >= i}
<1>1. Matches(b) \subseteq Nat \ {0}
  <2>1. Matches(b) \subseteq DOMAIN Rows(b)
    BY MatchesAdjoin
  <2>2. DOMAIN Rows(b) = 1 .. Len(Rows(b)) /\ Len(Rows(b)) \in Nat
    BY RowsAreSorted
  <2> QED
    BY <2>1, <2>2
<1>2. NavNext(b, i) = IF found = {} THEN 0 ELSE Min(found)
  BY DEF NavNext
<1>3. NextRow(b, op, i) = IF NavNext(b, i) = 0 THEN b ELSE FocusIn(b, op, Item(NavNext(b, i)))
  BY DEF NextRow
<1>4. CASE found = {}
  BY <1>1, <1>2, <1>3, <1>4
<1>5. CASE found # {}
  <2>1. \E x \in found : \A y \in found : x <= y
    <3>1. found \subseteq Nat
      BY <1>1
    <3> HIDE DEF found
    <3> QED
      BY <1>5, <3>1, LeastNumber
  <2>2. PICK n \in found : n = Min(found) /\ \A y \in found : n <= y
    <3> HIDE DEF found
    <3> QED
      BY <2>1, Zenon DEF Min
  <2>3. n \in Matches(b) /\ n >= i /\ n # 0 /\ n \in Nat
    BY <1>1
  <2>4. NavNext(b, i) = n
    <3> HIDE DEF found
    <3> QED
      BY <1>2, <1>5, <2>2
  <2>5. NextRow(b, op, i) = FocusIn(b, op, Child(n, 0))
    BY <1>3, <2>3, <2>4 DEF Item, Child
  <2>6. \A r \in Matches(b) : r >= i => r >= n
    BY <1>1, <2>2
  <2> QED
    BY <2>3, <2>5, <2>6
<1> QED
  BY <1>4, <1>5

\* Where Down and Up lead to.
Down(b, op) == NavAt(b, op, "Down").focus
Up(b, op) == NavAt(b, op, "Up").focus

\* Entry c is the last of row r that is displayed.
LastEntry(b, op, r, c) == ~(r \in op /\ c < Rows(b)[r].entries)

\* From entry c of row r, Down goes to the next entry or to the next row.
LEMMA DownGoes ==
  ASSUME NEW b, NEW op, FrameOK(b, op), NEW r, NEW c, b.focus = Child(r, c)
  PROVE  IF LastEntry(b, op, r, c)
         THEN NavAt(b, op, "Down") = NextRow(b, op, r + 1)
         ELSE NavAt(b, op, "Down") = FocusIn(b, op, Child(r, c + 1))
<1>1. b.focus.at = "row" /\ b.focus.row = r /\ b.focus.child = c
  BY DEF Child, Place
<1>2. IsShown(b, op, r, c)
  BY <1>1, ShownPlaces DEF FrameOK
<1>3. Rows(b) \in Seq(RowRecord)
  BY RowsAreSorted DEF FrameOK
<1>4. r \in DOMAIN Rows(b) /\ Rows(b)[r].entries \in Nat
  <2>1. r \in DOMAIN Rows(b)
    BY <1>2, MatchesAdjoin DEF IsShown, FrameOK
  <2>2. Rows(b)[r] \in RowRecord
    BY <1>3, <2>1
  <2> QED
    BY <2>1, <2>2 DEF RowRecord
<1>5. CASE c = 0
  <2>1. NavAt(b, op, "Down") = DownFrom(b, op, r)
    BY <1>1, <1>5 DEF NavAt, Nav
  <2>2. r \in op <=> ~LastEntry(b, op, r, c)
    BY <1>4, <1>5 DEF LastEntry, FrameOK
  <2> QED
    BY <1>5, <2>1, <2>2 DEF DownFrom
<1>6. CASE c # 0
  <2>1. r \in op /\ c \in 1 .. Rows(b)[r].entries
    BY <1>2, <1>6 DEF IsShown
  <2>2. NavAt(b, op, "Down") = NavChild(b, op, r, c, "Down")
    BY <1>1, <1>6 DEF NavAt
  <2>3. NavChild(b, op, r, c, "Down") =
          IF c < Rows(b)[r].entries THEN FocusIn(b, op, Child(r, c + 1)) ELSE NextRow(b, op, r + 1)
    BY DEF NavChild
  <2> QED
    BY <2>1, <2>2, <2>3 DEF LastEntry
<1> QED
  BY <1>5, <1>6

\* From entry c of row r, Up goes to the entry before, or to the last entry displayed of
\* the row before, or to the field.
LEMMA UpGoes ==
  ASSUME NEW b, NEW op, FrameOK(b, op), NEW r, NEW c, b.focus = Child(r, c)
  PROVE  /\ c # 0 => NavAt(b, op, "Up") = FocusIn(b, op, Child(r, c - 1))
         /\ c = 0 /\ (\A s \in Matches(b) : s >= r) => NavAt(b, op, "Up") = MoveFocus(b, Field)
         /\ c = 0 /\ ~(\A s \in Matches(b) : s >= r) =>
              /\ r - 1 \in Matches(b)
              /\ r - 1 \in op =>
                   NavAt(b, op, "Up") = FocusIn(b, op, Child(r - 1, Rows(b)[r - 1].entries))
              /\ r - 1 \notin op => NavAt(b, op, "Up") = FocusIn(b, op, Child(r - 1, 0))
<1>1. b.focus.at = "row" /\ b.focus.row = r /\ b.focus.child = c
  BY DEF Child, Place
<1>2. IsShown(b, op, r, c) /\ r \in Matches(b)
  BY <1>1, ShownPlaces DEF FrameOK, IsShown
<1>3. Matches(b) \subseteq Nat \ {0}
  <2>1. Matches(b) \subseteq DOMAIN Rows(b)
    BY MatchesAdjoin DEF FrameOK
  <2>2. DOMAIN Rows(b) = 1 .. Len(Rows(b)) /\ Len(Rows(b)) \in Nat
    BY RowsAreSorted DEF FrameOK
  <2> QED
    BY <2>1, <2>2
<1>4. ASSUME c # 0 PROVE NavAt(b, op, "Up") = FocusIn(b, op, Child(r, c - 1))
  BY <1>1, <1>4 DEF NavAt, NavChild
<1> DEFINE found == {s \in Matches(b) : s <= r - 1}
<1>5. NavPrev(b, r - 1) = IF found = {} THEN 0 ELSE Max(found)
  BY DEF NavPrev
<1>6. ASSUME c = 0
      PROVE  NavAt(b, op, "Up") = UpFrom(b, op, r)
  BY <1>1, <1>6 DEF NavAt, Nav
<1>7. ASSUME c = 0, \A s \in Matches(b) : s >= r PROVE NavAt(b, op, "Up") = MoveFocus(b, Field)
  <2>1. found = {}
    BY <1>2, <1>3, <1>7
  <2>2. UpFrom(b, op, r) = MoveFocus(b, Field)
    BY <1>5, <2>1 DEF UpFrom
  <2> QED
    BY <1>6, <1>7, <2>2
<1>8. ASSUME c = 0, NEW s \in Matches(b), ~(s >= r)
      PROVE  /\ r - 1 \in Matches(b)
             /\ r - 1 \in op =>
                  NavAt(b, op, "Up") = FocusIn(b, op, Child(r - 1, Rows(b)[r - 1].entries))
             /\ r - 1 \notin op => NavAt(b, op, "Up") = FocusIn(b, op, Child(r - 1, 0))
  <2>1. r - 1 \in s .. r /\ r - 1 \in Nat
    BY <1>2, <1>3, <1>8
  <2>2. r - 1 \in Matches(b)
    BY <1>2, <1>8, <2>1, MatchesAdjoin DEF FrameOK
  <2>3. r - 1 \in found /\ \A x \in found : r - 1 >= x
    BY <1>2, <1>3, <2>1, <2>2
  <2>4. Max(found) = r - 1
    <3> HIDE DEF found
    <3>1. PICK m : m = Max(found)
      OBVIOUS
    <3>2. m \in found /\ \A x \in found : m >= x
      BY <2>3, <3>1, Zenon DEF Max
    <3>3. m >= r - 1 /\ r - 1 >= m
      BY <2>3, <3>2
    <3>4. m \in Nat
      BY <1>3, <3>2 DEF found
    <3> QED
      BY <2>1, <3>1, <3>3, <3>4
  <2>5. NavPrev(b, r - 1) = r - 1
    <3> HIDE DEF found
    <3> QED
      BY <1>5, <2>3, <2>4
  <2>6. r - 1 # 0 /\ Item(r - 1) = Child(r - 1, 0)
    BY <1>3, <2>2 DEF Item, Child
  <2>7. UpFrom(b, op, r) =
          IF r - 1 \in op /\ HasEntries(b, r - 1)
          THEN FocusIn(b, op, Child(r - 1, Rows(b)[r - 1].entries))
          ELSE FocusIn(b, op, Child(r - 1, 0))
    BY <2>5, <2>6 DEF UpFrom
  <2>8. r - 1 \in op => HasEntries(b, r - 1)
    BY DEF HasEntries, FrameOK
  <2> QED
    BY <1>6, <1>8, <2>2, <2>7, <2>8
<1> QED
  BY <1>4, <1>7, <1>8

\* What is displayed below the focus, and above it.
Beneath(b, op) == {p \in Shown(b, op) : Above(b.focus, p)}
Over(b, op) == {p \in Shown(b, op) : Above(p, b.focus)}

\* Down leads to the next place, or nowhere.
LEMMA DownIsNext ==
  ASSUME NEW b, NEW op, FrameOK(b, op), b.focus.at = "row"
  PROVE  IF Beneath(b, op) = {} THEN Down(b, op) = b.focus
         ELSE Down(b, op) \in Beneath(b, op)
              /\ \A p \in Beneath(b, op) : ~Above(p, Down(b, op))
<1>1. PICK r, c : b.focus = Child(r, c) /\ IsShown(b, op, r, c)
  BY ShownPlaces DEF FrameOK
<1>2. Beneath(b, op) = {p \in Shown(b, op) : Above(Child(r, c), p)}
  BY <1>1 DEF Beneath
<1>3. \A s, d, t, e : Above(Child(s, d), Child(t, e)) <=> s < t \/ (s = t /\ d < e)
  BY DEF Above, Child, Place
<1>4. /\ \A s, d : IsShown(b, op, s, d) => s \in Nat /\ d \in Nat
      /\ \A s \in Matches(b) : Rows(b)[s].entries \in Nat
  <2>1. Matches(b) \subseteq DOMAIN Rows(b) /\ Rows(b) \in Seq(RowRecord)
    BY MatchesAdjoin, RowsAreSorted DEF FrameOK
  <2>2. \A s \in Matches(b) : s \in Nat /\ Rows(b)[s] \in RowRecord
    BY <2>1
  <2>3. \A s \in Matches(b) : s \in Nat /\ Rows(b)[s].entries \in Nat
    BY <2>2 DEF RowRecord
  <2> QED
    BY <2>3 DEF IsShown
<1>5. CASE LastEntry(b, op, r, c)
  <2>1. Down(b, op) = NextRow(b, op, r + 1).focus
    BY <1>1, <1>5, DownGoes DEF Down
  <2>2. \A s, d : IsShown(b, op, s, d) /\ (r < s \/ (r = s /\ c < d)) => r < s
    BY <1>1, <1>4, <1>5 DEF IsShown, LastEntry
  <2>3. /\ IsBox(b) /\ AskedOK(b) /\ b.results /\ r + 1 \in Nat
    BY <1>1, <1>4 DEF FrameOK
  <2>4. CASE (\A s \in Matches(b) : s < r + 1) /\ NextRow(b, op, r + 1) = b
    <3>1. \A s, d : IsShown(b, op, s, d) => ~(r < s)
      BY <1>1, <1>4, <2>4 DEF IsShown
    <3>2. Beneath(b, op) = {}
      BY <1>2, <1>3, <2>2, <3>1, ShownPlaces
    <3> QED
      BY <2>1, <2>4, <3>2
  <2>5. ASSUME NEW n \in Matches(b), n >= r + 1, \A s \in Matches(b) : s >= r + 1 => s >= n,
               NextRow(b, op, r + 1) = FocusIn(b, op, Child(n, 0))
        PROVE  /\ Down(b, op) \in Beneath(b, op)
               /\ \A p \in Beneath(b, op) : ~Above(p, Down(b, op))
    <3>1. IsShown(b, op, n, 0)
      BY <2>5 DEF IsShown
    <3>2. Down(b, op) = Child(n, 0)
      BY <2>1, <2>3, <2>5, <3>1, FocusInMoves
    <3>3. r < n
      BY <1>1, <1>4, <2>5, <3>1
    <3>4. Child(n, 0) \in Beneath(b, op)
      BY <1>2, <1>3, <3>1, <3>3, ShownPlaces
    <3>5. ASSUME NEW s, NEW d, IsShown(b, op, s, d), Above(Child(r, c), Child(s, d))
          PROVE  ~Above(Child(s, d), Child(n, 0))
      <4>1. r < s /\ s \in Matches(b) /\ s \in Nat /\ r \in Nat /\ n \in Nat /\ d \in Nat
        BY <1>1, <1>3, <1>4, <2>2, <3>1, <3>5 DEF IsShown
      <4>2. s >= n
        BY <2>5, <4>1
      <4> QED
        BY <1>3, <4>1, <4>2
    <3>6. \A p \in Beneath(b, op) : ~Above(p, Child(n, 0))
      BY <1>2, <3>5, ShownPlaces
    <3> QED
      BY <3>2, <3>4, <3>6
  <2> QED
    BY <2>3, <2>4, <2>5, NextRowGoes
<1>6. CASE ~LastEntry(b, op, r, c)
  <2>1. c + 1 \in 1 .. Rows(b)[r].entries /\ r \in op /\ r \in Matches(b)
    BY <1>1, <1>4, <1>6 DEF LastEntry, IsShown
  <2>2. IsShown(b, op, r, c + 1)
    BY <2>1 DEF IsShown
  <2>3. Down(b, op) = Child(r, c + 1)
    BY <1>1, <1>6, <2>2, DownGoes, FocusInMoves DEF FrameOK, Down
  <2>4. Child(r, c + 1) \in Beneath(b, op)
    BY <1>1, <1>2, <1>3, <1>4, <2>2, ShownPlaces
  <2>5. ASSUME NEW s, NEW d, IsShown(b, op, s, d), Above(Child(r, c), Child(s, d))
        PROVE  ~Above(Child(s, d), Child(r, c + 1))
    <3>1. s \in Nat /\ r \in Nat /\ d \in Nat /\ c \in Nat
      BY <1>1, <1>4, <2>5
    <3> QED
      BY <1>3, <2>5, <3>1
  <2>6. \A p \in Beneath(b, op) : ~Above(p, Child(r, c + 1))
    BY <1>2, <2>5, ShownPlaces
  <2> QED
    BY <2>3, <2>4, <2>6
<1> QED
  BY <1>5, <1>6

\* Up leads to the place before, or to the field.
LEMMA UpIsBefore ==
  ASSUME NEW b, NEW op, FrameOK(b, op), b.focus.at = "row"
  PROVE  IF Over(b, op) = {} THEN Up(b, op) = Field
         ELSE Up(b, op) \in Over(b, op)
              /\ \A p \in Over(b, op) : ~Above(Up(b, op), p)
<1>1. PICK r, c : b.focus = Child(r, c) /\ IsShown(b, op, r, c)
  BY ShownPlaces DEF FrameOK
<1>2. Over(b, op) = {p \in Shown(b, op) : Above(p, Child(r, c))}
  BY <1>1 DEF Over
<1>3. \A s, d, t, e : Above(Child(s, d), Child(t, e)) <=> s < t \/ (s = t /\ d < e)
  BY DEF Above, Child, Place
<1>4. /\ \A s, d : IsShown(b, op, s, d) => s \in Nat /\ d \in Nat
      /\ \A s \in Matches(b) : Rows(b)[s].entries \in Nat
  <2>1. Matches(b) \subseteq DOMAIN Rows(b) /\ Rows(b) \in Seq(RowRecord)
    BY MatchesAdjoin, RowsAreSorted DEF FrameOK
  <2>2. \A s \in Matches(b) : s \in Nat /\ Rows(b)[s] \in RowRecord
    BY <2>1
  <2>3. \A s \in Matches(b) : s \in Nat /\ Rows(b)[s].entries \in Nat
    BY <2>2 DEF RowRecord
  <2> QED
    BY <2>3 DEF IsShown
\* To go to a place with nothing between is enough.
<1>5. ASSUME NEW s, NEW d, IsShown(b, op, s, d), Above(Child(s, d), Child(r, c)),
             Up(b, op) = FocusIn(b, op, Child(s, d)).focus,
             \A t, e : IsShown(b, op, t, e) /\ Above(Child(t, e), Child(r, c))
                         => ~Above(Child(s, d), Child(t, e))
      PROVE  /\ Up(b, op) \in Over(b, op)
             /\ \A p \in Over(b, op) : ~Above(Up(b, op), p)
  <2>1. Up(b, op) = Child(s, d)
    BY <1>1, <1>5, FocusInMoves DEF FrameOK
  <2>2. Child(s, d) \in Over(b, op)
    BY <1>2, <1>5, ShownPlaces
  <2>3. \A p \in Over(b, op) : ~Above(Child(s, d), p)
    BY <1>2, <1>5, ShownPlaces
  <2> QED
    BY <2>1, <2>2, <2>3
<1>6. CASE c # 0
  <2>1. IsShown(b, op, r, c - 1)
    BY <1>1, <1>4, <1>6 DEF IsShown
  <2>2. Above(Child(r, c - 1), Child(r, c))
    BY <1>1, <1>3, <1>4
  <2>3. Up(b, op) = FocusIn(b, op, Child(r, c - 1)).focus
    BY <1>1, <1>6, UpGoes DEF Up
  <2>4. ASSUME NEW t, NEW e, IsShown(b, op, t, e), Above(Child(t, e), Child(r, c))
        PROVE  ~Above(Child(r, c - 1), Child(t, e))
    <3>1. t \in Nat /\ r \in Nat /\ e \in Nat /\ c \in Nat
      BY <1>1, <1>4, <2>4
    <3> QED
      BY <1>3, <2>4, <3>1
  <2> QED
    BY <1>5, <2>1, <2>2, <2>3, <2>4
<1>7. CASE c = 0 /\ \A s \in Matches(b) : s >= r
  <2>1. \A s, d : IsShown(b, op, s, d) => ~(s < r \/ (s = r /\ d < c))
    BY <1>1, <1>4, <1>7 DEF IsShown
  <2>2. Over(b, op) = {}
    BY <1>2, <1>3, <2>1, ShownPlaces
  <2> QED
    <3>1. NavAt(b, op, "Up") = MoveFocus(b, Field)
      BY <1>1, <1>7, UpGoes
    <3>2. Up(b, op) = Field
      BY <3>1, MoveFocusStays DEF Up, FrameOK
    <3> QED
      BY <2>2, <3>2
<1>8. CASE c = 0 /\ ~(\A s \in Matches(b) : s >= r)
  <2>1. /\ r - 1 \in Matches(b)
        /\ r - 1 \in op => Up(b, op) = FocusIn(b, op, Child(r - 1, Rows(b)[r - 1].entries)).focus
        /\ r - 1 \notin op => Up(b, op) = FocusIn(b, op, Child(r - 1, 0)).focus
    BY <1>1, <1>8, UpGoes DEF Up
  <2>2. PICK d : d = IF r - 1 \in op THEN Rows(b)[r - 1].entries ELSE 0
    OBVIOUS
  <2>3. d \in Nat /\ (r - 1 \in op => d > 0)
    BY <1>4, <2>1, <2>2 DEF FrameOK
  <2>4. IsShown(b, op, r - 1, d)
    BY <2>1, <2>2, <2>3 DEF IsShown
  <2>5. Up(b, op) = FocusIn(b, op, Child(r - 1, d)).focus
    BY <2>1, <2>2
  <2>6. Above(Child(r - 1, d), Child(r, c))
    BY <1>1, <1>3, <1>4
  <2>7. ASSUME NEW t, NEW e, IsShown(b, op, t, e), Above(Child(t, e), Child(r, c))
        PROVE  ~Above(Child(r - 1, d), Child(t, e))
    <3>1. t \in Nat /\ r \in Nat /\ e \in Nat
      BY <1>1, <1>4, <2>7
    <3>2. t < r
      BY <1>3, <1>8, <2>7, <3>1
    <3>3. t = r - 1 => e <= d
      BY <2>2, <2>3, <2>7, <3>1 DEF IsShown
    <3> QED
      BY <1>3, <2>3, <3>1, <3>2, <3>3
  <2> QED
    BY <1>5, <2>4, <2>5, <2>6, <2>7
<1> QED
  BY <1>6, <1>7, <1>8

-----------------------------------------------------------------------------
(* The page under the handlers *)

\* The page stays, and the focus does not enter it; or another page is asked for.
Stays(b, c) ==
  SamePage(b, c) /\ (c.focus.at = "row" => c.focus = b.focus /\ c.results = b.results)
NewPage(c) == IsBox(c) /\ c.loading /\ c.focus.at # "row" /\ AskedOK(c)
Turns(b, c) == Stays(b, c) \/ NewPage(c)

\* What was displayed of the page stays, and nothing is displayed of another.
LEMMA TurnsFrame ==
  ASSUME NEW b, NEW op, FrameOK(b, op), NEW c
  PROVE  /\ Stays(b, c) => FrameOK(c, op)
         /\ Turns(b, c) => FrameOK(c, IF c.loading THEN {} ELSE op)
<1>1. ASSUME Stays(b, c) PROVE FrameOK(c, op)
  <2>1. SamePage(b, c)
    BY <1>1 DEF Stays
  <2>2. Rows(c) = Rows(b) /\ Shown(c, op) = Shown(b, op) /\ AskedOK(c)
    BY <2>1, SamePageShown DEF FrameOK
  <2> QED
    BY <1>1, <2>1, <2>2 DEF FrameOK, Stays, SamePage
<1>2. ASSUME FrameOK(c, op), c.loading PROVE c.focus.at # "row"
  <2>1. Rows(c) = << >>
    BY <1>2 DEF Rows
  <2>2. Matches(c) = {}
    BY <2>1 DEF Matches
  <2>3. \A r, e : ~IsShown(c, op, r, e)
    BY <2>2 DEF IsShown
  <2> QED
    BY <1>2, <2>3, ShownPlaces DEF FrameOK
<1>3. ASSUME FrameOK(c, op), c.loading PROVE FrameOK(c, {})
  BY <1>2, <1>3 DEF FrameOK
<1>4. NewPage(c) => FrameOK(c, {}) /\ c.loading
  BY DEF NewPage, FrameOK
<1> QED
  BY <1>1, <1>3, <1>4 DEF Turns

\* Handlers that call others.
LEMMA TurnsCompose ==
  ASSUME NEW b, NEW c, NEW d, Stays(c, d)
  PROVE  /\ Turns(b, c) => Turns(b, d)
         /\ Stays(b, c) => Stays(b, d)
<1>1. Stays(b, c) => Stays(b, d)
  BY DEF Stays, SamePage
<1>2. NewPage(c) => NewPage(d)
  BY DEF NewPage, Stays, SamePage, AskedOK
<1> QED
  BY <1>1, <1>2 DEF Turns

\* The focus leaves the page, or the page is hidden while the focus is elsewhere.
LEMMA LeavingStays ==
  ASSUME NEW b, IsBox(b)
  PROVE  /\ Stays(b, b)
         /\ \A to : to.at # "row" => Stays(b, MoveFocus(b, to)) /\ MoveFocus(b, to).focus = to
         /\ \A isActive \in BOOLEAN : /\ Stays(b, Activate(b, isActive))
                                     /\ Activate(b, isActive).focus = b.focus
         /\ b.focus.at # "row" => Stays(b, HideResults(b)) /\ Stays(b, CloseResultsWindow(b))
         /\ Stays(b, CloseSelectionWindow(b)) /\ Stays(b, OnSearchSelectShow(b))
         /\ Stays(b, OnSearchSelectHide(b))
<1>1. Stays(b, b)
  BY DEF Stays, SamePage
<1>2. \A to : to.at # "row" => Stays(b, MoveFocus(b, to)) /\ MoveFocus(b, to).focus = to
  BY MoveFocusStays DEF Stays, SamePage
<1>3. \A isActive \in BOOLEAN : Stays(b, Activate(b, isActive)) /\ Activate(b, isActive).focus = b.focus
  BY ActivateStays DEF Stays, SamePage
<1>4. ASSUME b.focus.at # "row" PROVE Stays(b, HideResults(b)) /\ Stays(b, CloseResultsWindow(b))
  <2>1. PICK c : c = HideResults(b)
    OBVIOUS
  <2>2. Stays(b, c) /\ IsBox(c)
    BY <1>4, <2>1 DEF HideResults, IsBox, Fields, Stays, SamePage
  <2>3. Stays(c, Activate(c, FALSE))
    BY <2>2, ActivateStays DEF Stays, SamePage
  <2> QED
    BY <2>1, <2>2, <2>3, TurnsCompose DEF CloseResultsWindow
<1>5. Stays(b, CloseSelectionWindow(b))
  BY DEF CloseSelectionWindow, IsBox, Fields, Stays, SamePage
<1>6. Stays(b, OnSearchSelectShow(b))
  BY DEF OnSearchSelectShow, IsBox, Fields, Stays, SamePage
<1>7. Stays(b, OnSearchSelectHide(b))
  BY DEF OnSearchSelectHide, IsBox, Fields, Stays, SamePage
<1> QED
  BY <1>1, <1>2, <1>3, <1>4, <1>5, <1>6, <1>7

\* The page of a text is one of the section's.
LEMMA PageIsThere ==
  ASSUME NEW f \in 1 .. Count, NEW q
  PROVE  PageOf(Sections[f], q) \in 0 .. Len(Sections[f])
<1>1. Count \in Nat /\ Len(Data) = Count /\ DOMAIN Data = 1 .. Count
  BY SearchBoxAssumption, ResultsAssumption DEF Count
<1>2. PICK section : section = Sections[f] /\ section # << >> /\ section \in Seq(Chars \ {SP})
  <2>1. Sections[f] # << >>
    BY <1>1, ResultsAssumption, Zenon
  <2>2. Sections[f] \in Seq(Chars \ {SP})
    BY SearchBoxAssumption DEF Count
  <2> QED
    BY <2>1, <2>2
<1>3. Len(section) \in Nat \ {0} /\ DOMAIN section = 1 .. Len(section)
  BY <1>2
<1>4. CASE q = EMPTY
  BY <1>2, <1>3, <1>4 DEF PageOf
<1>5. CASE q # EMPTY
  <2>1. PICK at : at = CHOOSE i \in DOMAIN section : section[i] = Head(q)
    OBVIOUS
  <2>2. (\E i \in DOMAIN section : section[i] = Head(q)) => at \in DOMAIN section
    BY <2>1, Zenon
  <2>3. PageOf(section, q) =
          IF \E i \in DOMAIN section : section[i] = Head(q) THEN at ELSE 0
    BY <1>5, <2>1 DEF PageOf
  <2> QED
    BY <1>2, <1>3, <2>2, <2>3
<1> QED
  BY <1>4, <1>5

\* A search asks for one of the pages, and takes the focus out of the frame.
LEMMA SearchTurns ==
  ASSUME NEW b, Base(b)
  PROVE  Turns(b, Search(b))
<1>1. PICK c : c = [b EXCEPT !.strays = IF b.keyTimeout THEN @ + 1 ELSE @, !.keyTimeout = FALSE]
  OBVIOUS
<1>2. IsBox(c) /\ Stays(b, c) /\ c.focus = b.focus
  BY <1>1 DEF Base, IsBox, Fields, Stays, SamePage
<1>3. PICK q : q = Trim(b.value)
  OBVIOUS
<1>4. PICK page : page = PageOf(Sections[b.searchIndex + 1], q)
  OBVIOUS
<1>5. PICK r : r = [c EXCEPT !.asked = Location(b.searchIndex, page, q), !.loading = TRUE,
                             !.focus = IF @.at = "row" THEN Elsewhere ELSE @,
                             !.results = TRUE,
                             !.close = IF b.results THEN @ ELSE TRUE,
                             !.last = q, !.missed = FALSE, !.kept = FALSE]
  OBVIOUS
<1>6. Search(b) = IF NoSection(b) THEN c ELSE r
  BY <1>1, <1>3, <1>4, <1>5 DEF Search
<1>7. ASSUME ~NoSection(b) PROVE NewPage(r)
  <2>1. /\ IsBox(r) /\ r.asked = Location(b.searchIndex, page, q) /\ r.loading
        /\ r.focus = IF c.focus.at = "row" THEN Elsewhere ELSE c.focus
    BY <1>2, <1>5 DEF IsBox, Fields
  <2>2. r.asked.query = q /\ r.asked.index = b.searchIndex /\ r.asked.page = page
    BY <2>1 DEF Location
  <2>3. q \in Seq(Chars)
    BY <1>3, TrimIsText DEF Base
  <2>4. b.searchIndex \in 0 .. Count - 1 /\ b.searchIndex + 1 \in 1 .. Count
    BY <1>7, SearchBoxAssumption DEF NoSection, Base, Count
  <2>5. page \in 0 .. Len(Sections[b.searchIndex + 1])
    BY <1>4, <2>4, PageIsThere
  <2>6. AskedOK(r)
    BY <2>2, <2>3, <2>4, <2>5 DEF AskedOK
  <2>7. r.focus.at # "row"
    BY <2>1 DEF Elsewhere, Place
  <2> QED
    BY <2>1, <2>6, <2>7 DEF NewPage
<1> QED
  BY <1>2, <1>6, <1>7 DEF Turns

\* A filter is selected.
LEMMA SelectTurns ==
  ASSUME NEW b, AnswersOK(b), NEW id \in 0 .. Count
  PROVE  Turns(b, OnSelectItem(b, id))
<1>1. PICK c : c = [b EXCEPT !.searchIndex = id]
  OBVIOUS
<1>2. Base(c) /\ Stays(b, c)
  BY <1>1 DEF AnswersOK, Base, IsBox, Fields, Stays, SamePage
<1>3. PICK r : r = [c EXCEPT !.kept = @ \/ b.results]
  OBVIOUS
<1>4. Stays(c, r)
  BY <1>2, <1>3 DEF Base, IsBox, Fields, Stays, SamePage
<1>5. OnSelectItem(b, id) = IF Searches(b) THEN Search(c) ELSE r
  BY <1>1, <1>3 DEF OnSelectItem
<1>6. Turns(c, Search(c))
  BY <1>2, SearchTurns
<1>7. Turns(b, Search(c))
  BY <1>2, <1>6 DEF Turns, Stays, SamePage
<1>8. Turns(b, r)
  BY <1>2, <1>4, TurnsCompose DEF Turns
<1> QED
  BY <1>5, <1>7, <1>8

\* The keys in the list of filters.
LEMMA SelectKeyTurns ==
  ASSUME NEW b, AnswersOK(b), NEW key
  PROVE  Turns(b, OnSearchSelectKey(b, key))
<1>1. b.searchIndex \in 0 .. Count /\ Count \in Nat /\ IsBox(b)
  BY SearchBoxAssumption DEF AnswersOK, Base, Count
<1>2. PICK chosen : chosen = OnSelectItem(b, b.searchIndex)
  OBVIOUS
<1>3. Turns(b, chosen) /\ IsBox(chosen)
  BY <1>1, <1>2, SelectTurns DEF Turns, Stays, SamePage, NewPage
<1>4. PICK closed : closed = CloseSelectionWindow(chosen)
  OBVIOUS
<1>5. Stays(chosen, closed) /\ IsBox(closed)
  BY <1>3, <1>4, LeavingStays DEF Stays, SamePage
<1>6. Stays(closed, MoveFocus(closed, Field))
  BY <1>5, LeavingStays DEF Field, Place
<1>7. Turns(b, MoveFocus(closed, Field))
  BY <1>3, <1>5, <1>6, TurnsCompose
<1>8. \/ OnSearchSelectKey(b, key) = b \/ OnSearchSelectKey(b, key) = chosen
      \/ b.searchIndex < Count /\ OnSearchSelectKey(b, key) = OnSelectItem(b, b.searchIndex + 1)
      \/ b.searchIndex > 0 /\ OnSearchSelectKey(b, key) = OnSelectItem(b, b.searchIndex - 1)
      \/ OnSearchSelectKey(b, key) = MoveFocus(closed, Field)
  BY <1>2, <1>4 DEF OnSearchSelectKey
<1>9. ASSUME b.searchIndex < Count PROVE Turns(b, OnSelectItem(b, b.searchIndex + 1))
  <2>1. b.searchIndex + 1 \in 0 .. Count
    BY <1>1, <1>9
  <2> QED
    BY <2>1, SelectTurns
<1>10. ASSUME b.searchIndex > 0 PROVE Turns(b, OnSelectItem(b, b.searchIndex - 1))
  <2>1. b.searchIndex - 1 \in 0 .. Count
    BY <1>1, <1>10
  <2> QED
    BY <2>1, SelectTurns
<1>11. Turns(b, b)
  BY <1>1, LeavingStays DEF Turns
<1> QED
  BY <1>3, <1>7, <1>8, <1>9, <1>10, <1>11

\* A key in the field.
LEMMA FieldChangeStays ==
  ASSUME NEW b, IsBox(b), b.focus = Field, NEW key
  PROVE  Stays(b, OnSearchFieldChange(b, key))
<1>1. PICK c : c = [b EXCEPT !.keyTimeout = FALSE, !.missed = @ \/ b.keyTimeout]
  OBVIOUS
<1>2. IsBox(c) /\ Stays(b, c) /\ c.focus = Field /\ Field.at = "field"
  BY <1>1 DEF IsBox, Fields, Stays, SamePage, Field, Place
<1>3. CASE key = "ShiftDown"
  <2>1. PICK d : d = OnSearchSelectShow(c)
    OBVIOUS
  <2>2. Stays(c, d) /\ IsBox(d)
    BY <1>2, <2>1, LeavingStays DEF Stays, SamePage
  <2>3. Stays(d, MoveFocus(d, Filter))
    BY <2>2, LeavingStays DEF Filter, Place
  <2>4. OnSearchFieldChange(b, key) = MoveFocus(d, Filter)
    BY <1>1, <1>3, <2>1 DEF OnSearchFieldChange
  <2> QED
    BY <1>2, <2>2, <2>3, <2>4, TurnsCompose
<1>4. CASE key = "Escape"
  <2>1. PICK d : d = MoveFocus(c, Elsewhere)
    OBVIOUS
  <2>2. Stays(c, d) /\ IsBox(d) /\ d.focus.at # "row"
    <3>1. Elsewhere.at # "row"
      BY DEF Elsewhere, Place
    <3>2. Stays(c, d) /\ d.focus = Elsewhere
      BY <1>2, <2>1, <3>1, LeavingStays
    <3> QED
      BY <3>1, <3>2 DEF Stays, SamePage
  <2>3. PICK e : e = [HideResults(d) EXCEPT !.last = EMPTY]
    OBVIOUS
  <2>4. Stays(d, e) /\ IsBox(e)
    BY <2>2, <2>3 DEF HideResults, IsBox, Fields, Stays, SamePage
  <2>5. Stays(e, Activate(e, FALSE))
    BY <2>4, LeavingStays
  <2>6. OnSearchFieldChange(b, key) = Activate(e, FALSE)
    BY <1>1, <1>4, <2>1, <2>3 DEF OnSearchFieldChange
  <2> QED
    BY <1>2, <2>2, <2>4, <2>5, <2>6, TurnsCompose
<1>5. CASE key \notin {"ShiftDown", "Escape"}
  <2>1. PICK seen : seen = [c EXCEPT !.missed = FALSE]
    OBVIOUS
  <2>2. Stays(c, seen) /\ IsBox(seen) /\ seen.focus.at # "row"
    BY <1>2, <2>1 DEF IsBox, Fields, Stays, SamePage
  <2>3. Stays(seen, [seen EXCEPT !.keyTimeout = TRUE])
    BY <2>2 DEF IsBox, Fields, Stays, SamePage
  <2>4. Stays(seen, [HideResults(seen) EXCEPT !.last = EMPTY, !.unsettled = c.strays > 0])
    <3>1. PICK hidden : hidden = HideResults(seen)
      OBVIOUS
    <3>2. IsBox(hidden) /\ Stays(seen, hidden)
      BY <2>2, <3>1 DEF HideResults, IsBox, Fields, Stays, SamePage
    <3>3. (c.strays > 0) \in BOOLEAN
      BY <1>2 DEF IsBox
    <3>4. Stays(hidden, [hidden EXCEPT !.last = EMPTY, !.unsettled = c.strays > 0])
      BY <3>2, <3>3 DEF IsBox, Fields, Stays, SamePage
    <3> QED
      BY <3>1, <3>2, <3>4, TurnsCompose
  <2>5. \/ CompareWithLast(c) = seen
        \/ CompareWithLast(c) = [seen EXCEPT !.keyTimeout = TRUE]
        \/ CompareWithLast(c) = [HideResults(seen) EXCEPT !.last = EMPTY, !.unsettled = c.strays > 0]
    BY <2>1 DEF CompareWithLast
  <2>6. Stays(c, CompareWithLast(c))
    BY <2>2, <2>3, <2>4, <2>5, TurnsCompose
  <2>7. OnSearchFieldChange(b, key) = CompareWithLast(c)
    BY <1>1, <1>5 DEF OnSearchFieldChange
  <2> QED
    BY <1>2, <2>6, <2>7, TurnsCompose
<1> QED
  BY <1>3, <1>4, <1>5

\* A timer fires.
LEMMA KeyTimerTurns ==
  ASSUME NEW b, Base(b), TimerRuns(b)
  PROVE  Turns(b, KeyTimerFires(b))
<1>1. PICK c : c = IF b.strays > 0 THEN [b EXCEPT !.strays = @ - 1]
                                   ELSE [b EXCEPT !.keyTimeout = FALSE]
  OBVIOUS
<1>2. Base(c) /\ Stays(b, c)
  <2>1. CASE b.strays > 0
    BY <1>1, <2>1 DEF Base, IsBox, Fields, Stays, SamePage
  <2>2. CASE ~(b.strays > 0)
    BY <1>1, <2>2 DEF Base, IsBox, Fields, Stays, SamePage
  <2> QED
    BY <2>1, <2>2
<1>3. Turns(c, Search(c)) /\ KeyTimerFires(b) = Search(c)
  BY <1>1, <1>2, SearchTurns DEF KeyTimerFires
<1> QED
  BY <1>2, <1>3 DEF Turns, Stays, SamePage

\* The focus is put on something displayed, if the page is.
LEMMA FocusInFrame ==
  ASSUME NEW b, NEW op, FrameOK(b, op), NEW r, NEW c, IsShown(b, op, r, c)
  PROVE  FrameOK(FocusIn(b, op, Child(r, c)), op)
<1>1. CASE ~b.results
  BY <1>1 DEF FocusIn, Displayed
<1>2. CASE b.results
  <2>1. PICK d : d = MoveFocus(b, Child(r, c))
    OBVIOUS
  <2>2. SamePage(b, d) /\ d.results = b.results /\ d.focus = Child(r, c)
    BY <2>1, MoveFocusStays DEF FrameOK, SamePage
  <2>3. Shown(d, op) = Shown(b, op) /\ Rows(d) = Rows(b) /\ AskedOK(d)
    BY <2>2, SamePageShown DEF FrameOK
  <2>4. Child(r, c) \in Shown(b, op)
    BY ShownPlaces
  <2>5. FrameOK(d, op)
    BY <1>2, <2>2, <2>3, <2>4 DEF FrameOK, SamePage
  <2> QED
    BY <1>2, <2>1, <2>5, FocusInMoves DEF FrameOK
<1> QED
  BY <1>1, <1>2

\* The next row, if there is one.
LEMMA NextRowFrame ==
  ASSUME NEW b, NEW op, FrameOK(b, op), NEW i \in Nat
  PROVE  FrameOK(NextRow(b, op, i), op)
<1>1. \A n \in Matches(b) : FrameOK(FocusIn(b, op, Child(n, 0)), op)
  BY FocusInFrame DEF IsShown
<1> QED
  BY <1>1, NextRowGoes DEF FrameOK

\* The keys in the results.
LEMMA NavFrame ==
  ASSUME NEW b, NEW op, FrameOK(b, op), b.focus.at = "row", NEW key
  PROVE  FrameOK(NavAt(b, op, key), op)
<1>1. IsBox(b)
  BY DEF FrameOK
<1>2. \A r, c : IsShown(b, op, r, c) => FrameOK(FocusIn(b, op, Child(r, c)), op)
  BY FocusInFrame
<1>3. PICK r, c : b.focus = Child(r, c) /\ IsShown(b, op, r, c)
  BY ShownPlaces DEF FrameOK
<1>4. /\ r \in Nat /\ c \in Nat /\ r \in Matches(b)
      /\ \A s \in Matches(b) : Rows(b)[s].entries \in Nat
  <2>1. Matches(b) \subseteq DOMAIN Rows(b) /\ Rows(b) \in Seq(RowRecord)
    BY MatchesAdjoin, RowsAreSorted DEF FrameOK
  <2>2. \A s \in Matches(b) : s \in Nat /\ Rows(b)[s] \in RowRecord
    BY <2>1
  <2>3. \A s \in Matches(b) : s \in Nat /\ Rows(b)[s].entries \in Nat
    BY <2>2 DEF RowRecord
  <2> QED
    BY <1>3, <2>3 DEF IsShown
<1>5. b.focus.row = r /\ b.focus.child = c
  BY <1>3 DEF Child, Place
<1>6. FrameOK(NextRow(b, op, r + 1), op)
  BY <1>4, NextRowFrame
<1>7. FrameOK(NavAt(b, op, "Down"), op)
  <2>1. CASE LastEntry(b, op, r, c)
    BY <1>3, <1>6, <2>1, DownGoes
  <2>2. CASE ~LastEntry(b, op, r, c)
    <3>1. IsShown(b, op, r, c + 1)
      BY <1>4, <2>2 DEF LastEntry, IsShown
    <3> QED
      BY <1>2, <1>3, <2>2, <3>1, DownGoes
  <2> QED
    BY <2>1, <2>2
<1>8. Stays(b, MoveFocus(b, Field))
  BY <1>1, LeavingStays DEF Field, Place
<1>9. FrameOK(NavAt(b, op, "Up"), op)
  <2>1. CASE c # 0
    <3>1. IsShown(b, op, r, c - 1)
      BY <1>3, <1>4, <2>1 DEF IsShown
    <3> QED
      BY <1>2, <1>3, <2>1, <3>1, UpGoes
  <2>2. CASE c = 0 /\ \A s \in Matches(b) : s >= r
    BY <1>3, <1>8, <2>2, UpGoes, TurnsFrame
  <2>3. CASE c = 0 /\ ~(\A s \in Matches(b) : s >= r)
    <3>1. /\ r - 1 \in Matches(b)
          /\ r - 1 \in op =>
               NavAt(b, op, "Up") = FocusIn(b, op, Child(r - 1, Rows(b)[r - 1].entries))
          /\ r - 1 \notin op => NavAt(b, op, "Up") = FocusIn(b, op, Child(r - 1, 0))
      BY <1>3, <2>3, UpGoes
    <3>2. IsShown(b, op, r - 1, 0)
      BY <3>1 DEF IsShown
    <3>3. r - 1 \in op => IsShown(b, op, r - 1, Rows(b)[r - 1].entries)
      BY <1>4, <3>1 DEF IsShown, FrameOK
    <3> QED
      BY <1>2, <3>1, <3>2, <3>3
  <2> QED
    BY <2>1, <2>2, <2>3
<1>10. FrameOK(LeaveResults(b), op)
  <2>1. PICK h : h = HideResults(b)
    OBVIOUS
  <2>2. SamePage(b, h)
    BY <1>1, <2>1 DEF HideResults, IsBox, Fields, SamePage
  <2>3. PICK d : d = Activate(h, FALSE)
    OBVIOUS
  <2>4. SamePage(b, d)
    BY <2>2, <2>3, ActivateStays DEF SamePage
  <2>5. Stays(b, MoveFocus(d, Field))
    <3>1. Field.at # "row"
      BY DEF Field, Place
    <3> QED
      BY <2>4, <3>1, MoveFocusStays DEF Stays, SamePage
  <2>6. LeaveResults(b) = MoveFocus(d, Field)
    BY <2>1, <2>3 DEF LeaveResults, CloseResultsWindow
  <2> QED
    BY <2>5, <2>6, TurnsFrame
<1>11. CASE key \notin {"Up", "Down"}
  <2>1. NavAt(b, op, key) = IF key = "Escape" THEN LeaveResults(b) ELSE b
    BY <1>11 DEF NavAt, Nav, NavChild
  <2> QED
    BY <1>10, <2>1
<1> QED
  BY <1>7, <1>9, <1>11

\* Rows are unfolded and folded with the focus on a row.
LEMMA FoldFrame ==
  ASSUME NEW b, NEW op, FrameOK(b, op), b.focus.at = "row" => b.focus.child = 0,
         NEW other, \A r \in other : r \in op \/ HasEntries(b, r)
  PROVE  FrameOK(b, other)
<1>1. \A r \in other : r \in DOMAIN Rows(b) /\ Rows(b)[r].entries > 0
  BY DEF FrameOK, HasEntries
<1>2. ASSUME b.focus.at = "row" PROVE b.focus \in Shown(b, other)
  <2>1. PICK r, c : b.focus = Child(r, c) /\ IsShown(b, op, r, c)
    BY <1>2, ShownPlaces DEF FrameOK
  <2>2. c = 0
    BY <1>2, <2>1 DEF Child, Place
  <2>3. IsShown(b, other, r, c)
    BY <2>1, <2>2 DEF IsShown
  <2> QED
    BY <2>1, <2>3, ShownPlaces
<1> QED
  BY <1>1, <1>2 DEF FrameOK

\* The focus enters the page.
LEMMA EnterStays ==
  ASSUME NEW b, IsBox(b), NEW to
  PROVE  /\ SamePage(b, MoveFocus(b, to)) /\ MoveFocus(b, to).focus = to
         /\ MoveFocus(b, to).results = b.results
  BY MoveFocusStays DEF SamePage

\* A click on something displayed.
LEMMA ClickFrame ==
  ASSUME FrameOK(box, open), box.results, NEW r, NEW c, IsShown(box, open, r, c),
         Click(box, Child(r, c))
  PROVE  FrameOK(box', open')
<1>1. PICK there : there = MoveFocus(box, Child(r, c))
  OBVIOUS
<1>2. Child(r, c).row = r /\ Child(r, c).child = c
  BY DEF Child, Place
<1>3. SamePage(box, there) /\ there.focus = Child(r, c) /\ there.results = box.results
  BY <1>1, EnterStays DEF FrameOK
<1>4. CASE c = 0 /\ HasEntries(box, r)
  <2>1. box' = there /\ open' = Toggle(open, r)
    BY <1>1, <1>2, <1>4 DEF Click
  <2>2. FrameOK(there, open)
    BY <1>1, FocusInFrame, FocusInMoves DEF FrameOK
  <2>3. \A s \in open' : s \in open \/ s = r
    BY <2>1 DEF Toggle
  <2>4. HasEntries(there, r)
    BY <1>3, <1>4, SamePageShown DEF HasEntries
  <2>5. there.focus.child = 0
    BY <1>2, <1>3, <1>4
  <2> QED
    BY <2>1, <2>2, <2>3, <2>4, <2>5, FoldFrame
<1>5. CASE ~(c = 0 /\ HasEntries(box, r))
  <2>1. PICK gone : gone = [there EXCEPT !.focus = Elsewhere]
    OBVIOUS
  <2>2. Elsewhere.at # "row"
    BY DEF Elsewhere, Place
  <2>3. IsBox(gone) /\ Stays(box, gone) /\ gone.focus.at # "row"
    BY <1>3, <2>1, <2>2 DEF IsBox, Fields, Stays, SamePage
  <2>4. Stays(box, CloseResultsWindow(gone))
    BY <2>3, LeavingStays, TurnsCompose
  <2>5. box' = CloseResultsWindow(gone) /\ open' = open
    BY <1>1, <1>2, <1>5, <2>1 DEF Click
  <2> QED
    BY <2>4, <2>5, TurnsFrame
<1> QED
  BY <1>4, <1>5

\* At first nothing is asked for.
LEMMA InitFrame == Init => FrameOK(box, open)
<1> SUFFICES ASSUME Init PROVE FrameOK(box, open)
  OBVIOUS
<1>1. box = FreshBox /\ open = {} /\ IsBox(box)
  BY InitSearchInv DEF Init, SearchInv, BoxOK
<1>2. box.asked = Blank /\ box.focus = Elsewhere
  BY <1>1 DEF FreshBox
<1>3. box.asked.query = EMPTY /\ box.asked.index = 0 /\ box.asked.page = 0
  BY <1>2 DEF Blank, Location
<1>4. Len(Sections[1]) \in Nat /\ Count \in Nat \ {0} /\ EMPTY \in Seq(Chars)
  BY SearchBoxAssumption DEF Count, EMPTY
<1>5. AskedOK(box)
  BY <1>3, <1>4 DEF AskedOK
<1>6. box.focus.at # "row"
  BY <1>2 DEF Elsewhere, Place
<1> QED
  BY <1>1, <1>5, <1>6 DEF FrameOK

\* Every step leaves the focus on something displayed.
LEMMA NextFrame ==
  AnswersOK(box) /\ FrameOK(box, open) /\ [Next]_vars => FrameOK(box, open)'
<1> SUFFICES ASSUME AnswersOK(box), FrameOK(box, open), [Next]_vars PROVE FrameOK(box', open')
  OBVIOUS
<1>1. ASSUME Stays(box, box'), open' = open PROVE FrameOK(box', open')
  BY <1>1, TurnsFrame
<1>2. ASSUME Turns(box, box'), ReplacePage PROVE FrameOK(box', open')
  BY <1>2, TurnsFrame DEF ReplacePage
<1>3. IsBox(box) /\ Field.at # "row" /\ Filter.at # "row" /\ Elsewhere.at # "row"
  BY DEF FrameOK, Field, Filter, Elsewhere, Place
<1>4. ASSUME NEW q, Edit(q), box.focus = Field PROVE Stays(box, box')
  BY <1>3, <1>4 DEF Edit, IsBox, Fields, Stays, SamePage
<1>5. ASSUME NEW key, KeyDown(key) PROVE FrameOK(box', open')
  <2>1. CASE box.focus = Field /\ key = "Char"
    <3>1. (\E q \in Queries : Edit(q)) /\ open' = open
      BY <1>5, <2>1, PlacesDiffer DEF KeyDown, InFrame
    <3> QED
      BY <1>1, <1>4, <2>1, <3>1
  <2>2. CASE box.focus = Filter
    <3>1. box' = OnSearchSelectKey(box, KeyCode(key)) /\ ReplacePage
      BY <1>5, <2>2, PlacesDiffer DEF KeyDown, InFrame
    <3> QED
      BY <1>2, <3>1, SelectKeyTurns
  <2>3. CASE InFrame /\ key = "Enter"
    <3>1. Click(box, box.focus)
      BY <1>5, <2>3, PlacesDiffer DEF KeyDown, InFrame
    <3>2. box.results /\ \E r, c : box.focus = Child(r, c) /\ IsShown(box, open, r, c)
      BY <2>3, ShownPlaces DEF FrameOK, InFrame
    <3> QED
      BY <3>1, <3>2, ClickFrame
  <2>4. CASE InFrame /\ key # "Enter"
    <3>1. box' = NavAt(box, open, key) /\ open' = Unfold(box, open, key)
      BY <1>5, <2>4, PlacesDiffer DEF KeyDown, InFrame
    <3>2. FrameOK(box', open)
      BY <2>4, <3>1, NavFrame DEF InFrame
    <3>3. CASE open' = open
      BY <3>2, <3>3
    <3>4. CASE open' # open
      <4>1. /\ key \in {"Left", "Right"} /\ box.focus.child = 0
            /\ \A r \in open' : r \in open \/ HasEntries(box, r)
        BY <3>1, <3>4 DEF Unfold
      <4>2. box' = box
        BY <3>1, <4>1 DEF NavAt, Nav
      <4> QED
        BY <4>1, <4>2, FoldFrame
    <3> QED
      BY <3>3, <3>4
  <2>5. CASE box' = box /\ open' = open
    BY <2>5
  <2> QED
    BY <1>5, <2>1, <2>2, <2>3, <2>4, <2>5 DEF KeyDown
<1>6. CASE KeyUp
  <2>1. PICK b : b = OnSearchFieldChange(box, held)
    OBVIOUS
  <2>2. box.focus = Field => FrameOK(b, open)
    BY <1>3, <2>1, FieldChangeStays, TurnsFrame
  <2>3. box.focus = Field => FrameOK(TakeFocus(b, open), open)
    BY <2>2, NextRowFrame DEF TakeFocus
  <2>4. /\ open' = open
        /\ box' = box \/ (box.focus = Field /\ (box' = b \/ box' = TakeFocus(b, open)))
    BY <1>6, <2>1 DEF KeyUp
  <2> QED
    BY <2>2, <2>3, <2>4
<1>7. CASE ClickPanel
  <2> SUFFICES Turns(box, box')
    BY <1>2, <1>7 DEF ClickPanel
  <2>1. CASE FocusField \/ Leave
    BY <1>3, <2>1, LeavingStays DEF FocusField, Leave, Turns
  <2>2. CASE Paste
    BY <1>4, <2>2 DEF Paste, Turns
  <2>3. CASE CloseLink
    <3>1. PICK b : b = MoveFocus(box, Elsewhere)
      OBVIOUS
    <3>2. Stays(box, b) /\ b.focus = Elsewhere /\ IsBox(b)
      BY <1>3, <3>1, LeavingStays DEF Stays, SamePage
    <3>3. Stays(b, CloseResultsWindow(b))
      BY <1>3, <3>2, LeavingStays
    <3> QED
      BY <2>3, <3>1, <3>2, <3>3, TurnsCompose DEF CloseLink, Turns
  <2>4. CASE SelectItem
    <3>1. PICK id \in 0 .. Count - 1 : box' = OnSelectItem(MoveFocus(box, Filter), id)
      BY <2>4 DEF SelectItem
    <3>2. id \in 0 .. Count
      BY <3>1, SearchBoxAssumption DEF Count
    <3>3. PICK b : b = MoveFocus(box, Filter)
      OBVIOUS
    <3>4. AnswersOK(b) /\ Stays(box, b) /\ b.focus = Filter
      BY <1>3, <3>3, MoveFocusAnswers, LeavingStays
    <3>5. Turns(b, box')
      BY <3>1, <3>2, <3>3, <3>4, SelectTurns
    <3> QED
      BY <1>3, <3>4, <3>5 DEF Turns, Stays, SamePage
  <2> QED
    BY <1>7, <2>1, <2>2, <2>3, <2>4 DEF ClickPanel
<1>8. CASE ClickResult
  <2>1. PICK r, c : /\ r \in DOMAIN Rows(box) /\ c \in 0 .. Rows(box)[r].entries
                    /\ Displayed(box, open, Child(r, c)) /\ Click(box, Child(r, c))
    BY <1>8 DEF ClickResult
  <2>2. box.results /\ r \in Matches(box) /\ (c > 0 => r \in open)
    BY <2>1 DEF Displayed, Child, Place
  <2>3. Rows(box)[r].entries \in Nat
    <3>1. Rows(box)[r] \in RowRecord
      BY <2>1, RowsAreSorted DEF FrameOK
    <3> QED
      BY <3>1 DEF RowRecord
  <2>4. IsShown(box, open, r, c)
    BY <2>1, <2>2, <2>3 DEF IsShown
  <2> QED
    BY <2>1, <2>2, <2>4, ClickFrame
<1>9. CASE \/ \E place \in {"icon", "list"} : MouseOver(place)
           \/ MouseOut \/ HideTimer
  <2>1. \/ box' = [box EXCEPT !.select = TRUE, !.hideTimeout = FALSE]
        \/ box' = [box EXCEPT !.hideTimeout = TRUE]
        \/ box' = [[box EXCEPT !.hideTimeout = FALSE] EXCEPT !.select = FALSE]
    BY <1>9 DEF MouseOver, MouseOut, HideTimer, OnSearchSelectShow, OnSearchSelectHide,
                CloseSelectionWindow
  <2>2. Stays(box, box') /\ open' = open
    BY <1>3, <1>9, <2>1 DEF IsBox, Fields, Stays, SamePage, MouseOver, MouseOut, HideTimer
  <2> QED
    BY <1>1, <2>2
<1>10. CASE KeyTimer
  BY <1>2, <1>10, KeyTimerTurns DEF KeyTimer, AnswersOK
<1>11. CASE Load
  <2>1. box.loading /\ box' = [box EXCEPT !.loading = FALSE] /\ open' = open
    BY <1>11 DEF Load
  <2>2. Rows(box) = << >> /\ Matches(box) = {}
    BY <2>1 DEF Rows, Matches
  <2>3. \A r, c : ~IsShown(box, open, r, c)
    BY <2>2 DEF IsShown
  <2>4. open = {} /\ box.focus.at # "row"
    BY <2>2, <2>3, ShownPlaces DEF FrameOK
  <2>5. IsBox(box') /\ box'.asked = box.asked /\ box'.focus = box.focus
    BY <1>3, <2>1 DEF IsBox, Fields
  <2> QED
    BY <2>1, <2>4, <2>5 DEF FrameOK, AskedOK
<1>12. CASE Resize
  <2>1. PICK b : (b = box \/ b = MoveFocus(box, Elsewhere)) /\ box' = ResetState(b)
    BY <1>12 DEF Resize
  <2>2. Stays(box, b) /\ IsBox(b)
    BY <1>3, <2>1, LeavingStays DEF Stays, SamePage
  <2>3. Stays(b, box')
    BY <1>3, <2>1, <2>2 DEF ResetState, IsBox, Fields, Stays, SamePage
  <2>4. open' = open
    BY <1>12 DEF Resize
  <2> QED
    BY <1>1, <2>2, <2>3, <2>4, TurnsCompose
<1>13. CASE UNCHANGED vars
  BY <1>13 DEF vars
<1> QED
  BY <1>5, <1>6, <1>7, <1>8, <1>9, <1>10, <1>11, <1>12, <1>13 DEF Next

-----------------------------------------------------------------------------
(* Theorems *)

\* However the results are closed, what was searched for is forgotten with them.
THEOREM HiddenAreForgotten == Spec => []HiddenResultsForgotten
<1>1. SearchInv => HiddenResultsForgotten
  BY DEF SearchInv, BoxOK, Forgotten, HiddenResultsForgotten
<1> QED
  BY <1>1, SearchInvAlways, PTL

\* Whatever order the events come in, the panel is active while it is in use and
\* reset afterwards, unless it was reset over a pending search or replaced.
THEOREM PanelIsReset == Spec => []PanelReset
<1>1. SearchInv => PanelReset
  BY DEF SearchInv, BoxOK, Reset, InUse, PanelReset
<1> QED
  BY <1>1, SearchInvAlways, PTL

\* The list of filters stays while the mouse is over it.
THEOREM ListStaysUnderPointer == Spec => []PointerKeepsList
<1>1. SearchInv => PointerKeepsList
  BY DEF SearchInv
<1> QED
  BY <1>1, SearchInvAlways, PTL

\* A step that displays results is taken while the field has the focus, unless the
\* panel was reset over a pending search or replaced.
THEOREM ResultsOnDemand == Spec => OpensOnlyOnDemand
<1>1. SearchInv /\ [Next]_vars =>
        [~box.results /\ box'.results => box.focus = Field \/ box.unsettled]_vars
  BY NextSearchInv DEF OnDemand, Opens
<1> QED
  BY <1>1, SearchInvAlways, PTL DEF Spec, OpensOnlyOnDemand

\* Once the text has been compared and no timer runs, the results answer the text
\* under the filter chosen.
THEOREM ResultsAnswer == Spec => []ResultsAnswerField
<1>1. Spec => []AnswersOK(box)
  BY InitAnswers, NextAnswers, SearchInvAlways, PTL DEF Spec
<1>2. AnswersOK(box) => ResultsAnswerField
  <2>1. Count \in Nat
    BY SearchBoxAssumption DEF Count
  <2> QED
    BY <2>1 DEF AnswersOK, Base, UnderFilter, Answered, ResultsAnswerField
<1> QED
  BY <1>1, <1>2, PTL

\* Down and Up walk through what is displayed, from any place that is.
THEOREM WalkIsInOrder == Spec => []WalkFollowsOrder
<1>1. Spec => []FrameOK(box, open)
  BY InitFrame, NextFrame, InitAnswers, NextAnswers, SearchInvAlways, PTL DEF Spec
<1>2. FrameOK(box, open) => WalkFollowsOrder
  BY DownIsNext, UpIsBefore
     DEF FrameOK, WalkFollowsOrder, InFrame, Beneath, Over, Down, Up
<1> QED
  BY <1>1, <1>2, PTL
=============================================================================
