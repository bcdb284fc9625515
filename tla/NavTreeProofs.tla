---------------------------- MODULE NavTreeProofs ----------------------------
(***************************************************************************)
(* Theorems about NavTree, for any tree, any pages and any bounds.         *)
(***************************************************************************)
EXTENDS NavTree, SequenceTheorems, WellFoundedInduction, TLAPS

-----------------------------------------------------------------------------
(* The tree *)

Fields == {"data", "visited", "expanded", "selected", "made", "breadcrumbs", "index",
           "scripts", "target", "closed", "overlapped"}

\* The items made are those of the nodes visited, one each.
OneItemEach(s) ==
  /\ s.made \in [Nodes -> Nat]
  /\ \A q \in Nodes : s.made[q] = IF \E n \in s.visited : q \in Children(n) THEN 1 ELSE 0

\* The callbacks that wait are of the kinds that there are.
Kinds == {"expand", "show", "child", "index"}
KnownScripts(s) ==
  \E S : s.scripts \in Seq(S) /\ \A script \in S : script.kind \in Kinds

TreeOK(s) == DOMAIN s = Fields /\ OneItemEach(s) /\ KnownScripts(s)

\* A node has one parent.
LEMMA OneParent ==
  \A m, n, q : q \in Children(m) /\ q \in Children(n) => m = n
  BY DEF Children, ChildrenOf

\* What a handler does to the other fields is of no consequence.
LEMMA OtherFields ==
  ASSUME NEW s, TreeOK(s), NEW r, DOMAIN r = Fields,
         r.made = s.made, r.visited = s.visited, r.scripts = s.scripts
  PROVE  TreeOK(r)
  BY DEF TreeOK, OneItemEach, KnownScripts

\* Items are made for the nodes that have not been visited, and these become visited.
LEMMA getNodesKeeps ==
  ASSUME NEW s, TreeOK(s), NEW S
  PROVE  TreeOK(getNodes(s, S))
<1> DEFINE r == getNodes(s, S)
           New(q) == \E n \in S \ s.visited : q \in Children(n)
           Old(q) == \E n \in s.visited : q \in Children(n)
<1>1. /\ DOMAIN r = Fields /\ r.visited = s.visited \cup S /\ r.scripts = s.scripts
      /\ r.made = [q \in Nodes |-> IF New(q) THEN s.made[q] + 1 ELSE s.made[q]]
  BY DEF getNodes, TreeOK, Fields
<1>2. s.made \in [Nodes -> Nat] /\ \A q \in Nodes : s.made[q] = IF Old(q) THEN 1 ELSE 0
  BY DEF TreeOK, OneItemEach
<1>3. \A q : ~(New(q) /\ Old(q))
  BY OneParent
<1>4. \A q : (\E n \in s.visited \cup S : q \in Children(n)) <=> New(q) \/ Old(q)
  OBVIOUS
<1> HIDE DEF r, New, Old
<1>5. r.made \in [Nodes -> Nat]
  BY <1>1, <1>2
<1>6. \A q \in Nodes : r.made[q] = IF New(q) \/ Old(q) THEN 1 ELSE 0
  BY <1>1, <1>2, <1>3
<1>7. OneItemEach(r)
  BY <1>1, <1>4, <1>5, <1>6 DEF OneItemEach
<1>8. KnownScripts(r)
  BY <1>1 DEF TreeOK, KnownScripts
<1> QED
  BY <1>1, <1>7, <1>8 DEF TreeOK, r

\* The handlers keep the tree in order, each one because the ones it calls do.
LEMMA OpenKeeps ==
  ASSUME NEW s, TreeOK(s), NEW S
  PROVE  TreeOK(Open(s, S))
<1>1. PICK r : r = getNodes(s, S)
  OBVIOUS
<1>2. TreeOK(r) /\ DOMAIN r = Fields
  BY <1>1, getNodesKeeps DEF TreeOK
<1>3. Open(s, S) = [r EXCEPT !.expanded = @ \cup S]
  BY <1>1 DEF Open
<1> QED
  BY <1>2, <1>3, OtherFields DEF Fields

\* One more callback waits.
LEMMA getScriptKeeps ==
  ASSUME NEW s, TreeOK(s), NEW script, script.kind \in Kinds
  PROVE  TreeOK(getScript(s, script))
<1>1. PICK S : s.scripts \in Seq(S) /\ \A x \in S : x.kind \in Kinds
  BY DEF TreeOK, KnownScripts
<1> DEFINE r == getScript(s, script)
           T == S \cup {script}
<1>2. DOMAIN r = Fields /\ r.made = s.made /\ r.visited = s.visited
      /\ r.scripts = Append(s.scripts, script)
  BY DEF getScript, TreeOK, Fields
<1>3. s.scripts \in Seq(T) /\ script \in T /\ \A x \in T : x.kind \in Kinds
  BY <1>1, SeqMonotonic
<1> HIDE DEF r, T
<1>4. r.scripts \in Seq(T)
  BY <1>2, <1>3
<1> QED
  BY <1>2, <1>3, <1>4 DEF TreeOK, OneItemEach, KnownScripts, r

\* The arrow of an item.
LEMMA expandNodeKeeps ==
  ASSUME NEW s, TreeOK(s), NEW n
  PROVE  TreeOK(expandNode(s, n))
<1>1. Script("expand", n, n, 0, Url(NONE, NONE)).kind \in Kinds
  BY DEF Script, Kinds
<1> QED
  BY <1>1, getScriptKeeps, OpenKeeps DEF expandNode

\* An item is marked.
LEMMA selectKeeps ==
  ASSUME NEW s, TreeOK(s), NEW anchor, NEW n
  PROVE  TreeOK(selectAndHighlight(s, anchor, n))
  BY OtherFields DEF selectAndHighlight, TreeOK, Fields

\* Wherever showNode stops.
LEMMA showNodeKeeps ==
  ASSUME NEW s, TreeOK(s), NEW node, NEW position, NEW url
  PROVE  TreeOK(showNode(s, node, position, url))
<1>1. \A x, y, k : Script("show", x, y, k, url).kind \in Kinds
                   /\ Script("child", x, y, k, url).kind \in Kinds
  BY DEF Script, Kinds
<1>2. ASSUME NEW S, NEW x, NEW y, NEW k
      PROVE  LET shown == Open(s, S)
             IN  /\ TreeOK(shown) /\ TreeOK(selectAndHighlight(shown, url[2], x))
                 /\ TreeOK(getScript(shown, Script("show", x, y, k, url)))
                 /\ TreeOK(getScript(shown, Script("child", x, y, k, url)))
                 /\ TreeOK(selectAndHighlight(expandNode(shown, x), url[2], y))
  <2>1. PICK r : r = Open(s, S)
    OBVIOUS
  <2>2. TreeOK(r)
    BY <2>1, OpenKeeps
  <2> QED
    BY <1>1, <2>1, <2>2, selectKeeps, getScriptKeeps, expandNodeKeeps
<1> DEFINE crumbs == s.breadcrumbs
           At(k) == node \o SubSeq(crumbs, position + 1, k)
           Stops(k) == Children(At(k)) = {} \/ Unloaded(s, At(k)) \/ k + 1 >= Len(crumbs)
           stop == CHOOSE k \in position .. position + Len(crumbs) :
                     Stops(k) /\ \A j \in position .. k - 1 : ~Stops(j)
           here == At(stop)
           opened == {At(k) : k \in {k \in position .. stop :
                                       Children(At(k)) # {} /\ ~Unloaded(s, At(k))}}
           shown == Open(s, opened)
           n == IF stop < Len(crumbs) THEN Append(here, crumbs[stop + 1]) ELSE << >>
<1>3. showNode(s, node, position, url) =
        IF Children(here) = {} THEN selectAndHighlight(shown, url[2], {})
        ELSE IF Unloaded(s, here) THEN getScript(shown, Script("show", here, here, stop, url))
        ELSE IF n \notin Children(here) THEN shown
        ELSE IF Unloaded(s, n) THEN getScript(shown, Script("child", here, n, stop, url))
        ELSE selectAndHighlight(IF page \in IndexPages THEN expandNode(shown, n) ELSE shown,
                                url[2], {n})
  BY DEF showNode
<1> HIDE DEF here, opened, n, stop
<1>4. /\ TreeOK(shown) /\ TreeOK(selectAndHighlight(shown, url[2], {}))
      /\ TreeOK(selectAndHighlight(shown, url[2], {n}))
      /\ TreeOK(getScript(shown, Script("show", here, here, stop, url)))
      /\ TreeOK(getScript(shown, Script("child", here, n, stop, url)))
      /\ TreeOK(selectAndHighlight(expandNode(shown, n), url[2], {n}))
  BY <1>2
<1> QED
  BY <1>3, <1>4

\* A navigation, at once or when the index has been loaded.
LEMMA navToKeeps ==
  ASSUME NEW s, TreeOK(s), NEW url
  PROVE  TreeOK(navTo(s, url)) /\ TreeOK(gotoNode(s, url))
<1>1. ASSUME NEW r, TreeOK(r), NEW aim
      PROVE  TreeOK(gotoNode(r, aim))
  <2>1. PICK u : u = [r EXCEPT !.breadcrumbs = TargetOf(aim)]
    OBVIOUS
  <2>2. DOMAIN r = Fields
    BY <1>1 DEF TreeOK
  <2>3. TreeOK(u)
    BY <1>1, <2>1, <2>2, OtherFields DEF Fields
  <2> QED
    BY <2>1, <2>3, showNodeKeeps DEF gotoNode
<1>2. DOMAIN s = Fields
  BY DEF TreeOK
<1> DEFINE asked == [s EXCEPT !.target = TargetOf(Aim(url)), !.closed = FALSE,
                              !.overlapped = @ \/ \E i \in DOMAIN s.scripts : Navigates(s.scripts[i])]
<1>3. TreeOK(asked)
  BY <1>2, OtherFields DEF Fields
<1>4. navTo(s, url) = IF s.index THEN gotoNode(asked, Aim(url))
                      ELSE getScript(asked, Script("index", << >>, << >>, 0, Aim(url)))
  BY DEF navTo
<1> HIDE DEF asked
<1>5. Script("index", << >>, << >>, 0, Aim(url)).kind \in Kinds
  BY DEF Script, Kinds
<1> QED
  BY <1>1, <1>3, <1>4, <1>5, getScriptKeeps

\* No item is marked.
LEMMA DeselectKeeps ==
  ASSUME NEW s, TreeOK(s)
  PROVE  TreeOK(Deselect(s))
  BY OtherFields DEF Deselect, TreeOK, Fields

\* The callback of a script of any kind.
LEMMA CallbackKeeps ==
  ASSUME NEW s, TreeOK(s), NEW script, script.kind \in Kinds
  PROVE  TreeOK(Callback(s, script))
<1>1. DOMAIN s = Fields
  BY DEF TreeOK
<1>2. CASE script.kind = "expand"
  <2>1. PICK r : r = [s EXCEPT !.data = @ \cup {script.node}]
    OBVIOUS
  <2>2. TreeOK(r)
    BY <1>1, <2>1, OtherFields DEF Fields
  <2> QED
    BY <1>2, <2>1, <2>2, expandNodeKeeps DEF Callback
<1>3. CASE script.kind = "show"
  <2>1. PICK r : r = [s EXCEPT !.data = @ \cup {script.node}]
    OBVIOUS
  <2>2. TreeOK(r)
    BY <1>1, <2>1, OtherFields DEF Fields
  <2> QED
    BY <1>3, <2>1, <2>2, showNodeKeeps DEF Callback
<1>4. CASE script.kind = "child"
  <2>1. PICK r : r = [s EXCEPT !.data = @ \cup {script.child}, !.expanded = @ \ {script.node}]
    OBVIOUS
  <2>2. TreeOK(r)
    BY <1>1, <2>1, OtherFields DEF Fields
  <2> QED
    BY <1>4, <2>1, <2>2, showNodeKeeps DEF Callback
<1>5. CASE script.kind = "index"
  <2>1. PICK r : r = [s EXCEPT !.index = TRUE]
    OBVIOUS
  <2>2. TreeOK(r)
    BY <1>1, <2>1, OtherFields DEF Fields
  <2> QED
    BY <1>5, <2>1, <2>2, navToKeeps DEF Callback
<1> QED
  BY <1>2, <1>3, <1>4, <1>5 DEF Kinds

\* The tree of a page that has just been entered.
LEMMA FreshTreeOK == TreeOK(FreshTree)
<1>1. FreshTree.scripts \in Seq({}) /\ FreshTree.visited = {}
      /\ FreshTree.made = [q \in Nodes |-> 0]
  BY DEF FreshTree
<1>2. DOMAIN FreshTree = Fields
  BY DEF FreshTree, Fields
<1> QED
  BY <1>1, <1>2 DEF TreeOK, OneItemEach, KnownScripts

-----------------------------------------------------------------------------
(* The page *)

\* The anchors that the page can be at are its own.
Anchors == AnchorsOf(page) \cup {NONE}
AnchorsKnown == page \in Pages /\ hash \in Anchors /\ animations \in Seq(Anchors)

SyncOK == sync \in BOOLEAN /\ SyncIsStored
PageInv == TreeOK(t) /\ StartsOnce /\ AnchorsKnown /\ SyncOK

\* The first page.
LEMMA InitPageInv == Init => PageInv
<1> SUFFICES ASSUME Init PROVE PageInv
  OBVIOUS
<1>1. TreeOK(t)
  BY FreshTreeOK DEF Init
<1>2. StartsOnce /\ SyncOK
  BY DEF Init, StartsOnce, SyncOK, SyncIsStored
<1>3. AnchorsKnown
  BY DEF Init, AnchorsKnown, Anchors
<1> QED
  BY <1>1, <1>2, <1>3 DEF PageInv

\* The page shows itself.
LEMMA StartKeeps ==
  ASSUME TreeOK(t), NEW anchor, Start(anchor)
  PROVE  TreeOK(t')
<1>1. PICK r : r = navTo(t, Url(page, anchor))
  OBVIOUS
<1>2. TreeOK(r) /\ DOMAIN r = Fields
  BY <1>1, navToKeeps DEF TreeOK
<1>3. t' = [r EXCEPT !.overlapped = @ \/ t.target # << >>]
  BY <1>1 DEF Start
<1> QED
  BY <1>2, <1>3, OtherFields DEF Fields

\* A script has been loaded, and its callback is one of those that waited.
LEMMA ScriptLoadedKeeps ==
  ASSUME TreeOK(t), ScriptLoaded
  PROVE  TreeOK(t')
<1>1. PICK S : t.scripts \in Seq(S) /\ \A script \in S : script.kind \in Kinds
  BY DEF TreeOK, KnownScripts
<1>2. PICK i \in DOMAIN t.scripts :
        t' = Callback([t EXCEPT !.scripts = SubSeq(@, 1, i - 1) \o SubSeq(@, i + 1, Len(@))],
                      t.scripts[i])
  BY DEF ScriptLoaded
<1>3. PICK others : others = SubSeq(t.scripts, 1, i - 1) \o SubSeq(t.scripts, i + 1, Len(t.scripts))
  OBVIOUS
<1>4. PICK q : q = t.scripts
  OBVIOUS
<1>5. q \in Seq(S) /\ i \in 1 .. Len(q)
  BY <1>1, <1>2, <1>4
<1>6. others \in Seq(S) /\ q[i] \in S
  BY <1>3, <1>4, <1>5
<1>7. PICK r : r = [t EXCEPT !.scripts = others]
  OBVIOUS
<1>8. DOMAIN r = Fields /\ r.made = t.made /\ r.visited = t.visited /\ r.scripts = others
  BY <1>7 DEF TreeOK, Fields
<1>9. TreeOK(r)
  BY <1>1, <1>6, <1>8 DEF TreeOK, OneItemEach, KnownScripts
<1>10. t' = Callback(r, q[i])
  BY <1>2, <1>3, <1>4, <1>7
<1> QED
  BY <1>1, <1>6, <1>9, <1>10, CallbackKeeps

\* Clicks on the arrow and on the item.
LEMMA ClickKeeps ==
  ASSUME TreeOK(t), NEW n, ClickArrow(n) \/ ClickItem(n)
  PROVE  TreeOK(t')
<1>1. DOMAIN t = Fields
  BY DEF TreeOK
<1>2. CASE ClickArrow(n)
  <2>1. TreeOK([t EXCEPT !.expanded = @ \ {n}, !.closed = TRUE])
    BY <1>1, OtherFields DEF Fields
  <2> QED
    BY <1>2, <2>1, expandNodeKeeps DEF ClickArrow
<1>3. CASE ClickItem(n)
  <2>1. PICK d : d = Deselect(t)
    OBVIOUS
  <2>2. TreeOK(d) /\ DOMAIN d = Fields
    BY <2>1, DeselectKeeps DEF TreeOK
  <2>3. PICK r : r = IF n \in t.selected
                     THEN [t EXCEPT !.overlapped = @ \/ (Navigating /\ n # t.target)]
                     ELSE [d EXCEPT !.selected = {n}]
    OBVIOUS
  <2>4. TreeOK(r) /\ DOMAIN r = Fields
    BY <1>1, <2>2, <2>3, OtherFields DEF Fields
  <2>5. t' = [r EXCEPT !.target = n, !.closed = FALSE]
    BY <1>3, <2>1, <2>3 DEF ClickItem
  <2> QED
    BY <2>4, <2>5, OtherFields DEF Fields
<1> QED
  BY <1>2, <1>3

\* The handler of hashchange, on each of its ways.
LEMMA HashChangeKeeps ==
  ASSUME TreeOK(t), HashChange
  PROVE  TreeOK(t')
<1>1. CASE t' = t
  BY <1>1
<1>2. CASE t' = [navTo(t, Url(page, hash)) EXCEPT
                   !.overlapped = @ \/ ~AllLinked(t, TargetOf(Aim(Url(page, hash))))]
  <2>1. PICK r : r = navTo(t, Url(page, hash))
    OBVIOUS
  <2>2. TreeOK(r) /\ DOMAIN r = Fields
    BY <2>1, navToKeeps DEF TreeOK
  <2>3. t' = [r EXCEPT !.overlapped = @ \/ ~AllLinked(t, TargetOf(Aim(Url(page, hash))))]
    BY <1>2, <2>1
  <2> QED
    BY <2>2, <2>3, OtherFields DEF Fields
<1>3. CASE t' = navTo(Deselect(t), Url(page, hash))
  BY <1>3, DeselectKeeps, navToKeeps
<1> QED
  BY <1>1, <1>2, <1>3 DEF HashChange

\* Every step keeps the invariant.
LEMMA NextPageInv == PageInv /\ [Next]_vars => PageInv'
<1> SUFFICES ASSUME PageInv, [Next]_vars PROVE PageInv'
  OBVIOUS
<1> USE DEF PageInv
\* A step that stays on the page and leaves the anchors alone.
<1>1. ASSUME UNCHANGED <<page, hash, animations>> PROVE AnchorsKnown'
  BY <1>1 DEF AnchorsKnown, Anchors
<1>2. ASSUME UNCHANGED <<load, ready, starts>> PROVE StartsOnce'
  BY <1>2 DEF StartsOnce
<1>3. ASSUME UNCHANGED <<sync, navpath, ready>> PROVE SyncOK'
  BY <1>3 DEF SyncOK, SyncIsStored
<1>4. ASSUME NEW p \in Pages, NEW anchor \in AnchorsOf(p) \cup {NONE}, EnterPage(p, anchor)
      PROVE  PageInv'
  <2>1. TreeOK(t')
    BY <1>4, FreshTreeOK DEF EnterPage
  <2>2. StartsOnce' /\ SyncOK'
    BY <1>4 DEF EnterPage, StartsOnce, SyncOK, SyncIsStored
  <2>3. AnchorsKnown'
    BY <1>4 DEF EnterPage, AnchorsKnown, Anchors
  <2> QED
    BY <2>1, <2>2, <2>3
<1>5. CASE LoadEvent
  <2>1. TreeOK(t')
    BY <1>5, StartKeeps DEF LoadEvent
  <2>2. StartsOnce'
    BY <1>5 DEF LoadEvent, Start, StartsOnce
  <2> QED
    BY <1>1, <1>3, <1>5, <2>1, <2>2 DEF LoadEvent, hashVars, syncVars
<1>6. CASE initNavTree
  <2>1. TreeOK(t')
    BY <1>6, StartKeeps DEF initNavTree
  <2>2. StartsOnce'
    BY <1>6 DEF initNavTree, Start, StartsOnce
  <2>3. SyncOK'
    BY <1>6 DEF initNavTree, SyncOK, SyncIsStored
  <2> QED
    BY <1>1, <1>6, <2>1, <2>2, <2>3 DEF initNavTree, hashVars
<1>7. CASE ScriptLoaded
  <2>1. TreeOK(t')
    BY <1>7, ScriptLoadedKeeps
  <2> QED
    BY <1>1, <1>2, <1>3, <1>7, <2>1 DEF ScriptLoaded, pageVars, hashVars, syncVars
<1>8. CASE \E n \in Nodes \ {<< >>} : ClickArrow(n)
  <2>1. TreeOK(t')
    BY <1>8, ClickKeeps
  <2> QED
    BY <1>1, <1>2, <1>3, <1>8, <2>1 DEF ClickArrow, pageVars, hashVars, syncVars
<1>9. CASE \E n \in Nodes \ {<< >>} : ClickItem(n)
  <2>1. PICK n \in Nodes \ {<< >>} : ClickItem(n)
    BY <1>9
  <2>2. TreeOK(t')
    BY <2>1, ClickKeeps
  <2>3. Link[n][2] \in Anchors
    BY <2>1 DEF ClickItem, Anchors, AnchorsOf
  <2>4. AnchorsKnown'
    BY <2>1, <2>3 DEF ClickItem, AnchorsKnown, Anchors, pageVars
  <2>5. SyncOK'
    BY <2>1, NavTreeAssumption DEF ClickItem, storeLink, SyncOK, SyncIsStored, pageVars
  <2> QED
    BY <1>2, <2>1, <2>2, <2>4, <2>5 DEF ClickItem, pageVars
<1>10. CASE \E n \in Nodes \ {<< >>} : FollowItem(n)
  <2>1. PICK n \in Nodes \ {<< >>} : FollowItem(n)
    BY <1>10
  <2>2. Link[n][2] \in AnchorsOf(Link[n][1]) \cup {NONE}
    BY <2>1 DEF AnchorsOf
  <2> QED
    BY <1>4, <2>1, <2>2 DEF FollowItem
<1>11. CASE AnimationEnds
  <2>1. AnchorsKnown'
    BY <1>11 DEF AnimationEnds, SetHash, AnchorsKnown, Anchors
  <2> QED
    BY <1>2, <1>3, <1>11, <2>1 DEF AnimationEnds, syncVars
<1>12. CASE UserGoes
  <2>1. AnchorsKnown'
    BY <1>12 DEF UserGoes, SetHash, AnchorsKnown, Anchors
  <2> QED
    BY <1>2, <1>3, <1>12, <2>1 DEF UserGoes, syncVars
<1>13. CASE HashChange
  <2>1. TreeOK(t')
    BY <1>13, HashChangeKeeps
  <2> QED
    BY <1>1, <1>2, <1>3, <1>13, <2>1 DEF HashChange, pageVars, syncVars
<1>14. CASE toggleSyncButton
  <2>1. Url(page, hash) # NONE
    BY NavTreeAssumption DEF AnchorsKnown, Anchors
  <2>2. SyncOK'
    BY <1>14, <2>1 DEF toggleSyncButton, SyncOK, SyncIsStored, pageVars
  <2> QED
    BY <1>1, <1>2, <1>14, <2>2 DEF toggleSyncButton, pageVars, hashVars
<1>15. CASE NewPage
  BY <1>4, <1>15 DEF NewPage
<1>16. CASE UNCHANGED vars
  BY <1>1, <1>2, <1>3, <1>16 DEF vars
<1> QED
  BY <1>5, <1>6, <1>7, <1>8, <1>9, <1>10, <1>11, <1>12, <1>13, <1>14, <1>15, <1>16 DEF Next

\* The invariant holds in every reachable state.
LEMMA PageInvAlways == Spec => []PageInv
  BY InitPageInv, NextPageInv, PTL DEF Spec

-----------------------------------------------------------------------------
(* The way to a node *)

\* Every set of numbers has a least one.
LEMMA LeastNumber ==
  ASSUME NEW T, T \subseteq Nat, T # {}
  PROVE  \E x \in T : \A y \in T : x <= y
<1>1. \A x, y \in Nat : x < y => <<x, y>> \in OpToRel(<, Nat)
  BY Zenon DEF OpToRel
<1>2. \A R : IsWellFoundedOn(R, Nat) => \E x \in T : \A y \in T : ~(<<y, x>> \in R)
  BY WFMin
<1>3. PICK x \in T : \A y \in T : ~(<<y, x>> \in OpToRel(<, Nat))
  BY <1>2, NatLessThanWellFounded, Zenon
<1>4. \A y \in T : ~(y < x)
  BY <1>1, <1>3, Zenon
<1> QED
  BY <1>4

\* The nodes on the way to a node.
LEMMA Way ==
  ASSUME NEW c \in Nodes, NEW k \in 0 .. Len(c)
  PROVE  /\ SubSeq(c, 1, k) \in Nodes /\ SubSeq(c, 1, Len(c)) = c
         /\ k < Len(c) => /\ SubSeq(c, 1, k + 1) \in Children(SubSeq(c, 1, k))
                          /\ SubSeq(c, 1, k + 1) = Append(SubSeq(c, 1, k), c[k + 1])
<1>1. c \in Seq(Nat) /\ Len(c) \in Nat
  BY LinksAssumption
<1>2. \A j \in 0 .. Len(c) : SubSeq(c, 1, j) \in Seq(Nat) /\ Len(SubSeq(c, 1, j)) = j
  BY <1>1
<1>3. \A j \in 0 .. Len(c) - 1 : /\ SubSeq(c, 1, j + 1) # << >>
                                 /\ Parent(SubSeq(c, 1, j + 1)) = SubSeq(c, 1, j)
                                 /\ SubSeq(c, 1, j + 1) = Append(SubSeq(c, 1, j), c[j + 1])
  <2> TAKE j \in 0 .. Len(c) - 1
  <2>1. j + 1 \in 0 .. Len(c) /\ Len(SubSeq(c, 1, j + 1)) = j + 1
    BY <1>1, <1>2
  <2>2. SubSeq(SubSeq(c, 1, j + 1), 1, j) = SubSeq(c, 1, j)
    BY <1>1, <2>1
  <2>3. SubSeq(c, 1, j + 1) = Append(SubSeq(c, 1, j), c[j + 1])
    BY <1>1
  <2> QED
    BY <2>1, <2>2, <2>3 DEF Parent
<1>4. SubSeq(c, 1, Len(c)) = c
  BY <1>1, SubSeqFull
<1>5. \A j \in 0 .. Len(c) : SubSeq(c, 1, j) \in Nodes
  <2> DEFINE Off == {j \in Nat : j <= Len(c) /\ SubSeq(c, 1, Len(c) - j) \notin Nodes}
  <2> SUFFICES Off = {}
    <3>1. ASSUME Off = {}, NEW j \in 0 .. Len(c) PROVE SubSeq(c, 1, j) \in Nodes
      <4>1. Len(c) - j \in Nat /\ Len(c) - j <= Len(c) /\ Len(c) - (Len(c) - j) = j
        BY <1>1
      <4> QED
        BY <3>1, <4>1
    <3> QED
      BY <3>1
  <2> SUFFICES ASSUME Off # {} PROVE FALSE
    OBVIOUS
  <2>1. PICK j \in Off : \A i \in Off : j <= i
    BY LeastNumber
  <2>2. j \in Nat /\ j <= Len(c) /\ SubSeq(c, 1, Len(c) - j) \notin Nodes
    OBVIOUS
  <2>3. j # 0
    <3>1. Len(c) - 0 = Len(c)
      BY <1>1
    <3> QED
      BY <1>4, <2>2, <3>1
  <2>4. SubSeq(c, 1, Len(c) - (j - 1)) \in Nodes
    <3>1. j - 1 \in Nat /\ j - 1 <= Len(c) /\ ~(j <= j - 1)
      BY <1>1, <2>2, <2>3
    <3> QED
      BY <2>1, <3>1
  <2>5. Len(c) - j \in 0 .. Len(c) - 1 /\ Len(c) - (j - 1) = (Len(c) - j) + 1
    BY <1>1, <2>2, <2>3
  <2> QED
    BY <1>3, <2>2, <2>4, <2>5, NavTreeAssumption
<1>6. ASSUME k < Len(c)
      PROVE  SubSeq(c, 1, k + 1) \in Children(SubSeq(c, 1, k))
  <2>1. k \in 0 .. Len(c) - 1 /\ k + 1 \in 0 .. Len(c)
    BY <1>1, <1>6
  <2> QED
    BY <1>3, <1>5, <2>1 DEF Children, ChildrenOf
<1>7. k < Len(c) => SubSeq(c, 1, k + 1) = Append(SubSeq(c, 1, k), c[k + 1])
  BY <1>1, <1>3
<1> QED
  BY <1>4, <1>5, <1>6, <1>7

\* r is s gone on from position to a stop on the way to c, opening the nodes S.
StoppedAt(s, c, position, url, r, stop, S) ==
  /\ \A k \in position .. stop - 1 : SubSeq(c, 1, k) \in S
  /\ \/ r = getScript(Open(s, S), Script("show", SubSeq(c, 1, stop),
                                        SubSeq(c, 1, stop), stop, url))
     \/ r = getScript(Open(s, S), Script("child", SubSeq(c, 1, stop), c, stop, url))
     \/ /\ stop = Len(c) - 1 /\ SubSeq(c, 1, stop) \in S
        /\ r = selectAndHighlight(IF page \in IndexPages THEN expandNode(Open(s, S), c)
                                  ELSE Open(s, S), url[2], {c})
Stopped(s, c, position, url, r) ==
  \E stop \in position .. Len(c) - 1 : \E S : StoppedAt(s, c, position, url, r, stop, S)

\* showNode goes down the way to the node that the breadcrumbs name, opening what
\* it passes, until it needs a script or is at the parent of that node.
LEMMA ShowNodeStops ==
  ASSUME NEW s, NEW c, c \in Nodes \ {<< >>}, s.breadcrumbs = c,
         NEW position \in 0 .. Len(c) - 1, NEW url, NEW r,
         r = showNode(s, SubSeq(c, 1, position), position, url)
  PROVE  Stopped(s, c, position, url, r)
<1> DEFINE node == SubSeq(c, 1, position)
           At(k) == node \o SubSeq(c, position + 1, k)
           Stops(k) == Children(At(k)) = {} \/ Unloaded(s, At(k)) \/ k + 1 >= Len(c)
           stop == CHOOSE k \in position .. position + Len(c) :
                     Stops(k) /\ \A j \in position .. k - 1 : ~Stops(j)
           here == At(stop)
           opened == {At(k) : k \in {k \in position .. stop :
                                       Children(At(k)) # {} /\ ~Unloaded(s, At(k))}}
           shown == Open(s, opened)
           n == IF stop < Len(c) THEN Append(here, c[stop + 1]) ELSE << >>
<1>1. r = IF Children(here) = {} THEN selectAndHighlight(shown, url[2], {})
          ELSE IF Unloaded(s, here) THEN getScript(shown, Script("show", here, here, stop, url))
          ELSE IF n \notin Children(here) THEN shown
          ELSE IF Unloaded(s, n) THEN getScript(shown, Script("child", here, n, stop, url))
          ELSE selectAndHighlight(IF page \in IndexPages THEN expandNode(shown, n) ELSE shown,
                                  url[2], {n})
  BY DEF showNode
<1>2. c \in Seq(Nat) /\ Len(c) \in Nat \ {0} /\ position \in Nat /\ position < Len(c)
  <2>1. c \in Seq(Nat) /\ c # << >>
    BY LinksAssumption
  <2> QED
    BY <2>1, EmptySeq
<1>3. \A k \in position .. Len(c) : At(k) = SubSeq(c, 1, k)
  <2> TAKE k \in position .. Len(c)
  <2>1. 1 \in 1 .. Len(c) + 1 /\ position \in 1 - 1 .. Len(c) /\ k \in position .. Len(c)
    BY <1>2
  <2> QED
    BY <1>2, <2>1, ConcatAdjacentSubSeq
<1>4. \A k \in position .. Len(c) - 1 :
        /\ SubSeq(c, 1, k + 1) \in Children(At(k))
        /\ SubSeq(c, 1, k + 1) = Append(At(k), c[k + 1])
  <2> TAKE k \in position .. Len(c) - 1
  <2>1. k \in 0 .. Len(c) /\ k < Len(c) /\ k \in position .. Len(c)
    BY <1>2
  <2>2. /\ SubSeq(c, 1, k + 1) \in Children(SubSeq(c, 1, k))
        /\ SubSeq(c, 1, k + 1) = Append(SubSeq(c, 1, k), c[k + 1])
    BY <2>1, Way
  <2>3. At(k) = SubSeq(c, 1, k)
    BY <1>3, <2>1
  <2> HIDE DEF At
  <2> QED
    BY <2>2, <2>3
<1>5. /\ stop \in position .. Len(c) - 1 /\ Stops(stop)
      /\ \A j \in position .. stop - 1 : ~Stops(j)
  <2> DEFINE Found == {k \in Nat : k \in position .. Len(c) - 1 /\ Stops(k)}
  <2>1. Len(c) - 1 \in Found
    BY <1>2
  <2> HIDE DEF Stops
  <2>2. PICK k \in Found : \A j \in Found : k <= j
    BY <2>1, LeastNumber
  <2>3. /\ k \in position .. position + Len(c)
        /\ Stops(k) /\ \A j \in position .. k - 1 : ~Stops(j)
    BY <1>2, <2>2
  <2>4. /\ stop \in position .. position + Len(c)
        /\ Stops(stop) /\ \A j \in position .. stop - 1 : ~Stops(j)
    BY <2>3
  <2> HIDE DEF stop
  <2>5. ~(Len(c) - 1 < stop)
    <3>1. Len(c) - 1 < stop => Len(c) - 1 \in position .. stop - 1
      BY <1>2, <2>4
    <3>2. Stops(Len(c) - 1)
      BY <2>1
    <3> QED
      BY <2>4, <3>1, <3>2
  <2> QED
    BY <1>2, <2>4, <2>5
<1> HIDE DEF stop, At, shown
<1>6. /\ stop \in position .. Len(c) /\ stop < Len(c) /\ here = SubSeq(c, 1, stop)
      /\ n = SubSeq(c, 1, stop + 1) /\ n \in Children(here)
  <2>1. /\ stop \in position .. Len(c) /\ stop < Len(c)
        /\ stop \in position .. Len(c) - 1
    BY <1>2, <1>5
  <2> QED
    BY <1>3, <1>4, <2>1
<1>7. \A k \in position .. stop - 1 : SubSeq(c, 1, k) \in opened
  <2> TAKE k \in position .. stop - 1
  <2>1. k \in position .. stop /\ k \in position .. Len(c)
    BY <1>2, <1>5
  <2>2. Children(At(k)) # {} /\ ~Unloaded(s, At(k))
    BY <1>5
  <2> QED
    BY <1>3, <2>1, <2>2
<1>8. CASE Unloaded(s, here)
  <2>1. r = getScript(shown, Script("show", here, here, stop, url))
    BY <1>1, <1>6, <1>8
  <2> HIDE DEF opened, here
  <2> QED
    BY <1>5, <1>6, <1>7, <2>1 DEF shown, Stopped, StoppedAt
<1>9. CASE ~Unloaded(s, here)
  <2>1. stop = Len(c) - 1
    <3>1. Stops(stop) /\ Children(At(stop)) # {} /\ ~Unloaded(s, At(stop))
      BY <1>5, <1>6, <1>9
    <3>2. stop + 1 >= Len(c)
      BY <3>1
    <3> HIDE DEF Stops
    <3> QED
      BY <1>2, <1>5, <3>2
  <2>2. n = c
    <3>1. stop + 1 = Len(c)
      BY <1>2, <2>1
    <3>2. SubSeq(c, 1, Len(c)) = c
      BY <1>2, SubSeqFull
    <3> QED
      BY <1>6, <3>1, <3>2
  <2>3. here \in opened
    <3>1. stop \in position .. stop
      BY <1>2, <1>5
    <3>2. Children(At(stop)) # {}
      BY <1>6
    <3> QED
      BY <1>9, <3>1, <3>2
  <2>4. \/ r = getScript(shown, Script("child", here, c, stop, url))
        \/ r = selectAndHighlight(IF page \in IndexPages THEN expandNode(shown, c) ELSE shown,
                                  url[2], {c})
    BY <1>1, <1>6, <1>9, <2>2
  <2> HIDE DEF opened, here
  <2> QED
    BY <1>5, <1>6, <1>7, <2>1, <2>3, <2>4 DEF shown, Stopped, StoppedAt
<1> QED
  BY <1>8, <1>9

-----------------------------------------------------------------------------
(* What the page promises *)

\* What the history variables say is the same in r as in s.
SameHistory(s, r) ==
  /\ DOMAIN r = Fields /\ r.target = s.target /\ r.closed = s.closed
  /\ r.overlapped = s.overlapped

\* Nodes are opened, and perhaps a script is awaited that opens another one.
Grown(s, r) ==
  /\ SameHistory(s, r) /\ r.selected = s.selected /\ r.breadcrumbs = s.breadcrumbs
  /\ s.visited \subseteq r.visited /\ s.expanded \subseteq r.expanded
  /\ \/ r.scripts = s.scripts
     \/ \E x : ~Navigates(x) /\ r.scripts = Append(s.scripts, x)

\* A link with an anchor is one of the tree.
Proper(url) == url[2] # NONE => \E q \in Nodes \ {<< >>} : Link[q] = url

\* No navigation is under way; or the one of the script at i is.
Quiet(s) == \A j \in DOMAIN s.scripts : ~Navigates(s.scripts[j])
Alone(s, i) == \A j \in DOMAIN s.scripts : Navigates(s.scripts[j]) <=> j = i

\* The first k nodes on the way to the target are expanded, unless the user has closed one.
OpenTo(s, k) == s.closed \/ \A j \in 1 .. k : SubSeq(s.target, 1, j) \in s.expanded

\* A navigation that has come as far as position on its way to the target.
OnWay(s, url, position) ==
  /\ s.breadcrumbs = s.target
  /\ position \in 0 .. Len(s.target) - 1
  /\ OpenTo(s, position - 1)

\* What the callback of x will lead to is the target.
Leads(s, x) ==
  /\ Proper(x.url) /\ TargetOf(x.url) = s.target
  /\ \/ x.kind = "index"
     \/ /\ x.kind \in {"show", "child"}
        /\ OnWay(s, x.url, x.position) /\ x.node = SubSeq(s.target, 1, x.position)

\* The target is selected, and can be seen unless the user has closed a node.
Reached(s) ==
  s.target \in s.selected /\ (s.closed \/ s.made[s.target] > 0) /\ OpenTo(s, Len(s.target) - 1)

\* Nothing has been asked for; or the target is selected and opened; or the one
\* navigation under way leads to it.
Promise(s) ==
  \/ s.overlapped
  \/ s.target = << >> /\ s.selected = {} /\ Quiet(s)
  \/ /\ s.target \in Nodes \ {<< >>} /\ AllLinked(s, s.target)
     /\ \/ Quiet(s) /\ Reached(s)
        \/ \E i \in DOMAIN s.scripts : Alone(s, i) /\ Leads(s, s.scripts[i])

\* The nodes that are opened are visited and expanded, and nothing else changes.
LEMMA OpenEffect ==
  ASSUME NEW s, DOMAIN s = Fields, NEW S, NEW r, r = Open(s, S)
  PROVE  /\ SameHistory(s, r) /\ r.selected = s.selected /\ r.breadcrumbs = s.breadcrumbs
         /\ r.visited = s.visited \cup S /\ r.expanded = s.expanded \cup S
         /\ r.scripts = s.scripts
<1>1. PICK u : u = getNodes(s, S)
  OBVIOUS
<1>2. /\ DOMAIN u = Fields /\ u.target = s.target /\ u.closed = s.closed
      /\ u.overlapped = s.overlapped
      /\ u.selected = s.selected /\ u.breadcrumbs = s.breadcrumbs
      /\ u.visited = s.visited \cup S /\ u.expanded = s.expanded /\ u.scripts = s.scripts
  BY <1>1 DEF getNodes, Fields
<1>3. r = [u EXCEPT !.expanded = @ \cup S]
  BY <1>1 DEF Open
<1> QED
  BY <1>2, <1>3 DEF SameHistory, Fields

\* A script that is asked for changes nothing else.
LEMMA getScriptEffect ==
  ASSUME NEW s, DOMAIN s = Fields, NEW x, NEW r, r = getScript(s, x)
  PROVE  /\ SameHistory(s, r) /\ r.selected = s.selected /\ r.breadcrumbs = s.breadcrumbs
         /\ r.visited = s.visited /\ r.expanded = s.expanded
         /\ r.scripts = Append(s.scripts, x)
  BY DEF getScript, SameHistory, Fields

\* What is selected is added to what is, and changes nothing else.
LEMMA selectEffect ==
  ASSUME NEW s, DOMAIN s = Fields, NEW anchor, NEW n, NEW r, r = selectAndHighlight(s, anchor, n)
  PROVE  /\ SameHistory(s, r) /\ r.breadcrumbs = s.breadcrumbs
         /\ r.selected = s.selected \cup IF ItemsOf(s, anchor) # {} THEN ItemsOf(s, anchor) ELSE n
         /\ r.visited = s.visited /\ r.expanded = s.expanded /\ r.scripts = s.scripts
         /\ r.made = s.made
<1>1. PICK N : N = IF ItemsOf(s, anchor) # {} THEN ItemsOf(s, anchor) ELSE n
  OBVIOUS
<1>2. r = [s EXCEPT !.selected = @ \cup N]
  BY <1>1 DEF selectAndHighlight
<1>3. /\ SameHistory(s, r) /\ r.breadcrumbs = s.breadcrumbs
      /\ r.selected = s.selected \cup N
      /\ r.visited = s.visited /\ r.expanded = s.expanded /\ r.scripts = s.scripts
      /\ r.made = s.made
  BY <1>2 DEF SameHistory, Fields
<1> QED
  BY <1>1, <1>3

\* A node that is expanded is opened, or waits for its script.
LEMMA expandGrows ==
  ASSUME NEW s, DOMAIN s = Fields, NEW n
  PROVE  Grown(s, expandNode(s, n))
<1>1. Grown(s, s)
  BY DEF Grown, SameHistory
<1>2. Grown(s, Open(s, {n}))
  <2>1. PICK r : r = Open(s, {n})
    OBVIOUS
  <2> QED
    BY <2>1, OpenEffect DEF Grown
<1>3. PICK x : x = Script("expand", n, n, 0, Url(NONE, NONE))
  OBVIOUS
<1>4. ~Navigates(x)
  BY <1>3 DEF Script, Navigates
<1>5. Grown(s, getScript(s, x))
  <2>1. PICK r : r = getScript(s, x)
    OBVIOUS
  <2> QED
    BY <1>4, <2>1, getScriptEffect DEF Grown
<1> QED
  BY <1>1, <1>2, <1>3, <1>5 DEF expandNode

\* Nothing below navTo and the clicks changes what has been asked for.
LEMMA showNodeHistory ==
  ASSUME NEW s, DOMAIN s = Fields, NEW node, NEW position, NEW url
  PROVE  SameHistory(s, showNode(s, node, position, url))
<1>1. ASSUME NEW S, NEW x, NEW script, NEW y, NEW anchor
      PROVE  LET shown == Open(s, S)
             IN  /\ SameHistory(s, shown)
                 /\ SameHistory(s, selectAndHighlight(shown, anchor, y))
                 /\ SameHistory(s, getScript(shown, script))
                 /\ SameHistory(s, selectAndHighlight(expandNode(shown, x), anchor, y))
  <2>1. PICK r : r = Open(s, S)
    OBVIOUS
  <2>2. SameHistory(s, r) /\ DOMAIN r = Fields
    BY <2>1, OpenEffect DEF SameHistory
  <2>3. SameHistory(r, selectAndHighlight(r, anchor, y)) /\ SameHistory(r, getScript(r, script))
    BY <2>2, selectEffect, getScriptEffect
  <2>4. PICK u : u = expandNode(r, x)
    OBVIOUS
  <2>5. SameHistory(r, u) /\ DOMAIN u = Fields
    BY <2>2, <2>4, expandGrows DEF Grown, SameHistory
  <2>6. SameHistory(u, selectAndHighlight(u, anchor, y))
    BY <2>5, selectEffect
  <2>7. \A v, w, z : SameHistory(v, w) /\ SameHistory(w, z) => SameHistory(v, z)
    BY DEF SameHistory
  <2> QED
    BY <2>1, <2>2, <2>3, <2>4, <2>5, <2>6, <2>7
<1> DEFINE crumbs == s.breadcrumbs
           At(k) == node \o SubSeq(crumbs, position + 1, k)
           Stops(k) == Children(At(k)) = {} \/ Unloaded(s, At(k)) \/ k + 1 >= Len(crumbs)
           stop == CHOOSE k \in position .. position + Len(crumbs) :
                     Stops(k) /\ \A j \in position .. k - 1 : ~Stops(j)
           here == At(stop)
           opened == {At(k) : k \in {k \in position .. stop :
                                       Children(At(k)) # {} /\ ~Unloaded(s, At(k))}}
           shown == Open(s, opened)
           n == IF stop < Len(crumbs) THEN Append(here, crumbs[stop + 1]) ELSE << >>
<1>2. showNode(s, node, position, url) =
        IF Children(here) = {} THEN selectAndHighlight(shown, url[2], {})
        ELSE IF Unloaded(s, here) THEN getScript(shown, Script("show", here, here, stop, url))
        ELSE IF n \notin Children(here) THEN shown
        ELSE IF Unloaded(s, n) THEN getScript(shown, Script("child", here, n, stop, url))
        ELSE selectAndHighlight(IF page \in IndexPages THEN expandNode(shown, n) ELSE shown,
                                url[2], {n})
  BY DEF showNode
<1> HIDE DEF here, opened, n, stop
<1>3. /\ SameHistory(s, shown) /\ SameHistory(s, selectAndHighlight(shown, url[2], {}))
      /\ SameHistory(s, selectAndHighlight(shown, url[2], {n}))
      /\ SameHistory(s, getScript(shown, Script("show", here, here, stop, url)))
      /\ SameHistory(s, getScript(shown, Script("child", here, n, stop, url)))
      /\ SameHistory(s, selectAndHighlight(expandNode(shown, n), url[2], {n}))
  BY <1>1
<1> QED
  BY <1>2, <1>3

\* A script that is asked for comes last.
LEMMA LastScript ==
  ASSUME NEW s, TreeOK(s), NEW x, NEW r, r.scripts = Append(s.scripts, x)
  PROVE  /\ DOMAIN r.scripts = DOMAIN s.scripts \cup {Len(s.scripts) + 1}
         /\ Len(s.scripts) + 1 \notin DOMAIN s.scripts
         /\ r.scripts[Len(s.scripts) + 1] = x
         /\ \A j \in DOMAIN s.scripts : r.scripts[j] = s.scripts[j]
<1>1. PICK q : q = s.scripts
  OBVIOUS
<1>2. PICK S : q \in Seq(S)
  BY <1>1 DEF TreeOK, KnownScripts
<1>3. q \in Seq(S \cup {x}) /\ x \in S \cup {x}
  BY <1>2, SeqMonotonic
<1> QED
  BY <1>1, <1>3, AppendProperties, LenProperties

\* What is promised is kept while nodes are opened.
LEMMA GrownKeepsPromise ==
  ASSUME NEW s, TreeOK(s), NEW r, TreeOK(r), Grown(s, r), Promise(s)
  PROVE  Promise(r)
<1>1. /\ r.target = s.target /\ r.closed = s.closed /\ r.overlapped = s.overlapped
      /\ r.selected = s.selected /\ r.breadcrumbs = s.breadcrumbs
      /\ s.visited \subseteq r.visited /\ s.expanded \subseteq r.expanded
  BY DEF Grown, SameHistory
<1>2. DOMAIN s.scripts \subseteq DOMAIN r.scripts
      /\ \A j \in DOMAIN s.scripts : r.scripts[j] = s.scripts[j]
  BY LastScript DEF Grown
<1>3. \A j \in DOMAIN r.scripts : Navigates(r.scripts[j]) => j \in DOMAIN s.scripts
  BY LastScript DEF Grown
<1>4. Quiet(s) => Quiet(r)
  BY <1>2, <1>3 DEF Quiet
<1>5. \A i \in DOMAIN s.scripts : Alone(s, i) => Alone(r, i)
  BY <1>2, <1>3 DEF Alone
<1>6. \A k : OpenTo(s, k) => OpenTo(r, k)
  BY <1>1 DEF OpenTo
<1>7. \A x : Leads(s, x) => Leads(r, x)
  BY <1>1, <1>6 DEF Leads, OnWay
<1>8. \A q \in Nodes : s.made[q] > 0 => r.made[q] > 0
  BY <1>1 DEF TreeOK, OneItemEach
<1>9. s.target \in Nodes /\ Reached(s) => Reached(r)
  BY <1>1, <1>6, <1>8 DEF Reached
<1>10. AllLinked(s, s.target) => AllLinked(r, r.target)
  BY <1>1 DEF AllLinked
<1> QED
  BY <1>1, <1>2, <1>4, <1>5, <1>7, <1>9, <1>10 DEF Promise

\* What a link selects has the same link as the node that the index leads to.
LEMMA SelectedTogether ==
  ASSUME NEW s, NEW url, Proper(url), NEW n \in Nodes \ {<< >>}, TargetOf(url) = n
  PROVE  /\ \A q \in ItemsOf(s, url[2]) : Link[q] = Link[n]
         /\ ItemsOf(s, url[2]) # {} /\ s.made[n] > 0 => n \in ItemsOf(s, url[2])
<1>1. CASE url[2] = NONE
  BY <1>1 DEF ItemsOf
<1>2. CASE url[2] # NONE
  <2>1. PICK q \in Nodes \ {<< >>} : Link[q] = url
    BY <1>2 DEF Proper
  <2>2. url \in DOMAIN Index /\ Link[<<0>> \o Index[url]] = url
    BY <1>2, <2>1, LinksAssumption
  <2>3. Link[n] = url
    BY <2>2 DEF TargetOf, Lookup
  <2>4. \A o \in ItemsOf(s, url[2]) :
          o \in Nodes \ {<< >>} /\ Link[o] = Url(page, url[2]) /\ Link[o][2] = url[2]
    BY DEF ItemsOf, Url
  <2>5. \A o \in ItemsOf(s, url[2]) : Link[o] = Link[n]
    BY <1>2, <2>3, <2>4, LinksAssumption
  <2> QED
    BY <1>2, <2>4, <2>5 DEF ItemsOf
<1> QED
  BY <1>1, <1>2

\* A script that is awaited on the way to the target, and no other one.
LEMMA AwaitKeepsPromise ==
  ASSUME NEW s, TreeOK(s), Quiet(s), s.target \in Nodes \ {<< >>}, AllLinked(s, s.target),
         NEW x, Navigates(x), Leads(s, x), NEW r, r = getScript(s, x)
  PROVE  Promise(r)
<1>1. /\ r.target = s.target /\ r.closed = s.closed /\ r.selected = s.selected
      /\ r.breadcrumbs = s.breadcrumbs /\ r.expanded = s.expanded
      /\ r.scripts = Append(s.scripts, x)
  BY getScriptEffect DEF TreeOK, SameHistory
<1>2. PICK i \in DOMAIN r.scripts : Alone(r, i) /\ r.scripts[i] = x
  BY <1>1, LastScript DEF Quiet, Alone
<1>3. Leads(r, x)
  BY <1>1 DEF Leads, OnWay, OpenTo
<1>4. AllLinked(r, r.target)
  BY <1>1 DEF AllLinked
<1> QED
  BY <1>1, <1>2, <1>3, <1>4 DEF Promise

\* A navigation that goes on from the place it has come to keeps what is promised.
LEMMA showNodeKeepsPromise ==
  ASSUME NEW s, TreeOK(s), Quiet(s), s.target \in Nodes \ {<< >>}, AllLinked(s, s.target),
         NEW url, Proper(url), TargetOf(url) = s.target, NEW position, OnWay(s, url, position)
  PROVE  Promise(showNode(s, SubSeq(s.target, 1, position), position, url))
<1>1. PICK c : c = s.target
  OBVIOUS
<1>2. PICK r : r = showNode(s, SubSeq(c, 1, position), position, url)
  OBVIOUS
<1>3. /\ c \in Nodes \ {<< >>} /\ s.breadcrumbs = c /\ position \in 0 .. Len(c) - 1
      /\ OpenTo(s, position - 1)
  BY <1>1 DEF OnWay
<1>4. Stopped(s, c, position, url, r)
  <2>1. /\ c \in Nodes \ {<< >>} /\ s.breadcrumbs = c /\ position \in 0 .. Len(c) - 1
        /\ r = showNode(s, SubSeq(c, 1, position), position, url)
    BY <1>2, <1>3
  <2> QED
    BY <2>1, ShowNodeStops
<1>5. PICK stop \in position .. Len(c) - 1 : \E S : StoppedAt(s, c, position, url, r, stop, S)
  BY <1>4 DEF Stopped
<1>6. PICK S : StoppedAt(s, c, position, url, r, stop, S)
  BY <1>5
<1>7. c \in Seq(Nat) /\ Len(c) \in Nat \ {0} /\ position \in Nat
  <2>1. c \in Seq(Nat) /\ c # << >>
    BY <1>3, LinksAssumption
  <2> QED
    BY <1>3, <2>1, EmptySeq
<1>8. PICK u : u = Open(s, S)
  OBVIOUS
<1>9. /\ TreeOK(u) /\ u.target = c /\ u.closed = s.closed /\ u.selected = s.selected
      /\ u.breadcrumbs = c /\ u.visited = s.visited \cup S
      /\ u.expanded = s.expanded \cup S /\ u.scripts = s.scripts
  BY <1>1, <1>3, <1>8, OpenEffect, OpenKeeps DEF TreeOK, SameHistory
<1>10. Quiet(u) /\ AllLinked(u, c)
  BY <1>1, <1>9 DEF Quiet, AllLinked
<1>11. OpenTo(u, stop - 1)
  <2>1. \A j \in 1 .. stop - 1 : j \in 1 .. position - 1 \/ j \in position .. stop - 1
    BY <1>3, <1>5, <1>7
  <2> QED
    BY <1>1, <1>3, <1>6, <1>9, <2>1 DEF OpenTo, StoppedAt
<1>12. OnWay(u, url, stop)
  <2>1. stop \in 0 .. Len(c) - 1
    BY <1>5, <1>7
  <2> QED
    BY <1>9, <1>11, <2>1 DEF OnWay
<1>13. ASSUME NEW kind \in {"show", "child"}, NEW child,
              r = getScript(u, Script(kind, SubSeq(c, 1, stop), child, stop, url))
       PROVE  Promise(r)
  <2>1. PICK x : x = Script(kind, SubSeq(c, 1, stop), child, stop, url)
    OBVIOUS
  <2>2. x.kind = kind /\ x.node = SubSeq(c, 1, stop) /\ x.position = stop /\ x.url = url
    BY <2>1 DEF Script
  <2>3. Leads(u, x) /\ Navigates(x)
    BY <1>1, <1>9, <1>12, <2>2 DEF Leads, Navigates
  <2> QED
    BY <1>3, <1>9, <1>10, <1>13, <2>1, <2>3, AwaitKeepsPromise
<1>14. ASSUME stop = Len(c) - 1, SubSeq(c, 1, stop) \in S,
              r = selectAndHighlight(IF page \in IndexPages THEN expandNode(u, c) ELSE u,
                                     url[2], {c})
       PROVE  Promise(r)
  <2>0. stop = Len(c) - 1
    BY <1>14
  <2>1. PICK v : v = IF page \in IndexPages THEN expandNode(u, c) ELSE u
    OBVIOUS
  <2>2. Grown(u, u)
    BY <1>9 DEF Grown, SameHistory, TreeOK
  <2>3. Grown(u, v) /\ TreeOK(v)
    BY <1>9, <2>1, <2>2, expandGrows, expandNodeKeeps DEF TreeOK
  <2>4. /\ v.target = c /\ v.closed = s.closed /\ v.selected = s.selected
        /\ v.breadcrumbs = c /\ S \subseteq v.visited /\ u.expanded \subseteq v.expanded
    BY <1>9, <2>3 DEF Grown, SameHistory
  <2>5. Quiet(v)
    BY <1>9, <1>10, <2>3, LastScript DEF Quiet, Grown
  <2>6. v.made[c] > 0
    <3>1. c \in Children(SubSeq(c, 1, stop))
      <4>1. stop \in 0 .. Len(c) /\ stop < Len(c) /\ stop + 1 = Len(c)
        BY <1>7, <2>0
      <4>2. SubSeq(c, 1, stop + 1) \in Children(SubSeq(c, 1, stop)) /\ SubSeq(c, 1, Len(c)) = c
        BY <1>3, <4>1, Way
      <4> QED
        BY <4>1, <4>2
    <3> QED
      BY <1>3, <1>14, <2>3, <2>4, <3>1 DEF TreeOK, OneItemEach
  <2>7. /\ r.target = c /\ r.closed = s.closed /\ r.made = v.made
        /\ r.selected = v.selected \cup IF ItemsOf(v, url[2]) # {} THEN ItemsOf(v, url[2]) ELSE {c}
        /\ r.expanded = v.expanded /\ r.scripts = v.scripts
    BY <1>14, <2>1, <2>3, <2>4, selectEffect DEF SameHistory, TreeOK
  <2>8. c \in r.selected /\ AllLinked(r, c)
    <3>1. Proper(url) /\ TargetOf(url) = c /\ c \in Nodes \ {<< >>}
      BY <1>1, <1>3
    <3>2. /\ \A q \in ItemsOf(v, url[2]) : Link[q] = Link[c]
          /\ ItemsOf(v, url[2]) # {} => c \in ItemsOf(v, url[2])
      BY <2>6, <3>1, SelectedTogether
    <3>3. \A q \in v.selected : Link[q] = Link[c]
      BY <1>9, <1>10, <2>4 DEF AllLinked
    <3> QED
      BY <2>7, <3>1, <3>2, <3>3 DEF AllLinked
  <2>9. OpenTo(r, Len(c) - 1)
    <3>1. \A j \in 1 .. Len(c) - 1 : j \in 1 .. stop - 1 \/ j = stop
      BY <1>7, <2>0
    <3> QED
      BY <1>9, <1>11, <1>14, <2>4, <2>7, <3>1 DEF OpenTo
  <2>10. Reached(r) /\ Quiet(r)
    BY <2>5, <2>6, <2>7, <2>8, <2>9 DEF Reached, Quiet
  <2> QED
    BY <1>3, <2>7, <2>8, <2>10 DEF Promise
<1>15. Promise(r)
  BY <1>6, <1>8, <1>13, <1>14 DEF StoppedAt
<1> QED
  BY <1>1, <1>2, <1>15

\* The index leads to nodes below the root.
LEMMA TargetIsNode ==
  ASSUME NEW url
  PROVE  TargetOf(url) \in Nodes \ {<< >>} /\ Len(TargetOf(url)) \in Nat \ {0}
<1>1. Lookup(url) = << >> \/ \E link \in DOMAIN Index : Lookup(url) = Index[link]
  BY DEF Lookup
<1>2. Lookup(url) \in Seq(Nat) /\ TargetOf(url) \in Nodes
  <2>1. CASE Lookup(url) = << >>
    <3>1. <<0>> \o << >> = <<0>>
      BY ConcatEmptySeq
    <3> QED
      BY <2>1, <3>1, NavTreeAssumption DEF TargetOf
  <2>2. ASSUME NEW link \in DOMAIN Index, Lookup(url) = Index[link]
        PROVE  Lookup(url) \in Seq(Nat) /\ TargetOf(url) \in Nodes
    BY <2>2, NavTreeAssumption, LinksAssumption DEF TargetOf
  <2> QED
    BY <1>1, <2>1, <2>2
<1>3. Len(TargetOf(url)) = 1 + Len(Lookup(url)) /\ Len(Lookup(url)) \in Nat
  BY <1>2 DEF TargetOf
<1> QED
  BY <1>2, <1>3

\* A navigation whose index has been loaded.
LEMMA gotoNodeKeepsPromise ==
  ASSUME NEW s, TreeOK(s), NEW url
  PROVE  /\ SameHistory(s, gotoNode(s, url))
         /\ Quiet(s) /\ Proper(url) /\ s.target = TargetOf(url) /\ AllLinked(s, s.target)
              => Promise(gotoNode(s, url))
<1>1. PICK u : u = [s EXCEPT !.breadcrumbs = TargetOf(url)]
  OBVIOUS
<1>2. /\ DOMAIN u = Fields /\ u.target = s.target /\ u.closed = s.closed
      /\ u.overlapped = s.overlapped /\ u.selected = s.selected
      /\ u.scripts = s.scripts /\ u.breadcrumbs = TargetOf(url)
      /\ u.made = s.made /\ u.visited = s.visited
  BY <1>1 DEF TreeOK, Fields
<1>3. gotoNode(s, url) = showNode(u, << >>, 0, url)
  BY <1>1 DEF gotoNode
<1>4. SameHistory(s, gotoNode(s, url))
  <2>1. SameHistory(u, showNode(u, << >>, 0, url))
    BY <1>2, showNodeHistory
  <2> QED
    BY <1>2, <1>3, <2>1 DEF SameHistory
<1>5. ASSUME Quiet(s), Proper(url), s.target = TargetOf(url), AllLinked(s, s.target)
      PROVE  Promise(gotoNode(s, url))
  <2>1. TreeOK(u)
    BY <1>2, OtherFields
  <2>2. Quiet(u) /\ u.target = TargetOf(url) /\ AllLinked(u, u.target)
    BY <1>2, <1>5 DEF Quiet, AllLinked
  <2>3. u.target \in Nodes \ {<< >>} /\ Len(u.target) \in Nat \ {0}
    BY <2>2, TargetIsNode
  <2>4. OnWay(u, url, 0)
    BY <1>2, <2>2, <2>3 DEF OnWay, OpenTo
  <2>5. SubSeq(u.target, 1, 0) = << >>
    BY SubSeqEmpty
  <2> QED
    BY <1>3, <1>5, <2>1, <2>2, <2>3, <2>4, <2>5, showNodeKeepsPromise
<1> QED
  BY <1>4, <1>5

\* A navigation, when nothing else is under way and what is selected agrees with it.
LEMMA navToKeepsPromise ==
  ASSUME NEW s, TreeOK(s), NEW url, Proper(Aim(url)), NEW r, r = navTo(s, url)
  PROVE  /\ r.target = TargetOf(Aim(url)) /\ DOMAIN r = Fields
         /\ s.overlapped => r.overlapped
         /\ AllLinked(s, TargetOf(Aim(url))) => Promise(r)
<1>1. PICK url2 : url2 = Aim(url)
  OBVIOUS
<1> DEFINE asked == [s EXCEPT !.target = TargetOf(Aim(url)), !.closed = FALSE,
                              !.overlapped = @ \/ \E i \in DOMAIN s.scripts : Navigates(s.scripts[i])]
<1>2. PICK a : a = asked
  OBVIOUS
<1>3. /\ DOMAIN a = Fields /\ a.target = TargetOf(url2) /\ a.selected = s.selected
      /\ a.overlapped <=> (s.overlapped \/ ~Quiet(s))
      /\ a.scripts = s.scripts /\ a.made = s.made /\ a.visited = s.visited
  BY <1>1, <1>2 DEF TreeOK, Fields, Quiet
<1>4. PICK x : x = Script("index", << >>, << >>, 0, url2)
  OBVIOUS
<1>5. r = IF s.index THEN gotoNode(a, url2) ELSE getScript(a, x)
  BY <1>1, <1>2, <1>4 DEF navTo
<1> HIDE DEF asked
<1>6. TreeOK(a)
  BY <1>3, OtherFields
<1>7. SameHistory(a, r)
  BY <1>3, <1>5, <1>6, gotoNodeKeepsPromise, getScriptEffect
<1>8. ASSUME AllLinked(s, TargetOf(url2)), ~a.overlapped PROVE Promise(r)
  <2>1. Quiet(a) /\ AllLinked(a, a.target)
    BY <1>3, <1>8 DEF Quiet, AllLinked
  <2>2. CASE s.index
    BY <1>1, <1>3, <1>5, <1>6, <2>1, <2>2, gotoNodeKeepsPromise
  <2>3. CASE ~s.index
    <3>1. x.kind = "index" /\ x.url = url2
      BY <1>4 DEF Script
    <3>2. Leads(a, x) /\ Navigates(x)
      BY <1>1, <1>3, <3>1 DEF Leads, Navigates
    <3>3. a.target \in Nodes \ {<< >>}
      BY <1>3, TargetIsNode
    <3> QED
      BY <1>5, <1>6, <2>1, <2>3, <3>2, <3>3, AwaitKeepsPromise
  <2> QED
    BY <2>2, <2>3
<1>9. a.overlapped => Promise(r)
  BY <1>7 DEF SameHistory, Promise
<1> QED
  BY <1>1, <1>3, <1>7, <1>8, <1>9 DEF SameHistory

\* The sequence p has the same members as q, but for the one at i.
WithoutOne(p, q, i) ==
  /\ \A j \in DOMAIN p : \E k \in DOMAIN q \ {i} : p[j] = q[k]
  /\ \A k \in DOMAIN q \ {i} :
       \E j \in DOMAIN p :
         /\ p[j] = q[k]
         /\ \A l \in DOMAIN p : l # j => \E m \in DOMAIN q \ {i, k} : p[l] = q[m]

\* The page u is s with the script at i taken out.
TakenOut(s, u, i) ==
  /\ TreeOK(u) /\ SameHistory(s, u) /\ s.scripts[i].kind \in Kinds
  /\ u.selected = s.selected /\ u.breadcrumbs = s.breadcrumbs
  /\ u.expanded = s.expanded /\ u.made = s.made
  /\ WithoutOne(u.scripts, s.scripts, i)

\* A script that has been loaded is taken out of those that are awaited.
LEMMA Others ==
  ASSUME NEW s, TreeOK(s), NEW i \in DOMAIN s.scripts, NEW u,
         u = [s EXCEPT !.scripts = SubSeq(@, 1, i - 1) \o SubSeq(@, i + 1, Len(@))]
  PROVE  TakenOut(s, u, i)
<1>1. PICK q : q = s.scripts
  OBVIOUS
<1>2. PICK S : q \in Seq(S) /\ \A x \in S : x.kind \in Kinds
  BY <1>1 DEF TreeOK, KnownScripts
<1>3. q \in Seq(S) /\ Len(q) \in Nat /\ i \in 1 .. Len(q) /\ DOMAIN q = 1 .. Len(q)
  BY <1>1, <1>2
<1>4. PICK p : p = SubSeq(q, 1, i - 1) \o SubSeq(q, i + 1, Len(q))
  OBVIOUS
<1>5. /\ p \in Seq(S) /\ Len(p) = Len(q) - 1 /\ DOMAIN p = 1 .. Len(q) - 1
      /\ \A j \in 1 .. Len(q) - 1 : p[j] = IF j < i THEN q[j] ELSE q[j + 1]
  <2>1. PICK a : a = SubSeq(q, 1, i - 1)
    OBVIOUS
  <2>2. PICK b : b = SubSeq(q, i + 1, Len(q))
    OBVIOUS
  <2>3. a \in Seq(S) /\ Len(a) = i - 1 /\ \A j \in 1 .. i - 1 : a[j] = q[j]
    BY <1>3, <2>1
  <2>4. b \in Seq(S) /\ Len(b) = Len(q) - i /\ \A j \in 1 .. Len(q) - i : b[j] = q[j + i]
    <3>1. /\ i + 1 \in Int /\ Len(q) \in Int /\ \A j \in i + 1 .. Len(q) : q[j] \in S
          /\ Len(q) - (i + 1) + 1 = Len(q) - i /\ (i + 1 <= Len(q) \/ Len(q) - i = 0)
          /\ \A j \in 1 .. Len(q) - i : (i + 1) + j - 1 = j + i
      BY <1>3
    <3> QED
      BY <2>2, <3>1, SubSeqProperties
  <2>5. p = a \o b
    BY <1>4, <2>1, <2>2
  <2>6. /\ p \in Seq(S) /\ Len(p) = Len(q) - 1
        /\ \A j \in 1 .. Len(q) - 1 : p[j] = IF j <= i - 1 THEN a[j] ELSE b[j - (i - 1)]
    <3>1. /\ a \o b \in Seq(S) /\ Len(a \o b) = Len(a) + Len(b)
          /\ \A j \in 1 .. Len(a) + Len(b) :
               (a \o b)[j] = IF j <= Len(a) THEN a[j] ELSE b[j - Len(a)]
      BY <2>3, <2>4, ConcatProperties
    <3>2. Len(a) = i - 1 /\ Len(a) + Len(b) = Len(q) - 1
      BY <1>3, <2>3, <2>4
    <3> QED
      BY <2>5, <3>1, <3>2
  <2>7. ASSUME NEW j \in 1 .. Len(q) - 1 PROVE p[j] = IF j < i THEN q[j] ELSE q[j + 1]
    <3>1. CASE j < i
      BY <1>3, <2>3, <2>6, <3>1
    <3>2. CASE ~(j < i)
      <4>1. j - (i - 1) \in 1 .. Len(q) - i /\ (j - (i - 1)) + i = j + 1 /\ ~(j <= i - 1)
        BY <1>3, <3>2
      <4> QED
        BY <2>4, <2>6, <3>2, <4>1
    <3> QED
      BY <3>1, <3>2
  <2> QED
    BY <2>6, <2>7
<1>6. u = [s EXCEPT !.scripts = p]
  BY <1>1, <1>4
<1>7. /\ DOMAIN u = Fields /\ u.scripts = p /\ u.target = s.target /\ u.closed = s.closed
      /\ u.overlapped = s.overlapped /\ u.selected = s.selected
      /\ u.breadcrumbs = s.breadcrumbs /\ u.expanded = s.expanded
      /\ u.made = s.made /\ u.visited = s.visited
  BY <1>6 DEF TreeOK, Fields
<1>8. TreeOK(u)
  BY <1>2, <1>5, <1>7 DEF TreeOK, OneItemEach, KnownScripts
<1>9. q[i].kind \in Kinds
  BY <1>2, <1>3
<1>10. \A j \in 1 .. Len(q) - 1 : \E k \in 1 .. Len(q) : k # i /\ p[j] = q[k]
  <2> TAKE j \in 1 .. Len(q) - 1
  <2>1. CASE j < i
    BY <1>3, <1>5, <2>1
  <2>2. CASE ~(j < i)
    <3>1. j + 1 \in 1 .. Len(q) /\ j + 1 # i
      BY <1>3, <2>2
    <3> QED
      BY <1>5, <2>2, <3>1
  <2> QED
    BY <2>1, <2>2
<1>11. ASSUME NEW k \in 1 .. Len(q), k # i
       PROVE  \E j \in 1 .. Len(q) - 1 :
                /\ p[j] = q[k]
                /\ \A l \in 1 .. Len(q) - 1 :
                     l # j => \E m \in 1 .. Len(q) : m # i /\ m # k /\ p[l] = q[m]
  <2>1. PICK j : j = IF k < i THEN k ELSE k - 1
    OBVIOUS
  <2>2. j \in 1 .. Len(q) - 1 /\ p[j] = q[k]
    <3>1. j \in 1 .. Len(q) - 1 /\ (j < i => j = k) /\ (~(j < i) => j + 1 = k)
      BY <1>3, <1>11, <2>1
    <3> QED
      BY <1>5, <3>1
  <2>3. ASSUME NEW l \in 1 .. Len(q) - 1, l # j
        PROVE  \E m \in 1 .. Len(q) : m # i /\ m # k /\ p[l] = q[m]
    <3>1. PICK m : m = IF l < i THEN l ELSE l + 1
      OBVIOUS
    <3>2. m \in 1 .. Len(q) /\ m # i /\ m # k
      BY <1>3, <1>11, <2>1, <2>3, <3>1
    <3>3. p[l] = q[m]
      BY <1>5, <3>1
    <3> QED
      BY <3>2, <3>3
  <2> QED
    BY <2>2, <2>3
<1>12. SameHistory(s, u)
  BY <1>7 DEF SameHistory
<1>13. \A j \in DOMAIN p : \E k \in DOMAIN q \ {i} : p[j] = q[k]
  BY <1>3, <1>5, <1>10
<1>14. ASSUME NEW k \in DOMAIN q \ {i}
       PROVE  \E j \in DOMAIN p :
                /\ p[j] = q[k]
                /\ \A l \in DOMAIN p : l # j => \E m \in DOMAIN q \ {i, k} : p[l] = q[m]
  BY <1>3, <1>5, <1>11
<1>15. u.scripts = p /\ s.scripts = q
  BY <1>1, <1>7
<1>16. WithoutOne(p, q, i)
  BY <1>13, <1>14 DEF WithoutOne
<1> QED
  BY <1>7, <1>8, <1>9, <1>12, <1>15, <1>16 DEF TakenOut

\* The way to a node has a step for each level.
LEMMA WayLen ==
  ASSUME NEW c \in Seq(Nat), NEW j \in 0 .. Len(c)
  PROVE  Len(SubSeq(c, 1, j)) = j
<1>1. Len(c) \in Nat /\ j \in Nat
  OBVIOUS
<1> QED
  BY <1>1

\* The callback of the script at i, after which what is promised holds as before.
LEMMA CallbackKeepsPromise ==
  ASSUME NEW s, TreeOK(s), Promise(s), NEW i \in DOMAIN s.scripts, NEW u,
         u = [s EXCEPT !.scripts = SubSeq(@, 1, i - 1) \o SubSeq(@, i + 1, Len(@))],
         NEW r, r = Callback(u, s.scripts[i])
  PROVE  SameHistory(s, r) /\ Promise(r)
<1>1. PICK x : x = s.scripts[i]
  OBVIOUS
<1>2. /\ TreeOK(u) /\ SameHistory(s, u) /\ x.kind \in Kinds
      /\ u.selected = s.selected /\ u.breadcrumbs = s.breadcrumbs
      /\ u.expanded = s.expanded /\ u.made = s.made
      /\ WithoutOne(u.scripts, s.scripts, i)
  <2>1. TakenOut(s, u, i)
    BY Others
  <2> QED
    BY <1>1, <2>1 DEF TakenOut
<1>3. DOMAIN u = Fields /\ u.target = s.target /\ u.closed = s.closed /\ u.overlapped = s.overlapped
  BY <1>2 DEF SameHistory
\* What the callback starts from: its script is there, and perhaps a node that will
\* be opened again is taken for closed.
<1> DEFINE Ready(v) ==
      /\ DOMAIN v = Fields /\ v.made = u.made /\ v.visited = u.visited
      /\ v.scripts = u.scripts /\ v.target = u.target /\ v.closed = u.closed
      /\ v.overlapped = u.overlapped /\ v.selected = u.selected /\ v.breadcrumbs = u.breadcrumbs
<1>4. \A v : Ready(v) => TreeOK(v) /\ SameHistory(s, v) /\ (Quiet(u) => Quiet(v))
                       /\ (AllLinked(s, s.target) => AllLinked(v, v.target))
  BY <1>2, <1>3, OtherFields DEF SameHistory, Quiet, AllLinked
<1>5. \A v, w : SameHistory(s, v) /\ SameHistory(v, w) => SameHistory(s, w)
  BY DEF SameHistory
<1>6. CASE x.kind = "expand"
  <2>1. PICK v : v = [u EXCEPT !.data = @ \cup {x.node}]
    OBVIOUS
  <2>2. Ready(v) /\ v.expanded = u.expanded
    BY <1>3, <2>1 DEF Fields
  <2>3. r = expandNode(v, x.node)
    BY <1>1, <1>6, <2>1 DEF Callback
  <2>4. TreeOK(v) /\ SameHistory(s, v)
    BY <1>4, <2>2
  <2>5. Grown(v, r) /\ TreeOK(r)
    BY <2>2, <2>3, <2>4, expandGrows, expandNodeKeeps
  <2>6. Promise(v)
    <3> HIDE DEF Ready
    <3>1. ~Navigates(x)
      BY <1>6 DEF Navigates
    <3>9. WithoutOne(v.scripts, s.scripts, i)
      BY <1>2, <2>2 DEF Ready
    <3>2. Quiet(s) => Quiet(v)
      BY <3>9 DEF Quiet, WithoutOne
    <3>3. ASSUME NEW k \in DOMAIN s.scripts, Alone(s, k)
          PROVE  \E j \in DOMAIN v.scripts : Alone(v, j) /\ v.scripts[j] = s.scripts[k]
      <4>1. k # i
        BY <1>1, <3>1, <3>3 DEF Alone
      <4>2. PICK j \in DOMAIN v.scripts :
              /\ v.scripts[j] = s.scripts[k]
              /\ \A l \in DOMAIN v.scripts :
                   l # j => \E m \in DOMAIN s.scripts \ {i, k} : v.scripts[l] = s.scripts[m]
        BY <3>9, <4>1 DEF WithoutOne
      <4> QED
        BY <3>3, <4>2 DEF Alone
    <3>4. /\ v.target = s.target /\ v.closed = s.closed /\ v.overlapped = s.overlapped
          /\ v.selected = s.selected /\ v.breadcrumbs = s.breadcrumbs
          /\ v.expanded = s.expanded /\ v.made = s.made
      BY <1>2, <1>3, <2>2 DEF Ready
    <3>5. \A k : OpenTo(s, k) => OpenTo(v, k)
      BY <3>4 DEF OpenTo
    <3>6. \A y : Leads(s, y) => Leads(v, y)
      BY <3>4, <3>5 DEF Leads, OnWay
    <3>7. Reached(s) => Reached(v)
      BY <3>4, <3>5 DEF Reached
    <3>8. AllLinked(s, s.target) => AllLinked(v, v.target)
      BY <3>4 DEF AllLinked
    <3> QED
      BY <3>2, <3>3, <3>4, <3>6, <3>7, <3>8 DEF Promise
  <2>7. SameHistory(s, r)
    BY <1>5, <2>4, <2>5 DEF Grown
  <2> QED
    BY <2>4, <2>5, <2>6, <2>7, GrownKeepsPromise
<1>7. ASSUME x.kind # "expand", ~s.overlapped
      PROVE  /\ Quiet(u) /\ Leads(s, x) /\ AllLinked(s, s.target)
             /\ s.target \in Nodes \ {<< >>}
  <2>1. Navigates(x)
    BY <1>7 DEF Navigates
  <2>2. ~Quiet(s)
    BY <1>1, <2>1 DEF Quiet
  <2>3. PICK k \in DOMAIN s.scripts : Alone(s, k) /\ Leads(s, s.scripts[k])
    BY <1>7, <2>2 DEF Promise
  <2>4. k = i
    BY <1>1, <2>1, <2>3 DEF Alone
  <2>5. Quiet(u)
    <3>1. \A m \in DOMAIN s.scripts \ {i} : ~Navigates(s.scripts[m])
      BY <2>3, <2>4 DEF Alone
    <3>2. \A j \in DOMAIN u.scripts : \E m \in DOMAIN s.scripts \ {i} :
            u.scripts[j] = s.scripts[m]
      BY <1>2 DEF WithoutOne
    <3> QED
      BY <3>1, <3>2 DEF Quiet
  <2> QED
    BY <1>1, <1>7, <2>2, <2>3, <2>4, <2>5 DEF Promise
<1>8. CASE x.kind \in {"show", "child"}
  <2>1. PICK v : v = IF x.kind = "show"
                     THEN [u EXCEPT !.data = @ \cup {x.node}]
                     ELSE [u EXCEPT !.data = @ \cup {x.child}, !.expanded = @ \ {x.node}]
    OBVIOUS
  <2>2. Ready(v) /\ u.expanded \ {x.node} \subseteq v.expanded
    BY <1>3, <2>1 DEF Fields
  <2>3. r = showNode(v, x.node, x.position, x.url)
    BY <1>1, <1>8, <2>1 DEF Callback
  <2>4. TreeOK(v) /\ SameHistory(s, v)
    BY <1>4, <2>2
  <2>5. SameHistory(s, r)
    BY <1>5, <2>2, <2>3, <2>4, showNodeHistory
  <2>6. ASSUME ~s.overlapped PROVE Promise(r)
    <3>1. /\ Quiet(v) /\ AllLinked(v, v.target) /\ v.target = s.target
          /\ s.target \in Nodes \ {<< >>} /\ Leads(s, x)
      BY <1>3, <1>4, <1>7, <1>8, <2>2, <2>6
    <3>2. /\ Proper(x.url) /\ TargetOf(x.url) = s.target /\ OnWay(s, x.url, x.position)
          /\ x.node = SubSeq(s.target, 1, x.position)
      BY <1>8, <3>1 DEF Leads
    <3>3. OnWay(v, x.url, x.position)
      <4>1. PICK c, k : c = s.target /\ k = x.position
        OBVIOUS
      <4>2. c \in Seq(Nat) /\ Len(c) \in Nat /\ k \in 0 .. Len(c) - 1
        BY <3>1, <3>2, <4>1, LinksAssumption DEF OnWay
      <4>3. \A j \in 0 .. Len(c) : Len(SubSeq(c, 1, j)) = j
        BY <4>2, WayLen
      <4>4. \A j \in 1 .. k - 1 : SubSeq(c, 1, j) # SubSeq(c, 1, k)
        <5> TAKE j \in 1 .. k - 1
        <5>1. k \in Nat /\ Len(c) \in Nat /\ k < Len(c)
          BY <4>2
        <5>2. j \in 0 .. Len(c) /\ k \in 0 .. Len(c) /\ j # k
          BY <5>1
        <5>3. Len(SubSeq(c, 1, j)) = j /\ Len(SubSeq(c, 1, k)) = k
          BY <4>3, <5>2
        <5> QED
          BY <5>2, <5>3
      <4>5. /\ v.target = c /\ v.closed = s.closed /\ s.expanded \ {SubSeq(c, 1, k)} \subseteq v.expanded
        BY <1>2, <1>3, <2>2, <3>2, <4>1
      <4>6. s.closed \/ \A j \in 1 .. k - 1 : SubSeq(c, 1, j) \in s.expanded
        BY <3>2, <4>1 DEF OpenTo, OnWay
      <4>7. OpenTo(v, x.position - 1)
        BY <4>1, <4>4, <4>5, <4>6 DEF OpenTo
      <4> QED
        BY <1>2, <2>2, <3>1, <3>2, <4>7 DEF OnWay
    <3>4. Promise(showNode(v, SubSeq(v.target, 1, x.position), x.position, x.url))
      BY <2>4, <3>1, <3>2, <3>3, showNodeKeepsPromise
    <3> QED
      BY <2>3, <3>1, <3>2, <3>4
  <2> QED
    BY <2>5, <2>6 DEF SameHistory, Promise
<1>9. CASE x.kind = "index"
  <2>1. PICK v : v = [u EXCEPT !.index = TRUE]
    OBVIOUS
  <2>2. Ready(v)
    BY <1>3, <2>1 DEF Fields
  <2>3. r = gotoNode(v, x.url)
    BY <1>1, <1>9, <2>1 DEF Callback
  <2>4. TreeOK(v) /\ SameHistory(s, v)
    BY <1>4, <2>2
  <2>5. SameHistory(s, r)
    BY <1>5, <2>3, <2>4, gotoNodeKeepsPromise
  <2>6. ASSUME ~s.overlapped PROVE Promise(r)
    <3>1. Quiet(v) /\ AllLinked(v, v.target) /\ v.target = s.target /\ Leads(s, x)
      BY <1>3, <1>4, <1>7, <1>9, <2>2, <2>6
    <3>2. Proper(x.url) /\ TargetOf(x.url) = v.target
      BY <3>1 DEF Leads
    <3> QED
      BY <2>3, <2>4, <3>1, <3>2, gotoNodeKeepsPromise
  <2> QED
    BY <2>5, <2>6 DEF SameHistory, Promise
<1> QED
  BY <1>2, <1>6, <1>8, <1>9 DEF Kinds

\* What is promised holds all the more when more overlaps.
LEMMA OverlapKeepsPromise ==
  ASSUME NEW s, DOMAIN s = Fields, NEW b, NEW r, r = [s EXCEPT !.overlapped = @ \/ b]
  PROVE  r.target = s.target /\ (s.overlapped \/ b => Promise(r)) /\ (Promise(s) => Promise(r))
<1>1. /\ r.target = s.target /\ r.closed = s.closed /\ r.selected = s.selected
      /\ r.scripts = s.scripts /\ r.breadcrumbs = s.breadcrumbs
      /\ r.expanded = s.expanded /\ r.made = s.made
      /\ r.overlapped <=> (s.overlapped \/ b)
  BY DEF Fields
<1>2. /\ Quiet(s) => Quiet(r)
      /\ \A i : Alone(s, i) => Alone(r, i)
      /\ AllLinked(s, s.target) => AllLinked(r, r.target)
      /\ Reached(s) => Reached(r)
      /\ \A x : Leads(s, x) => Leads(r, x)
  BY <1>1 DEF Quiet, Alone, AllLinked, Reached, Leads, OnWay, OpenTo
<1> QED
  BY <1>1, <1>2 DEF Promise

\* The page shows itself.
LEMMA StartKeepsPromise ==
  ASSUME TreeOK(t), Promise(t), NEW anchor, Proper(Aim(Url(page, anchor))), Start(anchor)
  PROVE  Promise(t') /\ t'.target # << >>
<1>1. PICK r : r = navTo(t, Url(page, anchor))
  OBVIOUS
<1>2. PICK aim : aim = TargetOf(Aim(Url(page, anchor)))
  OBVIOUS
<1>3. /\ r.target = aim /\ DOMAIN r = Fields /\ (t.overlapped => r.overlapped)
      /\ AllLinked(t, aim) => Promise(r)
  BY <1>1, <1>2, navToKeepsPromise
<1>4. aim # << >>
  BY <1>2, TargetIsNode
<1>5. t' = [r EXCEPT !.overlapped = @ \/ t.target # << >>]
  BY <1>1 DEF Start
<1>6. t.overlapped \/ t.target # << >> \/ AllLinked(t, aim)
  BY DEF Promise, AllLinked
<1> QED
  BY <1>3, <1>4, <1>5, <1>6, OverlapKeepsPromise

\* The handler of hashchange, on each of its ways.
LEMMA HashChangeKeepsPromise ==
  ASSUME TreeOK(t), Promise(t), Proper(Aim(Url(page, hash))), HashChange
  PROVE  Promise(t') /\ (t' = t \/ t'.target # << >>)
<1>1. PICK aim : aim = TargetOf(Aim(Url(page, hash)))
  OBVIOUS
<1>2. aim # << >>
  BY <1>1, TargetIsNode
<1>3. CASE t' = t
  BY <1>3
<1>4. CASE t' = [navTo(t, Url(page, hash)) EXCEPT
                   !.overlapped = @ \/ ~AllLinked(t, TargetOf(Aim(Url(page, hash))))]
  <2>1. PICK r : r = navTo(t, Url(page, hash))
    OBVIOUS
  <2>2. r.target = aim /\ DOMAIN r = Fields /\ (AllLinked(t, aim) => Promise(r))
    BY <1>1, <2>1, navToKeepsPromise
  <2>3. t' = [r EXCEPT !.overlapped = @ \/ ~AllLinked(t, aim)]
    BY <1>1, <1>4, <2>1
  <2> QED
    BY <1>2, <2>2, <2>3, OverlapKeepsPromise
<1>5. CASE t' = navTo(Deselect(t), Url(page, hash))
  <2>1. PICK d : d = Deselect(t)
    OBVIOUS
  <2>2. TreeOK(d) /\ d.selected = {}
    BY <2>1, DeselectKeeps DEF TreeOK, Fields, Deselect
  <2>3. AllLinked(d, aim)
    BY <2>2 DEF AllLinked
  <2> QED
    BY <1>1, <1>2, <1>5, <2>1, <2>2, <2>3, navToKeepsPromise
<1> QED
  BY <1>3, <1>4, <1>5 DEF HashChange

\* An item that is clicked is the target, and can be seen.
LEMMA ClickItemKeepsPromise ==
  ASSUME TreeOK(t), Promise(t), NEW n \in Nodes \ {<< >>}, ClickItem(n)
  PROVE  Promise(t') /\ t'.target # << >>
<1>1. PICK r : r = IF n \in t.selected
                   THEN [t EXCEPT !.overlapped = @ \/ (Navigating /\ n # t.target)]
                   ELSE [Deselect(t) EXCEPT !.selected = {n}]
  OBVIOUS
<1>2. t' = [r EXCEPT !.target = n, !.closed = FALSE]
  BY <1>1 DEF ClickItem
<1>3. PICK u : u = [r EXCEPT !.target = n, !.closed = FALSE]
  OBVIOUS
<1>4. DOMAIN t = Fields
  BY DEF TreeOK
<1>5. t.made[n] > 0 /\ \A k \in 1 .. Len(n) - 1 : SubSeq(n, 1, k) \in t.expanded
  BY DEF ClickItem, Visible
<1>6. /\ DOMAIN r = Fields /\ r.scripts = t.scripts /\ r.breadcrumbs = t.breadcrumbs
      /\ r.expanded = t.expanded /\ r.made = t.made
      /\ n \in t.selected => /\ r.selected = t.selected
                             /\ r.overlapped <=> t.overlapped \/ (~Quiet(t) /\ n # t.target)
      /\ n \notin t.selected => r.selected = {n} /\ (r.overlapped <=> ~Quiet(t))
  BY <1>1, <1>4 DEF Deselect, Navigating, Quiet, Fields
<1>7. /\ u.target = n /\ u.closed = FALSE /\ u.overlapped = r.overlapped
      /\ u.selected = r.selected /\ u.scripts = t.scripts /\ u.breadcrumbs = t.breadcrumbs
      /\ u.expanded = t.expanded /\ u.made = t.made
  BY <1>3, <1>6 DEF Fields
<1>8. \A k \in Int : k <= Len(n) - 1 => OpenTo(u, k)
  <2>1. Len(n) \in Nat
    BY LinksAssumption
  <2> QED
    BY <1>5, <1>7, <2>1 DEF OpenTo
<1>9. n \in u.selected => Reached(u)
  <2>1. Len(n) - 1 \in Int
    BY LinksAssumption
  <2> QED
    BY <1>5, <1>7, <1>8, <2>1 DEF Reached
<1>10. Quiet(t) => Quiet(u)
  BY <1>7 DEF Quiet
<1>11. CASE n \notin t.selected
  <2>1. n \in u.selected /\ AllLinked(u, u.target)
    BY <1>6, <1>7, <1>11 DEF AllLinked
  <2> QED
    BY <1>2, <1>3, <1>6, <1>7, <1>9, <1>10, <1>11, <2>1 DEF Promise
<1>12. CASE n \in t.selected /\ ~u.overlapped
  <2>1. ~t.overlapped /\ (Quiet(t) \/ n = t.target)
    BY <1>6, <1>7, <1>12
  <2>2. /\ AllLinked(t, t.target)
        /\ Quiet(t) \/ \E i \in DOMAIN t.scripts : Alone(t, i) /\ Leads(t, t.scripts[i])
    BY <1>12, <2>1 DEF Promise
  <2>3. n \in u.selected /\ AllLinked(u, u.target)
    BY <1>6, <1>7, <1>12, <2>2 DEF AllLinked
  <2>4. CASE Quiet(t)
    BY <1>2, <1>3, <1>7, <1>9, <1>10, <2>3, <2>4 DEF Promise
  <2>5. ASSUME ~Quiet(t), NEW i \in DOMAIN t.scripts, Alone(t, i), Leads(t, t.scripts[i])
        PROVE  Promise(u)
    <3>1. n = t.target
      BY <2>1, <2>5
    <3>2. Alone(u, i)
      BY <1>7, <2>5 DEF Alone
    <3>3. PICK x : x = t.scripts[i]
      OBVIOUS
    <3>4. x.position \in 0 .. Len(n) - 1 => OpenTo(u, x.position - 1)
      <4>1. Len(n) \in Nat
        BY LinksAssumption
      <4> QED
        BY <1>8, <4>1
    <3>5. Leads(u, x)
      BY <1>7, <2>5, <3>1, <3>3, <3>4 DEF Leads, OnWay
    <3> QED
      BY <1>7, <2>3, <3>2, <3>3, <3>5 DEF Promise
  <2> QED
    BY <1>2, <1>3, <1>7, <2>2, <2>4, <2>5
<1>13. CASE u.overlapped
  BY <1>2, <1>3, <1>7, <1>13 DEF Promise
<1> QED
  BY <1>2, <1>3, <1>7, <1>11, <1>12, <1>13

\* The arrow of an item opens it, or closes it and ends what is promised of its sight.
LEMMA ClickArrowKeepsPromise ==
  ASSUME TreeOK(t), Promise(t), NEW n, ClickArrow(n)
  PROVE  Promise(t') /\ t'.target = t.target
<1>1. PICK u : u = [t EXCEPT !.expanded = @ \ {n}, !.closed = TRUE]
  OBVIOUS
<1>2. CASE t' = u
  <2>1. /\ u.target = t.target /\ u.closed = TRUE /\ u.overlapped = t.overlapped
        /\ u.selected = t.selected /\ u.scripts = t.scripts /\ u.breadcrumbs = t.breadcrumbs
    BY <1>1 DEF TreeOK, Fields
  <2>2. /\ Quiet(t) => Quiet(u)
        /\ \A i : Alone(t, i) => Alone(u, i)
        /\ AllLinked(t, t.target) => AllLinked(u, u.target)
        /\ Reached(t) => Reached(u)
        /\ \A x : Leads(t, x) => Leads(u, x)
    BY <2>1 DEF Quiet, Alone, AllLinked, Reached, Leads, OnWay, OpenTo
  <2> QED
    BY <1>2, <2>1, <2>2 DEF Promise
<1>3. CASE t' = expandNode(t, n)
  <2>1. PICK r : r = expandNode(t, n)
    OBVIOUS
  <2>2. Grown(t, r) /\ TreeOK(r)
    BY <2>1, expandGrows, expandNodeKeeps DEF TreeOK
  <2> QED
    BY <1>3, <2>1, <2>2, GrownKeepsPromise DEF Grown, SameHistory
<1> QED
  BY <1>1, <1>2, <1>3 DEF ClickArrow

-----------------------------------------------------------------------------
(* The promise as an invariant *)

\* The links that are kept for later, and the first navigation.
LinksKept ==
  /\ loadUrl \in Anchors
  /\ navpath # NONE => Proper(navpath)
  /\ starts > 0 => t.target # << >>
\* The inductive invariant of the navigation.
ShownInv == PageInv /\ Promise(t) /\ LinksKept

\* The anchors of a page make proper links, and so does what is stored.
LEMMA ProperLinks ==
  /\ \A p : \A anchor \in AnchorsOf(p) \cup {NONE} : Proper(Url(p, anchor))
  /\ \A q \in Nodes \ {<< >>} : Proper(Link[q])
<1>1. ASSUME NEW p, NEW anchor \in AnchorsOf(p) \cup {NONE}
      PROVE  Proper(Url(p, anchor))
  <2>1. CASE anchor = NONE
    BY <2>1 DEF Proper, Url
  <2>2. CASE anchor # NONE
    <3>1. PICK q \in Nodes \ {<< >>} : Link[q][1] = p /\ Link[q][2] = anchor
      BY <2>2 DEF AnchorsOf
    <3> QED
      BY <3>1, LinksAssumption DEF Proper
  <2> QED
    BY <2>1, <2>2
<1> QED
  BY <1>1 DEF Proper

\* What the page aims at, its own link or the stored one, is proper.
LEMMA AimIsProper ==
  ASSUME navpath # NONE => Proper(navpath), NEW anchor \in Anchors
  PROVE  Proper(Aim(Url(page, anchor)))
  BY ProperLinks DEF Aim, Anchors

\* The first page.
LEMMA InitShownInv == Init => ShownInv
<1> SUFFICES ASSUME Init PROVE ShownInv
  OBVIOUS
<1>1. FreshTree.target = << >> /\ FreshTree.selected = {} /\ Quiet(FreshTree)
  BY DEF FreshTree, Quiet
<1>2. Promise(t)
  BY <1>1 DEF Init, Promise
<1>3. LinksKept
  BY DEF Init, LinksKept, Anchors
<1> QED
  BY <1>2, <1>3, InitPageInv DEF ShownInv

\* Every step keeps the promise.
LEMMA NextShownInv == ShownInv /\ [Next]_vars => ShownInv'
<1> SUFFICES ASSUME ShownInv, [Next]_vars PROVE ShownInv'
  OBVIOUS
<1>1. /\ PageInv /\ PageInv' /\ TreeOK(t) /\ Promise(t) /\ LinksKept
      /\ page \in Pages /\ hash \in Anchors
  BY NextPageInv DEF ShownInv, PageInv, AnchorsKnown
<1> SUFFICES Promise(t)' /\ LinksKept'
  BY <1>1 DEF ShownInv
<1>2. ASSUME t' = t PROVE Promise(t)'
  BY <1>1, <1>2
<1>3. ASSUME UNCHANGED <<page, loadUrl, starts>>, navpath' # NONE => Proper(navpath'),
             t' = t \/ t'.target # << >>
      PROVE  LinksKept'
  BY <1>1, <1>3 DEF LinksKept, Anchors
<1>4. UNCHANGED navpath => (navpath' # NONE => Proper(navpath'))
  BY <1>1 DEF LinksKept
<1>5. ASSUME NEW n \in Nodes \ {<< >>}, storeLink(Link[n])
      PROVE  navpath' # NONE => Proper(navpath')
  BY <1>1, <1>5, ProperLinks DEF storeLink, LinksKept
<1>6. ASSUME NEW p, NEW anchor, EnterPage(p, anchor), navpath' # NONE => Proper(navpath')
      PROVE  Promise(t)' /\ LinksKept'
  <2>1. FreshTree.target = << >> /\ FreshTree.selected = {} /\ Quiet(FreshTree)
    BY DEF FreshTree, Quiet
  <2>2. Promise(FreshTree)
    BY <2>1 DEF Promise
  <2>3. t' = FreshTree /\ loadUrl' = NONE /\ starts' = 0
    BY <1>6 DEF EnterPage
  <2> QED
    BY <1>6, <2>2, <2>3 DEF LinksKept, Anchors
<1>7. \A anchor \in Anchors : Proper(Aim(Url(page, anchor)))
  BY <1>1, AimIsProper DEF LinksKept
<1>8. ASSUME NEW anchor \in Anchors, Start(anchor)
      PROVE  Promise(t)' /\ t'.target # << >>
  BY <1>1, <1>7, <1>8, StartKeepsPromise
<1>9. CASE LoadEvent
  <2>1. CASE ready
    BY <1>1, <1>4, <1>8, <1>9, <2>1 DEF LoadEvent, LinksKept, Anchors, hashVars, syncVars
  <2>2. CASE ~ready
    BY <1>1, <1>4, <1>9, <2>2 DEF LoadEvent, LinksKept, Anchors, hashVars, syncVars
  <2> QED
    BY <2>1, <2>2
<1>10. CASE initNavTree
  <2>1. CASE load
    BY <1>1, <1>4, <1>8, <1>10, <2>1 DEF initNavTree, LinksKept, Anchors, hashVars
  <2>2. CASE ~load
    BY <1>1, <1>4, <1>10, <2>2 DEF initNavTree, LinksKept, Anchors, hashVars
  <2> QED
    BY <2>1, <2>2
<1>11. CASE ScriptLoaded
  <2>1. PICK i \in DOMAIN t.scripts :
          t' = Callback([t EXCEPT !.scripts = SubSeq(@, 1, i - 1) \o SubSeq(@, i + 1, Len(@))],
                        t.scripts[i])
    BY <1>11 DEF ScriptLoaded
  <2>2. PICK u : u = [t EXCEPT !.scripts = SubSeq(@, 1, i - 1) \o SubSeq(@, i + 1, Len(@))]
    OBVIOUS
  <2>3. SameHistory(t, t') /\ Promise(t')
    BY <1>1, <2>1, <2>2, CallbackKeepsPromise
  <2>4. UNCHANGED <<page, loadUrl, starts, navpath>>
    BY <1>11 DEF ScriptLoaded, pageVars, syncVars
  <2> QED
    BY <1>1, <1>4, <2>3, <2>4 DEF LinksKept, Anchors, SameHistory
<1>12. CASE \E n \in Nodes \ {<< >>} : ClickArrow(n)
  <2>1. Promise(t') /\ t'.target = t.target
    BY <1>1, <1>12, ClickArrowKeepsPromise
  <2>2. UNCHANGED <<page, loadUrl, starts, navpath>>
    BY <1>12 DEF ClickArrow, pageVars, syncVars
  <2> QED
    BY <1>1, <1>4, <2>1, <2>2 DEF LinksKept, Anchors
<1>13. CASE \E n \in Nodes \ {<< >>} : ClickItem(n)
  <2>1. PICK n \in Nodes \ {<< >>} : ClickItem(n)
    BY <1>13
  <2>2. Promise(t') /\ t'.target # << >>
    BY <1>1, <2>1, ClickItemKeepsPromise
  <2>3. UNCHANGED <<page, loadUrl, starts>> /\ storeLink(Link[n])
    BY <2>1 DEF ClickItem, pageVars
  <2> QED
    BY <1>3, <1>5, <2>2, <2>3
<1>14. CASE \E n \in Nodes \ {<< >>} : FollowItem(n)
  BY <1>5, <1>6, <1>14 DEF FollowItem
<1>15. CASE AnimationEnds
  BY <1>2, <1>3, <1>4, <1>15 DEF AnimationEnds, syncVars
<1>16. CASE UserGoes
  BY <1>2, <1>3, <1>4, <1>16 DEF UserGoes, syncVars
<1>17. CASE HashChange
  <2>1. Promise(t') /\ (t' = t \/ t'.target # << >>)
    BY <1>1, <1>7, <1>17, HashChangeKeepsPromise
  <2>2. UNCHANGED <<page, loadUrl, starts, navpath>>
    BY <1>17 DEF HashChange, pageVars, syncVars
  <2> QED
    BY <1>3, <1>4, <2>1, <2>2
<1>18. CASE toggleSyncButton
  <2>1. navpath' # NONE => Proper(navpath')
    BY <1>1, <1>18, ProperLinks DEF toggleSyncButton, Anchors
  <2> QED
    BY <1>2, <1>3, <1>18, <2>1 DEF toggleSyncButton, pageVars
<1>19. CASE NewPage
  BY <1>4, <1>6, <1>19 DEF NewPage
<1>20. CASE UNCHANGED vars
  BY <1>2, <1>3, <1>4, <1>20 DEF vars
<1> QED
  BY <1>9, <1>10, <1>11, <1>12, <1>13, <1>14, <1>15, <1>16, <1>17, <1>18, <1>19, <1>20 DEF Next

\* The promise holds in every reachable state.
LEMMA ShownInvAlways == Spec => []ShownInv
  BY InitShownInv, NextShownInv, PTL DEF Spec

-----------------------------------------------------------------------------
(* Theorems *)

\* However the callbacks of the scripts, the clicks and the navigations follow each
\* other, every item of a node is made when the node is first visited, and never again.
THEOREM OneItemPerNode == Spec => []ItemsMadeOnce
<1>1. PageInv => ItemsMadeOnce
  BY DEF PageInv, TreeOK, OneItemEach, ItemsMadeOnce
<1> QED
  BY <1>1, PageInvAlways, PTL

\* The page navigates to itself once, whether its parts or initNavTree come first.
THEOREM StartsExactlyOnce == Spec => []StartsOnce
<1>1. PageInv => StartsOnce
  BY DEF PageInv
<1> QED
  BY <1>1, PageInvAlways, PTL

\* The button and the link that outlives the pages agree.
THEOREM SyncShowsStored == Spec => []SyncIsStored
<1>1. PageInv => SyncIsStored
  BY DEF PageInv, SyncOK
<1> QED
  BY <1>1, PageInvAlways, PTL

\* Once everything has been loaded and handled, the node last asked for is selected,
\* together with none but those of its link, and can be seen unless the user has closed
\* a node since.
THEOREM TargetIsShown == Spec => []ShowsTarget
<1>1. ShownInv => ShowsTarget
  <2> SUFFICES ASSUME ShownInv, Settled, ~t.overlapped
               PROVE  /\ t.target \in t.selected /\ AllLinked(t, t.target)
                      /\ t.closed \/ Visible(t.target)
    BY DEF ShowsTarget
  <2>1. Quiet(t) /\ t.target # << >>
    BY DEF Settled, Navigating, Quiet, ShownInv, LinksKept
  <2>2. AllLinked(t, t.target) /\ Reached(t)
    BY <2>1 DEF ShownInv, Promise, Alone, Quiet
  <2> QED
    BY <2>2 DEF Reached, OpenTo, Visible
<1> QED
  BY <1>1, ShownInvAlways, PTL

=============================================================================
