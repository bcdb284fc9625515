------------------------------ MODULE NavTree ------------------------------
(***************************************************************************)
(* The navigation tree of the documentation's pages: docs/navtree.js.  Its *)
(* items are made when their parent is first opened, and parts of its data *)
(* are scripts that are loaded when they are needed, so that a handler goes*)
(* on in the callback of a script, with the state it then finds.           *)
(*                                                                         *)
(* A node is the sequence of its positions below o.node, which is << >>.   *)
(* The handlers call each other and are operators on t, a record of what   *)
(* they share:                                                             *)
(*                                                                         *)
(*   data         the nodes whose childrenData has been replaced by what   *)
(*                its script contains                                      *)
(*   visited, expanded   the nodes with childrenVisited and expanded       *)
(*   made         how many items have been made for each node              *)
(*   selected     the nodes whose item has the class selected              *)
(*   breadcrumbs  o.breadcrumbs                                            *)
(*   index        navTreeSubIndices has been loaded                        *)
(*   scripts      the callbacks of the scripts that are being loaded       *)
(*   target       history: the node last asked for                         *)
(*   closed       history: the user has closed a node since                *)
(*   overlapped   history: a node was asked for while the scripts of an    *)
(*                earlier one were being loaded, or another one remained   *)
(*                selected because the page had not shown itself yet, or   *)
(*                because a stored link took the place of the hash         *)
(*                                                                         *)
(* Layout, highlighting and scrolling are left out, but for the animation  *)
(* that ends with a new hash; so are the anchors of source lines, which    *)
(* navTo takes off, and links that sort before the whole index, which are  *)
(* those of the page index.html under the name of its directory.           *)
(***************************************************************************)
EXTENDS Integers, Sequences, FiniteSets

CONSTANTS
  NONE,          \* no anchor, no stored link
  Nodes,         \* the nodes of the whole tree
  Lazy,          \* those whose childrenData is the name of a script
  Link,          \* the link of a node, a page and an anchor
  Index,         \* NAVTREEINDEX0: the node of a link, from the root on
  Pages,         \* bound: the pages that load navtree.js
  IndexPages,    \* those of them named index, pages or search
  MaxScripts,    \* bound: scripts that are loaded at the same time
  MaxEvents      \* bound: hash changes not handled yet, and animations

Parent(q) == SubSeq(q, 1, Len(q) - 1)
ChildrenOf == [n \in Nodes |-> {q \in Nodes \ {<< >>} : Parent(q) = n}]
Children(n) == IF n \in Nodes THEN ChildrenOf[n] ELSE {}
Url(page, anchor) == <<page, anchor>>
AnchorsOf(page) == {Link[q][2] : q \in {q \in Nodes \ {<< >>} : Link[q][1] = page}} \ {NONE}

ASSUME NavTreeAssumption ==
  /\ << >> \in Nodes /\ <<0>> \in Nodes /\ IsFiniteSet(Nodes)
  /\ \A q \in Nodes \ {<< >>} : Parent(q) \in Nodes
  /\ Lazy \subseteq {q \in Nodes \ {<< >>, <<0>>} : Children(q) # {}}
  /\ \A url \in DOMAIN Index : <<0>> \o Index[url] \in Nodes
  /\ \A q \in Nodes \ {<< >>} : Link[q] # NONE
  /\ \A p \in Pages : \A anchor \in AnchorsOf(p) \cup {NONE} : Url(p, anchor) # NONE
  /\ MaxScripts \in Nat /\ MaxEvents \in Nat

\* What the generated data keeps to: an anchor belongs to one page, and the index
\* leads from an anchor to a node that has this link.
ASSUME LinksAssumption ==
  /\ Nodes \subseteq Seq(Nat)
  /\ \A url \in DOMAIN Index : Index[url] \in Seq(Nat)
  /\ \A q \in Nodes \ {<< >>} : Link[q] = Url(Link[q][1], Link[q][2])
  /\ \A p, q \in Nodes \ {<< >>} :
       Link[p][2] # NONE /\ Link[p][2] = Link[q][2] => Link[p] = Link[q]
  /\ \A q \in Nodes \ {<< >>} :
       Link[q][2] # NONE => /\ Link[q] \in DOMAIN Index
                            /\ Link[<<0>> \o Index[Link[q]]] = Link[q]

VARIABLES
  t,           \* the tree, as above
  page,        \* the page that is displayed
  hash,        \* its anchor, location.hash
  navpath,     \* localStorage.navpath, which outlives the page
  sync,        \* the button nav-sync has the class sync
  load,        \* loadTriggered
  ready,       \* initNavTree has been called
  loadUrl,     \* the anchor when initNavTree was called, until the page is loaded
  starts,      \* how often navTo has been called for the page itself
  animations,  \* the anchors to which the document scrolls, one after the other
  animationInProgress,
  changes      \* hashchange events that have not been handled

vars == <<t, page, hash, navpath, sync, load, ready, loadUrl, starts,
          animations, animationInProgress, changes>>
pageVars == <<page, hash, load, ready, loadUrl, starts>>
hashVars == <<animations, animationInProgress, changes>>
syncVars == <<navpath, sync>>

FreshTree ==
  [data |-> {}, visited |-> {}, expanded |-> {}, selected |-> {},
   made |-> [q \in Nodes |-> 0], breadcrumbs |-> << >>, index |-> FALSE,
   scripts |-> << >>, target |-> << >>, closed |-> FALSE, overlapped |-> FALSE]

---------------------------------------------------------------------------
(* The tree. *)

Unloaded(s, n) == n \in Lazy \ s.data

\* A script and what its callback will do: expand node, show node with the
\* breadcrumb of a position, the same once child is loaded, or go to a link.
Script(kind, node, child, position, url) ==
  [kind |-> kind, node |-> node, child |-> child, position |-> position, url |-> url]
getScript(s, script) == [s EXCEPT !.scripts = Append(@, script)]
Navigates(script) == script.kind # "expand"

\* Faulty: makes the items of a node again when it is opened again.
MakeAgain(s, S) ==
  [s EXCEPT !.visited = @ \cup S,
            !.made = [q \in Nodes |-> IF \E n \in S : q \in Children(n) THEN @[q] + 1 ELSE @[q]]]

\* getNode for the nodes of S that have not been visited.
getNodes(s, S) ==
  [s EXCEPT !.visited = @ \cup S,
            !.made = [q \in Nodes |->
                        IF \E n \in S \ s.visited : q \in Children(n) THEN @[q] + 1 ELSE @[q]]]

Open(s, S) == [getNodes(s, S) EXCEPT !.expanded = @ \cup S]

expandNode(s, n) ==
  IF Children(n) = {} \/ n \in s.expanded THEN s
  ELSE IF Unloaded(s, n)
       THEN getScript(s, Script("expand", n, n, 0, Url(NONE, NONE)))
       ELSE Open(s, {n})

\* The items made whose link is an anchor of the page.
ItemsOf(s, anchor) ==
  {q \in Nodes \ {<< >>} : anchor # NONE /\ s.made[q] > 0 /\ Link[q] = Url(page, anchor)}

\* Everything selected has the link of n.
AllLinked(s, n) == \A q \in s.selected : Link[q] = Link[n]

selectAndHighlight(s, anchor, n) ==
  [s EXCEPT !.selected = @ \cup IF ItemsOf(s, anchor) # {} THEN ItemsOf(s, anchor) ELSE n]

\* showNode goes down along the breadcrumbs from a node on, opening what it meets,
\* until there is nothing below, a script has to be loaded, or the last breadcrumb
\* is reached.  A child that does not exist there is an exception.
showNode(s, node, position, url) ==
  LET crumbs == s.breadcrumbs
      At(k) == node \o SubSeq(crumbs, position + 1, k)
      Stops(k) == Children(At(k)) = {} \/ Unloaded(s, At(k)) \/ k + 1 >= Len(crumbs)
      stop == CHOOSE k \in position .. position + Len(crumbs) :
                Stops(k) /\ \A j \in position .. k - 1 : ~Stops(j)
      here == At(stop)
      shown == Open(s, {At(k) : k \in {k \in position .. stop :
                                         Children(At(k)) # {} /\ ~Unloaded(s, At(k))}})
      n == IF stop < Len(crumbs) THEN Append(here, crumbs[stop + 1]) ELSE << >>
  IN  IF Children(here) = {} THEN selectAndHighlight(shown, url[2], {})
      ELSE IF Unloaded(s, here) THEN getScript(shown, Script("show", here, here, stop, url))
      ELSE IF n \notin Children(here) THEN shown
      ELSE IF Unloaded(s, n) THEN getScript(shown, Script("child", here, n, stop, url))
      ELSE selectAndHighlight(IF page \in IndexPages THEN expandNode(shown, n) ELSE shown,
                              url[2], {n})

\* The entry of a link, or that of its page.  If there is neither, $.extend makes
\* an empty list of nothing, and what is meant as a fallback is never done.
Lookup(url) ==
  IF url \in DOMAIN Index THEN Index[url]
  ELSE IF Url(url[1], NONE) \in DOMAIN Index THEN Index[Url(url[1], NONE)]
  ELSE << >>

TargetOf(url) == <<0>> \o Lookup(url)

gotoNode(s, url) ==
  showNode([s EXCEPT !.breadcrumbs = TargetOf(url)], << >>, 0, url)

\* The stored link takes the place of the one that is asked for.
Aim(url) == IF navpath # NONE THEN navpath ELSE url

navTo(s, url) ==
  LET aim == Aim(url)
      asked == [s EXCEPT !.target = TargetOf(aim), !.closed = FALSE,
                         !.overlapped = @ \/ \E i \in DOMAIN s.scripts : Navigates(s.scripts[i])]
  IN  IF s.index THEN gotoNode(asked, aim)
      ELSE getScript(asked, Script("index", << >>, << >>, 0, aim))

\* What the callback of a script does.
Callback(s, script) ==
  CASE script.kind = "expand" ->
         expandNode([s EXCEPT !.data = @ \cup {script.node}], script.node)
    [] script.kind = "show" ->
         showNode([s EXCEPT !.data = @ \cup {script.node}],
                  script.node, script.position, script.url)
    [] script.kind = "child" ->
         showNode([s EXCEPT !.data = @ \cup {script.child}, !.expanded = @ \ {script.node}],
                  script.node, script.position, script.url)
    [] script.kind = "index" -> gotoNode([s EXCEPT !.index = TRUE], script.url)

\* Faulty: leaves the item that was selected.
KeepSelected(s) ==
  [s EXCEPT !.overlapped = \E i \in DOMAIN s.scripts : Navigates(s.scripts[i])]

Deselect(s) ==
  [s EXCEPT !.selected = {},
            !.overlapped = \E i \in DOMAIN s.scripts : Navigates(s.scripts[i])]

---------------------------------------------------------------------------
(* The page. *)

Init ==
  /\ t = FreshTree
  /\ page \in Pages
  /\ hash \in AnchorsOf(page) \cup {NONE}
  /\ navpath = NONE
  /\ sync = TRUE
  /\ load = FALSE
  /\ ready = FALSE
  /\ loadUrl = NONE
  /\ starts = 0
  /\ animations = << >>
  /\ animationInProgress = FALSE
  /\ changes = 0

Bounded == Len(t.scripts) <= MaxScripts

\* The page shows itself when its parts are loaded and when initNavTree has been
\* called, whichever comes last; by the time it is loaded, the anchor may no
\* longer be the one that initNavTree found.
Start(anchor) ==
  /\ t' = [navTo(t, Url(page, anchor)) EXCEPT !.overlapped = @ \/ t.target # << >>]
  /\ starts' = starts + 1

\* Faulty: does not wait for initNavTree.
LoadStarts ==
  /\ ~load
  /\ load' = TRUE
  /\ Start(hash)
  /\ UNCHANGED <<page, hash, ready, loadUrl, hashVars, syncVars>>

LoadEvent ==
  /\ ~load
  /\ load' = TRUE
  /\ IF ready THEN Start(loadUrl) ELSE UNCHANGED <<t, starts>>
  /\ loadUrl' = NONE
  /\ UNCHANGED <<page, hash, ready, hashVars, syncVars>>

initNavTree ==
  /\ ~ready
  /\ ready' = TRUE
  /\ sync' = (navpath = NONE)
  /\ IF load THEN Start(hash) /\ UNCHANGED loadUrl
             ELSE loadUrl' = hash /\ UNCHANGED <<t, starts>>
  /\ UNCHANGED <<page, hash, load, hashVars, navpath>>

ScriptLoaded ==
  /\ \E i \in DOMAIN t.scripts :
       t' = Callback([t EXCEPT !.scripts = SubSeq(@, 1, i - 1) \o SubSeq(@, i + 1, Len(@))],
                     t.scripts[i])
  /\ UNCHANGED <<pageVars, hashVars, syncVars>>

\* The items the user can see: those below nodes that are all expanded.
Visible(n) ==
  /\ t.made[n] > 0
  /\ \A k \in 1 .. Len(n) - 1 : SubSeq(n, 1, k) \in t.expanded

\* The arrow before an item.
ClickArrow(n) ==
  /\ ready /\ Visible(n) /\ Children(n) # {}
  /\ t' = IF n \in t.expanded
          THEN [t EXCEPT !.expanded = @ \ {n}, !.closed = TRUE]
          ELSE expandNode(t, n)
  /\ Bounded'
  /\ UNCHANGED <<pageVars, hashVars, syncVars>>

\* Faulty: does not look at the button.
StoreAlways(url) == navpath' = url

storeLink(url) == navpath' = IF sync THEN navpath ELSE url

Navigating == \E i \in DOMAIN t.scripts : Navigates(t.scripts[i])

\* An item whose link is an anchor of the page: the document scrolls there.  The
\* anchor may be in the tree and not on the page.
ClickItem(n) ==
  /\ ready /\ Visible(n) /\ Link[n][1] = page /\ Link[n][2] # NONE
  /\ storeLink(Link[n])
  /\ t' = [(IF n \in t.selected
            THEN [t EXCEPT !.overlapped = @ \/ (Navigating /\ n # t.target)]
            ELSE [Deselect(t) EXCEPT !.selected = {n}])
             EXCEPT !.target = n, !.closed = FALSE]
  /\ Len(animations) < MaxEvents
  /\ animations' = Append(animations, Link[n][2])
  /\ animationInProgress' = TRUE
  /\ UNCHANGED <<pageVars, changes, sync>>

SetHash(anchor) ==
  /\ hash' = anchor
  /\ changes' = IF anchor = hash THEN changes ELSE changes + 1

AnimationEnds ==
  /\ animations # << >> /\ changes < MaxEvents
  /\ SetHash(Head(animations))
  /\ animations' = Tail(animations)
  /\ animationInProgress' = FALSE
  /\ UNCHANGED <<t, page, load, ready, loadUrl, starts, syncVars>>

\* A link in the text of the page, or the button of the browser that goes back.
UserGoes ==
  /\ changes < MaxEvents
  /\ \E anchor \in (AnchorsOf(page) \cup {NONE}) \ {hash} : SetHash(anchor)
  /\ UNCHANGED <<t, page, load, ready, loadUrl, starts, animations,
                 animationInProgress, syncVars>>

\* The handler of hashchange, which finds the hash there is by then.  Before
\* initNavTree it does not exist.
HashChange ==
  /\ changes > 0
  /\ changes' = changes - 1
  /\ t' = IF ~ready \/ (hash = NONE /\ animationInProgress) THEN t
          ELSE IF ItemsOf(t, hash) \cap t.selected # {}
          THEN [navTo(t, Url(page, hash)) EXCEPT
                  !.overlapped = @ \/ ~AllLinked(t, TargetOf(Aim(Url(page, hash))))]
          ELSE navTo(Deselect(t), Url(page, hash))
  /\ Bounded'
  /\ UNCHANGED <<pageVars, animations, animationInProgress, syncVars>>

toggleSyncButton ==
  /\ ready
  /\ sync' = ~sync
  /\ navpath' = IF sync THEN Url(page, hash) ELSE NONE
  /\ UNCHANGED <<t, pageVars, hashVars>>

\* Another page is displayed, or this one anew: only localStorage stays.
EnterPage(p, anchor) ==
  /\ page' = p
  /\ hash' = anchor
  /\ t' = FreshTree
  /\ sync' = TRUE
  /\ load' = FALSE
  /\ ready' = FALSE
  /\ loadUrl' = NONE
  /\ starts' = 0
  /\ animations' = << >>
  /\ animationInProgress' = FALSE
  /\ changes' = 0

\* A link in the text of the page.
NewPage ==
  /\ \E p \in Pages \ {page} : EnterPage(p, NONE)
  /\ UNCHANGED navpath

\* An item whose link is not an anchor of the page.
FollowItem(n) ==
  /\ ready /\ Visible(n)
  /\ Link[n][1] \in Pages
  /\ Link[n][1] # page \/ Link[n][2] = NONE
  /\ storeLink(Link[n])
  /\ EnterPage(Link[n][1], Link[n][2])

Next ==
  \/ LoadEvent
  \/ initNavTree
  \/ ScriptLoaded
  \/ \E n \in Nodes \ {<< >>} : ClickArrow(n) \/ ClickItem(n) \/ FollowItem(n)
  \/ AnimationEnds
  \/ UserGoes
  \/ HashChange
  \/ toggleSyncButton
  \/ NewPage

Spec == Init /\ [][Next]_vars

---------------------------------------------------------------------------
(* Properties. *)

\* Every item is made once, however many callbacks wait for the same script and
\* in whatever order a click and a navigation open its parent.
ItemsMadeOnce == 
  \A q \in Nodes : t.made[q] = IF \E n \in t.visited : q \in Children(n) THEN 1 ELSE 0

\* The page shows itself once it is loaded and initialised, and only once,
\* whichever of the two comes first.
StartsOnce == starts = IF load /\ ready THEN 1 ELSE 0

Settled == starts > 0 /\ ~Navigating /\ changes = 0 /\ animations = << >>

\* When everything has been loaded, the item last asked for is selected, with no
\* other one than items of the same link, and it can be seen until the user closes
\* a node; unless a page was asked for while the scripts of another were still
\* being loaded, which share their breadcrumbs.
ShowsTarget ==
  (Settled /\ ~t.overlapped) =>
    /\ t.target \in t.selected /\ AllLinked(t, t.target)
    /\ t.closed \/ Visible(t.target)

\* The button shows whether a link is stored, which stays from page to page.
SyncIsStored == ready => (sync <=> navpath = NONE)
=============================================================================
