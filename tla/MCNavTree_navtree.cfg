\* The pages index.html and client_8c.html.
SPECIFICATION Spec
CONSTANTS
  NONE = NONE
  Nodes <- SmallNodes
  Lazy <- SmallLazy
  Link <- SmallLink
  Index <- SmallIndex
  Pages = {"index", "client"}
  IndexPages = {"index"}
  MaxScripts = 2
  MaxEvents = 1
INVARIANTS ItemsMadeOnce StartsOnce ShowsTarget SyncIsStored
CHECK_DEADLOCK FALSE
