SPECIFICATION Spec
CONSTANTS
  Handler = {h1, h2}
  Cell = {c1, c2, c3}
  head = head
  NIL = NIL
  Carried = {}
  Destructible = {}
INVARIANTS WeakPointersSafe PeekGivesHandler
PROPERTIES ImplementsWeakQueue
