SPECIFICATION Spec
CONSTANTS
  Handler = {h1, h2, h3}
  Cell = {c1, c2, c3}
  head = head
  NIL = NIL
  Carried = {h1, h2}
  Destructible = {h1}
INVARIANTS TypeOK TailIsLast 
PROPERTIES LivingLoseNothing CallsReturn
SYMMETRY MCSymmetry
