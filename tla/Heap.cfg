SPECIFICATION Spec
CONSTANTS
  Cells = 3
  Slots = 1
  Name = {n1}
  NIL = NIL
  High = 16
  Starts = 4
  Fallible = {1, 2}
  FailInSlots = FALSE
  Watched = {1}
  MaxOps = 3
  AsObject = {1, 2}
  AsCons = {1, 3}
INVARIANT CountsRight
PROPERTIES DestructorsOnce LivingSurvive DisposedBeforeFreed
