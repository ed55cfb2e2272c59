SPECIFICATION Spec
CONSTANTS
  object = object
  a = a
  f1 = f1
  f2 = f2
  destroy = destroy
  unknown = unknown
  NIL = NIL
  Class = {object, a}
  Root = object
  Selector = {destroy, unknown}
  Function = {f1, f2}
  Compiled = {a}
  Final = {a}
  Mortal = {f1}
  Definable <- MCDefinable
  Depth = 2
INVARIANTS TypeOK CacheCoherent CalledAreAlive
PROPERTIES AllDestructorsRun ImplementsInheritance
