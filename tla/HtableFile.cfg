SPECIFICATION Spec
CONSTANTS
  k1 = k1
  k2 = k2
  k3 = k3
  t1 = t1
  t2 = t2
  NIL = NIL
  Plain = {k1, k2, k3}
  Table = {t1}
  Key = {k1, k2, k3}
  Value = {k3}
  Mortal = {k1}
  File <- MCFileElsewhere
  Hash <- MCHash
  Size = 2
  MaxHeld = 1
  MaxTotal = 4
INVARIANT AssociationsRemoved
