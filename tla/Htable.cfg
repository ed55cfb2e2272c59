SPECIFICATION Spec
CONSTANTS
  k1 = k1
  k2 = k2
  k3 = k3
  t1 = t1
  t2 = t2
  NIL = NIL
  Plain = {k1, k2, k3}
  Table = {t1, t2}
  Key = {k1, k2, k3}
  Value = {k2}
  Mortal = {k1}
  File <- MCFile
  Hash <- MCHash
  Size = 2
  MaxHeld = 1
  MaxTotal = 4
SYMMETRY MCSymmetry
INVARIANTS
  TypeOK
  FreedWithLastReference
  AssociationsRemoved
  WeakKeysRegistered
  KeysAreFound
  NothingWild
