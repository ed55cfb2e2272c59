SPECIFICATION Spec
CONSTANTS
  a = a
  b = b
  c = c
  d = d
  lib = lib
  sa = sa
  sb = sb
  sl = sl
  sk = sk
  File = {a, b, c, d, lib}
  Shared = {lib}
  Symbol = {sa, sb, sl, sk}
  Known = {sk}
  Initial = {a, b, c, lib}
  Failing = {"on_unlink", "on_init"}
  Underscore = FALSE
  Defines <- MCDefines
  Refers <- MCRefers
INVARIANTS OpenBundlesLinked AccessibleIsLinked ExecutableIsFound
