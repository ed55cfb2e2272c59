------------------------------ MODULE MCMethods -------------------------------
(* Model checking of Methods: the class object and one below it, the selectors *)
(* that the code itself sends, two functions, one of which may be deleted.     *)
EXTENDS Methods

CONSTANTS object, a, f1, f2

MCDefinable ==
  {<<object, destroy, f1>>, <<a, destroy, f2>>, <<a, unknown, f2>>}
=============================================================================
