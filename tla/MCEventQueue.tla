---------------------------- MODULE MCEventQueue -----------------------------
(* Model checking of EventQueue: objects of which some have a destructor, and *)
(* some are referred to by events, and maybe both; three cells, as many as    *)
(* there are events at a time.                                                *)
EXTENDS EventQueue, TLC

\* Any free cell may be the one cons returns.
MCSymmetry == Permutations(Cell)
=============================================================================
