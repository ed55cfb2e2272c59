------------------------------ MODULE MCTimers -------------------------------
(* Model checking of Timers: two handlers, three blocks, a second of  *)
(* two milliseconds, so that the dates 0 s + 2 ms and 1 s + 0 ms both occur. *)
EXTENDS Timers, TLC

MCOneDate == {[sec |-> 1, msec |-> 0]}
=============================================================================
