-------------------------------- MODULE EvTime -------------------------------
(***************************************************************************)
(* Dates and delays of the timers of event.c: the type evtime_t and the    *)
(* arithmetic on it.  A date is a number of seconds and of milliseconds.   *)
(* The carry loops of evtime_add and evtime_sub run while msec > 1000, so  *)
(* that 5 s + 1000 ms is a date the program does produce, beside 6 s + 0.  *)
(* Second stands for that 1000.  Dates before the epoch, and the overflow  *)
(* of long and int, are left out.                                          *)
(***************************************************************************)
EXTENDS Integers

CONSTANT Second        \* milliseconds in a second

ASSUME SecondAssumption == Second \in Nat \ {0}

\* What evtime_now and timer_abs give: proper dates.
Proper == [sec : Int, msec : 0..(Second - 1)]

\* What evtime_add gives.
evtime_t == [sec : Int, msec : 0..Second]

\* The date in milliseconds: the reference the arithmetic is checked against.
Instant(t) == t.sec * Second + t.msec

evtime_now(clock) == [sec |-> clock \div Second, msec |-> clock % Second]

\* Mutant: the milliseconds alone are compared.
CmpMsec(t1, t2) ==
  IF t1.msec < t2.msec THEN -1 ELSE IF t1.msec > t2.msec THEN 1 ELSE 0

evtime_cmp(t1, t2) ==
  CASE t1.sec < t2.sec -> -1
    [] t1.sec > t2.sec -> 1
    [] t1.sec = t2.sec /\ t1.msec < t2.msec -> -1
    [] t1.sec = t2.sec /\ t1.msec > t2.msec -> 1
    [] OTHER -> 0

\* Mutant: no carry.
NoCarry(sec, msec) == [sec |-> sec, msec |-> msec]

\* while (msec > 1000) { sec += 1; msec -= 1000; }
Carry(sec, msec) ==
  LET k == IF msec > Second THEN (msec - 1) \div Second ELSE 0
  IN  [sec |-> sec + k, msec |-> msec - k * Second]

evtime_add(t1, t2) == Carry(t1.sec + t2.sec, t1.msec + t2.msec)

\* Mutant: a second is not borrowed.
SubWithoutBorrow(t1, t2) == Carry(t1.sec - t2.sec, t1.msec + Second - t2.msec)

evtime_sub(t1, t2) == Carry(t1.sec - t2.sec - 1, t1.msec + Second - t2.msec)
=============================================================================
