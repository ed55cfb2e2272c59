-------------------------------- MODULE Timers -------------------------------
(***************************************************************************)
(* The timers of event.c and the class Timer of graphenv.lsh.              *)
(*                                                                         *)
(* `timers' is the sorted list of the timer structures that are armed.     *)
(* timer_fire posts an event for each one that is due; event_wait and      *)
(* process_pending_events call it when the event queue is empty.  A timer  *)
(* structure is known to lisp by its address (create-timer returns it, the *)
(* event carries it, kill-timer takes it); the address of a freed one is   *)
(* reused by malloc.  A timer names its handler by a raw pointer, kept     *)
(* safe by the finalizer ti_finalize.                                      *)
(*                                                                         *)
(* The queue is WeakQueue, which EventQueue implements, and its actions    *)
(* are conjuncts of the ones here.  One iteration of each loop of          *)
(* timer_fire is an action; no lisp code runs inside it but the clock does *)
(* go on.  Every handler is an object of class Timer: timerid[h] is its    *)
(* slot.  Abstracted: the callback; the ordinary events of the queue, as   *)
(* timer_fire is never called while there is any.                          *)
(***************************************************************************)
EXTENDS EvTime, SequencesExt, Selection

CONSTANTS
  Handler,     \* addresses of Timer objects
  Block,       \* addresses malloc gives to struct event_timer
  NIL,
  Shortest,    \* the shortest period, in ms (20 in the code)
  Day,         \* the longest sleep, in seconds (24*3600)
  Delay,       \* delays create-timer is called with, in ms
  Interval,    \* intervals, in ms; 0 is a one shot timer
  Date,        \* proper dates create-timer-absolute is called with
  Horizon      \* bound: the clock stops here

ASSUME TimersAssumption ==
  /\ NIL \notin Block
  /\ Shortest \in Nat \ {0} /\ Day \in Nat \ {0} /\ Horizon \in Nat
  /\ Delay \subseteq Nat /\ Interval \subseteq Nat
  /\ Date \subseteq Proper

VARIABLES
  clock,     \* what os_curtime reads, in ms
  timers,    \* the armed timers, in list order
  timer,     \* timer[b]: the contents of block b
  alive,     \* the live handlers
  pending,   \* the event queue; an event carries its timer
  timerid,   \* the slot timerid of each Timer object
  snap,      \* the date timer_fire read at its start, NIL outside timer_fire
  ti         \* the periodic timer timer_fire is moving on, or NIL

vars == <<clock, timers, timer, alive, pending, timerid, snap, ti>>

Queue == INSTANCE WeakQueue WITH Payload <- Block

NoTimer == [date |-> [sec |-> 0, msec |-> 0], period |-> [sec |-> 0, msec |-> 0],
            handler |-> NIL]

Armed == {timers[i] : i \in DOMAIN timers}

-----------------------------------------------------------------------------
(* The list.                                                               *)

\* ti_insert: before the first timer that is later.
ti_insert(ts, b, tm) ==
  LET later == {i \in DOMAIN ts : evtime_cmp(tm[b].date, tm[ts[i]].date) < 0}
      p == IF later = {} THEN Len(ts) + 1
           ELSE CHOOSE i \in later : \A j \in later : i <= j
  IN  InsertAt(ts, p, b)

\* timer_del: nothing happens when the handle is not in the list.
timer_del(ts, handle) == RemoveFirst(ts, handle)

\* Mutant: the search stops at the first timer of the handler.
FinalizeFirstOnly(ts, h) ==
  LET mine == {i \in DOMAIN ts : timer[ts[i]].handler = h}
  IN  {IF mine = {} THEN ts
       ELSE RemoveAt(ts, CHOOSE i \in mine : \A j \in mine : i <= j)}

\* ti_finalize: the list without the timers of h.
ti_finalize(ts, h) == Selection(ts, {i \in DOMAIN ts : timer[ts[i]].handler # h})

\* Mutant: a timer is due only when its date is past.
DueStrictly(b, date) == evtime_cmp(date, timer[b].date) > 0

Due(b, date) == evtime_cmp(date, timer[b].date) >= 0

\* timers && evtime_cmp(&now,&timers->date)>=0
FirstIsDue == timers # <<>> /\ Due(Head(timers), snap)

Periodic(b) == timer[b].period.sec > 0 \/ timer[b].period.msec > 0

\* What the blocks hold once those of S are freed.
Without(S) == [b \in Block |-> IF b \in S THEN NoTimer ELSE timer[b]]

\* timer_add_sub puts a fresh block in the list ts; the blocks of S were freed.
Arm(ts, S, b, h, date, period) ==
  /\ b \notin {ts[i] : i \in DOMAIN ts}
  /\ timer' = [Without(S) EXCEPT ![b] =
                 [date |-> date, handler |-> h,
                  period |-> [sec |-> period \div Second, msec |-> period % Second]]]
  /\ timers' = ti_insert(ts, b, timer')

FiringAt(delay) ==
  evtime_add(evtime_now(clock), [sec |-> delay \div Second, msec |-> delay % Second])

Rounded(interval) ==
  IF interval > 0 /\ interval < Shortest THEN Shortest ELSE interval

-----------------------------------------------------------------------------
(* Lisp code; none of it runs inside timer_fire.                           *)

LispRuns == snap = NIL

Init ==
  /\ clock = 0
  /\ timers = <<>>
  /\ timer = [b \in Block |-> NoTimer]
  /\ Queue!Init
  /\ timerid = [h \in Handler |-> NIL]
  /\ snap = NIL /\ ti = NIL

\* (new Timer)
New(h) ==
  /\ LispRuns
  /\ Queue!Born(h)
  /\ timerid' = [timerid EXCEPT ![h] = NIL]
  /\ UNCHANGED <<clock, timers, timer, snap, ti>>

\* (==> h set delay interval): kills the timer it set before, by the address
\* it remembers, and creates a new one.
Set(h, delay, interval) ==
  /\ LispRuns
  /\ h \in alive
  /\ \E b \in Block :
       /\ Arm(timer_del(timers, timerid[h]), {timerid[h]}, b, h,
              FiringAt(delay), Rounded(interval))
       /\ timerid' = [timerid EXCEPT ![h] = b]
  /\ UNCHANGED <<clock, alive, pending, snap, ti>>

\* Mutant: the slot keeps the address of the killed timer.
CancelKeepsId(h) ==
  /\ LispRuns
  /\ h \in alive
  /\ timerid[h] # NIL
  /\ timers' = timer_del(timers, timerid[h])
  /\ timer' = Without({timerid[h]})
  /\ UNCHANGED <<clock, alive, pending, timerid, snap, ti>>

\* (==> h set ())
Cancel(h) ==
  /\ LispRuns
  /\ h \in alive
  /\ timerid[h] # NIL
  /\ timers' = timer_del(timers, timerid[h])
  /\ timer' = Without({timerid[h]})
  /\ timerid' = [timerid EXCEPT ![h] = NIL]
  /\ UNCHANGED <<clock, alive, pending, snap, ti>>

\* (create-timer-absolute h date)
CreateAbsolute(h, date) ==
  /\ LispRuns
  /\ h \in alive
  /\ \E b \in Block : Arm(timers, {}, b, h, date, 0)
  /\ UNCHANGED <<clock, alive, pending, timerid, snap, ti>>

\* The handler dies: ev_finalize and ti_finalize.
Die(h) ==
  /\ LispRuns
  /\ Queue!Die(h)
  /\ timers' \in ti_finalize(timers, h)
  /\ timer' = Without({b \in Armed : timer[b].handler = h})
  /\ UNCHANGED <<clock, timerid, snap, ti>>

\* process_pending_events takes the first event and calls the handler.
Dispatch(h) ==
  /\ LispRuns
  /\ pending # <<>> /\ Head(pending).to = h
  /\ Queue!Take(h)
  /\ UNCHANGED <<clock, timers, timer, timerid, snap, ti>>

-----------------------------------------------------------------------------
(* timer_fire.                                                             *)

\* Mutant: timers are fired whatever is in the queue.
FireStartAnytime ==
  /\ LispRuns
  /\ snap' = evtime_now(clock)
  /\ UNCHANGED <<clock, timers, timer, alive, pending, timerid, ti>>

\* Both callers have just seen ev_peek return NULL.
FireStart ==
  /\ LispRuns
  /\ pending = <<>>
  /\ snap' = evtime_now(clock)
  /\ UNCHANGED <<clock, timers, timer, alive, pending, timerid, ti>>

\* The first timer is due: it is unlinked and its event posted; a one shot
\* timer is freed.
FirePost ==
  /\ snap # NIL /\ ti = NIL
  /\ FirstIsDue
  /\ Queue!Post(timer[Head(timers)].handler, Head(timers))
  /\ timers' = Tail(timers)
  /\ ti' = IF Periodic(Head(timers)) THEN Head(timers) ELSE NIL
  /\ timer' = Without({Head(timers)} \ {ti'})
  /\ UNCHANGED <<clock, timerid, snap>>

\* while (evtime_cmp(&now,&ti->date) >= 0) evtime_add(...)
FireAdvance ==
  /\ snap # NIL /\ ti # NIL
  /\ Due(ti, snap)
  /\ timer' = [timer EXCEPT ![ti].date = evtime_add(@, timer[ti].period)]
  /\ UNCHANGED <<clock, timers, alive, pending, timerid, snap, ti>>

FireInsert ==
  /\ snap # NIL /\ ti # NIL
  /\ ~Due(ti, snap)
  /\ timers' = ti_insert(timers, ti, timer)
  /\ ti' = NIL
  /\ UNCHANGED <<clock, timer, alive, pending, timerid, snap>>

\* What timer_fire returns: how long the caller may sleep.
TimeLeft ==
  LET diff == evtime_sub(timer[Head(timers)].date, snap)
  IN  IF timers # <<>> /\ diff.sec < Day THEN Instant(diff) ELSE Day * Second

\* No timer is due any more.
FireEnd ==
  /\ snap # NIL /\ ti = NIL
  /\ ~FirstIsDue
  /\ snap' = NIL
  /\ UNCHANGED <<clock, timers, timer, alive, pending, timerid, ti>>

Tick ==
  /\ clock < Horizon
  /\ clock' = clock + 1
  /\ UNCHANGED <<timers, timer, alive, pending, timerid, snap, ti>>

Fire == FirePost \/ FireAdvance \/ FireInsert \/ FireEnd

Lisp == \E h \in Handler :
          \/ New(h)
          \/ Cancel(h)
          \/ Die(h)
          \/ Dispatch(h)
          \/ \E delay \in Delay, interval \in Interval : Set(h, delay, interval)
          \/ \E date \in Date : CreateAbsolute(h, date)

Next == Lisp \/ FireStart \/ Fire \/ Tick

Spec == Init /\ [][Next]_vars

-----------------------------------------------------------------------------
(* Properties.                                                             *)

Struct == [date : evtime_t, period : Proper, handler : Handler \cup {NIL}]

TypeOK ==
  /\ clock \in Nat
  /\ timers \in Seq(Block)
  /\ timer \in [Block -> Struct]
  /\ Queue!TypeOK
  /\ timerid \in [Handler -> Block \cup {NIL}]
  /\ snap \in Proper \cup {NIL}
  /\ ti \in Block \cup {NIL}

\* The list is in the order of the dates, though equal dates have several
\* forms, and no block is in it twice: timer_fire may look at the first only.
TimersInOrder ==
  \A i, j \in DOMAIN timers :
    i < j => /\ Instant(timer[timers[i]].date) <= Instant(timer[timers[j]].date)
             /\ timers[i] # timers[j]

\* No armed timer, and none that timer_fire holds, has a dead handler: the
\* raw pointer that timer_fire passes to event_add is good (ti_finalize).
TimerHandlersAlive ==
  \A b \in Armed \cup ({ti} \ {NIL}) : timer[b].handler \in alive

\* events.hlp, Timers: they "only post events if the previously posted timer
\* events have been dispatched": the queue holds one event of a timer at most,
\* however late the program is, whatever timers are killed and blocks reused.
OneEventPerTimer ==
  \A i, j \in DOMAIN pending :
    pending[i].carries = pending[j].carries => i = j

\* No timer fires before its date.
NeverEarly ==
  [][\A b \in Block :
       pending' = Append(pending, [to |-> timer[b].handler, carries |-> b])
         => Instant(timer[b].date) <= clock]_vars

\* A periodic timer goes back to a date after now and within a period of now:
\* the events missed while the program was busy are skipped, not queued.
SkipsMissedPeriods ==
  [][\A b \in Block : ti = b /\ ti' = NIL =>
       LET next == Instant(timer'[b].date) - Instant(snap)
       IN  0 < next /\ next <= Instant(timer[b].period)]_vars

\* What timer_fire returns is the time left to the first date, never zero and
\* at most a day: event_wait does not oversleep and does not spin.
SleepsToNextTimer ==
  [][snap # NIL /\ snap' = NIL =>
       /\ 0 < TimeLeft /\ TimeLeft <= Day * Second
       /\ \A b \in Armed : TimeLeft <= Instant(timer[b].date) - Instant(snap)
       /\ TimeLeft < Day * Second =>
            \E b \in Armed : TimeLeft = Instant(timer[b].date) - Instant(snap)]_vars

\* A timer that has not fired leaves the list only when its handler dies or
\* is set again: no object disturbs the timers of another.  kill-timer
\* "destroys the timer <timerid>" (events.hlp), not one that took its address.
OthersKeepTheirTimers ==
  [][\A b \in Armed :
       LET h == timer[b].handler
       IN  \/ b \in Armed' \cup {ti'} /\ timer'[b].handler = h
           \/ snap # NIL
           \/ h \notin alive'
           \/ timerid[h] = b /\ timerid'[h] # b]_vars
=============================================================================
