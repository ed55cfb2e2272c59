----------------------------- MODULE EventLoop -------------------------------
(***************************************************************************)
(* The one thread of lush and everything that it must keep an eye on: the  *)
(* event queue, the event sources (a file descriptor each), the timers and *)
(* the console.  console_getline (unix.c) alternates                       *)
(* process_pending_events and event_wait (event.c); lisp code runs in the  *)
(* handlers the former calls, and at toplevel between two lines.           *)
(*                                                                         *)
(* Outside events happen between any two steps: data arrive at a source,   *)
(* a timer becomes due, a line is typed, a signal interrupts select.       *)
(*                                                                         *)
(* Abstracted: what the events are (EventQueue) and the dates (Timers): a  *)
(* timer is armed, then due, and timer_fire posts one event for each due   *)
(* timer.  Sources are one, whose data make one event each.                *)
(***************************************************************************)
EXTENDS Naturals, FiniteSets

CONSTANTS
  Timer,      \* the timers the program uses
  Periodic,   \* those with an interval
  Budget      \* bound: events, waits and errors that do not come from a timer

ASSUME LoopAssumption ==
  /\ IsFiniteSet(Timer) /\ Periodic \subseteq Timer
  /\ Budget \in Nat

VARIABLES
  pc,            \* where the thread is, see TypeOK
  console,       \* the argument of event_wait
  got,           \* event_wait returned a handler, or was not called yet
  timer_fired,   \* local of process_pending_events
  toggle,        \* local of event_wait: look at the timers this time
  cinput,        \* local of event_wait: select saw console input
  queue,         \* how many events are in the event queue
  wire,          \* how many data wait at the descriptor of the source
  buffered,      \* how many the source read and did not make events of yet
  armed, due,    \* the timers whose date is ahead, and past
  typed,         \* there is input on the console
  async_attempt, \* set by the trigger signal, asks eval to poll
  polling,       \* check_unix is calling the trigger handler
  async_block,   \* depth of block_async_poll
  waiting,       \* the sources were told that lush waits (bwait)
  forgot,        \* history: a request was dropped with data at the descriptor
  interrupted,   \* history: a signal made select fail
  budget         \* what is left of Budget

locals == <<console, got, timer_fired, toggle, cinput>>
events == <<queue, wire, buffered, forgot>>
dates == <<armed, due>>
async == <<async_attempt, polling, async_block, waiting>>
vars == <<pc, locals, events, dates, typed, async, interrupted, budget>>

Phase == {"lisp", "drain", "handler", "wait", "polled", "fired", "select", "read"}

Init ==
  /\ pc = "lisp"
  /\ console = FALSE /\ got = FALSE /\ timer_fired = FALSE
  /\ toggle = TRUE /\ cinput = FALSE
  /\ queue = 0 /\ wire = 0 /\ buffered = 0
  /\ armed = {} /\ due = {}
  /\ typed = FALSE
  /\ async_attempt = FALSE /\ polling = FALSE
  /\ async_block = 0 /\ waiting = FALSE /\ forgot = FALSE
  /\ interrupted = FALSE
  /\ budget = Budget

-----------------------------------------------------------------------------
(* What the loops call.                                                    *)

\* block_async_poll: the trigger signal is blocked from the first call on.
block_async_poll ==
  /\ async_block' = async_block + 1
  /\ UNCHANGED <<async_attempt, polling, waiting>>

\* Mutant: the last unblocking lets the signal through but does not call
\* trigger_irq.
UnblockQuietly(depth) ==
  /\ async_block' = depth - 1
  /\ waiting' = FALSE
  /\ UNCHANGED <<async_attempt, polling>>

\* depth is async_block on entry.  The last unblocking calls trigger_irq, as a
\* signal may have been blocked, and call_ewait ends the waiting.
unblock_async_poll(depth) ==
  /\ async_block' = depth - 1
  /\ async_attempt' = (async_attempt \/ depth = 1)
  /\ waiting' = FALSE
  /\ UNCHANGED polling

\* Mutant: the source looks at its descriptor only.
SpollDescriptor ==
  /\ queue' = queue + wire
  /\ wire' = 0 /\ forgot' = FALSE
  /\ UNCHANGED buffered

\* Every source makes events of all it has.
call_spoll ==
  /\ queue' = queue + buffered + wire
  /\ buffered' = 0
  /\ wire' = 0 /\ forgot' = FALSE

\* TOPLEVEL_MACHINE forgets the requests for an asynchronous poll.
toplevel_unix ==
  /\ async_attempt' = FALSE
  /\ forgot' = (forgot \/ wire > 0)
  /\ UNCHANGED <<queue, wire, buffered, polling, async_block, waiting>>

\* Mutant: a periodic timer is armed again but stays where it was.
FireKeepsDue ==
  /\ queue' = queue + Cardinality(due)
  /\ armed' = armed \cup (due \cap Periodic)
  /\ due' = due \cap Periodic

\* One event per due timer; the periodic ones are armed again.
timer_fire ==
  /\ queue' = queue + Cardinality(due)
  /\ armed' = armed \cup (due \cap Periodic)
  /\ due' = {}

\* process_pending_events begins: call_spoll, between a block and an unblock.
\* handler tells what event_wait, just left with depth, returned.
Process(handler, depth) ==
  /\ call_spoll
  /\ unblock_async_poll(depth)
  /\ got' = handler
  /\ timer_fired' = FALSE
  /\ pc' = "drain"
  /\ UNCHANGED <<console, toggle, cinput, dates, typed, budget>>

\* event_wait begins.
Wait(for_console) ==
  /\ block_async_poll
  /\ console' = for_console
  /\ toggle' = TRUE
  /\ cinput' = FALSE
  /\ pc' = "wait"
  /\ UNCHANGED <<got, timer_fired, events, dates, typed>>

-----------------------------------------------------------------------------
(* process_pending_events, called by console_getline.                      *)

\* console_getline starts to wait for a line.
Prompt ==
  /\ pc = "lisp" /\ ~polling
  /\ Process(TRUE, 1)

\* The first event is taken and its handler's method is called.
Dispatch ==
  /\ pc = "drain" /\ queue > 0
  /\ queue' = queue - 1
  /\ pc' = "handler"
  /\ UNCHANGED <<locals, wire, buffered, forgot, dates, typed, async, budget>>

HandlerReturn ==
  /\ pc = "handler" /\ ~polling
  /\ call_spoll
  /\ unblock_async_poll(1)
  /\ pc' = "drain"
  /\ UNCHANGED <<locals, dates, typed, budget>>

\* No event: look at the timers, once per call.
DrainFire ==
  /\ pc = "drain" /\ queue = 0 /\ ~timer_fired
  /\ timer_fire
  /\ timer_fired' = TRUE
  /\ UNCHANGED <<pc, console, got, toggle, cinput, wire, buffered, forgot, typed,
                 async, budget>>

\* process_pending_events returns, the console loop goes round.
DrainEnd ==
  /\ pc = "drain" /\ queue = 0 /\ timer_fired /\ got
  /\ Wait(TRUE)
  /\ UNCHANGED budget

\* event_wait had returned no handler: leave the loop and read the console.
DrainRead ==
  /\ pc = "drain" /\ queue = 0 /\ timer_fired /\ ~got
  /\ pc' = "read"
  /\ UNCHANGED <<locals, events, dates, typed, async, budget>>

\* The line is read, and evaluated.
Read ==
  /\ pc = "read" /\ typed
  /\ typed' = FALSE
  /\ toplevel_unix
  /\ pc' = "lisp"
  /\ UNCHANGED <<locals, dates, budget>>

-----------------------------------------------------------------------------
(* event_wait.                                                             *)

\* Mutant: break by a return, without unblock_async_poll.
LeaveBlocked(handler) ==
  IF console
    THEN Process(handler, async_block + 1)
    ELSE /\ pc' = "lisp"
         /\ UNCHANGED <<locals, events, dates, typed, async, budget>>

\* event_wait returns: to the console loop, or to the lisp code.
Leave(handler) ==
  IF console
    THEN Process(handler, async_block)
    ELSE /\ unblock_async_poll(async_block)
         /\ pc' = "lisp"
         /\ UNCHANGED <<locals, events, dates, typed, budget>>

WaitFound ==
  /\ pc \in {"wait", "polled", "fired"} /\ queue > 0
  /\ Leave(TRUE)

\* call_spoll, inside event_wait's own block_async_poll.
WaitPoll ==
  /\ pc = "wait" /\ queue = 0
  /\ call_spoll
  /\ unblock_async_poll(async_block + 1)
  /\ pc' = "polled"
  /\ UNCHANGED <<locals, dates, typed, budget>>

WaitConsole ==
  /\ pc = "polled" /\ queue = 0
  /\ console /\ cinput
  /\ Leave(FALSE)

\* Mutant: every time.
LooksAlways == TRUE

\* Timers are looked at every other time, so that the console gets its turn.
LooksAtTimers == console => ~toggle

WaitFire ==
  /\ pc = "polled" /\ queue = 0
  /\ ~(console /\ cinput)
  /\ toggle' = IF console THEN ~toggle ELSE toggle
  /\ IF LooksAtTimers THEN timer_fire ELSE UNCHANGED <<queue, dates>>
  /\ pc' = "fired"
  /\ UNCHANGED <<console, got, timer_fired, cinput, wire, buffered, forgot, typed,
                 async, budget>>

\* call_bwait, then os_wait.
WaitSleep ==
  /\ pc = "fired" /\ queue = 0
  /\ pc' = "select"
  /\ waiting' = TRUE
  /\ async_block' = async_block + 1
  /\ UNCHANGED <<locals, events, dates, typed, async_attempt, polling, budget>>

\* select returns: something to read, or the time is over, which is at once
\* if the timers were not looked at.
Ready ==
  \/ wire > 0
  \/ console /\ typed
  \/ console /\ ~toggle
  \/ due # {}

\* Mutant: the answer of select is not looked at.
ConsoleIsAsked == console

\* FD_ISSET(0, &set) after a select that returned normally.
ConsoleIsSet == console /\ typed

WaitSelect ==
  /\ pc = "select" /\ Ready
  /\ cinput' = ConsoleIsSet
  /\ unblock_async_poll(async_block)
  /\ pc' = "wait"
  /\ UNCHANGED <<console, got, timer_fired, toggle, events, dates, typed, budget>>

\* A signal that has a handler, as SIGWINCH has in readline: select fails and
\* leaves the set as it was asked.
WaitInterrupted ==
  /\ pc = "select"
  /\ interrupted' = TRUE
  /\ cinput' = console
  /\ unblock_async_poll(async_block)
  /\ pc' = "wait"
  /\ UNCHANGED <<console, got, timer_fired, toggle, events, dates, typed, budget>>

-----------------------------------------------------------------------------
(* Lisp code, at toplevel or in a handler.                                 *)

InLisp == pc \in {"lisp", "handler"}

\* error() jumps to toplevel.
LispError ==
  /\ InLisp /\ ~polling
  /\ budget > 0
  /\ budget' = budget - 1
  /\ toplevel_unix
  /\ pc' = "lisp"
  /\ UNCHANGED <<locals, dates, typed>>

\* create-timer; the delay may be zero.
Arm(t) ==
  /\ InLisp /\ ~polling
  /\ t \notin armed \cup due
  /\ \/ armed' = armed \cup {t} /\ due' = due
     \/ due' = due \cup {t} /\ armed' = armed
  /\ UNCHANGED <<pc, locals, events, typed, async, budget>>

\* sendevent
Post ==
  /\ InLisp /\ ~polling
  /\ budget > 0
  /\ budget' = budget - 1
  /\ queue' = queue + 1
  /\ UNCHANGED <<pc, locals, wire, buffered, forgot, dates, typed, async>>

\* (waitevent)
WaitEvent ==
  /\ pc = "lisp" /\ ~polling
  /\ budget > 0
  /\ budget' = budget - 1
  /\ Wait(FALSE)

\* CHECK_MACHINE in eval: the request is cleared, then the handler is called.
CheckUnix ==
  /\ InLisp /\ ~polling
  /\ async_attempt /\ async_block = 0
  /\ async_attempt' = FALSE
  /\ polling' = TRUE
  /\ UNCHANGED <<pc, locals, events, dates, typed, async_block, waiting, budget>>

\* call_apoll: the source reads what there is, it may not add events.
Apoll ==
  /\ polling
  /\ buffered' = buffered + wire
  /\ wire' = 0 /\ forgot' = FALSE
  /\ polling' = FALSE
  /\ UNCHANGED <<pc, locals, queue, dates, typed, async_attempt, async_block,
                 waiting, budget>>

-----------------------------------------------------------------------------
(* The world.                                                              *)

\* Data arrive at the source.  The trigger signal sets async_attempt, unless it
\* is blocked, and then the end of the blocking sets it.
Arrive ==
  /\ budget > 0
  /\ budget' = budget - 1
  /\ wire' = wire + 1
  /\ async_attempt' = (async_attempt \/ async_block = 0)
  /\ UNCHANGED <<pc, locals, queue, buffered, forgot, dates, typed, polling,
                 async_block, waiting>>

Expire(t) ==
  /\ t \in armed
  /\ armed' = armed \ {t}
  /\ due' = due \cup {t}
  /\ UNCHANGED <<pc, locals, events, typed, async, budget>>

Type ==
  /\ ~typed
  /\ typed' = TRUE
  /\ UNCHANGED <<pc, locals, events, dates, async, budget>>

Loop ==
  \/ Prompt \/ Dispatch \/ HandlerReturn \/ DrainFire \/ DrainEnd \/ DrainRead
  \/ Read \/ WaitFound \/ WaitPoll \/ WaitConsole \/ WaitFire \/ WaitSleep
  \/ WaitSelect \/ Apoll

Lisp ==
  LispError \/ Post \/ WaitEvent \/ CheckUnix \/ (\E t \in Timer : Arm(t))

World == Arrive \/ Type \/ (\E t \in Timer : Expire(t))

Next ==
  \/ (Loop \/ Lisp \/ World) /\ UNCHANGED interrupted
  \/ WaitInterrupted

Spec == Init /\ [][Next]_vars

\* The thread runs, handlers and lines of toplevel code return, and select
\* wakes up; nobody has to type or to send anything.
FairSpec == Spec /\ WF_vars(Loop /\ UNCHANGED interrupted)

-----------------------------------------------------------------------------
(* Properties.                                                             *)

TypeOK ==
  /\ pc \in Phase
  /\ console \in BOOLEAN /\ got \in BOOLEAN /\ timer_fired \in BOOLEAN
  /\ toggle \in BOOLEAN /\ cinput \in BOOLEAN /\ typed \in BOOLEAN
  /\ async_attempt \in BOOLEAN /\ polling \in BOOLEAN /\ waiting \in BOOLEAN
  /\ forgot \in BOOLEAN
  /\ queue \in Nat /\ wire \in Nat /\ buffered \in Nat /\ async_block \in Nat
  /\ armed \cup due \subseteq Timer /\ armed \cap due = {}
  /\ budget \in 0..Budget

\* Asynchronous polls are blocked exactly while event_wait runs, and the sources
\* believe that lush waits exactly during select: the hourglass comes back and
\* lisp code is polled again after every wait, whichever way it ended.
BlockedWhileWaiting ==
  /\ async_block = IF pc = "select" THEN 2
                   ELSE IF pc \in {"wait", "polled", "fired"} THEN 1 ELSE 0
  /\ waiting <=> pc = "select"

\* Lush never goes to sleep on work it holds: an event queued, or data that a
\* source took off its descriptor, would not wake select up.
SleepsEmptyHanded == pc = "select" => queue = 0 /\ buffered = 0

\* The console is read, which may block, when there is something to read,
\* however many events and timers were served since select said so.
ReadsWhatIsThere == pc = "read" => typed \/ interrupted

\* Data that arrive while lisp code runs, or since the last poll, are noticed by
\* the next eval, unless TOPLEVEL_MACHINE dropped the request: nothing else does.
ArrivalIsNoticed == InLisp /\ ~polling /\ wire > 0 => async_attempt \/ forgot

\* A line typed is read, though timers of delay zero be set again by their own
\* handlers for ever (why event_wait toggles, and process_pending_events looks
\* at the timers once); except that (waitevent) waits for an event.
ConsoleServed == typed ~> ~typed \/ (pc = "select" /\ ~console)

\* A due timer fires though nothing else happens (events.hlp: lush "polls the
\* event queue whenever it is waiting for input on the console").
TimersServed == \A t \in Timer : t \in due ~> t \notin due \/ interrupted

Undelivered == queue + buffered + wire

\* Events are dispatched, those still at their source too, if no signal comes.
EventsDispatched == Undelivered > 0 ~> Undelivered = 0 \/ interrupted

\* Everyone is served: the console, the timers, the events.
EveryoneIsServed == ConsoleServed /\ TimersServed /\ EventsDispatched

\* events.hlp: "All available events are dispatched", signal or no signal.
AllEventsDispatched == Undelivered > 0 ~> Undelivered = 0
=============================================================================
