--------------------------- MODULE EventLoopProofs ---------------------------
(***************************************************************************)
(* The invariants of EventLoop, for any timers and any Budget.             *)
(*                                                                         *)
(* LoopInv strengthens them: what cinput promises while event_wait runs it *)
(* goes on promising as `got' until the console is read, and a request for *)
(* an asynchronous poll stands from the arrival to the poll whatever phase *)
(* the thread is in.                                                       *)
(***************************************************************************)
EXTENDS EventLoop, FiniteSetTheorems, TLAPS

InWait == pc \in {"wait", "polled", "fired", "select"}

NothingBuffered == pc \in {"polled", "fired", "select"} => buffered = 0

\* cinput, then ~got, say that there is input, if no signal lied.
InputPromised ==
  ~interrupted =>
    /\ InWait /\ cinput => typed
    /\ pc \in {"drain", "handler", "read"} /\ ~got => typed

Requested ==
  /\ polling => InLisp
  /\ async_block = 0 /\ wire > 0 => async_attempt \/ polling \/ forgot

LoopInv ==
  /\ TypeOK
  /\ BlockedWhileWaiting
  /\ NothingBuffered
  /\ SleepsEmptyHanded
  /\ pc = "read" => ~got
  /\ InputPromised
  /\ Requested

-----------------------------------------------------------------------------
\* The timers that are due are finitely many, so that timer_fire ends and the
\* queue stays countable.
LEMMA FiringIsFinite ==
  ASSUME TypeOK
  PROVE  Cardinality(due) \in Nat
<1>1. due \subseteq Timer
  BY DEF TypeOK
<1>2. IsFiniteSet(due)
  BY <1>1, LoopAssumption, FS_Subset
<1> QED
  BY <1>2, FS_CardinalityType

\* What unblock_async_poll leaves, in terms of truth values only: the last
\* unblocking always asks for an asynchronous poll.
LEMMA UnblockingAsks ==
  ASSUME TypeOK, NEW depth \in Nat, unblock_async_poll(depth)
  PROVE  /\ async_block' = depth - 1
         /\ async_attempt' \in BOOLEAN /\ (depth = 1 => async_attempt')
         /\ (async_attempt => async_attempt')
         /\ waiting' \in BOOLEAN /\ ~waiting'
         /\ polling' = polling
<1>1. waiting' = FALSE /\ async_attempt' = (async_attempt \/ depth = 1)
  BY DEF unblock_async_poll
<1>2. waiting' \in BOOLEAN /\ ~waiting'
  BY <1>1, Zenon
<1>3. async_attempt' \in BOOLEAN /\ (depth = 1 => async_attempt')
      /\ (async_attempt => async_attempt')
  BY <1>1, Zenon
<1> QED
  BY <1>2, <1>3 DEF unblock_async_poll

\* Sources poll: nothing waits any more and nothing is forgotten.
LEMMA PollTakesAll ==
  ASSUME TypeOK, call_spoll
  PROVE  /\ queue' = queue + buffered + wire /\ buffered' = 0 /\ wire' = 0
         /\ forgot' \in BOOLEAN
<1>1. forgot' = FALSE
  BY DEF call_spoll
<1>2. forgot' \in BOOLEAN
  BY <1>1, Zenon
<1> QED
  BY <1>2 DEF call_spoll

\* TOPLEVEL_MACHINE records what it forgets.
LEMMA ToplevelForgets ==
  ASSUME TypeOK, toplevel_unix
  PROVE  /\ async_attempt' \in BOOLEAN
         /\ forgot' \in BOOLEAN /\ (wire > 0 => forgot')
         /\ UNCHANGED <<queue, wire, buffered, polling, async_block, waiting>>
<1>1. async_attempt' = FALSE /\ forgot' = (forgot \/ wire > 0)
  BY DEF toplevel_unix
<1>2. async_attempt' \in BOOLEAN
  BY <1>1, Zenon
<1>3. forgot' \in BOOLEAN /\ (wire > 0 => forgot')
  BY <1>1, Zenon
<1> QED
  BY <1>2, <1>3 DEF toplevel_unix

\* How process_pending_events begins, in the same terms.
LEMMA ProcessBegins ==
  ASSUME TypeOK, NEW handler \in BOOLEAN, NEW depth \in Nat, Process(handler, depth)
  PROVE  /\ call_spoll /\ unblock_async_poll(depth)
         /\ got' \in BOOLEAN /\ (got' <=> handler)
         /\ timer_fired' \in BOOLEAN
         /\ pc' = "drain"
         /\ UNCHANGED <<console, toggle, cinput, dates, typed, budget>>
<1>1. got' = handler /\ timer_fired' = FALSE
  BY DEF Process
<1>2. got' \in BOOLEAN /\ (got' <=> handler) /\ timer_fired' \in BOOLEAN
  BY <1>1, Zenon
<1> QED
  BY <1>2 DEF Process

\* How event_wait begins.
LEMMA WaitBegins ==
  ASSUME TypeOK, NEW for_console \in BOOLEAN, Wait(for_console)
  PROVE  /\ block_async_poll
         /\ console' \in BOOLEAN /\ toggle' \in BOOLEAN
         /\ cinput' \in BOOLEAN /\ ~cinput'
         /\ pc' = "wait"
         /\ UNCHANGED <<got, timer_fired, events, dates, typed>>
<1>1. console' = for_console /\ toggle' = TRUE /\ cinput' = FALSE
  BY DEF Wait
<1>2. /\ console' \in BOOLEAN /\ toggle' \in BOOLEAN
      /\ cinput' \in BOOLEAN /\ ~cinput'
  BY <1>1, Zenon
<1> QED
  BY <1>2 DEF Wait

\* Initially nothing is queued, armed, asked or blocked.
LEMMA InitEstablishes == Init => LoopInv
<1> SUFFICES ASSUME Init PROVE LoopInv
  OBVIOUS
<1>1. /\ ~waiting /\ ~polling /\ ~cinput /\ ~got
      /\ console \in BOOLEAN /\ got \in BOOLEAN /\ timer_fired \in BOOLEAN
      /\ toggle \in BOOLEAN /\ cinput \in BOOLEAN /\ typed \in BOOLEAN
      /\ async_attempt \in BOOLEAN /\ polling \in BOOLEAN /\ waiting \in BOOLEAN
      /\ forgot \in BOOLEAN /\ ~interrupted
  BY Zenon DEF Init
<1> QED
  BY <1>1, LoopAssumption
     DEF Init, LoopInv, TypeOK, BlockedWhileWaiting, NothingBuffered,
         SleepsEmptyHanded, InputPromised, Requested, InWait, InLisp, Phase

\* Every step of the thread and of the world keeps LoopInv.
LEMMA NextPreserves == LoopInv /\ [Next]_vars => LoopInv'
<1> SUFFICES ASSUME LoopInv, [Next]_vars PROVE LoopInv'
  OBVIOUS
<1> USE LoopAssumption
    DEF LoopInv, TypeOK, BlockedWhileWaiting, NothingBuffered, SleepsEmptyHanded,
        InputPromised, Requested, InWait, InLisp, Phase,
        locals, events, dates, async
<1>1. CASE Prompt /\ UNCHANGED interrupted
  <2>1. Process(TRUE, 1)
    BY <1>1 DEF Prompt
  <2>2. /\ call_spoll /\ unblock_async_poll(1)
        /\ got' \in BOOLEAN /\ got'
        /\ timer_fired' \in BOOLEAN
        /\ pc' = "drain"
        /\ UNCHANGED <<console, toggle, cinput, dates, typed, budget>>
    BY <2>1, ProcessBegins
  <2> QED
    BY <1>1, <2>2, PollTakesAll, UnblockingAsks DEF Prompt
<1>2. CASE Dispatch /\ UNCHANGED interrupted
  BY <1>2 DEF Dispatch
<1>3. CASE HandlerReturn /\ UNCHANGED interrupted
  BY <1>3, PollTakesAll, UnblockingAsks DEF HandlerReturn
<1>4. CASE LispError /\ UNCHANGED interrupted
  <2>1. toplevel_unix
    BY <1>4 DEF LispError
  <2> QED
    BY <1>4, <2>1, ToplevelForgets DEF LispError
<1>5. CASE DrainFire /\ UNCHANGED interrupted
  BY <1>5, FiringIsFinite DEF DrainFire, timer_fire
<1>6. CASE DrainEnd /\ UNCHANGED interrupted
  <2>1. Wait(TRUE) /\ TRUE \in BOOLEAN
    BY <1>6 DEF DrainEnd
  <2>2. /\ block_async_poll
        /\ console' \in BOOLEAN /\ toggle' \in BOOLEAN
        /\ cinput' \in BOOLEAN /\ ~cinput'
        /\ pc' = "wait"
        /\ UNCHANGED <<got, timer_fired, events, dates, typed>>
    BY <2>1, WaitBegins
  <2> QED
    BY <1>6, <2>2 DEF DrainEnd, block_async_poll
<1>7. CASE DrainRead /\ UNCHANGED interrupted
  BY <1>7 DEF DrainRead
<1>8. CASE Read /\ UNCHANGED interrupted
  <2>1. toplevel_unix
    BY <1>8 DEF Read
  <2>2. typed' \in BOOLEAN
    BY <1>8, Zenon DEF Read
  <2> QED
    BY <1>8, <2>1, <2>2, ToplevelForgets DEF Read
<1>9. CASE WaitFound /\ UNCHANGED interrupted
  <2>1. CASE console
    <3>1. Process(TRUE, async_block)
      BY <1>9, <2>1 DEF WaitFound, Leave
    <3>2. /\ call_spoll /\ unblock_async_poll(async_block)
          /\ got' \in BOOLEAN /\ got'
          /\ timer_fired' \in BOOLEAN
          /\ pc' = "drain"
          /\ UNCHANGED <<console, toggle, cinput, dates, typed, budget>>
      BY <3>1, ProcessBegins
    <3> QED
      BY <1>9, <3>2, PollTakesAll, UnblockingAsks DEF WaitFound
  <2>2. CASE ~console
    BY <1>9, <2>2, PollTakesAll, UnblockingAsks DEF WaitFound, Leave
  <2> QED
    BY <2>1, <2>2
<1>10. CASE WaitPoll /\ UNCHANGED interrupted
  BY <1>10, PollTakesAll, UnblockingAsks DEF WaitPoll
<1>11. CASE WaitConsole /\ UNCHANGED interrupted
  <2>1. Process(FALSE, async_block)
    BY <1>11 DEF WaitConsole, Leave
  <2>2. /\ call_spoll /\ unblock_async_poll(async_block)
        /\ got' \in BOOLEAN /\ ~got'
        /\ timer_fired' \in BOOLEAN
        /\ pc' = "drain"
        /\ UNCHANGED <<console, toggle, cinput, dates, typed, budget>>
    BY <2>1, ProcessBegins
  <2> QED
    BY <1>11, <2>2, PollTakesAll, UnblockingAsks DEF WaitConsole
<1>12. CASE WaitFire /\ UNCHANGED interrupted
  BY <1>12, FiringIsFinite DEF WaitFire, timer_fire
<1>13. CASE WaitSleep /\ UNCHANGED interrupted
  BY <1>13 DEF WaitSleep
<1>14. CASE WaitSelect /\ UNCHANGED interrupted
  <2>1. cinput' \in BOOLEAN /\ (cinput' => typed)
    BY <1>14, Zenon DEF WaitSelect, ConsoleIsSet
  <2> QED
    BY <1>14, <2>1, PollTakesAll, UnblockingAsks DEF WaitSelect
<1>15. CASE WaitInterrupted
  <2>1. cinput' \in BOOLEAN /\ interrupted'
    BY <1>15, Zenon DEF WaitInterrupted
  <2> QED
    BY <1>15, <2>1, PollTakesAll, UnblockingAsks DEF WaitInterrupted
<1>16. CASE Post /\ UNCHANGED interrupted
  BY <1>16 DEF Post
<1>17. CASE WaitEvent /\ UNCHANGED interrupted
  <2>1. Wait(FALSE) /\ FALSE \in BOOLEAN
    BY <1>17 DEF WaitEvent
  <2>2. /\ block_async_poll
        /\ console' \in BOOLEAN /\ toggle' \in BOOLEAN
        /\ cinput' \in BOOLEAN /\ ~cinput'
        /\ pc' = "wait"
        /\ UNCHANGED <<got, timer_fired, events, dates, typed>>
    BY <2>1, WaitBegins
  <2> QED
    BY <1>17, <2>2 DEF WaitEvent, block_async_poll
<1>18. CASE CheckUnix /\ UNCHANGED interrupted
  BY <1>18 DEF CheckUnix
<1>19. CASE Apoll /\ UNCHANGED interrupted
  <2>1. polling' \in BOOLEAN /\ ~polling' /\ forgot' \in BOOLEAN
    BY <1>19, Zenon DEF Apoll
  <2> QED
    BY <1>19, <2>1 DEF Apoll
<1>20. CASE Arrive /\ UNCHANGED interrupted
  <2>1. async_attempt' = (async_attempt \/ async_block = 0)
    BY <1>20 DEF Arrive
  <2>2. /\ async_attempt' \in BOOLEAN /\ (async_block = 0 => async_attempt')
        /\ (async_attempt => async_attempt')
    BY <2>1, Zenon
  <2> HIDE <2>1
  <2> QED
    BY <1>20, <2>2 DEF Arrive
<1>21. CASE Type /\ UNCHANGED interrupted
  BY <1>21 DEF Type
<1>22. CASE (\E t \in Timer : Arm(t)) /\ UNCHANGED interrupted
  BY <1>22 DEF Arm
<1>23. CASE (\E t \in Timer : Expire(t)) /\ UNCHANGED interrupted
  BY <1>23 DEF Expire
<1>24. CASE UNCHANGED vars
  BY <1>24 DEF vars
<1> QED
  BY <1>1, <1>2, <1>3, <1>4, <1>5, <1>6, <1>7, <1>8, <1>9, <1>10, <1>11, <1>12,
     <1>13, <1>14, <1>15, <1>16, <1>17, <1>18, <1>19, <1>20, <1>21, <1>22, <1>23,
     <1>24 DEF Next, Loop, Lisp, World

\* LoopInv holds in every reachable state.
THEOREM LoopInvariant == Spec => []LoopInv
BY InitEstablishes, NextPreserves, PTL DEF Spec

-----------------------------------------------------------------------------
\* The type invariant.
THEOREM TypeCorrect == Spec => []TypeOK
<1>1. LoopInv => TypeOK
  BY DEF LoopInv
<1> QED
  BY <1>1, LoopInvariant, PTL

\* block_async_poll and unblock_async_poll balance, and so do bwait and ewait,
\* however event_wait ends.
THEOREM BlockingCorrect == Spec => []BlockedWhileWaiting
<1>1. LoopInv => BlockedWhileWaiting
  BY DEF LoopInv
<1> QED
  BY <1>1, LoopInvariant, PTL

\* Lush goes to sleep with no event in hand.
THEOREM SleepCorrect == Spec => []SleepsEmptyHanded
<1>1. LoopInv => SleepsEmptyHanded
  BY DEF LoopInv
<1> QED
  BY <1>1, LoopInvariant, PTL

\* The console is read when it has input, if no signal made select fail.
THEOREM ReadCorrect == Spec => []ReadsWhatIsThere
<1>1. LoopInv => ReadsWhatIsThere
  BY DEF LoopInv, InputPromised, ReadsWhatIsThere
<1> QED
  BY <1>1, LoopInvariant, PTL

\* Data that arrive are noticed by the next eval.
THEOREM ArrivalCorrect == Spec => []ArrivalIsNoticed
<1>1. LoopInv => ArrivalIsNoticed
  BY DEF LoopInv, BlockedWhileWaiting, Requested, InLisp, ArrivalIsNoticed
<1> QED
  BY <1>1, LoopInvariant, PTL
=============================================================================
