------------------------------ MODULE WeakQueue ------------------------------
(***************************************************************************)
(* What the event queue of event.c promises its callers: a FIFO of events, *)
(* each addressed to a handler that the queue does NOT keep alive.  The    *)
(* death of a handler (its last reference is dropped, or it is deleted)    *)
(* removes, in one step, every event addressed to it and nothing else.     *)
(* EventQueue is the detailed version, with cells, a tail pointer and the  *)
(* removal loop of ev_finalize.                                            *)
(***************************************************************************)
EXTENDS Naturals, SequencesExt, Selection

CONSTANTS Handler,   \* addresses of the lisp objects used as event handlers
          Payload    \* what an event may carry

VARIABLES alive,     \* the handlers that are live objects
          pending    \* sequence of [to, carries], oldest first

vars == <<alive, pending>>

Event == [to : Handler, carries : Payload]

TypeOK == alive \subseteq Handler /\ pending \in Seq(Event)

Init == alive = {} /\ pending = <<>>

Born(h) ==
  /\ h \notin alive
  /\ alive' = alive \cup {h}
  /\ UNCHANGED pending

Post(h, x) ==
  /\ h \in alive
  /\ pending' = Append(pending, [to |-> h, carries |-> x])
  /\ UNCHANGED alive

\* The oldest event of one handler, from wherever it stands in the queue.
Take(h) ==
  /\ \E i \in DOMAIN pending :
       /\ pending[i].to = h
       /\ \A j \in 1..(i - 1) : pending[j].to # h
       /\ pending' = RemoveAt(pending, i)
  /\ UNCHANGED alive

Die(h) ==
  /\ h \in alive
  /\ alive' = alive \ {h}
  /\ pending' \in Selection(pending, {i \in DOMAIN pending : pending[i].to # h})

Next == \E h \in Handler :
          \/ Born(h)
          \/ Take(h)
          \/ Die(h)
          \/ \E x \in Payload : Post(h, x)

Spec == Init /\ [][Next]_vars
=============================================================================
