----------------------------- MODULE EventQueue ------------------------------
(***************************************************************************)
(* The event queue of event.c and the weak references that keep it tidy.   *)
(*                                                                         *)
(* A queued event names its handler by a raw pointer (a GPTR) that does    *)
(* not count as a reference.  ev_add registers the finalizer ev_finalize   *)
(* on the handler (allocate.c); when the handler's reference count drops   *)
(* to zero (purge, at.c) or it is deleted (delete_at_special, oostruct.c)  *)
(* run_finalizers calls ev_finalize, which walks the list and drops the    *)
(* handler's events.  Dropping an event drops what the event refers to, so *)
(* the walk can be re-entered by the death of another handler, and by the  *)
(* destructor methods that purge and delete send to objects.               *)
(*                                                                         *)
(* One iteration of the walk is one action.  `stack' holds the activations *)
(* in progress, innermost last; lisp code runs when the stack is empty or  *)
(* inside the destructor of the innermost object.                          *)
(*                                                                         *)
(* Abstracted: reference counts are "held by lisp code" (rooted) and "held *)
(* by a queued event" (elt[c].ref); the text of events, descriptions and   *)
(* modifiers; out of memory.  Every cell is one event: the list cell and   *)
(* the (handler desc . event) cell it owns live and die together.          *)
(*                                                                         *)
(* An unlinked cell goes back to the freelist all lisp data is made from.  *)
(* A destructor that runs inside a walk may put data on the cell the walk  *)
(* stands on, and the walk then takes the rest of that data for the queue: *)
(* it goes astray.  What it does to the data is not modelled: the model    *)
(* stops there.                                                            *)
(***************************************************************************)
EXTENDS Naturals, SequencesExt, Selection

CONSTANTS
  Handler,       \* addresses of lisp objects (at cells), reused once freed
  Cell,          \* list cells of the queue, reused once freed
  head,          \* the dummy cell `head', never freed (it is protected)
  NIL,           \* the null pointer
  Carried,       \* objects an event list may refer to
  Destructible   \* objects whose class has a destructor, which may post events

ASSUME SentinelAssumption ==
  /\ head \notin Cell /\ NIL \notin Cell /\ head # NIL
  /\ NIL \notin Handler
  /\ Carried \subseteq Handler
  /\ Destructible \subseteq Handler

VARIABLES
  obj,         \* obj[h]: what is at address h
  rooted,      \* the objects lisp code holds a reference to
  queue,       \* the cells reached from head, in order
  tail,        \* static at *tail
  elt,         \* elt[c]: the weak handler and the reference held by cell c
  finalizers,  \* targets h with a record (h, ev_finalize, 0)
  flagged,     \* objects whose C_FINALIZER flag is set
  stack,       \* purges and deletions in progress, innermost last
  dirty,       \* cells with other lisp data, on which a walk stands
  dangling,    \* history: lisp code was handed an object not alive any more
  astray       \* history: a walk went on into other lisp data

memory == <<dirty, astray>>
vars == <<obj, rooted, queue, tail, elt, finalizers, flagged, stack, dangling, memory>>

NoElt == [hndl |-> NIL, ref |-> NIL]
Elt == [hndl : Handler \cup {NIL}, ref : Handler \cup {NIL}]
Frame == [h : Handler, op : {"purge", "delete"},
          phase : {"finalize", "destroy"}, pp : Cell \cup {head}]

-----------------------------------------------------------------------------
(* The list.                                                               *)

InQueue(c) == \E i \in DOMAIN queue : queue[i] = c

Attached(pp) == pp = head \/ InQueue(pp)

\* How many cells of the list precede pp and pp itself (0 for head).
Place(pp) == IF pp = head THEN 0 ELSE CHOOSE i \in DOMAIN queue : queue[i] = pp

\* pp->Cdr.  ev_remove set the Cdr of an unlinked cell to NIL and purge leaves
\* it there, so a walk that stands on a freed cell reads NIL; if the cell is dirty
\* it may also read something else (Stray).
Cdr(pp) ==
  IF Attached(pp) /\ Place(pp) < Len(queue) THEN queue[Place(pp) + 1] ELSE NIL

\* Mutant: the new cell is linked after head instead of after tail.
AfterHead(c) == <<c>> \o queue

\* tail->Cdr = cons(p, NIL): what followed tail, if anything did, is lost.
AfterTail(c) ==
  IF Attached(tail) THEN Append(SubSeq(queue, 1, Place(tail)), c) ELSE queue

-----------------------------------------------------------------------------
(* References, finalizers and the calls in progress.                       *)

Top == stack[Len(stack)]
Pop == SubSeq(stack, 1, Len(stack) - 1)

\* Lisp code runs at the top level or in the destructor of the innermost object.
\* Nothing more is said once a walk went astray.
InDestructor == stack # <<>> /\ Top.phase = "destroy" /\ Top.h \in Destructible
LispRuns == ~astray /\ (stack = <<>> \/ InDestructor)

\* The cells on which the walks in the calls s stand.
Standing(s) == {s[i].pp : i \in {j \in DOMAIN s : s[j].phase = "finalize"}}

\* The objects lisp code can name: what it holds, and `this' in a destructor.
Usable(h) == \/ h \in rooted /\ obj[h] = "live"
             \/ InDestructor /\ h = Top.h

Held(r, rt, q) == r \in rt \/ \E i \in DOMAIN q : elt[q[i]].ref = r

add_finalizer(h) ==
  /\ finalizers' = finalizers \cup {h}
  /\ flagged' = flagged \cup {h}

\* Mutant: the object is freed without a call to run_finalizers.
EnterWithoutFinalizers(h, op, calls) ==
  /\ stack' = Append(calls, [h |-> h, op |-> op, pp |-> head, phase |-> "destroy"])
  /\ obj' = [obj EXCEPT ![h] = "dying"]
  /\ flagged' = flagged \ {h}
  /\ UNCHANGED finalizers

\* purge and delete_at_special call run_finalizers only for a flagged object;
\* it takes the records out of the table and clears the flag, then calls them.
Enter(h, op, calls) ==
  /\ stack' = Append(calls,
                [h |-> h, op |-> op, pp |-> head,
                 phase |-> IF h \in flagged THEN "finalize" ELSE "destroy"])
  /\ obj' = [obj EXCEPT ![h] = "dying"]
  /\ flagged' = flagged \ {h}
  /\ finalizers' = IF h \in flagged THEN finalizers \ {h} ELSE finalizers

\* UNLOCK(r) drops the last reference to r, where rt and q are what refers to
\* objects after it.
LastReference(r, rt, q) ==
  r # NIL /\ ~Held(r, rt, q) /\ obj[r] \in {"live", "zombie"}

\* A zombie has no finalizer flag and nothing to dispose of: it is freed.
Unlock(r, rt, q, calls) ==
  \/ /\ LastReference(r, rt, q) /\ obj[r] = "live"
     /\ Enter(r, "purge", calls)
  \/ /\ LastReference(r, rt, q) /\ obj[r] = "zombie"
     /\ obj' = [obj EXCEPT ![r] = "free"]
     /\ stack' = calls
     /\ UNCHANGED <<flagged, finalizers>>
  \/ /\ ~LastReference(r, rt, q)
     /\ stack' = calls
     /\ UNCHANGED <<obj, flagged, finalizers>>

-----------------------------------------------------------------------------
(* Lisp code: objects come and go, events are posted and taken.            *)

\* Mutant: init_event sets head but not tail.
InitWithoutTail ==
  /\ obj = [h \in Handler |-> "free"]
  /\ rooted = {}
  /\ queue = <<>>
  /\ tail = NIL
  /\ elt = [c \in Cell |-> NoElt]
  /\ finalizers = {} /\ flagged = {}
  /\ stack = <<>>
  /\ dirty = {} /\ dangling = FALSE /\ astray = FALSE

Init ==
  /\ obj = [h \in Handler |-> "free"]
  /\ rooted = {}
  /\ queue = <<>>
  /\ tail = head
  /\ elt = [c \in Cell |-> NoElt]
  /\ finalizers = {} /\ flagged = {}
  /\ stack = <<>>
  /\ dirty = {} /\ dangling = FALSE /\ astray = FALSE

New(h) ==
  /\ LispRuns
  /\ obj[h] = "free"
  /\ obj' = [obj EXCEPT ![h] = "live"]
  /\ rooted' = rooted \cup {h}
  /\ flagged' = flagged \ {h}
  /\ UNCHANGED <<queue, tail, elt, finalizers, stack, dangling, memory>>

\* (sendevent h (... r ...)): event_add refuses a null handler, which is what
\* a zombie evaluates to.
SendEvent(h, r) ==
  /\ LispRuns
  /\ Usable(h)
  /\ r # NIL => r \in rooted /\ obj[r] = "live"
  /\ \E c \in Cell :
       /\ ~InQueue(c)
       /\ elt' = [elt EXCEPT ![c] = [hndl |-> h, ref |-> r]]
       /\ queue' = AfterTail(c)
       /\ tail' = c
       /\ dirty' = dirty \ {c}
  /\ add_finalizer(h)
  /\ UNCHANGED <<obj, rooted, stack, dangling, astray>>

\* A destructor makes other lisp data of a free cell: purge put it on top of the
\* freelist.  It matters for those on which a walk stands.
Reuse(c) ==
  /\ LispRuns /\ InDestructor
  /\ c \in Standing(stack) \ {head} /\ ~InQueue(c)
  /\ dirty' = dirty \cup {c}
  /\ UNCHANGED <<obj, rooted, queue, tail, elt, finalizers, flagged, stack, dangling, astray>>

\* The first event for h in the queue.
FirstFor(h, i) ==
  /\ i \in DOMAIN queue
  /\ elt[queue[i]].hndl = h
  /\ \A j \in 1..(i - 1) : elt[queue[j]].hndl # h

\* Lisp code holds what the event it was given refers to.
Keep(r) == rooted' = rooted \cup ({r} \ {NIL})

\* Mutants: the tail is left on the unlinked cell, or reset to the dummy.
UnlinkLeavesTail(pp, p) ==
  /\ queue' = RemoveAt(queue, Place(p))
  /\ elt' = [elt EXCEPT ![p] = NoElt]
  /\ UNCHANGED tail
UnlinkResetsTail(pp, p) ==
  /\ queue' = RemoveAt(queue, Place(p))
  /\ tail' = head
  /\ elt' = [elt EXCEPT ![p] = NoElt]

\* ev_remove(pp, p), without what follows from dropping the event.
Unlink(pp, p) ==
  /\ queue' = RemoveAt(queue, Place(p))
  /\ tail' = IF tail = p THEN pp ELSE tail
  /\ elt' = [elt EXCEPT ![p] = NoElt]

\* (testevent h)
TestEvent(h) ==
  /\ LispRuns
  /\ Usable(h)
  /\ \E i \in DOMAIN queue : FirstFor(h, i) /\ Keep(elt[queue[i]].ref)
  /\ UNCHANGED <<obj, queue, tail, elt, finalizers, flagged, stack, dangling, memory>>

\* Mutant: the event is unlinked, and dropped, before it is locked.
CheckEventUnlocked(h) ==
  /\ LispRuns
  /\ Usable(h)
  /\ \E i \in DOMAIN queue :
       /\ FirstFor(h, i)
       /\ Keep(elt[queue[i]].ref)
       /\ Unlink(IF i = 1 THEN head ELSE queue[i - 1], queue[i])
       /\ Unlock(elt[queue[i]].ref, rooted, queue', stack)
  /\ UNCHANGED <<dangling, memory>>

\* (checkevent h): the event is locked before it is unlinked.
CheckEvent(h) ==
  /\ LispRuns
  /\ Usable(h)
  /\ \E i \in DOMAIN queue :
       /\ FirstFor(h, i)
       /\ Keep(elt[queue[i]].ref)
       /\ Unlink(IF i = 1 THEN head ELSE queue[i - 1], queue[i])
  /\ UNCHANGED <<obj, finalizers, flagged, stack, dangling, memory>>

\* event_peek: (testevent ()), (checkevent ()), (waitevent) and the dispatcher
\* take a reference to the handler of the first event.  What is at that address
\* may have been freed; an object still in its destructor is not kept.
PeekHandler ==
  /\ LispRuns
  /\ queue # <<>>
  /\ LET h == elt[queue[1]].hndl IN
       /\ rooted' = IF obj[h] \in {"live", "zombie"} THEN rooted \cup {h} ELSE rooted
       /\ dangling' = (dangling \/ obj[h] = "free")
  /\ UNCHANGED <<obj, queue, tail, elt, finalizers, flagged, stack, memory>>

\* The last reference lisp code holds to h goes away.
DropReference(h) ==
  /\ LispRuns
  /\ h \in rooted
  /\ obj[h] \in {"live", "zombie"}
  /\ rooted' = rooted \ {h}
  /\ Unlock(h, rooted', queue, stack)
  /\ UNCHANGED <<queue, tail, elt, dangling, memory>>

\* (delete h): does nothing to a zombie or to an object already being deleted.
Delete(h) ==
  /\ LispRuns
  /\ h \in rooted
  /\ obj[h] = "live"
  /\ Enter(h, "delete", stack)
  /\ UNCHANGED <<rooted, queue, tail, elt, dangling, memory>>

-----------------------------------------------------------------------------
(* The calls in progress.                                                  *)

\* Mutant: after a removal the walk advances past the next cell unseen.
FinalizeRemoveSkips ==
  /\ ~astray /\ stack # <<>> /\ Top.phase = "finalize"
  /\ LET p == Cdr(Top.pp) IN
       /\ p # NIL
       /\ elt[p].hndl = Top.h
       /\ Unlink(Top.pp, p)
       /\ Unlock(elt[p].ref, rooted, queue',
            Append(Pop, [Top EXCEPT !.pp = IF Place(p) < Len(queue)
                                             THEN queue[Place(p) + 1] ELSE @]))
  /\ UNCHANGED <<rooted, dangling, memory>>

\* The walk of ev_finalize moves past an event for another handler, ...
FinalizeSkip ==
  /\ ~astray /\ stack # <<>> /\ Top.phase = "finalize"
  /\ Cdr(Top.pp) # NIL
  /\ elt[Cdr(Top.pp)].hndl # Top.h
  /\ stack' = Append(Pop, [Top EXCEPT !.pp = Cdr(Top.pp)])
  /\ UNCHANGED <<obj, rooted, queue, tail, elt, finalizers, flagged, dangling, memory>>

\* ... unlinks and drops one for this handler, which may start another purge, ...
FinalizeRemove ==
  /\ ~astray /\ stack # <<>> /\ Top.phase = "finalize"
  /\ LET p == Cdr(Top.pp) IN
       /\ p # NIL
       /\ elt[p].hndl = Top.h
       /\ Unlink(Top.pp, p)
       /\ Unlock(elt[p].ref, rooted, queue', stack)
  /\ UNCHANGED <<rooted, dangling, memory>>

\* Mutant: at the end of the list the walk starts over unless the list is empty.
FinalizeAgain ==
  /\ ~astray /\ stack # <<>> /\ Top.phase = "finalize"
  /\ Cdr(Top.pp) = NIL
  /\ stack' = Append(Pop, IF queue = <<>> THEN [Top EXCEPT !.phase = "destroy", !.pp = head]
                          ELSE [Top EXCEPT !.pp = head])
  /\ dirty' = dirty \cap Standing(stack')
  /\ UNCHANGED <<obj, rooted, queue, tail, elt, finalizers, flagged, dangling, astray>>

\* ... and ends where it reads NIL.
FinalizeEnd ==
  /\ ~astray /\ stack # <<>> /\ Top.phase = "finalize"
  /\ Cdr(Top.pp) = NIL
  /\ stack' = Append(Pop, [Top EXCEPT !.phase = "destroy", !.pp = head])
  /\ dirty' = dirty \cap Standing(stack')
  /\ UNCHANGED <<obj, rooted, queue, tail, elt, finalizers, flagged, dangling, astray>>

\* The walk goes on where the data on the cell it stands on leads it.
Stray ==
  /\ stack # <<>> /\ Top.phase = "finalize"
  /\ Top.pp \in dirty
  /\ astray' = TRUE
  /\ UNCHANGED <<obj, rooted, queue, tail, elt, finalizers, flagged, stack, dangling, dirty>>

\* Back from the destructor: purge frees the address, delete leaves a zombie
\* whose flags no longer say that it has finalizers.
Destroyed ==
  /\ ~astray /\ stack # <<>> /\ Top.phase = "destroy"
  /\ stack' = Pop
  /\ obj' = [obj EXCEPT ![Top.h] = IF Top.op = "purge" THEN "free" ELSE "zombie"]
  /\ flagged' = flagged \ {Top.h}
  /\ UNCHANGED <<rooted, queue, tail, elt, finalizers, dangling, memory>>

-----------------------------------------------------------------------------
Calls == FinalizeSkip \/ FinalizeRemove \/ FinalizeEnd \/ Destroyed

Lisp == \/ \E h \in Handler : \/ New(h)
                              \/ TestEvent(h)
                              \/ CheckEvent(h)
                              \/ DropReference(h)
                              \/ Delete(h)
                              \/ \E r \in Carried \cup {NIL} : SendEvent(h, r)
        \/ PeekHandler
        \/ \E c \in Cell : Reuse(c)

Next == Lisp \/ Calls \/ Stray

\* The interpreter is a single thread: lisp code waits for the calls it makes.
Spec == Init /\ [][Next]_vars

-----------------------------------------------------------------------------
(* Properties.                                                             *)

TypeOK ==
  /\ obj \in [Handler -> {"free", "live", "dying", "zombie"}]
  /\ rooted \subseteq Handler
  /\ queue \in Seq(Cell)
  /\ tail \in Cell \cup {head}
  /\ elt \in [Cell -> Elt]
  /\ \A i \in DOMAIN queue : elt[queue[i]].hndl \in Handler
  /\ finalizers \subseteq Handler /\ flagged \subseteq Handler
  /\ stack \in Seq(Frame)
  /\ dirty \subseteq Cell
  /\ dangling \in BOOLEAN /\ astray \in BOOLEAN

\* Until a walk goes astray, tail is the last cell of the list (the dummy when it
\* is empty) and no cell is linked twice, whatever walks are in progress: an event
\* posted by a destructor in the middle of a walk, maybe on a cell that an outer
\* walk stands on, is linked where it is found (ev_add, ev_remove).
TailIsLast ==
  /\ tail = IF queue = <<>> THEN head ELSE queue[Len(queue)]
  /\ \A i, j \in DOMAIN queue : queue[i] = queue[j] => i = j

\* Nothing a queued event refers to has been freed, and nothing lisp code
\* holds has: events given out by event_get keep their contents alive, until a
\* walk goes astray.
ReferencesAreAlive ==
  /\ \A h \in rooted : obj[h] # "free"
  /\ \A i \in DOMAIN queue :
       LET r == elt[queue[i]].ref IN r # NIL => obj[r] # "free"

\* The weak pointers are safe: between calls, the handler of every queued
\* event is a live object that will remove it when it dies.
WeakPointersSafe ==
  stack = <<>> =>
    \A i \in DOMAIN queue :
      LET h == elt[queue[i]].hndl
      IN  obj[h] = "live" /\ h \in flagged /\ h \in finalizers

\* The comment of event_peek: "Otherwise return the handler associated with
\* the next available event" - a handler that exists.
PeekGivesHandler == ~dangling

\* What is queued, and of that what is for the handlers in H, oldest first.
Events == [i \in DOMAIN queue |-> [to |-> elt[queue[i]].hndl, carries |-> elt[queue[i]].ref]]
EventsTo(H) == Selected(Events, {i \in DOMAIN queue : elt[queue[i]].hndl \in H})
EventsOf(h) == EventsTo({h})

\* An object that stays alive loses no event but the oldest, and that one to
\* the lisp code that takes it; new ones go to the end.  No walk, however it is
\* re-entered, no destructor and no other object's death disturbs them, unless a
\* walk goes astray.
LivingLoseNothing ==
  [][\A h \in Handler : obj[h] = "live" /\ obj'[h] = "live" =>
       \/ EventsOf(h)' = EventsOf(h)
       \/ \E r \in Handler \cup {NIL} :
            EventsOf(h)' = Append(EventsOf(h), [to |-> h, carries |-> r])
       \/ /\ LispRuns /\ EventsOf(h) # <<>>
          /\ EventsOf(h)' = Tail(EventsOf(h))]_vars

\* How far the walk that stands on pp is from the end of the list.
Ahead(pp) == IF Attached(pp) THEN Len(queue) - Place(pp) ELSE 0

\* The steps of purge and delete come to an end: when no lisp code runs, each
\* one shortens the queue, or else the stack of calls, or else the walk on top
\* of it.  However deaths nest, control gets back to lisp code, the caller's or
\* that of a destructor, unless a walk goes astray.
CallsReturn ==
  [][~LispRuns /\ ~astray' =>
       \/ Len(queue') < Len(queue)
       \/ /\ queue' = queue
          /\ \/ Len(stack') < Len(stack)
             \/ /\ Len(stack') = Len(stack) /\ Top.phase = "finalize"
                /\ Top'.phase = "destroy" \/ Ahead(Top'.pp) < Ahead(Top.pp)]_vars

-----------------------------------------------------------------------------
(* Refinement of the abstract queue: an event counts while its handler is  *)
(* live.                                                                   *)

Living == {h \in Handler : obj[h] = "live"}
Pending == EventsTo(Living)

Abstract == INSTANCE WeakQueue
              WITH Payload <- Handler \cup {NIL},
                   alive <- Living, pending <- Pending

\* Seen through that mapping, posting, taking, dying and nothing else change
\* the queue: the cells, the tail and the walk implement WeakQueue.
ImplementsWeakQueue == Abstract!Spec
=============================================================================
