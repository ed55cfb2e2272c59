-------------------------- MODULE EventQueueProofs ---------------------------
(***************************************************************************)
(* Proofs about EventQueue, for every set of handlers and cells.           *)
(***************************************************************************)
EXTENDS EventQueue, SequenceTheorems, SeqLemmas, TLAPS

-----------------------------------------------------------------------------
(* The list and the calls in progress.                                     *)

\* The calls in progress without the innermost.
LEMMA PopProperties ==
  ASSUME TypeOK, stack # <<>>
  PROVE  /\ Pop \in Seq(Frame) /\ Top \in Frame
         /\ Len(stack) \in Nat \ {0} /\ Len(Pop) = Len(stack) - 1
         /\ \A k \in 1..Len(Pop) : Pop[k] = stack[k]
BY FrontProperties DEF TypeOK, Pop, Top

\* Where an attached cell stands.
LEMMA PlaceProperties ==
  ASSUME TypeOK, NEW c \in Cell, InQueue(c)
  PROVE  Place(c) \in DOMAIN queue /\ queue[Place(c)] = c
BY SentinelAssumption DEF TypeOK, InQueue, Place

\* pp->Cdr is NIL or the cell that follows pp.
LEMMA CdrProperties ==
  ASSUME TypeOK, NEW pp \in Cell \cup {head}, Cdr(pp) # NIL
  PROVE  /\ Attached(pp) /\ Place(pp) + 1 \in DOMAIN queue
         /\ Place(pp) \in Nat
         /\ pp # head => Place(pp) \in DOMAIN queue /\ queue[Place(pp)] = pp
         /\ Cdr(pp) = queue[Place(pp) + 1] /\ Cdr(pp) \in Cell /\ InQueue(Cdr(pp))
<1>1. Attached(pp) /\ Place(pp) < Len(queue) /\ Cdr(pp) = queue[Place(pp) + 1]
  BY DEF Cdr
<1>2. queue \in Seq(Cell) /\ Len(queue) \in Nat /\ DOMAIN queue = 1..Len(queue)
  BY LenProperties DEF TypeOK
<1>3. CASE pp = head
  BY <1>1, <1>2, <1>3, ElementOfSeq DEF Place, InQueue
<1>4. CASE pp # head
  <2>1. InQueue(pp) /\ pp \in Cell
    BY <1>1, <1>4 DEF Attached
  <2>2. Place(pp) \in DOMAIN queue /\ queue[Place(pp)] = pp
    BY <2>1, PlaceProperties
  <2> QED BY <1>1, <1>2, <2>2, ElementOfSeq DEF InQueue
<1> QED BY <1>3, <1>4

\* Steps in which lisp data comes and goes that is not the queue's.
Elsewhere == Stray \/ (\E c \in Cell : Reuse(c)) \/ UNCHANGED vars

LEMMA ElsewhereKeeps ==
  ASSUME Elsewhere
  PROVE  UNCHANGED <<obj, rooted, queue, tail, elt, finalizers, flagged, stack, dangling>>
BY DEF Elsewhere, Stray, Reuse, vars

-----------------------------------------------------------------------------
(* Type correctness and the shape of the list: TypeOK /\ TailIsLast is     *)
(* inductive.  ev_remove keeps tail on the last cell only because the cell *)
(* it unlinks really follows pp, which is where the two parts meet.        *)

ShapeInv == TypeOK /\ TailIsLast

\* The variables Enter and Unlock change keep their types.
CallsOK == /\ obj \in [Handler -> {"free", "live", "dying", "zombie"}]
           /\ finalizers \subseteq Handler /\ flagged \subseteq Handler
           /\ stack \in Seq(Frame)

LEMMA EnterTypes ==
  ASSUME TypeOK, NEW h \in Handler, NEW op \in {"purge", "delete"},
         NEW calls \in Seq(Frame), Enter(h, op, calls)
  PROVE  CallsOK'
<1>1. [h |-> h, op |-> op, pp |-> head,
       phase |-> IF h \in flagged THEN "finalize" ELSE "destroy"] \in Frame
  BY DEF Frame
<1> QED BY <1>1, AppendProperties DEF Enter, CallsOK, TypeOK

LEMMA UnlockTypes ==
  ASSUME TypeOK, NEW r \in Handler \cup {NIL}, NEW rt, NEW q,
         NEW calls \in Seq(Frame), Unlock(r, rt, q, calls)
  PROVE  CallsOK'
<1>1. CASE LastReference(r, rt, q) /\ obj[r] = "live" /\ Enter(r, "purge", calls)
  BY <1>1, EnterTypes DEF LastReference
<1>2. CASE LastReference(r, rt, q) /\ obj' = [obj EXCEPT ![r] = "free"]
           /\ stack' = calls /\ UNCHANGED <<flagged, finalizers>>
  BY <1>2 DEF LastReference, CallsOK, TypeOK
<1>3. CASE stack' = calls /\ UNCHANGED <<obj, flagged, finalizers>>
  BY <1>3 DEF CallsOK, TypeOK
<1> QED BY <1>1, <1>2, <1>3 DEF Unlock

\* Unlinking the cell after pp keeps the list well formed.
LEMMA UnlinkShape ==
  ASSUME ShapeInv, NEW pp \in Cell \cup {head}, NEW i \in DOMAIN queue,
         pp = IF i = 1 THEN head ELSE queue[i - 1],
         Unlink(pp, queue[i])
  PROVE  /\ queue' \in Seq(Cell) /\ tail' \in Cell \cup {head}
         /\ elt' \in [Cell -> Elt] /\ TailIsLast'
         /\ \A j \in DOMAIN queue' : elt'[queue'[j]].hndl \in Handler
<1> DEFINE n == Len(queue)
           q == RemoveAt(queue, i)
<1>1. /\ queue \in Seq(Cell) /\ n \in Nat /\ DOMAIN queue = 1..n
      /\ \A k \in 1..n : queue[k] \in Cell
      /\ i \in 1..n
  BY LenProperties DEF ShapeInv, TypeOK
<1>2. Place(queue[i]) = i
  BY <1>1, SentinelAssumption DEF Place, ShapeInv, TailIsLast
<1>3. /\ q \in Seq(Cell) /\ Len(q) = n - 1
      /\ \A j \in 1..(n - 1) : q[j] = IF j < i THEN queue[j] ELSE queue[j + 1]
  BY <1>1, RemoveAtProperties
<1>4. /\ queue' = q
      /\ tail' = (IF tail = queue[i] THEN pp ELSE tail)
      /\ elt' = [elt EXCEPT ![queue[i]] = NoElt]
  BY <1>2 DEF Unlink
<1> HIDE DEF n, q
<1>5. DOMAIN q = 1..(n - 1) /\ (q = <<>> <=> n = 1)
  <2>1. DOMAIN q = 1..(n - 1)
    BY <1>3, LenProperties
  <2>2. q = <<>> <=> Len(q) = 0
    BY <1>3, EmptySeq
  <2> QED BY <1>1, <1>3, <2>1, <2>2
<1>6. elt' \in [Cell -> Elt] /\ tail' \in Cell \cup {head}
  BY <1>1, <1>4 DEF ShapeInv, TypeOK, Elt, NoElt
<1>7. tail = queue[n] /\ queue # <<>>
  <2>1. queue # <<>>
    BY <1>1, EmptySeq DEF n
  <2> QED BY <2>1 DEF ShapeInv, TailIsLast, n
<1>8. \A j, k \in 1..n : queue[j] = queue[k] => j = k
  BY <1>1 DEF ShapeInv, TailIsLast
<1>9. \A j, k \in 1..(n - 1) : q[j] = q[k] => j = k
  <2> SUFFICES ASSUME NEW j \in 1..(n - 1), NEW k \in 1..(n - 1), q[j] = q[k]
               PROVE  j = k
    OBVIOUS
  <2> DEFINE old(m) == IF m < i THEN m ELSE m + 1
  <2>1. q[j] = queue[old(j)] /\ q[k] = queue[old(k)]
    BY <1>3
  <2>2. old(j) \in 1..n /\ old(k) \in 1..n
    BY <1>1
  <2>3. old(j) = old(k)
    <3> HIDE DEF old
    <3> QED BY <1>8, <2>1, <2>2
  <2> QED BY <1>1, <2>3
<1>10. tail' = IF q = <<>> THEN head ELSE q[n - 1]
  <2>1. CASE i = n
    <3>1. tail' = pp
      BY <1>4, <1>7, <2>1
    <3>2. CASE n = 1
      BY <1>5, <2>1, <3>1, <3>2
    <3>3. CASE n # 1
      <4>1. n - 1 \in 1..(n - 1) /\ n - 1 < i
        BY <1>1, <2>1, <3>3
      <4>2. q[n - 1] = queue[i - 1]
        BY <1>3, <2>1, <4>1
      <4> QED BY <1>5, <2>1, <3>1, <3>3, <4>2
    <3> QED BY <3>2, <3>3
  <2>2. CASE i # n
    <3>1. tail' = queue[n] /\ n # 1
      BY <1>1, <1>4, <1>7, <1>8, <2>2
    <3>2. n - 1 \in 1..(n - 1) /\ ~(n - 1 < i) /\ n - 1 + 1 = n
      BY <1>1, <2>2, <3>1
    <3>3. q[n - 1] = queue[n]
      BY <1>3, <3>2
    <3> QED BY <1>5, <3>1, <3>3
  <2> QED BY <2>1, <2>2
<1>11. TailIsLast'
  BY <1>3, <1>4, <1>5, <1>9, <1>10 DEF TailIsLast
<1>12. ASSUME NEW j \in DOMAIN queue' PROVE elt'[queue'[j]].hndl \in Handler
  <2> DEFINE m == IF j < i THEN j ELSE j + 1
  <2>1. m \in 1..n /\ m # i /\ queue'[j] = queue[m]
    BY <1>1, <1>3, <1>4, <1>5
  <2> HIDE DEF m
  <2>2. queue[m] # queue[i] /\ queue[m] \in Cell
    BY <1>1, <1>8, <2>1
  <2> QED BY <1>1, <1>4, <2>1, <2>2 DEF ShapeInv, TypeOK
<1> QED BY <1>3, <1>4, <1>6, <1>11, <1>12


\* A cell linked after tail keeps the list well formed.
LEMMA LinkShape ==
  ASSUME ShapeInv, NEW c \in Cell, ~InQueue(c),
         queue' = AfterTail(c), tail' = c
  PROVE  /\ queue' = Append(queue, c) /\ queue' \in Seq(Cell) /\ TailIsLast'
         /\ \A j \in DOMAIN queue' :
              queue'[j] = c \/ (j \in DOMAIN queue /\ queue'[j] = queue[j] /\ queue[j] # c)
<1> DEFINE n == Len(queue)
<1>1. /\ queue \in Seq(Cell) /\ n \in Nat /\ DOMAIN queue = 1..n
      /\ \A k \in 1..n : queue[k] \in Cell
  BY LenProperties DEF ShapeInv, TypeOK
<1>2. AfterTail(c) = Append(queue, c)
  <2>1. CASE queue = <<>>
    <3>1. tail = head /\ n = 0
      BY <1>1, <2>1, EmptySeq DEF ShapeInv, TailIsLast
    <3>2. SubSeq(queue, 1, n) = queue
      BY <1>1, SubSeqFull
    <3> QED BY <3>1, <3>2 DEF AfterTail, Attached, Place
  <2>2. CASE queue # <<>>
    <3>1. n \in 1..n /\ tail = queue[n]
      BY <1>1, <2>2, EmptySeq DEF ShapeInv, TailIsLast
    <3>2. InQueue(tail) /\ Place(tail) = n
      BY <1>1, <3>1, SentinelAssumption DEF InQueue, Place, ShapeInv, TailIsLast
    <3>3. SubSeq(queue, 1, n) = queue
      BY <1>1, SubSeqFull
    <3> QED BY <3>2, <3>3 DEF AfterTail, Attached
  <2> QED BY <2>1, <2>2
<1> DEFINE q == Append(queue, c)
<1>3. /\ q \in Seq(Cell) /\ Len(q) = n + 1
      /\ \A k \in 1..(n + 1) : q[k] = IF k <= n THEN queue[k] ELSE c
      /\ DOMAIN q = 1..(n + 1) /\ q # <<>>
  BY <1>1, AppendProperties, LenProperties, EmptySeq
<1>4. \A k \in 1..n : queue[k] # c
  BY <1>1 DEF InQueue
<1>5. \A j, k \in 1..n : queue[j] = queue[k] => j = k
  BY <1>1 DEF ShapeInv, TailIsLast
<1>6. queue' = q
  BY <1>2
<1> HIDE DEF n, q
<1>7. q[n + 1] = c
  BY <1>1, <1>3
<1>8. \A j, k \in 1..(n + 1) : q[j] = q[k] => j = k
  BY <1>1, <1>3, <1>4, <1>5
<1>9. ASSUME NEW j \in 1..(n + 1)
      PROVE  q[j] = c \/ (j \in DOMAIN queue /\ q[j] = queue[j] /\ queue[j] # c)
  BY <1>1, <1>3, <1>4
<1>10. TailIsLast'
  BY <1>3, <1>6, <1>7, <1>8 DEF TailIsLast
<1> QED BY <1>3, <1>6, <1>9, <1>10 DEF q

LEMMA InitShape == Init => ShapeInv
<1> SUFFICES ASSUME Init PROVE ShapeInv
  OBVIOUS
<1>1. queue \in Seq(Cell) /\ stack \in Seq(Frame) /\ DOMAIN queue = {}
  <2>1. queue \in Seq(Cell) /\ stack \in Seq(Frame) /\ Len(queue) = 0
    BY EmptySeq DEF Init
  <2> QED BY <2>1, LenProperties
<1>2. elt \in [Cell -> Elt]
  BY DEF Init, Elt, NoElt
<1>3. TypeOK
  BY <1>1, <1>2 DEF Init, TypeOK
<1>4. TailIsLast
  BY <1>1 DEF Init, TailIsLast
<1> QED BY <1>3, <1>4 DEF ShapeInv

LEMMA NextShape == ShapeInv /\ [Next]_vars => ShapeInv'
<1> SUFFICES ASSUME ShapeInv, [Next]_vars PROVE ShapeInv'
  OBVIOUS
<1> USE DEF ShapeInv
<1>0. /\ stack \in Seq(Frame) /\ queue \in Seq(Cell) /\ TypeOK
      /\ DOMAIN queue = 1..Len(queue) /\ Len(queue) \in Nat
      /\ \A i \in DOMAIN queue :
           queue[i] \in Cell /\ elt[queue[i]] \in Elt
  BY LenProperties DEF TypeOK
<1>1. ASSUME NEW h \in Handler, New(h) PROVE ShapeInv'
  BY <1>1 DEF New, memory, TypeOK, TailIsLast
<1>2. ASSUME NEW h \in Handler, NEW r \in Carried \cup {NIL}, SendEvent(h, r)
      PROVE  ShapeInv'
  <2>1. PICK c \in Cell : /\ ~InQueue(c)
                          /\ elt' = [elt EXCEPT ![c] = [hndl |-> h, ref |-> r]]
                          /\ queue' = AfterTail(c)
                          /\ tail' = c
    BY <1>2 DEF SendEvent
  <2>2. /\ queue' \in Seq(Cell) /\ TailIsLast'
        /\ \A j \in DOMAIN queue' :
             queue'[j] = c \/ (j \in DOMAIN queue /\ queue'[j] = queue[j] /\ queue[j] # c)
    BY <2>1, LinkShape
  <2>3. r \in Handler \cup {NIL} /\ [hndl |-> h, ref |-> r] \in Elt
    BY SentinelAssumption DEF Elt
  <2>4. \A j \in DOMAIN queue' : elt'[queue'[j]].hndl \in Handler
    BY <2>1, <2>2, <1>0 DEF TypeOK
  <2> QED BY <1>2, <2>1, <2>2, <2>3, <2>4 DEF SendEvent, add_finalizer, TypeOK
<1>3. ASSUME NEW h \in Handler, TestEvent(h) PROVE ShapeInv'
  BY <1>0, <1>3 DEF TestEvent, Keep, memory, TypeOK, TailIsLast, FirstFor, Elt
<1>4. ASSUME NEW h \in Handler, CheckEvent(h) PROVE ShapeInv'
  <2>1. PICK i \in DOMAIN queue :
          /\ Keep(elt[queue[i]].ref)
          /\ Unlink(IF i = 1 THEN head ELSE queue[i - 1], queue[i])
    BY <1>4 DEF CheckEvent
  <2>2. (IF i = 1 THEN head ELSE queue[i - 1]) \in Cell \cup {head}
    BY <1>0
  <2>3. /\ queue' \in Seq(Cell) /\ tail' \in Cell \cup {head}
        /\ elt' \in [Cell -> Elt] /\ TailIsLast'
        /\ \A j \in DOMAIN queue' : elt'[queue'[j]].hndl \in Handler
    BY <2>1, <2>2, UnlinkShape
  <2>4. rooted' \subseteq Handler
    BY <1>0, <2>1 DEF Keep, TypeOK, Elt
  <2> QED BY <1>4, <2>3, <2>4 DEF CheckEvent, memory, TypeOK
<1>5. ASSUME PeekHandler PROVE ShapeInv'
  <2>1. 1 \in DOMAIN queue
    BY <1>0, <1>5, EmptySeq DEF PeekHandler
  <2>2. elt[queue[1]].hndl \in Handler
    BY <2>1 DEF TypeOK
  <2> QED BY <1>5, <2>2 DEF PeekHandler, memory, TypeOK, TailIsLast
<1>6. ASSUME NEW h \in Handler, DropReference(h) PROVE ShapeInv'
  BY <1>0, <1>6, UnlockTypes DEF DropReference, memory, TypeOK, TailIsLast, CallsOK
<1>7. ASSUME NEW h \in Handler, Delete(h) PROVE ShapeInv'
  BY <1>0, <1>7, EnterTypes DEF Delete, memory, TypeOK, TailIsLast, CallsOK
<1>8. ASSUME FinalizeSkip PROVE ShapeInv'
  <2>1. Top \in Frame /\ Pop \in Seq(Frame) /\ Cdr(Top.pp) # NIL
    BY <1>8, PopProperties DEF FinalizeSkip
  <2>2. Cdr(Top.pp) \in Cell
    BY <2>1, CdrProperties DEF Frame
  <2>3. [Top EXCEPT !.pp = Cdr(Top.pp)] \in Frame
    BY <2>1, <2>2 DEF Frame
  <2>4. stack' \in Seq(Frame)
    BY <1>8, <2>1, <2>3, AppendProperties DEF FinalizeSkip
  <2> QED BY <1>8, <2>4 DEF FinalizeSkip, memory, TypeOK, TailIsLast
<1>9. ASSUME FinalizeRemove PROVE ShapeInv'
  <2> DEFINE p == Cdr(Top.pp)
             i == Place(Top.pp) + 1
  <2>1. Top \in Frame /\ p # NIL /\ Unlink(Top.pp, p)
        /\ Unlock(elt[p].ref, rooted, queue', stack)
    BY <1>9, PopProperties DEF FinalizeRemove
  <2>2. Top.pp \in Cell \cup {head}
    BY <2>1 DEF Frame
  <2>3. i \in DOMAIN queue /\ p = queue[i]
        /\ Top.pp = IF i = 1 THEN head ELSE queue[i - 1]
    <3>1. /\ i \in DOMAIN queue /\ p = queue[i] /\ Place(Top.pp) \in Nat
          /\ Top.pp # head =>
               Place(Top.pp) \in DOMAIN queue /\ queue[Place(Top.pp)] = Top.pp
      BY <2>1, <2>2, CdrProperties
    <3>2. CASE Top.pp = head
      BY <3>1, <3>2 DEF Place
    <3>3. CASE Top.pp # head
      BY <1>0, <3>1, <3>3
    <3> QED BY <3>1, <3>2, <3>3
  <2>4. /\ queue' \in Seq(Cell) /\ tail' \in Cell \cup {head}
        /\ elt' \in [Cell -> Elt] /\ TailIsLast'
        /\ \A j \in DOMAIN queue' : elt'[queue'[j]].hndl \in Handler
    BY <2>1, <2>2, <2>3, UnlinkShape
  <2>5. CallsOK'
    BY <1>0, <2>1, <2>3, UnlockTypes DEF Elt
  <2> QED BY <1>9, <2>4, <2>5 DEF FinalizeRemove, memory, TypeOK, CallsOK
<1>10. ASSUME FinalizeEnd PROVE ShapeInv'
  <2>1. Top \in Frame /\ Pop \in Seq(Frame)
    BY <1>10, PopProperties DEF FinalizeEnd
  <2>2. [Top EXCEPT !.phase = "destroy", !.pp = head] \in Frame
    BY <2>1 DEF Frame
  <2>3. stack' \in Seq(Frame)
    BY <1>10, <2>1, <2>2, AppendProperties DEF FinalizeEnd
  <2> QED BY <1>10, <2>3 DEF FinalizeEnd, TypeOK, TailIsLast
<1>11. ASSUME Destroyed PROVE ShapeInv'
  <2>1. Top \in Frame /\ Pop \in Seq(Frame)
    BY <1>11, PopProperties DEF Destroyed
  <2> QED BY <1>11, <2>1 DEF Destroyed, memory, TypeOK, TailIsLast, Frame
<1>12. ASSUME Elsewhere PROVE ShapeInv'
  <2>1. dirty' \subseteq Cell /\ astray' \in BOOLEAN
    BY <1>12 DEF Elsewhere, Stray, Reuse, vars, memory, TypeOK
  <2> QED BY <1>12, <2>1, ElsewhereKeeps DEF TypeOK, TailIsLast
<1> QED BY <1>1, <1>2, <1>3, <1>4, <1>5, <1>6, <1>7, <1>8, <1>9, <1>10, <1>11, <1>12
        DEF Next, Lisp, Calls, Elsewhere

\* Every reachable state is of the declared types.
THEOREM TypeCorrect == Spec => []TypeOK
<1>1. ShapeInv => TypeOK
  BY DEF ShapeInv
<1> QED BY <1>1, InitShape, NextShape, PTL DEF Spec

\* Whatever walks are in progress and whatever destructors post in the middle
\* of them, until a walk goes astray, tail is the last cell of the list and no cell is linked twice, so
\* that ev_add never loses an event nor links one into the middle.
THEOREM TailCorrect == Spec => []TailIsLast
<1>1. ShapeInv => TailIsLast
  BY DEF ShapeInv
<1> QED BY <1>1, InitShape, NextShape, PTL DEF Spec

-----------------------------------------------------------------------------
(* When walks stay on the list.  What dies inside a walk is what an event  *)
(* referred to: without a destructor it makes no lisp data.                *)

ApartAssumption == Carried \cap Destructible = {}

\* The calls made from inside a walk are for objects that events referred to.
InsideCarried ==
  \A i, j \in DOMAIN stack :
    i < j /\ stack[i].phase = "finalize" => stack[j].h \in Carried

OnListInv ==
  /\ TypeOK /\ InsideCarried
  /\ \A c \in Cell : elt[c].ref \in Carried \cup {NIL}
  /\ dirty = {} /\ ~astray

\* Lisp code runs in no walk.
LEMMA NoWalk ==
  ASSUME ApartAssumption, TypeOK, InsideCarried, LispRuns
  PROVE  \A i \in DOMAIN stack : stack[i].phase # "finalize"
<1> SUFFICES ASSUME NEW i \in DOMAIN stack, stack[i].phase = "finalize" PROVE FALSE
  OBVIOUS
<1>1. Len(stack) \in Nat /\ DOMAIN stack = 1..Len(stack) /\ stack # <<>>
  BY LenProperties, EmptySeq DEF TypeOK
<1>2. Top.phase = "destroy" /\ Top.h \in Destructible
  BY <1>1 DEF LispRuns, InDestructor
<1>3. i # Len(stack) /\ Len(stack) \in DOMAIN stack /\ i < Len(stack)
  BY <1>1, <1>2 DEF Top
<1> QED BY <1>2, <1>3 DEF InsideCarried, ApartAssumption, Top

\* A call for an object an event referred to, or made where no walk is in progress.
LEMMA PushInside ==
  ASSUME TypeOK, InsideCarried, NEW f \in Frame, stack' = Append(stack, f),
         \/ f.h \in Carried
         \/ \A i \in DOMAIN stack : stack[i].phase # "finalize"
  PROVE  InsideCarried'
<1> DEFINE n == Len(stack)
<1>1. /\ stack \in Seq(Frame) /\ n \in Nat /\ DOMAIN stack = 1..n
  BY LenProperties DEF TypeOK
<1>2. /\ stack' \in Seq(Frame) /\ DOMAIN stack' = 1..(n + 1)
      /\ \A i \in 1..(n + 1) : stack'[i] = IF i <= n THEN stack[i] ELSE f
  BY <1>1, AppendProperties, LenProperties
<1> HIDE DEF n
<1> SUFFICES ASSUME NEW i \in 1..(n + 1), NEW j \in 1..(n + 1), i < j,
                    stack'[i].phase = "finalize"
             PROVE  stack'[j].h \in Carried
  BY <1>2 DEF InsideCarried
<1>3. i \in 1..n /\ stack'[i] = stack[i]
  BY <1>1, <1>2
<1>4. CASE j <= n
  BY <1>1, <1>2, <1>3, <1>4 DEF InsideCarried
<1>5. CASE ~(j <= n)
  BY <1>1, <1>2, <1>3, <1>5
<1> QED BY <1>4, <1>5

\* The innermost call goes on, or ends.
LEMMA TopInside ==
  ASSUME TypeOK, InsideCarried, stack # <<>>, NEW f \in Frame, f.h = Top.h,
         stack' = Append(Pop, f) \/ stack' = Pop
  PROVE  InsideCarried'
<1> DEFINE n == Len(stack)
<1>1. /\ Pop \in Seq(Frame) /\ n \in Nat \ {0} /\ Len(Pop) = n - 1
      /\ \A k \in 1..Len(Pop) : Pop[k] = stack[k]
      /\ DOMAIN stack = 1..n /\ Top = stack[n]
  BY PopProperties, LenProperties DEF TypeOK, Top
<1>2. CASE stack' = Pop
  <2>1. DOMAIN stack' = 1..(n - 1) /\ \A k \in 1..(n - 1) : stack'[k] = stack[k]
    BY <1>1, <1>2, LenProperties
  <2> HIDE DEF n
  <2> QED BY <1>1, <2>1 DEF InsideCarried
<1>3. CASE stack' = Append(Pop, f)
  <2>1. /\ DOMAIN stack' = 1..n
        /\ \A k \in 1..n : stack'[k] = IF k <= n - 1 THEN stack[k] ELSE f
    <3>1. PICK r : r = Pop
      OBVIOUS
    <3>2. /\ r \in Seq(Frame) /\ n \in Nat \ {0} /\ Len(r) = n - 1
          /\ \A k \in 1..(n - 1) : r[k] = stack[k]
      BY <1>1, <3>1
    <3> HIDE DEF n
    <3>3. /\ Append(r, f) \in Seq(Frame) /\ Len(Append(r, f)) = n
          /\ \A k \in 1..n : Append(r, f)[k] = IF k <= n - 1 THEN r[k] ELSE f
      BY <3>2, AppendProperties
    <3>4. DOMAIN Append(r, f) = 1..n
      BY <3>3, LenProperties
    <3> QED BY <1>3, <3>1, <3>2, <3>3, <3>4
  <2> HIDE DEF n
  <2>2. \A k \in 1..n : stack'[k].h = stack[k].h
    BY <1>1, <2>1
  <2>3. \A k \in 1..n : k < n => stack'[k] = stack[k]
    BY <1>1, <2>1
  <2> SUFFICES ASSUME NEW i \in 1..n, NEW j \in 1..n, i < j, stack'[i].phase = "finalize"
               PROVE  stack'[j].h \in Carried
    BY <2>1 DEF InsideCarried
  <2>4. i < n
    BY <1>1
  <2>5. stack[i].phase = "finalize"
    BY <2>3, <2>4
  <2> QED BY <1>1, <2>2, <2>5 DEF InsideCarried
<1> QED BY <1>2, <1>3

\* What Unlock does to the calls in progress.
LEMMA UnlockInside ==
  ASSUME TypeOK, InsideCarried, NEW r \in Handler \cup {NIL}, NEW rt, NEW q,
         Unlock(r, rt, q, stack),
         \/ r \in Carried \cup {NIL}
         \/ \A i \in DOMAIN stack : stack[i].phase # "finalize"
  PROVE  InsideCarried'
<1>1. CASE LastReference(r, rt, q) /\ Enter(r, "purge", stack)
  <2>1. PICK f : f = [h |-> r, op |-> "purge", pp |-> head,
                      phase |-> IF r \in flagged THEN "finalize" ELSE "destroy"]
    OBVIOUS
  <2>2. r \in Handler /\ r # NIL
    BY <1>1 DEF LastReference
  <2>3. f \in Frame /\ f.h = r /\ stack' = Append(stack, f)
    BY <1>1, <2>1, <2>2 DEF Enter, Frame
  <2> QED BY <2>2, <2>3, PushInside
<1>2. CASE stack' = stack
  BY <1>2 DEF InsideCarried
<1> QED BY <1>1, <1>2 DEF Unlock

LEMMA OnListNext ==
  ASSUME ApartAssumption, OnListInv, ShapeInv, [Next]_vars
  PROVE  OnListInv'
<1>0. /\ TypeOK /\ TypeOK' /\ InsideCarried /\ stack \in Seq(Frame)
      /\ \A c \in Cell : elt[c].ref \in Carried \cup {NIL}
      /\ dirty = {} /\ ~astray /\ NIL \notin Handler
  BY NextShape, SentinelAssumption DEF OnListInv, ShapeInv, TypeOK
<1>1. LispRuns => \A i \in DOMAIN stack : stack[i].phase # "finalize"
  BY <1>0, NoWalk
<1>2. ASSUME UNCHANGED <<stack, elt, memory>> PROVE OnListInv'
  BY <1>0, <1>2 DEF OnListInv, InsideCarried, memory
<1>3. ASSUME NEW h \in Handler, New(h) \/ TestEvent(h) PROVE OnListInv'
  BY <1>2, <1>3 DEF New, TestEvent
<1>4. ASSUME NEW h \in Handler, NEW r \in Carried \cup {NIL}, SendEvent(h, r)
      PROVE  OnListInv'
  <2>1. PICK c \in Cell : elt' = [elt EXCEPT ![c] = [hndl |-> h, ref |-> r]]
                          /\ dirty' = dirty \ {c}
    BY <1>4 DEF SendEvent
  <2>2. stack' = stack /\ astray' = astray
    BY <1>4 DEF SendEvent
  <2>3. \A d \in Cell : elt'[d].ref \in Carried \cup {NIL}
    BY <1>0, <2>1 DEF TypeOK
  <2> QED BY <1>0, <2>1, <2>2, <2>3 DEF OnListInv, InsideCarried
\* Unlinking a cell clears it.
<1>5. ASSUME NEW p \in Cell, elt' = [elt EXCEPT ![p] = NoElt]
      PROVE  \A d \in Cell : elt'[d].ref \in Carried \cup {NIL}
  BY <1>0, <1>5 DEF TypeOK, NoElt
<1>6. ASSUME NEW h \in Handler, CheckEvent(h) PROVE OnListInv'
  <2>1. PICK i \in DOMAIN queue : elt' = [elt EXCEPT ![queue[i]] = NoElt]
    BY <1>6 DEF CheckEvent, Unlink
  <2>2. queue[i] \in Cell
    BY <1>0, <2>1, ElementOfSeq DEF TypeOK
  <2>3. stack' = stack /\ UNCHANGED memory
    BY <1>6 DEF CheckEvent
  <2> QED BY <1>0, <1>5, <2>1, <2>2, <2>3 DEF OnListInv, InsideCarried, memory
<1>7. ASSUME PeekHandler PROVE OnListInv'
  BY <1>2, <1>7 DEF PeekHandler
<1>8. ASSUME NEW h \in Handler, DropReference(h) PROVE OnListInv'
  <2>1. PICK rt : rt = rooted'
    OBVIOUS
  <2>2. LispRuns /\ Unlock(h, rt, queue, stack) /\ UNCHANGED <<elt, memory>>
    BY <1>8, <2>1 DEF DropReference
  <2>3. InsideCarried'
    BY <1>0, <1>1, <2>2, UnlockInside
  <2> QED BY <1>0, <2>2, <2>3 DEF OnListInv, memory
<1>9. ASSUME NEW h \in Handler, Delete(h) PROVE OnListInv'
  <2>1. PICK f : f = [h |-> h, op |-> "delete", pp |-> head,
                      phase |-> IF h \in flagged THEN "finalize" ELSE "destroy"]
    OBVIOUS
  <2>2. LispRuns /\ f \in Frame /\ stack' = Append(stack, f) /\ UNCHANGED <<elt, memory>>
    BY <1>9, <2>1 DEF Delete, Enter, Frame
  <2>3. InsideCarried'
    BY <1>0, <1>1, <2>2, PushInside
  <2> QED BY <1>0, <2>2, <2>3 DEF OnListInv, memory
<1>10. ASSUME FinalizeSkip PROVE OnListInv'
  <2>1. Top \in Frame /\ Cdr(Top.pp) # NIL /\ stack # <<>>
    BY <1>0, <1>10, PopProperties DEF FinalizeSkip
  <2>2. Cdr(Top.pp) \in Cell
    BY <1>0, <2>1, CdrProperties DEF Frame
  <2>3. PICK f : f = [Top EXCEPT !.pp = Cdr(Top.pp)]
    OBVIOUS
  <2>4. f \in Frame /\ f.h = Top.h
    BY <2>1, <2>2, <2>3 DEF Frame
  <2>5. stack' = Append(Pop, f) /\ UNCHANGED <<elt, memory>>
    BY <1>10, <2>3 DEF FinalizeSkip
  <2>6. InsideCarried'
    BY <1>0, <2>1, <2>4, <2>5, TopInside
  <2> QED BY <1>0, <2>5, <2>6 DEF OnListInv, memory
<1>11. ASSUME FinalizeRemove PROVE OnListInv'
  <2>1. PICK p : p = Cdr(Top.pp)
    OBVIOUS
  <2>2. PICK q : q = queue'
    OBVIOUS
  <2>3. /\ p # NIL /\ elt' = [elt EXCEPT ![p] = NoElt] /\ UNCHANGED memory
        /\ Unlock(elt[p].ref, rooted, q, stack) /\ stack # <<>>
    BY <1>11, <2>1, <2>2 DEF FinalizeRemove, Unlink
  <2>4. p \in Cell
    <3>1. Top.pp \in Cell \cup {head}
      BY <1>0, <2>3, PopProperties DEF Frame
    <3> QED BY <1>0, <2>1, <2>3, <3>1, CdrProperties
  <2>5. elt[p].ref \in Carried \cup {NIL} /\ elt[p].ref \in Handler \cup {NIL}
    BY <1>0, <2>4, SentinelAssumption
  <2>6. PICK r : r = elt[p].ref
    OBVIOUS
  <2>7. InsideCarried'
    BY <1>0, <2>3, <2>5, <2>6, UnlockInside
  <2> QED BY <1>0, <1>5, <2>3, <2>4, <2>7 DEF OnListInv, memory
<1>12. ASSUME FinalizeEnd PROVE OnListInv'
  <2>1. Top \in Frame /\ stack # <<>>
    BY <1>0, <1>12, PopProperties DEF FinalizeEnd
  <2>2. PICK f : f = [Top EXCEPT !.phase = "destroy", !.pp = head]
    OBVIOUS
  <2>3. f \in Frame /\ f.h = Top.h
    BY <2>1, <2>2 DEF Frame
  <2>4. stack' = Append(Pop, f) /\ elt' = elt /\ dirty' \subseteq dirty /\ astray' = astray
    BY <1>12, <2>2 DEF FinalizeEnd
  <2>5. InsideCarried'
    BY <1>0, <2>1, <2>3, <2>4, TopInside
  <2> QED BY <1>0, <2>4, <2>5 DEF OnListInv
<1>13. ASSUME Destroyed PROVE OnListInv'
  <2>1. Top \in Frame /\ stack # <<>> /\ stack' = Pop /\ UNCHANGED <<elt, memory>>
    BY <1>0, <1>13, PopProperties DEF Destroyed
  <2>2. InsideCarried'
    BY <1>0, <2>1, TopInside
  <2> QED BY <1>0, <2>1, <2>2 DEF OnListInv, memory
<1>14. ASSUME NEW c \in Cell, Reuse(c) PROVE OnListInv'
  <2>1. PICK i \in DOMAIN stack : stack[i].phase = "finalize"
    BY <1>14 DEF Reuse, Standing
  <2> QED BY <1>1, <1>14, <2>1 DEF Reuse, LispRuns
<1>15. ASSUME Stray PROVE OnListInv'
  BY <1>0, <1>15 DEF Stray
<1>16. ASSUME UNCHANGED vars PROVE OnListInv'
  BY <1>2, <1>16 DEF vars
<1> QED BY <1>3, <1>4, <1>6, <1>7, <1>8, <1>9, <1>10, <1>11, <1>12, <1>13, <1>14, <1>15, <1>16
        DEF Next, Lisp, Calls

\* As long as no object that an event may refer to has a destructor, no walk goes
\* astray, whatever posts, nests and dies: the cells it stands on are not made
\* anything else meanwhile (ev_finalize, purge).
THEOREM OnListCorrect ==
  ASSUME ApartAssumption
  PROVE  Spec => []~astray
<1>1. Init => OnListInv
  <2> SUFFICES ASSUME Init PROVE OnListInv
    OBVIOUS
  <2>1. TypeOK /\ stack = <<>>
    BY InitShape DEF ShapeInv, Init
  <2>2. DOMAIN stack = {}
    BY <2>1
  <2> QED BY <2>1, <2>2 DEF Init, OnListInv, InsideCarried, NoElt
<1>2. OnListInv /\ ShapeInv /\ [Next]_vars => OnListInv'
  BY OnListNext
<1>3. OnListInv => ~astray
  BY DEF OnListInv
<1> QED BY <1>1, <1>2, <1>3, InitShape, NextShape, PTL DEF Spec

-----------------------------------------------------------------------------
(* The weak pointers.  When events refer to no object that has events of   *)
(* its own to lose, and no destructor posts events, a walk is never        *)
(* re-entered: what it has passed holds no event of the dying handler, and *)
(* every other queued event has a live handler.                            *)

PlainAssumption == Carried = {} /\ Destructible = {}

At(pp, k) == IF k = 0 THEN pp = head ELSE k \in DOMAIN queue /\ queue[k] = pp

WalkInv ==
  stack # <<>> =>
    /\ Len(stack) = 1
    /\ obj[Top.h] = "dying"
    /\ Top.phase = "finalize" =>
         \E k \in 0..Len(queue) :
           At(Top.pp, k) /\ \A i \in 1..k : elt[queue[i]].hndl # Top.h

WillRemove(h) == obj[h] = "live" /\ h \in flagged /\ h \in finalizers
Walking(h) == stack # <<>> /\ Top.phase = "finalize" /\ Top.h = h

WeakInv == \A i \in DOMAIN queue :
             LET h == elt[queue[i]].hndl IN WillRemove(h) \/ Walking(h)

PlainInv == /\ ShapeInv
            /\ \A c \in Cell : elt[c].ref = NIL
            /\ WalkInv
            /\ WeakInv

LEMMA PlainIdle ==
  ASSUME PlainAssumption, LispRuns
  PROVE  stack = <<>>
BY DEF PlainAssumption, LispRuns, InDestructor

\* One call in progress: pushing on the empty stack, replacing the only one.
LEMMA OneCall ==
  ASSUME NEW f
  PROVE  /\ Append(<<>>, f) # <<>> /\ Len(Append(<<>>, f)) = 1
         /\ Append(<<>>, f)[1] = f
OBVIOUS

LEMMA PopOne ==
  ASSUME TypeOK, stack # <<>>, Len(stack) = 1
  PROVE  Pop = <<>>
BY PopProperties, EmptySeq

\* The death of h starts a walk at head if h has events, and none otherwise.
LEMMA EnterWeak ==
  ASSUME PlainInv, stack = <<>>, NEW h \in Handler, NEW op \in {"purge", "delete"},
         obj[h] = "live", Enter(h, op, stack), UNCHANGED <<queue, elt>>
  PROVE  WalkInv' /\ WeakInv'
<1> DEFINE f == [h |-> h, op |-> op, pp |-> head,
                 phase |-> IF h \in flagged THEN "finalize" ELSE "destroy"]
<1>1. stack' = Append(<<>>, f)
  BY DEF Enter
<1>2. stack' # <<>> /\ Len(stack') = 1 /\ Top' = f
  BY <1>1, OneCall DEF Top
<1>3. Len(queue) \in Nat /\ TypeOK
  BY LenProperties DEF PlainInv, ShapeInv, TypeOK
<1>4. obj' = [obj EXCEPT ![h] = "dying"] /\ flagged' = flagged \ {h}
      /\ finalizers \ {h} \subseteq finalizers'
  BY DEF Enter
<1>5. WalkInv'
  <2>1. At(head, 0)' /\ 0 \in 0..Len(queue')
    BY <1>3 DEF At
  <2>2. obj'[h] = "dying"
    BY <1>3, <1>4 DEF TypeOK
  <2> QED BY <1>2, <2>1, <2>2 DEF WalkInv
<1>6. ASSUME NEW i \in DOMAIN queue
      PROVE  LET g == elt[queue[i]].hndl IN WillRemove(g)' \/ Walking(g)'
  <2> DEFINE g == elt[queue[i]].hndl
  <2>1. WillRemove(g) /\ g \in Handler
    BY <1>3 DEF PlainInv, WeakInv, Walking, TypeOK
  <2>2. CASE g = h
    BY <1>2, <2>1, <2>2 DEF WillRemove, Walking
  <2>3. CASE g # h
    BY <1>3, <1>4, <2>1, <2>3 DEF WillRemove, TypeOK
  <2> QED BY <2>2, <2>3
<1>7. WeakInv'
  BY <1>6 DEF WeakInv
<1> QED BY <1>5, <1>7

LEMMA PlainNext ==
  ASSUME PlainAssumption, PlainInv, [Next]_vars
  PROVE  PlainInv'
<1>0. /\ TypeOK /\ ShapeInv' /\ WeakInv /\ WalkInv
      /\ queue \in Seq(Cell) /\ Len(queue) \in Nat /\ DOMAIN queue = 1..Len(queue)
      /\ \A c \in Cell : elt[c].ref = NIL
      /\ \A i \in DOMAIN queue : queue[i] \in Cell /\ elt[queue[i]].hndl \in Handler
      /\ \A i, j \in DOMAIN queue : queue[i] = queue[j] => i = j
  BY NextShape, LenProperties DEF PlainInv, ShapeInv, TypeOK, TailIsLast
<1>1. ASSUME NEW h \in Handler, New(h) PROVE PlainInv'
  <2>1. stack = <<>> /\ stack' = <<>>
    BY <1>1, PlainIdle DEF New
  <2>2. \A i \in DOMAIN queue : WillRemove(elt[queue[i]].hndl)
    BY <1>0, <2>1 DEF WeakInv, Walking
  <2>3. WeakInv'
    BY <1>0, <1>1, <2>2 DEF New, WeakInv, WillRemove, TypeOK
  <2> QED BY <1>0, <1>1, <2>1, <2>3 DEF New, PlainInv, WalkInv
<1>2. ASSUME NEW h \in Handler, NEW r \in Carried \cup {NIL}, SendEvent(h, r)
      PROVE  PlainInv'
  <2>1. stack = <<>> /\ stack' = <<>> /\ r = NIL /\ obj[h] = "live"
    BY <1>2, PlainIdle DEF SendEvent, PlainAssumption, Usable, InDestructor
  <2>2. PICK c \in Cell : /\ ~InQueue(c)
                          /\ elt' = [elt EXCEPT ![c] = [hndl |-> h, ref |-> r]]
                          /\ queue' = AfterTail(c)
                          /\ tail' = c
    BY <1>2 DEF SendEvent
  <2>3. \A j \in DOMAIN queue' :
          queue'[j] = c \/ (j \in DOMAIN queue /\ queue'[j] = queue[j] /\ queue[j] # c)
    BY <2>2, LinkShape DEF PlainInv
  <2>4. \A c1 \in Cell : elt'[c1].ref = NIL
    BY <1>0, <2>1, <2>2 DEF TypeOK
  <2>5. \A i \in DOMAIN queue : WillRemove(elt[queue[i]].hndl)
    BY <1>0, <2>1 DEF WeakInv, Walking
  <2>6. /\ flagged' = flagged \cup {h} /\ finalizers' = finalizers \cup {h}
        /\ obj' = obj
    BY <1>2 DEF SendEvent, add_finalizer
  <2>7. ASSUME NEW j \in DOMAIN queue' PROVE WillRemove(elt[queue[j]].hndl)'
    <3>1. CASE queue'[j] = c
      BY <1>0, <2>1, <2>2, <2>6, <3>1 DEF WillRemove, TypeOK
    <3>2. CASE j \in DOMAIN queue /\ queue'[j] = queue[j] /\ queue[j] # c
      <4>1. elt'[queue'[j]].hndl = elt[queue[j]].hndl
        BY <1>0, <2>2, <3>2 DEF TypeOK
      <4> QED BY <2>5, <2>6, <3>2, <4>1 DEF WillRemove
    <3> QED BY <2>3, <3>1, <3>2
  <2> QED BY <1>0, <2>1, <2>4, <2>7 DEF PlainInv, WalkInv, WeakInv
<1>3. ASSUME NEW h \in Handler, TestEvent(h) PROVE PlainInv'
  <2>1. UNCHANGED <<obj, queue, elt, finalizers, flagged, stack>>
    BY <1>3 DEF TestEvent
  <2> QED BY <1>0, <2>1 DEF PlainInv, WalkInv, WeakInv, WillRemove, Walking, Top, At
<1>4. ASSUME NEW h \in Handler, CheckEvent(h) PROVE PlainInv'
  <2>1. stack = <<>> /\ stack' = <<>> /\ UNCHANGED <<obj, finalizers, flagged>>
    BY <1>4, PlainIdle DEF CheckEvent
  <2>2. PICK i \in DOMAIN queue :
          Unlink(IF i = 1 THEN head ELSE queue[i - 1], queue[i])
    BY <1>4 DEF CheckEvent
  <2>3. /\ \A c \in Cell : elt'[c].ref = NIL
        /\ \A j \in DOMAIN queue' : \E m \in DOMAIN queue :
             elt'[queue'[j]].hndl = elt[queue[m]].hndl
    <3>1. Place(queue[i]) = i
      BY <1>0, SentinelAssumption DEF Place
    <3>2. queue' = RemoveAt(queue, i) /\ elt' = [elt EXCEPT ![queue[i]] = NoElt]
      BY <2>2, <3>1 DEF Unlink
    <3>3. /\ DOMAIN queue' = 1..(Len(queue) - 1)
          /\ \A j \in 1..(Len(queue) - 1) :
               queue'[j] = IF j < i THEN queue[j] ELSE queue[j + 1]
      <4>1. queue \in Seq(Cell)
        BY <1>0
      <4>2. /\ RemoveAt(queue, i) \in Seq(Cell)
            /\ Len(RemoveAt(queue, i)) = Len(queue) - 1
            /\ \A j \in 1..(Len(queue) - 1) :
                 RemoveAt(queue, i)[j] = IF j < i THEN queue[j] ELSE queue[j + 1]
        BY ONLY <4>1, <2>2, RemoveAtProperties, Zenon
      <4>3. DOMAIN RemoveAt(queue, i) = 1..Len(RemoveAt(queue, i))
        BY ONLY <4>2, LenProperties, Zenon
      <4> QED BY ONLY <3>2, <4>2, <4>3, Zenon
    <3>4. ASSUME NEW j \in DOMAIN queue'
          PROVE  \E m \in DOMAIN queue : elt'[queue'[j]].hndl = elt[queue[m]].hndl
      <4> DEFINE m == IF j < i THEN j ELSE j + 1
      <4>1. m \in DOMAIN queue /\ m # i /\ queue'[j] = queue[m]
        BY <1>0, <3>3
      <4> HIDE DEF m
      <4>2. elt'[queue[m]] = elt[queue[m]]
        BY <1>0, <3>2, <4>1 DEF TypeOK
      <4> QED BY <4>1, <4>2
    <3> QED BY <1>0, <3>2, <3>4 DEF TypeOK, NoElt
  <2>4. \A j \in DOMAIN queue : WillRemove(elt[queue[j]].hndl)
    BY <1>0, <2>1 DEF WeakInv, Walking
  <2>5. \A j \in DOMAIN queue' : WillRemove(elt[queue[j]].hndl)'
    BY <2>1, <2>3, <2>4 DEF WillRemove
  <2> QED BY <1>0, <2>1, <2>3, <2>5 DEF PlainInv, WalkInv, WeakInv
<1>5. ASSUME PeekHandler PROVE PlainInv'
  <2>1. UNCHANGED <<obj, queue, elt, finalizers, flagged, stack>>
    BY <1>5 DEF PeekHandler
  <2> QED BY <1>0, <2>1 DEF PlainInv, WalkInv, WeakInv, WillRemove, Walking, Top, At
<1>6. ASSUME NEW h \in Handler, DropReference(h) PROVE PlainInv'
  <2>1. stack = <<>> /\ UNCHANGED <<queue, elt>> /\ Unlock(h, rooted', queue, stack)
    BY <1>6, PlainIdle DEF DropReference
  <2>2. CASE obj[h] = "live" /\ Enter(h, "purge", stack)
    BY <1>0, <2>1, <2>2, EnterWeak DEF PlainInv
  <2>3. CASE obj[h] = "zombie" /\ obj' = [obj EXCEPT ![h] = "free"] /\ stack' = stack
             /\ UNCHANGED <<flagged, finalizers>>
    <3>1. \A i \in DOMAIN queue : WillRemove(elt[queue[i]].hndl)
      BY <1>0, <2>1 DEF WeakInv, Walking
    <3>2. WeakInv'
      BY <1>0, <2>1, <2>3, <3>1 DEF WeakInv, WillRemove, TypeOK
    <3> QED BY <1>0, <2>1, <2>3, <3>2 DEF PlainInv, WalkInv
  <2>4. CASE UNCHANGED <<obj, flagged, finalizers, stack>>
    BY <1>0, <2>1, <2>4 DEF PlainInv, WalkInv, WeakInv, WillRemove, Walking, Top, At
  <2> QED BY <2>1, <2>2, <2>3, <2>4 DEF Unlock
<1>7. ASSUME NEW h \in Handler, Delete(h) PROVE PlainInv'
  <2>1. stack = <<>>
    BY <1>7, PlainIdle DEF Delete
  <2> QED BY <1>0, <1>7, <2>1, EnterWeak DEF Delete, PlainInv
<1>8. ASSUME FinalizeSkip PROVE PlainInv'
  <2> DEFINE p == Cdr(Top.pp)
  <2>1. /\ stack # <<>> /\ Top.phase = "finalize" /\ Top \in Frame /\ Len(stack) = 1
        /\ p # NIL /\ elt[p].hndl # Top.h /\ Top.pp \in Cell \cup {head}
        /\ UNCHANGED <<obj, queue, elt, finalizers, flagged>>
    BY <1>0, <1>8, PopProperties DEF FinalizeSkip, WalkInv, Frame
  <2>2. stack' = Append(<<>>, [Top EXCEPT !.pp = p])
    BY <1>0, <1>8, <2>1, PopOne DEF FinalizeSkip
  <2>3. stack' # <<>> /\ Len(stack') = 1 /\ Top' = [Top EXCEPT !.pp = p]
    BY <2>2, OneCall DEF Top
  <2>4. Top'.h = Top.h /\ Top'.phase = "finalize" /\ Top'.pp = p
    BY <2>1, <2>3 DEF Frame
  <2>5. PICK k \in 0..Len(queue) :
          At(Top.pp, k) /\ \A i \in 1..k : elt[queue[i]].hndl # Top.h
    BY <1>0, <2>1 DEF WalkInv
  <2>6. Place(Top.pp) = k
    BY <1>0, <2>5, SentinelAssumption DEF At, Place
  <2>7. k + 1 \in DOMAIN queue /\ p = queue[k + 1]
    BY <1>0, <2>1, <2>6, CdrProperties
  <2>8. At(Top.pp, k + 1)' /\ k + 1 \in 0..Len(queue')
    <3> HIDE DEF p
    <3> QED BY <1>0, <2>1, <2>4, <2>5, <2>7 DEF At
  <2>9. \A i \in 1..(k + 1) : elt'[queue'[i]].hndl # Top'.h
    BY <1>0, <2>1, <2>4, <2>5, <2>7
  <2>10. WalkInv'
    BY <1>0, <2>1, <2>3, <2>4, <2>8, <2>9 DEF WalkInv
  <2>11. WeakInv'
    BY <1>0, <2>1, <2>3, <2>4 DEF WeakInv, WillRemove, Walking
  <2> QED BY <1>0, <2>1, <2>10, <2>11 DEF PlainInv
<1>9. ASSUME FinalizeRemove PROVE PlainInv'
  <2> DEFINE p == Cdr(Top.pp)
  <2>1. /\ stack # <<>> /\ Top.phase = "finalize" /\ Top \in Frame
        /\ p # NIL /\ elt[p].hndl = Top.h /\ Top.pp \in Cell \cup {head}
        /\ Unlink(Top.pp, p) /\ Unlock(elt[p].ref, rooted, queue', stack)
    BY <1>0, <1>9, PopProperties DEF FinalizeRemove, Frame
  <2>2. PICK k \in 0..Len(queue) :
          At(Top.pp, k) /\ \A i \in 1..k : elt[queue[i]].hndl # Top.h
    BY <1>0, <2>1 DEF WalkInv
  <2>3. Place(Top.pp) = k
    BY <1>0, <2>2, SentinelAssumption DEF At, Place
  <2>4. k + 1 \in DOMAIN queue /\ p = queue[k + 1] /\ p \in Cell
    BY <1>0, <2>1, <2>3, CdrProperties
  <2>5. Place(p) = k + 1
    BY <1>0, <2>4, SentinelAssumption DEF Place
  <2>6. queue' = RemoveAt(queue, k + 1) /\ elt' = [elt EXCEPT ![p] = NoElt]
    BY <2>1, <2>5 DEF Unlink
  <2>7. UNCHANGED <<obj, flagged, finalizers, stack>>
    BY <1>0, <2>1, <2>4 DEF Unlock, LastReference
  <2>8. /\ DOMAIN queue' = 1..(Len(queue) - 1) /\ Len(queue') = Len(queue) - 1
        /\ \A j \in 1..(Len(queue) - 1) :
             queue'[j] = IF j < k + 1 THEN queue[j] ELSE queue[j + 1]
    <3>1. /\ queue' \in Seq(Cell) /\ Len(queue') = Len(queue) - 1
          /\ \A j \in 1..(Len(queue) - 1) :
               queue'[j] = IF j < k + 1 THEN queue[j] ELSE queue[j + 1]
      <4>1. queue \in Seq(Cell) /\ k + 1 \in DOMAIN queue
        BY <1>0, <2>4
      <4>2. (k + 1) \in DOMAIN queue
            => /\ RemoveAt(queue, k + 1) \in Seq(Cell)
               /\ Len(RemoveAt(queue, k + 1)) = Len(queue) - 1
               /\ \A j \in 1..(Len(queue) - 1) :
                    RemoveAt(queue, k + 1)[j] = IF j < k + 1 THEN queue[j] ELSE queue[j + 1]
        BY <4>1, RemoveAtProperties, Zenon
      <4> QED BY <2>6, <4>1, <4>2
    <3>2. DOMAIN queue' = 1..Len(queue')
      BY <3>1, LenProperties
    <3> QED BY <3>1, <3>2
  <2>9. ASSUME NEW j \in DOMAIN queue'
        PROVE  /\ j <= k => queue'[j] = queue[j] /\ elt'[queue'[j]] = elt[queue[j]]
               /\ \E m \in DOMAIN queue : elt'[queue'[j]].hndl = elt[queue[m]].hndl
    <3> DEFINE m == IF j < k + 1 THEN j ELSE j + 1
    <3>1. m \in DOMAIN queue /\ m # k + 1 /\ queue'[j] = queue[m] /\ (j <= k => m = j)
      BY <1>0, <2>2, <2>4, <2>8
    <3> HIDE DEF m
    <3>2. elt'[queue[m]] = elt[queue[m]]
      BY <1>0, <2>4, <2>6, <3>1 DEF TypeOK
    <3> QED BY <3>1, <3>2
  <2>10. WeakInv'
    <3>1. \A g : WillRemove(g)' = WillRemove(g) /\ Walking(g)' = Walking(g)
      BY <2>7 DEF WillRemove, Walking, Top
    <3> QED BY <1>0, <2>9, <3>1 DEF WeakInv
  <2>11. k \in 0..Len(queue') /\ \A i \in 1..k : i \in DOMAIN queue'
    BY <1>0, <2>2, <2>4, <2>8
  <2>12. At(Top.pp, k)'
    BY <1>0, <2>2, <2>7, <2>9, <2>11 DEF At, Top
  <2>13. \A i \in 1..k : elt'[queue'[i]].hndl # Top.h
    BY <2>2, <2>9, <2>11
  <2>14. WalkInv'
    BY <1>0, <2>1, <2>7, <2>11, <2>12, <2>13 DEF WalkInv, Top
  <2>15. \A c \in Cell : elt'[c].ref = NIL
    BY <1>0, <2>6 DEF TypeOK, NoElt
  <2> QED BY <1>0, <2>10, <2>14, <2>15 DEF PlainInv
<1>10. ASSUME FinalizeEnd PROVE PlainInv'
  <2>1. /\ stack # <<>> /\ Top.phase = "finalize" /\ Top \in Frame /\ Len(stack) = 1
        /\ Cdr(Top.pp) = NIL /\ UNCHANGED <<obj, queue, elt, finalizers, flagged>>
    BY <1>0, <1>10, PopProperties DEF FinalizeEnd, WalkInv
  <2>2. stack' = Append(<<>>, [Top EXCEPT !.phase = "destroy", !.pp = head])
    BY <1>0, <1>10, <2>1, PopOne DEF FinalizeEnd
  <2>3. stack' # <<>> /\ Len(stack') = 1
        /\ Top' = [Top EXCEPT !.phase = "destroy", !.pp = head]
    BY <2>2, OneCall DEF Top
  <2>4. Top'.h = Top.h /\ Top'.phase = "destroy"
    BY <2>1, <2>3 DEF Frame
  <2>5. PICK k \in 0..Len(queue) :
          At(Top.pp, k) /\ \A i \in 1..k : elt[queue[i]].hndl # Top.h
    BY <1>0, <2>1 DEF WalkInv
  <2>6. Place(Top.pp) = k /\ Attached(Top.pp)
    BY <1>0, <2>5, SentinelAssumption DEF At, Place, Attached, InQueue
  <2>7. k = Len(queue)
    <3>0. k \in 0..Len(queue) /\ Len(queue) \in Nat
      BY <1>0, <2>5
    <3> SUFFICES ASSUME k < Len(queue) PROVE FALSE
      BY <3>0
    <3>1. Cdr(Top.pp) = queue[k + 1]
      BY <2>6 DEF Cdr
    <3> QED BY <1>0, <2>1, <2>5, <3>1, SentinelAssumption
  <2>8. \A i \in DOMAIN queue : WillRemove(elt[queue[i]].hndl)
    BY <1>0, <2>5, <2>7 DEF WeakInv, Walking
  <2>9. WeakInv'
    BY <2>1, <2>8 DEF WeakInv, WillRemove
  <2>10. WalkInv'
    BY <1>0, <2>1, <2>3, <2>4 DEF WalkInv
  <2> QED BY <1>0, <2>1, <2>9, <2>10 DEF PlainInv
<1>11. ASSUME Destroyed PROVE PlainInv'
  <2>1. /\ stack # <<>> /\ Top.phase = "destroy" /\ Top \in Frame
        /\ obj[Top.h] = "dying"
    BY <1>0, <1>11, PopProperties DEF Destroyed, WalkInv
  <2>2. stack' = <<>> /\ UNCHANGED <<queue, elt, finalizers>>
    BY <1>0, <1>11, <2>1, PopOne DEF Destroyed, WalkInv
  <2>3. \A i \in DOMAIN queue : WillRemove(elt[queue[i]].hndl)
    BY <1>0, <2>1 DEF WeakInv, Walking
  <2>4. /\ flagged' = flagged \ {Top.h}
        /\ obj' = [obj EXCEPT ![Top.h] = IF Top.op = "purge" THEN "free" ELSE "zombie"]
    BY <1>11 DEF Destroyed
  <2>5. WeakInv'
    BY <1>0, <2>1, <2>2, <2>3, <2>4 DEF WeakInv, WillRemove, TypeOK, Frame
  <2> QED BY <1>0, <2>2, <2>5 DEF PlainInv, WalkInv
<1>12. ASSUME Elsewhere PROVE PlainInv'
  <2>1. UNCHANGED <<obj, queue, elt, finalizers, flagged, stack>>
    BY <1>12, ElsewhereKeeps
  <2> QED BY <1>0, <2>1 DEF PlainInv, WalkInv, WeakInv, WillRemove, Walking, Top, At
<1> QED BY <1>1, <1>2, <1>3, <1>4, <1>5, <1>6, <1>7, <1>8, <1>9, <1>10, <1>11, <1>12
        DEF Next, Lisp, Calls, Elsewhere

LEMMA InitPlain == Init => PlainInv
<1> SUFFICES ASSUME Init PROVE PlainInv
  OBVIOUS
<1>1. ShapeInv /\ stack = <<>> /\ DOMAIN queue = {}
  BY InitShape DEF Init
<1> QED BY <1>1 DEF Init, PlainInv, WalkInv, WeakInv, NoElt

\* When no event carries the last reference to another handler and no
\* destructor posts events, the weak pointers of the queue are safe: between
\* calls the handler of every queued event is live, and its death will find
\* the event (ev_add, ev_finalize, add_finalizer, run_finalizers, purge).
THEOREM WeakPointersCorrect ==
  ASSUME PlainAssumption
  PROVE  Spec => []WeakPointersSafe
<1>1. PlainInv /\ [Next]_vars => PlainInv'
  BY PlainNext
<1>2. PlainInv => WeakPointersSafe
  BY DEF PlainInv, WeakInv, WeakPointersSafe, WillRemove, Walking
<1> QED BY <1>1, <1>2, InitPlain, PTL DEF Spec

\* Under the same assumption event_peek hands out living handlers only: the
\* one walk that is in progress when a handler is dead is over before lisp
\* code can ask for the next event.
THEOREM PeekCorrect ==
  ASSUME PlainAssumption
  PROVE  Spec => []PeekGivesHandler
<1> DEFINE PeekInv == PlainInv /\ PeekGivesHandler
<1>1. Init => PeekInv
  BY InitPlain DEF Init, PeekGivesHandler
<1>2. PeekInv /\ [Next]_vars => PeekInv'
  <2> SUFFICES ASSUME PeekInv, [Next]_vars PROVE PeekInv'
    OBVIOUS
  <2>1. PlainInv'
    BY PlainNext
  <2>2. CASE PeekHandler
    <3>1. stack = <<>> /\ queue # <<>> /\ TypeOK
      BY <2>2, PlainIdle DEF PeekHandler, PlainInv, ShapeInv
    <3>2. 1 \in DOMAIN queue
      BY <3>1, LenProperties DEF TypeOK
    <3>3. obj[elt[queue[1]].hndl] = "live"
      BY <3>1, <3>2 DEF PlainInv, WeakInv, WillRemove, Walking
    <3>4. dangling' = dangling
      BY <2>2, <3>3, <3>1 DEF PeekHandler, TypeOK
    <3> QED BY <2>1, <3>4 DEF PeekGivesHandler
  <2>3. CASE ~PeekHandler
    <3>1. dangling' = dangling
      BY <2>3 DEF Next, Lisp, Calls, New, SendEvent, Reuse, Stray, TestEvent, CheckEvent,
                  DropReference, Delete, FinalizeSkip, FinalizeRemove, FinalizeEnd,
                  Destroyed, vars
    <3> QED BY <2>1, <3>1 DEF PeekGivesHandler
  <2> QED BY <2>2, <2>3
<1> QED BY <1>1, <1>2, PTL DEF Spec

-----------------------------------------------------------------------------
(* Calls return: each step between two runs of lisp code uses up the queue, *)
(* the stack or the walk.                                                  *)

LEMMA CallsProgress ==
  ASSUME ShapeInv, Next, ~LispRuns, ~astray'
  PROVE  \/ Len(queue') < Len(queue)
         \/ /\ queue' = queue
            /\ \/ Len(stack') < Len(stack)
               \/ /\ Len(stack') = Len(stack) /\ Top.phase = "finalize"
                  /\ Top'.phase = "destroy" \/ Ahead(Top'.pp) < Ahead(Top.pp)
<1>0. /\ TypeOK /\ stack # <<>> /\ Calls
      /\ queue \in Seq(Cell) /\ Len(queue) \in Nat /\ DOMAIN queue = 1..Len(queue)
      /\ \A i, j \in DOMAIN queue : queue[i] = queue[j] => i = j
  <2>1. ~Lisp
    BY DEF Lisp, New, SendEvent, TestEvent, CheckEvent, PeekHandler, DropReference, Delete,
           Reuse
  <2>2. ~Stray
    BY DEF Stray
  <2>3. Calls
    BY <2>1, <2>2 DEF Next
  <2>4. stack # <<>>
    BY <2>3 DEF Calls, FinalizeSkip, FinalizeRemove, FinalizeEnd, Destroyed
  <2>5. TypeOK /\ \A i, j \in DOMAIN queue : queue[i] = queue[j] => i = j
    BY DEF ShapeInv, TailIsLast
  <2>6. queue \in Seq(Cell)
    BY <2>5 DEF TypeOK
  <2> QED BY <2>3, <2>4, <2>5, <2>6, LenProperties
<1>1. PICK t : t = Top
  OBVIOUS
<1>2. PICK r : r = Pop
  OBVIOUS
<1>3. r \in Seq(Frame) /\ t \in Frame /\ Len(r) = Len(stack) - 1 /\ Len(stack) \in Nat \ {0}
  BY <1>0, <1>1, <1>2, PopProperties
<1>4. ASSUME NEW fr \in Frame, stack' = Append(r, fr)
      PROVE  Len(stack') = Len(stack) /\ Top' = fr
  <2>1. Len(Append(r, fr)) = Len(stack) /\ Append(r, fr)[Len(stack)] = fr
    BY <1>3, AppendProperties
  <2> QED BY <1>4, <2>1 DEF Top
<1>5. CASE FinalizeSkip
  <2>1. PICK p : p = Cdr(t.pp)
    OBVIOUS
  <2>2. /\ t.phase = "finalize" /\ p # NIL /\ queue' = queue
        /\ stack' = Append(r, [t EXCEPT !.pp = p])
    BY <1>1, <1>2, <1>5, <2>1 DEF FinalizeSkip
  <2>3. t.pp \in Cell \cup {head}
    BY <1>3 DEF Frame
  <2>4. /\ Attached(t.pp) /\ Place(t.pp) + 1 \in DOMAIN queue /\ Place(t.pp) \in Nat
        /\ p = queue[Place(t.pp) + 1] /\ p \in Cell /\ InQueue(p)
    BY <1>0, <2>1, <2>2, <2>3, CdrProperties
  <2>5. Place(p) \in DOMAIN queue /\ queue[Place(p)] = p
    BY <1>0, <2>4, PlaceProperties
  <2>6. Place(p) = Place(t.pp) + 1
    BY <1>0, <2>4, <2>5
  <2>7. Ahead(p) < Ahead(t.pp)
    BY <1>0, <2>4, <2>6 DEF Ahead, Attached
  <2>8. PICK fr : fr = [t EXCEPT !.pp = p]
    OBVIOUS
  <2>9. fr \in Frame /\ fr.pp = p
    BY <1>3, <2>4, <2>8 DEF Frame
  <2>10. Len(stack') = Len(stack) /\ Top' = fr
    BY <1>4, <2>2, <2>8, <2>9
  <2>11. Ahead(p)' = Ahead(p)
    BY <2>2 DEF Ahead, Attached, InQueue, Place
  <2>12. Ahead(Top'.pp) < Ahead(Top.pp)
    BY <1>1, <2>7, <2>9, <2>10
  <2> QED BY <1>1, <2>2, <2>10, <2>12
<1>6. CASE FinalizeRemove
  <2>1. PICK p : p = Cdr(t.pp)
    OBVIOUS
  <2>2. p # NIL /\ queue' = RemoveAt(queue, Place(p))
    BY <1>1, <1>6, <2>1 DEF FinalizeRemove, Unlink
  <2>3. t.pp \in Cell \cup {head}
    BY <1>3 DEF Frame
  <2>4. p \in Cell /\ InQueue(p)
    BY <1>0, <2>1, <2>2, <2>3, CdrProperties
  <2>5. Place(p) \in DOMAIN queue
    BY <1>0, <2>4, PlaceProperties
  <2>6. PICK i : i = Place(p)
    OBVIOUS
  <2>7. Len(RemoveAt(queue, i)) = Len(queue) - 1
    BY <1>0, <2>5, <2>6, RemoveAtProperties
  <2> QED BY <1>0, <2>2, <2>6, <2>7
<1>7. CASE FinalizeEnd
  <2>1. /\ t.phase = "finalize" /\ queue' = queue
        /\ stack' = Append(r, [t EXCEPT !.phase = "destroy", !.pp = head])
    BY <1>1, <1>2, <1>7 DEF FinalizeEnd
  <2>2. PICK fr : fr = [t EXCEPT !.phase = "destroy", !.pp = head]
    OBVIOUS
  <2>3. fr \in Frame /\ fr.phase = "destroy"
    BY <1>3, <2>2 DEF Frame
  <2> QED BY <1>1, <1>4, <2>1, <2>2, <2>3
<1>8. CASE Destroyed
  BY <1>2, <1>3, <1>8 DEF Destroyed
<1> QED BY <1>0, <1>5, <1>6, <1>7, <1>8 DEF Calls

\* Between two runs of lisp code, the caller's or a destructor's, only so many
\* steps can be made: purge and delete come back however deaths nest, unless a
\* walk goes astray (ev_finalize, run_finalizers, purge).
THEOREM ReturnCorrect == Spec => CallsReturn
<1>1. ShapeInv /\ [Next]_vars =>
        [~LispRuns /\ ~astray' =>
          \/ Len(queue') < Len(queue)
          \/ /\ queue' = queue
             /\ \/ Len(stack') < Len(stack)
                \/ /\ Len(stack') = Len(stack) /\ Top.phase = "finalize"
                   /\ Top'.phase = "destroy" \/ Ahead(Top'.pp) < Ahead(Top.pp)]_vars
  BY CallsProgress
<1> QED BY <1>1, InitShape, NextShape, PTL DEF Spec, CallsReturn

-----------------------------------------------------------------------------
(* References: nothing that lisp code or an event refers to is freed.  An  *)
(* object that is purged has no reference left and gets none, although its *)
(* finalizers and its destructor run lisp code meanwhile.                  *)

OnStack ==
  /\ \A i \in DOMAIN stack : obj[stack[i].h] = "dying"
  /\ \A i, j \in DOMAIN stack : stack[i].h = stack[j].h => i = j

Kept(h) == h \in rooted \/ \E j \in DOMAIN queue : elt[queue[j]].ref = h

KeptInv ==
  \A h \in Handler : Kept(h) =>
    obj[h] # "free" /\ \A i \in DOMAIN stack : stack[i].h = h => stack[i].op = "delete"

RefInv == ShapeInv /\ OnStack /\ KeptInv

\* A call for the object h begins.
LEMMA EnterRefs ==
  ASSUME RefInv, NEW h \in Handler, NEW op \in {"purge", "delete"}, obj[h] = "live",
         Enter(h, op, stack), \A g \in Handler : Kept(g)' => Kept(g),
         op = "purge" => ~Kept(h)'
  PROVE  OnStack' /\ KeptInv'
<1>1. PICK f : f = [h |-> h, op |-> op, pp |-> head,
                    phase |-> IF h \in flagged THEN "finalize" ELSE "destroy"]
  OBVIOUS
<1>2. stack' = Append(stack, f) /\ obj' = [obj EXCEPT ![h] = "dying"] /\ f.h = h /\ f.op = op
  BY <1>1 DEF Enter
<1>3. stack \in Seq(Frame) /\ obj \in [Handler -> {"free", "live", "dying", "zombie"}] /\ f \in Frame
  BY <1>1 DEF RefInv, ShapeInv, TypeOK, Frame
<1>4. /\ DOMAIN stack = 1..Len(stack) /\ Len(stack) \in Nat
      /\ \A i \in DOMAIN stack : stack[i].h \in Handler
  <2>1. DOMAIN stack = 1..Len(stack) /\ Len(stack) \in Nat
    BY <1>3, LenProperties
  <2>2. \A i \in DOMAIN stack : stack[i] \in Frame
    BY <1>3, <2>1, ElementOfSeq
  <2> QED BY <2>1, <2>2 DEF Frame
<1>5. /\ DOMAIN stack' = 1..(Len(stack) + 1)
      /\ \A i \in DOMAIN stack : stack'[i] = stack[i]
      /\ stack'[Len(stack) + 1] = f
  BY <1>2, <1>3, <1>4, AppendProperties, LenProperties
<1>6. \A i \in DOMAIN stack' : i \in DOMAIN stack \/ i = Len(stack) + 1
  BY <1>4, <1>5
<1>7. \A i \in DOMAIN stack : stack[i].h # h
  BY DEF RefInv, OnStack
<1>8. OnStack'
  <2>1. \A i \in DOMAIN stack : obj[stack[i].h] = "dying"
    BY DEF RefInv, OnStack
  <2>2. \A i \in DOMAIN stack' : obj'[stack'[i].h] = "dying"
    BY <1>2, <1>3, <1>4, <1>5, <1>6, <2>1
  <2>3. \A i, j \in DOMAIN stack' : stack'[i].h = stack'[j].h => i = j
    BY <1>2, <1>5, <1>6, <1>7 DEF RefInv, OnStack
  <2> QED BY <2>2, <2>3 DEF OnStack
<1>9. ASSUME NEW g \in Handler, Kept(g)'
      PROVE  obj'[g] # "free" /\ \A i \in DOMAIN stack' : stack'[i].h = g => stack'[i].op = "delete"
  <2>1. obj[g] # "free" /\ \A i \in DOMAIN stack : stack[i].h = g => stack[i].op = "delete"
    BY <1>9 DEF RefInv, KeptInv
  <2>2. g = h => op = "delete"
    BY <1>9
  <2> QED BY <1>2, <1>3, <1>5, <1>6, <2>1, <2>2
<1> QED BY <1>8, <1>9 DEF KeptInv

\* A reference to r goes away, others may have gone with it.
LEMMA UnlockRefs ==
  ASSUME RefInv, NEW r \in Handler \cup {NIL}, NEW rt, NEW q, Unlock(r, rt, q, stack),
         \A g \in Handler : Kept(g)' => Kept(g),
         Kept(r)' => Held(r, rt, q)
  PROVE  OnStack' /\ KeptInv'
<1>1. CASE LastReference(r, rt, q) /\ obj[r] = "live" /\ Enter(r, "purge", stack)
  <2>1. r \in Handler /\ ~Kept(r)'
    BY <1>1 DEF LastReference
  <2> QED BY <1>1, <2>1, EnterRefs
<1>2. CASE LastReference(r, rt, q) /\ obj[r] = "zombie" /\ obj' = [obj EXCEPT ![r] = "free"]
           /\ stack' = stack
  <2>1. r \in Handler /\ ~Kept(r)'
    BY <1>2 DEF LastReference
  <2>2. \A g \in Handler : obj'[g] = IF g = r THEN "free" ELSE obj[g]
    BY <1>2 DEF RefInv, ShapeInv, TypeOK
  <2>3. \A i \in DOMAIN stack : stack[i].h \in Handler /\ stack[i].h # r
    <3>1. \A i \in DOMAIN stack : stack[i] \in Frame
      BY LenProperties, ElementOfSeq DEF RefInv, ShapeInv, TypeOK
    <3> QED BY <1>2, <3>1 DEF RefInv, OnStack, Frame
  <2>4. OnStack'
    BY <1>2, <2>2, <2>3 DEF RefInv, OnStack
  <2>5. KeptInv'
    BY <1>2, <2>1, <2>2 DEF RefInv, KeptInv
  <2> QED BY <2>4, <2>5
<1>3. CASE stack' = stack /\ obj' = obj
  BY <1>3 DEF RefInv, OnStack, KeptInv
<1> QED BY <1>1, <1>2, <1>3 DEF Unlock

\* A walk goes on: the calls are for the same objects.
LEMMA WalkRefs ==
  ASSUME RefInv, stack # <<>>, UNCHANGED <<obj, rooted, queue, elt>>,
         NEW fr \in Frame, fr.h = Top.h, fr.op = Top.op, stack' = Append(Pop, fr)
  PROVE  OnStack' /\ KeptInv'
<1>1. /\ Pop \in Seq(Frame) /\ Len(stack) \in Nat \ {0} /\ Len(Pop) = Len(stack) - 1
      /\ \A k \in 1..Len(Pop) : Pop[k] = stack[k]
  BY PopProperties DEF RefInv, ShapeInv
<1>2. PICK r : r = Pop
  OBVIOUS
<1>3. /\ DOMAIN Append(r, fr) = 1..Len(stack)
      /\ \A k \in 1..(Len(stack) - 1) : Append(r, fr)[k] = r[k]
      /\ Append(r, fr)[Len(stack)] = fr
  BY <1>1, <1>2, AppendProperties, LenProperties
<1>4. DOMAIN stack = 1..Len(stack) /\ Top = stack[Len(stack)]
  BY LenProperties DEF RefInv, ShapeInv, TypeOK, Top
<1>5. \A i \in 1..Len(stack) : stack'[i].h = stack[i].h /\ stack'[i].op = stack[i].op
  <2> SUFFICES ASSUME NEW i \in 1..Len(stack)
               PROVE  stack'[i].h = stack[i].h /\ stack'[i].op = stack[i].op
    OBVIOUS
  <2>1. CASE i = Len(stack)
    BY <1>2, <1>3, <1>4, <2>1
  <2>2. CASE i # Len(stack)
    <3>1. i \in 1..(Len(stack) - 1)
      BY <1>1, <2>2
    <3> QED BY <1>1, <1>2, <1>3, <3>1
  <2> QED BY <2>1, <2>2
<1>6. DOMAIN stack' = DOMAIN stack
  BY <1>2, <1>3, <1>4
<1>7. OnStack'
  <2>1. \A i \in DOMAIN stack : obj'[stack'[i].h] = "dying"
    BY <1>4, <1>5 DEF RefInv, OnStack
  <2>2. \A i, j \in DOMAIN stack : stack'[i].h = stack'[j].h => i = j
    BY <1>4, <1>5 DEF RefInv, OnStack
  <2> QED BY <1>6, <2>1, <2>2 DEF OnStack
<1>8. KeptInv'
  <2>1. \A h \in Handler : Kept(h)' = Kept(h)
    BY DEF Kept
  <2>2. \A h \in Handler, i \in DOMAIN stack :
          stack'[i].h = h => stack[i].h = h /\ stack'[i].op = stack[i].op
    BY <1>4, <1>5
  <2>3. \A h \in Handler : Kept(h) =>
          obj'[h] # "free" /\ \A i \in DOMAIN stack : stack'[i].h = h => stack'[i].op = "delete"
    BY <2>2 DEF RefInv, KeptInv
  <2> HIDE DEF Kept
  <2> QED BY <1>6, <2>1, <2>3 DEF KeptInv
<1> QED BY <1>7, <1>8

\* Unlinking leaves fewer references.
LEMMA UnlinkRefs ==
  ASSUME ShapeInv, NEW pp, NEW i \in DOMAIN queue, Unlink(pp, queue[i])
  PROVE  /\ \A j \in DOMAIN queue' : \E m \in DOMAIN queue :
              queue'[j] = queue[m] /\ elt'[queue'[j]] = elt[queue[m]]
<1>1. /\ queue \in Seq(Cell) /\ Len(queue) \in Nat /\ DOMAIN queue = 1..Len(queue)
      /\ \A k \in DOMAIN queue : queue[k] \in Cell
      /\ \A k, j \in DOMAIN queue : queue[k] = queue[j] => k = j
  BY LenProperties, ElementOfSeq DEF ShapeInv, TypeOK, TailIsLast
<1>2. Place(queue[i]) = i
  BY <1>1, SentinelAssumption DEF Place
<1>3. queue' = RemoveAt(queue, i) /\ elt' = [elt EXCEPT ![queue[i]] = NoElt]
  BY <1>2 DEF Unlink
<1>4. PICK q : q = RemoveAt(queue, i)
  OBVIOUS
<1>5. /\ q \in Seq(Cell) /\ Len(q) = Len(queue) - 1
      /\ \A j \in 1..(Len(queue) - 1) : q[j] = IF j < i THEN queue[j] ELSE queue[j + 1]
  BY <1>1, <1>4, RemoveAtProperties
<1>6. DOMAIN q = 1..(Len(queue) - 1)
  BY <1>5, LenProperties
<1>7. ASSUME NEW j \in DOMAIN q
      PROVE  \E m \in DOMAIN queue : q[j] = queue[m] /\ elt'[q[j]] = elt[queue[m]]
  <2>1. PICK m \in DOMAIN queue : m # i /\ q[j] = queue[m]
    <3>1. CASE j < i
      BY <1>1, <1>5, <1>6, <3>1
    <3>2. CASE ~(j < i)
      <4>1. j + 1 \in DOMAIN queue /\ j + 1 # i /\ q[j] = queue[j + 1]
        BY <1>1, <1>5, <1>6, <3>2
      <4> QED BY <4>1
    <3> QED BY <3>1, <3>2
  <2>2. queue[m] # queue[i] /\ queue[m] \in Cell
    BY <1>1, <2>1
  <2> QED BY <1>3, <2>1, <2>2 DEF ShapeInv, TypeOK
<1> QED BY <1>3, <1>4, <1>7

LEMMA RefsNext ==
  ASSUME RefInv, [Next]_vars
  PROVE  RefInv'
<1>0. /\ ShapeInv /\ ShapeInv' /\ TypeOK /\ OnStack /\ KeptInv
      /\ queue \in Seq(Cell) /\ Len(queue) \in Nat /\ DOMAIN queue = 1..Len(queue)
      /\ stack \in Seq(Frame)
      /\ \A i \in DOMAIN queue : queue[i] \in Cell /\ elt[queue[i]] \in Elt
      /\ \A i, j \in DOMAIN queue : queue[i] = queue[j] => i = j
      /\ \A i \in DOMAIN stack : stack[i].h \in Handler
  <2>1. TypeOK /\ ShapeInv'
    BY NextShape DEF RefInv, ShapeInv
  <2>2. \A i \in DOMAIN stack : stack[i] \in Frame
    BY <2>1, LenProperties, ElementOfSeq DEF TypeOK
  <2>3. /\ queue \in Seq(Cell) /\ Len(queue) \in Nat /\ DOMAIN queue = 1..Len(queue)
        /\ \A i \in DOMAIN queue : queue[i] \in Cell /\ elt[queue[i]] \in Elt
    BY <2>1, LenProperties, ElementOfSeq DEF TypeOK
  <2> QED BY <2>1, <2>2, <2>3 DEF RefInv, ShapeInv, TailIsLast, TypeOK, Frame
<1>1. ASSUME NEW h \in Handler, New(h) PROVE RefInv'
  <2>1. /\ obj[h] = "free" /\ obj' = [obj EXCEPT ![h] = "live"] /\ rooted' = rooted \cup {h}
        /\ UNCHANGED <<queue, elt, stack>>
    BY <1>1 DEF New
  <2>2. \A g \in Handler : obj'[g] = IF g = h THEN "live" ELSE obj[g]
    BY <1>0, <2>1 DEF TypeOK
  <2>3. \A i \in DOMAIN stack : stack[i].h # h
    BY <1>0, <2>1 DEF OnStack
  <2>4. OnStack'
    BY <1>0, <2>1, <2>2, <2>3 DEF OnStack
  <2>5. KeptInv'
    BY <1>0, <2>1, <2>2, <2>3 DEF KeptInv, Kept
  <2> QED BY <1>0, <2>4, <2>5 DEF RefInv
<1>2. ASSUME NEW h \in Handler, NEW r \in Carried \cup {NIL}, SendEvent(h, r) PROVE RefInv'
  <2>1. PICK c \in Cell : /\ ~InQueue(c)
                          /\ elt' = [elt EXCEPT ![c] = [hndl |-> h, ref |-> r]]
                          /\ queue' = AfterTail(c)
                          /\ tail' = c
    BY <1>2 DEF SendEvent
  <2>2. \A j \in DOMAIN queue' :
          queue'[j] = c \/ (j \in DOMAIN queue /\ queue'[j] = queue[j] /\ queue[j] # c)
    BY <1>0, <2>1, LinkShape
  <2>3. UNCHANGED <<obj, rooted, stack>> /\ (r # NIL => r \in rooted)
    BY <1>2 DEF SendEvent
  <2>4. ASSUME NEW g \in Handler, Kept(g)' PROVE Kept(g)
    <3>1. CASE g \in rooted'
      BY <2>3, <3>1 DEF Kept
    <3>2. CASE \E j \in DOMAIN queue' : elt'[queue'[j]].ref = g
      <4>1. PICK j \in DOMAIN queue' : elt'[queue'[j]].ref = g
        BY <3>2
      <4>2. CASE queue'[j] = c
        <5>1. g = r
          BY <1>0, <2>1, <4>1, <4>2 DEF TypeOK
        <5> QED BY <2>3, <5>1, SentinelAssumption DEF Kept
      <4>3. CASE j \in DOMAIN queue /\ queue'[j] = queue[j] /\ queue[j] # c
        <5>1. elt'[queue[j]] = elt[queue[j]]
          BY <1>0, <2>1, <4>3 DEF TypeOK
        <5> QED BY <4>1, <4>3, <5>1 DEF Kept
      <4> QED BY <2>2, <4>2, <4>3
    <3> QED BY <2>4, <3>1, <3>2 DEF Kept
  <2>5. OnStack' /\ KeptInv'
    BY <1>0, <2>3, <2>4 DEF OnStack, KeptInv
  <2> QED BY <1>0, <2>5 DEF RefInv
<1>3. ASSUME NEW h \in Handler, TestEvent(h) PROVE RefInv'
  <2>1. PICK i \in DOMAIN queue : rooted' = rooted \cup ({elt[queue[i]].ref} \ {NIL})
    BY <1>3 DEF TestEvent, Keep
  <2>2. UNCHANGED <<obj, queue, elt, stack>>
    BY <1>3 DEF TestEvent
  <2>3. \A g \in Handler : Kept(g)' => Kept(g)
    BY <2>1, <2>2 DEF Kept
  <2>4. OnStack' /\ KeptInv'
    BY <1>0, <2>2, <2>3 DEF OnStack, KeptInv
  <2> QED BY <1>0, <2>4 DEF RefInv
<1>4. ASSUME NEW h \in Handler, CheckEvent(h) PROVE RefInv'
  <2>1. PICK i \in DOMAIN queue :
          /\ rooted' = rooted \cup ({elt[queue[i]].ref} \ {NIL})
          /\ Unlink(IF i = 1 THEN head ELSE queue[i - 1], queue[i])
    BY <1>4 DEF CheckEvent, Keep
  <2>2. UNCHANGED <<obj, stack>>
    BY <1>4 DEF CheckEvent
  <2>3. PICK pp : pp = IF i = 1 THEN head ELSE queue[i - 1]
    OBVIOUS
  <2>4. \A j \in DOMAIN queue' : \E m \in DOMAIN queue :
          queue'[j] = queue[m] /\ elt'[queue'[j]] = elt[queue[m]]
    BY <1>0, <2>1, <2>3, UnlinkRefs
  <2>5. \A g \in Handler : Kept(g)' => Kept(g)
    BY <2>1, <2>4 DEF Kept
  <2>6. OnStack' /\ KeptInv'
    BY <1>0, <2>2, <2>5 DEF OnStack, KeptInv
  <2> QED BY <1>0, <2>6 DEF RefInv
<1>5. ASSUME PeekHandler PROVE RefInv'
  <2>1. PICK h : h = elt[queue[1]].hndl
    OBVIOUS
  <2>2. /\ rooted' = IF obj[h] \in {"live", "zombie"} THEN rooted \cup {h} ELSE rooted
        /\ UNCHANGED <<obj, queue, elt, stack>>
    BY <1>5, <2>1 DEF PeekHandler
  <2>3. OnStack'
    BY <1>0, <2>2 DEF OnStack
  <2>4. KeptInv'
    BY <1>0, <2>2 DEF KeptInv, Kept, OnStack
  <2> QED BY <1>0, <2>3, <2>4 DEF RefInv
<1>6. ASSUME NEW h \in Handler, DropReference(h) PROVE RefInv'
  <2>1. PICK rt : rt = rooted \ {h}
    OBVIOUS
  <2>2. /\ rooted' = rt /\ Unlock(h, rt, queue, stack) /\ UNCHANGED <<queue, elt>>
    BY <1>6, <2>1 DEF DropReference
  <2>3. /\ \A g \in Handler : Kept(g)' => Kept(g)
        /\ Kept(h)' => Held(h, rt, queue)
    BY <2>1, <2>2 DEF Kept, Held
  <2>4. OnStack' /\ KeptInv'
    BY <2>2, <2>3, UnlockRefs
  <2> QED BY <1>0, <2>4 DEF RefInv
<1>7. ASSUME NEW h \in Handler, Delete(h) PROVE RefInv'
  <2>1. obj[h] = "live" /\ Enter(h, "delete", stack) /\ UNCHANGED <<rooted, queue, elt>>
    BY <1>7 DEF Delete
  <2>2. \A g \in Handler : Kept(g)' => Kept(g)
    BY <2>1 DEF Kept
  <2>3. OnStack' /\ KeptInv'
    BY <2>1, <2>2, EnterRefs
  <2> QED BY <1>0, <2>3 DEF RefInv
<1>8. ASSUME FinalizeSkip PROVE RefInv'
  <2>1. PICK t : t = Top
    OBVIOUS
  <2>2. PICK p : p = Cdr(t.pp)
    OBVIOUS
  <2>3. stack # <<>> /\ p # NIL /\ stack' = Append(Pop, [t EXCEPT !.pp = p])
        /\ UNCHANGED <<obj, rooted, queue, elt>>
    BY <1>8, <2>1, <2>2 DEF FinalizeSkip
  <2>4. t \in Frame
    BY <1>0, <2>1, <2>3, PopProperties
  <2>5. p \in Cell
    BY <1>0, <2>2, <2>3, <2>4, CdrProperties DEF Frame
  <2>6. PICK fr : fr = [t EXCEPT !.pp = p]
    OBVIOUS
  <2>7. fr \in Frame /\ fr.h = t.h /\ fr.op = t.op
    BY <2>4, <2>5, <2>6 DEF Frame
  <2>8. OnStack' /\ KeptInv'
    BY <2>1, <2>3, <2>6, <2>7, WalkRefs
  <2> QED BY <1>0, <2>8 DEF RefInv
<1>9. ASSUME FinalizeRemove PROVE RefInv'
  <2>1. PICK t : t = Top
    OBVIOUS
  <2>2. PICK p : p = Cdr(t.pp)
    OBVIOUS
  <2>3. /\ stack # <<>> /\ p # NIL /\ Unlink(t.pp, p) /\ rooted' = rooted
        /\ Unlock(elt[p].ref, rooted, queue', stack)
    BY <1>9, <2>1, <2>2 DEF FinalizeRemove
  <2>4. t \in Frame
    BY <1>0, <2>1, <2>3, PopProperties
  <2>5. p \in Cell /\ InQueue(p)
    BY <1>0, <2>2, <2>3, <2>4, CdrProperties DEF Frame
  <2>6. PICK i \in DOMAIN queue : p = queue[i]
    BY <2>5 DEF InQueue
  <2>7. \A j \in DOMAIN queue' : \E m \in DOMAIN queue :
          queue'[j] = queue[m] /\ elt'[queue'[j]] = elt[queue[m]]
    BY <1>0, <2>3, <2>6, UnlinkRefs
  <2>8. \A j \in DOMAIN queue' : elt'[queue'[j]] = elt[queue'[j]]
    BY <2>7
  <2>9. PICK r : r = elt[p].ref
    OBVIOUS
  <2>10. r \in Handler \cup {NIL}
    BY <1>0, <2>6, <2>9 DEF Elt
  <2>11. PICK q : q = queue'
    OBVIOUS
  <2>12. \A g \in Handler : Kept(g)' => Kept(g)
    BY <2>3, <2>7 DEF Kept
  <2>13. Kept(r)' => Held(r, rooted, q)
    BY <2>3, <2>8, <2>11 DEF Kept, Held
  <2>14. OnStack' /\ KeptInv'
    BY <2>3, <2>9, <2>10, <2>11, <2>12, <2>13, UnlockRefs
  <2> QED BY <1>0, <2>14 DEF RefInv
<1>10. ASSUME FinalizeEnd PROVE RefInv'
  <2>1. PICK t : t = Top
    OBVIOUS
  <2>2. stack # <<>> /\ stack' = Append(Pop, [t EXCEPT !.phase = "destroy", !.pp = head])
        /\ UNCHANGED <<obj, rooted, queue, elt>>
    BY <1>10, <2>1 DEF FinalizeEnd
  <2>3. t \in Frame
    BY <1>0, <2>1, <2>2, PopProperties
  <2>4. PICK fr : fr = [t EXCEPT !.phase = "destroy", !.pp = head]
    OBVIOUS
  <2>5. fr \in Frame /\ fr.h = t.h /\ fr.op = t.op
    BY <2>3, <2>4 DEF Frame
  <2>6. OnStack' /\ KeptInv'
    BY <2>1, <2>2, <2>4, <2>5, WalkRefs
  <2> QED BY <1>0, <2>6 DEF RefInv
<1>11. ASSUME Destroyed PROVE RefInv'
  <2>1. PICK t : t = Top
    OBVIOUS
  <2>2. PICK r : r = Pop
    OBVIOUS
  <2>3. /\ stack # <<>> /\ stack' = r /\ UNCHANGED <<rooted, queue, elt>>
        /\ obj' = [obj EXCEPT ![t.h] = IF t.op = "purge" THEN "free" ELSE "zombie"]
    BY <1>11, <2>1, <2>2 DEF Destroyed
  <2>4. /\ r \in Seq(Frame) /\ t \in Frame /\ Len(stack) \in Nat \ {0}
        /\ Len(r) = Len(stack) - 1 /\ \A k \in 1..Len(r) : r[k] = stack[k]
    BY <1>0, <2>1, <2>2, <2>3, PopProperties
  <2>5. DOMAIN r = 1..(Len(stack) - 1) /\ DOMAIN stack = 1..Len(stack) /\ t = stack[Len(stack)]
    BY <1>0, <2>1, <2>4, LenProperties DEF Top
  <2>6. \A i \in DOMAIN r : i \in DOMAIN stack /\ r[i] = stack[i] /\ i # Len(stack)
    BY <2>4, <2>5
  <2>7. Len(stack) \in DOMAIN stack /\ t.h \in Handler
    BY <1>0, <2>4, <2>5
  <2>8. \A g \in Handler : obj'[g] = IF g = t.h THEN (IF t.op = "purge" THEN "free" ELSE "zombie")
                                     ELSE obj[g]
    BY <1>0, <2>3 DEF TypeOK
  <2>9. \A i \in DOMAIN r : r[i].h # t.h
    BY <1>0, <2>5, <2>6, <2>7 DEF OnStack
  <2>10. OnStack'
    BY <1>0, <2>3, <2>6, <2>8, <2>9 DEF OnStack
  <2>11. KeptInv'
    <3> SUFFICES ASSUME NEW g \in Handler, Kept(g)'
                 PROVE  obj'[g] # "free" /\ \A i \in DOMAIN r : r[i].h = g => r[i].op = "delete"
      BY <2>3 DEF KeptInv
    <3>1. Kept(g)
      BY <2>3 DEF Kept
    <3>2. obj[g] # "free" /\ \A i \in DOMAIN stack : stack[i].h = g => stack[i].op = "delete"
      BY <1>0, <3>1 DEF KeptInv
    <3> QED BY <2>5, <2>6, <2>7, <2>8, <3>2
  <2> QED BY <1>0, <2>10, <2>11 DEF RefInv
<1>12. ASSUME Elsewhere PROVE RefInv'
  <2>1. UNCHANGED <<obj, rooted, queue, elt, stack>>
    BY <1>12, ElsewhereKeeps
  <2> QED BY <1>0, <2>1 DEF RefInv, OnStack, KeptInv, Kept
<1> QED BY <1>1, <1>2, <1>3, <1>4, <1>5, <1>6, <1>7, <1>8, <1>9, <1>10, <1>11, <1>12
        DEF Next, Lisp, Calls, Elsewhere

LEMMA InitRefs == Init => RefInv
<1> SUFFICES ASSUME Init PROVE RefInv
  OBVIOUS
<1>1. ShapeInv /\ DOMAIN queue = {} /\ DOMAIN stack = {}
  BY InitShape DEF Init
<1> QED BY <1>1 DEF Init, RefInv, OnStack, KeptInv, Kept

\* Nothing that a queued event refers to is freed, and nothing that lisp code
\* holds, though deaths nest and destructors post and take events in the middle
\* of a walk (event_get, ev_remove, purge, delete_at_special).
THEOREM ReferencesCorrect == Spec => []ReferencesAreAlive
<1>1. ASSUME RefInv PROVE ReferencesAreAlive
  <2>1. \A h \in rooted : h \in Handler /\ obj[h] # "free"
    BY <1>1 DEF RefInv, KeptInv, Kept, ShapeInv, TypeOK
  <2>2. \A i \in DOMAIN queue : elt[queue[i]].ref \in Handler \cup {NIL}
    BY <1>1, LenProperties, ElementOfSeq DEF RefInv, ShapeInv, TypeOK, Elt
  <2>3. \A i \in DOMAIN queue : elt[queue[i]].ref # NIL => obj[elt[queue[i]].ref] # "free"
    BY <1>1, <2>2 DEF RefInv, KeptInv, Kept
  <2> QED BY <2>1, <2>3 DEF ReferencesAreAlive
<1> QED BY <1>1, InitRefs, RefsNext, PTL DEF Spec

-----------------------------------------------------------------------------
(* What is in the queue, as a sequence: a cell is its place in it, linking *)
(* appends to it and unlinking removes from it.                            *)

Event == [to : Handler, carries : Handler \cup {NIL}]

\* The positions of the events for the handlers in H.
For(H) == {i \in DOMAIN queue : elt[queue[i]].hndl \in H}

Listed ==
  /\ Events \in Seq(Event) /\ Len(Events) = Len(queue) /\ Len(queue) \in Nat
  /\ DOMAIN Events = DOMAIN queue /\ DOMAIN queue = 1..Len(queue)
  /\ \A i \in DOMAIN queue :
       /\ Events[i] = [to |-> elt[queue[i]].hndl, carries |-> elt[queue[i]].ref]
       /\ Events[i].to = elt[queue[i]].hndl
       /\ Events[i] \in Event

LEMMA EventsProperties == TypeOK => Listed
<1> SUFFICES ASSUME TypeOK PROVE Listed
  OBVIOUS
<1>1. queue \in Seq(Cell) /\ Len(queue) \in Nat /\ DOMAIN queue = 1..Len(queue)
  BY LenProperties DEF TypeOK
<1>2. PICK e : e = Events
  OBVIOUS
<1>3. /\ DOMAIN e = 1..Len(queue) /\ e = [i \in 1..Len(queue) |-> e[i]]
      /\ \A i \in DOMAIN queue : e[i] = [to |-> elt[queue[i]].hndl,
                                         carries |-> elt[queue[i]].ref]
  BY <1>1, <1>2 DEF Events
<1>4. \A i \in DOMAIN queue : e[i] \in Event /\ e[i].to = elt[queue[i]].hndl
  <2> SUFFICES ASSUME NEW i \in DOMAIN queue
               PROVE  e[i] \in Event /\ e[i].to = elt[queue[i]].hndl
    OBVIOUS
  <2>1. PICK x : x = elt[queue[i]]
    OBVIOUS
  <2>2. queue[i] \in Cell
    BY <1>1, ElementOfSeq
  <2>3. x \in Elt /\ x.hndl \in Handler
    BY <2>1, <2>2 DEF TypeOK
  <2>4. e[i] = [to |-> x.hndl, carries |-> x.ref]
    BY <1>3, <2>1
  <2> QED BY <2>1, <2>3, <2>4 DEF Elt, Event
<1>5. e \in Seq(Event)
  BY <1>1, <1>3, <1>4, IsASeq
<1>6. Len(e) = Len(queue)
  BY <1>1, <1>3, <1>5, LenProperties
<1> QED BY <1>1, <1>2, <1>3, <1>4, <1>5, <1>6 DEF Listed

\* The events for the handlers in H are the selection of those positions.
LEMMA EventsToProperties ==
  ASSUME TypeOK, NEW H
  PROVE  /\ EventsTo(H) = Selected(Events, For(H))
         /\ EventsTo(H) \in Seq(Event)
         /\ For(H) \in SUBSET (DOMAIN Events)
         /\ \A k \in DOMAIN EventsTo(H) : EventsTo(H)[k].to \in H
<1>1. PICK e : e = Events
  OBVIOUS
<1>2. PICK I : I = For(H)
  OBVIOUS
<1>3. /\ e \in Seq(Event) /\ I \in SUBSET (DOMAIN e)
      /\ \A i \in I : e[i].to \in H
  BY <1>1, <1>2, EventsProperties DEF For, Listed
<1>4. PICK s : s = Selected(e, I)
  OBVIOUS
<1>5. s \in Selection(e, I) /\ s \in Seq(Event)
  BY <1>3, <1>4, SelectedIs
<1>6. PICK f \in [DOMAIN s -> I] : \A j \in DOMAIN s : s[j] = e[f[j]]
  BY <1>3, <1>5, SelectionProperties
<1>7. \A k \in DOMAIN s : s[k].to \in H
  BY <1>3, <1>6
<1>8. EventsTo(H) = s
  BY <1>1, <1>2, <1>4 DEF EventsTo, For
<1> QED BY <1>1, <1>2, <1>3, <1>4, <1>5, <1>7, <1>8

LEMMA UnlinkEvents ==
  ASSUME ShapeInv, TypeOK', NEW pp, NEW i \in DOMAIN queue, Unlink(pp, queue[i])
  PROVE  /\ Events' = RemoveAt(Events, i)
         /\ Len(queue') = Len(queue) - 1
         /\ \A j \in 1..(Len(queue) - 1) :
              elt'[queue'[j]].hndl = elt[queue[IF j < i THEN j ELSE j + 1]].hndl
<1>1. /\ queue \in Seq(Cell) /\ Len(queue) \in Nat /\ DOMAIN queue = 1..Len(queue)
      /\ \A k \in DOMAIN queue : queue[k] \in Cell
      /\ \A k, j \in DOMAIN queue : queue[k] = queue[j] => k = j
  BY LenProperties, ElementOfSeq DEF ShapeInv, TypeOK, TailIsLast
<1>2. Place(queue[i]) = i
  BY <1>1, SentinelAssumption DEF Place
<1>3. queue' = RemoveAt(queue, i) /\ elt' = [elt EXCEPT ![queue[i]] = NoElt]
  BY <1>2 DEF Unlink
<1>4. /\ Len(queue') = Len(queue) - 1
      /\ \A j \in 1..(Len(queue) - 1) : queue'[j] = IF j < i THEN queue[j] ELSE queue[j + 1]
  BY <1>1, <1>3, RemoveAtProperties
<1>5. ASSUME NEW j \in 1..(Len(queue) - 1), NEW m, m = IF j < i THEN j ELSE j + 1
      PROVE  m \in DOMAIN queue /\ elt'[queue'[j]] = elt[queue[m]]
  <2>1. m \in DOMAIN queue /\ m # i
    BY <1>1, <1>5
  <2>2. queue'[j] = queue[m]
    BY <1>4, <1>5
  <2>3. queue[m] # queue[i] /\ queue[m] \in Cell
    BY <1>1, <2>1
  <2> QED BY <1>3, <2>1, <2>2, <2>3 DEF ShapeInv, TypeOK
<1>6. PICK e : e = Events
  OBVIOUS
<1>7. PICK d : d = Events'
  OBVIOUS
<1>8. PICK r : r = RemoveAt(e, i)
  OBVIOUS
<1>9. /\ e \in Seq(Event) /\ Len(e) = Len(queue) /\ i \in DOMAIN e
      /\ \A k \in DOMAIN queue : e[k] = [to |-> elt[queue[k]].hndl, carries |-> elt[queue[k]].ref]
  BY <1>6, EventsProperties DEF ShapeInv, Listed
<1>10. /\ d \in Seq(Event) /\ Len(d) = Len(queue')
       /\ DOMAIN queue' = 1..Len(queue')
       /\ \A k \in DOMAIN queue' :
            d[k] = [to |-> elt'[queue'[k]].hndl, carries |-> elt'[queue'[k]].ref]
  <2>1. Listed'
    BY EventsProperties, PTL
  <2> QED BY <1>7, <2>1 DEF Listed
<1>11. /\ r \in Seq(Event) /\ Len(r) = Len(e) - 1
       /\ \A j \in 1..(Len(e) - 1) : r[j] = IF j < i THEN e[j] ELSE e[j + 1]
  BY <1>8, <1>9, RemoveAtProperties
<1>12. ASSUME NEW j \in 1..(Len(queue) - 1) PROVE d[j] = r[j]
  <2>1. PICK m : m = IF j < i THEN j ELSE j + 1
    OBVIOUS
  <2>2. r[j] = e[m]
    BY <1>9, <1>11, <2>1
  <2>3. m \in DOMAIN queue /\ elt'[queue'[j]] = elt[queue[m]]
    BY <1>5, <2>1
  <2>4. j \in DOMAIN queue'
    BY <1>4, <1>10
  <2>5. d[j] = [to |-> elt[queue[m]].hndl, carries |-> elt[queue[m]].ref]
    BY <1>10, <2>3, <2>4
  <2> QED BY <1>9, <2>2, <2>3, <2>5
<1>13. d = r
  <2>1. Len(d) = Len(queue) - 1 /\ Len(r) = Len(queue) - 1
    BY <1>4, <1>9, <1>10, <1>11
  <2> QED BY <1>10, <1>11, <1>12, <2>1, SeqEqual
<1> QED BY <1>4, <1>5, <1>6, <1>7, <1>8, <1>13

LEMMA LinkEvents ==
  ASSUME ShapeInv, TypeOK', NEW h \in Handler, NEW r \in Handler \cup {NIL},
         NEW c \in Cell, ~InQueue(c), queue' = AfterTail(c), tail' = c,
         elt' = [elt EXCEPT ![c] = [hndl |-> h, ref |-> r]]
  PROVE  /\ Events' = Append(Events, [to |-> h, carries |-> r])
         /\ [to |-> h, carries |-> r] \in Event
         /\ Len(queue') = Len(queue) + 1
         /\ \A j \in 1..Len(queue) : elt'[queue'[j]].hndl = elt[queue[j]].hndl
         /\ elt'[queue'[Len(queue) + 1]].hndl = h
<1>1. /\ queue \in Seq(Cell) /\ Len(queue) \in Nat /\ DOMAIN queue = 1..Len(queue)
      /\ \A k \in DOMAIN queue : queue[k] \in Cell /\ queue[k] # c
  BY LenProperties, ElementOfSeq DEF ShapeInv, TypeOK, InQueue
<1>2. queue' = Append(queue, c)
  BY LinkShape
<1>3. /\ Len(queue') = Len(queue) + 1
      /\ \A j \in 1..Len(queue) : queue'[j] = queue[j]
      /\ queue'[Len(queue) + 1] = c
  BY <1>1, <1>2, AppendProperties
<1>4. \A j \in 1..Len(queue) : elt'[queue'[j]] = elt[queue[j]]
  BY <1>1, <1>3 DEF ShapeInv, TypeOK
<1>5. PICK x : x = [hndl |-> h, ref |-> r]
  OBVIOUS
<1>6. elt'[queue'[Len(queue) + 1]] = x /\ x.hndl = h /\ x.ref = r
  BY <1>3, <1>5 DEF ShapeInv, TypeOK
<1>7. PICK v : v = [to |-> h, carries |-> r]
  OBVIOUS
<1>8. v \in Event
  BY <1>7 DEF Event
<1>9. PICK e : e = Events
  OBVIOUS
<1>10. PICK d : d = Events'
  OBVIOUS
<1>11. PICK a : a = Append(e, v)
  OBVIOUS
<1>12. /\ e \in Seq(Event) /\ Len(e) = Len(queue)
       /\ \A k \in DOMAIN queue : e[k] = [to |-> elt[queue[k]].hndl, carries |-> elt[queue[k]].ref]
  BY <1>9, EventsProperties DEF ShapeInv, Listed
<1>13. /\ d \in Seq(Event) /\ Len(d) = Len(queue')
       /\ DOMAIN queue' = 1..Len(queue')
       /\ \A k \in DOMAIN queue' :
            d[k] = [to |-> elt'[queue'[k]].hndl, carries |-> elt'[queue'[k]].ref]
  <2>1. Listed'
    BY EventsProperties, PTL
  <2> QED BY <1>10, <2>1 DEF Listed
<1>14. /\ a \in Seq(Event) /\ Len(a) = Len(queue) + 1
       /\ \A j \in 1..Len(queue) : a[j] = e[j]
       /\ a[Len(queue) + 1] = v
  BY <1>8, <1>11, <1>12, AppendProperties
<1>15. ASSUME NEW j \in 1..(Len(queue) + 1) PROVE d[j] = a[j]
  <2>1. j \in DOMAIN queue' /\ (j \in 1..Len(queue) \/ j = Len(queue) + 1)
    BY <1>1, <1>3, <1>13
  <2>2. CASE j \in 1..Len(queue)
    <3>1. d[j] = [to |-> elt[queue[j]].hndl, carries |-> elt[queue[j]].ref]
      BY <1>4, <1>13, <2>1, <2>2
    <3> QED BY <1>1, <1>12, <1>14, <2>2, <3>1
  <2>3. CASE j = Len(queue) + 1
    BY <1>6, <1>7, <1>13, <1>14, <2>1, <2>3
  <2> QED BY <2>1, <2>2, <2>3
<1>16. d = a
  <2>1. Len(d) = Len(queue) + 1
    BY <1>3, <1>13
  <2> QED BY <1>13, <1>14, <1>15, <2>1, SeqEqual
<1>17. \A j \in 1..Len(queue) : elt'[queue'[j]].hndl = elt[queue[j]].hndl
  BY <1>4
<1> QED BY <1>3, <1>6, <1>7, <1>8, <1>9, <1>10, <1>11, <1>16, <1>17

\* The events for H where neither the queue nor a cell changes, ...
LEMMA EventsToSame ==
  ASSUME UNCHANGED <<queue, elt>>, NEW H
  PROVE  EventsTo(H)' = EventsTo(H)
BY DEF EventsTo, Events

\* ... where an event is posted, ...
LEMMA EventsToPosted ==
  ASSUME ShapeInv, TypeOK', NEW h \in Handler, NEW r \in Handler \cup {NIL},
         NEW c \in Cell, ~InQueue(c), queue' = AfterTail(c), tail' = c,
         elt' = [elt EXCEPT ![c] = [hndl |-> h, ref |-> r]], NEW H
  PROVE  /\ h \in H => EventsTo(H)' = Append(EventsTo(H), [to |-> h, carries |-> r])
         /\ h \notin H => EventsTo(H)' = EventsTo(H)
<1>1. PICK v : v = [to |-> h, carries |-> r]
  OBVIOUS
<1>2. PICK e : e = Events
  OBVIOUS
<1>3. PICK I : I = For(H)
  OBVIOUS
<1>4. PICK J : J = For(H)'
  OBVIOUS
<1>5. /\ Events' = Append(e, v) /\ v \in Event /\ Len(queue') = Len(queue) + 1
      /\ \A j \in 1..Len(queue) : elt'[queue'[j]].hndl = elt[queue[j]].hndl
      /\ elt'[queue'[Len(queue) + 1]].hndl = h
  BY <1>1, <1>2, LinkEvents
<1>6. /\ Len(queue) \in Nat /\ DOMAIN queue = 1..Len(queue) /\ e \in Seq(Event)
      /\ Len(e) = Len(queue) /\ DOMAIN e = DOMAIN queue
  BY <1>2, EventsProperties DEF ShapeInv, Listed
<1>7. DOMAIN queue' = 1..(Len(queue) + 1)
  <2>1. Listed'
    BY EventsProperties, PTL
  <2> QED BY <1>5, <2>1 DEF Listed
<1>8. I \in SUBSET (DOMAIN e)
  BY <1>3, <1>6 DEF For
<1>9. /\ h \in H => J = I \cup {Len(e) + 1}
      /\ h \notin H => J = I
  <2>1. \A j \in 1..Len(queue) : j \in J <=> j \in I
    BY <1>3, <1>4, <1>5, <1>6, <1>7 DEF For
  <2>2. Len(queue) + 1 \in J <=> h \in H
    BY <1>4, <1>5, <1>6, <1>7 DEF For
  <2>3. J \in SUBSET (1..(Len(queue) + 1)) /\ I \in SUBSET (1..Len(queue))
    BY <1>3, <1>4, <1>6, <1>7 DEF For
  <2>4. \A j \in 1..(Len(queue) + 1) : j \in 1..Len(queue) \/ j = Len(queue) + 1
    BY <1>6
  <2> QED BY <1>6, <2>1, <2>2, <2>3, <2>4
<1>10. /\ Selected(Append(e, v), I) = Selected(e, I)
       /\ Selected(Append(e, v), I \cup {Len(e) + 1}) = Append(Selected(e, I), v)
  BY <1>5, <1>6, <1>8, SelectedAppend
<1>11. EventsTo(H) = Selected(e, I) /\ EventsTo(H)' = Selected(Append(e, v), J)
  BY <1>2, <1>3, <1>4, <1>5 DEF EventsTo, For
<1> QED BY <1>1, <1>9, <1>10, <1>11

\* ... where a cell is unlinked, ...
LEMMA EventsToUnlinked ==
  ASSUME ShapeInv, TypeOK', NEW pp, NEW i \in DOMAIN queue, Unlink(pp, queue[i]), NEW H
  PROVE  EventsTo(H)' = Selected(Events, For(H) \ {i})
<1>1. PICK e : e = Events
  OBVIOUS
<1>2. PICK I : I = For(H)
  OBVIOUS
<1>3. PICK J : J = For(H)'
  OBVIOUS
<1>4. /\ Events' = RemoveAt(e, i) /\ Len(queue') = Len(queue) - 1
      /\ \A j \in 1..(Len(queue) - 1) :
           elt'[queue'[j]].hndl = elt[queue[IF j < i THEN j ELSE j + 1]].hndl
  BY <1>1, UnlinkEvents
<1>5. /\ Len(queue) \in Nat /\ DOMAIN queue = 1..Len(queue) /\ e \in Seq(Event)
      /\ Len(e) = Len(queue) /\ DOMAIN e = DOMAIN queue
  BY <1>1, EventsProperties DEF ShapeInv, Listed
<1>6. DOMAIN queue' = 1..(Len(e) - 1)
  <2>1. Listed'
    BY EventsProperties, PTL
  <2> QED BY <1>4, <1>5, <2>1 DEF Listed
<1>7. I \in SUBSET (DOMAIN e) /\ J \in SUBSET (1..(Len(e) - 1)) /\ i \in DOMAIN e
  BY <1>2, <1>3, <1>5, <1>6 DEF For
<1>8. ASSUME NEW j \in 1..(Len(e) - 1)
      PROVE  j \in J <=> (IF j < i THEN j ELSE j + 1) \in I
  <2>1. PICK m : m = IF j < i THEN j ELSE j + 1
    OBVIOUS
  <2>2. m \in DOMAIN queue
    BY <1>5, <1>7, <2>1
  <2>3. elt'[queue'[j]].hndl = elt[queue[m]].hndl
    BY <1>4, <1>5, <2>1
  <2> QED BY <1>2, <1>3, <1>6, <2>1, <2>2, <2>3 DEF For
<1>9. Selected(RemoveAt(e, i), J) = Selected(e, I \ {i})
  <2>1. Shifted(J, I, i, Len(e) - 1)
    BY <1>8 DEF Shifted
  <2> QED BY <1>5, <1>7, <2>1, SelectedRemove
<1>10. EventsTo(H)' = Selected(RemoveAt(e, i), J)
  BY <1>3, <1>4 DEF EventsTo, For
<1> QED BY <1>1, <1>2, <1>9, <1>10

\* ... in particular one whose handler is not in H, ...
LEMMA EventsToOther ==
  ASSUME ShapeInv, TypeOK', NEW pp, NEW i \in DOMAIN queue, Unlink(pp, queue[i]), NEW H,
         elt[queue[i]].hndl \notin H
  PROVE  EventsTo(H)' = EventsTo(H)
<1>1. For(H) \ {i} = For(H)
  BY DEF For
<1> QED BY <1>1, EventsToUnlinked, EventsToProperties DEF ShapeInv

\* ... or the first one of a handler in H.
LEMMA EventsToTaken ==
  ASSUME ShapeInv, TypeOK', NEW pp, NEW i \in DOMAIN queue, Unlink(pp, queue[i]),
         NEW h, FirstFor(h, i), NEW H, h \in H
  PROVE  \E k \in DOMAIN EventsTo(H) :
           /\ EventsTo(H)[k].to = h
           /\ \A j \in 1..(k - 1) : EventsTo(H)[j].to # h
           /\ EventsTo(H)' = RemoveAt(EventsTo(H), k)
<1>1. PICK e : e = Events
  OBVIOUS
<1>2. PICK I : I = For(H)
  OBVIOUS
<1>3. PICK s : s = Selected(e, I)
  OBVIOUS
<1>4. /\ e \in Seq(Event) /\ Len(queue) \in Nat /\ DOMAIN queue = 1..Len(queue)
      /\ \A j \in DOMAIN queue : e[j].to = elt[queue[j]].hndl
      /\ DOMAIN e = DOMAIN queue
  BY <1>1, EventsProperties DEF ShapeInv, Listed
<1>5. I \in SUBSET (DOMAIN e) /\ i \in I
  BY <1>2, <1>4 DEF For, FirstFor
<1>6. PICK k \in DOMAIN s :
        /\ s[k] = e[i] /\ RemoveAt(s, k) = Selected(e, I \ {i})
        /\ \A j \in 1..(k - 1) : \E l \in I : l < i /\ s[j] = e[l]
  <2>1. e \in Seq(Event) /\ I \in SUBSET (DOMAIN e) /\ i \in I
    BY <1>4, <1>5
  <2> QED BY <1>3, <2>1, SelectedTake
<1>7. s[k].to = h
  BY <1>4, <1>6 DEF FirstFor
<1>8. ASSUME NEW j \in 1..(k - 1) PROVE s[j].to # h
  <2>1. PICK l \in I : l < i /\ s[j] = e[l]
    BY <1>6
  <2>2. l \in 1..(i - 1) /\ l \in DOMAIN queue
    BY <1>4, <1>5, <2>1
  <2>3. elt[queue[l]].hndl # h
    BY <2>2 DEF FirstFor
  <2> QED BY <1>4, <2>1, <2>2, <2>3
<1>9. EventsTo(H) = s
  BY <1>1, <1>2, <1>3, EventsToProperties DEF ShapeInv
<1>10. EventsTo(H)' = RemoveAt(s, k)
  BY <1>1, <1>2, <1>6, EventsToUnlinked
<1> QED BY <1>6, <1>7, <1>8, <1>9, <1>10

\* The events for fewer handlers: those of h are left out, and nothing else.
LEMMA EventsToWithout ==
  ASSUME TypeOK, NEW H, NEW h
  PROVE  EventsTo(H \ {h}) \in
           Selection(EventsTo(H), {k \in DOMAIN EventsTo(H) : EventsTo(H)[k].to # h})
<1>1. PICK e : e = Events
  OBVIOUS
<1>2. PICK I : I = For(H)
  OBVIOUS
<1>3. PICK s : s = Selected(e, I)
  OBVIOUS
<1>4. PICK P : P = {v \in Event : v.to # h}
  OBVIOUS
<1>5. /\ e \in Seq(Event) /\ Len(queue) \in Nat /\ DOMAIN queue = 1..Len(queue)
      /\ \A j \in DOMAIN queue : e[j].to = elt[queue[j]].hndl /\ e[j] \in Event
      /\ DOMAIN e = DOMAIN queue
  BY <1>1, EventsProperties DEF Listed
<1>6. I \in SUBSET (DOMAIN e) /\ s = EventsTo(H) /\ s \in Seq(Event)
  BY <1>1, <1>2, <1>3, EventsToProperties
<1>7. PICK J : J = {k \in DOMAIN s : s[k].to # h}
  OBVIOUS
<1>8. PICK K : K = For(H \ {h})
  OBVIOUS
<1>9. K \in SUBSET I /\ \A i \in I : i \in K <=> e[i] \in P
  BY <1>2, <1>4, <1>5, <1>8 DEF For
<1>10. J \in SUBSET (DOMAIN s) /\ \A k \in DOMAIN s : k \in J <=> s[k] \in P
  <2>1. \A k \in DOMAIN s : s[k] \in Event
    BY <1>6, LenProperties, ElementOfSeq
  <2> QED BY <1>4, <1>7, <2>1
<1>11. Selected(e, K) \in Selection(s, J)
  BY <1>3, <1>5, <1>6, <1>9, <1>10, SelectedWithin
<1>12. EventsTo(H \ {h}) = Selected(e, K)
  BY <1>1, <1>8, EventsToProperties
<1> QED BY <1>6, <1>7, <1>11, <1>12

\* Handlers that no queued event names make no difference.
LEMMA EventsToMore ==
  ASSUME NEW H, NEW K, \A i \in DOMAIN queue : elt[queue[i]].hndl \in H <=> elt[queue[i]].hndl \in K
  PROVE  EventsTo(H) = EventsTo(K)
<1>1. For(H) = For(K)
  BY DEF For
<1> QED BY <1>1 DEF EventsTo, For

-----------------------------------------------------------------------------
(* The events of a living object.                                          *)

Unharmed(h) ==
  \/ EventsOf(h)' = EventsOf(h)
  \/ \E r \in Handler \cup {NIL} :
       EventsOf(h)' = Append(EventsOf(h), [to |-> h, carries |-> r])
  \/ LispRuns /\ EventsOf(h) # <<>> /\ EventsOf(h)' = Tail(EventsOf(h))

LEMMA LivingStep ==
  ASSUME RefInv, [Next]_vars, NEW h \in Handler, obj[h] = "live"
  PROVE  Unharmed(h)
<1>0. ShapeInv /\ TypeOK /\ TypeOK'
  BY NextShape DEF RefInv, ShapeInv
<1>1. CASE UNCHANGED <<queue, elt>>
  BY <1>1, EventsToSame DEF Unharmed, EventsOf
<1>2. ASSUME NEW g \in Handler, NEW r \in Carried \cup {NIL}, SendEvent(g, r) PROVE Unharmed(h)
  <2>1. PICK c \in Cell : /\ ~InQueue(c)
                          /\ elt' = [elt EXCEPT ![c] = [hndl |-> g, ref |-> r]]
                          /\ queue' = AfterTail(c)
                          /\ tail' = c
    BY <1>2 DEF SendEvent
  <2>2. r \in Handler \cup {NIL}
    BY SentinelAssumption
  <2>3. PICK H : H = {h}
    OBVIOUS
  <2>4. /\ g \in H => EventsTo(H)' = Append(EventsTo(H), [to |-> g, carries |-> r])
        /\ g \notin H => EventsTo(H)' = EventsTo(H)
    BY <1>0, <2>1, <2>2, EventsToPosted
  <2> QED BY <2>2, <2>3, <2>4 DEF Unharmed, EventsOf
<1>3. ASSUME NEW g \in Handler, CheckEvent(g) PROVE Unharmed(h)
  <2>1. PICK i \in DOMAIN queue :
          FirstFor(g, i) /\ Unlink(IF i = 1 THEN head ELSE queue[i - 1], queue[i])
    BY <1>3 DEF CheckEvent
  <2>2. PICK pp : pp = IF i = 1 THEN head ELSE queue[i - 1]
    OBVIOUS
  <2>3. PICK H : H = {h}
    OBVIOUS
  <2>4. CASE g = h
    <3>1. PICK k \in DOMAIN EventsTo(H) :
            /\ EventsTo(H)[k].to = g
            /\ \A j \in 1..(k - 1) : EventsTo(H)[j].to # g
            /\ EventsTo(H)' = RemoveAt(EventsTo(H), k)
      <4>1. g \in H /\ FirstFor(g, i) /\ Unlink(pp, queue[i])
        BY <2>1, <2>2, <2>3, <2>4
      <4> QED BY <1>0, <4>1, EventsToTaken
    <3>2. PICK s : s = EventsTo(H)
      OBVIOUS
    <3>3. s \in Seq(Event) /\ \A j \in DOMAIN s : s[j].to = g
      BY <1>0, <2>3, <2>4, <3>2, EventsToProperties
    <3>4. k = 1 /\ s # <<>>
      <4>1. DOMAIN s = 1..Len(s) /\ Len(s) \in Nat /\ k \in 1..Len(s)
        BY <3>1, <3>2, <3>3, LenProperties
      <4>2. 1 \in DOMAIN s /\ (k # 1 => 1 \in 1..(k - 1))
        BY <4>1
      <4>3. s # <<>>
        BY <4>2, EmptySeq
      <4> QED BY <3>1, <3>2, <3>3, <4>2, <4>3
    <3>5. RemoveAt(s, 1) = Tail(s)
      BY <3>3, <3>4, RemoveAtHead
    <3>6. LispRuns
      BY <1>3 DEF CheckEvent
    <3> QED BY <2>3, <3>1, <3>2, <3>4, <3>5, <3>6 DEF Unharmed, EventsOf
  <2>5. CASE g # h
    <3>1. elt[queue[i]].hndl \notin H
      BY <2>1, <2>3, <2>5 DEF FirstFor
    <3>2. EventsTo(H)' = EventsTo(H)
      BY <1>0, <2>1, <2>2, <3>1, EventsToOther
    <3> QED BY <2>3, <3>2 DEF Unharmed, EventsOf
  <2> QED BY <2>4, <2>5
<1>4. ASSUME FinalizeRemove PROVE Unharmed(h)
  <2>1. PICK t : t = Top
    OBVIOUS
  <2>2. PICK p : p = Cdr(t.pp)
    OBVIOUS
  <2>3. stack # <<>> /\ p # NIL /\ Unlink(t.pp, p) /\ elt[p].hndl = t.h
    BY <1>4, <2>1, <2>2 DEF FinalizeRemove
  <2>4. t \in Frame /\ obj[t.h] = "dying"
    <3>1. t \in Frame /\ Len(stack) \in DOMAIN stack
      BY <1>0, <2>1, <2>3, PopProperties, LenProperties DEF TypeOK
    <3> QED BY <2>1, <3>1 DEF RefInv, OnStack, Top
  <2>5. p \in Cell /\ InQueue(p)
    BY <1>0, <2>2, <2>3, <2>4, CdrProperties DEF Frame
  <2>6. PICK i \in DOMAIN queue : p = queue[i]
    BY <2>5 DEF InQueue
  <2>7. PICK H : H = {h}
    OBVIOUS
  <2>8. elt[queue[i]].hndl \notin H
    BY <2>3, <2>4, <2>6, <2>7
  <2>9. PICK pp : pp = t.pp
    OBVIOUS
  <2>10. Unlink(pp, queue[i])
    BY <2>3, <2>6, <2>9
  <2>11. EventsTo(H)' = EventsTo(H)
    BY <1>0, <2>8, <2>10, EventsToOther
  <2> QED BY <2>7, <2>11 DEF Unharmed, EventsOf
<1>5. ASSUME NEW g \in Handler, New(g) \/ TestEvent(g) \/ DropReference(g) \/ Delete(g)
      PROVE  UNCHANGED <<queue, elt>>
  BY <1>5 DEF New, TestEvent, DropReference, Delete
<1>6. ASSUME PeekHandler \/ FinalizeSkip \/ FinalizeEnd \/ Destroyed \/ Elsewhere
      PROVE  UNCHANGED <<queue, elt>>
  BY <1>6, ElsewhereKeeps DEF PeekHandler, FinalizeSkip, FinalizeEnd, Destroyed
<1> QED BY <1>1, <1>2, <1>3, <1>4, <1>5, <1>6 DEF Next, Lisp, Calls, Elsewhere

\* An object that stays alive keeps its events, in their order, but the oldest
\* that lisp code takes, whatever walks, destructors and deaths go on around it,
\* until a walk goes astray (ev_remove, event_get, ev_finalize).
THEOREM LosesNothingCorrect == Spec => LivingLoseNothing
<1>1. ASSUME RefInv, [Next]_vars
      PROVE  [\A h \in Handler : obj[h] = "live" /\ obj'[h] = "live" =>
                \/ EventsOf(h)' = EventsOf(h)
                \/ \E r \in Handler \cup {NIL} :
                     EventsOf(h)' = Append(EventsOf(h), [to |-> h, carries |-> r])
                \/ /\ LispRuns /\ EventsOf(h) # <<>>
                   /\ EventsOf(h)' = Tail(EventsOf(h))]_vars
  <2>1. ASSUME NEW h \in Handler, obj[h] = "live" PROVE Unharmed(h)
    BY <1>1, <2>1, LivingStep
  <2> QED BY <2>1 DEF Unharmed
<1> QED BY <1>1, InitRefs, RefsNext, PTL DEF Spec, LivingLoseNothing

-----------------------------------------------------------------------------
(* The abstract queue: where walks are not re-entered, every step of the   *)
(* cells, the tail and the walk is a step of WeakQueue or none.            *)

LEMMA SameOperators ==
  /\ \A s, I : Abstract!Selection(s, I) = Selection(s, I)
  /\ \A s, i : Abstract!RemoveAt(s, i) = RemoveAt(s, i)
<1>1. \A s, I : Abstract!Selection(s, I) = Selection(s, I)
  BY Zenon DEF Abstract!Selection, Abstract!Increasing, Abstract!Onto, Selection, Increasing, Onto
<1>2. \A s, i : Abstract!RemoveAt(s, i) = RemoveAt(s, i)
  BY Zenon DEF Abstract!RemoveAt, RemoveAt
<1> QED BY <1>1, <1>2

\* The death of h removes its events, at once in the abstract queue.
LEMMA EnterDies ==
  ASSUME TypeOK, NEW h \in Handler, obj[h] = "live", NEW op, Enter(h, op, stack),
         UNCHANGED <<queue, elt>>
  PROVE  Abstract!Die(h)
<1>1. PICK H : H = Living
  OBVIOUS
<1>2. h \in H /\ Living' = H \ {h}
  BY <1>1 DEF Living, Enter, TypeOK
<1>3. EventsTo(H \ {h})' = EventsTo(H \ {h})
  BY EventsToSame
<1>4. EventsTo(H \ {h}) \in
        Selection(EventsTo(H), {k \in DOMAIN EventsTo(H) : EventsTo(H)[k].to # h})
  BY EventsToWithout
<1>5. Pending = EventsTo(H) /\ Pending' = EventsTo(H \ {h})'
  BY <1>1, <1>2 DEF Pending, EventsTo, Events
<1>6. Pending' \in Selection(Pending, {k \in DOMAIN Pending : Pending[k].to # h})
  BY <1>3, <1>4, <1>5, Zenon
<1> QED BY <1>1, <1>2, <1>6, SameOperators DEF Abstract!Die

LEMMA WeakInit == Init => Abstract!Init
<1> SUFFICES ASSUME Init PROVE Abstract!Init
  OBVIOUS
<1>1. Living = {}
  BY DEF Init, Living
<1>2. TypeOK /\ DOMAIN queue = {}
  BY InitShape DEF Init, ShapeInv
<1>3. PICK e : e = Events
  OBVIOUS
<1>4. e \in Seq(Event) /\ For(Living) = {}
  BY <1>2, <1>3, EventsProperties DEF Listed, For
<1>5. Selected(e, {}) = <<>>
  BY <1>4, SelectedIs, SelectionLast
<1>6. Pending = <<>>
  BY <1>3, <1>4, <1>5 DEF Pending, EventsTo, For
<1> QED BY <1>1, <1>6 DEF Abstract!Init

\* Nothing dies, nothing is born and the events stay: no step.
LEMMA NoWeakStep ==
  ASSUME \A h \in Handler : obj'[h] = "live" <=> obj[h] = "live",
         \A H : H = Living => EventsTo(H)' = EventsTo(H)
  PROVE  UNCHANGED Abstract!vars
<1>1. PICK H : H = Living
  OBVIOUS
<1>2. Living' = H
  BY <1>1 DEF Living
<1>3. Pending' = EventsTo(H)' /\ Pending = EventsTo(H)
  BY <1>1, <1>2 DEF Pending, EventsTo, Events
<1> QED BY <1>1, <1>2, <1>3 DEF Abstract!vars

LEMMA WeakStep ==
  ASSUME PlainAssumption, PlainInv, [Next]_vars
  PROVE  [Abstract!Next]_(Abstract!vars)
<1>0. ShapeInv /\ TypeOK /\ TypeOK' /\ WalkInv /\ WeakInv
  BY NextShape DEF PlainInv, ShapeInv
<1>1. PICK H : H = Living
  OBVIOUS
<1>2. Pending = EventsTo(H) /\ H \in SUBSET Handler
  BY <1>1 DEF Pending, Living
<1>3. ASSUME UNCHANGED <<queue, elt>>, \A h \in Handler : obj'[h] = "live" <=> obj[h] = "live"
      PROVE  UNCHANGED Abstract!vars
  <2>1. \A K : EventsTo(K)' = EventsTo(K)
    BY <1>3, EventsToSame
  <2> QED BY <1>3, <2>1, NoWeakStep
<1>4. ASSUME NEW h \in Handler, New(h) PROVE Abstract!Next
  <2>1. /\ obj[h] = "free" /\ obj' = [obj EXCEPT ![h] = "live"] /\ UNCHANGED <<queue, elt>>
        /\ stack = <<>>
    BY <1>4, PlainIdle DEF New
  <2>2. h \notin H /\ Living' = H \cup {h}
    BY <1>0, <1>1, <2>1 DEF Living, TypeOK
  <2>3. \A i \in DOMAIN queue : elt[queue[i]].hndl # h
    BY <1>0, <2>1 DEF WeakInv, WillRemove, Walking
  <2>4. EventsTo(H \cup {h}) = EventsTo(H)
    BY <2>3, EventsToMore
  <2>5. EventsTo(H \cup {h})' = EventsTo(H \cup {h})
    BY <2>1, EventsToSame
  <2>6. Pending' = EventsTo(H \cup {h})'
    BY <2>2 DEF Pending, EventsTo, Events
  <2> QED BY <1>1, <1>2, <2>2, <2>4, <2>5, <2>6 DEF Abstract!Next, Abstract!Born
<1>5. ASSUME NEW h \in Handler, NEW r \in Carried \cup {NIL}, SendEvent(h, r)
      PROVE  Abstract!Next
  <2>1. PICK c \in Cell : /\ ~InQueue(c)
                          /\ elt' = [elt EXCEPT ![c] = [hndl |-> h, ref |-> r]]
                          /\ queue' = AfterTail(c)
                          /\ tail' = c
    BY <1>5 DEF SendEvent
  <2>2. stack = <<>> /\ obj' = obj /\ r \in Handler \cup {NIL}
    BY <1>5, PlainIdle, SentinelAssumption DEF SendEvent
  <2>3. h \in H
    BY <1>1, <1>5, <2>2 DEF SendEvent, Usable, InDestructor, Living
  <2>4. EventsTo(H)' = Append(EventsTo(H), [to |-> h, carries |-> r])
    BY <1>0, <2>1, <2>2, <2>3, EventsToPosted
  <2>5. Living' = H /\ Pending' = EventsTo(H)'
    BY <1>1, <2>2 DEF Living, Pending, EventsTo, Events
  <2>6. Abstract!Post(h, r)
    BY <1>1, <1>2, <2>3, <2>4, <2>5 DEF Abstract!Post
  <2> QED BY <2>2, <2>6 DEF Abstract!Next
<1>6. ASSUME NEW h \in Handler, CheckEvent(h) PROVE Abstract!Next
  <2>1. PICK i \in DOMAIN queue :
          FirstFor(h, i) /\ Unlink(IF i = 1 THEN head ELSE queue[i - 1], queue[i])
    BY <1>6 DEF CheckEvent
  <2>2. PICK pp : pp = IF i = 1 THEN head ELSE queue[i - 1]
    OBVIOUS
  <2>3. stack = <<>> /\ obj' = obj
    BY <1>6, PlainIdle DEF CheckEvent
  <2>4. h \in H
    BY <1>1, <1>6, <2>3 DEF CheckEvent, Usable, InDestructor, Living
  <2>5. PICK k \in DOMAIN EventsTo(H) :
          /\ EventsTo(H)[k].to = h
          /\ \A j \in 1..(k - 1) : EventsTo(H)[j].to # h
          /\ EventsTo(H)' = RemoveAt(EventsTo(H), k)
    <3>1. FirstFor(h, i) /\ Unlink(pp, queue[i])
      BY <2>1, <2>2
    <3> QED BY <1>0, <2>4, <3>1, EventsToTaken
  <2>6. Living' = H /\ Pending' = EventsTo(H)'
    BY <1>1, <2>3 DEF Living, Pending, EventsTo, Events
  <2>7. Abstract!Take(h)
    <3>1. k \in DOMAIN Pending /\ Pending[k].to = h /\ Pending' = RemoveAt(Pending, k)
      BY <1>2, <2>5, <2>6
    <3>2. \A j \in 1..(k - 1) : Pending[j].to # h
      BY <1>2, <2>5
    <3> QED BY <1>1, <2>6, <3>1, <3>2, SameOperators DEF Abstract!Take
  <2> QED BY <2>7 DEF Abstract!Next
<1>7. ASSUME NEW h \in Handler, TestEvent(h) PROVE UNCHANGED Abstract!vars
  BY <1>3, <1>7 DEF TestEvent
<1>8. ASSUME NEW h \in Handler, DropReference(h)
      PROVE  Abstract!Next \/ UNCHANGED Abstract!vars
  <2>1. UNCHANGED <<queue, elt>>
    BY <1>8 DEF DropReference
  <2>2. PICK rt : rt = rooted'
    OBVIOUS
  <2>3. Unlock(h, rt, queue, stack)
    BY <1>8, <2>2 DEF DropReference
  <2>4. CASE obj[h] = "live" /\ Enter(h, "purge", stack)
    BY <1>0, <2>1, <2>4, EnterDies DEF Abstract!Next
  <2>5. CASE obj[h] = "zombie" /\ obj' = [obj EXCEPT ![h] = "free"]
    <3>1. \A g \in Handler : obj'[g] = "live" <=> obj[g] = "live"
      BY <1>0, <2>5 DEF TypeOK
    <3> QED BY <1>3, <2>1, <3>1
  <2>6. CASE obj' = obj
    BY <1>3, <2>1, <2>6
  <2> QED BY <2>3, <2>4, <2>5, <2>6 DEF Unlock
<1>9. ASSUME NEW h \in Handler, Delete(h) PROVE Abstract!Next
  <2>1. obj[h] = "live" /\ Enter(h, "delete", stack) /\ UNCHANGED <<queue, elt>>
    BY <1>9 DEF Delete
  <2>2. Abstract!Die(h)
    BY <1>0, <2>1, EnterDies
  <2> QED BY <2>2 DEF Abstract!Next
<1>10. ASSUME PeekHandler \/ FinalizeSkip \/ FinalizeEnd \/ Elsewhere
       PROVE  UNCHANGED Abstract!vars
  <2>1. UNCHANGED <<obj, queue, elt>>
    BY <1>10, ElsewhereKeeps DEF PeekHandler, FinalizeSkip, FinalizeEnd
  <2> QED BY <1>3, <2>1
<1>11. ASSUME FinalizeRemove PROVE UNCHANGED Abstract!vars
  <2>1. PICK t : t = Top
    OBVIOUS
  <2>2. PICK p : p = Cdr(t.pp)
    OBVIOUS
  <2>3. PICK q : q = queue'
    OBVIOUS
  <2>4. /\ stack # <<>> /\ p # NIL /\ Unlink(t.pp, p) /\ elt[p].hndl = t.h
        /\ Unlock(elt[p].ref, rooted, q, stack)
    BY <1>11, <2>1, <2>2, <2>3 DEF FinalizeRemove
  <2>5. t \in Frame /\ obj[t.h] = "dying"
    BY <1>0, <2>1, <2>4, PopProperties DEF WalkInv
  <2>6. p \in Cell /\ InQueue(p)
    BY <1>0, <2>2, <2>4, <2>5, CdrProperties DEF Frame
  <2>7. PICK i \in DOMAIN queue : p = queue[i]
    BY <2>6 DEF InQueue
  <2>8. obj' = obj
    <3>1. elt[p].ref = NIL
      BY <2>6 DEF PlainInv
    <3> QED BY <2>4, <3>1 DEF Unlock, LastReference
  <2>9. elt[queue[i]].hndl \notin H
    BY <1>1, <2>4, <2>5, <2>7 DEF Living
  <2>10. PICK pp : pp = t.pp
    OBVIOUS
  <2>11. Unlink(pp, queue[i])
    BY <2>4, <2>7, <2>10
  <2>12. EventsTo(H)' = EventsTo(H)
    BY <1>0, <2>9, <2>11, EventsToOther
  <2> QED BY <1>1, <2>8, <2>12, NoWeakStep
<1>12. ASSUME Destroyed PROVE UNCHANGED Abstract!vars
  <2>1. PICK t : t = Top
    OBVIOUS
  <2>2. /\ stack # <<>> /\ UNCHANGED <<queue, elt>>
        /\ obj' = [obj EXCEPT ![t.h] = IF t.op = "purge" THEN "free" ELSE "zombie"]
    BY <1>12, <2>1 DEF Destroyed
  <2>3. t \in Frame /\ obj[t.h] = "dying"
    BY <1>0, <2>1, <2>2, PopProperties DEF WalkInv
  <2>4. \A g \in Handler : obj'[g] = "live" <=> obj[g] = "live"
    BY <1>0, <2>2, <2>3 DEF TypeOK, Frame
  <2> QED BY <1>3, <2>2, <2>4
<1> QED BY <1>4, <1>5, <1>6, <1>7, <1>8, <1>9, <1>10, <1>11, <1>12
        DEF Next, Lisp, Calls, Elsewhere

\* Seen through the events of the living, the queue with its cells, its tail
\* and the walk that removes the events of the dead is the abstract queue, in
\* which a death removes them at once (ev_add, event_get, ev_finalize).
THEOREM WeakQueueCorrect ==
  ASSUME PlainAssumption
  PROVE  Spec => ImplementsWeakQueue
<1>1. PlainInv /\ [Next]_vars => [Abstract!Next]_(Abstract!vars)
  BY WeakStep
<1>2. PlainInv /\ [Next]_vars => PlainInv'
  BY PlainNext
<1> QED BY <1>1, <1>2, InitPlain, WeakInit, PTL DEF Spec, ImplementsWeakQueue, Abstract!Spec
=============================================================================
