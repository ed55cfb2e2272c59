------------------------------- MODULE Methods --------------------------------
(***************************************************************************)
(* Classes, methods and messages of oostruct.c.                            *)
(*                                                                         *)
(* Each class has a list of its own methods and a hash table, filled when  *)
(* a selector is first looked up, of everything it defines or inherits.    *)
(* putmethod marks the tables of the class and of all its subclasses stale *)
(* (hashok = 0); a function that is deleted stays in lists and tables as a *)
(* zombie until a lookup meets it.  Lists and tables hold references to    *)
(* functions; the calls in progress mostly do not, and keep `hx', a        *)
(* pointer into a table, across lisp code.                                 *)
(*                                                                         *)
(* One action is one primitive, or the part of it between two runs of lisp *)
(* code.  stack has a frame per send and per deletion in progress; lisp    *)
(* code runs when it is empty or when the top frame evaluates arguments or *)
(* executes a method.  Abstracted: slots and their values (the class that  *)
(* owns a method stands for slotssofar), collisions in the tables (the     *)
(* table is made larger until there is none that matters), the number of   *)
(* objects (there may be any of each class).  Functions are those of de,   *)
(* whose arguments call_method evaluates first, and their bodies hold no   *)
(* object with a destructor.  No class is deleted.                         *)
(***************************************************************************)
EXTENDS Naturals, Sequences, FiniteSets, Selection

CONSTANTS
  Class,       \* addresses of classes
  Root,        \* ::class:object
  Selector,    \* names of methods
  destroy,     \* -destructor
  unknown,     \* -unknown
  Function,    \* addresses of functions, reused once freed
  NIL,
  Compiled,    \* classes whose methods bread replaces (TOK_CCLASS)
  Final,       \* classes no subclass is made of
  Depth,       \* bound: calls in progress
  Mortal,      \* functions that are deleted
  Definable    \* bound: classes, selectors and functions of the methods there may be

ASSUME MethodsAssumption ==
  /\ Root \in Class
  /\ destroy \in Selector /\ unknown \in Selector
  /\ NIL \notin Function /\ NIL \notin [function : Function, owner : Class]
  /\ Compiled \subseteq Class /\ Final \subseteq Class
  /\ Depth \in Nat
  /\ Mortal \subseteq Function
  /\ Definable \subseteq Class \X Selector \X Function

VARIABLES
  lineage,     \* lineage[c]: c, cl->super and so on; <<>> for an address not in use
  methods,     \* methods[c][s]: the function in the list of class c, or NIL
  hashok,      \* the classes whose table is up to date
  hashtable,   \* hashtable[c][s]: function and owner (sofar), or NIL
  zombies,     \* functions that were deleted
  stack,       \* sends and deletions in progress, innermost last
  found        \* what the last getmethod returned, NIL after anything else

vars == <<lineage, methods, hashok, hashtable, zombies, stack, found>>

Definition == [function : Function, owner : Class]

\* class: where the search began; level: how far above it the table is that hx
\* points into; stale: that table was freed; torn: the function that runs was
\* deleted, which frees its body; ran: the destructors called so far; steady: no
\* method changed since the deletion began.
Frame == [op : {"send", "delete"}, phase : {"unknown", "args", "body", "next"},
          class : Class, level : Nat \ {0}, hx : Definition \cup {NIL},
          stale : BOOLEAN, torn : BOOLEAN,
          ran : Seq(Function \cup {NIL}), steady : BOOLEAN]

Top == stack[Len(stack)]
Pop(st) == SubSeq(st, 1, Len(st) - 1)

\* A function whose body was freed can only return: progn and pop_args find
\* nothing more to do if the deletion came last and there are no arguments.  What
\* the program does if it evaluates more of that body is not modelled.
LispRuns == stack # <<>> => Top.phase \in {"args", "body"} /\ ~Top.torn

-----------------------------------------------------------------------------
(* Looking up a method.                                                    *)

Exists(c) == lineage[c] # <<>>

Living(f) == f # NIL /\ f \notin zombies

\* Mutant: null methods and zombies are stored as well.
DefiningAny(c, s) == DOMAIN lineage[c]

Defining(c, s) == {i \in DOMAIN lineage[c] : Living(methods[lineage[c][i]][s])}

\* What update_hashtable stores for s.
Nearest(c, s) ==
  IF Defining(c, s) = {} THEN NIL
  ELSE LET i == CHOOSE i \in Defining(c, s) : \A j \in Defining(c, s) : i <= j
       IN  [function |-> methods[lineage[c][i]][s], owner |-> lineage[c][i]]

Above(c) == {lineage[c][i] : i \in DOMAIN lineage[c]}

\* Mutant: only the class itself is marked.
ClearOne(c) == hashok \ {c}

\* clear_hashok: the class and all the classes below it.
clear_hashok(c) == {d \in hashok : c \notin Above(d)}

\* Mutant: zombies in an up to date table are not looked for.
FreshWhateverDied(c, s) == c \in hashok

\* getmethod needs no new table: it is up to date and has no zombie for s.
Fresh(c, s) ==
  /\ c \in hashok
  /\ hashtable[c][s] # NIL => hashtable[c][s].function \notin zombies

\* update_hashtable takes the zombies out of the lists it reads.
Swept(c) ==
  [d \in Class |-> [s \in Selector |->
     IF d \in Above(c) /\ ~Living(methods[d][s]) THEN NIL ELSE methods[d][s]]]

\* getmethod(c, s)
getmethod(c, s) ==
  \/ /\ Fresh(c, s)
     /\ found' = hashtable[c][s]
     /\ UNCHANGED <<methods, hashok, hashtable>>
  \/ /\ ~Fresh(c, s)
     /\ methods' = Swept(c)
     /\ hashtable' = [hashtable EXCEPT ![c] = [t \in Selector |-> Nearest(c, t)]]
     /\ hashok' = (IF c \in hashok THEN clear_hashok(c) ELSE hashok) \cup {c}
     /\ found' = Nearest(c, s)

\* letslot reads hx->sofar after the arguments, send_delete hx->function after
\* the destructor.
NeedsTable(fr) == fr.phase = "args" \/ (fr.op = "delete" /\ fr.phase = "body")

\* The calls in progress when the table of c is freed, ...
Freed(c) ==
  [i \in DOMAIN stack |->
     IF NeedsTable(stack[i]) /\ lineage[stack[i].class][stack[i].level] = c
     THEN [stack[i] EXCEPT !.stale = TRUE, !.steady = (stack[i].op = "send")] ELSE stack[i]]

\* ... after getmethod(c, s), which may do that, ...
Calls(c, s) == IF Fresh(c, s) THEN stack ELSE Freed(c)

\* ... and when methods change.
Disturbed == [i \in DOMAIN stack |-> [stack[i] EXCEPT !.steady = (stack[i].op = "send")]]

-----------------------------------------------------------------------------
(* References.                                                             *)

\* Mutant: apply does not lock the function it runs.
NotRunning(f) == FALSE

\* apply holds the function it runs.
Running(f) ==
  \E i \in DOMAIN stack : stack[i].phase = "body" /\ stack[i].hx.function = f

\* A function without a reference is free.
Referenced(f) ==
  \/ \E c \in Class, s \in Selector :
       \/ methods[c][s] = f
       \/ hashtable[c][s] # NIL /\ hashtable[c][s].function = f
  \/ Running(f)

\* An address allocate may give to a new function.  One that a call in progress
\* still names is left out: a use of it would be wild whatever is there.
Available(f) ==
  /\ ~Referenced(f)
  /\ \A i \in DOMAIN stack : stack[i].hx # NIL => stack[i].hx.function # f

-----------------------------------------------------------------------------
(* Lisp code.                                                              *)

Init ==
  /\ lineage = [c \in Class |-> IF c = Root THEN <<Root>> ELSE <<>>]
  /\ methods = [c \in Class |-> [s \in Selector |-> NIL]]
  /\ hashok = {}
  /\ hashtable = [c \in Class |-> [s \in Selector |-> NIL]]
  /\ zombies = {}
  /\ stack = <<>>
  /\ found = NIL

\* (makeclass c super ...)
new_ooclass(c, super) ==
  /\ LispRuns
  /\ ~Exists(c) /\ Exists(super) /\ super \notin Final
  /\ lineage' = [lineage EXCEPT ![c] = <<c>> \o lineage[super]]
  /\ found' = NIL
  /\ UNCHANGED <<methods, hashok, hashtable, zombies, stack>>

\* lfunc_dispose frees the body of f, which any number of calls may run.
Torn(st, f) ==
  [i \in DOMAIN st |->
     IF st[i].phase = "body" /\ st[i].hx.function = f
     THEN [st[i] EXCEPT !.torn = TRUE] ELSE st[i]]

\* (delete f): f is a zombie; its cell stays while something refers to it, the
\* structure with its arguments and body is freed at once.
DeleteFunction(f) ==
  /\ LispRuns
  /\ f \in Mortal
  /\ Referenced(f) /\ f \notin zombies
  /\ zombies' = zombies \cup {f}
  /\ stack' = Torn(Disturbed, f)
  /\ found' = NIL
  /\ UNCHANGED <<lineage, methods, hashok, hashtable>>

\* (putmethod c s v), v a new function, one that check==> gave, or ()
putmethod(c, s, v) ==
  /\ LispRuns
  /\ Exists(c)
  /\ \/ v = NIL
     \/ <<c, s, v>> \in Definable /\ (Available(v) \/ (Referenced(v) /\ v \notin zombies))
  /\ hashok' = clear_hashok(c)
  /\ methods' = [methods EXCEPT ![c][s] = v]
  /\ zombies' = IF Referenced(v) THEN zombies ELSE zombies \ {v}
  /\ stack' = Disturbed
  /\ found' = NIL
  /\ UNCHANGED <<lineage, hashtable>>

\* (bread) of a file with a compiled class, that has a new method f for s: the
\* list of class c is overwritten (its references are lost: the functions in it
\* are never freed).
bread(c, s, f) ==
  /\ LispRuns
  /\ c \in Compiled /\ Exists(c)
  /\ <<c, s, f>> \in Definable /\ Available(f)
  /\ methods' = [methods EXCEPT ![c] = [t \in Selector |-> IF t = s THEN f ELSE NIL]]
  /\ hashok' = hashok \ {c}
  /\ zombies' = zombies \ {f}
  /\ stack' = Disturbed
  /\ found' = NIL
  /\ UNCHANGED <<lineage, hashtable>>

\* (check==> c s)
checksend(c, s) ==
  /\ LispRuns
  /\ Exists(c)
  /\ getmethod(c, s)
  /\ stack' = Calls(c, s)
  /\ UNCHANGED <<zombies, lineage>>

-----------------------------------------------------------------------------
(* Messages.                                                               *)

Sending(c, phase, hx) ==
  [op |-> "send", phase |-> phase, class |-> c, level |-> 1, hx |-> hx,
   stale |-> FALSE, torn |-> FALSE, ran |-> <<>>, steady |-> TRUE]

\* send_message: c is the class of the object, or the superclass named in a
\* cast-and-send.  call_method starts with the arguments.
send_message(c, s) ==
  /\ LispRuns
  /\ Exists(c) /\ Len(stack) < Depth
  /\ getmethod(c, s)
  /\ stack' = Append(Calls(c, s),
                     Sending(c, IF found' = NIL THEN "unknown" ELSE "args", found'))
  /\ UNCHANGED <<zombies, lineage>>

\* No method: -unknown is looked for, and there is an error without it.
SendUnknown ==
  /\ stack # <<>> /\ Top.phase = "unknown"
  /\ getmethod(Top.class, unknown)
  /\ stack' = IF found' = NIL THEN <<>>
              ELSE Append(Pop(Calls(Top.class, unknown)), Sending(Top.class, "args", found'))
  /\ UNCHANGED <<zombies, lineage>>

\* The arguments are evaluated: letslot applies the function.  There is an error
\* if it was deleted meanwhile, and here too if it was freed.
ApplyMethod ==
  /\ stack # <<>> /\ Top.phase = "args"
  /\ stack' = IF Living(Top.hx.function) /\ Referenced(Top.hx.function)
              THEN Append(Pop(stack), [Top EXCEPT !.phase = "body", !.stale = FALSE]) ELSE <<>>
  /\ found' = NIL
  /\ UNCHANGED <<zombies, lineage, methods, hashok, hashtable>>

MethodReturns ==
  /\ stack # <<>> /\ Top.op = "send" /\ Top.phase = "body"
  /\ stack' = Pop(stack)
  /\ found' = NIL
  /\ UNCHANGED <<zombies, lineage, methods, hashok, hashtable>>

\* An error in lisp code ends all the calls.
LispError ==
  /\ stack # <<>> /\ LispRuns
  /\ stack' = <<>>
  /\ found' = NIL
  /\ UNCHANGED <<zombies, lineage, methods, hashok, hashtable>>

-----------------------------------------------------------------------------
(* send_delete.                                                            *)

\* (delete obj), obj an object of class c
Delete(c) ==
  /\ LispRuns
  /\ Exists(c) /\ Len(stack) < Depth
  /\ stack' = Append(stack, [op |-> "delete", phase |-> "next", class |-> c, level |-> 1,
                             hx |-> NIL, stale |-> FALSE, torn |-> FALSE,
                             ran |-> <<>>, steady |-> TRUE])
  /\ found' = NIL
  /\ UNCHANGED <<lineage, methods, hashok, hashtable, zombies>>

LastRan(ran) == IF ran = <<>> THEN NIL ELSE ran[Len(ran)]

\* Mutant: inherited destructors are called again.
NextDestructorAgain ==
  /\ stack # <<>> /\ Top.phase = "next" /\ Top.level <= Len(lineage[Top.class])
  /\ LET k == lineage[Top.class][Top.level]
     IN  /\ getmethod(k, destroy)
         /\ found' # NIL
         /\ stack' = Append(Pop(Calls(k, destroy)),
                       [Top EXCEPT !.phase = "body", !.hx = found', !.stale = FALSE])
  /\ UNCHANGED <<zombies, lineage>>

\* One class further up: its destructor is called unless it is the one that ran
\* last.
NextDestructor ==
  /\ stack # <<>> /\ Top.phase = "next" /\ Top.level <= Len(lineage[Top.class])
  /\ LET k == lineage[Top.class][Top.level]
     IN  /\ getmethod(k, destroy)
         /\ found' # NIL
         /\ stack' = Append(Pop(Calls(k, destroy)),
                       IF found'.function = LastRan(Top.ran)
                       THEN [Top EXCEPT !.level = @ + 1]
                       ELSE [Top EXCEPT !.phase = "body", !.hx = found', !.stale = FALSE])
  /\ UNCHANGED <<zombies, lineage>>

\* No class is left, ...
DestructorsEnd ==
  /\ stack # <<>> /\ Top.phase = "next" /\ Top.level > Len(lineage[Top.class])
  /\ stack' = Pop(stack)
  /\ found' = NIL
  /\ UNCHANGED <<lineage, methods, hashok, hashtable, zombies>>

\* ... or none that has a destructor.
DestructorsBreak ==
  /\ stack # <<>> /\ Top.phase = "next" /\ Top.level <= Len(lineage[Top.class])
  /\ LET k == lineage[Top.class][Top.level]
     IN  /\ getmethod(k, destroy)
         /\ found' = NIL
         /\ stack' = Pop(Calls(k, destroy))
  /\ UNCHANGED <<zombies, lineage>>

\* f = hx->function, read after the call: anything if the table was freed.
DestructorReturns ==
  /\ stack # <<>> /\ Top.op = "delete" /\ Top.phase = "body"
  /\ \E f \in IF Top.stale THEN Function \cup {NIL} ELSE {Top.hx.function} :
       stack' = Append(Pop(stack),
                  [Top EXCEPT !.phase = "next", !.level = @ + 1, !.hx = NIL,
                              !.stale = FALSE, !.torn = FALSE, !.ran = Append(@, f)])
  /\ found' = NIL
  /\ UNCHANGED <<zombies, lineage, methods, hashok, hashtable>>

-----------------------------------------------------------------------------
Lisp == \/ \E c, super \in Class : new_ooclass(c, super)
        \/ \E f \in Function : DeleteFunction(f)
        \/ \E c \in Class, s \in Selector :
             \/ \E v \in Function \cup {NIL} : putmethod(c, s, v)
             \/ \E f \in Function : bread(c, s, f)
             \/ checksend(c, s)
             \/ send_message(c, s)
        \/ \E c \in Class : Delete(c)
        \/ LispError

Next == \/ Lisp
        \/ SendUnknown \/ ApplyMethod \/ MethodReturns
        \/ NextDestructor \/ DestructorsEnd \/ DestructorsBreak \/ DestructorReturns

Spec == Init /\ [][Next]_vars

-----------------------------------------------------------------------------
(* Properties.                                                             *)

TypeOK ==
  /\ lineage \in [Class -> Seq(Class)]
  /\ methods \in [Class -> [Selector -> Function \cup {NIL}]]
  /\ hashok \subseteq Class
  /\ hashtable \in [Class -> [Selector -> Definition \cup {NIL}]]
  /\ zombies \subseteq Function
  /\ stack \in Seq(Frame)
  /\ found \in Definition \cup {NIL}

\* A table that is up to date answers as a search of the lists would, except
\* where it has a zombie, which getmethod notices: whatever was defined, removed
\* or deleted since, in whatever class, and however lookups in other classes
\* swept the lists (clear_hashok, update_hashtable, getmethod).
CacheCoherent ==
  \A c \in hashok, s \in Selector :
    \/ hashtable[c][s] = Nearest(c, s)
    \/ hashtable[c][s] # NIL /\ hashtable[c][s].function \in zombies

\* What is called is there.  The function of a call in progress is not freed while
\* the arguments are evaluated, unless the table it was found in is rebuilt, nor
\* while it runs, when its body is there as well: a method may redefine itself and
\* its callers, and delete any function that does not run.  One that deletes a
\* running function, itself or a caller, frees the body that is being walked
\* (`torn', lfunc_dispose); apply still holds the function's cell.
CalledAreAlive ==
  \A i \in DOMAIN stack :
    LET fr == stack[i] IN
    fr.hx # NIL =>
      /\ fr.phase = "body" \/ ~fr.stale => Referenced(fr.hx.function)
      /\ fr.phase = "body" /\ ~fr.torn => Living(fr.hx.function)

\* Where class c and those above it define a destructor, but for those whose
\* next one up is the same function.
Destroying(c) ==
  LET own == {i \in DOMAIN lineage[c] : Living(methods[lineage[c][i]][destroy])}
      f(i) == methods[lineage[c][i]][destroy]
  IN  {i \in own : \A j \in own :
         i < j /\ (\A k \in own : k <= i \/ j <= k) => f(i) # f(j)}

\* "When an object is deleted all the destructors of its class and superclasses
\* are successively called" (objects.hlp): each once, nearest first, though a
\* class also finds those it inherits, and whatever is sent and deleted inside
\* them, as long as no method changes and no table they need is rebuilt.
AllDestructorsRun ==
  [][stack # <<>> /\ Top.phase = "next" /\ Top.steady /\ Len(stack') < Len(stack)
       => Top.ran \in Selection([i \in DOMAIN lineage[Top.class] |->
                                  methods[lineage[Top.class][i]][destroy]],
                                Destroying(Top.class))]_vars

-----------------------------------------------------------------------------
(* Refinement: functions that were deleted are no methods.                 *)

Alive == [c \in Class |-> [s \in Selector |->
            IF Living(methods[c][s]) THEN methods[c][s] ELSE NIL]]

Abstract == INSTANCE Inheritance WITH methods <- Alive, answer <- found

\* Every lookup finds the nearest definition: "it searches the methods defined by
\* its class [...] If no method is found that matches the selector it searches
\* the methods of its superclass" (objects.hlp).
ImplementsInheritance == Abstract!Spec
=============================================================================
