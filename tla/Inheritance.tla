----------------------------- MODULE Inheritance ------------------------------
(***************************************************************************)
(* What oostruct.c promises of inheritance: a selector that is looked up   *)
(* in a class is answered by the nearest class, going up, that defines it  *)
(* at that moment (objects.hlp, Inheritance).  There is no cache here.     *)
(* Methods is the detailed version.                                        *)
(***************************************************************************)
EXTENDS Naturals, Sequences

CONSTANTS Class,      \* addresses of classes
          Root,       \* ::class:object, there from the start
          Selector,   \* names of methods
          Function,   \* addresses of functions
          NIL

VARIABLES lineage,    \* lineage[c]: c, its superclass, and so on; <<>> when unused
          methods,    \* methods[c][s]: the function class c defines for s, or NIL
          answer      \* the last lookup's: function and defining class; or NIL

vars == <<lineage, methods, answer>>

Definition == [function : Function, owner : Class]

Defines(c, s, i) == i \in DOMAIN lineage[c] /\ methods[lineage[c][i]][s] # NIL

\* d is what an object of class c executes for s.
Nearest(c, s, d) ==
  \/ d = NIL /\ \A i \in DOMAIN lineage[c] : ~Defines(c, s, i)
  \/ \E i \in DOMAIN lineage[c] :
       /\ Defines(c, s, i)
       /\ \A j \in 1..(i - 1) : ~Defines(c, s, j)
       /\ d = [function |-> methods[lineage[c][i]][s], owner |-> lineage[c][i]]

Init ==
  /\ lineage = [c \in Class |-> IF c = Root THEN <<Root>> ELSE <<>>]
  /\ methods = [c \in Class |-> [s \in Selector |-> NIL]]
  /\ answer = NIL

Subclass(c, super) ==
  /\ lineage[c] = <<>> /\ lineage[super] # <<>>
  /\ lineage' = [lineage EXCEPT ![c] = <<c>> \o lineage[super]]
  /\ answer' = NIL
  /\ UNCHANGED methods

\* Class c gets, changes or loses a method.
Define(c, s, v) ==
  /\ methods' = [methods EXCEPT ![c][s] = v]
  /\ answer' = NIL
  /\ UNCHANGED lineage

\* The methods of class c are replaced by one.
Load(c, s, v) ==
  /\ methods' = [methods EXCEPT ![c] = [t \in Selector |-> IF t = s THEN v ELSE NIL]]
  /\ answer' = NIL
  /\ UNCHANGED lineage

\* A deleted function is no method any more, wherever it was one.
Forget(f) ==
  /\ methods' = [c \in Class |-> [s \in Selector |->
                   IF methods[c][s] = f THEN NIL ELSE methods[c][s]]]
  /\ answer' = NIL
  /\ UNCHANGED lineage

LookUp(c, s) ==
  /\ lineage[c] # <<>>
  /\ answer' \in Definition \cup {NIL}
  /\ Nearest(c, s, answer')
  /\ UNCHANGED <<lineage, methods>>

\* Lisp code does something else.
Other == answer' = NIL /\ UNCHANGED <<lineage, methods>>

Next == \/ Other
        \/ \E c \in Class, s \in Selector : LookUp(c, s)
        \/ \E c, super \in Class : Subclass(c, super)
        \/ \E f \in Function : Forget(f)
        \/ \E c \in Class, s \in Selector, v \in Function \cup {NIL} :
             Define(c, s, v) \/ Load(c, s, v)

Spec == Init /\ [][Next]_vars
=============================================================================
