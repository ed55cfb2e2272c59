------------------------------ MODULE Selection -------------------------------
(***************************************************************************)
(* Filtering a sequence by position, as a set with one member.  Actions    *)
(* that drop the elements of a dead object from a list use it instead of   *)
(* SelectSeq, whose operator argument the proof system cannot take.        *)
(***************************************************************************)
EXTENDS Naturals, Sequences

Increasing(f) == \A i, j \in DOMAIN f : i < j => f[i] < f[j]

Onto(f, I) == \A i \in I : \E j \in DOMAIN f : f[j] = i

\* The sequence of the elements of s at the positions in I, in their order.
Selection(s, I) ==
  {[j \in DOMAIN f |-> s[f[j]]] :
     f \in {g \in UNION {[1..n -> I] : n \in 0..Len(s)} : Increasing(g) /\ Onto(g, I)}}

\* That member.
Selected(s, I) == CHOOSE t \in Selection(s, I) : TRUE
=============================================================================
