---------------------------- MODULE MethodsProofs -----------------------------
(***************************************************************************)
(* Proofs about Methods, for every set of classes, selectors and functions *)
(* and any depth of calls: the tables never answer with anything but the   *)
(* nearest definition.                                                     *)
(***************************************************************************)
EXTENDS Methods, SequenceTheorems, SeqLemmas, TLAPS

-----------------------------------------------------------------------------
(* The inductive invariant.                                                *)

Types ==
  /\ lineage \in [Class -> Seq(Class)]
  /\ methods \in [Class -> [Selector -> Function \cup {NIL}]]
  /\ hashok \subseteq Class
  /\ hashtable \in [Class -> [Selector -> Definition \cup {NIL}]]
  /\ zombies \subseteq Function
  /\ found \in Definition \cup {NIL}

\* A class heads its own lineage, only classes in use are in one, and no final
\* class is below another.
LineageOK ==
  /\ \A c \in Class : Exists(c) => lineage[c][1] = c
  /\ \A c \in Class : \A i \in DOMAIN lineage[c] :
       Exists(lineage[c][i]) /\ (i > 1 => lineage[c][i] \notin Final)

HashokExists == \A c \in hashok : Exists(c)

\* hx of a call that still needs its table is an entry of it.
FrameOK(fr) ==
  /\ Exists(fr.class)
  /\ fr.op = "delete" => fr.phase \in {"body", "next"}
  /\ fr.phase \in {"unknown", "next"} => fr.hx = NIL
  /\ NeedsTable(fr) /\ ~fr.stale =>
       \E s \in Selector : hashtable[lineage[fr.class][fr.level]][s] = fr.hx
  /\ NeedsTable(fr) => fr.level \in DOMAIN lineage[fr.class] /\ fr.hx # NIL

FramesOK(q) == q \in Seq(Frame) /\ \A i \in DOMAIN q : FrameOK(q[i])
StackOK == FramesOK(stack)

DataInv == Types /\ LineageOK /\ HashokExists /\ CacheCoherent
MethodsInv == DataInv /\ StackOK

\* What bread needs: no class is made below a compiled class that is read again.
CompiledAreFinal == Compiled \subseteq Final

-----------------------------------------------------------------------------
(* Lookups.                                                                *)

\* d answers s in class c, stated without a choice.
IsNearest(c, s, d) ==
  \/ d = NIL /\ Defining(c, s) = {}
  \/ \E i \in Defining(c, s) :
       /\ \A j \in Defining(c, s) : i <= j
       /\ d = [function |-> methods[lineage[c][i]][s], owner |-> lineage[c][i]]

LEMMA PositionsAreNaturals ==
  ASSUME Types, NEW c \in Class, NEW s \in Selector
  PROVE  /\ DOMAIN lineage[c] = 1..Len(lineage[c]) /\ Len(lineage[c]) \in Nat
         /\ \A i \in DOMAIN lineage[c] : lineage[c][i] \in Class
         /\ Defining(c, s) \in SUBSET Nat
<1>1. lineage[c] \in Seq(Class)
  BY DEF Types
<1>2. DOMAIN lineage[c] = 1..Len(lineage[c]) /\ Len(lineage[c]) \in Nat
  BY <1>1, LenProperties
<1>3. \A i \in DOMAIN lineage[c] : lineage[c][i] \in Class
  BY <1>1, <1>2, ElementOfSeq
<1> QED BY <1>2, <1>3 DEF Defining

\* A set of positions has one first member.
LEMMA FirstChosen ==
  ASSUME NEW T \in SUBSET Nat, NEW m \in T, \A k \in T : m <= k
  PROVE  m = CHOOSE i \in T : \A j \in T : i <= j
<1>1. \E i \in T : \A j \in T : i <= j
  OBVIOUS
<1>2. ASSUME NEW i \in T, \A j \in T : i <= j PROVE i = m
  BY <1>2
<1> DEFINE n == CHOOSE i \in T : \A j \in T : i <= j
<1>3. n \in T /\ \A j \in T : n <= j
  BY <1>1
<1> HIDE DEF n
<1>4. n = m
  BY <1>2, <1>3
<1> QED BY <1>4 DEF n

\* Nearest is the one answer.
LEMMA NearestIs ==
  ASSUME Types, NEW c \in Class, NEW s \in Selector, NEW d
  PROVE  IsNearest(c, s, d) <=> d = Nearest(c, s)
<1>1. Defining(c, s) \in SUBSET Nat
  BY PositionsAreNaturals
<1>2. CASE Defining(c, s) = {}
  BY <1>2 DEF IsNearest, Nearest
<1>3. CASE Defining(c, s) # {}
  <2>1. PICK m \in Defining(c, s) : \A k \in Defining(c, s) : m <= k
    BY <1>1, <1>3, LeastPosition
  <2>2. m = CHOOSE i \in Defining(c, s) : \A j \in Defining(c, s) : i <= j
    BY <1>1, <2>1, FirstChosen
  <2>3. Nearest(c, s) = [function |-> methods[lineage[c][m]][s], owner |-> lineage[c][m]]
    BY <1>3, <2>2 DEF Nearest
  <2>4. ASSUME NEW i \in Defining(c, s), \A j \in Defining(c, s) : i <= j PROVE i = m
    BY <1>1, <2>1, <2>4
  <2> QED BY <1>3, <2>1, <2>3, <2>4 DEF IsNearest
<1> QED BY <1>2, <1>3

\* The same in the next state.
LEMMA NearestIsNext ==
  ASSUME Types', NEW c \in Class, NEW s \in Selector, NEW d
  PROVE  IsNearest(c, s, d)' <=> d = Nearest(c, s)'
<1>1. (Defining(c, s))' \in SUBSET Nat
  <2>1. lineage'[c] \in Seq(Class)
    BY DEF Types
  <2>2. DOMAIN lineage'[c] = 1..Len(lineage'[c]) /\ Len(lineage'[c]) \in Nat
    BY <2>1, LenProperties
  <2> QED BY <2>2 DEF Defining
<1>2. CASE (Defining(c, s))' = {}
  BY <1>2 DEF IsNearest, Nearest
<1>3. CASE (Defining(c, s))' # {}
  <2>1. PICK m \in (Defining(c, s))' : \A k \in (Defining(c, s))' : m <= k
    BY <1>1, <1>3, LeastPosition
  <2>2. m = CHOOSE i \in (Defining(c, s))' : \A j \in (Defining(c, s))' : i <= j
    BY <1>1, <2>1, FirstChosen
  <2>3. (Nearest(c, s))' =
          [function |-> methods'[lineage'[c][m]][s], owner |-> lineage'[c][m]]
    BY <1>3, <2>2 DEF Nearest
  <2>4. ASSUME NEW i \in (Defining(c, s))', \A j \in (Defining(c, s))' : i <= j PROVE i = m
    BY <1>1, <2>1, <2>4
  <2> QED BY <1>3, <2>1, <2>3, <2>4 DEF IsNearest
<1> QED BY <1>2, <1>3

\* What is found is a definition by a class of the lineage.
LEMMA NearestType ==
  ASSUME Types, NIL \notin Function, NEW c \in Class, NEW s \in Selector
  PROVE  Nearest(c, s) \in Definition \cup {NIL}
<1> DEFINE d == Nearest(c, s)
<1>1. IsNearest(c, s, d)
  BY NearestIs
<1> HIDE DEF d
<1>2. CASE d = NIL
  BY <1>2 DEF d
<1>3. CASE \E i \in Defining(c, s) :
             d = [function |-> methods[lineage[c][i]][s], owner |-> lineage[c][i]]
  <2>1. PICK i \in Defining(c, s) :
               d = [function |-> methods[lineage[c][i]][s], owner |-> lineage[c][i]]
    BY <1>3
  <2>2. lineage[c][i] \in Class /\ methods[lineage[c][i]][s] # NIL
    BY <2>1, PositionsAreNaturals DEF Defining, Living
  <2>3. methods[lineage[c][i]][s] \in Function
    BY <2>2 DEF Types
  <2> QED BY <2>1, <2>2, <2>3 DEF Definition, d
<1> QED BY <1>1, <1>2, <1>3 DEF IsNearest

\* A step that changes neither the lineage of c nor the living methods for s in it
\* keeps the answer.
LEMMA NearestKept ==
  ASSUME Types, Types', NEW c \in Class, NEW s \in Selector,
         lineage'[c] = lineage[c],
         \A i \in DOMAIN lineage[c] :
           /\ Living(methods[lineage[c][i]][s])' <=> Living(methods[lineage[c][i]][s])
           /\ Living(methods[lineage[c][i]][s])
                => methods'[lineage[c][i]][s] = methods[lineage[c][i]][s]
  PROVE  Nearest(c, s)' = Nearest(c, s)
<1>1. (Defining(c, s))' = Defining(c, s)
  BY DEF Defining
<1>2. PICK d : d = Nearest(c, s)
  OBVIOUS
<1>2a. IsNearest(c, s, d)
  BY <1>2, NearestIs
<1>3. IsNearest(c, s, d)'
  <2>1. CASE d = NIL /\ Defining(c, s) = {}
    BY <2>1, <1>1 DEF IsNearest
  <2>2. CASE \E i \in Defining(c, s) :
               /\ \A j \in Defining(c, s) : i <= j
               /\ d = [function |-> methods[lineage[c][i]][s], owner |-> lineage[c][i]]
    <3>1. PICK i \in Defining(c, s) :
               /\ \A j \in Defining(c, s) : i <= j
               /\ d = [function |-> methods[lineage[c][i]][s], owner |-> lineage[c][i]]
      BY <2>2
    <3>2. /\ methods'[lineage'[c][i]][s] = methods[lineage[c][i]][s]
          /\ lineage'[c][i] = lineage[c][i]
      BY <3>1 DEF Defining
    <3> QED BY <1>1, <3>1, <3>2 DEF IsNearest
  <2> QED BY <1>2a, <2>1, <2>2 DEF IsNearest
<1>4. d = Nearest(c, s)'
  BY <1>3, NearestIsNext
<1> QED BY <1>2, <1>4

-----------------------------------------------------------------------------
(* Lookups and changes of methods.                                         *)

SameLiving ==
  \A d \in Class, t \in Selector :
    /\ Living(methods[d][t])' <=> Living(methods[d][t])
    /\ Living(methods[d][t]) => methods'[d][t] = methods[d][t]

LEMMA SameLivingSameNearest ==
  ASSUME Types, Types', SameLiving, UNCHANGED lineage, NEW c \in Class, NEW s \in Selector
  PROVE  Nearest(c, s)' = Nearest(c, s)
<1>1. \A i \in DOMAIN lineage[c] : lineage[c][i] \in Class
  BY PositionsAreNaturals
<1> QED BY <1>1, NearestKept DEF SameLiving

LEMMA SweepIsSilent ==
  ASSUME Types, NEW c \in Class, methods' = Swept(c), UNCHANGED zombies
  PROVE  SameLiving /\ methods' \in [Class -> [Selector -> Function \cup {NIL}]]
<1>1. methods' \in [Class -> [Selector -> Function \cup {NIL}]]
  BY DEF Types, Swept
<1>2. ASSUME NEW d \in Class, NEW t \in Selector
      PROVE  /\ Living(methods[d][t])' <=> Living(methods[d][t])
             /\ Living(methods[d][t]) => methods'[d][t] = methods[d][t]
  <2>1. methods'[d][t] = IF d \in Above(c) /\ ~Living(methods[d][t]) THEN NIL ELSE methods[d][t]
    BY DEF Swept
  <2> QED BY <2>1 DEF Living
<1> QED BY <1>1, <1>2 DEF SameLiving

\* getmethod returns the nearest definition and leaves the tables coherent.
LEMMA GetmethodStep ==
  ASSUME DataInv, NEW c \in Class, NEW s \in Selector, Exists(c), getmethod(c, s),
         UNCHANGED <<lineage, zombies>>
  PROVE  /\ DataInv'
         /\ SameLiving
         /\ found' = Nearest(c, s) /\ found' = hashtable'[c][s]
         /\ Fresh(c, s) => hashtable' = hashtable
         /\ \A d \in Class : d # c => hashtable'[d] = hashtable[d]
<1> USE MethodsAssumption DEF DataInv
<1>1. CASE /\ Fresh(c, s)
           /\ found' = hashtable[c][s]
           /\ UNCHANGED <<methods, hashok, hashtable>>
  <2>1. found' = Nearest(c, s)
    BY <1>1 DEF CacheCoherent, Fresh
  <2>2. Types'
    BY <1>1 DEF Types
  <2>3. SameLiving
    BY <1>1 DEF SameLiving, Living
  <2>4. \A d \in Class, t \in Selector : Nearest(d, t)' = Nearest(d, t)
    BY <2>2, <2>3, SameLivingSameNearest
  <2>5. CacheCoherent'
    BY <1>1, <2>4 DEF CacheCoherent, Types
  <2>6. LineageOK' /\ HashokExists'
    BY <1>1 DEF LineageOK, HashokExists, Exists
  <2> QED BY <1>1, <2>1, <2>2, <2>3, <2>5, <2>6
<1>2. CASE /\ ~Fresh(c, s)
           /\ methods' = Swept(c)
           /\ hashtable' = [hashtable EXCEPT ![c] = [t \in Selector |-> Nearest(c, t)]]
           /\ hashok' = (IF c \in hashok THEN clear_hashok(c) ELSE hashok) \cup {c}
           /\ found' = Nearest(c, s)
  <2>1. SameLiving /\ methods' \in [Class -> [Selector -> Function \cup {NIL}]]
    BY <1>2, SweepIsSilent
  <2>2. \A t \in Selector : Nearest(c, t) \in Definition \cup {NIL}
    BY NearestType
  <2>3. hashok' \subseteq hashok \cup {c}
    BY <1>2 DEF clear_hashok
  <2>4. /\ hashtable' \in [Class -> [Selector -> Definition \cup {NIL}]]
        /\ \A t \in Selector : hashtable'[c][t] = Nearest(c, t)
        /\ \A d \in Class : d # c => hashtable'[d] = hashtable[d]
    BY <1>2, <2>2 DEF Types
  <2>5. Types'
    BY <1>2, <2>1, <2>2, <2>3, <2>4 DEF Types
  <2>6. \A d \in Class, t \in Selector : Nearest(d, t)' = Nearest(d, t)
    BY <2>1, <2>5, SameLivingSameNearest
  <2>7. CacheCoherent'
    <3> SUFFICES ASSUME NEW d \in hashok', NEW t \in Selector
                 PROVE  \/ hashtable'[d][t] = Nearest(d, t)'
                        \/ hashtable'[d][t] # NIL /\ hashtable'[d][t].function \in zombies'
      BY DEF CacheCoherent
    <3>1. d \in Class
      BY <2>5 DEF Types
    <3>2. CASE d = c
      BY <2>4, <2>6, <3>1, <3>2
    <3>3. CASE d # c
      BY <2>3, <2>4, <2>6, <3>1, <3>3 DEF CacheCoherent
    <3> QED BY <3>2, <3>3
  <2>8. LineageOK' /\ HashokExists'
    BY <2>3 DEF LineageOK, HashokExists, Exists
  <2> QED BY <1>2, <2>1, <2>4, <2>5, <2>7, <2>8
<1> QED BY <1>1, <1>2 DEF getmethod

\* (makeclass c super)
LEMMA NewClassData ==
  ASSUME DataInv, NEW c \in Class, NEW super \in Class, new_ooclass(c, super)
  PROVE  DataInv' /\ \A d \in Class : d # c => lineage'[d] = lineage[d]
<1> USE MethodsAssumption DEF DataInv
<1> DEFINE up == lineage[super]
<1>1. up \in Seq(Class) /\ Len(up) \in Nat /\ DOMAIN up = 1..Len(up)
  BY LenProperties DEF Types
<1>2. /\ lineage' = [lineage EXCEPT ![c] = <<c>> \o up]
      /\ ~Exists(c) /\ Exists(super) /\ super \notin Final
      /\ found' = NIL
      /\ UNCHANGED <<methods, hashok, hashtable, zombies>>
  BY DEF new_ooclass
<1>3. /\ <<c>> \o up \in Seq(Class) /\ Len(<<c>> \o up) = Len(up) + 1
      /\ (<<c>> \o up)[1] = c
      /\ \A i \in 2..(Len(up) + 1) : (<<c>> \o up)[i] = up[i - 1]
  BY <1>1, SMTT(60)
<1> HIDE DEF up
<1>4. /\ lineage'[c] = <<c>> \o up
      /\ \A d \in Class : d # c => lineage'[d] = lineage[d]
      /\ lineage' \in [Class -> Seq(Class)]
  BY <1>2, <1>3 DEF Types
<1>5. Types'
  BY <1>2, <1>4 DEF Types
<1>6. \A d \in Class : Exists(d) => Exists(d)'
  BY <1>2, <1>4 DEF Exists
<1>6a. Exists(c)'
  BY <1>1, <1>3, <1>4 DEF Exists
<1>7. LineageOK'
  <2>1. ASSUME NEW d \in Class, d # c
        PROVE  /\ Exists(d)' => lineage'[d][1] = d
               /\ \A i \in DOMAIN lineage'[d] :
                    (Exists(lineage[d][i]))' /\ (i > 1 => lineage'[d][i] \notin Final)
    <3>1. \A i \in DOMAIN lineage[d] : lineage[d][i] \in Class
      BY PositionsAreNaturals DEF Types
    <3>2. lineage'[d] = lineage[d] /\ (Exists(d)' => Exists(d))
      BY <1>4, <2>1 DEF Exists
    <3> QED BY <1>6, <3>1, <3>2 DEF LineageOK
  <2>2. lineage'[c][1] = c
    BY <1>3, <1>4
  <2>3. ASSUME NEW i \in DOMAIN lineage'[c]
        PROVE  (Exists(lineage[c][i]))' /\ (i > 1 => lineage'[c][i] \notin Final)
    <3>1. i \in 1..(Len(up) + 1)
      <4>1. DOMAIN lineage'[c] = 1..Len(lineage'[c])
        BY <1>3, <1>4, LenProperties
      <4> QED BY <1>3, <1>4, <4>1
    <3>2. CASE i = 1
      BY <1>6a, <2>2, <3>2
    <3>3. CASE i # 1
      <4>1. i \in 2..(Len(up) + 1) /\ i - 1 \in 1..Len(up)
        BY <1>1, <3>1, <3>3
      <4>2. lineage'[c][i] = up[i - 1]
        BY <1>3, <1>4, <4>1
      <4>3. up[i - 1] \in Class /\ Exists(up[i - 1])
        BY <1>1, <4>1, ElementOfSeq DEF LineageOK, up
      <4>4. up[i - 1] \notin Final
        <5>1. CASE i - 1 = 1
          BY <1>2, <5>1 DEF LineageOK, up
        <5>2. CASE i - 1 # 1
          BY <1>1, <4>1, <5>2 DEF LineageOK, up
        <5> QED BY <5>1, <5>2
      <4> QED BY <1>6, <4>2, <4>3, <4>4
    <3> QED BY <3>2, <3>3
  <2> QED BY <2>1, <2>2, <2>3 DEF LineageOK
<1>8. c \notin hashok
  BY <1>2 DEF HashokExists
<1>9. ASSUME NEW d \in hashok, NEW t \in Selector PROVE Nearest(d, t)' = Nearest(d, t)
  <2>1. d \in Class /\ lineage'[d] = lineage[d]
    BY <1>4, <1>8 DEF Types
  <2>2. \A k, u : Living(methods[k][u])' <=> Living(methods[k][u])
    BY <1>2 DEF Living
  <2> QED BY <1>2, <1>5, <2>1, <2>2, NearestKept
<1>10. CacheCoherent'
  BY <1>2, <1>9 DEF CacheCoherent
<1>11. HashokExists'
  BY <1>2, <1>6 DEF HashokExists, Types
<1> QED BY <1>4, <1>5, <1>7, <1>10, <1>11

\* (delete f)
LEMMA DeleteFunctionData ==
  ASSUME DataInv, NEW f \in Function, DeleteFunction(f)
  PROVE  DataInv'
<1> USE MethodsAssumption DEF DataInv
<1>1. /\ zombies' = zombies \cup {f} /\ found' = NIL
      /\ UNCHANGED <<lineage, methods, hashok, hashtable>>
  BY DEF DeleteFunction
<1>2. Types'
  BY <1>1 DEF Types
<1>3. ASSUME NEW c \in hashok, NEW s \in Selector, hashtable[c][s] = Nearest(c, s),
             hashtable[c][s] = NIL \/ hashtable[c][s].function # f
      PROVE  hashtable[c][s] = Nearest(c, s)'
  <2>0. c \in Class
    BY DEF Types
  <2>1. PICK d : d = hashtable[c][s]
    OBVIOUS
  <2>2. IsNearest(c, s, d)
    BY <1>3, <2>0, <2>1, NearestIs
  <2>3. (Defining(c, s))' \subseteq Defining(c, s)
    BY <1>1 DEF Defining, Living
  <2>4. IsNearest(c, s, d)'
    <3>1. CASE d = NIL /\ Defining(c, s) = {}
      BY <2>3, <3>1 DEF IsNearest
    <3>2. CASE \E i \in Defining(c, s) :
                 /\ \A j \in Defining(c, s) : i <= j
                 /\ d = [function |-> methods[lineage[c][i]][s], owner |-> lineage[c][i]]
      <4>1. PICK i \in Defining(c, s) :
                 /\ \A j \in Defining(c, s) : i <= j
                 /\ d = [function |-> methods[lineage[c][i]][s], owner |-> lineage[c][i]]
        BY <3>2
      <4>2. /\ lineage[c][i] \in Class /\ Living(methods[lineage[c][i]][s])
            /\ i \in DOMAIN lineage[c]
        BY <2>0, <4>1, PositionsAreNaturals DEF Defining
      <4>3. methods[lineage[c][i]][s] \in Function /\ d.function = methods[lineage[c][i]][s]
        BY <4>1, <4>2 DEF Types, Living
      <4>4. d \in Definition
        BY <4>1, <4>2, <4>3 DEF Definition
      <4>5. d # NIL
        BY <4>4 DEF MethodsAssumption, Definition
      <4>6. methods[lineage[c][i]][s] # f
        BY <1>3, <2>1, <4>3, <4>5
      <4>7. i \in (Defining(c, s))'
        BY <1>1, <4>2, <4>6 DEF Defining, Living
      <4> QED BY <1>1, <2>3, <4>1, <4>7 DEF IsNearest
    <3> QED BY <2>2, <3>1, <3>2 DEF IsNearest
  <2> QED BY <1>2, <2>0, <2>1, <2>4, NearestIsNext
<1>4. CacheCoherent'
  BY <1>1, <1>3 DEF CacheCoherent
<1>5. LineageOK' /\ HashokExists'
  BY <1>1 DEF LineageOK, HashokExists, Exists
<1> QED BY <1>2, <1>4, <1>5

\* The table of a class that no changed class is above stays right.
LEMMA OtherTables ==
  ASSUME DataInv, Types', UNCHANGED <<lineage, hashtable>>, hashok' \subseteq hashok,
         NEW c \in Class, \A d \in hashok' : c \notin Above(d),
         \A k \in Class : k # c => methods'[k] = methods[k],
         NEW v \in Function \cup {NIL},
         zombies' = zombies \/ (zombies' = zombies \ {v} /\ ~Referenced(v))
  PROVE  CacheCoherent' /\ LineageOK' /\ HashokExists'
<1> USE DEF DataInv
<1>1. ASSUME NEW d \in hashok', NEW s \in Selector
      PROVE  \/ hashtable'[d][s] = Nearest(d, s)'
             \/ hashtable'[d][s] # NIL /\ hashtable'[d][s].function \in zombies'
  <2>1. d \in Class /\ d \in hashok
    BY DEF Types
  <2>2. CASE hashtable[d][s] # NIL /\ hashtable[d][s].function \in zombies
    BY <2>1, <2>2 DEF Referenced
  <2>3. CASE hashtable[d][s] = Nearest(d, s)
    <3>1. ASSUME NEW i \in DOMAIN lineage[d]
          PROVE  /\ methods'[lineage[d][i]][s] = methods[lineage[d][i]][s]
                 /\ Living(methods[lineage[d][i]][s])' <=> Living(methods[lineage[d][i]][s])
      <4>1. lineage[d][i] \in Class /\ lineage[d][i] # c
        BY <2>1, PositionsAreNaturals DEF Above
      <4>2. methods'[lineage[d][i]][s] = methods[lineage[d][i]][s]
        BY <4>1
      <4>3. (methods[lineage[d][i]][s])' = methods[lineage[d][i]][s]
        BY <4>2
      <4>4. methods[lineage[d][i]][s] \in zombies' <=> methods[lineage[d][i]][s] \in zombies
        BY <4>1 DEF Referenced
      <4> QED BY <4>2, <4>3, <4>4 DEF Living
    <3>2. Nearest(d, s)' = Nearest(d, s)
      BY <2>1, <3>1, NearestKept
    <3> QED BY <2>3, <3>2
  <2> QED BY <2>1, <2>2, <2>3 DEF CacheCoherent
<1>2. CacheCoherent'
  BY <1>1 DEF CacheCoherent
<1>3. LineageOK' /\ HashokExists'
  BY DEF LineageOK, HashokExists, Exists
<1> QED BY <1>2, <1>3

\* (putmethod c s v)
LEMMA PutmethodData ==
  ASSUME DataInv, NEW c \in Class, NEW s \in Selector, NEW v \in Function \cup {NIL},
         putmethod(c, s, v)
  PROVE  DataInv'
<1> USE MethodsAssumption DEF DataInv
<1>1. /\ hashok' = clear_hashok(c) /\ methods' = [methods EXCEPT ![c][s] = v]
      /\ zombies' = (IF Referenced(v) THEN zombies ELSE zombies \ {v})
      /\ found' = NIL /\ UNCHANGED <<lineage, hashtable>>
  BY DEF putmethod
<1>2. /\ hashok' \subseteq hashok /\ \A d \in hashok' : c \notin Above(d)
  BY <1>1 DEF clear_hashok
<1>3. /\ methods' \in [Class -> [Selector -> Function \cup {NIL}]]
      /\ \A k \in Class : k # c => methods'[k] = methods[k]
  BY <1>1 DEF Types
<1>4. Types'
  BY <1>1, <1>2, <1>3 DEF Types
<1>5. zombies' = zombies \/ (zombies' = zombies \ {v} /\ ~Referenced(v))
  BY <1>1
<1> QED BY <1>1, <1>2, <1>3, <1>4, <1>5, OtherTables

\* (bread) of a class that no other class is below.
LEMMA BreadData ==
  ASSUME CompiledAreFinal, DataInv, NEW c \in Class, NEW s \in Selector,
         NEW f \in Function, bread(c, s, f)
  PROVE  DataInv'
<1> USE MethodsAssumption DEF DataInv
<1>1. /\ methods' = [methods EXCEPT ![c] = [t \in Selector |-> IF t = s THEN f ELSE NIL]]
      /\ hashok' = hashok \ {c} /\ zombies' = zombies \ {f} /\ ~Referenced(f)
      /\ c \in Final
      /\ found' = NIL /\ UNCHANGED <<lineage, hashtable>>
  BY DEF bread, Available, CompiledAreFinal
<1>2. ASSUME NEW d \in hashok' PROVE c \notin Above(d)
  <2>1. d \in Class /\ Exists(d) /\ d # c
    BY <1>1 DEF Types, HashokExists
  <2>2. lineage[d][1] = d
    BY <2>1 DEF LineageOK
  <2>3. \A i \in DOMAIN lineage[d] : i \in Nat /\ i >= 1
    BY <2>1, PositionsAreNaturals
  <2>4. \A i \in DOMAIN lineage[d] : i = 1 \/ lineage[d][i] \notin Final
    BY <2>1, <2>3 DEF LineageOK
  <2> QED BY <1>1, <2>1, <2>2, <2>4 DEF Above
<1>3. /\ methods' \in [Class -> [Selector -> Function \cup {NIL}]]
      /\ \A k \in Class : k # c => methods'[k] = methods[k]
  BY <1>1 DEF Types
<1>4. Types'
  BY <1>1, <1>3 DEF Types
<1>5. hashok' \subseteq hashok
  BY <1>1
<1> QED BY <1>1, <1>2, <1>3, <1>4, <1>5, OtherTables

-----------------------------------------------------------------------------
(* Calls in progress.                                                      *)

\* Classes in use keep their lineage.
LineageGrows == \A c \in Class : Exists(c) => lineage'[c] = lineage[c]

LEMMA FrameKept ==
  ASSUME Types, LineageOK, LineageGrows, UNCHANGED hashtable,
         NEW fr \in Frame, FrameOK(fr)
  PROVE  FrameOK(fr)'
<1>1. fr.class \in Class
  BY DEF Frame
<1>2. lineage'[fr.class] = lineage[fr.class]
  BY <1>1 DEF FrameOK, LineageGrows
<1> QED BY <1>2 DEF FrameOK, NeedsTable, Exists

LEMMA FramesKept ==
  ASSUME Types, LineageOK, LineageGrows, UNCHANGED hashtable, NEW q, FramesOK(q)
  PROVE  FramesOK(q)'
<1>1. q \in Seq(Frame) /\ \A i \in DOMAIN q : q[i] \in Frame
  BY LenProperties, ElementOfSeq DEF FramesOK
<1>2. \A i \in DOMAIN q : FrameOK(q[i])'
  BY <1>1, FrameKept DEF FramesOK
<1> QED BY <1>1, <1>2 DEF FramesOK

LEMMA PoppedOK ==
  ASSUME NEW q, FramesOK(q)', q # <<>>
  PROVE  FramesOK(Pop(q))'
<1>1. q \in Seq(Frame)
  BY DEF FramesOK
<1> DEFINE r == SubSeq(q, 1, Len(q) - 1)
<1>2. r \in Seq(Frame) /\ Len(r) = Len(q) - 1 /\ \A k \in 1..(Len(q) - 1) : r[k] = q[k]
  BY <1>1, FrontProperties
<1>3. Len(q) \in Nat /\ DOMAIN q = 1..Len(q)
  BY <1>1, LenProperties
<1>4. DOMAIN r = 1..(Len(q) - 1)
  BY <1>2, LenProperties
<1>5. \A k \in DOMAIN r : r[k] = q[k] /\ k \in DOMAIN q
  BY <1>2, <1>3, <1>4
<1> HIDE DEF r
<1>6. FramesOK(r)'
  BY <1>2, <1>5 DEF FramesOK
<1> QED BY <1>6 DEF Pop, r

LEMMA AppendedOK ==
  ASSUME NEW q, FramesOK(q)', NEW fr \in Frame, FrameOK(fr)'
  PROVE  FramesOK(Append(q, fr))'
<1>1. q \in Seq(Frame)
  BY DEF FramesOK
<1>2. PICK r : r = Append(q, fr)
  OBVIOUS
<1>3. /\ r \in Seq(Frame)
      /\ \A i \in DOMAIN r : r[i] = fr \/ (i \in DOMAIN q /\ r[i] = q[i])
  BY <1>1, <1>2, AppendProperties
<1>4. FramesOK(r)'
  BY <1>3 DEF FramesOK
<1> QED BY <1>2, <1>4

LEMMA StackIs ==
  ASSUME NEW q, stack' = q, FramesOK(q)'
  PROVE  StackOK'
BY DEF StackOK, FramesOK

\* Changes of methods only mark the calls.
LEMMA DisturbedOK ==
  ASSUME Types, LineageOK, StackOK, LineageGrows, UNCHANGED hashtable,
         NEW q, q = Disturbed
  PROVE  FramesOK(q)'
<1>1. stack \in Seq(Frame) /\ Len(stack) \in Nat /\ DOMAIN stack = 1..Len(stack)
  BY LenProperties DEF StackOK, FramesOK
<1>2. ASSUME NEW i \in DOMAIN stack
      PROVE  q[i] \in Frame /\ FrameOK(q[i])'
  <2>1. stack[i] \in Frame
    BY <1>1, ElementOfSeq
  <2>2. FrameOK(stack[i])
    BY DEF StackOK, FramesOK
  <2>3. q[i] = [stack[i] EXCEPT !.steady = (stack[i].op = "send")]
    BY DEF Disturbed
  <2>4. (stack[i].op = "send") \in BOOLEAN
    OBVIOUS
  <2>5. q[i] \in Frame
    BY <2>1, <2>3, <2>4 DEF Frame
  <2>6. /\ q[i].class = stack[i].class /\ q[i].phase = stack[i].phase /\ q[i].hx = stack[i].hx
        /\ q[i].op = stack[i].op /\ q[i].stale = stack[i].stale /\ q[i].level = stack[i].level
    BY <2>1, <2>3 DEF Frame
  <2>7. FrameOK(q[i])
    BY <2>2, <2>6 DEF FrameOK, NeedsTable
  <2> QED BY <2>5, <2>7, FrameKept
<1>3. q = [i \in 1..Len(stack) |-> q[i]]
  BY <1>1 DEF Disturbed
<1>4. DOMAIN q = DOMAIN stack
  BY <1>1, <1>3
<1>5. q \in Seq(Frame)
  <2>1. \A i \in 1..Len(stack) : q[i] \in Frame
    BY <1>1, <1>2
  <2> QED BY ONLY <1>1, <1>3, <2>1, SeqDef
<1> QED BY <1>2, <1>4, <1>5 DEF FramesOK

\* Neither does the end of a function's body change what the calls need.
LEMMA TornShape ==
  ASSUME NEW q \in Seq(Frame), NEW f, NEW r, r = Torn(q, f)
  PROVE  /\ r \in Seq(Frame) /\ DOMAIN r = DOMAIN q
         /\ \A i \in DOMAIN q :
              /\ q[i] \in Frame /\ r[i] \in Frame
              /\ (~r[i].torn => ~q[i].torn /\ ~(q[i].phase = "body" /\ q[i].hx.function = f))
              /\ \/ r[i] = q[i]
                 \/ r[i] = [q[i] EXCEPT !.torn = TRUE]
<1>1. Len(q) \in Nat /\ DOMAIN q = 1..Len(q)
  BY LenProperties
<1>2. ASSUME NEW i \in DOMAIN q
      PROVE  /\ q[i] \in Frame /\ r[i] \in Frame
             /\ (~r[i].torn => ~q[i].torn /\ ~(q[i].phase = "body" /\ q[i].hx.function = f))
             /\ \/ r[i] = q[i]
                \/ r[i] = [q[i] EXCEPT !.torn = TRUE]
  <2>1. q[i] \in Frame
    BY <1>1, ElementOfSeq
  <2>2. r[i] = IF q[i].phase = "body" /\ q[i].hx.function = f
               THEN [q[i] EXCEPT !.torn = TRUE] ELSE q[i]
    BY DEF Torn
  <2> QED BY <2>1, <2>2 DEF Frame
<1>3. r = [i \in 1..Len(q) |-> r[i]]
  BY <1>1 DEF Torn
<1>4. DOMAIN r = DOMAIN q
  BY <1>1, <1>3
<1>5. \A i \in 1..Len(q) : r[i] \in Frame
  BY <1>1, <1>2
<1>6. r \in Seq(Frame)
  BY ONLY <1>1, <1>3, <1>5, SeqDef
<1> QED BY <1>2, <1>4, <1>6

LEMMA TornSame ==
  ASSUME NEW q \in Seq(Frame), NEW f, NEW r, r = Torn(q, f), NEW i \in DOMAIN q
  PROVE  /\ r[i].op = q[i].op /\ r[i].phase = q[i].phase /\ r[i].class = q[i].class
         /\ r[i].level = q[i].level /\ r[i].hx = q[i].hx /\ r[i].stale = q[i].stale
         /\ r[i].ran = q[i].ran /\ r[i].steady = q[i].steady
<1>1. q[i] \in Frame /\ (r[i] = q[i] \/ r[i] = [q[i] EXCEPT !.torn = TRUE])
  BY TornShape
<1> QED BY <1>1 DEF Frame

LEMMA TornOK ==
  ASSUME NEW q, FramesOK(q)', NEW f, NEW r, r = Torn(q, f)
  PROVE  FramesOK(r)'
<1>1. q \in Seq(Frame) /\ \A i \in DOMAIN q : FrameOK(q[i])'
  BY DEF FramesOK
<1>2. r \in Seq(Frame) /\ DOMAIN r = DOMAIN q
  BY <1>1, TornShape
<1>3. ASSUME NEW i \in DOMAIN r PROVE FrameOK(r[i])'
  BY <1>1, <1>2, TornSame DEF FrameOK, NeedsTable
<1> QED BY <1>2, <1>3 DEF FramesOK

LEMMA DisturbedSeq ==
  ASSUME StackOK, NEW q, q = Disturbed
  PROVE  /\ q \in Seq(Frame) /\ DOMAIN q = DOMAIN stack
         /\ \A i \in DOMAIN q : /\ stack[i] \in Frame
                                /\ q[i] = [stack[i] EXCEPT !.steady = (stack[i].op = "send")]
<1>1. stack \in Seq(Frame) /\ Len(stack) \in Nat /\ DOMAIN stack = 1..Len(stack)
  BY LenProperties DEF StackOK, FramesOK
<1>2. q = [i \in 1..Len(stack) |-> q[i]] /\ DOMAIN q = DOMAIN stack
  BY <1>1 DEF Disturbed
<1>3. \A i \in DOMAIN q : /\ stack[i] \in Frame
                         /\ q[i] = [stack[i] EXCEPT !.steady = (stack[i].op = "send")]
  BY <1>1, <1>2, ElementOfSeq DEF Disturbed
<1>4. ASSUME NEW i \in 1..Len(stack) PROVE q[i] \in Frame
  <2>1. (stack[i].op = "send") \in BOOLEAN
    OBVIOUS
  <2>2. stack[i] \in Frame /\ q[i] = [stack[i] EXCEPT !.steady = (stack[i].op = "send")]
    BY <1>1, <1>2, <1>3
  <2> QED BY <2>1, <2>2 DEF Frame
<1>5. \A i \in 1..Len(stack) : q[i] \in Frame
  BY <1>4
<1> QED BY ONLY <1>1, <1>2, <1>3, <1>5, SeqDef

\* A lookup marks the calls whose table it replaces.
LEMMA CallsOK ==
  ASSUME DataInv, StackOK, NEW c \in Class, NEW s \in Selector, Exists(c), getmethod(c, s),
         UNCHANGED <<lineage, zombies>>, NEW q, q = Calls(c, s)
  PROVE  FramesOK(q)' /\ Len(q) = Len(stack)
<1>1. /\ Fresh(c, s) => hashtable' = hashtable
      /\ \A d \in Class : d # c => hashtable'[d] = hashtable[d]
  BY GetmethodStep
<1>2. Types /\ LineageOK /\ LineageGrows
  BY DEF DataInv, LineageGrows
<1>3. CASE Fresh(c, s)
  BY <1>1, <1>2, <1>3, FramesKept DEF Calls, StackOK
<1>4. CASE ~Fresh(c, s)
  <2>1. stack \in Seq(Frame) /\ Len(stack) \in Nat /\ DOMAIN stack = 1..Len(stack)
    BY LenProperties DEF StackOK, FramesOK
  <2>2. q = [i \in 1..Len(stack) |-> q[i]] /\ DOMAIN q = DOMAIN stack
    BY <1>4, <2>1 DEF Calls, Freed
  <2>3. ASSUME NEW i \in DOMAIN stack
        PROVE  q[i] \in Frame /\ FrameOK(q[i])'
    <3>1. stack[i] \in Frame
      BY <2>1, ElementOfSeq
    <3>2. FrameOK(stack[i])
      BY DEF StackOK, FramesOK
    <3>3. CASE NeedsTable(stack[i]) /\ lineage[stack[i].class][stack[i].level] = c
      <4>1. q[i] = [stack[i] EXCEPT !.stale = TRUE, !.steady = (stack[i].op = "send")]
        BY <1>4, <3>3 DEF Calls, Freed
      <4>2. (stack[i].op = "send") \in BOOLEAN
        OBVIOUS
      <4>3. q[i] \in Frame
        BY <3>1, <4>1, <4>2 DEF Frame
      <4>4. /\ q[i].class = stack[i].class /\ q[i].phase = stack[i].phase /\ q[i].hx = stack[i].hx
            /\ q[i].op = stack[i].op /\ q[i].stale = TRUE /\ q[i].level = stack[i].level
        BY <3>1, <4>1 DEF Frame
      <4> QED BY <3>2, <4>3, <4>4 DEF FrameOK, NeedsTable, Exists
    <3>4. CASE ~(NeedsTable(stack[i]) /\ lineage[stack[i].class][stack[i].level] = c)
      <4>1. q[i] = stack[i]
        BY <1>4, <3>4 DEF Calls, Freed
      <4>2. CASE ~NeedsTable(stack[i])
        BY <3>1, <3>2, <4>1, <4>2 DEF FrameOK, NeedsTable, Exists
      <4>3. CASE NeedsTable(stack[i])
        <5>1. stack[i].class \in Class
          BY <3>1 DEF Frame
        <5>2. lineage[stack[i].class][stack[i].level] \in Class
          BY <1>2, <3>2, <4>3, <5>1, PositionsAreNaturals DEF FrameOK
        <5>3. hashtable'[lineage[stack[i].class][stack[i].level]]
                = hashtable[lineage[stack[i].class][stack[i].level]]
          BY <1>1, <3>4, <4>3, <5>2
        <5> QED BY <3>1, <3>2, <4>1, <5>3 DEF FrameOK, NeedsTable, Exists
      <4> QED BY <4>2, <4>3
    <3> QED BY <3>3, <3>4
  <2>4. q \in Seq(Frame)
    <3>1. \A i \in 1..Len(stack) : q[i] \in Frame
      BY <2>1, <2>3
    <3> QED BY ONLY <2>1, <2>2, <3>1, SeqDef
  <2>5. Len(q) = Len(stack)
    BY <2>1, <2>2, <2>4, LenProperties
  <2> QED BY <2>2, <2>3, <2>4, <2>5 DEF FramesOK
<1> QED BY <1>3, <1>4

\* The innermost call.
LEMMA TopFrame ==
  ASSUME StackOK, stack # <<>>
  PROVE  /\ stack \in Seq(Frame) /\ Len(stack) \in DOMAIN stack
         /\ Top \in Frame /\ FrameOK(Top)
<1>1. stack \in Seq(Frame) /\ \A i \in DOMAIN stack : FrameOK(stack[i])
  BY DEF StackOK, FramesOK
<1>2. Len(stack) \in Nat \ {0} /\ stack[Len(stack)] \in Frame /\ DOMAIN stack = 1..Len(stack)
  BY <1>1, FrontProperties, LenProperties
<1> QED BY <1>1, <1>2 DEF Top

LEMMA EmptyOK == FramesOK(<<>>)'
BY DEF FramesOK

\* A message that finds a function starts with its arguments.
LEMMA SendingOK ==
  ASSUME DataInv, DataInv', NEW c \in Class, NEW s \in Selector, Exists(c), UNCHANGED lineage,
         NEW hx \in Definition \cup {NIL}, hx = hashtable'[c][s],
         NEW phase \in {"args", "unknown"}, phase = "args" <=> hx # NIL
  PROVE  Sending(c, phase, hx) \in Frame /\ FrameOK(Sending(c, phase, hx))'
<1>1. <<>> \in Seq(Function \cup {NIL})
  OBVIOUS
<1>2. Sending(c, phase, hx) \in Frame
  BY <1>1 DEF Sending, Frame
<1>3. lineage[c][1] = c /\ 1 \in DOMAIN lineage[c]
  <2>1. lineage[c] # <<>> /\ lineage[c] \in Seq(Class)
    BY DEF Exists, DataInv, Types
  <2>2. 1 \in DOMAIN lineage[c]
    BY <2>1, FrontProperties, LenProperties
  <2> QED BY <2>2 DEF DataInv, LineageOK
<1> QED BY <1>2, <1>3 DEF FrameOK, Sending, NeedsTable, Exists

\* What the calls of lisp code leave.
LEMMA StepOnlyStack ==
  ASSUME DataInv, found' = NIL, UNCHANGED <<zombies, lineage, methods, hashok, hashtable>>
  PROVE  DataInv' /\ \A q : FramesOK(q) => FramesOK(q)'
<1> USE DEF DataInv
<1>1. Types'
  BY DEF Types
<1>2. \A c \in Class, s \in Selector : Nearest(c, s)' = Nearest(c, s)
  BY DEF Nearest, Defining, Living
<1>3. CacheCoherent'
  BY <1>2 DEF CacheCoherent, Types
<1>4. LineageOK' /\ HashokExists'
  BY DEF LineageOK, HashokExists, Exists
<1>5. LineageGrows
  BY DEF LineageGrows
<1> QED BY <1>1, <1>3, <1>4, <1>5, FramesKept

-----------------------------------------------------------------------------
(* Every step keeps the invariant.                                         *)

LEMMA LispStep ==
  ASSUME CompiledAreFinal, MethodsInv,
         \/ \E c, super \in Class : new_ooclass(c, super)
         \/ \E f \in Function : DeleteFunction(f)
         \/ \E c \in Class, s \in Selector :
              \/ \E v \in Function \cup {NIL} : putmethod(c, s, v)
              \/ \E f \in Function : bread(c, s, f)
  PROVE  MethodsInv'
<1> USE DEF MethodsInv
<1>0. Types /\ LineageOK
  BY DEF DataInv
<1>1. ASSUME NEW c \in Class, NEW super \in Class, new_ooclass(c, super)
      PROVE  MethodsInv'
  <2>1. DataInv' /\ \A d \in Class : d # c => lineage'[d] = lineage[d]
    BY <1>1, NewClassData
  <2>2. LineageGrows /\ UNCHANGED hashtable /\ stack' = stack
    BY <1>1, <2>1 DEF LineageGrows, new_ooclass
  <2>3. PICK q : q = stack
    OBVIOUS
  <2>4. FramesOK(q)'
    BY <1>0, <2>2, <2>3, FramesKept DEF StackOK
  <2> QED BY <2>1, <2>2, <2>3, <2>4, StackIs
<1>2. ASSUME UNCHANGED <<lineage, hashtable>>, stack' = Disturbed
      PROVE  StackOK'
  <2>1. PICK q : q = Disturbed
    OBVIOUS
  <2>2. LineageGrows
    BY <1>2 DEF LineageGrows
  <2>3. FramesOK(q)'
    BY <1>0, <1>2, <2>1, <2>2, DisturbedOK
  <2> QED BY <1>2, <2>1, <2>3, StackIs
<1>3. ASSUME NEW f \in Function, DeleteFunction(f)
      PROVE  MethodsInv'
  <2>1. DataInv'
    BY <1>3, DeleteFunctionData
  <2>2. PICK q : q = Disturbed
    OBVIOUS
  <2>3. PICK r : r = Torn(q, f)
    OBVIOUS
  <2>4. UNCHANGED <<lineage, hashtable>> /\ stack' = r
    BY <1>3, <2>2, <2>3 DEF DeleteFunction
  <2>5. LineageGrows
    BY <2>4 DEF LineageGrows
  <2>6. FramesOK(q)'
    BY <1>0, <2>2, <2>4, <2>5, DisturbedOK
  <2>7. FramesOK(r)'
    BY <2>3, <2>6, TornOK
  <2> QED BY <2>1, <2>4, <2>7, StackIs
<1>4. ASSUME NEW c \in Class, NEW s \in Selector, NEW v \in Function \cup {NIL},
             putmethod(c, s, v)
      PROVE  MethodsInv'
  <2>1. DataInv'
    BY <1>4, PutmethodData
  <2> QED BY <1>2, <1>4, <2>1 DEF putmethod
<1>5. ASSUME NEW c \in Class, NEW s \in Selector, NEW f \in Function, bread(c, s, f)
      PROVE  MethodsInv'
  <2>1. DataInv'
    BY <1>5, BreadData
  <2> QED BY <1>2, <1>5, <2>1 DEF bread
<1> QED BY <1>1, <1>3, <1>4, <1>5

\* What a step that looks s up in class c may do to the stack.
LEMMA LookupStep ==
  ASSUME MethodsInv, NEW c \in Class, NEW s \in Selector, Exists(c), getmethod(c, s),
         UNCHANGED <<lineage, zombies>>, NEW q, q = Calls(c, s)
  PROVE  /\ DataInv' /\ SameLiving
         /\ found' = Nearest(c, s) /\ found' = hashtable'[c][s]
         /\ FramesOK(q)' /\ (stack # <<>> => q # <<>>)
<1>1. /\ DataInv' /\ SameLiving
      /\ found' = Nearest(c, s) /\ found' = hashtable'[c][s]
  BY GetmethodStep DEF MethodsInv
<1>2. FramesOK(q)' /\ Len(q) = Len(stack)
  BY CallsOK DEF MethodsInv
<1>3. stack # <<>> => q # <<>>
  <2>1. stack \in Seq(Frame)
    BY DEF MethodsInv, StackOK, FramesOK
  <2>2. stack # <<>> => Len(stack) # 0
    BY <2>1, EmptySeq
  <2> QED BY <1>2, <2>2
<1> QED BY <1>1, <1>2, <1>3

LEMMA ChecksendStep ==
  ASSUME MethodsInv, NEW c \in Class, NEW s \in Selector, checksend(c, s)
  PROVE  MethodsInv'
<1>1. PICK q : q = Calls(c, s)
  OBVIOUS
<1>2. Exists(c) /\ getmethod(c, s) /\ stack' = q /\ UNCHANGED <<lineage, zombies>>
  BY <1>1 DEF checksend
<1>3. DataInv' /\ FramesOK(q)'
  BY <1>1, <1>2, LookupStep
<1> QED BY <1>2, <1>3, StackIs DEF MethodsInv

LEMMA SendStep ==
  ASSUME MethodsInv, NEW c \in Class, NEW s \in Selector, send_message(c, s)
  PROVE  MethodsInv'
<1>1. PICK q : q = Calls(c, s)
  OBVIOUS
<1>2. Exists(c) /\ getmethod(c, s) /\ UNCHANGED <<lineage, zombies>>
  BY DEF send_message
<1>3. DataInv' /\ FramesOK(q)' /\ found' = hashtable'[c][s]
  BY <1>1, <1>2, LookupStep
<1>4. PICK hx : hx = found'
  OBVIOUS
<1>5. PICK phase : phase = IF hx = NIL THEN "unknown" ELSE "args"
  OBVIOUS
<1>6. hx \in Definition \cup {NIL}
  BY <1>3, <1>4 DEF DataInv, Types
<1>7. PICK fr : fr = Sending(c, phase, hx)
  OBVIOUS
<1>8. fr \in Frame /\ FrameOK(fr)'
  BY <1>2, <1>3, <1>4, <1>5, <1>6, <1>7, SendingOK DEF MethodsInv
<1>9. FramesOK(Append(q, fr))'
  BY <1>3, <1>8, AppendedOK
<1>10. stack' = Append(q, fr)
  BY <1>1, <1>4, <1>5, <1>7 DEF send_message
<1> QED BY <1>3, <1>9, <1>10, StackIs DEF MethodsInv

LEMMA SendUnknownStep ==
  ASSUME MethodsInv, SendUnknown
  PROVE  MethodsInv'
<1>1. PICK c : c = Top.class
  OBVIOUS
<1>2. stack # <<>> /\ Top \in Frame /\ FrameOK(Top)
  BY TopFrame DEF SendUnknown, MethodsInv
<1>3. c \in Class /\ Exists(c) /\ unknown \in Selector
  BY <1>1, <1>2, MethodsAssumption DEF Frame, FrameOK
<1>4. PICK q : q = Calls(c, unknown)
  OBVIOUS
<1>5. getmethod(c, unknown) /\ UNCHANGED <<lineage, zombies>>
  BY <1>1 DEF SendUnknown
<1>6. DataInv' /\ FramesOK(q)' /\ found' = hashtable'[c][unknown] /\ q # <<>>
  BY <1>2, <1>3, <1>4, <1>5, LookupStep
<1>7. CASE found' = NIL
  BY <1>6, <1>7, EmptyOK, StackIs DEF SendUnknown, MethodsInv
<1>8. CASE found' # NIL
  <2>1. PICK hx : hx = found'
    OBVIOUS
  <2>2. hx \in Definition \cup {NIL} /\ hx # NIL
    BY <1>6, <1>8, <2>1 DEF DataInv, Types
  <2>3. PICK fr : fr = Sending(c, "args", hx)
    OBVIOUS
  <2>4. fr \in Frame /\ FrameOK(fr)'
    BY <1>3, <1>5, <1>6, <2>1, <2>2, <2>3, SendingOK DEF MethodsInv
  <2>5. PICK r : r = Pop(q)
    OBVIOUS
  <2>6. FramesOK(r)'
    BY <1>6, <2>5, PoppedOK
  <2>7. FramesOK(Append(r, fr))'
    BY <2>4, <2>6, AppendedOK
  <2>8. stack' = Append(r, fr)
    BY <1>1, <1>4, <1>8, <2>1, <2>3, <2>5 DEF SendUnknown
  <2> QED BY <1>6, <2>7, <2>8, StackIs DEF MethodsInv
<1> QED BY <1>7, <1>8

\* Calls that return, deletions that begin, errors.
LEMMA ReturnStep ==
  ASSUME MethodsInv,
         \/ ApplyMethod \/ MethodReturns \/ LispError \/ DestructorsEnd \/ DestructorReturns
         \/ \E c \in Class : Delete(c)
  PROVE  MethodsInv'
<1>1. found' = NIL /\ UNCHANGED <<zombies, lineage, methods, hashok, hashtable>>
  BY DEF ApplyMethod, MethodReturns, LispError, DestructorsEnd, DestructorReturns, Delete
<1>2. DataInv' /\ \A q : FramesOK(q) => FramesOK(q)'
  BY <1>1, StepOnlyStack DEF MethodsInv
<1>3. PICK q : q = stack
  OBVIOUS
<1>4. FramesOK(q)'
  BY <1>2, <1>3 DEF MethodsInv, StackOK
<1>5. PICK t : t = Top
  OBVIOUS
<1>6. stack # <<>> => t \in Frame /\ FrameOK(t)
  BY <1>5, TopFrame DEF MethodsInv
<1>7. PICK r : r = Pop(q)
  OBVIOUS
<1>8. stack # <<>> => FramesOK(r)'
  BY <1>3, <1>4, <1>7, PoppedOK
<1>9. ASSUME NEW p, stack' = p, FramesOK(p)' PROVE MethodsInv'
  BY <1>2, <1>9, StackIs DEF MethodsInv
<1>10. CASE MethodReturns \/ DestructorsEnd
  <2>1. stack # <<>> /\ stack' = r
    BY <1>3, <1>7, <1>10 DEF MethodReturns, DestructorsEnd
  <2> QED BY <1>8, <1>9, <2>1
<1>11. CASE LispError
  BY <1>9, <1>11, EmptyOK DEF LispError
<1>12. CASE ApplyMethod
  <2>1. stack # <<>> /\ t.phase = "args"
    BY <1>5, <1>12 DEF ApplyMethod
  <2>2. PICK fr : fr = [t EXCEPT !.phase = "body", !.stale = FALSE]
    OBVIOUS
  <2>3. fr \in Frame /\ fr.phase = "body" /\ fr.op = t.op /\ fr.class = t.class
    BY <1>6, <2>1, <2>2 DEF Frame
  <2>4. fr.op # "delete" /\ Exists(fr.class)
    BY <1>6, <2>1, <2>3 DEF FrameOK
  <2>5. FrameOK(fr)'
    BY <1>1, <2>3, <2>4 DEF FrameOK, NeedsTable, Exists
  <2>6. FramesOK(Append(r, fr))'
    BY <1>8, <2>1, <2>3, <2>5, AppendedOK
  <2>7. stack' = Append(r, fr) \/ stack' = <<>>
    BY <1>3, <1>5, <1>7, <1>12, <2>2 DEF ApplyMethod
  <2> QED BY <1>9, <2>6, <2>7, EmptyOK
<1>13. CASE DestructorReturns
  <2>1. stack # <<>> /\ t.phase = "body" /\ t.op = "delete"
    BY <1>5, <1>13 DEF DestructorReturns
  <2>2. PICK f \in Function \cup {NIL} :
          stack' = Append(r, [t EXCEPT !.phase = "next", !.level = @ + 1, !.hx = NIL,
                                       !.stale = FALSE, !.torn = FALSE, !.ran = Append(@, f)])
    <3>1. ~t.stale => t.hx \in Definition
      BY <1>6, <2>1 DEF FrameOK, NeedsTable, Frame
    <3>2. (IF t.stale THEN Function \cup {NIL} ELSE {t.hx.function}) \subseteq Function \cup {NIL}
      BY <3>1 DEF Definition
    <3>3. PICK f \in IF t.stale THEN Function \cup {NIL} ELSE {t.hx.function} :
          stack' = Append(r, [t EXCEPT !.phase = "next", !.level = @ + 1, !.hx = NIL,
                                       !.stale = FALSE, !.torn = FALSE, !.ran = Append(@, f)])
      BY <1>3, <1>5, <1>7, <1>13 DEF DestructorReturns
    <3> QED BY <3>2, <3>3
  <2>3. PICK fr : fr = [t EXCEPT !.phase = "next", !.level = @ + 1, !.hx = NIL,
                                 !.stale = FALSE, !.torn = FALSE, !.ran = Append(@, f)]
    OBVIOUS
  <2>4. Append(t.ran, f) \in Seq(Function \cup {NIL})
    BY <1>6, <2>1, AppendProperties DEF Frame
  <2>5. /\ fr \in Frame /\ fr.phase = "next" /\ fr.class = t.class /\ fr.hx = NIL
    <3>1. t.level + 1 \in Nat \ {0}
      BY <1>6, <2>1 DEF Frame
    <3>2. fr = [op |-> t.op, phase |-> "next", class |-> t.class, level |-> t.level + 1,
                hx |-> NIL, stale |-> FALSE, torn |-> FALSE, ran |-> Append(t.ran, f), steady |-> t.steady]
      BY <1>6, <2>1, <2>3 DEF Frame
    <3> QED BY <1>6, <2>1, <2>4, <3>1, <3>2 DEF Frame
  <2>6. FrameOK(fr)'
    BY <1>1, <1>6, <2>1, <2>5 DEF FrameOK, NeedsTable, Exists
  <2>7. FramesOK(Append(r, fr))'
    BY <1>8, <2>1, <2>5, <2>6, AppendedOK
  <2> QED BY <1>9, <2>2, <2>3, <2>7
<1>14. ASSUME NEW c \in Class, Delete(c) PROVE MethodsInv'
  <2>1. PICK fr : fr = [op |-> "delete", phase |-> "next", class |-> c, level |-> 1,
                        hx |-> NIL, stale |-> FALSE, torn |-> FALSE, ran |-> <<>>, steady |-> TRUE]
    OBVIOUS
  <2>2. <<>> \in Seq(Function \cup {NIL})
    OBVIOUS
  <2>3. fr \in Frame
    BY <2>1, <2>2 DEF Frame
  <2>4. FrameOK(fr)'
    BY <1>1, <1>14, <2>1 DEF FrameOK, NeedsTable, Exists, Delete
  <2>5. FramesOK(Append(q, fr))'
    BY <1>4, <2>3, <2>4, AppendedOK
  <2>6. stack' = Append(q, fr)
    BY <1>3, <1>14, <2>1 DEF Delete
  <2> QED BY <1>9, <2>5, <2>6
<1> QED BY <1>10, <1>11, <1>12, <1>13, <1>14

\* The class that send_delete looks at next.
LEMMA NextClass ==
  ASSUME MethodsInv, stack # <<>>, Top.level <= Len(lineage[Top.class])
  PROVE  /\ Top \in Frame /\ FrameOK(Top) /\ Top.level \in DOMAIN lineage[Top.class]
         /\ lineage[Top.class][Top.level] \in Class
         /\ Exists(lineage[Top.class][Top.level])
<1>1. Top \in Frame /\ FrameOK(Top)
  BY TopFrame DEF MethodsInv
<1>2. Top.class \in Class /\ Top.level \in Nat \ {0}
  BY <1>1 DEF Frame
<1>3. Top.level \in DOMAIN lineage[Top.class]
  <2>1. DOMAIN lineage[Top.class] = 1..Len(lineage[Top.class]) /\ Len(lineage[Top.class]) \in Nat
    BY <1>2, MethodsAssumption, PositionsAreNaturals DEF MethodsInv, DataInv
  <2> QED BY <1>2, <2>1
<1>4. lineage[Top.class][Top.level] \in Class
  BY <1>2, <1>3, MethodsAssumption, PositionsAreNaturals DEF MethodsInv, DataInv
<1> QED BY <1>1, <1>2, <1>3, <1>4 DEF MethodsInv, DataInv, LineageOK

LEMMA DestructorStep ==
  ASSUME MethodsInv, NextDestructor \/ DestructorsBreak
  PROVE  MethodsInv'
<1>1. PICK t : t = Top
  OBVIOUS
<1>2. PICK k : k = lineage[t.class][t.level]
  OBVIOUS
<1>3. /\ stack # <<>> /\ t.phase = "next" /\ t.level <= Len(lineage[t.class])
      /\ getmethod(k, destroy) /\ UNCHANGED <<lineage, zombies>>
  BY <1>1, <1>2 DEF NextDestructor, DestructorsBreak
<1>4. t \in Frame /\ FrameOK(t) /\ t.level \in DOMAIN lineage[t.class] /\ k \in Class /\ Exists(k)
  BY <1>1, <1>2, <1>3, NextClass
<1>5. destroy \in Selector
  BY MethodsAssumption
<1>6. PICK q : q = Calls(k, destroy)
  OBVIOUS
<1>7. DataInv' /\ FramesOK(q)' /\ found' = hashtable'[k][destroy] /\ q # <<>>
  BY <1>3, <1>4, <1>5, <1>6, LookupStep
<1>8. PICK r : r = Pop(q)
  OBVIOUS
<1>9. FramesOK(r)'
  BY <1>7, <1>8, PoppedOK
<1>10. CASE DestructorsBreak
  <2>1. stack' = r
    BY <1>1, <1>2, <1>6, <1>8, <1>10 DEF DestructorsBreak
  <2> QED BY <1>7, <1>9, <2>1, StackIs DEF MethodsInv
<1>11. CASE NextDestructor
  <2>1. PICK hx : hx = found'
    OBVIOUS
  <2>2. hx # NIL /\ hx \in Definition \cup {NIL}
    BY <1>7, <1>11, <2>1 DEF DataInv, Types, NextDestructor
  <2>3. PICK fr : fr = IF hx.function = LastRan(t.ran) THEN [t EXCEPT !.level = @ + 1]
                       ELSE [t EXCEPT !.phase = "body", !.hx = hx, !.stale = FALSE]
    OBVIOUS
  <2>4. stack' = Append(r, fr)
    <3>1. stack' = Append(Pop(Calls(k, destroy)),
                     IF hx.function = LastRan(t.ran) THEN [t EXCEPT !.level = @ + 1]
                     ELSE [t EXCEPT !.phase = "body", !.hx = hx, !.stale = FALSE])
      <4>1. stack' = Append(Pop(Calls(lineage[Top.class][Top.level], destroy)),
                       IF found'.function = LastRan(Top.ran) THEN [Top EXCEPT !.level = @ + 1]
                       ELSE [Top EXCEPT !.phase = "body", !.hx = found', !.stale = FALSE])
        BY ONLY <1>11 DEF NextDestructor
      <4> QED BY ONLY <1>1, <1>2, <2>1, <4>1
    <3> QED BY <1>6, <1>8, <2>3, <3>1
  <2>5. fr \in Frame /\ FrameOK(fr)'
    <3>1. CASE fr = [t EXCEPT !.level = @ + 1]
      <4>1. fr \in Frame /\ fr.phase = "next" /\ fr.class = t.class /\ fr.hx = t.hx
        BY <1>3, <1>4, <3>1 DEF Frame
      <4> QED BY <1>3, <1>4, <4>1 DEF FrameOK, NeedsTable, Exists
    <3>2. CASE fr = [t EXCEPT !.phase = "body", !.hx = hx, !.stale = FALSE]
      <4>1. /\ fr \in Frame /\ fr.phase = "body" /\ fr.class = t.class /\ fr.hx = hx
            /\ fr.level = t.level
        BY <1>4, <2>2, <3>2 DEF Frame
      <4>2. hashtable'[lineage'[fr.class][fr.level]][destroy] = hx
        BY <1>2, <1>3, <1>7, <2>1, <4>1
      <4> QED BY <1>3, <1>4, <1>5, <2>2, <4>1, <4>2 DEF FrameOK, NeedsTable, Exists
    <3> QED BY <2>3, <3>1, <3>2
  <2>6. FramesOK(Append(r, fr))'
    BY <1>9, <2>5, AppendedOK
  <2> QED BY <1>7, <2>4, <2>6, StackIs DEF MethodsInv
<1> QED BY <1>10, <1>11

\* What Init makes true.
LEMMA InitHolds ==
  ASSUME Init
  PROVE  MethodsInv
<1> USE MethodsAssumption DEF Init
<1>1. Types
  BY DEF Types
<1>2. LineageOK /\ HashokExists /\ CacheCoherent
  BY DEF LineageOK, HashokExists, CacheCoherent, Exists
<1>3. StackOK
  BY DEF StackOK, FramesOK
<1> QED BY <1>1, <1>2, <1>3 DEF MethodsInv, DataInv

LEMMA NextHolds ==
  ASSUME CompiledAreFinal, MethodsInv, [Next]_vars
  PROVE  MethodsInv'
<1>1. CASE Lisp
  BY <1>1, LispStep, ChecksendStep, SendStep, ReturnStep DEF Lisp
<1>2. CASE SendUnknown
  BY <1>2, SendUnknownStep
<1>3. CASE ApplyMethod \/ MethodReturns \/ DestructorsEnd \/ DestructorReturns
  BY <1>3, ReturnStep
<1>4. CASE NextDestructor \/ DestructorsBreak
  BY <1>4, DestructorStep
<1>5. CASE UNCHANGED vars
  <2>1. UNCHANGED <<lineage, methods, hashok, hashtable, zombies, stack, found>>
    BY <1>5 DEF vars
  <2>2. Types' /\ LineageOK' /\ HashokExists'
    BY <2>1 DEF MethodsInv, DataInv, Types, LineageOK, HashokExists, Exists
  <2>3. \A c \in Class, s \in Selector : Nearest(c, s)' = Nearest(c, s)
    BY <2>1 DEF Nearest, Defining, Living
  <2>4. CacheCoherent'
    BY <2>1, <2>3 DEF MethodsInv, DataInv, Types, CacheCoherent
  <2>5. LineageGrows /\ Types /\ LineageOK
    BY <2>1 DEF MethodsInv, DataInv, LineageGrows
  <2>6. PICK q : q = stack
    OBVIOUS
  <2>7. FramesOK(q)'
    BY <2>1, <2>5, <2>6, FramesKept DEF MethodsInv, StackOK
  <2> QED BY <2>1, <2>2, <2>4, <2>6, <2>7, StackIs DEF MethodsInv, DataInv
<1> QED BY <1>1, <1>2, <1>3, <1>4, <1>5 DEF Next

\* The invariant, for programs that make no class below one that bread replaces.
THEOREM InvariantHolds ==
  ASSUME CompiledAreFinal
  PROVE  Spec => []MethodsInv
<1>1. Init => MethodsInv
  BY InitHolds
<1>2. MethodsInv /\ [Next]_vars => MethodsInv'
  BY NextHolds
<1> QED BY <1>1, <1>2, PTL DEF Spec

-----------------------------------------------------------------------------
(* What follows from it.                                                   *)

\* The variables have their types: a method is a function or (), and what is
\* found is a function with the class that owns it (oostruct.c).
THEOREM TypeCorrect ==
  ASSUME CompiledAreFinal
  PROVE  Spec => []TypeOK
<1>1. MethodsInv => TypeOK
  BY DEF MethodsInv, DataInv, Types, StackOK, FramesOK, TypeOK
<1> QED BY <1>1, InvariantHolds, PTL

\* A table that is up to date has the nearest definition or a zombie that
\* getmethod will notice (clear_hashok, update_hashtable, getmethod).
THEOREM CacheCorrect ==
  ASSUME CompiledAreFinal
  PROVE  Spec => []CacheCoherent
<1>1. MethodsInv => CacheCoherent
  BY DEF MethodsInv, DataInv
<1> QED BY <1>1, InvariantHolds, PTL

\* A function that runs and was not deleted meanwhile is no zombie.
BodyLives(fr) ==
  fr.hx # NIL /\ fr.phase = "body" /\ ~fr.torn => Living(fr.hx.function)
AllLive(q) == \A i \in DOMAIN q : BodyLives(q[i])

LEMMA AllLiveKept ==
  ASSUME NEW q, AllLive(q), zombies' \subseteq zombies
  PROVE  AllLive(q)'
BY DEF AllLive, BodyLives, Living

LEMMA DisturbedLive ==
  ASSUME StackOK, AllLive(stack), NEW q, q = Disturbed
  PROVE  AllLive(q)
<1>1. ASSUME NEW i \in DOMAIN q PROVE BodyLives(q[i])
  <2>1. /\ i \in DOMAIN stack /\ stack[i] \in Frame
        /\ q[i] = [stack[i] EXCEPT !.steady = (stack[i].op = "send")]
    BY DisturbedSeq
  <2>2. q[i].phase = stack[i].phase /\ q[i].hx = stack[i].hx /\ q[i].torn = stack[i].torn
    BY <2>1 DEF Frame
  <2> QED BY <2>1, <2>2 DEF AllLive, BodyLives
<1> QED BY <1>1 DEF AllLive

LEMMA CallsLive ==
  ASSUME StackOK, AllLive(stack), NEW c, NEW s, NEW q, q = Calls(c, s)
  PROVE  AllLive(q) /\ DOMAIN q = DOMAIN stack
<1>1. stack \in Seq(Frame) /\ DOMAIN stack = 1..Len(stack)
  BY LenProperties DEF StackOK, FramesOK
<1>2. DOMAIN q = DOMAIN stack
  BY DEF Calls, Freed
<1>3. ASSUME NEW i \in DOMAIN q PROVE BodyLives(q[i])
  <2>1. stack[i] \in Frame
    BY <1>1, <1>2, ElementOfSeq
  <2>2. \/ q[i] = stack[i]
        \/ q[i] = [stack[i] EXCEPT !.stale = TRUE, !.steady = (stack[i].op = "send")]
    BY <1>2 DEF Calls, Freed
  <2>3. q[i].phase = stack[i].phase /\ q[i].hx = stack[i].hx /\ q[i].torn = stack[i].torn
    BY <2>1, <2>2 DEF Frame
  <2> QED BY <1>2, <2>3 DEF AllLive, BodyLives
<1> QED BY <1>2, <1>3 DEF AllLive

\* What getmethod finds is no zombie.
LEMMA FoundLives ==
  ASSUME Types, NEW c \in Class, NEW s \in Selector, getmethod(c, s), found' # NIL
  PROVE  Living(found'.function)
<1>1. CASE Fresh(c, s) /\ found' = hashtable[c][s]
  <2>1. hashtable[c][s] \in Definition
    BY <1>1 DEF Types
  <2> QED BY <1>1, <2>1, MethodsAssumption DEF Fresh, Living, Definition
<1>2. CASE found' = Nearest(c, s)
  <2>1. IsNearest(c, s, found')
    BY <1>2, NearestIs
  <2>2. PICK i \in Defining(c, s) :
          found' = [function |-> methods[lineage[c][i]][s], owner |-> lineage[c][i]]
    BY <2>1 DEF IsNearest
  <2> QED BY <2>2 DEF Defining
<1> QED BY <1>1, <1>2 DEF getmethod

LEMMA CallsSeq ==
  ASSUME StackOK, NEW c, NEW s, NEW q, q = Calls(c, s)
  PROVE  q \in Seq(Frame)
<1>1. stack \in Seq(Frame) /\ DOMAIN stack = 1..Len(stack) /\ Len(stack) \in Nat
  BY LenProperties DEF StackOK, FramesOK
<1>2. CASE q = stack
  BY <1>1, <1>2
<1>3. CASE q = Freed(c)
  <2>1. q = [i \in 1..Len(stack) |-> q[i]]
    BY <1>1, <1>3 DEF Freed
  <2>2. ASSUME NEW i \in 1..Len(stack) PROVE q[i] \in Frame
    <3>1. stack[i] \in Frame /\ (stack[i].op = "send") \in BOOLEAN
      BY <1>1, ElementOfSeq
    <3>2. \/ q[i] = stack[i]
          \/ q[i] = [stack[i] EXCEPT !.stale = TRUE, !.steady = (stack[i].op = "send")]
      BY <1>1, <1>3 DEF Freed
    <3> QED BY <3>1, <3>2 DEF Frame
  <2>3. \A i \in 1..Len(stack) : q[i] \in Frame
    BY <2>2
  <2> QED BY ONLY <1>1, <2>1, <2>3, SeqDef
<1> QED BY <1>2, <1>3 DEF Calls

\* What is pushed on a stack that stays one is a frame.
LEMMA PushedIsFrame ==
  ASSUME NEW q \in Seq(Frame), q # <<>>, NEW fr, Append(Pop(q), fr) \in Seq(Frame)
  PROVE  fr \in Frame
<1>1. PICK r : r = Pop(q)
  OBVIOUS
<1>2. r \in Seq(Frame)
  BY <1>1, FrontProperties DEF Pop
<1>3. PICK p : p = Append(r, fr)
  OBVIOUS
<1>4. p \in Seq(Frame) /\ Len(r) \in Nat
  BY <1>1, <1>2, <1>3, LenProperties
<1>5. Len(p) = Len(r) + 1 /\ p[Len(r) + 1] = fr
  BY <1>2, <1>3, SeqDef
<1>6. Len(r) + 1 \in 1..Len(p)
  BY <1>4, <1>5
<1> QED BY <1>4, <1>5, <1>6, ElementOfSeq

LEMMA PopLive ==
  ASSUME NEW q \in Seq(Frame), q # <<>>, AllLive(q)
  PROVE  Pop(q) \in Seq(Frame) /\ AllLive(Pop(q))
<1> DEFINE r == SubSeq(q, 1, Len(q) - 1)
<1>1. r \in Seq(Frame) /\ Len(r) = Len(q) - 1 /\ \A k \in 1..(Len(q) - 1) : r[k] = q[k]
  BY FrontProperties
<1>2. Len(q) \in Nat /\ DOMAIN q = 1..Len(q) /\ DOMAIN r = 1..Len(r)
  BY <1>1, LenProperties
<1> HIDE DEF r
<1>3. \A k \in DOMAIN r : r[k] = q[k] /\ k \in DOMAIN q
  BY <1>1, <1>2
<1>4. AllLive(r)
  BY <1>3 DEF AllLive
<1> QED BY <1>1, <1>4 DEF Pop, r

LEMMA AppendLive ==
  ASSUME NEW q \in Seq(Frame), AllLive(q), NEW fr \in Frame, BodyLives(fr)
  PROVE  AllLive(Append(q, fr))
<1>1. PICK r : r = Append(q, fr)
  OBVIOUS
<1>2. /\ Len(r) = Len(q) + 1 /\ r[Len(q) + 1] = fr
      /\ \A k \in 1..Len(q) : r[k] = q[k]
      /\ Len(q) \in Nat /\ DOMAIN q = 1..Len(q) /\ DOMAIN r = 1..Len(r)
  BY <1>1, AppendProperties, LenProperties
<1>3. ASSUME NEW k \in DOMAIN r PROVE BodyLives(r[k])
  <2>1. k = Len(q) + 1 \/ k \in DOMAIN q
    BY <1>2
  <2> QED BY <1>2, <2>1 DEF AllLive
<1> QED BY <1>1, <1>3 DEF AllLive

\* A step that changes the methods, or that deletes a function.
LEMMA LispLive ==
  ASSUME StackOK, AllLive(stack),
         \/ \E c, super \in Class : new_ooclass(c, super)
         \/ \E f \in Function : DeleteFunction(f)
         \/ \E c \in Class, s \in Selector :
              \/ \E v \in Function \cup {NIL} : putmethod(c, s, v)
              \/ \E f \in Function : bread(c, s, f)
  PROVE  AllLive(stack)'
<1>1. PICK q : q = Disturbed
  OBVIOUS
<1>2. AllLive(q) /\ q \in Seq(Frame)
  BY <1>1, DisturbedLive, DisturbedSeq
<1>3. ASSUME NEW f \in Function, DeleteFunction(f) PROVE AllLive(stack)'
  <2>1. PICK r : r = Torn(q, f)
    OBVIOUS
  <2>2. stack' = r /\ zombies' = zombies \cup {f}
    BY <1>1, <1>3, <2>1 DEF DeleteFunction
  <2>3. DOMAIN r = DOMAIN q
    BY <1>2, <2>1, TornShape
  <2>4. ASSUME NEW i \in DOMAIN q PROVE BodyLives(r[i])'
    <3>1. /\ r[i].phase = q[i].phase /\ r[i].hx = q[i].hx
          /\ (~r[i].torn => ~q[i].torn /\ ~(q[i].phase = "body" /\ q[i].hx.function = f))
      <4>1. ~r[i].torn => ~q[i].torn /\ ~(q[i].phase = "body" /\ q[i].hx.function = f)
        BY <1>2, <2>1, TornShape
      <4>2. r[i].phase = q[i].phase /\ r[i].hx = q[i].hx
        BY <1>2, <2>1, TornSame
      <4> QED BY <4>1, <4>2
    <3>2. BodyLives(q[i])
      BY <1>2 DEF AllLive
    <3> QED BY <2>2, <3>1, <3>2 DEF BodyLives, Living
  <2> QED BY <2>2, <2>3, <2>4 DEF AllLive
<1>4. ASSUME stack' = q \/ stack' = stack, zombies' \subseteq zombies PROVE AllLive(stack)'
  <2>1. PICK r : r = stack'
    OBVIOUS
  <2>2. AllLive(r)
    BY <1>2, <1>4, <2>1
  <2>3. AllLive(r)'
    BY <1>4, <2>2, AllLiveKept
  <2> QED BY <2>1, <2>3 DEF AllLive
<1> QED BY <1>1, <1>3, <1>4 DEF new_ooclass, putmethod, bread

\* What the stack may be after a step that changes no function.
LEMMA SetLive ==
  ASSUME UNCHANGED zombies, NEW q, AllLive(q), stack' = q
  PROVE  AllLive(stack)'
BY AllLiveKept DEF AllLive

LEMMA PushLive ==
  ASSUME UNCHANGED zombies, NEW q \in Seq(Frame), AllLive(q), NEW fr \in Frame, BodyLives(fr),
         stack' = Append(q, fr)
  PROVE  AllLive(stack)'
<1>1. PICK r : r = Append(q, fr)
  OBVIOUS
<1>2. AllLive(r)
  BY <1>1, AppendLive
<1> QED BY <1>1, <1>2, SetLive

LEMMA ReplaceLive ==
  ASSUME UNCHANGED zombies, NEW q \in Seq(Frame), AllLive(q), q # <<>>,
         NEW fr \in Frame, BodyLives(fr), stack' = Append(Pop(q), fr)
  PROVE  AllLive(stack)'
<1>1. PICK r : r = Pop(q)
  OBVIOUS
<1>2. r \in Seq(Frame) /\ AllLive(r)
  BY <1>1, PopLive
<1> QED BY <1>1, <1>2, PushLive

LEMMA ReturnLive ==
  ASSUME UNCHANGED zombies, NEW q \in Seq(Frame), AllLive(q), q # <<>>,
         stack' = Pop(q) \/ stack' = <<>>
  PROVE  AllLive(stack)'
<1>1. AllLive(Pop(q)) /\ AllLive(<<>>)
  BY PopLive DEF AllLive
<1> QED BY <1>1, SetLive

LEMMA NextLive ==
  ASSUME MethodsInv, MethodsInv', AllLive(stack), Next
  PROVE  AllLive(stack)'
<1>1. /\ StackOK /\ Types /\ stack \in Seq(Frame)
      /\ found \in Definition \cup {NIL} /\ found' \in Definition \cup {NIL}
  BY DEF MethodsInv, DataInv, Types, StackOK, FramesOK
<1>2. PICK q : q = stack
  OBVIOUS
<1>3. stack # <<>> => Top \in Frame /\ FrameOK(Top)
  BY <1>1, TopFrame
<1>4. ASSUME NEW c, NEW s, NEW p, p = Calls(c, s)
      PROVE  AllLive(p) /\ p \in Seq(Frame) /\ (stack # <<>> => p # <<>>)
  <2>1. AllLive(p) /\ DOMAIN p = DOMAIN stack
    BY <1>1, <1>4, CallsLive
  <2>2. p \in Seq(Frame)
    BY <1>1, <1>4, CallsSeq
  <2> QED BY <1>1, <2>1, <2>2, LenProperties, EmptySeq
<1>5. CASE \/ \E c, super \in Class : new_ooclass(c, super)
           \/ \E f \in Function : DeleteFunction(f)
           \/ \E c \in Class, s \in Selector :
                \/ \E v \in Function \cup {NIL} : putmethod(c, s, v)
                \/ \E f \in Function : bread(c, s, f)
  BY <1>1, <1>5, LispLive
<1>6. ASSUME NEW c \in Class, NEW s \in Selector, checksend(c, s) PROVE AllLive(stack)'
  <2>1. PICK p : p = Calls(c, s)
    OBVIOUS
  <2>2. stack' = p /\ UNCHANGED zombies
    BY <1>6, <2>1 DEF checksend
  <2> QED BY <1>4, <2>1, <2>2, SetLive
<1>7. ASSUME NEW c \in Class, NEW phase \in {"unknown", "args"}, NEW hx \in Definition \cup {NIL},
             NEW fr, fr = Sending(c, phase, hx)
      PROVE  fr \in Frame /\ BodyLives(fr)
  <2>1. <<>> \in Seq(Function \cup {NIL})
    OBVIOUS
  <2> QED BY <1>7, <2>1 DEF Sending, Frame, BodyLives
<1>8. ASSUME NEW c \in Class, NEW s \in Selector, send_message(c, s) PROVE AllLive(stack)'
  <2>1. PICK p : p = Calls(c, s)
    OBVIOUS
  <2>2. PICK fr : fr = Sending(c, IF found' = NIL THEN "unknown" ELSE "args", found')
    OBVIOUS
  <2>3. stack' = Append(p, fr) /\ UNCHANGED zombies
    BY <1>8, <2>1, <2>2 DEF send_message
  <2>4. fr \in Frame /\ BodyLives(fr)
    BY <1>1, <1>7, <2>2
  <2> QED BY <1>4, <2>1, <2>3, <2>4, PushLive
<1>9. CASE SendUnknown
  <2>1. PICK p : p = Calls(Top.class, unknown)
    OBVIOUS
  <2>2. PICK fr : fr = Sending(Top.class, "args", found')
    OBVIOUS
  <2>3. stack # <<>> /\ UNCHANGED zombies /\ (stack' = <<>> \/ stack' = Append(Pop(p), fr))
    BY <1>9, <2>1, <2>2 DEF SendUnknown
  <2>4. fr \in Frame /\ BodyLives(fr)
    <3>1. Top.class \in Class
      BY <1>3, <2>3 DEF Frame
    <3> QED BY <1>1, <1>7, <2>2, <3>1
  <2>5. AllLive(p) /\ p \in Seq(Frame) /\ p # <<>>
    BY <1>4, <2>1, <2>3
  <2> QED BY <2>3, <2>4, <2>5, ReplaceLive, ReturnLive
<1>10. CASE ApplyMethod
  <2>1. PICK fr : fr = [Top EXCEPT !.phase = "body", !.stale = FALSE]
    OBVIOUS
  <2>2. /\ stack # <<>> /\ UNCHANGED zombies
        /\ stack' = <<>> \/ (stack' = Append(Pop(q), fr) /\ Living(Top.hx.function))
    BY <1>2, <1>10, <2>1 DEF ApplyMethod
  <2>3. fr \in Frame /\ fr.hx = Top.hx
    BY <1>3, <2>1, <2>2 DEF Frame
  <2>4. Living(Top.hx.function) => BodyLives(fr)
    BY <2>3 DEF BodyLives
  <2>5. AllLive(q) /\ q \in Seq(Frame) /\ q # <<>>
    BY <1>1, <1>2, <2>2
  <2> QED BY <2>2, <2>3, <2>4, <2>5, ReplaceLive, ReturnLive
<1>11. CASE MethodReturns \/ DestructorsEnd \/ LispError
  <2>1. stack # <<>> /\ UNCHANGED zombies /\ (stack' = Pop(q) \/ stack' = <<>>)
    BY <1>2, <1>11 DEF MethodReturns, DestructorsEnd, LispError
  <2> QED BY <1>1, <1>2, <2>1, ReturnLive
<1>12. ASSUME NEW c \in Class, Delete(c) PROVE AllLive(stack)'
  <2>1. PICK fr : fr = [op |-> "delete", phase |-> "next", class |-> c, level |-> 1, hx |-> NIL,
                        stale |-> FALSE, torn |-> FALSE, ran |-> <<>>, steady |-> TRUE]
    OBVIOUS
  <2>2. stack' = Append(q, fr) /\ UNCHANGED zombies
    BY <1>2, <1>12, <2>1 DEF Delete
  <2>3. <<>> \in Seq(Function \cup {NIL})
    OBVIOUS
  <2>4. fr \in Frame /\ BodyLives(fr)
    BY <2>1, <2>3 DEF Frame, BodyLives
  <2> QED BY <1>1, <1>2, <2>2, <2>4, PushLive
<1>13. CASE DestructorReturns
  <2>1. PICK f : stack' = Append(Pop(q),
           [Top EXCEPT !.phase = "next", !.level = @ + 1, !.hx = NIL, !.stale = FALSE,
                       !.torn = FALSE, !.ran = Append(@, f)])
    BY <1>2, <1>13 DEF DestructorReturns
  <2>2. PICK fr : fr = [Top EXCEPT !.phase = "next", !.level = @ + 1, !.hx = NIL, !.stale = FALSE,
                                   !.torn = FALSE, !.ran = Append(@, f)]
    OBVIOUS
  <2>3. stack # <<>> /\ UNCHANGED zombies /\ stack' = Append(Pop(q), fr)
    BY <1>13, <2>1, <2>2 DEF DestructorReturns
  <2>4. fr.hx = NIL
    BY <1>3, <2>2, <2>3 DEF Frame
  <2>5. fr \in Frame
    BY <1>1, <1>2, <2>3, PushedIsFrame DEF MethodsInv, StackOK, FramesOK
  <2>6. BodyLives(fr)
    BY <2>4 DEF BodyLives
  <2> QED BY <1>1, <1>2, <2>3, <2>5, <2>6, ReplaceLive
<1>14. CASE NextDestructor \/ DestructorsBreak
  <2>1. PICK k : k = lineage[Top.class][Top.level]
    OBVIOUS
  <2>2. PICK p : p = Calls(k, destroy)
    OBVIOUS
  <2>3. stack # <<>> /\ Top.phase = "next" /\ Top.level <= Len(lineage[Top.class])
    BY <1>14 DEF NextDestructor, DestructorsBreak
  <2>4. k \in Class
    <3>1. Top.class \in Class /\ Top.level \in Nat \ {0}
      BY <1>3, <2>3 DEF Frame
    <3>2. Top.level \in DOMAIN lineage[Top.class]
      BY <1>1, <2>3, <3>1, PositionsAreNaturals, MethodsAssumption
    <3> QED BY <1>1, <2>1, <3>1, <3>2, PositionsAreNaturals, MethodsAssumption
  <2>5. getmethod(k, destroy) /\ UNCHANGED zombies
    BY <1>14, <2>1 DEF NextDestructor, DestructorsBreak
  <2>6. found' # NIL => Living(found'.function)
    BY <1>1, <2>4, <2>5, FoundLives, MethodsAssumption
  <2>7. PICK u : u = [Top EXCEPT !.level = @ + 1]
    OBVIOUS
  <2>8. PICK v : v = [Top EXCEPT !.phase = "body", !.hx = found', !.stale = FALSE]
    OBVIOUS
  <2>9. \/ stack' = Pop(p)
        \/ found' # NIL /\ (stack' = Append(Pop(p), u) \/ stack' = Append(Pop(p), v))
    BY <1>14, <2>1, <2>2, <2>7, <2>8 DEF NextDestructor, DestructorsBreak
  <2>10. u \in Frame /\ v \in Frame /\ u.phase = "next" /\ v.hx = found'
    <3>1. Top \in Frame /\ Top.level + 1 \in Nat \ {0} /\ Top.phase = "next"
      BY <1>3, <2>3 DEF Frame
    <3>2. u \in Frame /\ u.phase = "next"
      BY <2>7, <3>1 DEF Frame
    <3>3. v \in Frame /\ v.hx = found'
      BY <1>1, <2>8, <3>1 DEF Frame
    <3> QED BY <3>2, <3>3
  <2>11. BodyLives(u) /\ (found' # NIL => BodyLives(v))
    BY <2>6, <2>10 DEF BodyLives
  <2>12. AllLive(p) /\ p \in Seq(Frame) /\ p # <<>>
    BY <1>4, <2>2, <2>3
  <2> QED BY <2>5, <2>9, <2>10, <2>11, <2>12, ReplaceLive, ReturnLive
<1> QED BY <1>5, <1>6, <1>8, <1>9, <1>10, <1>11, <1>12, <1>13, <1>14 DEF Next, Lisp

\* The function of a call in progress is not freed as long as the table it was
\* found in is there, nor while it runs, and a function that runs and was not
\* deleted is no zombie, its body is there (call_method, send_delete, delete).
THEOREM CalledCorrect ==
  ASSUME CompiledAreFinal
  PROVE  Spec => []CalledAreAlive
<1>1. ASSUME MethodsInv, AllLive(stack) PROVE CalledAreAlive
  <2> SUFFICES ASSUME NEW i \in DOMAIN stack, stack[i].hx # NIL,
                      stack[i].phase = "body" \/ ~stack[i].stale
               PROVE  Referenced(stack[i].hx.function)
    BY <1>1 DEF CalledAreAlive, AllLive, BodyLives
  <2>1. FrameOK(stack[i]) /\ stack[i] \in Frame
    BY <1>1, ElementOfSeq, LenProperties DEF MethodsInv, StackOK, FramesOK
  <2>2. CASE stack[i].phase = "body"
    BY <2>2 DEF Referenced, Running
  <2>3. CASE stack[i].phase # "body"
    <3>1. stack[i].phase = "args" /\ ~stack[i].stale
      BY <2>1, <2>3 DEF FrameOK, Frame
    <3>2. PICK s \in Selector :
            hashtable[lineage[stack[i].class][stack[i].level]][s] = stack[i].hx
      BY <2>1, <3>1 DEF FrameOK, NeedsTable
    <3>3. lineage[stack[i].class][stack[i].level] \in Class
      BY <1>1, <2>1, <3>1, MethodsAssumption, PositionsAreNaturals
         DEF FrameOK, NeedsTable, Frame, MethodsInv, DataInv
    <3> QED BY <3>2, <3>3 DEF Referenced
  <2> QED BY <2>2, <2>3
<1>2. Init => AllLive(stack)
  BY DEF Init, AllLive
<1>3. MethodsInv /\ MethodsInv' /\ AllLive(stack) /\ [Next]_vars => AllLive(stack)'
  <2>1. ASSUME MethodsInv, MethodsInv', AllLive(stack), Next PROVE AllLive(stack)'
    BY <2>1, NextLive
  <2>2. AllLive(stack) /\ UNCHANGED vars => AllLive(stack)'
    BY DEF vars, AllLive, BodyLives, Living
  <2> QED BY <2>1, <2>2
<1> QED BY <1>1, <1>2, <1>3, InvariantHolds, PTL DEF Spec

-----------------------------------------------------------------------------
(* Refinement.                                                             *)

LEMMA AliveSame ==
  ASSUME SameLiving
  PROVE  Alive' = Alive
<1>1. \A c \in Class, s \in Selector :
        (IF Living(methods[c][s]) THEN methods[c][s] ELSE NIL)'
          = (IF Living(methods[c][s]) THEN methods[c][s] ELSE NIL)
  BY DEF SameLiving
<1> QED BY <1>1 DEF Alive

LEMMA AliveUnchanged ==
  ASSUME UNCHANGED <<methods, zombies>>
  PROVE  Alive' = Alive
BY DEF Alive, Living

\* The nearest definition is the one the abstract specification chooses.
LEMMA NearestIsAbstract ==
  ASSUME MethodsInv, NEW c \in Class, NEW s \in Selector, NEW d, d = Nearest(c, s)
  PROVE  Abstract!Nearest(c, s, d)
<1>1. Types
  BY DEF MethodsInv, DataInv
<1>2. IsNearest(c, s, d)
  BY <1>1, NearestIs
<1>3. /\ DOMAIN lineage[c] = 1..Len(lineage[c]) /\ Len(lineage[c]) \in Nat
      /\ \A i \in DOMAIN lineage[c] : lineage[c][i] \in Class
  BY <1>1, PositionsAreNaturals
<1>4. \A k \in Class : Alive[k][s] = IF Living(methods[k][s]) THEN methods[k][s] ELSE NIL
  BY DEF Alive
<1>5. \A i : Abstract!Defines(c, s, i) <=> i \in Defining(c, s)
  BY <1>3, <1>4 DEF Abstract!Defines, Defining, Living
<1>6. CASE d = NIL /\ Defining(c, s) = {}
  BY <1>5, <1>6 DEF Abstract!Nearest
<1>7. ASSUME NEW i \in Defining(c, s), \A j \in Defining(c, s) : i <= j,
             d = [function |-> methods[lineage[c][i]][s], owner |-> lineage[c][i]]
      PROVE  Abstract!Nearest(c, s, d)
  <2>1. i \in DOMAIN lineage[c] /\ Abstract!Defines(c, s, i) /\ i \in Nat
    BY <1>3, <1>5 DEF Defining
  <2>2. \A j \in 1..(i - 1) : ~Abstract!Defines(c, s, j)
    BY <1>3, <1>5, <1>7, <2>1
  <2>3. Alive[lineage[c][i]][s] = methods[lineage[c][i]][s]
    BY <1>3, <1>4, <2>1 DEF Defining
  <2> QED BY <1>7, <2>1, <2>2, <2>3 DEF Abstract!Nearest
<1> QED BY <1>2, <1>6, <1>7 DEF IsNearest

\* Every lookup is one of the abstract specification.
LEMMA LookupRefines ==
  ASSUME MethodsInv, NEW c \in Class, NEW s \in Selector, Exists(c), getmethod(c, s),
         UNCHANGED <<lineage, zombies>>
  PROVE  Abstract!Next
<1>1. PICK q : q = Calls(c, s)
  OBVIOUS
<1>2. DataInv' /\ SameLiving /\ found' = Nearest(c, s)
  BY <1>1, LookupStep
<1>3. PICK d : d = found'
  OBVIOUS
<1>4. d \in Definition \cup {NIL}
  BY <1>2, <1>3 DEF DataInv, Types
<1>5. Abstract!Nearest(c, s, d)
  BY <1>2, <1>3, NearestIsAbstract
<1>6. Alive' = Alive
  BY <1>2, AliveSame
<1>7. Abstract!LookUp(c, s)
  BY <1>3, <1>4, <1>5, <1>6 DEF Abstract!LookUp, Abstract!Definition, Definition, Exists
<1> QED BY <1>7 DEF Abstract!Next

LEMMA OtherRefines ==
  ASSUME found' = NIL, UNCHANGED <<lineage, methods, zombies>>
  PROVE  Abstract!Next
<1>1. Alive' = Alive
  BY AliveUnchanged
<1> QED BY <1>1 DEF Abstract!Next, Abstract!Other

LEMMA SubclassRefines ==
  ASSUME NEW c \in Class, NEW super \in Class, new_ooclass(c, super)
  PROVE  Abstract!Next
<1>1. Alive' = Alive
  BY AliveUnchanged DEF new_ooclass
<1>2. Abstract!Subclass(c, super)
  BY <1>1 DEF new_ooclass, Abstract!Subclass, Exists
<1> QED BY <1>2 DEF Abstract!Next

LEMMA ForgetRefines ==
  ASSUME MethodsInv, NEW f \in Function, DeleteFunction(f)
  PROVE  Abstract!Next
<1>1. zombies' = zombies \cup {f} /\ UNCHANGED <<lineage, methods>> /\ found' = NIL
  BY DEF DeleteFunction
<1>2. \A c \in Class, s \in Selector :
        (IF Living(methods[c][s]) THEN methods[c][s] ELSE NIL)'
          = IF Alive[c][s] = f THEN NIL ELSE Alive[c][s]
  BY <1>1, MethodsAssumption DEF Alive, Living
<1>3. Alive' = [c \in Class |-> [s \in Selector |->
                  IF Alive[c][s] = f THEN NIL ELSE Alive[c][s]]]
  BY <1>2 DEF Alive
<1>4. Abstract!Forget(f)
  BY <1>1, <1>3 DEF Abstract!Forget
<1> QED BY <1>4 DEF Abstract!Next

\* Functions that nothing refers to are in no list.
LEMMA DefineRefines ==
  ASSUME MethodsInv, NEW c \in Class, NEW s \in Selector, NEW v \in Function \cup {NIL},
         putmethod(c, s, v)
  PROVE  Abstract!Next
<1>1. /\ methods' = [methods EXCEPT ![c][s] = v]
      /\ found' = NIL /\ UNCHANGED lineage
      /\ zombies' = zombies \/ (zombies' = zombies \ {v} /\ ~Referenced(v))
      /\ v # NIL => v \notin zombies'
  BY DEF putmethod, Available
<1>2. ASSUME NEW k \in Class, NEW t \in Selector
      PROVE  (IF Living(methods[k][t]) THEN methods[k][t] ELSE NIL)'
               = IF k = c /\ t = s THEN v ELSE Alive[k][t]
  <2>1. methods'[k][t] = IF k = c /\ t = s THEN v ELSE methods[k][t]
    BY <1>1 DEF MethodsInv, DataInv, Types
  <2>2. methods[k][t] \in zombies' <=> methods[k][t] \in zombies
    BY <1>1 DEF Referenced
  <2> QED BY <1>1, <2>1, <2>2 DEF Alive, Living
<1>3. Alive' = [Alive EXCEPT ![c][s] = v]
  <2>1. Alive' = [k \in Class |-> [t \in Selector |->
                    IF k = c /\ t = s THEN v ELSE Alive[k][t]]]
    BY <1>2 DEF Alive
  <2>2. [Alive EXCEPT ![c][s] = v] = [k \in Class |-> [t \in Selector |->
                    IF k = c /\ t = s THEN v ELSE Alive[k][t]]]
    BY DEF Alive
  <2> QED BY <2>1, <2>2
<1>4. Abstract!Define(c, s, v)
  BY <1>1, <1>3 DEF Abstract!Define
<1> QED BY <1>4 DEF Abstract!Next

LEMMA LoadRefines ==
  ASSUME MethodsInv, NEW c \in Class, NEW s \in Selector, NEW f \in Function, bread(c, s, f)
  PROVE  Abstract!Next
<1>1. /\ methods' = [methods EXCEPT ![c] = [t \in Selector |-> IF t = s THEN f ELSE NIL]]
      /\ found' = NIL /\ UNCHANGED lineage
      /\ zombies' = zombies \ {f} /\ ~Referenced(f)
  BY DEF bread, Available
<1>2. ASSUME NEW k \in Class, NEW t \in Selector
      PROVE  (IF Living(methods[k][t]) THEN methods[k][t] ELSE NIL)'
               = IF k = c THEN (IF t = s THEN f ELSE NIL) ELSE Alive[k][t]
  <2>1. methods'[k][t] = IF k = c THEN (IF t = s THEN f ELSE NIL) ELSE methods[k][t]
    BY <1>1 DEF MethodsInv, DataInv, Types
  <2>2. methods[k][t] \in zombies' <=> methods[k][t] \in zombies
    BY <1>1 DEF Referenced
  <2>3. f # NIL /\ f \notin zombies'
    BY <1>1, MethodsAssumption
  <2> QED BY <2>1, <2>2, <2>3 DEF Alive, Living
<1>3. Alive' = [Alive EXCEPT ![c] = [t \in Selector |-> IF t = s THEN f ELSE NIL]]
  <2>1. Alive' = [k \in Class |-> [t \in Selector |->
                    IF k = c THEN (IF t = s THEN f ELSE NIL) ELSE Alive[k][t]]]
    BY <1>2 DEF Alive
  <2>2. [Alive EXCEPT ![c] = [t \in Selector |-> IF t = s THEN f ELSE NIL]]
          = [k \in Class |-> [t \in Selector |->
                    IF k = c THEN (IF t = s THEN f ELSE NIL) ELSE Alive[k][t]]]
    BY DEF Alive
  <2> QED BY <2>1, <2>2
<1>4. Abstract!Load(c, s, f)
  BY <1>1, <1>3 DEF Abstract!Load
<1> QED BY <1>4 DEF Abstract!Next

LEMMA StepRefines ==
  ASSUME MethodsInv, [Next]_vars
  PROVE  [Abstract!Next]_(Abstract!vars)
<1>1. ASSUME NEW c \in Class, NEW s \in Selector, checksend(c, s) \/ send_message(c, s)
      PROVE  Abstract!Next
  BY <1>1, LookupRefines DEF checksend, send_message
<1>2. CASE \E c \in Class : Delete(c)
  BY <1>2, OtherRefines DEF Delete
<1>3. CASE Lisp
  BY <1>1, <1>2, <1>3, OtherRefines, SubclassRefines, ForgetRefines, DefineRefines, LoadRefines
     DEF Lisp, LispError
<1>4. CASE SendUnknown
  <2>1. stack # <<>> /\ Top \in Frame /\ FrameOK(Top)
    BY <1>4, TopFrame DEF SendUnknown, MethodsInv
  <2>2. Top.class \in Class /\ Exists(Top.class) /\ unknown \in Selector
    BY <2>1, MethodsAssumption DEF Frame, FrameOK
  <2> QED BY <1>4, <2>2, LookupRefines DEF SendUnknown
<1>5. CASE NextDestructor \/ DestructorsBreak
  <2>1. PICK k : k = lineage[Top.class][Top.level]
    OBVIOUS
  <2>2. k \in Class /\ Exists(k) /\ destroy \in Selector
    BY <1>5, <2>1, NextClass, MethodsAssumption DEF NextDestructor, DestructorsBreak
  <2>3. getmethod(k, destroy) /\ UNCHANGED <<lineage, zombies>>
    BY <1>5, <2>1 DEF NextDestructor, DestructorsBreak
  <2> QED BY <2>2, <2>3, LookupRefines
<1>6. CASE ApplyMethod \/ MethodReturns \/ DestructorsEnd \/ DestructorReturns
  BY <1>6, OtherRefines DEF ApplyMethod, MethodReturns, DestructorsEnd, DestructorReturns
<1>7. CASE UNCHANGED vars
  BY <1>7, AliveUnchanged DEF vars, Abstract!vars
<1> QED BY <1>3, <1>4, <1>5, <1>6, <1>7 DEF Next

\* Lookups through the tables, with lists that still hold zombies, answer as if
\* every lookup searched the definitions of that moment, nearest class first
\* (getmethod, update_hashtable, clear_hashok, putmethod).
THEOREM RefinementCorrect ==
  ASSUME CompiledAreFinal
  PROVE  Spec => ImplementsInheritance
<1>1. Init => Abstract!Init
  <2> SUFFICES ASSUME Init PROVE Abstract!Init
    OBVIOUS
  <2>1. Alive = [c \in Class |-> [s \in Selector |-> NIL]]
    BY DEF Init, Alive, Living
  <2> QED BY <2>1 DEF Init, Abstract!Init
<1>2. MethodsInv /\ [Next]_vars => [Abstract!Next]_(Abstract!vars)
  BY StepRefines
<1> QED BY <1>1, <1>2, InvariantHolds, PTL DEF Spec, ImplementsInheritance, Abstract!Spec

-----------------------------------------------------------------------------
(* Destructors.                                                            *)

\* The classes above the one at place i of a lineage are the rest of it.
LineagesNest ==
  \A c \in Class : \A i \in DOMAIN lineage[c] :
    /\ Len(lineage[lineage[c][i]]) = Len(lineage[c]) - i + 1
    /\ \A j \in DOMAIN lineage[lineage[c][i]] : lineage[lineage[c][i]][j] = lineage[c][i + j - 1]

Destroyers(c) == [i \in DOMAIN lineage[c] |-> methods[lineage[c][i]][destroy]]

\* The destructors that have run when send_delete has looked at n classes: those
\* of the classes below, and the next one up from there.
Reached(c, n) ==
  {i \in Destroying(c) : n > 0 /\ \A k \in Destroying(c) : ~(n <= k /\ k < i)}

NextRanOK(fr) ==
  fr.ran \in Selection(Destroyers(fr.class), Reached(fr.class, fr.level - 1))
BodyRanOK(fr) ==
  /\ ~fr.stale
  /\ Append(fr.ran, fr.hx.function)
       \in Selection(Destroyers(fr.class), Reached(fr.class, fr.level))

RanOK(fr) ==
  /\ fr.phase = "next" => fr.op = "delete"
  /\ fr.op = "delete" /\ fr.steady =>
       /\ fr.phase = "next" => NextRanOK(fr)
       /\ fr.phase = "body" => BodyRanOK(fr)

AllRanOK(q) == \A i \in DOMAIN q : RanOK(q[i])
DestroyInv == LineagesNest /\ AllRanOK(stack)

\* Which positions define a destructor of their own, and which are destroyers.
LEMMA DestroyingIs ==
  ASSUME Types, NEW c \in Class, NEW own, own = Defining(c, destroy),
         NEW m, m = Destroyers(c)
  PROVE  /\ own \in SUBSET (DOMAIN lineage[c]) /\ own \in SUBSET (Nat \ {0})
         /\ DOMAIN lineage[c] = 1..Len(lineage[c]) /\ Len(lineage[c]) \in Nat
         /\ m \in Seq(Function \cup {NIL})
         /\ Len(m) = Len(lineage[c]) /\ DOMAIN m = DOMAIN lineage[c]
         /\ \A i \in DOMAIN lineage[c] : m[i] = methods[lineage[c][i]][destroy]
         /\ Destroying(c) = {i \in own : \A j \in own :
                               i < j /\ (\A k \in own : k <= i \/ j <= k) => m[i] # m[j]}
         /\ \A i \in own : m[i] \in Function /\ m[i] # NIL
<1>1. /\ DOMAIN lineage[c] = 1..Len(lineage[c]) /\ Len(lineage[c]) \in Nat
      /\ \A i \in DOMAIN lineage[c] : lineage[c][i] \in Class
  BY PositionsAreNaturals, MethodsAssumption
<1>2. own = {i \in DOMAIN lineage[c] : Living(methods[lineage[c][i]][destroy])}
  BY DEF Defining
<1>3. m = [i \in 1..Len(lineage[c]) |-> methods[lineage[c][i]][destroy]]
  BY <1>1 DEF Destroyers
<1>4. \A i \in DOMAIN lineage[c] : methods[lineage[c][i]][destroy] \in Function \cup {NIL}
  BY <1>1, MethodsAssumption DEF Types
<1>5. m \in Seq(Function \cup {NIL}) /\ Len(m) = Len(lineage[c]) /\ DOMAIN m = DOMAIN lineage[c]
  <2>1. m \in Seq(Function \cup {NIL})
    BY <1>1, <1>3, <1>4, IsASeq
  <2> QED BY <1>1, <1>3, <2>1, LenProperties
<1>6. Destroying(c) = {i \in own : \A j \in own :
                         i < j /\ (\A k \in own : k <= i \/ j <= k) => m[i] # m[j]}
  <2>1. /\ own \in SUBSET (DOMAIN lineage[c])
        /\ \A i \in DOMAIN lineage[c] : methods[lineage[c][i]][destroy] = m[i]
    BY <1>1, <1>2, <1>3
  <2>2. Destroying(c) =
          {i \in own : \A j \in own :
             i < j /\ (\A k \in own : k <= i \/ j <= k)
               => methods[lineage[c][i]][destroy] # methods[lineage[c][j]][destroy]}
    BY <1>2 DEF Destroying
  <2>3. PICK f : f = [i \in DOMAIN lineage[c] |-> methods[lineage[c][i]][destroy]]
    OBVIOUS
  <2>4. \A i \in own : f[i] = methods[lineage[c][i]][destroy] /\ f[i] = m[i]
    BY <2>1, <2>3
  <2>5. Destroying(c) = {i \in own : \A j \in own :
                           i < j /\ (\A k \in own : k <= i \/ j <= k) => f[i] # f[j]}
    BY <2>2, <2>4
  <2> QED BY <2>4, <2>5
<1>7. \A i \in own : m[i] \in Function /\ m[i] # NIL
  BY <1>1, <1>2, <1>3, <1>4 DEF Living
<1>8. own \in SUBSET (DOMAIN lineage[c]) /\ own \in SUBSET (Nat \ {0})
  BY <1>1, <1>2
<1> QED BY <1>1, <1>3, <1>5, <1>6, <1>7, <1>8

\* A set of positions up to n that is not empty has a last one.
LEMMA LastPosition ==
  ASSUME NEW n \in Nat, NEW T \in SUBSET (1..n), T # {}
  PROVE  \E m \in T : \A k \in T : k <= m
<1>1. PICK U : U = {i \in Nat : \A k \in T : k <= i}
  OBVIOUS
<1>2. n \in U /\ U \in SUBSET Nat
  BY <1>1
<1>3. PICK m \in U : \A k \in U : m <= k
  BY <1>2, LeastPosition
<1>4. CASE m \in T
  BY <1>1, <1>3, <1>4
<1>5. CASE m \notin T
  <2>1. \A k \in T : k \in Nat /\ k <= m /\ k # m /\ k >= 1
    BY <1>1, <1>3, <1>5
  <2>2. m \in Nat
    BY <1>1, <1>3
  <2>3. m - 1 \in Nat
    <3>1. PICK k : k \in T
      OBVIOUS
    <3> QED BY <2>1, <2>2, <3>1
  <2>5. \A k \in T : k <= m - 1
    BY <2>1, <2>2
  <2>4. m - 1 \in U
    BY <1>1, <2>3, <2>5
  <2> QED BY <1>3, <2>2, <2>4
<1> QED BY <1>4, <1>5

\* The destroyer a definition at d leads to: the last of those that inherit from
\* d on, one after the other, the same function.
LEMMA DestroyerFrom ==
  ASSUME Types, NEW c \in Class, NEW own, own = Defining(c, destroy),
         NEW m, m = Destroyers(c), NEW d \in own
  PROVE  \E e \in Destroying(c) : /\ d <= e /\ m[e] = m[d]
                                  /\ \A k \in Destroying(c) : k < d \/ e <= k
<1>1. /\ own \in SUBSET (1..Len(lineage[c])) /\ Len(lineage[c]) \in Nat
      /\ Destroying(c) = {i \in own : \A j \in own :
                            i < j /\ (\A k \in own : k <= i \/ j <= k) => m[i] # m[j]}
  BY DestroyingIs
<1>2. \A i \in own : i \in Nat
  BY <1>1
<1>3. PICK T : T = {i \in own : d <= i /\ \A k \in own : d <= k /\ k <= i => m[k] = m[d]}
  OBVIOUS
<1>4. d \in T
  <2>1. \A k \in own : d <= k /\ k <= d => k = d
    BY <1>2
  <2> QED BY <1>2, <1>3, <2>1
<1>5. PICK e \in T : \A k \in T : k <= e
  <2>1. T \in SUBSET (1..Len(lineage[c]))
    BY <1>1, <1>3
  <2> QED BY <1>1, <1>4, <2>1, LastPosition
<1>6. e \in own /\ d <= e /\ \A k \in own : d <= k /\ k <= e => m[k] = m[d]
  BY <1>3, <1>5
<1>7. e \in Destroying(c)
  <2> SUFFICES ASSUME NEW j \in own, e < j, \A k \in own : k <= e \/ j <= k, m[e] = m[j]
               PROVE  FALSE
    BY <1>1, <1>6
  <2>1. \A k \in own : d <= k /\ k <= j => m[k] = m[d]
    <3> SUFFICES ASSUME NEW k \in own, d <= k, k <= j PROVE m[k] = m[d]
      OBVIOUS
    <3>1. k <= e \/ k = j
      BY <1>2, <1>6
    <3>2. m[e] = m[d]
      BY <1>2, <1>6
    <3> QED BY <1>6, <3>1, <3>2
  <2>2. j \in T
    BY <1>2, <1>3, <1>6, <2>1
  <2> QED BY <1>2, <1>5, <1>6, <2>2
<1>8. ASSUME NEW k \in Destroying(c), d <= k, k < e PROVE FALSE
  <2>1. k \in own /\ k \in Nat /\ e \in Nat
    BY <1>1, <1>2, <1>6
  <2>2. PICK U : U = {j \in own : k < j}
    OBVIOUS
  <2>3. U \in SUBSET Nat /\ e \in U
    BY <1>2, <1>6, <1>8, <2>2
  <2>4. PICK j \in U : \A l \in U : j <= l
    BY <2>3, LeastPosition
  <2>5. j \in own /\ k < j /\ j <= e /\ \A l \in own : l <= k \/ j <= l
    BY <1>2, <2>1, <2>2, <2>3, <2>4
  <2>6. m[k] # m[j]
    BY <1>1, <1>8, <2>5
  <2>7. m[k] = m[d] /\ m[j] = m[d]
    BY <1>2, <1>6, <1>8, <2>1, <2>5
  <2> QED BY <2>6, <2>7
<1>9. m[e] = m[d]
  BY <1>2, <1>6
<1>10. \A k \in Destroying(c) : k < d \/ e <= k
  BY <1>1, <1>2, <1>6, <1>8
<1> QED BY <1>6, <1>7, <1>9, <1>10

\* One class further up: what it adds to what was reached.
LEMMA ReachedNext ==
  ASSUME Types, NEW c \in Class, NEW own, own = Defining(c, destroy),
         NEW m, m = Destroyers(c), NEW n \in Nat, NEW d \in own,
         n < d, \A k \in own : k <= n \/ d <= k
  PROVE  \E e \in Destroying(c) :
           /\ n < e /\ m[e] = m[d]
           /\ \/ /\ Reached(c, n + 1) = Reached(c, n) \cup {e}
                 /\ \A i \in Reached(c, n) : i < e
                 /\ \/ n = 0 /\ Reached(c, n) = {}
                    \/ n \in Reached(c, n) /\ m[n] # m[d] /\ \A i \in Reached(c, n) : i <= n
              \/ /\ Reached(c, n + 1) = Reached(c, n)
                 /\ e \in Reached(c, n) /\ \A i \in Reached(c, n) : i <= e
<1>1. /\ own \in SUBSET (Nat \ {0})
      /\ Destroying(c) = {i \in own : \A j \in own :
                            i < j /\ (\A k \in own : k <= i \/ j <= k) => m[i] # m[j]}
  BY DestroyingIs
<1> DEFINE D == Destroying(c)
<1>2. \A i \in D : i \in own /\ i \in Nat \ {0}
  BY <1>1
<1>3. PICK e \in D : d <= e /\ m[e] = m[d] /\ \A k \in D : k < d \/ e <= k
  BY DestroyerFrom
<1>4. n < e /\ e \in Nat /\ d \in Nat /\ \A k \in D : k <= n \/ e <= k
  BY <1>1, <1>2, <1>3
<1> HIDE DEF D
<1>5. Reached(c, n + 1) = {i \in D : i <= n} \cup {e}
  <2>1. ASSUME NEW i \in D PROVE (\A k \in D : ~(n + 1 <= k /\ k < i)) <=> (i <= n \/ i = e)
    <3>1. i \in Nat /\ (i <= n \/ e <= i)
      BY <1>2, <1>4
    <3>2. CASE i <= n
      BY <1>2, <3>1, <3>2
    <3>3. CASE i = e
      BY <1>2, <1>4, <3>3
    <3>4. CASE e < i
      <4>1. n + 1 <= e /\ e < i
        BY <1>4, <3>4
      <4> QED BY <1>3, <1>4, <3>1, <3>4, <4>1
    <3> QED BY <1>4, <3>1, <3>2, <3>3, <3>4
  <2>2. Reached(c, n + 1) = {i \in D : \A k \in D : ~(n + 1 <= k /\ k < i)}
    BY DEF Reached, D
  <2> QED BY <1>3, <2>1, <2>2
<1>6. CASE n = 0
  <2>1. Reached(c, n) = {}
    BY <1>6 DEF Reached
  <2>2. {i \in D : i <= n} = {}
    BY <1>2, <1>6
  <2> QED BY <1>3, <1>4, <1>5, <1>6, <2>1, <2>2 DEF D
<1>7. CASE n \in D
  <2>1. Reached(c, n) = {i \in D : i <= n}
    <3>1. n > 0
      BY <1>2, <1>7
    <3>2. ASSUME NEW i \in D PROVE (\A k \in D : ~(n <= k /\ k < i)) <=> i <= n
      BY <1>2, <1>7, <3>1
    <3>3. Reached(c, n) = {i \in D : \A k \in D : ~(n <= k /\ k < i)}
      BY <3>1 DEF Reached, D
    <3> QED BY <3>2, <3>3
  <2>2. m[n] # m[d]
    BY <1>1, <1>7 DEF D
  <2>3. n \in Reached(c, n) /\ \A i \in Reached(c, n) : i <= n /\ i < e
    <3>1. n \in Nat /\ n \in {i \in D : i <= n}
      BY <1>7
    <3>2. ASSUME NEW i \in D, i <= n PROVE i < e
      BY <1>2, <1>4, <3>2
    <3> QED BY <2>1, <3>1, <3>2
  <2> QED BY <1>3, <1>4, <1>5, <2>1, <2>2, <2>3 DEF D
<1>8. CASE n # 0 /\ n \notin D
  <2>1. Reached(c, n) = {i \in D : i <= n} \cup {e}
    <3>1. ASSUME NEW i \in D PROVE (\A k \in D : ~(n <= k /\ k < i)) <=> (i <= n \/ i = e)
      <4>1. i \in Nat /\ (i <= n \/ e <= i)
        BY <1>2, <1>4
      <4>2. CASE i <= n
        BY <1>2, <4>1, <4>2
      <4>3. CASE i = e
        <5> SUFFICES ASSUME NEW k \in D, n <= k, k < i PROVE FALSE
          BY <4>3
        <5>1. k \in Nat /\ (k <= n \/ e <= k) /\ k # n
          BY <1>2, <1>4, <1>8
        <5> QED BY <1>4, <4>3, <5>1
      <4>4. CASE e < i
        <5>1. n <= e /\ e < i
          BY <1>4, <4>4
        <5> QED BY <1>3, <1>4, <4>1, <4>4, <5>1
      <4> QED BY <1>4, <4>1, <4>2, <4>3, <4>4
    <3>2. Reached(c, n) = {i \in D : \A k \in D : ~(n <= k /\ k < i)}
      BY <1>8 DEF Reached, D
    <3> QED BY <1>3, <3>1, <3>2
  <2>2. e \in Reached(c, n) /\ \A i \in Reached(c, n) : i <= e
    <3>1. ASSUME NEW i \in D, i <= n PROVE i <= e
      BY <1>2, <1>4, <3>1
    <3> QED BY <1>4, <2>1, <3>1
  <2> QED BY <1>3, <1>4, <1>5, <2>1, <2>2 DEF D
<1> QED BY <1>6, <1>7, <1>8

\* When no class from place n + 1 on has a destructor, all were reached.
LEMMA ReachedAll ==
  ASSUME Types, NEW c \in Class, NEW n \in Nat, \A k \in Defining(c, destroy) : k <= n
  PROVE  Reached(c, n) = Destroying(c)
<1>1. PICK own : own = Defining(c, destroy)
  OBVIOUS
<1>2. PICK m : m = Destroyers(c)
  OBVIOUS
<1>3. own \in SUBSET (Nat \ {0}) /\ Destroying(c) \in SUBSET own
  <2>1. /\ own \in SUBSET (Nat \ {0})
        /\ Destroying(c) = {i \in own : \A j \in own :
                              i < j /\ (\A k \in own : k <= i \/ j <= k) => m[i] # m[j]}
    BY <1>1, <1>2, DestroyingIs
  <2> QED BY <2>1
<1>4. ASSUME NEW i \in Destroying(c) PROVE n > 0 /\ \A k \in Destroying(c) : ~(n <= k /\ k < i)
  <2>1. i \in Nat \ {0} /\ i <= n
    BY <1>1, <1>3
  <2> QED BY <1>1, <1>3, <2>1
<1> QED BY <1>4 DEF Reached

\* What the class at one place of a lineage answers is defined from there on.
LEMMA NearestFrom ==
  ASSUME Types, LineagesNest, NEW c \in Class, NEW l \in DOMAIN lineage[c],
         NEW own, own = Defining(c, destroy), NEW m, m = Destroyers(c),
         NEW x, x = Nearest(lineage[c][l], destroy)
  PROVE  \/ x = NIL /\ \A k \in own : k < l
         \/ /\ x # NIL
            /\ \E d \in own : l <= d /\ x.function = m[d] /\ \A k \in own : k < l \/ d <= k
<1>1. PICK k : k = lineage[c][l]
  OBVIOUS
<1>2. /\ DOMAIN lineage[c] = 1..Len(lineage[c]) /\ Len(lineage[c]) \in Nat
      /\ \A i \in DOMAIN lineage[c] : lineage[c][i] \in Class
  BY PositionsAreNaturals, MethodsAssumption
<1>3. k \in Class /\ l \in Nat \ {0} /\ l <= Len(lineage[c])
  BY <1>1, <1>2
<1>4. DOMAIN lineage[k] = 1..Len(lineage[k]) /\ Len(lineage[k]) \in Nat
  BY <1>3, PositionsAreNaturals, MethodsAssumption
<1>5. /\ Len(lineage[k]) = Len(lineage[c]) - l + 1
      /\ \A j \in DOMAIN lineage[k] : lineage[k][j] = lineage[c][l + j - 1]
  BY <1>1 DEF LineagesNest
<1>6. \A j \in 1..Len(lineage[k]) : l + j - 1 \in DOMAIN lineage[c]
  BY <1>2, <1>3, <1>4, <1>5
<1>7. \A j : j \in Defining(k, destroy) <=> j \in 1..Len(lineage[k]) /\ l + j - 1 \in own
  BY <1>4, <1>5, <1>6 DEF Defining
<1>8. \A i \in own : i \in Nat /\ i <= Len(lineage[c]) /\ i \in DOMAIN lineage[c]
  BY <1>2 DEF Defining
<1>9. ASSUME NEW i \in own, l <= i PROVE i - l + 1 \in Defining(k, destroy)
  <2>1. i - l + 1 \in 1..Len(lineage[k]) /\ l + (i - l + 1) - 1 = i
    <3>1. PICK n, N : n = Len(lineage[k]) /\ N = Len(lineage[c])
      OBVIOUS
    <3>2. n = N - l + 1 /\ N \in Nat /\ l \in Nat /\ i \in Nat /\ i <= N
      BY <1>2, <1>3, <1>5, <1>8, <3>1
    <3>3. i - l + 1 \in 1..n /\ l + (i - l + 1) - 1 = i
      BY <1>9, <3>2
    <3> QED BY <3>1, <3>3
  <2> QED BY <1>7, <2>1
<1>10. IsNearest(k, destroy, x)
  BY <1>1, <1>3, NearestIs, MethodsAssumption
<1>11. CASE x = NIL /\ Defining(k, destroy) = {}
  BY <1>3, <1>8, <1>9, <1>11
<1>12. ASSUME NEW j \in Defining(k, destroy), \A i \in Defining(k, destroy) : j <= i,
              x = [function |-> methods[lineage[k][j]][destroy], owner |-> lineage[k][j]]
       PROVE  /\ x # NIL
              /\ \E d \in own : l <= d /\ x.function = m[d] /\ \A i \in own : i < l \/ d <= i
  <2>1. j \in 1..Len(lineage[k]) /\ l + j - 1 \in own
    BY <1>7
  <2>2. PICK d : d = l + j - 1
    OBVIOUS
  <2>3. d \in own /\ l <= d /\ lineage[k][j] = lineage[c][d]
    <3>1. j \in Nat \ {0} /\ j \in DOMAIN lineage[k]
      BY <1>4, <2>1
    <3>2. l <= d
      BY <1>3, <2>2, <3>1
    <3> QED BY <1>5, <2>1, <2>2, <3>1, <3>2
  <2>4. x.function = m[d]
    BY <1>8, <1>12, <2>3 DEF Destroyers
  <2>5. ASSUME NEW i \in own, l <= i PROVE d <= i
    <3>1. j <= i - l + 1
      BY <1>9, <1>12, <2>5
    <3> QED BY <1>3, <1>4, <1>8, <2>1, <2>2, <3>1
  <2>6. x # NIL
    <3>1. d \in DOMAIN lineage[c] /\ Living(methods[lineage[c][d]][destroy])
      BY <1>8, <2>3 DEF Defining
    <3>2. methods[lineage[c][d]][destroy] \in Function /\ lineage[c][d] \in Class
      BY <1>2, <3>1, MethodsAssumption DEF Types, Living
    <3> QED BY <1>12, <2>3, <3>2, MethodsAssumption
  <2> QED BY <1>3, <1>8, <2>3, <2>4, <2>5, <2>6
<1> QED BY <1>10, <1>11, <1>12 DEF IsNearest

\* What the destructors of a deletion did stays right while no method changes.
LEMMA DestroyingKept ==
  ASSUME Types, Types', SameLiving, NEW c \in Class, lineage'[c] = lineage[c], NEW n \in Nat
  PROVE  /\ Destroying(c)' = Destroying(c) /\ Reached(c, n)' = Reached(c, n)
         /\ Selection(Destroyers(c)', Reached(c, n)) = Selection(Destroyers(c), Reached(c, n))
<1>1. /\ DOMAIN lineage[c] = 1..Len(lineage[c]) /\ Len(lineage[c]) \in Nat
      /\ \A i \in DOMAIN lineage[c] : lineage[c][i] \in Class
  BY PositionsAreNaturals, MethodsAssumption
<1>2. \A i \in DOMAIN lineage[c] :
        /\ Living(methods[lineage[c][i]][destroy])' <=> Living(methods[lineage[c][i]][destroy])
        /\ Living(methods[lineage[c][i]][destroy])
             => methods'[lineage[c][i]][destroy] = methods[lineage[c][i]][destroy]
  BY <1>1, MethodsAssumption DEF SameLiving
<1>3. PICK own : own = {i \in DOMAIN lineage[c] : Living(methods[lineage[c][i]][destroy])}
  OBVIOUS
<1>4. own = {i \in DOMAIN lineage'[c] : Living(methods[lineage[c][i]][destroy])'}
  BY <1>2, <1>3
<1>5. PICK f : f = [i \in DOMAIN lineage[c] |-> methods[lineage[c][i]][destroy]]
  OBVIOUS
<1>6. PICK g : g = [i \in DOMAIN lineage[c] |-> methods'[lineage[c][i]][destroy]]
  OBVIOUS
<1>7. own \in SUBSET (DOMAIN lineage[c]) /\ \A i \in own : f[i] = g[i]
  BY <1>2, <1>3, <1>5, <1>6
<1>8. Destroying(c) = {i \in own : \A j \in own :
                         i < j /\ (\A k \in own : k <= i \/ j <= k) => f[i] # f[j]}
  <2>1. \A i \in own : methods[lineage[c][i]][destroy] = f[i]
    BY <1>5, <1>7
  <2> QED BY <1>3, <2>1 DEF Destroying
<1>9. Destroying(c)' = {i \in own : \A j \in own :
                         i < j /\ (\A k \in own : k <= i \/ j <= k) => g[i] # g[j]}
  <2>1. \A i \in own : methods'[lineage'[c][i]][destroy] = g[i]
    BY <1>6, <1>7
  <2> QED BY <1>4, <2>1 DEF Destroying, Living
<1>10. Destroying(c)' = Destroying(c)
  BY <1>7, <1>8, <1>9
<1>11. Reached(c, n)' = Reached(c, n) /\ Reached(c, n) \in SUBSET own
  BY <1>8, <1>10 DEF Reached
<1>12. Destroyers(c) = f /\ Destroyers(c)' = g /\ Len(f) = Len(g)
  <2>1. Destroyers(c) = f /\ Destroyers(c)' = g
    BY <1>5, <1>6 DEF Destroyers
  <2>2. /\ f = [i \in 1..Len(lineage[c]) |-> f[i]]
        /\ g = [i \in 1..Len(lineage[c]) |-> g[i]]
    BY <1>1, <1>5, <1>6
  <2>3. Len(f) = Len(lineage[c]) /\ Len(g) = Len(lineage[c])
    BY <1>1, <2>2
  <2> QED BY <2>1, <2>3
<1>13. Selection(g, Reached(c, n)) = Selection(f, Reached(c, n))
  BY <1>7, <1>11, <1>12, SelectionSame
<1> QED BY <1>10, <1>11, <1>12, <1>13

LEMMA RanKept ==
  ASSUME Types, Types', SameLiving, LineageGrows,
         NEW fr \in Frame, Exists(fr.class), RanOK(fr)
  PROVE  RanOK(fr)'
<1>1. fr.class \in Class /\ fr.level \in Nat /\ fr.level - 1 \in Nat
  BY DEF Frame
<1>2. lineage'[fr.class] = lineage[fr.class]
  BY <1>1 DEF LineageGrows
<1>3. NextRanOK(fr) => NextRanOK(fr)'
  BY <1>1, <1>2, DestroyingKept DEF NextRanOK
<1>4. BodyRanOK(fr) => BodyRanOK(fr)'
  BY <1>1, <1>2, DestroyingKept DEF BodyRanOK
<1> QED BY <1>3, <1>4 DEF RanOK

\* The calls in progress, as they are, without the innermost, with another one.
LEMMA AllRanKept ==
  ASSUME MethodsInv, DestroyInv, Types', SameLiving, LineageGrows, NEW q, q = stack
  PROVE  AllRanOK(q)'
<1>1. q \in Seq(Frame) /\ \A i \in DOMAIN q : FrameOK(q[i]) /\ RanOK(q[i])
  BY DEF MethodsInv, StackOK, FramesOK, DestroyInv, AllRanOK
<1>2. \A i \in DOMAIN q : q[i] \in Frame /\ Exists(q[i].class)
  BY <1>1, LenProperties, ElementOfSeq DEF FrameOK
<1>3. \A i \in DOMAIN q : RanOK(q[i])'
  BY <1>1, <1>2, RanKept DEF MethodsInv, DataInv
<1> QED BY <1>3 DEF AllRanOK

LEMMA AllRanPop ==
  ASSUME NEW q \in Seq(Frame), q # <<>>, AllRanOK(q)'
  PROVE  AllRanOK(Pop(q))'
<1> DEFINE r == SubSeq(q, 1, Len(q) - 1)
<1>1. r \in Seq(Frame) /\ Len(r) = Len(q) - 1 /\ \A k \in 1..(Len(q) - 1) : r[k] = q[k]
  BY FrontProperties
<1>2. Len(q) \in Nat /\ DOMAIN q = 1..Len(q)
  BY LenProperties
<1>3. DOMAIN r = 1..(Len(q) - 1)
  BY <1>1, LenProperties
<1>4. \A k \in DOMAIN r : r[k] = q[k] /\ k \in DOMAIN q
  BY <1>1, <1>2, <1>3
<1> HIDE DEF r
<1>5. AllRanOK(r)'
  BY <1>4 DEF AllRanOK
<1> QED BY <1>5 DEF Pop, r

LEMMA AllRanAppend ==
  ASSUME NEW q \in Seq(Frame), AllRanOK(q)', NEW fr \in Frame, RanOK(fr)'
  PROVE  AllRanOK(Append(q, fr))'
<1>1. PICK r : r = Append(q, fr)
  OBVIOUS
<1>2. \A i \in DOMAIN r : r[i] = fr \/ (i \in DOMAIN q /\ r[i] = q[i])
  BY <1>1, AppendProperties
<1>3. AllRanOK(r)'
  BY <1>2 DEF AllRanOK
<1> QED BY <1>1, <1>3

LEMMA AllRanIs ==
  ASSUME NEW q, stack' = q, AllRanOK(q)', LineagesNest'
  PROVE  DestroyInv'
BY DEF DestroyInv, AllRanOK

\* A message runs no destructor.
LEMMA SendRan ==
  ASSUME NEW fr \in Frame, fr.op = "send", fr.phase # "next"
  PROVE  RanOK(fr)'
BY DEF RanOK

\* What a change of methods, or a new table, leaves of the calls.
LEMMA DisturbedRan ==
  ASSUME StackOK, DestroyInv, NEW q, q = Disturbed
  PROVE  AllRanOK(q)'
<1>1. /\ stack \in Seq(Frame) /\ DOMAIN q = DOMAIN stack
      /\ \A i \in DOMAIN q : /\ stack[i] \in Frame /\ RanOK(stack[i])
                             /\ q[i] = [stack[i] EXCEPT !.steady = (stack[i].op = "send")]
  BY LenProperties, ElementOfSeq DEF StackOK, FramesOK, Disturbed, DestroyInv, AllRanOK
<1>2. ASSUME NEW i \in DOMAIN q PROVE RanOK(q[i])'
  <2>1. /\ q[i].op = stack[i].op /\ q[i].phase = stack[i].phase
        /\ q[i].steady = (stack[i].op = "send")
    BY <1>1 DEF Frame
  <2> QED BY <1>1, <2>1 DEF RanOK
<1> QED BY <1>2 DEF AllRanOK

LEMMA TornRan ==
  ASSUME NEW q \in Seq(Frame), AllRanOK(q)', NEW f, NEW r, r = Torn(q, f)
  PROVE  AllRanOK(r)'
<1>1. DOMAIN r = DOMAIN q
  BY TornShape
<1>2. ASSUME NEW i \in DOMAIN q PROVE RanOK(r[i])'
  <2>1. RanOK(q[i])'
    BY DEF AllRanOK
  <2> QED BY <2>1, TornSame DEF RanOK, NextRanOK, BodyRanOK
<1> QED BY <1>1, <1>2 DEF AllRanOK

LEMMA CallsRan ==
  ASSUME MethodsInv, DestroyInv, NEW c \in Class, NEW s \in Selector, Exists(c), getmethod(c, s),
         UNCHANGED <<lineage, zombies>>, NEW q, q = Calls(c, s)
  PROVE  /\ AllRanOK(q)' /\ q \in Seq(Frame) /\ Len(q) = Len(stack) /\ LineagesNest'
         /\ stack # <<>> => q # <<>>
<1>1. DataInv' /\ SameLiving /\ FramesOK(q)' /\ (stack # <<>> => q # <<>>)
  BY LookupStep
<1>2. q \in Seq(Frame)
  BY <1>1 DEF FramesOK
<1>3. LineageGrows
  BY DEF LineageGrows
<1>4. Len(q) = Len(stack)
  BY CallsOK DEF MethodsInv
<1>5. PICK st : st = stack
  OBVIOUS
<1>6. AllRanOK(st)'
  BY <1>1, <1>3, <1>5, AllRanKept DEF DataInv
<1>7. ASSUME q = stack PROVE AllRanOK(q)'
  BY <1>1, <1>3, <1>7, AllRanKept DEF DataInv
<1>8. ASSUME q = Freed(c) PROVE AllRanOK(q)'
  <2>1. /\ stack \in Seq(Frame) /\ DOMAIN q = DOMAIN stack
        /\ \A i \in DOMAIN q : \/ q[i] = stack[i]
                               \/ q[i] = [stack[i] EXCEPT !.stale = TRUE,
                                                          !.steady = (stack[i].op = "send")]
    BY <1>8 DEF MethodsInv, StackOK, FramesOK, Freed
  <2>2. \A i \in DOMAIN stack : stack[i] \in Frame
    <3>1. stack \in Seq(Frame)
      BY <2>1
    <3> QED BY <3>1, LenProperties, ElementOfSeq
  <2>3. ASSUME NEW i \in DOMAIN q PROVE RanOK(q[i])'
    <3>1. RanOK(st[i])'
      BY <1>5, <1>6, <2>1 DEF AllRanOK
    <3>2. CASE q[i] = stack[i]
      BY <1>5, <3>1, <3>2
    <3>3. CASE q[i] = [stack[i] EXCEPT !.stale = TRUE, !.steady = (stack[i].op = "send")]
      <4>1. /\ q[i].op = st[i].op /\ q[i].phase = st[i].phase
            /\ q[i].steady = (st[i].op = "send")
        BY <1>5, <2>1, <2>2, <3>3 DEF Frame
      <4> QED BY <3>1, <4>1 DEF RanOK
    <3> QED BY <2>1, <3>2, <3>3
  <2> QED BY <2>3 DEF AllRanOK
<1>9. LineagesNest'
  BY DEF DestroyInv, LineagesNest
<1> QED BY <1>1, <1>2, <1>4, <1>7, <1>8, <1>9 DEF Calls

\* A class that is made is on top of the lineage of its superclass.
LEMMA NewClassNests ==
  ASSUME MethodsInv, LineagesNest, NEW c \in Class, NEW super \in Class, new_ooclass(c, super)
  PROVE  LineagesNest'
<1>1. /\ Types /\ LineageOK /\ Types'
      /\ \A d \in Class : d # c => lineage'[d] = lineage[d]
      /\ ~Exists(c) /\ Exists(super)
  BY NewClassData DEF MethodsInv, DataInv, new_ooclass
<1>2. \A d \in Class : /\ lineage[d] \in Seq(Class) /\ DOMAIN lineage[d] = 1..Len(lineage[d])
                       /\ Len(lineage[d]) \in Nat
                       /\ \A i \in DOMAIN lineage[d] : lineage[d][i] \in Class /\ lineage[d][i] # c
  BY <1>1, PositionsAreNaturals, MethodsAssumption DEF Types, LineageOK
<1>3. lineage'[c] = <<c>> \o lineage[super]
  BY <1>1 DEF new_ooclass, Types
<1>4. /\ Len(lineage'[c]) = Len(lineage[super]) + 1
      /\ DOMAIN lineage'[c] = 1..(Len(lineage[super]) + 1)
      /\ lineage'[c][1] = c
      /\ \A i \in 2..(Len(lineage[super]) + 1) : lineage'[c][i] = lineage[super][i - 1]
  <2>1. <<c>> \in Seq(Class) /\ Len(<<c>>) = 1 /\ <<c>>[1] = c
    OBVIOUS
  <2>2. lineage[super] \in Seq(Class) /\ Len(lineage[super]) \in Nat
    BY <1>2
  <2>3. /\ lineage'[c] \in Seq(Class) /\ Len(lineage'[c]) = 1 + Len(lineage[super])
        /\ \A i \in 1..(1 + Len(lineage[super])) :
             lineage'[c][i] = IF i <= 1 THEN <<c>>[i] ELSE lineage[super][i - 1]
    BY <1>3, <2>1, <2>2, ConcatProperties
  <2> HIDE <1>3
  <2>4. DOMAIN lineage'[c] = 1..(1 + Len(lineage[super]))
    BY <2>3, LenProperties
  <2>5. 1 \in 1..(1 + Len(lineage[super]))
    BY <2>2
  <2>6. \A i \in 2..(Len(lineage[super]) + 1) : i \in 1..(1 + Len(lineage[super])) /\ ~(i <= 1)
    BY <2>2
  <2> QED BY <2>1, <2>2, <2>3, <2>4, <2>5, <2>6
<1>5. ASSUME NEW d \in Class, NEW i \in DOMAIN lineage'[d]
      PROVE  /\ Len(lineage'[lineage'[d][i]]) = Len(lineage'[d]) - i + 1
             /\ \A j \in DOMAIN lineage'[lineage'[d][i]] :
                  lineage'[lineage'[d][i]][j] = lineage'[d][i + j - 1]
  <2>1. CASE d # c
    <3>1. lineage'[d] = lineage[d] /\ i \in DOMAIN lineage[d]
      BY <1>1, <1>5, <2>1
    <3>2. lineage'[lineage[d][i]] = lineage[lineage[d][i]]
      BY <1>1, <1>2, <3>1
    <3> QED BY <3>1, <3>2 DEF LineagesNest
  <2>2. CASE d = c /\ i = 1
    <3>1. lineage'[d][i] = c
      BY <1>4, <2>2
    <3>2. Len(lineage'[c]) \in Nat /\ DOMAIN lineage'[c] = 1..Len(lineage'[c])
      BY <1>2, <1>4
    <3> QED BY <2>2, <3>1, <3>2
  <2>3. CASE d = c /\ i # 1
    <3>1. Len(lineage[super]) \in Nat /\ DOMAIN lineage[super] = 1..Len(lineage[super])
      BY <1>2
    <3>2. i \in 2..(Len(lineage[super]) + 1) /\ i - 1 \in DOMAIN lineage[super] /\ i \in Nat
      BY <1>4, <1>5, <2>3, <3>1
    <3>3. PICK k : k = lineage[super][i - 1]
      OBVIOUS
    <3>4. k \in Class /\ k # c /\ lineage'[d][i] = k /\ lineage'[k] = lineage[k]
      BY <1>1, <1>2, <1>4, <2>3, <3>2, <3>3
    <3>5. /\ Len(lineage[k]) = Len(lineage[super]) - (i - 1) + 1
          /\ \A j \in DOMAIN lineage[k] : lineage[k][j] = lineage[super][(i - 1) + j - 1]
      BY <3>2, <3>3 DEF LineagesNest
    <3>6. Len(lineage[k]) = Len(lineage'[d]) - i + 1
      <4>1. Len(lineage'[d]) = Len(lineage[super]) + 1
        BY <1>4, <2>3
      <4>2. PICK n : n = Len(lineage[super])
        OBVIOUS
      <4>3. n \in Nat /\ Len(lineage[k]) = n - (i - 1) + 1 /\ Len(lineage'[d]) = n + 1
        BY <3>1, <3>5, <4>1, <4>2
      <4> QED BY <3>2, <4>3
    <3>7. ASSUME NEW j \in DOMAIN lineage[k] PROVE lineage[k][j] = lineage'[d][i + j - 1]
      <4>1. j \in Nat \ {0} /\ j <= Len(lineage[k])
        BY <1>2, <3>4, <3>7
      <4>2. i + j - 1 \in 2..(Len(lineage[super]) + 1) /\ (i + j - 1) - 1 = (i - 1) + j - 1
        BY <3>1, <3>2, <3>5, <4>1
      <4>3. lineage'[d][i + j - 1] = lineage[super][(i + j - 1) - 1]
        BY <1>4, <2>3, <4>2
      <4> QED BY <3>5, <4>2, <4>3
    <3> QED BY <3>4, <3>6, <3>7
  <2> QED BY <2>1, <2>2, <2>3
<1> QED BY <1>5 DEF LineagesNest

\* One more class of a deletion: its destructor runs, unless it ran last.
LEMMA NextRan ==
  ASSUME Types, LineagesNest, NEW t \in Frame, RanOK(t), t.phase = "next",
         t.level \in DOMAIN lineage[t.class],
         NEW x, x = Nearest(lineage[t.class][t.level], destroy), x # NIL,
         NEW fr, fr = IF x.function = LastRan(t.ran) THEN [t EXCEPT !.level = @ + 1]
                      ELSE [t EXCEPT !.phase = "body", !.hx = x, !.stale = FALSE]
  PROVE  RanOK(fr)
<1>1. PICK c : c = t.class
  OBVIOUS
<1>2. PICK l : l = t.level
  OBVIOUS
<1>3. PICK own : own = Defining(c, destroy)
  OBVIOUS
<1>4. PICK m : m = Destroyers(c)
  OBVIOUS
<1>5. c \in Class /\ l \in DOMAIN lineage[c] /\ l \in Nat \ {0} /\ t.op = "delete"
  BY <1>1, <1>2 DEF Frame, RanOK
<1>6. PICK n : n = l - 1
  OBVIOUS
<1>7. n \in Nat /\ l = n + 1
  BY <1>5, <1>6
<1>8. PICK d \in own : l <= d /\ x.function = m[d] /\ \A k \in own : k < l \/ d <= k
  BY <1>1, <1>2, <1>3, <1>4, <1>5, NearestFrom
<1>9. /\ own \in SUBSET (DOMAIN lineage[c]) /\ own \in SUBSET (Nat \ {0})
      /\ m \in Seq(Function \cup {NIL}) /\ DOMAIN m = DOMAIN lineage[c]
      /\ Destroying(c) \in SUBSET own
      /\ \A i \in own : m[i] \in Function /\ m[i] # NIL
  <2>1. Destroying(c) = {i \in own : \A j \in own :
                           i < j /\ (\A k \in own : k <= i \/ j <= k) => m[i] # m[j]}
    BY <1>3, <1>4, <1>5, DestroyingIs
  <2> QED BY <1>3, <1>4, <1>5, <2>1, DestroyingIs
<1>10. n < d /\ \A k \in own : k <= n \/ d <= k
  BY <1>7, <1>8, <1>9
<1>11. PICK e \in Destroying(c) :
           /\ n < e /\ m[e] = m[d]
           /\ \/ /\ Reached(c, n + 1) = Reached(c, n) \cup {e}
                 /\ \A i \in Reached(c, n) : i < e
                 /\ \/ n = 0 /\ Reached(c, n) = {}
                    \/ n \in Reached(c, n) /\ m[n] # m[d] /\ \A i \in Reached(c, n) : i <= n
              \/ /\ Reached(c, n + 1) = Reached(c, n)
                 /\ e \in Reached(c, n) /\ \A i \in Reached(c, n) : i <= e
  BY <1>3, <1>4, <1>5, <1>7, <1>8, <1>10, ReachedNext
<1>12. Reached(c, n) \in SUBSET (DOMAIN m) /\ e \in DOMAIN m
  BY <1>9 DEF Reached
<1>13. PICK ran : ran = t.ran
  OBVIOUS
<1>14. fr.op = t.op /\ fr.class = c /\ fr.ran = ran /\ fr.steady = t.steady
  BY <1>1, <1>13 DEF Frame
<1>15. CASE ~t.steady
  BY <1>5, <1>14, <1>15 DEF RanOK
<1>16. CASE t.steady
  <2>1. ran \in Selection(m, Reached(c, n))
    BY <1>1, <1>2, <1>4, <1>5, <1>6, <1>13, <1>16 DEF RanOK, NextRanOK
  <2>2. /\ Reached(c, n) = {} => ran = <<>>
        /\ \A i \in Reached(c, n) : (\A k \in Reached(c, n) : k <= i) => LastRan(ran) = m[i]
    BY <1>9, <1>12, <2>1, SelectionLast DEF LastRan
  <2>3. CASE /\ Reached(c, n + 1) = Reached(c, n) \cup {e}
             /\ \A i \in Reached(c, n) : i < e
             /\ \/ n = 0 /\ Reached(c, n) = {}
                \/ n \in Reached(c, n) /\ m[n] # m[d] /\ \A i \in Reached(c, n) : i <= n
    <3>1. LastRan(ran) # m[d]
      BY <1>9, <2>2, <2>3 DEF LastRan
    <3>2. fr = [t EXCEPT !.phase = "body", !.hx = x, !.stale = FALSE]
      BY <1>8, <1>13, <3>1
    <3>3. fr.phase = "body" /\ fr.hx = x /\ fr.level = l /\ ~fr.stale
      BY <1>2, <3>2 DEF Frame
    <3>4. Append(ran, m[e]) \in Selection(m, Reached(c, n) \cup {e})
      BY <1>9, <1>12, <2>1, <2>3, SelectionAppend
    <3>5. BodyRanOK(fr)
      BY <1>4, <1>7, <1>8, <1>11, <1>14, <2>3, <3>3, <3>4 DEF BodyRanOK
    <3> QED BY <1>5, <1>14, <3>3, <3>5 DEF RanOK
  <2>4. CASE /\ Reached(c, n + 1) = Reached(c, n)
             /\ e \in Reached(c, n) /\ \A i \in Reached(c, n) : i <= e
    <3>1. LastRan(ran) = m[d]
      BY <1>11, <2>2, <2>4
    <3>2. fr = [t EXCEPT !.level = @ + 1]
      BY <1>8, <1>13, <3>1
    <3>3. fr.phase = "next" /\ fr.level = l + 1
      BY <1>2, <3>2 DEF Frame
    <3>4. fr.level - 1 = n + 1
      BY <1>7, <3>3
    <3>5. NextRanOK(fr)
      BY <1>4, <1>14, <2>1, <2>4, <3>4 DEF NextRanOK
    <3> QED BY <1>5, <1>14, <3>3, <3>5 DEF RanOK
  <2> QED BY <1>11, <2>3, <2>4
<1> QED BY <1>15, <1>16

-----------------------------------------------------------------------------
(* Every step keeps what is known of the destructors.                      *)

LEMMA LispRan ==
  ASSUME MethodsInv, MethodsInv', DestroyInv,
         \/ \E c, super \in Class : new_ooclass(c, super)
         \/ \E f \in Function : DeleteFunction(f)
         \/ \E c \in Class, s \in Selector :
              \/ \E v \in Function \cup {NIL} : putmethod(c, s, v)
              \/ \E f \in Function : bread(c, s, f)
              \/ checksend(c, s)
  PROVE  DestroyInv'
<1>1. ASSUME NEW c \in Class, NEW super \in Class, new_ooclass(c, super)
      PROVE  DestroyInv'
  <2>1. LineagesNest'
    BY <1>1, NewClassNests DEF DestroyInv
  <2>2. LineageGrows
    BY <1>1, NewClassData DEF LineageGrows, new_ooclass, MethodsInv
  <2>3. SameLiving /\ stack' = stack
    BY <1>1 DEF SameLiving, Living, new_ooclass
  <2>4. PICK q : q = stack
    OBVIOUS
  <2>5. AllRanOK(q)'
    BY <2>2, <2>3, <2>4, AllRanKept DEF MethodsInv, DataInv
  <2> QED BY <2>1, <2>3, <2>4, <2>5, AllRanIs
<1>2. ASSUME UNCHANGED lineage, stack' = Disturbed PROVE DestroyInv'
  <2>1. LineagesNest'
    BY <1>2 DEF DestroyInv, LineagesNest
  <2>2. PICK q : q = Disturbed
    OBVIOUS
  <2>3. AllRanOK(q)'
    BY <2>2, DisturbedRan DEF MethodsInv
  <2> QED BY <1>2, <2>1, <2>2, <2>3, AllRanIs
<1>3. ASSUME NEW c \in Class, NEW s \in Selector, checksend(c, s) PROVE DestroyInv'
  <2>1. PICK q : q = Calls(c, s)
    OBVIOUS
  <2>2. Exists(c) /\ getmethod(c, s) /\ stack' = q /\ UNCHANGED <<lineage, zombies>>
    BY <1>3, <2>1 DEF checksend
  <2>3. AllRanOK(q)' /\ LineagesNest'
    BY <2>1, <2>2, CallsRan
  <2> QED BY <2>2, <2>3, AllRanIs
<1>4. ASSUME NEW f \in Function, DeleteFunction(f) PROVE DestroyInv'
  <2>1. UNCHANGED lineage
    BY <1>4 DEF DeleteFunction
  <2>2. LineagesNest'
    BY <2>1 DEF DestroyInv, LineagesNest
  <2>3. PICK q : q = Disturbed
    OBVIOUS
  <2>4. PICK r : r = Torn(q, f)
    OBVIOUS
  <2>5. stack' = r
    BY <1>4, <2>3, <2>4 DEF DeleteFunction
  <2>6. AllRanOK(q)' /\ q \in Seq(Frame)
    BY <2>3, DisturbedRan, DisturbedSeq DEF MethodsInv
  <2>7. AllRanOK(r)'
    BY <2>4, <2>6, TornRan
  <2> QED BY <2>2, <2>5, <2>7, AllRanIs
<1>5. ASSUME NEW c \in Class, NEW s \in Selector, NEW v \in Function \cup {NIL}, putmethod(c, s, v)
      PROVE  DestroyInv'
  BY <1>2, <1>5 DEF putmethod
<1>6. ASSUME NEW c \in Class, NEW s \in Selector, NEW f \in Function, bread(c, s, f)
      PROVE  DestroyInv'
  BY <1>2, <1>6 DEF bread
<1> QED BY <1>1, <1>3, <1>4, <1>5, <1>6

\* The frame of a message.
LEMMA SendingRan ==
  ASSUME NEW c \in Class, NEW phase \in {"args", "unknown"}, NEW hx \in Definition \cup {NIL}
  PROVE  Sending(c, phase, hx) \in Frame /\ RanOK(Sending(c, phase, hx))'
<1>1. <<>> \in Seq(Function \cup {NIL})
  OBVIOUS
<1>2. PICK fr : fr = Sending(c, phase, hx)
  OBVIOUS
<1>3. fr \in Frame /\ fr.op = "send" /\ fr.phase # "next"
  BY <1>1, <1>2 DEF Sending, Frame
<1> QED BY <1>2, <1>3, SendRan

LEMMA SendRanStep ==
  ASSUME MethodsInv, MethodsInv', DestroyInv, NEW c \in Class, NEW s \in Selector,
         send_message(c, s)
  PROVE  DestroyInv'
<1>1. PICK q : q = Calls(c, s)
  OBVIOUS
<1>2. Exists(c) /\ getmethod(c, s) /\ UNCHANGED <<lineage, zombies>>
  BY DEF send_message
<1>3. AllRanOK(q)' /\ q \in Seq(Frame) /\ LineagesNest'
  BY <1>1, <1>2, CallsRan
<1>4. PICK hx : hx = found'
  OBVIOUS
<1>5. PICK phase : phase = IF hx = NIL THEN "unknown" ELSE "args"
  OBVIOUS
<1>6. hx \in Definition \cup {NIL}
  BY <1>4 DEF MethodsInv, DataInv, Types
<1>7. PICK fr : fr = Sending(c, phase, hx)
  OBVIOUS
<1>8. fr \in Frame /\ RanOK(fr)'
  BY <1>5, <1>6, <1>7, SendingRan
<1>9. PICK r : r = Append(q, fr)
  OBVIOUS
<1>10. AllRanOK(r)'
  BY <1>3, <1>8, <1>9, AllRanAppend
<1>11. stack' = r
  BY <1>1, <1>4, <1>5, <1>7, <1>9 DEF send_message
<1> QED BY <1>3, <1>10, <1>11, AllRanIs

LEMMA SendUnknownRan ==
  ASSUME MethodsInv, MethodsInv', DestroyInv, SendUnknown
  PROVE  DestroyInv'
<1>1. PICK c : c = Top.class
  OBVIOUS
<1>2. stack # <<>> /\ Top \in Frame /\ FrameOK(Top)
  BY TopFrame DEF SendUnknown, MethodsInv
<1>3. c \in Class /\ Exists(c) /\ unknown \in Selector
  BY <1>1, <1>2, MethodsAssumption DEF Frame, FrameOK
<1>4. PICK q : q = Calls(c, unknown)
  OBVIOUS
<1>5. getmethod(c, unknown) /\ UNCHANGED <<lineage, zombies>>
  BY <1>1 DEF SendUnknown
<1>6. AllRanOK(q)' /\ q \in Seq(Frame) /\ q # <<>> /\ LineagesNest'
  BY <1>2, <1>3, <1>4, <1>5, CallsRan
<1>7. CASE found' = NIL
  <2>1. stack' = <<>>
    BY <1>7 DEF SendUnknown
  <2> QED BY <1>6, <2>1 DEF DestroyInv, AllRanOK
<1>8. CASE found' # NIL
  <2>1. PICK hx : hx = found'
    OBVIOUS
  <2>2. hx \in Definition \cup {NIL}
    BY <2>1 DEF MethodsInv, DataInv, Types
  <2>3. PICK fr : fr = Sending(c, "args", hx)
    OBVIOUS
  <2>4. fr \in Frame /\ RanOK(fr)'
    BY <1>3, <2>2, <2>3, SendingRan
  <2>5. PICK r : r = Pop(q)
    OBVIOUS
  <2>6. AllRanOK(r)' /\ r \in Seq(Frame)
    BY <1>6, <2>5, AllRanPop, FrontProperties DEF Pop
  <2>7. PICK p : p = Append(r, fr)
    OBVIOUS
  <2>8. AllRanOK(p)'
    BY <2>4, <2>6, <2>7, AllRanAppend
  <2>9. stack' = p
    BY <1>1, <1>4, <1>8, <2>1, <2>3, <2>5, <2>7 DEF SendUnknown
  <2> QED BY <1>6, <2>8, <2>9, AllRanIs
<1> QED BY <1>7, <1>8

\* What is known of the calls in progress when a step leaves methods alone.
LEMMA OnlyStackRan ==
  ASSUME MethodsInv, MethodsInv', DestroyInv, UNCHANGED <<zombies, lineage, methods>>,
         NEW q, q = stack, NEW t, t = Top, NEW r, r = Pop(q)
  PROVE  /\ LineagesNest' /\ q \in Seq(Frame) /\ AllRanOK(q)'
         /\ SameLiving /\ LineageGrows
         /\ stack # <<>> => /\ t \in Frame /\ FrameOK(t) /\ RanOK(t) /\ RanOK(t)'
                            /\ r \in Seq(Frame) /\ AllRanOK(r)'
<1>1. LineagesNest'
  BY DEF DestroyInv, LineagesNest
<1>2. SameLiving /\ LineageGrows
  BY DEF SameLiving, Living, LineageGrows
<1>3. AllRanOK(q)' /\ q \in Seq(Frame)
  BY <1>2, AllRanKept DEF MethodsInv, DataInv, StackOK, FramesOK
<1>4. ASSUME stack # <<>>
      PROVE  /\ t \in Frame /\ FrameOK(t) /\ RanOK(t) /\ RanOK(t)'
             /\ r \in Seq(Frame) /\ AllRanOK(r)'
  <2>1. /\ t \in Frame /\ FrameOK(t) /\ Len(stack) \in DOMAIN stack
        /\ q[Len(stack)] = t /\ Len(stack) \in DOMAIN q
    BY <1>4, TopFrame DEF MethodsInv, Top
  <2>2. RanOK(t)
    BY <2>1 DEF DestroyInv, AllRanOK
  <2>3. RanOK(t)'
    BY <1>3, <2>1 DEF AllRanOK
  <2>4. r \in Seq(Frame) /\ AllRanOK(r)'
    BY <1>3, <1>4, AllRanPop, FrontProperties DEF Pop
  <2> QED BY <2>1, <2>2, <2>3, <2>4
<1> QED BY <1>1, <1>2, <1>3, <1>4

\* Deletions that begin, destructors that return, and the returns of messages.
LEMMA ReturnRan ==
  ASSUME MethodsInv, MethodsInv', DestroyInv,
         \/ ApplyMethod \/ MethodReturns \/ LispError \/ DestructorsEnd \/ DestructorReturns
         \/ \E c \in Class : Delete(c)
  PROVE  DestroyInv'
<1>1. found' = NIL /\ UNCHANGED <<zombies, lineage, methods, hashok, hashtable>>
  BY DEF ApplyMethod, MethodReturns, LispError, DestructorsEnd, DestructorReturns, Delete
<1>2. PICK q : q = stack
  OBVIOUS
<1>3. PICK t : t = Top
  OBVIOUS
<1>4. PICK r : r = Pop(q)
  OBVIOUS
<1>5. /\ LineagesNest' /\ q \in Seq(Frame) /\ AllRanOK(q)'
      /\ SameLiving /\ LineageGrows
      /\ stack # <<>> => /\ t \in Frame /\ FrameOK(t) /\ RanOK(t) /\ RanOK(t)'
                         /\ r \in Seq(Frame) /\ AllRanOK(r)'
  BY <1>1, <1>2, <1>3, <1>4, OnlyStackRan
<1>6. ASSUME NEW p, stack' = p, AllRanOK(p)' PROVE DestroyInv'
  BY <1>5, <1>6, AllRanIs
<1>7. ASSUME stack' = <<>> PROVE DestroyInv'
  BY <1>5, <1>7 DEF DestroyInv, AllRanOK
<1>8. ASSUME stack # <<>>, NEW fr \in Frame, RanOK(fr)', stack' = Append(r, fr)
      PROVE  DestroyInv'
  <2>1. PICK p : p = Append(r, fr)
    OBVIOUS
  <2>2. AllRanOK(p)'
    BY <1>5, <1>8, <2>1, AllRanAppend
  <2> QED BY <1>6, <1>8, <2>1, <2>2
<1>9. CASE MethodReturns \/ DestructorsEnd
  <2>1. stack # <<>> /\ stack' = r
    BY <1>2, <1>4, <1>9 DEF MethodReturns, DestructorsEnd
  <2> QED BY <1>5, <1>6, <2>1
<1>10. CASE LispError
  BY <1>7, <1>10 DEF LispError
<1>11. CASE ApplyMethod
  <2>1. stack # <<>> /\ t.phase = "args"
    BY <1>3, <1>11 DEF ApplyMethod
  <2>2. PICK fr : fr = [t EXCEPT !.phase = "body", !.stale = FALSE]
    OBVIOUS
  <2>3. t \in Frame /\ t.op = "send"
    BY <1>5, <2>1 DEF FrameOK, Frame
  <2>4. fr \in Frame /\ fr.op = "send" /\ fr.phase # "next"
    BY <2>2, <2>3 DEF Frame
  <2>5. RanOK(fr)'
    BY <2>4, SendRan
  <2>6. stack' = Append(r, fr) \/ stack' = <<>>
    BY <1>2, <1>3, <1>4, <1>11, <2>2 DEF ApplyMethod
  <2> QED BY <1>7, <1>8, <2>1, <2>4, <2>5, <2>6
<1>12. CASE DestructorReturns
  <2>1. stack # <<>> /\ t.phase = "body" /\ t.op = "delete"
    BY <1>3, <1>12 DEF DestructorReturns
  <2>2. t \in Frame /\ FrameOK(t) /\ RanOK(t)'
    BY <1>5, <2>1
  <2>3. PICK f \in IF t.stale THEN Function \cup {NIL} ELSE {t.hx.function} :
          stack' = Append(r, [t EXCEPT !.phase = "next", !.level = @ + 1, !.hx = NIL,
                                       !.stale = FALSE, !.torn = FALSE, !.ran = Append(@, f)])
    BY <1>2, <1>3, <1>4, <1>12 DEF DestructorReturns
  <2>4. f \in Function \cup {NIL}
    <3>1. ~t.stale => t.hx \in Definition
      BY <2>1, <2>2 DEF FrameOK, NeedsTable, Frame
    <3> QED BY <2>3, <3>1 DEF Definition
  <2>5. PICK fr : fr = [t EXCEPT !.phase = "next", !.level = @ + 1, !.hx = NIL,
                                 !.stale = FALSE, !.torn = FALSE, !.ran = Append(@, f)]
    OBVIOUS
  <2>6. Append(t.ran, f) \in Seq(Function \cup {NIL})
    BY <2>2, <2>4, AppendProperties DEF Frame
  <2>7. fr = [op |-> "delete", phase |-> "next", class |-> t.class, level |-> t.level + 1,
              hx |-> NIL, stale |-> FALSE, torn |-> FALSE, ran |-> Append(t.ran, f), steady |-> t.steady]
    BY <2>1, <2>2, <2>5 DEF Frame
  <2>8. /\ t.level \in Nat \ {0} /\ t.level + 1 \in Nat \ {0} /\ (t.level + 1) - 1 = t.level
        /\ t.class \in Class /\ t.steady \in BOOLEAN
    BY <2>2 DEF Frame
  <2>9. fr \in Frame
    BY <2>6, <2>7, <2>8 DEF Frame
  <2>10. ASSUME t.steady PROVE NextRanOK(fr)'
    <3>1. BodyRanOK(t)'
      BY <2>1, <2>2, <2>10 DEF RanOK
    <3>2. /\ f = t.hx.function
          /\ Append(t.ran, f) \in (Selection(Destroyers(t.class), Reached(t.class, t.level)))'
      BY <2>3, <3>1 DEF BodyRanOK
    <3>3. fr.ran = Append(t.ran, f) /\ fr.class = t.class /\ fr.level - 1 = t.level
      BY <2>7, <2>8
    <3> QED BY <3>2, <3>3 DEF NextRanOK
  <2>11. RanOK(fr)'
    <3>1. fr.phase = "next" /\ fr.op = "delete" /\ fr.steady = t.steady
      BY <2>7
    <3> QED BY <2>10, <3>1 DEF RanOK
  <2> QED BY <1>8, <2>1, <2>3, <2>5, <2>9, <2>11
<1>13. ASSUME NEW c \in Class, Delete(c) PROVE DestroyInv'
  <2>1. PICK fr : fr = [op |-> "delete", phase |-> "next", class |-> c, level |-> 1,
                        hx |-> NIL, stale |-> FALSE, torn |-> FALSE, ran |-> <<>>, steady |-> TRUE]
    OBVIOUS
  <2>2. <<>> \in Seq(Function \cup {NIL})
    OBVIOUS
  <2>3. fr \in Frame
    BY <2>1, <2>2 DEF Frame
  <2>4. NextRanOK(fr)
    <3>1. Reached(c, 0) = {}
      BY DEF Reached
    <3>2. PICK m : m = Destroyers(c)
      OBVIOUS
    <3>3. m \in Seq(Function \cup {NIL})
      <4>1. PICK own : own = Defining(c, destroy)
        OBVIOUS
      <4> QED BY <3>2, <4>1, DestroyingIs DEF MethodsInv, DataInv
    <3>4. <<>> \in Selection(m, {})
      BY <3>3, SelectionEmpty
    <3>5. fr.ran = <<>> /\ fr.class = c /\ fr.level - 1 = 0
      BY <2>1
    <3> QED BY <3>1, <3>2, <3>4, <3>5 DEF NextRanOK
  <2>5. RanOK(fr) /\ Exists(fr.class)
    BY <1>13, <2>1, <2>4 DEF RanOK, Delete
  <2>6. RanOK(fr)'
    BY <1>5, <2>3, <2>5, RanKept DEF MethodsInv, DataInv
  <2>7. PICK p : p = Append(q, fr)
    OBVIOUS
  <2>8. AllRanOK(p)'
    BY <1>5, <2>3, <2>6, <2>7, AllRanAppend
  <2>9. stack' = p
    BY <1>2, <1>13, <2>1, <2>7 DEF Delete
  <2> QED BY <1>6, <2>8, <2>9
<1> QED BY <1>9, <1>10, <1>11, <1>12, <1>13

LEMMA DestructorRan ==
  ASSUME MethodsInv, MethodsInv', DestroyInv, NextDestructor \/ DestructorsBreak
  PROVE  DestroyInv'
<1>1. PICK t : t = Top
  OBVIOUS
<1>2. PICK k : k = lineage[t.class][t.level]
  OBVIOUS
<1>3. /\ stack # <<>> /\ t.phase = "next" /\ t.level <= Len(lineage[t.class])
      /\ getmethod(k, destroy) /\ UNCHANGED <<lineage, zombies>>
  BY <1>1, <1>2 DEF NextDestructor, DestructorsBreak
<1>4. t \in Frame /\ FrameOK(t) /\ t.level \in DOMAIN lineage[t.class] /\ k \in Class /\ Exists(k)
  BY <1>1, <1>2, <1>3, NextClass
<1>5. destroy \in Selector
  BY MethodsAssumption
<1>6. PICK q : q = Calls(k, destroy)
  OBVIOUS
<1>7. SameLiving /\ LineageGrows /\ found' = Nearest(k, destroy)
  BY <1>3, <1>4, <1>5, <1>6, LookupStep DEF LineageGrows
<1>8. AllRanOK(q)' /\ q \in Seq(Frame) /\ q # <<>> /\ LineagesNest'
  BY <1>3, <1>4, <1>5, <1>6, CallsRan
<1>9. PICK r : r = Pop(q)
  OBVIOUS
<1>10. AllRanOK(r)' /\ r \in Seq(Frame)
  BY <1>8, <1>9, AllRanPop, FrontProperties DEF Pop
<1>11. CASE DestructorsBreak
  <2>1. stack' = r
    BY <1>1, <1>2, <1>6, <1>9, <1>11 DEF DestructorsBreak
  <2> QED BY <1>8, <1>10, <2>1, AllRanIs
<1>12. CASE NextDestructor
  <2>1. PICK hx : hx = found'
    OBVIOUS
  <2>2. hx # NIL /\ hx \in Definition \cup {NIL} /\ hx = Nearest(k, destroy)
    BY <1>7, <1>12, <2>1 DEF MethodsInv, DataInv, Types, NextDestructor
  <2>3. PICK fr : fr = IF hx.function = LastRan(t.ran) THEN [t EXCEPT !.level = @ + 1]
                       ELSE [t EXCEPT !.phase = "body", !.hx = hx, !.stale = FALSE]
    OBVIOUS
  <2>4. stack' = Append(r, fr)
    <3>1. stack' = Append(Pop(Calls(lineage[Top.class][Top.level], destroy)),
                     IF found'.function = LastRan(Top.ran) THEN [Top EXCEPT !.level = @ + 1]
                     ELSE [Top EXCEPT !.phase = "body", !.hx = found', !.stale = FALSE])
      BY ONLY <1>12 DEF NextDestructor
    <3>2. stack' = Append(Pop(Calls(k, destroy)),
                     IF hx.function = LastRan(t.ran) THEN [t EXCEPT !.level = @ + 1]
                     ELSE [t EXCEPT !.phase = "body", !.hx = hx, !.stale = FALSE])
      BY ONLY <1>1, <1>2, <2>1, <3>1
    <3> QED BY <1>6, <1>9, <2>3, <3>2
  <2>5. fr \in Frame /\ fr.class = t.class
    <3>1. CASE fr = [t EXCEPT !.level = @ + 1]
      BY <1>4, <3>1 DEF Frame
    <3>2. CASE fr = [t EXCEPT !.phase = "body", !.hx = hx, !.stale = FALSE]
      BY <1>4, <2>2, <3>2 DEF Frame
    <3> QED BY <2>3, <3>1, <3>2
  <2>6. RanOK(t)
    <3>1. Len(stack) \in DOMAIN stack
      BY <1>3, TopFrame DEF MethodsInv
    <3> QED BY <1>1, <3>1 DEF DestroyInv, AllRanOK, Top
  <2>7. RanOK(fr)
    BY <1>2, <1>3, <1>4, <2>2, <2>3, <2>6, NextRan DEF MethodsInv, DataInv, DestroyInv
  <2>8. RanOK(fr)'
    BY <1>4, <1>7, <2>5, <2>7, RanKept DEF MethodsInv, DataInv, FrameOK
  <2>9. PICK p : p = Append(r, fr)
    OBVIOUS
  <2>10. AllRanOK(p)'
    BY <1>10, <2>5, <2>8, <2>9, AllRanAppend
  <2> QED BY <1>8, <2>4, <2>9, <2>10, AllRanIs
<1> QED BY <1>11, <1>12

\* The invariant of the destructors.
LEMMA DestroyNext ==
  ASSUME CompiledAreFinal, MethodsInv, DestroyInv, [Next]_vars
  PROVE  DestroyInv'
<1>0. MethodsInv'
  BY NextHolds
<1>1. CASE Lisp
  BY <1>0, <1>1, LispRan, SendRanStep, ReturnRan DEF Lisp
<1>2. CASE SendUnknown
  BY <1>0, <1>2, SendUnknownRan
<1>3. CASE ApplyMethod \/ MethodReturns \/ DestructorsEnd \/ DestructorReturns
  BY <1>0, <1>3, ReturnRan
<1>4. CASE NextDestructor \/ DestructorsBreak
  BY <1>0, <1>4, DestructorRan
<1>5. CASE UNCHANGED vars
  <2>1. UNCHANGED <<zombies, lineage, methods, stack>>
    BY <1>5 DEF vars
  <2>2. PICK q : q = stack
    OBVIOUS
  <2>3. PICK t : t = Top
    OBVIOUS
  <2>4. PICK r : r = Pop(q)
    OBVIOUS
  <2>5. LineagesNest' /\ AllRanOK(q)'
    BY <1>0, <2>1, <2>2, <2>3, <2>4, OnlyStackRan
  <2> QED BY <2>1, <2>2, <2>5, AllRanIs
<1> QED BY <1>1, <1>2, <1>3, <1>4, <1>5 DEF Next

LEMMA DestroyInit ==
  ASSUME Init
  PROVE  DestroyInv
<1>1. ASSUME NEW c \in Class, NEW i \in DOMAIN lineage[c]
      PROVE  /\ Len(lineage[lineage[c][i]]) = Len(lineage[c]) - i + 1
             /\ \A j \in DOMAIN lineage[lineage[c][i]] :
                  lineage[lineage[c][i]][j] = lineage[c][i + j - 1]
  <2>1. lineage[c] = IF c = Root THEN <<Root>> ELSE <<>>
    BY DEF Init
  <2>2. c = Root /\ lineage[c] = <<Root>> /\ i = 1
    BY <1>1, <2>1
  <2> QED BY <2>2
<1>2. LineagesNest
  BY <1>1 DEF LineagesNest
<1> QED BY <1>2 DEF Init, DestroyInv, AllRanOK

\* The one step that ends a deletion without an error is taken when no class is
\* left that has a destructor.
LEMMA DeletionEnds ==
  ASSUME MethodsInv, DestroyInv, [Next]_vars,
         stack # <<>>, Top.phase = "next", Top.steady, Len(stack') < Len(stack)
  PROVE  Top.ran \in Selection(Destroyers(Top.class), Destroying(Top.class))
<1>1. PICK t : t = Top
  OBVIOUS
<1>2. /\ t \in Frame /\ FrameOK(t) /\ stack \in Seq(Frame) /\ Len(stack) \in DOMAIN stack
      /\ t = stack[Len(stack)]
  BY <1>1, TopFrame DEF MethodsInv, Top
<1>3. RanOK(t) /\ NextRanOK(t) /\ t.op = "delete"
  BY <1>1, <1>2 DEF DestroyInv, AllRanOK, RanOK
<1>4. Types /\ LineagesNest
  BY DEF MethodsInv, DataInv, DestroyInv
<1>5. PICK own : own = Defining(t.class, destroy)
  OBVIOUS
<1>6. PICK m : m = Destroyers(t.class)
  OBVIOUS
<1>7. /\ t.class \in Class /\ t.level \in Nat \ {0} /\ t.level - 1 \in Nat
      /\ DOMAIN lineage[t.class] = 1..Len(lineage[t.class]) /\ Len(lineage[t.class]) \in Nat
  <2>1. t.class \in Class /\ t.level \in Nat \ {0}
    BY <1>2 DEF Frame
  <2> QED BY <1>4, <2>1, PositionsAreNaturals, MethodsAssumption
<1>8. own \in SUBSET (1..Len(lineage[t.class]))
  BY <1>5, <1>7 DEF Defining
<1>9. ASSUME \A k \in own : k < t.level
      PROVE  Top.ran \in Selection(Destroyers(Top.class), Destroying(Top.class))
  <2>1. \A k \in own : k <= t.level - 1
    BY <1>7, <1>8, <1>9
  <2>2. Reached(t.class, t.level - 1) = Destroying(t.class)
    BY <1>4, <1>5, <1>7, <2>1, ReachedAll
  <2> QED BY <1>1, <1>3, <2>2 DEF NextRanOK
<1>10. CASE DestructorsEnd
  <2>1. t.level > Len(lineage[t.class])
    BY <1>1, <1>10 DEF DestructorsEnd
  <2> QED BY <1>7, <1>8, <1>9, <2>1
<1>11. PICK k : k = lineage[t.class][t.level]
  OBVIOUS
<1>12. PICK q : q = Calls(k, destroy)
  OBVIOUS
<1>13. ASSUME NextDestructor \/ DestructorsBreak
       PROVE  /\ found' = Nearest(k, destroy) /\ t.level \in DOMAIN lineage[t.class]
              /\ q \in Seq(Frame) /\ Len(q) = Len(stack) /\ q # <<>>
  <2>1. /\ t.level <= Len(lineage[t.class])
        /\ getmethod(k, destroy) /\ UNCHANGED <<lineage, zombies>>
    BY <1>1, <1>11, <1>13 DEF NextDestructor, DestructorsBreak
  <2>2. k \in Class /\ Exists(k) /\ t.level \in DOMAIN lineage[t.class]
    BY <1>1, <1>11, <2>1, NextClass
  <2>3. destroy \in Selector
    BY MethodsAssumption
  <2>4. found' = Nearest(k, destroy)
    BY <1>12, <2>1, <2>2, <2>3, LookupStep
  <2> QED BY <1>12, <2>1, <2>2, <2>3, <2>4, CallsRan
<1>14. CASE DestructorsBreak
  <2>1. Nearest(k, destroy) = NIL
    BY <1>13, <1>14 DEF DestructorsBreak
  <2>2. PICK x : x = Nearest(lineage[t.class][t.level], destroy)
    OBVIOUS
  <2>3. x = NIL
    BY <1>11, <2>1, <2>2
  <2>4. \A j \in own : j < t.level
    <3>1. t.class \in Class /\ t.level \in DOMAIN lineage[t.class]
      BY <1>7, <1>13, <1>14
    <3>2. \/ x = NIL /\ \A j \in own : j < t.level
          \/ x # NIL
      BY <1>4, <1>5, <1>6, <2>2, <3>1, NearestFrom
    <3> QED BY <2>3, <3>2
  <2> QED BY <1>9, <2>4
<1>15. CASE NextDestructor
  <2>1. PICK r : r = Pop(q)
    OBVIOUS
  <2>2. PICK fr : stack' = Append(r, fr)
    BY <1>1, <1>11, <1>12, <1>15, <2>1 DEF NextDestructor
  <2>3. r \in Seq(Frame) /\ Len(r) = Len(q) - 1
    BY <1>13, <1>15, <2>1, FrontProperties DEF Pop
  <2>4. Len(stack') = Len(stack)
    <3>1. Len(Append(r, fr)) = Len(r) + 1
      BY <2>3, AppendProperties
    <3> QED BY <1>2, <1>13, <1>15, <2>2, <2>3, <3>1, LenProperties
  <2> QED BY <1>2, <2>4, LenProperties
<1>16. CASE UNCHANGED vars
  <2>1. Len(stack') = Len(stack) /\ Len(stack) \in Nat
    BY <1>2, <1>16, LenProperties DEF vars
  <2> QED BY <2>1
<1>17. CASE Lisp
  <2>1. LispRuns
    BY <1>17 DEF Lisp, new_ooclass, DeleteFunction, putmethod, bread, checksend, send_message,
                 Delete, LispError
  <2> QED BY <2>1 DEF LispRuns
<1>18. CASE SendUnknown \/ ApplyMethod \/ MethodReturns \/ DestructorReturns
  BY <1>18 DEF SendUnknown, ApplyMethod, MethodReturns, DestructorReturns
<1> QED BY <1>10, <1>14, <1>15, <1>16, <1>17, <1>18 DEF Next

\* A deletion that no change of methods and no new table disturbs calls all the
\* destructors of the object's class and of those above it, nearest first, and
\* an inherited one once (send_delete).
THEOREM DestructorsCorrect ==
  ASSUME CompiledAreFinal
  PROVE  Spec => AllDestructorsRun
<1>1. Init => DestroyInv
  BY DestroyInit
<1>2. MethodsInv /\ DestroyInv /\ [Next]_vars => DestroyInv'
  BY DestroyNext
<1>3. MethodsInv /\ DestroyInv /\ [Next]_vars
        => [stack # <<>> /\ Top.phase = "next" /\ Top.steady /\ Len(stack') < Len(stack)
              => Top.ran \in Selection([i \in DOMAIN lineage[Top.class] |->
                                         methods[lineage[Top.class][i]][destroy]],
                                       Destroying(Top.class))]_vars
  BY DeletionEnds DEF Destroyers
<1> QED BY <1>1, <1>2, <1>3, InvariantHolds, PTL DEF Spec, AllDestructorsRun
=============================================================================
