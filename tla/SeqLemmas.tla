------------------------------ MODULE SeqLemmas ------------------------------
(***************************************************************************)
(* What the sequence operators the models use return: an element removed,  *)
(* an element inserted, the last one dropped, a selection by position;     *)
(* and how often a function or a sequence has a value.                     *)
(***************************************************************************)
EXTENDS Integers, SequencesExt, Selection, SequenceTheorems, FiniteSetTheorems,
        WellFoundedInduction, TLAPS

\* A set of positions that is not empty has a first one.
LEMMA LeastPosition ==
  ASSUME NEW T \in SUBSET Nat, T # {}
  PROVE  \E m \in T : \A k \in T : m <= k
<1> DEFINE R == OpToRel(<, Nat)
<1>1. IsWellFoundedOn(R, Nat)
  BY NatLessThanWellFounded
<1>2. \A x, y \in Nat : x < y => <<x, y>> \in R
  BY DEF OpToRel
<1> HIDE DEF R
<1>3. PICK m \in T : \A y \in T : ~(<<y, m>> \in R)
  BY <1>1, WFMin
<1>4. ASSUME NEW k \in T PROVE m <= k
  <2>1. m \in Nat /\ k \in Nat
    BY <1>3
  <2>2. ~(k < m)
    BY <1>2, <1>3, <2>1, Zenon
  <2> QED BY <2>1, <2>2
<1> QED BY <1>3, <1>4, Zenon

\* Removing one element of a sequence: what is left, and where.
LEMMA RemoveAtProperties ==
  ASSUME NEW S, NEW q \in Seq(S), NEW i \in DOMAIN q
  PROVE  /\ RemoveAt(q, i) \in Seq(S)
         /\ Len(RemoveAt(q, i)) = Len(q) - 1
         /\ \A j \in 1..(Len(q) - 1) :
              RemoveAt(q, i)[j] = IF j < i THEN q[j] ELSE q[j + 1]
<1> DEFINE a == SubSeq(q, 1, i - 1)
           b == SubSeq(q, i + 1, Len(q))
<1>1. /\ Len(q) \in Nat /\ DOMAIN q = 1..Len(q) /\ i \in 1..Len(q)
      /\ \A k \in 1..Len(q) : q[k] \in S
  BY LenProperties
<1>2. /\ a \in Seq(S) /\ Len(a) = i - 1
      /\ \A k \in 1..(i - 1) : a[k] = q[k]
  <2>1. \A k \in 1..(i - 1) : q[k] \in S
    BY <1>1
  <2> QED BY <1>1, <2>1, SubSeqProperties, i - 1 \in Int, 1 \in Int
<1>3. /\ b \in Seq(S) /\ Len(b) = Len(q) - i
      /\ \A k \in 1..(Len(q) - i) : b[k] = q[i + k]
  <2>1. \A k \in (i + 1)..Len(q) : q[k] \in S
    BY <1>1
  <2>2. i + 1 \in Int /\ Len(q) \in Int
    BY <1>1
  <2>3. /\ b \in Seq(S)
        /\ Len(b) = IF i + 1 <= Len(q) THEN Len(q) - (i + 1) + 1 ELSE 0
        /\ \A k \in 1..(Len(q) - (i + 1) + 1) : b[k] = q[(i + 1) + k - 1]
    BY <2>1, <2>2, SubSeqProperties
  <2> HIDE DEF b
  <2>4. Len(b) = Len(q) - i
    BY <1>1, <2>3
  <2>5. ASSUME NEW k \in 1..(Len(q) - i) PROVE b[k] = q[i + k]
    <3>1. k \in 1..(Len(q) - (i + 1) + 1) /\ (i + 1) + k - 1 = i + k
      BY <1>1
    <3> QED BY <2>3, <3>1
  <2> QED BY <2>3, <2>4, <2>5
<1>4. /\ a \o b \in Seq(S) /\ Len(a \o b) = Len(a) + Len(b)
      /\ \A k \in 1..(Len(a) + Len(b)) :
           (a \o b)[k] = IF k <= Len(a) THEN a[k] ELSE b[k - Len(a)]
  BY <1>2, <1>3, ConcatProperties
<1>5. RemoveAt(q, i) = a \o b
  BY DEF RemoveAt
<1> HIDE DEF a, b
<1>6. RemoveAt(q, i) \in Seq(S) /\ Len(RemoveAt(q, i)) = Len(q) - 1
  <2>1. Len(a) + Len(b) = Len(q) - 1
    BY <1>1, <1>2, <1>3
  <2> QED BY <1>4, <1>5, <2>1
<1>7. ASSUME NEW j \in 1..(Len(q) - 1)
      PROVE  RemoveAt(q, i)[j] = IF j < i THEN q[j] ELSE q[j + 1]
  <2>1. (a \o b)[j] = IF j <= i - 1 THEN a[j] ELSE b[j - (i - 1)]
    BY <1>1, <1>2, <1>3, <1>4
  <2>2. CASE j < i
    BY <1>1, <1>2, <1>5, <2>1, <2>2
  <2>3. CASE ~(j < i)
    <3>1. j - (i - 1) \in 1..(Len(q) - i) /\ i + (j - (i - 1)) = j + 1
      BY <1>1, <2>3
    <3> QED BY <1>1, <1>3, <1>5, <2>1, <2>3, <3>1
  <2> QED BY <2>2, <2>3
<1> QED BY <1>6, <1>7

\* All but the last element of a sequence.
LEMMA FrontProperties ==
  ASSUME NEW S, NEW s \in Seq(S), s # <<>>
  PROVE  /\ SubSeq(s, 1, Len(s) - 1) \in Seq(S)
         /\ Len(SubSeq(s, 1, Len(s) - 1)) = Len(s) - 1
         /\ \A k \in 1..(Len(s) - 1) : SubSeq(s, 1, Len(s) - 1)[k] = s[k]
         /\ Len(s) \in Nat \ {0} /\ s[Len(s)] \in S
<1> DEFINE n == Len(s)
           t == SubSeq(s, 1, n - 1)
<1>1. n \in Nat \ {0} /\ \A k \in 1..n : s[k] \in S
  BY LenProperties, EmptySeq
<1>2. \A k \in 1..(n - 1) : s[k] \in S
  BY <1>1
<1>3. /\ t \in Seq(S)
      /\ Len(t) = IF 1 <= n - 1 THEN (n - 1) - 1 + 1 ELSE 0
      /\ \A k \in 1..((n - 1) - 1 + 1) : t[k] = s[1 + k - 1]
  BY <1>1, <1>2, SubSeqProperties
<1> HIDE DEF n, t
<1>4. Len(t) = n - 1
  BY <1>1, <1>3
<1>5. ASSUME NEW k \in 1..(n - 1) PROVE t[k] = s[k]
  <2>1. k \in 1..((n - 1) - 1 + 1) /\ 1 + k - 1 = k
    BY <1>1
  <2> QED BY <1>3, <2>1
<1> QED BY <1>1, <1>3, <1>4, <1>5 DEF n, t


\* The sequence r is q with e inserted at place i.
IsInsertion(r, q, i, e) ==
  /\ Len(r) = Len(q) + 1
  /\ \A j \in 1..(Len(q) + 1) : r[j] = IF j < i THEN q[j] ELSE IF j = i THEN e ELSE q[j - 1]

\* Without its first element a sequence is its tail.
LEMMA RemoveAtHead ==
  ASSUME NEW S, NEW s \in Seq(S), s # <<>>
  PROVE  RemoveAt(s, 1) = Tail(s)
<1>1. Len(s) \in Nat /\ DOMAIN s = 1..Len(s) /\ 1 \in DOMAIN s
  <2>1. Len(s) \in Nat \ {0}
    BY FrontProperties
  <2> QED BY <2>1, LenProperties
<1>2. PICK r : r = RemoveAt(s, 1)
  OBVIOUS
<1>3. PICK t : t = Tail(s)
  OBVIOUS
<1>4. /\ r \in Seq(S) /\ Len(r) = Len(s) - 1
      /\ \A j \in 1..(Len(s) - 1) : r[j] = IF j < 1 THEN s[j] ELSE s[j + 1]
  BY <1>1, <1>2, RemoveAtProperties
<1>5. /\ t \in Seq(S) /\ Len(t) = Len(s) - 1
      /\ \A j \in 1..Len(t) : t[j] = s[j + 1]
  BY <1>3, HeadTailProperties
<1>6. \A j \in 1..Len(r) : r[j] = t[j]
  BY <1>1, <1>4, <1>5
<1>7. r = t
  BY <1>4, <1>5, <1>6, SeqEqual
<1> QED BY <1>2, <1>3, <1>7

\* Inserting one element: what is there afterwards, and where.
LEMMA InsertAtProperties ==
  ASSUME NEW S, NEW q \in Seq(S), NEW i \in 1..(Len(q) + 1), NEW e \in S
  PROVE  InsertAt(q, i, e) \in Seq(S) /\ IsInsertion(InsertAt(q, i, e), q, i, e)
<1> SUFFICES /\ InsertAt(q, i, e) \in Seq(S)
             /\ Len(InsertAt(q, i, e)) = Len(q) + 1
             /\ \A j \in 1..(Len(q) + 1) :
                  InsertAt(q, i, e)[j] = IF j < i THEN q[j]
                                         ELSE IF j = i THEN e ELSE q[j - 1]
  BY DEF IsInsertion
<1> DEFINE a == SubSeq(q, 1, i - 1)
           b == SubSeq(q, i, Len(q))
           c == a \o <<e>>
<1>1. /\ Len(q) \in Nat /\ DOMAIN q = 1..Len(q) /\ i \in 1..(Len(q) + 1)
      /\ \A k \in 1..Len(q) : q[k] \in S
  BY LenProperties
<1>2. /\ a \in Seq(S) /\ Len(a) = i - 1
      /\ \A k \in 1..(i - 1) : a[k] = q[k]
  <2>1. \A k \in 1..(i - 1) : q[k] \in S
    BY <1>1
  <2> QED BY <1>1, <2>1, SubSeqProperties, i - 1 \in Int, 1 \in Int
<1>3. /\ b \in Seq(S) /\ Len(b) = Len(q) - i + 1
      /\ \A k \in 1..(Len(q) - i + 1) : b[k] = q[i + k - 1]
  <2>1. \A k \in i..Len(q) : q[k] \in S
    BY <1>1
  <2>2. i \in Int /\ Len(q) \in Int
    BY <1>1
  <2>3. /\ b \in Seq(S)
        /\ Len(b) = IF i <= Len(q) THEN Len(q) - i + 1 ELSE 0
        /\ \A k \in 1..(Len(q) - i + 1) : b[k] = q[i + k - 1]
    BY <2>1, <2>2, SubSeqProperties
  <2> QED BY <1>1, <2>3
<1>4. /\ <<e>> \in Seq(S) /\ Len(<<e>>) = 1 /\ <<e>>[1] = e
  OBVIOUS
<1>5. /\ c \in Seq(S) /\ Len(c) = i
      /\ \A k \in 1..i : c[k] = IF k <= i - 1 THEN q[k] ELSE e
  <2> DEFINE d == <<e>>
  <2>1. d \in Seq(S) /\ Len(d) = 1 /\ d[1] = e
    BY <1>4
  <2> HIDE DEF a, d
  <2>2. /\ a \o d \in Seq(S) /\ Len(a \o d) = Len(a) + Len(d)
        /\ \A k \in 1..(Len(a) + Len(d)) :
             (a \o d)[k] = IF k <= Len(a) THEN a[k] ELSE d[k - Len(a)]
    BY <1>2, <2>1, ConcatProperties
  <2>3. Len(a) + Len(d) = i
    BY <1>1, <1>2, <2>1
  <2>4. ASSUME NEW k \in 1..i PROVE (a \o d)[k] = IF k <= i - 1 THEN q[k] ELSE e
    <3>1. CASE k <= i - 1
      BY <1>1, <1>2, <2>2, <2>3, <3>1
    <3>2. CASE ~(k <= i - 1)
      <4>1. k - Len(a) = 1
        BY <1>1, <1>2, <3>2
      <4> QED BY <1>1, <1>2, <2>1, <2>2, <2>3, <3>2, <4>1
    <3> QED BY <3>1, <3>2
  <2> QED BY <2>2, <2>3, <2>4 DEF d
<1>6. InsertAt(q, i, e) = c \o b
  BY DEF InsertAt
<1> HIDE DEF a, b, c
<1>7. /\ c \o b \in Seq(S) /\ Len(c \o b) = Len(c) + Len(b)
      /\ \A k \in 1..(Len(c) + Len(b)) :
           (c \o b)[k] = IF k <= Len(c) THEN c[k] ELSE b[k - Len(c)]
  BY <1>3, <1>5, ConcatProperties
<1>8. Len(c) + Len(b) = Len(q) + 1
  BY <1>1, <1>3, <1>5
<1>9. ASSUME NEW j \in 1..(Len(q) + 1)
      PROVE  (c \o b)[j] = IF j < i THEN q[j] ELSE IF j = i THEN e ELSE q[j - 1]
  <2>1. CASE j <= i
    BY <1>1, <1>5, <1>7, <1>8, <2>1
  <2>2. CASE ~(j <= i)
    <3>1. j - i \in 1..(Len(q) - i + 1) /\ i + (j - i) - 1 = j - 1
      BY <1>1, <2>2
    <3> QED BY <1>1, <1>3, <1>5, <1>7, <1>8, <2>2, <3>1
  <2> QED BY <2>1, <2>2
<1> QED BY <1>6, <1>7, <1>8, <1>9

\* A selection takes elements from the chosen positions, in their order.
LEMMA SelectionProperties ==
  ASSUME NEW S, NEW q \in Seq(S), NEW I \in SUBSET (DOMAIN q), NEW r \in Selection(q, I)
  PROVE  /\ r \in Seq(S) /\ Len(r) <= Len(q)
         /\ \E f \in [DOMAIN r -> I] :
              /\ \A j \in DOMAIN r : r[j] = q[f[j]]
              /\ \A j, k \in DOMAIN r : j < k => f[j] < f[k]
<1>1. Len(q) \in Nat /\ DOMAIN q = 1..Len(q) /\ \A i \in DOMAIN q : q[i] \in S
  BY LenProperties, ElementOfSeq
<1>2. PICK n \in 0..Len(q) :
        \E f \in [1..n -> I] : Increasing(f) /\ r = [j \in DOMAIN f |-> q[f[j]]]
  BY DEF Selection
<1>3. PICK f \in [1..n -> I] : Increasing(f) /\ r = [j \in DOMAIN f |-> q[f[j]]]
  BY <1>2
<1>4. n \in Nat /\ n <= Len(q)
  BY <1>1, <1>3
<1>5. r \in Seq(S)
  BY <1>1, <1>3, <1>4, IsASeq
<1>6. DOMAIN r = 1..n /\ Len(r) = n
  BY <1>3, <1>4, <1>5, LenProperties
<1> QED BY <1>3, <1>4, <1>5, <1>6 DEF Increasing

\* The positions that are chosen in order lie no lower than their numbers.
LEMMA IncreasingGrows ==
  ASSUME NEW n \in Nat, NEW I \in SUBSET (Nat \ {0}), NEW f \in [1..n -> I], Increasing(f)
  PROVE  \A j \in 1..n : j <= f[j]
<1>0. DOMAIN f = 1..n /\ \A j \in 1..n : f[j] \in Nat \ {0}
  OBVIOUS
<1> DEFINE T == {j \in 1..n : f[j] < j}
<1>1. T \in SUBSET Nat
  OBVIOUS
<1>2. ASSUME T # {} PROVE FALSE
  <2>1. PICK m \in T : \A k \in T : m <= k
    <3> HIDE DEF T
    <3> QED BY <1>1, <1>2, LeastPosition
  <2>2. m \in 1..n /\ f[m] \in Nat \ {0} /\ f[m] < m
    BY <1>0, <2>1
  <2>3. m - 1 \in 1..n /\ m - 1 < m
    BY <2>2
  <2>4. m - 1 \notin T
    BY <2>1, <2>2, <2>3
  <2>5. f[m - 1] \in Nat /\ ~(f[m - 1] < m - 1)
    BY <1>0, <2>3, <2>4
  <2>6. f[m - 1] < f[m]
    BY <1>0, <2>2, <2>3 DEF Increasing
  <2> QED BY <2>2, <2>5, <2>6
<1>3. ASSUME NEW j \in 1..n PROVE j <= f[j]
  <2>1. j \in Nat /\ f[j] \in Nat /\ ~(f[j] < j)
    BY <1>0, <1>2, <1>3
  <2> QED BY <2>1
<1> QED BY <1>3

\* Nothing is selected from no positions, and the positions determine it.
LEMMA SelectionEmpty ==
  ASSUME NEW S, NEW q \in Seq(S)
  PROVE  <<>> \in Selection(q, {})
<1>1. PICK f : f = [j \in 1..0 |-> j]
  OBVIOUS
<1>2. f \in [1..0 -> {}] /\ DOMAIN f = {} /\ Increasing(f) /\ Onto(f, {})
  BY <1>1 DEF Increasing, Onto
<1>3. 0 \in 0..Len(q)
  BY LenProperties
<1>4. [j \in DOMAIN f |-> q[f[j]]] = <<>>
  BY <1>2
<1>5. f \in {g \in UNION {[1..n -> {}] : n \in 0..Len(q)} : Increasing(g) /\ Onto(g, {})}
  BY <1>2, <1>3
<1> QED BY <1>4, <1>5 DEF Selection

LEMMA SelectionSame ==
  ASSUME NEW q, NEW r, NEW I, Len(q) = Len(r), \A i \in I : q[i] = r[i]
  PROVE  Selection(q, I) = Selection(r, I)
<1> DEFINE F == {g \in UNION {[1..n -> I] : n \in 0..Len(q)} : Increasing(g) /\ Onto(g, I)}
<1>1. \A f \in F : [j \in DOMAIN f |-> q[f[j]]] = [j \in DOMAIN f |-> r[f[j]]]
  <2> SUFFICES ASSUME NEW f \in F
               PROVE  [j \in DOMAIN f |-> q[f[j]]] = [j \in DOMAIN f |-> r[f[j]]]
    OBVIOUS
  <2>1. \A j \in DOMAIN f : f[j] \in I
    OBVIOUS
  <2> HIDE DEF F
  <2> QED BY <2>1
<1>2. /\ Selection(q, I) = {[j \in DOMAIN f |-> q[f[j]]] : f \in F}
      /\ Selection(r, I) = {[j \in DOMAIN f |-> r[f[j]]] : f \in F}
  BY DEF Selection
<1> HIDE DEF F
<1> QED BY <1>1, <1>2

\* One more position, above the others, adds its element at the end.
LEMMA SelectionAppend ==
  ASSUME NEW S, NEW q \in Seq(S), NEW I \in SUBSET (DOMAIN q), NEW e \in DOMAIN q,
         \A i \in I : i < e, NEW r \in Selection(q, I)
  PROVE  Append(r, q[e]) \in Selection(q, I \cup {e})
<1>1. Len(q) \in Nat /\ DOMAIN q = 1..Len(q)
  BY LenProperties
<1>2. PICK n \in 0..Len(q) :
        \E f \in [1..n -> I] : Increasing(f) /\ Onto(f, I) /\ r = [j \in DOMAIN f |-> q[f[j]]]
  BY DEF Selection
<1>3. PICK f \in [1..n -> I] :
        Increasing(f) /\ Onto(f, I) /\ r = [j \in DOMAIN f |-> q[f[j]]]
  BY <1>2
<1>4. n \in Nat /\ I \in SUBSET (Nat \ {0}) /\ \A i \in I : i <= Len(q)
  BY <1>1, <1>2
<1>5. n < e
  <2>1. CASE n = 0
    BY <1>1, <2>1
  <2>2. CASE n # 0
    <3>1. n \in 1..n
      BY <1>4, <2>2
    <3>2. \A j \in 1..n : j <= f[j]
      BY <1>3, <1>4, IncreasingGrows
    <3>3. n <= f[n]
      BY <3>1, <3>2
    <3>4. f[n] \in I /\ f[n] \in Nat /\ e \in Nat
      BY <1>1, <1>3, <1>4, <3>1
    <3> QED BY <1>4, <3>3, <3>4
  <2> QED BY <2>1, <2>2
<1>6. r \in Seq(S) /\ Len(r) = n /\ DOMAIN r = 1..n /\ \A j \in 1..n : r[j] = q[f[j]]
  <2>1. DOMAIN f = 1..n /\ \A j \in 1..n : q[f[j]] \in S
    BY <1>1, <1>3, <1>4, ElementOfSeq
  <2>2. r \in Seq(S)
    BY <1>3, <1>4, <2>1, IsASeq
  <2> QED BY <1>3, <1>4, <2>1, <2>2, LenProperties
<1>7. PICK g : g = [j \in 1..(n + 1) |-> IF j = n + 1 THEN e ELSE f[j]]
  OBVIOUS
<1>8. /\ g \in [1..(n + 1) -> I \cup {e}]
      /\ \A j \in 1..n : g[j] = f[j]
      /\ g[n + 1] = e
  <2>1. \A j \in 1..(n + 1) : j # n + 1 => j \in 1..n
    BY <1>4
  <2> QED BY <1>3, <1>4, <1>7, <2>1
<1>9. Increasing(g)
  <2> SUFFICES ASSUME NEW i \in 1..(n + 1), NEW j \in 1..(n + 1), i < j
               PROVE  g[i] < g[j]
    BY <1>8 DEF Increasing
  <2>1. i \in 1..n /\ (j \in 1..n \/ j = n + 1)
    BY <1>4
  <2>2. f[i] \in I /\ f[i] < e
    BY <1>3, <2>1
  <2>3. j \in 1..n => f[i] < f[j]
    BY <1>3, <2>1 DEF Increasing
  <2> QED BY <1>8, <2>1, <2>2, <2>3
<1>10. Onto(g, I \cup {e})
  <2>1. \A j \in 1..n : j \in 1..(n + 1)
    BY <1>4
  <2>2. n + 1 \in 1..(n + 1)
    BY <1>4
  <2>3. \A i \in I : \E j \in 1..n : f[j] = i
    BY <1>3 DEF Onto
  <2> QED BY <1>8, <2>1, <2>2, <2>3 DEF Onto
<1>11. Append(r, q[e]) = [j \in 1..(n + 1) |-> q[g[j]]]
  <2>1. PICK a : a = Append(r, q[e])
    OBVIOUS
  <2>2. q[e] \in S
    BY <1>1, ElementOfSeq
  <2>3. /\ a \in Seq(S) /\ Len(a) = n + 1 /\ DOMAIN a = 1..(n + 1)
        /\ \A j \in 1..n : a[j] = r[j]
        /\ a[n + 1] = q[e]
    BY <1>4, <1>6, <2>1, <2>2, AppendProperties, LenProperties
  <2>4. \A j \in 1..(n + 1) : a[j] = q[g[j]]
    <3>1. \A j \in 1..(n + 1) : j \in 1..n \/ j = n + 1
      BY <1>4
    <3> QED BY <1>6, <1>8, <2>3, <3>1
  <2>5. a = [j \in DOMAIN a |-> a[j]]
    BY <2>3, LenProperties
  <2> QED BY <2>1, <2>3, <2>4, <2>5
<1>12. n + 1 \in 0..Len(q)
  BY <1>1, <1>4, <1>5
<1>13. g \in {h \in UNION {[1..k -> I \cup {e}] : k \in 0..Len(q)} :
                Increasing(h) /\ Onto(h, I \cup {e})}
  BY <1>8, <1>9, <1>10, <1>12
<1>14. Append(r, q[e]) = [j \in DOMAIN g |-> q[g[j]]]
  BY <1>8, <1>11
<1> QED BY <1>13, <1>14 DEF Selection

\* The last element of a selection is that of the highest position.
LEMMA SelectionLast ==
  ASSUME NEW S, NEW q \in Seq(S), NEW I \in SUBSET (DOMAIN q), NEW r \in Selection(q, I)
  PROVE  /\ r \in Seq(S) /\ Len(r) \in Nat
         /\ I = {} => r = <<>>
         /\ \A m \in I : (\A i \in I : i <= m) => r # <<>> /\ r[Len(r)] = q[m]
<1>1. Len(q) \in Nat /\ DOMAIN q = 1..Len(q)
  BY LenProperties
<1>2. PICK n \in 0..Len(q) :
        \E f \in [1..n -> I] : Increasing(f) /\ Onto(f, I) /\ r = [j \in DOMAIN f |-> q[f[j]]]
  BY DEF Selection
<1>3. PICK f \in [1..n -> I] :
        Increasing(f) /\ Onto(f, I) /\ r = [j \in DOMAIN f |-> q[f[j]]]
  BY <1>2
<1>4. n \in Nat
  BY <1>1
<1>5. r \in Seq(S) /\ Len(r) = n /\ DOMAIN r = 1..n /\ \A j \in 1..n : r[j] = q[f[j]]
  <2>1. DOMAIN f = 1..n /\ \A j \in 1..n : q[f[j]] \in S
    BY <1>1, <1>3, <1>4, ElementOfSeq
  <2>2. r \in Seq(S)
    BY <1>3, <1>4, <2>1, IsASeq
  <2> QED BY <1>3, <1>4, <2>1, <2>2, LenProperties
<1>6. I = {} => r = <<>>
  <2>1. ASSUME I = {} PROVE n = 0
    <3>1. 1 \notin 1..n
      BY <1>3, <2>1
    <3> QED BY <1>4, <3>1
  <2> QED BY <1>5, <2>1, EmptySeq
<1>7. ASSUME NEW m \in I, \A i \in I : i <= m
      PROVE  r # <<>> /\ r[Len(r)] = q[m]
  <2>1. PICK j \in 1..n : f[j] = m
    BY <1>3 DEF Onto
  <2>2. n \in 1..n /\ j <= n /\ f[n] \in I /\ m \in Nat /\ f[n] \in Nat
    BY <1>1, <1>3, <1>4, <2>1
  <2>3. j < n => m < f[n]
    BY <1>3, <2>1, <2>2 DEF Increasing
  <2>4. f[n] = m
    BY <1>4, <1>7, <2>1, <2>2, <2>3
  <2>5. r # <<>>
    BY <1>5, <2>2, EmptySeq
  <2> QED BY <1>5, <2>2, <2>4, <2>5
<1> QED BY <1>4, <1>5, <1>6, <1>7

\* A selection and the positions it takes, in order.
Picks(f, n, I) ==
  /\ DOMAIN f = 1..n /\ f = [j \in 1..n |-> f[j]]
  /\ \A j \in 1..n : f[j] \in I
  /\ \A i, j \in 1..n : i < j => f[i] < f[j]
  /\ \A i \in I : \E j \in 1..n : f[j] = i

Picked(t, f, n, q, I) ==
  /\ Picks(f, n, I)
  /\ DOMAIN t = 1..n /\ t = [j \in 1..n |-> t[j]]
  /\ \A j \in 1..n : t[j] = q[f[j]]

LEMMA SelectionIs ==
  ASSUME NEW S, NEW q \in Seq(S), NEW I \in SUBSET (DOMAIN q), NEW t
  PROVE  t \in Selection(q, I) <=>
           \E n \in 0..Len(q) : \E f : Picked(t, f, n, q, I)
<1>1. ASSUME t \in Selection(q, I)
      PROVE  \E n \in 0..Len(q) : \E f : Picked(t, f, n, q, I)
  <2>1. PICK n \in 0..Len(q) :
          \E f \in [1..n -> I] : Increasing(f) /\ Onto(f, I) /\ t = [j \in DOMAIN f |-> q[f[j]]]
    BY <1>1 DEF Selection
  <2>2. PICK f \in [1..n -> I] :
          Increasing(f) /\ Onto(f, I) /\ t = [j \in DOMAIN f |-> q[f[j]]]
    BY <2>1
  <2>3. DOMAIN f = 1..n /\ f = [j \in 1..n |-> f[j]] /\ \A j \in 1..n : f[j] \in I
    BY <2>2
  <2>4. Picks(f, n, I)
    BY <2>2, <2>3 DEF Picks, Increasing, Onto
  <2>5. t = [j \in 1..n |-> q[f[j]]]
    BY <2>2, <2>3
  <2>6. DOMAIN t = 1..n /\ t = [j \in 1..n |-> t[j]] /\ \A j \in 1..n : t[j] = q[f[j]]
    BY <2>5
  <2> QED BY <2>4, <2>6 DEF Picked
<1>2. ASSUME NEW n \in 0..Len(q), NEW f, Picked(t, f, n, q, I)
      PROVE  t \in Selection(q, I)
  <2>1. /\ DOMAIN f = 1..n /\ f = [j \in 1..n |-> f[j]] /\ \A j \in 1..n : f[j] \in I
        /\ Increasing(f) /\ Onto(f, I)
    BY <1>2 DEF Picks, Picked, Increasing, Onto
  <2>2. f \in [1..n -> I]
    BY <2>1
  <2>3. t = [j \in DOMAIN f |-> q[f[j]]]
    BY <1>2, <2>1 DEF Picked
  <2>4. f \in {g \in UNION {[1..k -> I] : k \in 0..Len(q)} : Increasing(g) /\ Onto(g, I)}
    BY <2>1, <2>2
  <2> QED BY <2>3, <2>4 DEF Selection
<1> QED BY <1>1, <1>2

LEMMA PickedIsASeq ==
  ASSUME NEW S, NEW q \in Seq(S), NEW I \in SUBSET (DOMAIN q), NEW n, n \in 0..Len(q), NEW t, NEW f,
         Picked(t, f, n, q, I)
  PROVE  /\ t \in Seq(S) /\ Len(t) = n
         /\ \A j \in 1..n : f[j] \in Nat \ {0}
<1>1. Len(q) \in Nat /\ DOMAIN q = 1..Len(q)
  BY LenProperties
<1>2. /\ DOMAIN t = 1..n /\ t = [j \in 1..n |-> t[j]]
      /\ \A j \in 1..n : f[j] \in I /\ t[j] = q[f[j]]
  BY DEF Picked, Picks
<1>3. \A j \in 1..n : f[j] \in DOMAIN q /\ f[j] \in Nat \ {0}
  BY <1>1, <1>2
<1>4. \A j \in 1..n : t[j] \in S
  BY <1>2, <1>3, ElementOfSeq
<1>5. t \in Seq(S)
  BY <1>2, <1>4, IsASeq
<1>6. Len(t) = n
  BY <1>2, <1>5, LenProperties
<1> QED BY <1>3, <1>5, <1>6

\* Positions can be taken in order in one way.
LEMMA PicksAgree ==
  ASSUME NEW I \in SUBSET (Nat \ {0}), NEW n \in Nat, NEW m \in Nat, NEW f, NEW g,
         Picks(f, n, I), Picks(g, m, I)
  PROVE  \A j \in 1..n : j \in 1..m /\ f[j] = g[j]
<1>1. /\ DOMAIN f = 1..n /\ DOMAIN g = 1..m
      /\ \A j \in 1..n : f[j] \in I /\ f[j] \in Nat
      /\ \A j \in 1..m : g[j] \in I /\ g[j] \in Nat
  BY DEF Picks
<1>2. /\ \A i, j \in 1..n : i < j => f[i] < f[j]
      /\ \A i, j \in 1..m : i < j => g[i] < g[j]
      /\ \A i \in I : \E j \in 1..n : f[j] = i
      /\ \A i \in I : \E j \in 1..m : g[j] = i
  BY DEF Picks
<1>3. PICK T : T = {j \in 1..n : ~(j \in 1..m /\ f[j] = g[j])}
  OBVIOUS
<1>4. ASSUME T # {} PROVE FALSE
  <2>1. PICK j \in T : \A k \in T : j <= k
    <3>1. T \in SUBSET Nat
      BY <1>3
    <3> QED BY <1>4, <3>1, LeastPosition
  <2>2. j \in 1..n /\ ~(j \in 1..m /\ f[j] = g[j])
    BY <1>3, <2>1
  <2>3. ASSUME NEW k \in Nat \ {0}, k < j PROVE k \in 1..n /\ k \in 1..m /\ f[k] = g[k]
    <3>1. k \in 1..n /\ k \notin T
      BY <2>1, <2>2, <2>3
    <3> QED BY <1>3, <3>1
  <2>4. PICK l \in 1..m : g[l] = f[j]
    BY <1>1, <1>2, <2>2
  <2>5. ~(l < j)
    <3> SUFFICES ASSUME l < j PROVE FALSE
      OBVIOUS
    <3>1. f[l] = f[j] /\ l \in 1..n
      BY <2>3, <2>4
    <3>2. f[l] < f[j]
      BY <1>2, <2>2, <3>1
    <3> QED BY <1>1, <2>2, <3>1, <3>2
  <2>6. j \in 1..m /\ j < l
    BY <2>2, <2>4, <2>5
  <2>7. g[j] < f[j] /\ g[j] \in I
    BY <1>1, <1>2, <2>4, <2>6
  <2>8. PICK i \in 1..n : f[i] = g[j]
    BY <1>2, <2>7
  <2>9. i < j
    <3> SUFFICES ASSUME ~(i < j) PROVE FALSE
      OBVIOUS
    <3>1. i = j \/ j < i
      BY <2>2, <2>8
    <3>2. f[i] = f[j] \/ f[j] < f[i]
      BY <1>2, <2>2, <2>8, <3>1
    <3> QED BY <1>1, <2>2, <2>7, <2>8, <3>2
  <2>10. g[i] = g[j] /\ i \in 1..m
    BY <2>3, <2>8, <2>9
  <2>11. g[i] < g[j]
    BY <1>2, <2>6, <2>9, <2>10
  <2> QED BY <1>1, <2>6, <2>10, <2>11
<1> QED BY <1>3, <1>4

LEMMA SelectionUnique ==
  ASSUME NEW S, NEW q \in Seq(S), NEW I \in SUBSET (DOMAIN q),
         NEW s \in Selection(q, I), NEW t \in Selection(q, I)
  PROVE  s = t
<1>1. Len(q) \in Nat /\ DOMAIN q = 1..Len(q)
  BY LenProperties
<1>2. PICK n \in 0..Len(q) : \E f : Picked(s, f, n, q, I)
  BY SelectionIs
<1>3. PICK f : Picked(s, f, n, q, I)
  BY <1>2
<1>4. PICK m \in 0..Len(q) : \E g : Picked(t, g, m, q, I)
  BY SelectionIs
<1>5. PICK g : Picked(t, g, m, q, I)
  BY <1>4
<1>6. n \in Nat /\ m \in Nat /\ I \in SUBSET (Nat \ {0})
  BY <1>1
<1>7. Picks(f, n, I) /\ Picks(g, m, I)
  BY <1>3, <1>5 DEF Picked
<1>8. \A j \in 1..n : j \in 1..m /\ f[j] = g[j]
  BY <1>6, <1>7, PicksAgree
<1>9. \A j \in 1..m : j \in 1..n
  BY <1>6, <1>7, PicksAgree
<1>10. 1..n = 1..m
  BY <1>8, <1>9
<1>11. \A j \in 1..n : s[j] = t[j]
  BY <1>3, <1>5, <1>8 DEF Picked
<1> QED BY <1>3, <1>5, <1>10, <1>11 DEF Picked

LEMMA SelectionExists ==
  ASSUME NEW S, NEW q \in Seq(S), NEW I \in SUBSET (DOMAIN q)
  PROVE  Selection(q, I) # {}
<1>1. Len(q) \in Nat /\ DOMAIN q = 1..Len(q)
  BY LenProperties
<1>2. PICK T : T = {n \in 0..Len(q) : \E J \in SUBSET (1..n) : Selection(q, J) = {}}
  OBVIOUS
<1>3. ASSUME T # {} PROVE FALSE
  <2>1. PICK n \in T : \A k \in T : n <= k
    <3>1. T \in SUBSET Nat
      BY <1>1, <1>2
    <3> QED BY <1>3, <3>1, LeastPosition
  <2>2. n \in 0..Len(q) /\ n \in Nat
    BY <1>1, <1>2, <2>1
  <2>3. PICK J \in SUBSET (1..n) : Selection(q, J) = {}
    BY <1>2, <2>1
  <2>4. n # 0
    <3>1. n = 0 => J = {}
      BY <2>3
    <3> QED BY <2>3, <3>1, SelectionEmpty
  <2>5. n - 1 \in 0..Len(q) /\ n - 1 \notin T /\ n \in DOMAIN q
    BY <1>1, <2>1, <2>2, <2>4
  <2>6. PICK K : K = J \ {n}
    OBVIOUS
  <2>7. K \in SUBSET (1..(n - 1)) /\ K \in SUBSET (DOMAIN q) /\ \A i \in K : i < n
    BY <1>1, <2>2, <2>3, <2>6
  <2>8. PICK r : r \in Selection(q, K)
    BY <1>2, <2>5, <2>7
  <2>9. CASE n \in J
    <3>1. Append(r, q[n]) \in Selection(q, K \cup {n})
      BY <2>5, <2>7, <2>8, SelectionAppend
    <3>2. K \cup {n} = J
      BY <2>6, <2>9
    <3> QED BY <2>3, <3>1, <3>2
  <2>10. CASE n \notin J
    <3>1. K = J
      BY <2>6, <2>10
    <3> QED BY <2>3, <2>8, <3>1
  <2> QED BY <2>9, <2>10
<1>4. Len(q) \in 0..Len(q) /\ I \in SUBSET (1..Len(q))
  BY <1>1
<1> QED BY <1>2, <1>3, <1>4

LEMMA SelectedIs ==
  ASSUME NEW S, NEW q \in Seq(S), NEW I \in SUBSET (DOMAIN q)
  PROVE  /\ Selected(q, I) \in Selection(q, I)
         /\ \A t \in Selection(q, I) : t = Selected(q, I)
         /\ Selected(q, I) \in Seq(S)
<1>1. Selected(q, I) \in Selection(q, I)
  BY SelectionExists DEF Selected
<1> QED BY <1>1, SelectionUnique, SelectionLast

\* A selection from a selection is one.
LEMMA SelectionCompose ==
  ASSUME NEW S, NEW q \in Seq(S), NEW I \in SUBSET (DOMAIN q),
         NEW n \in 0..Len(q), NEW f, NEW s, Picked(s, f, n, q, I),
         NEW J \in SUBSET (1..n), NEW t \in Selection(s, J), NEW K,
         \A j \in J : f[j] \in K, \A k \in K : \E j \in J : f[j] = k
  PROVE  t \in Selection(q, K)
<1>1. Len(q) \in Nat /\ DOMAIN q = 1..Len(q) /\ n \in Nat
  BY LenProperties
<1>2. /\ s \in Seq(S) /\ Len(s) = n /\ DOMAIN s = 1..n
      /\ \A j \in 1..n : f[j] \in I /\ s[j] = q[f[j]]
      /\ \A i, j \in 1..n : i < j => f[i] < f[j]
  <2>1. s \in Seq(S) /\ Len(s) = n
    BY PickedIsASeq
  <2> QED BY <2>1 DEF Picked, Picks
<1>3. J \in SUBSET (DOMAIN s)
  BY <1>2
<1>4. PICK m \in 0..Len(s) : \E g : Picked(t, g, m, s, J)
  BY <1>2, <1>3, SelectionIs
<1>5. PICK g : Picked(t, g, m, s, J)
  BY <1>4
<1>6. /\ m \in Nat /\ m \in 0..Len(q)
      /\ t \in Seq(S) /\ Len(t) = m
      /\ \A j \in 1..m : g[j] \in J /\ t[j] = s[g[j]]
      /\ \A i, j \in 1..m : i < j => g[i] < g[j]
      /\ \A i \in J : \E j \in 1..m : g[j] = i
  <2>1. m \in Nat /\ m \in 0..Len(q)
    BY <1>1, <1>2
  <2>2. t \in Seq(S) /\ Len(t) = m
    <3>1. t \in Seq(S) /\ DOMAIN t = 1..m
      BY <1>2, <1>3, <1>5, SelectionLast DEF Picked
    <3> QED BY <2>1, <3>1, LenProperties
  <2> QED BY <1>5, <2>1, <2>2 DEF Picked, Picks
<1>8. PICK e : e = [j \in 1..m |-> f[g[j]]]
  OBVIOUS
<1>9. \A j \in 1..m : g[j] \in J /\ g[j] \in 1..n /\ e[j] = f[g[j]]
  BY <1>6, <1>8
<1>10. Picked(t, e, m, q, K)
  <2>1. DOMAIN e = 1..m /\ e = [j \in 1..m |-> e[j]]
    BY <1>8
  <2>2. ASSUME NEW j \in 1..m PROVE e[j] \in K /\ t[j] = q[e[j]]
    <3>1. g[j] \in J /\ g[j] \in 1..n /\ e[j] = f[g[j]] /\ t[j] = s[g[j]]
      BY <1>6, <1>9
    <3> QED BY <1>2, <3>1
  <2>3. \A i, j \in 1..m : i < j => e[i] < e[j]
    <3> SUFFICES ASSUME NEW i \in 1..m, NEW j \in 1..m, i < j PROVE e[i] < e[j]
      OBVIOUS
    <3>1. g[i] < g[j] /\ g[i] \in 1..n /\ g[j] \in 1..n
      BY <1>6, <1>9
    <3>2. f[g[i]] < f[g[j]]
      BY <1>2, <3>1
    <3> QED BY <1>9, <3>2
  <2>4. \A i \in K : \E j \in 1..m : e[j] = i
    BY <1>6, <1>9
  <2>5. DOMAIN t = 1..m /\ t = [j \in 1..m |-> t[j]]
    BY <1>5 DEF Picked
  <2> QED BY <2>1, <2>2, <2>3, <2>4, <2>5 DEF Picked, Picks
<1>11. K \in SUBSET (DOMAIN q)
  BY <1>2
<1> QED BY <1>6, <1>10, <1>11, SelectionIs

\* What stays when one element is removed is the selection of the other positions.
LEMMA RemovePicks ==
  ASSUME NEW S, NEW q \in Seq(S), NEW i \in DOMAIN q,
         NEW e, e = [j \in 1..(Len(q) - 1) |-> IF j < i THEN j ELSE j + 1]
  PROVE  /\ Picked(RemoveAt(q, i), e, Len(q) - 1, q, DOMAIN q \ {i})
         /\ Len(q) - 1 \in 0..Len(q)
<1>1. Len(q) \in Nat /\ DOMAIN q = 1..Len(q) /\ i \in 1..Len(q) /\ i \in Nat
  BY LenProperties
<1>2. PICK n : n = Len(q) - 1
  OBVIOUS
<1>3. n \in Nat /\ n + 1 = Len(q)
  BY <1>1, <1>2
<1>4. DOMAIN e = 1..n /\ e = [j \in 1..n |-> e[j]]
  BY <1>2
<1>5. \A j \in 1..n : e[j] = IF j < i THEN j ELSE j + 1
  BY <1>2
<1>6. PICK r : r = RemoveAt(q, i)
  OBVIOUS
<1>7. /\ r \in Seq(S) /\ Len(r) = n
      /\ \A j \in 1..n : r[j] = IF j < i THEN q[j] ELSE q[j + 1]
  BY <1>2, <1>6, RemoveAtProperties
<1>8. \A j \in 1..n : e[j] \in DOMAIN q \ {i} /\ r[j] = q[e[j]]
  <2> SUFFICES ASSUME NEW j \in 1..n PROVE e[j] \in DOMAIN q \ {i} /\ r[j] = q[e[j]]
    OBVIOUS
  <2>1. j \in Nat \ {0} /\ j <= n
    BY <1>3
  <2>2. CASE j < i
    BY <1>1, <1>3, <1>5, <1>7, <2>1, <2>2
  <2>3. CASE ~(j < i)
    <3>1. e[j] = j + 1 /\ r[j] = q[j + 1]
      BY <1>5, <1>7, <2>3
    <3> QED BY <1>1, <1>3, <2>1, <2>3, <3>1
  <2> QED BY <2>2, <2>3
<1>9. \A j, k \in 1..n : j < k => e[j] < e[k]
  <2> SUFFICES ASSUME NEW j \in 1..n, NEW k \in 1..n, j < k PROVE e[j] < e[k]
    OBVIOUS
  <2>1. j \in Nat /\ k \in Nat
    BY <1>3
  <2>2. /\ e[j] = IF j < i THEN j ELSE j + 1
        /\ e[k] = IF k < i THEN k ELSE k + 1
    BY <1>5
  <2> QED BY <1>1, <2>1, <2>2
<1>10. ASSUME NEW k \in DOMAIN q \ {i} PROVE \E j \in 1..n : e[j] = k
  <2>1. k \in Nat \ {0} /\ k <= Len(q) /\ k # i
    BY <1>1
  <2>2. CASE k < i
    <3>1. k \in 1..n
      BY <1>1, <1>3, <2>1, <2>2
    <3> QED BY <1>5, <2>2, <3>1
  <2>3. CASE ~(k < i)
    <3>1. k - 1 \in 1..n /\ ~(k - 1 < i) /\ (k - 1) + 1 = k
      BY <1>1, <1>3, <2>1, <2>3
    <3> QED BY <1>5, <3>1
  <2> QED BY <2>2, <2>3
<1>11. Picked(r, e, n, q, DOMAIN q \ {i})
  <2>1. DOMAIN r = 1..n /\ r = [j \in 1..n |-> r[j]]
    BY <1>7, LenProperties
  <2> QED BY <1>4, <1>7, <1>8, <1>9, <1>10, <2>1 DEF Picked, Picks
<1>12. n \in 0..Len(q)
  BY <1>3
<1> QED BY <1>2, <1>6, <1>11, <1>12

\* The positions of I in a sequence, and those of J in what is left of it, n elements,
\* when its element at i is taken out.
Shifted(J, I, i, n) == \A j \in 1..n : j \in J <=> (IF j < i THEN j ELSE j + 1) \in I

\* A selection after an element of the sequence was removed, ...
LEMMA SelectedRemove ==
  ASSUME NEW S, NEW q \in Seq(S), NEW i \in DOMAIN q, NEW I \in SUBSET (DOMAIN q),
         NEW J \in SUBSET (1..(Len(q) - 1)), Shifted(J, I, i, Len(q) - 1)
  PROVE  Selected(RemoveAt(q, i), J) = Selected(q, I \ {i})
<1>1. Len(q) \in Nat /\ DOMAIN q = 1..Len(q) /\ i \in 1..Len(q) /\ i \in Nat
  BY LenProperties
<1>2. PICK n : n = Len(q) - 1
  OBVIOUS
<1>3. PICK e : e = [j \in 1..n |-> IF j < i THEN j ELSE j + 1]
  OBVIOUS
<1>4. PICK s : s = RemoveAt(q, i)
  OBVIOUS
<1>5. PICK R : R = DOMAIN q \ {i}
  OBVIOUS
<1>6. Picked(s, e, n, q, R) /\ n \in 0..Len(q)
  BY <1>2, <1>3, <1>4, <1>5, RemovePicks
<1>7. R \in SUBSET (DOMAIN q) /\ n \in Nat /\ J \in SUBSET (1..n)
  BY <1>1, <1>2, <1>5, <1>6
<1>8. /\ s \in Seq(S) /\ DOMAIN s = 1..n
      /\ \A j \in 1..n : e[j] \in R
      /\ \A k \in R : \E j \in 1..n : e[j] = k
  <2>1. s \in Seq(S)
    BY <1>1, <1>4, RemoveAtProperties
  <2> QED BY <1>6, <2>1 DEF Picked, Picks
<1>9. PICK t : t = Selected(s, J)
  OBVIOUS
<1>10. t \in Selection(s, J)
  BY <1>7, <1>8, <1>9, SelectedIs
<1>12. \A j \in 1..n : j \in J <=> e[j] \in I
  <2> SUFFICES ASSUME NEW j \in 1..n PROVE j \in J <=> e[j] \in I
    OBVIOUS
  <2>1. e[j] = IF j < i THEN j ELSE j + 1
    BY <1>3
  <2> QED BY <1>2, <2>1 DEF Shifted
<1>13. \A j \in J : e[j] \in I \ {i}
  BY <1>5, <1>7, <1>8, <1>12
<1>14. ASSUME NEW k \in I \ {i} PROVE \E j \in J : e[j] = k
  <2>1. k \in R
    BY <1>5, <1>14
  <2> QED BY <1>8, <1>12, <1>14, <2>1
<1>15. t \in Selection(q, I \ {i})
  BY <1>6, <1>7, <1>10, <1>13, <1>14, SelectionCompose
<1>16. I \ {i} \in SUBSET (DOMAIN q)
  OBVIOUS
<1> QED BY <1>4, <1>9, <1>15, <1>16, SelectedIs

\* ... where that element stood in the selection, ...
LEMMA SelectedTake ==
  ASSUME NEW S, NEW q \in Seq(S), NEW I \in SUBSET (DOMAIN q), NEW i \in I
  PROVE  \E k \in DOMAIN Selected(q, I) :
           /\ Selected(q, I)[k] = q[i]
           /\ RemoveAt(Selected(q, I), k) = Selected(q, I \ {i})
           /\ \A j \in 1..(k - 1) : \E l \in I : l < i /\ Selected(q, I)[j] = q[l]
<1>0. PICK s : s = Selected(q, I)
  OBVIOUS
<1>1. s \in Selection(q, I) /\ Len(q) \in Nat
  BY <1>0, SelectedIs, LenProperties
<1>2. PICK n \in 0..Len(q) : \E f : Picked(s, f, n, q, I)
  BY <1>1, SelectionIs
<1>3. PICK f : Picked(s, f, n, q, I)
  BY <1>2
<1>4. n \in Nat
  BY <1>1
<1>5. /\ s \in Seq(S) /\ Len(s) = n /\ DOMAIN s = 1..n
      /\ \A j \in 1..n : f[j] \in I /\ f[j] \in Nat /\ s[j] = q[f[j]]
      /\ \A j, l \in 1..n : j < l => f[j] < f[l]
      /\ \A l \in I : \E j \in 1..n : f[j] = l
  <2>1. s \in Seq(S) /\ DOMAIN s = 1..n /\ n \in Nat
    BY <1>0, <1>3, <1>4, SelectedIs DEF Picked
  <2>2. Len(s) = n
    BY <2>1, LenProperties
  <2>3. \A j \in 1..n : f[j] \in I /\ f[j] \in Nat
    BY <1>1, <1>3, LenProperties DEF Picked, Picks
  <2> QED BY <1>3, <2>1, <2>2, <2>3 DEF Picked, Picks
<1>6. PICK k \in 1..n : f[k] = i
  BY <1>5
<1>7. PICK e : e = [j \in 1..(Len(s) - 1) |-> IF j < k THEN j ELSE j + 1]
  OBVIOUS
<1>8. PICK r : r = RemoveAt(s, k)
  OBVIOUS
<1>9. PICK J : J = DOMAIN s \ {k}
  OBVIOUS
<1>10. Picked(r, e, Len(s) - 1, s, J) /\ Len(s) - 1 \in 0..Len(s)
  BY <1>5, <1>6, <1>7, <1>8, <1>9, RemovePicks
<1>11. J \in SUBSET (DOMAIN s) /\ J \in SUBSET (1..n)
  BY <1>5, <1>9
<1>12. r \in Selection(s, J)
  BY <1>5, <1>10, <1>11, SelectionIs
<1>13. ASSUME NEW j \in J PROVE f[j] \in I \ {i}
  <2>1. j \in 1..n /\ j # k
    BY <1>9, <1>11
  <2>2. j < k \/ k < j
    BY <1>6, <2>1
  <2>3. f[j] < f[k] \/ f[k] < f[j]
    BY <1>5, <1>6, <2>1, <2>2
  <2> QED BY <1>5, <1>6, <2>1, <2>3
<1>14. ASSUME NEW l \in I \ {i} PROVE \E j \in J : f[j] = l
  <2>1. PICK j \in 1..n : f[j] = l
    BY <1>5, <1>14
  <2>2. j \in J
    BY <1>5, <1>6, <1>9, <1>14, <2>1
  <2> QED BY <2>1, <2>2
<1>15. r \in Selection(q, I \ {i}) /\ I \ {i} \in SUBSET (DOMAIN q)
  BY <1>3, <1>11, <1>12, <1>13, <1>14, SelectionCompose
<1>16. r = Selected(q, I \ {i})
  BY <1>15, SelectedIs
<1>17. ASSUME NEW j \in 1..(k - 1) PROVE \E l \in I : l < i /\ s[j] = q[l]
  <2>1. j \in 1..n /\ j < k
    BY <1>4, <1>6
  <2>2. f[j] \in I /\ s[j] = q[f[j]]
    BY <1>5, <2>1
  <2>3. f[j] < f[k]
    BY <1>5, <1>6, <2>1
  <2> QED BY <1>6, <2>2, <2>3
<1>18. k \in DOMAIN s /\ s[k] = q[i] /\ RemoveAt(s, k) = Selected(q, I \ {i})
  BY <1>5, <1>6, <1>8, <1>16
<1> QED BY <1>0, <1>17, <1>18

\* ... and after one was added at the end.
LEMMA SelectedAppend ==
  ASSUME NEW S, NEW q \in Seq(S), NEW x \in S, NEW I \in SUBSET (DOMAIN q)
  PROVE  /\ Selected(Append(q, x), I) = Selected(q, I)
         /\ Selected(Append(q, x), I \cup {Len(q) + 1}) = Append(Selected(q, I), x)
<1>1. Len(q) \in Nat /\ DOMAIN q = 1..Len(q)
  BY LenProperties
<1>2. PICK p : p = Append(q, x)
  OBVIOUS
<1>3. /\ p \in Seq(S) /\ Len(p) = Len(q) + 1 /\ DOMAIN p = 1..(Len(q) + 1)
      /\ \A j \in 1..Len(q) : p[j] = q[j]
      /\ p[Len(q) + 1] = x
  <2>1. /\ p \in Seq(S) /\ Len(p) = Len(q) + 1
        /\ \A j \in 1..Len(q) : p[j] = q[j]
        /\ p[Len(q) + 1] = x
    BY <1>2, AppendProperties
  <2> QED BY <2>1, LenProperties
<1>4. PICK t : t = Selected(q, I)
  OBVIOUS
<1>5. t \in Selection(q, I)
  BY <1>4, SelectedIs
<1>6. PICK n \in 0..Len(q) : \E f : Picked(t, f, n, q, I)
  BY <1>5, SelectionIs
<1>7. PICK f : Picked(t, f, n, q, I)
  BY <1>6
<1>8. n \in Nat /\ n \in 0..Len(p) /\ I \in SUBSET (DOMAIN p)
  BY <1>1, <1>3
<1>9. t \in Selection(p, I)
  <2>1. \A j \in 1..n : f[j] \in 1..Len(q) /\ t[j] = q[f[j]]
    BY <1>1, <1>7 DEF Picked, Picks
  <2>2. \A j \in 1..n : t[j] = p[f[j]]
    BY <1>3, <2>1
  <2>3. Picked(t, f, n, p, I)
    BY <1>7, <2>2 DEF Picked
  <2> QED BY <1>3, <1>8, <2>3, SelectionIs
<1>10. t = Selected(p, I)
  BY <1>3, <1>8, <1>9, SelectedIs
<1>11. Append(t, x) = Selected(p, I \cup {Len(q) + 1})
  <2>1. PICK e : e = Len(q) + 1
    OBVIOUS
  <2>2. e \in DOMAIN p /\ \A i \in I : i < e
    BY <1>1, <1>3, <2>1
  <2>3. Append(t, p[e]) \in Selection(p, I \cup {e})
    BY <1>3, <1>8, <1>9, <2>2, SelectionAppend
  <2>4. I \cup {e} \in SUBSET (DOMAIN p)
    BY <1>8, <2>2
  <2>5. Append(t, p[e]) = Selected(p, I \cup {e})
    BY <1>3, <2>3, <2>4, SelectedIs
  <2> QED BY <1>3, <2>1, <2>5
<1> QED BY <1>2, <1>4, <1>10, <1>11

\* The elements of a selection that lie in P.
LEMMA SelectedWithin ==
  ASSUME NEW S, NEW q \in Seq(S), NEW I \in SUBSET (DOMAIN q), NEW P,
         NEW K \in SUBSET I, \A i \in I : i \in K <=> q[i] \in P,
         NEW J \in SUBSET (DOMAIN Selected(q, I)),
         \A k \in DOMAIN Selected(q, I) : k \in J <=> Selected(q, I)[k] \in P
  PROVE  Selected(q, K) \in Selection(Selected(q, I), J)
<1>0. PICK s : s = Selected(q, I)
  OBVIOUS
<1>1. s \in Selection(q, I) /\ Len(q) \in Nat
  BY <1>0, SelectedIs, LenProperties
<1>2. PICK n \in 0..Len(q) : \E f : Picked(s, f, n, q, I)
  BY <1>1, SelectionIs
<1>3. PICK f : Picked(s, f, n, q, I)
  BY <1>2
<1>4. n \in Nat
  BY <1>1
<1>5. /\ s \in Seq(S) /\ DOMAIN s = 1..n
      /\ \A j \in 1..n : f[j] \in I /\ s[j] = q[f[j]]
      /\ \A l \in I : \E j \in 1..n : f[j] = l
  BY <1>3, <1>4, PickedIsASeq DEF Picked, Picks
<1>6. /\ J \in SUBSET (DOMAIN s) /\ J \in SUBSET (1..n)
      /\ \A j \in 1..n : j \in J <=> s[j] \in P
  BY <1>0, <1>5
<1>7. PICK t : t \in Selection(s, J)
  BY <1>5, <1>6, SelectionExists
<1>8. \A j \in J : f[j] \in K
  BY <1>5, <1>6
<1>9. ASSUME NEW i \in K PROVE \E j \in J : f[j] = i
  <2>1. i \in I
    OBVIOUS
  <2>2. PICK j \in 1..n : f[j] = i
    BY <1>5, <2>1
  <2> QED BY <1>5, <1>6, <1>9, <2>1, <2>2
<1>10. t \in Selection(q, K) /\ K \in SUBSET (DOMAIN q)
  BY <1>3, <1>6, <1>7, <1>8, <1>9, SelectionCompose
<1>11. t = Selected(q, K)
  BY <1>10, SelectedIs
<1> QED BY <1>0, <1>7, <1>11

-----------------------------------------------------------------------------
(* How often a function, or a sequence, has a value.                       *)

\* The places of f with the value x.
Times(f, x) == Cardinality({a \in DOMAIN f : f[a] = x})
Eq(x, y) == IF x = y THEN 1 ELSE 0

\* A number, and not zero when some place has the value.
LEMMA TimesType ==
  ASSUME NEW D, IsFiniteSet(D), NEW R, NEW f \in [D -> R], NEW x
  PROVE  Times(f, x) \in Nat /\ (\A a \in D : f[a] = x => Times(f, x) >= 1)
<1> DEFINE S == {a \in DOMAIN f : f[a] = x}
<1>1. IsFiniteSet(S) /\ S = {a \in D : f[a] = x}
  BY FS_Subset
<1>2. Times(f, x) = Cardinality(S)
  BY DEF Times
<1>3. Cardinality(S) \in Nat /\ (Cardinality(S) = 0 <=> S = {})
  <2> HIDE DEF S
  <2> QED BY <1>1, FS_CardinalityType, FS_EmptySet
<1>4. ASSUME NEW a \in D, f[a] = x
      PROVE  Times(f, x) >= 1
  <2>1. S # {}
    BY <1>1, <1>4
  <2> HIDE DEF S
  <2> QED BY <1>2, <1>3, <2>1
<1> HIDE DEF S
<1> QED BY <1>2, <1>3, <1>4

\* A value becomes another at one place of a function.
Swaps(f, old, g, new, x) == Times(g, x) + Eq(x, old) = Times(f, x) + Eq(x, new)

\* One change to a function changes how often it has a value by one.
LEMMA TimesChange ==
  ASSUME NEW D, IsFiniteSet(D), NEW R, NEW f \in [D -> R], NEW a \in D, NEW v,
         NEW g, g = [f EXCEPT ![a] = v], NEW x
  PROVE  Swaps(f, f[a], g, v, x)
<1> DEFINE S == {b \in DOMAIN f : f[b] = x}
           T == {b \in DOMAIN g : g[b] = x}
           U == S \ {a}
<1>1. DOMAIN f = D /\ DOMAIN g = D /\ g[a] = v /\ \A b \in D : b # a => g[b] = f[b]
  OBVIOUS
<1>2. IsFiniteSet(U) /\ a \notin U
  <2>1. U \subseteq D
    BY <1>1
  <2> QED BY <2>1, FS_Subset
<1>3. Times(f, x) = Cardinality(S) /\ Times(g, x) = Cardinality(T)
  BY DEF Times
<1>4. (f[a] = x => S = U \cup {a}) /\ (f[a] # x => S = U)
  BY <1>1
<1>5. (v = x => T = U \cup {a}) /\ (v # x => T = U)
  BY <1>1
<1> HIDE DEF S, T, U
<1>6. Cardinality(U) \in Nat /\ Cardinality(U \cup {a}) = Cardinality(U) + 1
  BY <1>2, FS_CardinalityType, FS_AddElement
<1>7. /\ f[a] = x => Cardinality(S) = Cardinality(U \cup {a})
      /\ f[a] # x => Cardinality(S) = Cardinality(U)
      /\ v = x => Cardinality(T) = Cardinality(U \cup {a})
      /\ v # x => Cardinality(T) = Cardinality(U)
  BY <1>4, <1>5, Zenon
<1> QED BY <1>3, <1>6, <1>7 DEF Eq, Swaps

\* A value that nothing has is there no times.
LEMMA TimesNone ==
  ASSUME NEW f, NEW x, \A a \in DOMAIN f : f[a] # x
  PROVE  Times(f, x) = 0
<1>1. {a \in DOMAIN f : f[a] = x} = {}
  OBVIOUS
<1> QED BY <1>1, FS_EmptySet DEF Times

\* A sequence gets longer.
LEMMA TimesAppend ==
  ASSUME NEW R, NEW s \in Seq(R), NEW v \in R, NEW x
  PROVE  Times(Append(s, v), x) = Times(s, x) + Eq(x, v)
<1> DEFINE S == {b \in DOMAIN s : s[b] = x}
           T == {b \in DOMAIN Append(s, v) : Append(s, v)[b] = x}
           n == Len(s) + 1
<1>1. /\ DOMAIN s = 1..Len(s) /\ Len(s) \in Nat /\ DOMAIN Append(s, v) = 1..n
      /\ Append(s, v)[n] = v /\ \A b \in 1..Len(s) : Append(s, v)[b] = s[b]
  OBVIOUS
<1>2. IsFiniteSet(S) /\ n \notin S
  <2>1. IsFiniteSet(1..Len(s)) /\ S \subseteq 1..Len(s) /\ n \notin 1..Len(s)
    BY <1>1, FS_Interval
  <2> QED BY <2>1, FS_Subset
<1>3. (v = x => T = S \cup {n}) /\ (v # x => T = S)
  BY <1>1
<1>4. Times(s, x) = Cardinality(S) /\ Times(Append(s, v), x) = Cardinality(T)
  BY DEF Times
<1> HIDE DEF S, T, n
<1>5. Cardinality(S) \in Nat /\ Cardinality(S \cup {n}) = Cardinality(S) + 1
  BY <1>2, FS_CardinalityType, FS_AddElement
<1>6. /\ v = x => Cardinality(T) = Cardinality(S \cup {n})
      /\ v # x => Cardinality(T) = Cardinality(S)
  BY <1>3, Zenon
<1> QED BY <1>4, <1>5, <1>6 DEF Eq

\* A sequence is cut, after n of its elements.
LEMMA TimesCut ==
  ASSUME NEW R, NEW s \in Seq(R), NEW n \in 0..Len(s), NEW x
  PROVE  /\ Times(s, x) \in Nat /\ Times(SubSeq(s, 1, n), x) \in Nat
         /\ Times(SubSeq(s, 1, n), x) <= Times(s, x)
         /\ n < Len(s) /\ s[n + 1] = x => Times(SubSeq(s, 1, n), x) + 1 <= Times(s, x)
         /\ Len(s) = n + 1 => Times(s, x) = Times(SubSeq(s, 1, n), x) + Eq(x, s[n + 1])
<1> DEFINE S == {b \in DOMAIN s : s[b] = x}
           T == {b \in DOMAIN SubSeq(s, 1, n) : SubSeq(s, 1, n)[b] = x}
           k == n + 1
<1>1. /\ DOMAIN s = 1..Len(s) /\ Len(s) \in Nat /\ DOMAIN SubSeq(s, 1, n) = 1..n
      /\ \A b \in 1..n : SubSeq(s, 1, n)[b] = s[b]
  OBVIOUS
<1>2. IsFiniteSet(S) /\ T \subseteq S /\ k \notin T /\ IsFiniteSet(T)
  <2>1. IsFiniteSet(1..Len(s)) /\ S \subseteq 1..Len(s) /\ k \notin 1..n
    <3>1. IsFiniteSet(1..Len(s))
      BY <1>1, FS_Interval
    <3> QED BY <1>1, <3>1
  <2>2. T \subseteq S /\ T \subseteq 1..n
    BY <1>1
  <2> HIDE DEF S, T
  <2> QED BY <2>1, <2>2, FS_Subset
<1>3. n < Len(s) /\ s[k] = x => T \cup {k} \subseteq S
  BY <1>1, <1>2
<1>4. Len(s) = n + 1 => (s[k] = x => S = T \cup {k}) /\ (s[k] # x => S = T)
  BY <1>1, <1>2
<1>5. Times(s, x) = Cardinality(S) /\ Times(SubSeq(s, 1, n), x) = Cardinality(T)
  BY DEF Times
<1> HIDE DEF S, T
<1>6. /\ Cardinality(T) \in Nat /\ Cardinality(T \cup {k}) = Cardinality(T) + 1
      /\ Cardinality(S) \in Nat
  BY <1>2, FS_CardinalityType, FS_AddElement
<1>7. Cardinality(T) <= Cardinality(S)
  BY <1>2, FS_Subset
<1>8. n < Len(s) /\ s[k] = x => Cardinality(T) + 1 <= Cardinality(S)
  BY <1>2, <1>3, <1>6, FS_Subset
<1>9. Len(s) = n + 1 => /\ s[k] = x => Cardinality(S) = Cardinality(T \cup {k})
                        /\ s[k] # x => Cardinality(S) = Cardinality(T)
  BY <1>4, Zenon
<1> QED BY <1>5, <1>6, <1>7, <1>8, <1>9 DEF Eq

\* Some values become another.
LEMMA TimesLess ==
  ASSUME NEW D, IsFiniteSet(D), NEW R, NEW f \in [D -> R], NEW g, NEW o, DOMAIN g = D,
         \A a \in D : g[a] = f[a] \/ g[a] = o, NEW x, x # o
  PROVE  Times(g, x) \in Nat /\ Times(g, x) <= Times(f, x)
<1> DEFINE S == {b \in DOMAIN f : f[b] = x}
           T == {b \in DOMAIN g : g[b] = x}
<1>1. T \subseteq S /\ IsFiniteSet(S)
  BY FS_Subset
<1>2. Times(f, x) = Cardinality(S) /\ Times(g, x) = Cardinality(T)
  BY DEF Times
<1> HIDE DEF S, T
<1> QED BY <1>1, <1>2, FS_Subset, FS_CardinalityType
=============================================================================
