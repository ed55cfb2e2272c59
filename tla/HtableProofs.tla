---------------------------- MODULE HtableProofs ----------------------------
(***************************************************************************)
(* Proofs about Htable, for any objects, tables, values and hash function: *)
(* every reference is counted once, associations go before their keys, and *)
(* each key is found where the functions look for it.                      *)
(***************************************************************************)
EXTENDS Htable, SeqLemmas, FiniteSetTheorems, TLAPS

-----------------------------------------------------------------------------
(* Counting.                                                               *)

\* A function that reaches every element of T from one element of S counts T.
LEMMA SameCount ==
  ASSUME NEW S, NEW T, NEW f \in [S -> T], IsFiniteSet(S),
         \A x, y \in S : f[x] = f[y] => x = y,
         \A z \in T : \E x \in S : f[x] = z
  PROVE  IsFiniteSet(T) /\ Cardinality(T) = Cardinality(S)
<1>1. f \in Injection(S, T)
  BY DEF Injection, IsInjective
<1>2. f \in Surjection(S, T)
  BY DEF Surjection
<1>3. ExistsBijection(S, T)
  BY <1>1, <1>2 DEF ExistsBijection, Bijection
<1> QED BY <1>3, FS_Bijection

\* How many elements of s are in X.
Occurrences(s, X) == Cardinality({i \in DOMAIN s : s[i] \in X})

LEMMA OccurrencesType ==
  ASSUME NEW S, NEW s \in Seq(S), NEW X
  PROVE  /\ IsFiniteSet({i \in DOMAIN s : s[i] \in X})
         /\ Occurrences(s, X) \in Nat
<1>1. DOMAIN s = 1..Len(s) /\ Len(s) \in Nat
  BY LenProperties
<1>2. IsFiniteSet({i \in DOMAIN s : s[i] \in X})
  <2>1. IsFiniteSet(1..Len(s))
    BY <1>1, FS_Interval
  <2>2. {i \in DOMAIN s : s[i] \in X} \in SUBSET (1..Len(s))
    BY <1>1
  <2> QED BY <2>1, <2>2, FS_Subset
<1> QED BY <1>2, FS_CardinalityType DEF Occurrences

\* A concatenation has the elements of both parts.
LEMMA OccurrencesConcat ==
  ASSUME NEW S, NEW s \in Seq(S), NEW t \in Seq(S), NEW X
  PROVE  Occurrences(s \o t, X) = Occurrences(s, X) + Occurrences(t, X)
<1> DEFINE A == {i \in DOMAIN s : s[i] \in X}
           B == {i \in DOMAIN t : t[i] \in X}
           C == {i \in DOMAIN (s \o t) : (s \o t)[i] \in X}
           D == {i \in C : i > Len(s)}
           shift == [i \in B |-> i + Len(s)]
<1>1. /\ DOMAIN s = 1..Len(s) /\ Len(s) \in Nat
      /\ DOMAIN t = 1..Len(t) /\ Len(t) \in Nat
      /\ DOMAIN (s \o t) = 1..(Len(s) + Len(t))
      /\ \A i \in 1..(Len(s) + Len(t)) :
           (s \o t)[i] = IF i <= Len(s) THEN s[i] ELSE t[i - Len(s)]
  BY LenProperties, ConcatProperties
<1>2. IsFiniteSet(A) /\ IsFiniteSet(B)
  BY OccurrencesType
<1>3. C = A \cup D /\ A \cap D = {}
  BY <1>1
<1>4. IsFiniteSet(D) /\ Cardinality(D) = Cardinality(B)
  <2>1. shift \in [B -> D]
    <3> SUFFICES ASSUME NEW i \in B PROVE i + Len(s) \in D
      OBVIOUS
    <3>1. i \in 1..Len(t) /\ i + Len(s) \in 1..(Len(s) + Len(t)) /\ i + Len(s) > Len(s)
      BY <1>1
    <3>2. (i + Len(s)) - Len(s) = i
      BY <1>1, <3>1
    <3> QED BY <1>1, <3>1, <3>2
  <2>2. \A i, j \in B : shift[i] = shift[j] => i = j
    BY <1>1
  <2>3. ASSUME NEW i \in D PROVE \E j \in B : shift[j] = i
    <3>1. i - Len(s) \in B
      BY <1>1
    <3>2. shift[i - Len(s)] = i
      BY <1>1, <3>1
    <3> QED BY <3>1, <3>2
  <2> HIDE DEF shift, B, D
  <2> QED BY <1>2, <2>1, <2>2, <2>3, SameCount
<1> HIDE DEF A, B, C, D
<1>5. Cardinality(A \cap D) = 0
  BY <1>3, FS_EmptySet
<1>6. Cardinality(C) = Cardinality(A) + Cardinality(D) - Cardinality(A \cap D)
  BY <1>2, <1>3, <1>4, FS_Union
<1>7. Cardinality(A) \in Nat /\ Cardinality(D) \in Nat
  BY <1>2, <1>4, FS_CardinalityType
<1>8. /\ Cardinality(A) = Occurrences(s, X) /\ Cardinality(B) = Occurrences(t, X)
      /\ Cardinality(C) = Occurrences(s \o t, X)
  BY DEF A, B, C, Occurrences
<1> QED BY <1>4, <1>5, <1>6, <1>7, <1>8

LEMMA OccurrencesOne ==
  ASSUME NEW y, NEW X
  PROVE  /\ Occurrences(<<y>>, X) = IF y \in X THEN 1 ELSE 0
         /\ Occurrences(<<>>, X) = 0
<1>1. {i \in DOMAIN <<>> : <<>>[i] \in X} = {}
  OBVIOUS
<1>2. CASE y \in X
  <2>1. {i \in DOMAIN <<y>> : <<y>>[i] \in X} = {1}
    BY <1>2
  <2> QED BY <1>1, <1>2, <2>1, FS_EmptySet, FS_Singleton DEF Occurrences
<1>3. CASE y \notin X
  <2>1. {i \in DOMAIN <<y>> : <<y>>[i] \in X} = {}
    BY <1>3
  <2> QED BY <1>1, <1>3, <2>1, FS_EmptySet DEF Occurrences
<1> QED BY <1>2, <1>3

\* The first element taken off and others put in front.
LEMMA OccurrencesReplace ==
  ASSUME NEW S, NEW s \in Seq(S), s # <<>>, NEW new \in Seq(S), NEW X
  PROVE  Occurrences(new \o Tail(s), X) =
           Occurrences(new, X) + Occurrences(s, X) - (IF Head(s) \in X THEN 1 ELSE 0)
<1> DEFINE h == <<Head(s)>>
<1>1. /\ Head(s) \in S /\ Tail(s) \in Seq(S) /\ Len(Tail(s)) = Len(s) - 1
      /\ \A i \in 1..Len(Tail(s)) : Tail(s)[i] = s[i + 1]
  BY HeadTailProperties
<1>2. h \in Seq(S) /\ Len(h) = 1 /\ h[1] = Head(s)
  BY <1>1
<1>3. Head(s) = s[1] /\ Len(s) \in Nat \ {0}
  <2>1. Len(s) \in Nat \ {0}
    <3>1. Len(s) \in Nat
      BY LenProperties
    <3>2. Len(s) # 0
      BY EmptySeq
    <3> QED BY <3>1, <3>2
  <2>2. Head(s) = s[1]
    OBVIOUS
  <2> QED BY <2>1, <2>2
<1> HIDE DEF h
<1>4. s = h \o Tail(s)
  <2>1. /\ h \o Tail(s) \in Seq(S) /\ Len(h \o Tail(s)) = Len(h) + Len(Tail(s))
        /\ \A i \in 1..(Len(h) + Len(Tail(s))) :
             (h \o Tail(s))[i] = IF i <= Len(h) THEN h[i] ELSE Tail(s)[i - Len(h)]
    <3>1. PICK t : t = Tail(s)
      OBVIOUS
    <3>2. h \in Seq(S) /\ t \in Seq(S)
      BY <1>1, <1>2, <3>1
    <3>3. /\ h \o t \in Seq(S) /\ Len(h \o t) = Len(h) + Len(t)
          /\ \A i \in 1..(Len(h) + Len(t)) :
               (h \o t)[i] = IF i <= Len(h) THEN h[i] ELSE t[i - Len(h)]
      BY <3>2, ConcatProperties
    <3> QED BY <3>1, <3>3, Zenon
  <2>2. Len(h \o Tail(s)) = Len(s)
    BY <1>1, <1>2, <1>3, <2>1
  <2>3. ASSUME NEW i \in 1..Len(s) PROVE s[i] = (h \o Tail(s))[i]
    <3>1. CASE i = 1
      BY <1>1, <1>2, <1>3, <2>1, <3>1
    <3>2. CASE i # 1
      <4>1. i - 1 \in 1..Len(Tail(s)) /\ (i - 1) + 1 = i /\ ~(i <= Len(h))
        BY <1>1, <1>2, <1>3, <3>2
      <4> QED BY <1>1, <1>2, <1>3, <2>1, <2>2, <4>1
    <3> QED BY <3>1, <3>2
  <2> QED BY <2>1, <2>2, <2>3, SeqEqual
<1>5. Occurrences(h, X) = IF Head(s) \in X THEN 1 ELSE 0
  BY OccurrencesOne DEF h
<1>6. Occurrences(s, X) = Occurrences(h, X) + Occurrences(Tail(s), X)
  <2>1. PICK t : t = Tail(s)
    OBVIOUS
  <2>2. Occurrences(h \o t, X) = Occurrences(h, X) + Occurrences(t, X)
    BY <1>1, <1>2, <2>1, OccurrencesConcat
  <2>3. s = h \o t
    BY <1>4, <2>1
  <2> QED BY <2>1, <2>2, <2>3, Zenon
<1>7. Occurrences(new \o Tail(s), X) = Occurrences(new, X) + Occurrences(Tail(s), X)
  BY <1>1, OccurrencesConcat
<1>8. Occurrences(new, X) \in Nat /\ Occurrences(Tail(s), X) \in Nat
  BY <1>1, OccurrencesType
<1> QED BY <1>5, <1>6, <1>7, <1>8

-----------------------------------------------------------------------------
(* Listings.                                                               *)

\* InOrder lists the pairs of a finite set, each once.
LEMMA InOrderProperties ==
  ASSUME NEW P \in SUBSET (Nat \X Nat), IsFiniteSet(P)
  PROVE  /\ Cardinality(P) \in Nat
         /\ \A n \in 1..Cardinality(P) : InOrder(P)[n] \in P
         /\ \A m, n \in 1..Cardinality(P) : InOrder(P)[m] = InOrder(P)[n] => m = n
         /\ \A p \in P : \E n \in 1..Cardinality(P) : InOrder(P)[n] = p
<1> DEFINE N == Cardinality(P)
           UpTo(p) == {q \in P : q[1] < p[1] \/ (q[1] = p[1] /\ q[2] <= p[2])}
           rank == [p \in P |-> Cardinality(UpTo(p))]
<1>1. N \in Nat
  BY FS_CardinalityType
<1>2. \A p \in P : p = <<p[1], p[2]>> /\ p[1] \in Nat /\ p[2] \in Nat
  OBVIOUS
<1>3. ASSUME NEW p \in P PROVE rank[p] \in 1..N /\ IsFiniteSet(UpTo(p))
  <2>1. UpTo(p) \in SUBSET P /\ p \in UpTo(p)
    BY <1>2
  <2> HIDE DEF UpTo
  <2>2. IsFiniteSet(UpTo(p)) /\ Cardinality(UpTo(p)) <= N /\ Cardinality(UpTo(p)) \in Nat
    BY <2>1, FS_Subset, FS_CardinalityType
  <2>3. Cardinality(UpTo(p)) # 0
    BY <2>1, <2>2, FS_EmptySet
  <2> QED BY <1>1, <2>2, <2>3
<1>4. ASSUME NEW p \in P, NEW q \in P, p # q PROVE rank[p] # rank[q]
  <2>1. ASSUME NEW x \in P, NEW y \in P, x # y, y \notin UpTo(x) PROVE rank[x] # rank[y]
    <3>1. UpTo(x) \in SUBSET UpTo(y)
      BY <1>2, <2>1
    <3>2. y \in UpTo(y)
      BY <1>2
    <3>3. UpTo(x) # UpTo(y)
      BY <2>1, <3>2
    <3> HIDE DEF UpTo
    <3> QED BY <1>3, <3>1, <3>3, FS_Subset
  <2>2. p \notin UpTo(q) \/ q \notin UpTo(p)
    BY <1>2, <1>4
  <2> HIDE DEF rank, UpTo
  <2> QED BY <1>4, <2>1, <2>2
<1>5. rank \in Injection(P, 1..N)
  <2>1. rank \in [P -> 1..N]
    BY <1>3
  <2> HIDE DEF rank, N
  <2> QED BY <1>4, <2>1 DEF Injection, IsInjective
<1>6. IsFiniteSet(1..N) /\ Cardinality(1..N) = N
  BY <1>1, FS_Interval
<1>7. rank \in Surjection(P, 1..N)
  <2> HIDE DEF rank
  <2> QED BY <1>5, <1>6, FS_Injection
<1>8. ASSUME NEW n \in 1..N
      PROVE  InOrder(P)[n] \in P /\ rank[InOrder(P)[n]] = n
  <2>1. \E p \in P : rank[p] = n
    BY <1>7 DEF Surjection
  <2>2. InOrder(P)[n] = CHOOSE p \in P : Cardinality(UpTo(p)) = n
    BY DEF InOrder
  <2>3. \A p \in P : rank[p] = Cardinality(UpTo(p))
    OBVIOUS
  <2> HIDE DEF rank, UpTo
  <2> QED BY <2>1, <2>2, <2>3
<1> HIDE DEF rank
<1>9. \A p \in P : \E n \in 1..N : InOrder(P)[n] = p
  BY <1>3, <1>4, <1>8
<1> QED BY <1>1, <1>8, <1>9

\* A listing is a sequence of what is at the places listed, one after the other.
LEMMA ListedProperties ==
  ASSUME NEW chains, NEW P \in SUBSET (Nat \X Nat), IsFiniteSet(P), NEW S,
         \A p \in P : chains[p[1]][p[2]] \in S
  PROVE  /\ Listed(chains, P) \in Seq(S)
         /\ Len(Listed(chains, P)) = Cardinality(P) /\ Cardinality(P) \in Nat
         /\ \A n \in 1..Cardinality(P) :
              Listed(chains, P)[n] = chains[InOrder(P)[n][1]][InOrder(P)[n][2]]
<1>1. /\ Cardinality(P) \in Nat
      /\ \A n \in 1..Cardinality(P) : InOrder(P)[n] \in P
  BY InOrderProperties
<1> DEFINE e(n) == chains[InOrder(P)[n][1]][InOrder(P)[n][2]]
<1>2. \A n \in 1..Cardinality(P) : e(n) \in S
  BY <1>1
<1>3. Listed(chains, P) = [n \in 1..Cardinality(P) |-> e(n)]
  BY DEF Listed
<1>4. [n \in 1..Cardinality(P) |-> e(n)] \in Seq(S)
  <2> HIDE DEF e
  <2> QED BY <1>1, <1>2, IsASeq
<1>5. Len([n \in 1..Cardinality(P) |-> e(n)]) = Cardinality(P)
  <2> HIDE DEF e
  <2> QED BY <1>1
<1> QED BY <1>1, <1>3, <1>4, <1>5

-----------------------------------------------------------------------------
(* Tables.                                                                 *)

\* Each key is in the chain it hashes to, once.
InChains(h) ==
  \A p \in Places(h.table) : p[1] = Bucket(h, h.table[p[1]][p[2]].key)
OnceEach(chains) ==
  \A p, q \in Places(chains) : chains[p[1]][p[2]].key = chains[q[1]][q[2]].key => p = q

Chains(n) == [0..(n - 1) -> Seq(Assoc)]
Structures(n) ==
  [size : {n}, nelems : Nat, keylockp : BOOLEAN, rehashp : BOOLEAN, table : Chains(n)]
Sound(h) ==
  /\ h.size \in Nat /\ h \in Structures(h.size)
  /\ InChains(h)
  /\ OnceEach(h.table)

\* The places of a table and what is there.
LEMMA PlacesProperties ==
  ASSUME NEW n \in Nat, NEW chains \in Chains(n)
  PROVE  /\ Places(chains) \in SUBSET (Nat \X Nat)
         /\ \A b, i : <<b, i>> \in Places(chains) <=>
                        b \in 0..(n - 1) /\ i \in 1..Len(chains[b])
         /\ \A p \in Places(chains) :
              /\ p = <<p[1], p[2]>>
              /\ p[1] \in 0..(n - 1) /\ p[2] \in 1..Len(chains[p[1]])
              /\ chains[p[1]][p[2]] \in Assoc
         /\ \A b \in 0..(n - 1) : /\ chains[b] \in Seq(Assoc) /\ Len(chains[b]) \in Nat
                                  /\ DOMAIN chains[b] = 1..Len(chains[b])
<1>1. \A b \in 0..(n - 1) : /\ chains[b] \in Seq(Assoc) /\ Len(chains[b]) \in Nat
                            /\ DOMAIN chains[b] = 1..Len(chains[b])
                            /\ \A i \in 1..Len(chains[b]) : chains[b][i] \in Assoc
  <2> TAKE b \in 0..(n - 1)
  <2>1. chains[b] \in Seq(Assoc)
    BY DEF Chains
  <2> QED BY <2>1, LenProperties, ElementOfSeq
<1>2. DOMAIN chains = 0..(n - 1)
  BY DEF Chains
<1>3. ASSUME NEW p \in Places(chains)
      PROVE  p = <<p[1], p[2]>> /\ p[1] \in 0..(n - 1) /\ p[2] \in 1..Len(chains[p[1]])
  <2>1. PICK b \in 0..(n - 1) : p \in {b} \X DOMAIN chains[b]
    BY <1>2 DEF Places
  <2>2. p = <<p[1], p[2]>> /\ p[1] = b /\ p[2] \in DOMAIN chains[b]
    BY <2>1
  <2> QED BY <1>1, <2>2
<1>4. ASSUME NEW b, NEW i, b \in 0..(n - 1), i \in 1..Len(chains[b])
      PROVE  <<b, i>> \in Places(chains)
  <2>1. <<b, i>> \in {b} \X DOMAIN chains[b]
    BY <1>1, <1>4
  <2> QED BY <1>2, <1>4, <2>1 DEF Places
<1>5. \A b, i : <<b, i>> \in Places(chains) => b \in 0..(n - 1) /\ i \in 1..Len(chains[b])
  <2> TAKE b, i
  <2>1. <<b, i>>[1] = b /\ <<b, i>>[2] = i
    OBVIOUS
  <2> QED BY <1>3, <2>1
<1>6. ASSUME NEW p \in Places(chains) PROVE p \in Nat \X Nat
  BY <1>1, <1>3
<1> QED BY <1>1, <1>3, <1>4, <1>5, <1>6

\* What is at the places of a sound table.
LEMMA SoundProperties ==
  ASSUME NEW h, Sound(h)
  PROVE  /\ h.size \in Nat /\ h.table \in Chains(h.size) /\ h.nelems \in Nat
         /\ h.keylockp \in BOOLEAN /\ h.rehashp \in BOOLEAN
         /\ IsFiniteSet(Places(h.table)) /\ Cardinality(Places(h.table)) \in Nat
         /\ Associations(h) \in SUBSET Assoc /\ KeysOf(h) \in SUBSET Plain
         /\ \A e, f \in Associations(h) : e.key = f.key => e = f
         /\ IsFiniteSet(KeysOf(h)) /\ Cardinality(KeysOf(h)) \in Nat
         /\ Cardinality(KeysOf(h)) = Cardinality(Places(h.table))
<1>1. /\ h.size \in Nat /\ h.table \in Chains(h.size) /\ h.nelems \in Nat
      /\ h.keylockp \in BOOLEAN /\ h.rehashp \in BOOLEAN
  BY DEF Sound, Structures
<1>2. /\ Places(h.table) \in SUBSET (Nat \X Nat)
      /\ \A p \in Places(h.table) : h.table[p[1]][p[2]] \in Assoc
  BY <1>1, PlacesProperties
<1>3. Associations(h) \in SUBSET Assoc /\ KeysOf(h) \in SUBSET Plain
  <2>1. Associations(h) \in SUBSET Assoc
    BY <1>2 DEF Associations
  <2> QED BY <2>1 DEF KeysOf, Assoc
<1>4. \A e, f \in Associations(h) : e.key = f.key => e = f
  BY DEF Associations, Sound, OnceEach
<1> DEFINE f == [p \in Places(h.table) |-> h.table[p[1]][p[2]].key]
<1>5. /\ f \in [Places(h.table) -> KeysOf(h)]
      /\ \A p, q \in Places(h.table) : f[p] = f[q] => p = q
      /\ \A k \in KeysOf(h) : \E p \in Places(h.table) : f[p] = k
  BY DEF KeysOf, Associations, Sound, OnceEach
<1>6. IsFiniteSet(Plain)
  <2>1. Plain \in SUBSET At
    BY DEF At
  <2> QED BY <2>1, HtableAssumption, FS_Subset
<1>7. IsFiniteSet(KeysOf(h)) /\ Cardinality(KeysOf(h)) \in Nat
  BY <1>3, <1>6, FS_Subset, FS_CardinalityType
<1> HIDE DEF f
<1>8. IsFiniteSet(Places(h.table))
  <2>1. f \in Injection(Places(h.table), KeysOf(h))
    BY <1>5 DEF Injection, IsInjective
  <2> QED BY <1>7, <2>1, FS_Injection
<1>9. Cardinality(KeysOf(h)) = Cardinality(Places(h.table))
  BY <1>5, <1>8, SameCount
<1> QED BY <1>1, <1>3, <1>4, <1>7, <1>8, <1>9

\* What a change of the other fields leaves.
LEMMA SameChains ==
  ASSUME NEW h, Sound(h), NEW g, g \in Structures(h.size), g.table = h.table
  PROVE  Sound(g) /\ Associations(g) = Associations(h) /\ KeysOf(g) = KeysOf(h)
<1>1. g.size = h.size /\ g \in Structures(g.size)
  BY DEF Structures
<1>2. InChains(g)
  BY <1>1 DEF InChains, Bucket, Sound
<1> QED BY <1>1, <1>2 DEF Sound, Associations, KeysOf

\* The buckets of a table that is not gone.
LEMMA BucketType ==
  ASSUME NEW h, h.size \in Nat \ {0}, NEW k \in Plain
  PROVE  Bucket(h, k) \in 0..(h.size - 1)
<1>1. Hash[k] \in Nat
  BY HtableAssumption
<1> QED BY <1>1 DEF Bucket

\* A search finds a key that is in the table.
LEMMA PlaceFinds ==
  ASSUME NEW h, Sound(h), h.size # 0, NEW k \in Plain
  PROVE  /\ Place(h, k) # 0 <=> k \in KeysOf(h)
         /\ Place(h, k) # 0 =>
              /\ <<Bucket(h, k), Place(h, k)>> \in Places(h.table)
              /\ h.table[Bucket(h, k)][Place(h, k)].key = k
<1> DEFINE b == Bucket(h, k)
           chain == h.table[b]
           Match(i) == chain[i].key = k
<1>1. h.size \in Nat \ {0} /\ h.table \in Chains(h.size) /\ b \in 0..(h.size - 1)
  BY SoundProperties, BucketType
<1>2. chain \in Seq(Assoc) /\ DOMAIN chain = 1..Len(chain) /\ Len(chain) \in Nat
  BY <1>1, PlacesProperties
<1>3. Place(h, k) = IF \E i \in DOMAIN chain : Match(i)
                      THEN CHOOSE i \in DOMAIN chain : Match(i) ELSE 0
  BY DEF Place
<1>4. ASSUME \E i \in DOMAIN chain : Match(i)
      PROVE  Place(h, k) \in DOMAIN chain /\ Match(Place(h, k))
  <2> HIDE DEF Match, chain
  <2> QED BY <1>3, <1>4
<1>5. ASSUME Place(h, k) # 0
      PROVE  <<b, Place(h, k)>> \in Places(h.table) /\ Match(Place(h, k))
  <2>1. Place(h, k) \in DOMAIN chain /\ Match(Place(h, k))
    <3> HIDE DEF Match, chain
    <3> QED BY <1>3, <1>4, <1>5
  <2> QED BY <1>1, <1>2, <2>1, PlacesProperties
<1>6. ASSUME Place(h, k) # 0 PROVE k \in KeysOf(h)
  <2>1. h.table[b][Place(h, k)] \in Associations(h)
    <3>1. <<b, Place(h, k)>>[1] = b /\ <<b, Place(h, k)>>[2] = Place(h, k)
      OBVIOUS
    <3> QED BY <1>5, <1>6, <3>1 DEF Associations
  <2> QED BY <1>5, <1>6, <2>1 DEF KeysOf
<1>7. ASSUME k \in KeysOf(h) PROVE Place(h, k) # 0
  <2>1. PICK p \in Places(h.table) : h.table[p[1]][p[2]].key = k
    BY <1>7 DEF KeysOf, Associations
  <2>2. p[1] = b
    BY <2>1 DEF Sound, InChains
  <2>3. p[2] \in DOMAIN chain
    BY <1>1, <1>2, <2>1, <2>2, PlacesProperties
  <2>4. Place(h, k) \in DOMAIN chain
    BY <1>4, <2>1, <2>2, <2>3
  <2> QED BY <1>2, <2>4
<1> QED BY <1>5, <1>6, <1>7

\* The elements are the associations, each once.
LEMMA ElementsProperties ==
  ASSUME NEW h, Sound(h)
  PROVE  /\ Elements(h) \in Seq(Assoc)
         /\ Len(Elements(h)) = Cardinality(KeysOf(h)) /\ Len(Elements(h)) \in Nat
         /\ \A n \in 1..Len(Elements(h)) : Elements(h)[n] \in Associations(h)
         /\ \A m, n \in 1..Len(Elements(h)) : Elements(h)[m].key = Elements(h)[n].key => m = n
         /\ \A e \in Associations(h) : \E n \in 1..Len(Elements(h)) : Elements(h)[n] = e
<1> DEFINE P == Places(h.table)
<1>1. /\ h.size \in Nat /\ h.table \in Chains(h.size)
      /\ IsFiniteSet(P) /\ Cardinality(KeysOf(h)) = Cardinality(P)
  BY SoundProperties
<1>2. P \in SUBSET (Nat \X Nat) /\ \A p \in P : h.table[p[1]][p[2]] \in Assoc
  BY <1>1, PlacesProperties
<1>3. /\ \A n \in 1..Cardinality(P) : InOrder(P)[n] \in P
      /\ \A m, n \in 1..Cardinality(P) : InOrder(P)[m] = InOrder(P)[n] => m = n
      /\ \A p \in P : \E n \in 1..Cardinality(P) : InOrder(P)[n] = p
  BY <1>1, <1>2, InOrderProperties
<1>4. /\ Elements(h) \in Seq(Assoc)
      /\ Len(Elements(h)) = Cardinality(P) /\ Cardinality(P) \in Nat
      /\ \A n \in 1..Cardinality(P) :
           Elements(h)[n] = h.table[InOrder(P)[n][1]][InOrder(P)[n][2]]
  <2> HIDE DEF P
  <2>1. PICK c, R : c = h.table /\ R = P
    OBVIOUS
  <2>2. R \in SUBSET (Nat \X Nat) /\ IsFiniteSet(R) /\ \A p \in R : c[p[1]][p[2]] \in Assoc
    BY <1>1, <1>2, <2>1, Zenon
  <2>3. /\ Listed(c, R) \in Seq(Assoc)
        /\ Len(Listed(c, R)) = Cardinality(R) /\ Cardinality(R) \in Nat
        /\ \A n \in 1..Cardinality(R) :
             Listed(c, R)[n] = c[InOrder(R)[n][1]][InOrder(R)[n][2]]
    <3>1. PICK A : A = Assoc
      OBVIOUS
    <3>2. R \in SUBSET (Nat \X Nat) /\ IsFiniteSet(R) /\ \A p \in R : c[p[1]][p[2]] \in A
      BY <2>2, <3>1
    <3>3. /\ Listed(c, R) \in Seq(A)
          /\ Len(Listed(c, R)) = Cardinality(R) /\ Cardinality(R) \in Nat
          /\ \A n \in 1..Cardinality(R) :
               Listed(c, R)[n] = c[InOrder(R)[n][1]][InOrder(R)[n][2]]
      BY <3>2, ListedProperties
    <3> QED BY <3>1, <3>3, Zenon
  <2>5. Elements(h) = Listed(c, R)
    BY <2>1 DEF Elements, P
  <2> QED BY <2>1, <2>3, <2>5, Zenon
<1>5. Associations(h) = {h.table[p[1]][p[2]] : p \in P}
  BY DEF Associations
<1>6. \A p, q \in P : h.table[p[1]][p[2]].key = h.table[q[1]][q[2]].key => p = q
  BY DEF Sound, OnceEach
<1> HIDE DEF P
<1>7. ASSUME NEW m \in 1..Cardinality(P), NEW n \in 1..Cardinality(P),
             Elements(h)[m].key = Elements(h)[n].key
      PROVE  m = n
  <2>1. InOrder(P)[m] \in P /\ InOrder(P)[n] \in P
    BY <1>3
  <2>2. InOrder(P)[m] = InOrder(P)[n]
    <3>1. PICK p, q : p = InOrder(P)[m] /\ q = InOrder(P)[n]
      OBVIOUS
    <3>2. Elements(h)[m] = h.table[p[1]][p[2]] /\ Elements(h)[n] = h.table[q[1]][q[2]]
      BY <1>4, <3>1
    <3>3. p \in P /\ q \in P /\ h.table[p[1]][p[2]].key = h.table[q[1]][q[2]].key
      BY <1>7, <2>1, <3>1, <3>2, Zenon
    <3>4. p = q
      BY <1>6, <3>3, Zenon
    <3> QED BY <3>1, <3>4
  <2> QED BY <1>3, <2>2
<1>8. \A e \in Associations(h) : \E n \in 1..Cardinality(P) : Elements(h)[n] = e
  BY <1>3, <1>4, <1>5
<1>9. \A n \in 1..Cardinality(P) : Elements(h)[n] \in Associations(h)
  BY <1>3, <1>4, <1>5
<1> QED BY <1>1, <1>4, <1>7, <1>8, <1>9

\* An element unlinked from its chain.
LEMMA UnlinkedProperties ==
  ASSUME NEW h, Sound(h), NEW b, NEW i, <<b, i>> \in Places(h.table)
  PROVE  /\ Sound(Unlinked(h, b, i))
         /\ Unlinked(h, b, i).size = h.size /\ h.size # 0
         /\ Unlinked(h, b, i).nelems = h.nelems
         /\ Unlinked(h, b, i).keylockp = h.keylockp
         /\ Unlinked(h, b, i).rehashp = h.rehashp
         /\ h.table[b][i] \in Associations(h)
         /\ Associations(Unlinked(h, b, i)) = Associations(h) \ {h.table[b][i]}
         /\ KeysOf(Unlinked(h, b, i)) = KeysOf(h) \ {h.table[b][i].key}
         /\ Before(h, b, i) \in KeysOf(Unlinked(h, b, i)) \cup {NIL}
<1> DEFINE g == Unlinked(h, b, i)
           e == h.table[b][i]
           rest == RemoveAt(h.table[b], i)
           move(p) == IF p[1] = b /\ p[2] >= i THEN <<b, p[2] + 1>> ELSE p
<1>1. /\ h.size \in Nat /\ h.table \in Chains(h.size) /\ h \in Structures(h.size)
  BY SoundProperties DEF Sound
<1>2. /\ b \in 0..(h.size - 1) /\ i \in 1..Len(h.table[b])
      /\ h.table[b] \in Seq(Assoc) /\ Len(h.table[b]) \in Nat /\ DOMAIN h.table[b] = 1..Len(h.table[b])
      /\ e \in Assoc
  <2>1. <<b, i>>[1] = b /\ <<b, i>>[2] = i
    OBVIOUS
  <2> QED BY <1>1, <2>1, PlacesProperties
<1>3. /\ rest \in Seq(Assoc) /\ Len(rest) = Len(h.table[b]) - 1
      /\ \A j \in 1..(Len(h.table[b]) - 1) :
           rest[j] = IF j < i THEN h.table[b][j] ELSE h.table[b][j + 1]
  <2>1. PICK q : q = h.table[b]
    OBVIOUS
  <2>2. q \in Seq(Assoc) /\ i \in DOMAIN q
    BY <1>2, <2>1
  <2>3. /\ RemoveAt(q, i) \in Seq(Assoc) /\ Len(RemoveAt(q, i)) = Len(q) - 1
        /\ \A j \in 1..(Len(q) - 1) : RemoveAt(q, i)[j] = IF j < i THEN q[j] ELSE q[j + 1]
    BY <2>2, RemoveAtProperties
  <2> QED BY <2>1, <2>3
<1>4. /\ g \in Structures(h.size) /\ g.size = h.size
      /\ g.nelems = h.nelems /\ g.keylockp = h.keylockp /\ g.rehashp = h.rehashp
      /\ g.table = [h.table EXCEPT ![b] = rest] /\ g.table \in Chains(h.size)
  <2>1. g = [h EXCEPT !.table = [h.table EXCEPT ![b] = rest]]
    BY DEF Unlinked
  <2>2. [h.table EXCEPT ![b] = rest] \in Chains(h.size)
    <3> HIDE DEF rest
    <3> QED BY <1>1, <1>2, <1>3 DEF Chains
  <2> HIDE DEF g, rest
  <2> QED BY <1>1, <2>1, <2>2 DEF Structures
<1>5. \A c \in 0..(h.size - 1) : g.table[c] = IF c = b THEN rest ELSE h.table[c]
  <2> HIDE DEF g, rest
  <2> QED BY <1>1, <1>4 DEF Chains
<1>6. ASSUME NEW p \in Places(g.table)
      PROVE  /\ move(p) \in Places(h.table) /\ move(p) # <<b, i>>
             /\ p = <<p[1], p[2]>> /\ p[2] \in Nat /\ p[1] = move(p)[1]
             /\ g.table[p[1]][p[2]] = h.table[move(p)[1]][move(p)[2]]
  <2>1. p = <<p[1], p[2]>> /\ p[1] \in 0..(h.size - 1) /\ p[2] \in 1..Len(g.table[p[1]])
    <3> HIDE DEF g, move
    <3> QED BY <1>1, <1>4, PlacesProperties
  <2>2. CASE p[1] # b
    <3>1. move(p) = p /\ g.table[p[1]] = h.table[p[1]]
      <4> HIDE DEF g, rest
      <4> QED BY <1>5, <2>1, <2>2
    <3>2. p \in Places(h.table)
      <4>1. <<p[1], p[2]>> \in Places(h.table)
        BY <1>1, <2>1, <3>1, PlacesProperties
      <4> QED BY <2>1, <4>1
    <3>3. p[2] \in Nat
      BY <1>1, <2>1, <3>1, PlacesProperties
    <3> HIDE DEF g, move
    <3> QED BY <2>1, <2>2, <3>1, <3>2, <3>3
  <2>3. CASE p[1] = b
    <3>1. g.table[b] = rest
      BY <1>2, <1>5
    <3>2. p[2] \in 1..(Len(h.table[b]) - 1)
      <4> HIDE DEF g, rest
      <4> QED BY <1>3, <2>1, <2>3, <3>1
    <3> HIDE DEF g, rest
    <3>3. CASE p[2] < i
      <4>1. p[2] \in 1..Len(h.table[b]) /\ move(p) = p
        BY <1>2, <3>2, <3>3
      <4>2. <<p[1], p[2]>> \in Places(h.table)
        BY <1>1, <1>2, <2>3, <4>1, PlacesProperties
      <4>3. rest[p[2]] = h.table[b][p[2]]
        BY <1>3, <3>2, <3>3
      <4> HIDE DEF move
      <4> QED BY <2>1, <2>3, <3>1, <3>2, <4>1, <4>2, <4>3, <3>3
    <3>4. CASE ~(p[2] < i)
      <4>1. p[2] + 1 \in 1..Len(h.table[b]) /\ move(p) = <<b, p[2] + 1>> /\ p[2] + 1 # i
        BY <1>2, <2>3, <3>2, <3>4
      <4>2. <<b, p[2] + 1>> \in Places(h.table)
        BY <1>1, <1>2, <4>1, PlacesProperties
      <4>3. move(p)[1] = b /\ move(p)[2] = p[2] + 1 /\ move(p) # <<b, i>>
        BY <4>1
      <4>4. rest[p[2]] = h.table[b][p[2] + 1]
        BY <1>3, <3>2, <3>4
      <4> HIDE DEF move
      <4> QED BY <2>1, <2>3, <3>1, <3>2, <4>1, <4>2, <4>3, <4>4
    <3> QED BY <3>3, <3>4
  <2> QED BY <2>2, <2>3
<1>7. ASSUME NEW p \in Places(g.table), NEW q \in Places(g.table), move(p) = move(q)
      PROVE  p = q
  <2>1. /\ p = <<p[1], p[2]>> /\ p[2] \in Nat /\ q = <<q[1], q[2]>> /\ q[2] \in Nat
        /\ p[1] = move(p)[1] /\ q[1] = move(q)[1]
    BY <1>6
  <2>2. p[1] = q[1]
    <3> HIDE DEF move
    <3> QED BY <1>7, <2>1
  <2>3. p[2] = q[2]
    <3>1. move(p)[2] = IF p[1] = b /\ p[2] >= i THEN p[2] + 1 ELSE p[2]
      OBVIOUS
    <3>2. move(q)[2] = IF q[1] = b /\ q[2] >= i THEN q[2] + 1 ELSE q[2]
      OBVIOUS
    <3> HIDE DEF move
    <3> QED BY <1>2, <1>7, <2>1, <2>2, <3>1, <3>2
  <2> QED BY <2>1, <2>2, <2>3, Zenon
<1>20. \A c, j : <<c, j>> \in Places(g.table) <=> c \in 0..(h.size - 1) /\ j \in 1..Len(g.table[c])
  <2> HIDE DEF g
  <2> QED BY <1>1, <1>4, PlacesProperties
<1>8. ASSUME NEW q \in Places(h.table), q # <<b, i>>
      PROVE  \E p \in Places(g.table) : move(p) = q
  <2>1. q = <<q[1], q[2]>> /\ q[1] \in 0..(h.size - 1) /\ q[2] \in 1..Len(h.table[q[1]])
    BY <1>1, PlacesProperties
  <2>2. CASE q[1] # b
    <3>1. move(q) = q /\ g.table[q[1]] = h.table[q[1]]
      <4> HIDE DEF g, rest
      <4> QED BY <1>5, <2>1, <2>2
    <3>2. <<q[1], q[2]>> \in Places(g.table)
      <4> HIDE DEF g, move
      <4> QED BY <1>20, <2>1, <3>1
    <3> HIDE DEF g, move
    <3> QED BY <2>1, <3>1, <3>2
  <2>3. CASE q[1] = b
    <3>1. g.table[b] = rest
      BY <1>2, <1>5
    <3>2. q[2] \in 1..Len(h.table[b]) /\ q[2] # i
      BY <1>8, <2>1, <2>3
    <3>5. q[2] \in Nat /\ i \in Nat
      BY <1>2, <3>2
    <3> HIDE DEF g, rest
    <3>3. CASE q[2] < i
      <4>1. q[2] \in 1..Len(rest) /\ move(q) = q
        BY <1>2, <1>3, <3>2, <3>3
      <4>2. <<q[1], q[2]>> \in Places(g.table)
        BY <1>2, <1>20, <2>3, <3>1, <4>1
      <4>3. q = <<q[1], q[2]>> /\ move(q) = q
        BY <2>1, <4>1
      <4>4. q \in Places(g.table)
        BY <4>2, <4>3, Zenon
      <4> HIDE DEF move
      <4> QED BY <4>3, <4>4, Zenon
    <3>4. CASE ~(q[2] < i)
      <4>0. PICK n, N : n = q[2] /\ N = Len(rest)
        OBVIOUS
      <4>1. q[2] - 1 \in 1..Len(rest) /\ q[2] - 1 >= i /\ (q[2] - 1) + 1 = q[2]
        <5>1. n \in 1..(N + 1) /\ n # i /\ ~(n < i) /\ i \in 1..(N + 1) /\ N \in Nat
          BY <1>2, <1>3, <3>2, <3>4, <4>0
        <5>2. n - 1 \in 1..N /\ n - 1 >= i /\ (n - 1) + 1 = n
          BY <5>1
        <5> QED BY <4>0, <5>2
      <4>2. <<b, q[2] - 1>> \in Places(g.table)
        BY <1>2, <1>20, <3>1, <4>1
      <4>3. move(<<b, q[2] - 1>>) = <<b, q[2]>>
        BY <4>1
      <4> HIDE DEF move
      <4> QED BY <2>1, <2>3, <4>2, <4>3
    <3> QED BY <3>3, <3>4
  <2> QED BY <2>2, <2>3
<1> HIDE DEF move
<1>9. OnceEach(g.table)
  <2>1. \A p, q \in Places(h.table) :
          h.table[p[1]][p[2]].key = h.table[q[1]][q[2]].key => p = q
    BY DEF Sound, OnceEach
  <2> HIDE DEF g
  <2>2. ASSUME NEW p \in Places(g.table), NEW q \in Places(g.table),
               g.table[p[1]][p[2]].key = g.table[q[1]][q[2]].key
        PROVE  p = q
    <3>1. PICK x, y : x = move(p) /\ y = move(q)
      OBVIOUS
    <3>2. /\ x \in Places(h.table) /\ g.table[p[1]][p[2]] = h.table[x[1]][x[2]]
          /\ y \in Places(h.table) /\ g.table[q[1]][q[2]] = h.table[y[1]][y[2]]
      BY <1>6, <3>1
    <3>3. x = y
      BY <2>1, <2>2, <3>2
    <3> QED BY <1>7, <3>1, <3>3
  <2> QED BY <2>2 DEF OnceEach
<1>10. InChains(g)
  <2>1. \A p \in Places(h.table) : p[1] = Bucket(h, h.table[p[1]][p[2]].key)
    BY DEF Sound, InChains
  <2>2. \A k : Bucket(g, k) = Bucket(h, k)
    BY <1>4 DEF Bucket
  <2> HIDE DEF g
  <2> QED BY <1>6, <2>1, <2>2 DEF InChains
<1>11. e \in Associations(h)
  <2>1. <<b, i>>[1] = b /\ <<b, i>>[2] = i
    OBVIOUS
  <2> QED BY <2>1 DEF Associations
<1>12. ASSUME NEW q \in Places(h.table), h.table[q[1]][q[2]].key = e.key PROVE q = <<b, i>>
  <2>1. <<b, i>>[1] = b /\ <<b, i>>[2] = i
    OBVIOUS
  <2> QED BY <1>12, <2>1 DEF Sound, OnceEach
<1>13. Associations(g) = Associations(h) \ {e}
  <2> HIDE DEF g, e
  <2>1. ASSUME NEW x \in Associations(g) PROVE x \in Associations(h) /\ x # e
    <3>1. PICK p \in Places(g.table) : x = g.table[p[1]][p[2]]
      BY <2>1 DEF Associations
    <3>2. move(p) \in Places(h.table) /\ move(p) # <<b, i>> /\ x = h.table[move(p)[1]][move(p)[2]]
      BY <1>6, <3>1
    <3> QED BY <1>12, <3>2 DEF Associations
  <2>2. ASSUME NEW x \in Associations(h), x # e PROVE x \in Associations(g)
    <3>1. PICK q \in Places(h.table) : x = h.table[q[1]][q[2]]
      BY <2>2 DEF Associations
    <3>2. q # <<b, i>>
      BY <2>2, <3>1 DEF e
    <3>3. PICK p \in Places(g.table) : move(p) = q
      BY <1>8, <3>2
    <3> QED BY <1>6, <3>1, <3>3 DEF Associations
  <2> QED BY <2>1, <2>2
<1>14. KeysOf(g) = KeysOf(h) \ {e.key}
  <2>1. \A x \in Associations(h) : x.key = e.key => x = e
    <3> HIDE DEF e
    <3> QED BY <1>11, SoundProperties
  <2> HIDE DEF g, e
  <2> QED BY <1>11, <1>13, <2>1 DEF KeysOf
<1>15. h.size # 0
  BY <1>1, <1>2
<1>16. Before(h, b, i) \in KeysOf(g) \cup {NIL}
  <2>1. CASE i = 1
    BY <2>1 DEF Before
  <2>2. CASE i # 1
    <3>1. i - 1 \in 1..Len(h.table[b]) /\ i - 1 # i
      BY <1>2, <2>2
    <3>2. <<b, i - 1>> \in Places(h.table) /\ <<b, i - 1>>[1] = b /\ <<b, i - 1>>[2] = i - 1
      BY <1>1, <1>2, <3>1, PlacesProperties
    <3>3. h.table[b][i - 1] \in Associations(h) /\ h.table[b][i - 1].key # e.key
      <4>1. <<b, i - 1>> # <<b, i>>
        BY <1>2, <3>1
      <4> HIDE DEF e
      <4> QED BY <1>12, <3>2, <4>1 DEF Associations
    <3> HIDE DEF g, e
    <3> QED BY <1>14, <2>2, <3>3 DEF Before, KeysOf
  <2> QED BY <2>1, <2>2
<1> QED BY <1>1, <1>4, <1>9, <1>10, <1>11, <1>13, <1>14, <1>15, <1>16 DEF Sound

-----------------------------------------------------------------------------
(* The references a table holds.                                           *)

\* The keys under which a table holds a value, and all its references to a.
Under(h, a) == {k \in Plain : [key |-> k, value |-> a] \in Associations(h)}
HeldBy(h, a) == Cardinality(Under(h, a)) + (IF h.keylockp /\ a \in KeysOf(h) THEN 1 ELSE 0)

LEMMA HeldByType ==
  ASSUME NEW h, NEW a
  PROVE  /\ IsFiniteSet(Plain) /\ IsFiniteSet(Under(h, a))
         /\ Cardinality(Under(h, a)) \in Nat /\ HeldBy(h, a) \in Nat
<1>1. IsFiniteSet(Plain)
  <2>1. Plain \in SUBSET At
    BY DEF At
  <2> QED BY <2>1, HtableAssumption, FS_Subset
<1>2. Under(h, a) \in SUBSET Plain
  BY DEF Under
<1>3. IsFiniteSet(Under(h, a)) /\ Cardinality(Under(h, a)) \in Nat
  BY <1>1, <1>2, FS_Subset, FS_CardinalityType
<1> QED BY <1>1, <1>3 DEF HeldBy

\* A table with one more association.
Adds(h, g, k, v) ==
  /\ Associations(g) = Associations(h) \cup {[key |-> k, value |-> v]}
  /\ KeysOf(g) = KeysOf(h) \cup {k} /\ k \notin KeysOf(h)
  /\ g.keylockp = h.keylockp

LEMMA HeldByMore ==
  ASSUME NEW h, NEW g, NEW k \in Plain, NEW v, NEW a, Adds(h, g, k, v)
  PROVE  HeldBy(g, a) = HeldBy(h, a) + (IF v = a THEN 1 ELSE 0)
                        + (IF h.keylockp /\ k = a THEN 1 ELSE 0)
<1>0. /\ Associations(g) = Associations(h) \cup {[key |-> k, value |-> v]}
      /\ KeysOf(g) = KeysOf(h) \cup {k} /\ k \notin KeysOf(h)
      /\ g.keylockp = h.keylockp
  BY DEF Adds
<1>1. [key |-> k, value |-> v].key = k /\ [key |-> k, value |-> v].value = v
  OBVIOUS
<1>2. \A l : [key |-> l, value |-> a] = [key |-> k, value |-> v] <=> l = k /\ a = v
  OBVIOUS
<1>3. k \notin Under(h, a)
  <2>1. \A e \in Associations(h) : e.key # k
    BY <1>0 DEF KeysOf
  <2>2. [key |-> k, value |-> a].key = k
    OBVIOUS
  <2> QED BY <2>1, <2>2 DEF Under
<1>4. Under(g, a) = Under(h, a) \cup (IF v = a THEN {k} ELSE {})
  BY <1>0, <1>2 DEF Under
<1>5. IsFiniteSet(Under(h, a)) /\ Cardinality(Under(h, a)) \in Nat
  BY HeldByType
<1>6. Cardinality(Under(g, a)) = Cardinality(Under(h, a)) + (IF v = a THEN 1 ELSE 0)
  <2>1. CASE v = a
    BY <1>3, <1>4, <1>5, <2>1, FS_AddElement
  <2>2. CASE v # a
    BY <1>4, <1>5, <2>2
  <2> QED BY <2>1, <2>2
<1> DEFINE lh == IF h.keylockp /\ a \in KeysOf(h) THEN 1 ELSE 0
           lg == IF g.keylockp /\ a \in KeysOf(g) THEN 1 ELSE 0
<1>7. lg = lh + (IF h.keylockp /\ k = a THEN 1 ELSE 0) /\ lh \in Nat /\ lg \in Nat
  BY <1>0
<1>8. HeldBy(h, a) = Cardinality(Under(h, a)) + lh /\ HeldBy(g, a) = Cardinality(Under(g, a)) + lg
  BY DEF HeldBy
<1> HIDE DEF lh, lg
<1> QED BY <1>5, <1>6, <1>7, <1>8

\* A table whose keys are weak, with another value for one of them.
OnlyValue(h, k, v) == \A e \in Associations(h) : e.key = k => e.value = v

Exchanges(h, g, k, v, w) ==
  /\ [key |-> k, value |-> v] \in Associations(h) /\ OnlyValue(h, k, v)
  /\ \A e : e \in Associations(g) <=> \/ e \in Associations(h) /\ e.key # k
                                      \/ e = [key |-> k, value |-> w]
  /\ KeysOf(g) = KeysOf(h) /\ ~h.keylockp /\ ~g.keylockp

LEMMA HeldByExchanged ==
  ASSUME NEW h, NEW g, NEW k \in Plain, NEW v, NEW w, NEW a, Exchanges(h, g, k, v, w)
  PROVE  HeldBy(g, a) = HeldBy(h, a) - (IF v = a THEN 1 ELSE 0) + (IF w = a THEN 1 ELSE 0)
<1> DEFINE rest == Under(h, a) \ {k}
<1>1. /\ IsFiniteSet(Under(h, a)) /\ IsFiniteSet(Under(g, a))
      /\ Cardinality(Under(h, a)) \in Nat /\ Cardinality(Under(g, a)) \in Nat
      /\ IsFiniteSet(rest) /\ Cardinality(rest) \in Nat
  <2>1. rest \in SUBSET Under(h, a)
    OBVIOUS
  <2> QED BY <2>1, HeldByType, FS_Subset, FS_CardinalityType
<1>2. \A l, x : [key |-> l, value |-> x].key = l /\ [key |-> l, value |-> x].value = x
  OBVIOUS
<1>3. k \in Under(h, a) <=> v = a
  BY <1>2 DEF Under, Exchanges, OnlyValue
<1>4. k \in Under(g, a) <=> w = a
  BY <1>2 DEF Under, Exchanges, OnlyValue
<1>5. Under(g, a) \ {k} = rest
  BY <1>2 DEF Under, Exchanges, OnlyValue
<1>6. k \notin rest
  OBVIOUS
<1>7. Under(h, a) = rest \cup (IF v = a THEN {k} ELSE {})
  BY <1>3
<1>8. Under(g, a) = rest \cup (IF w = a THEN {k} ELSE {})
  <2> HIDE DEF rest
  <2> QED BY <1>4, <1>5
<1> HIDE DEF rest
<1>9. Cardinality(rest \cup {k}) = Cardinality(rest) + 1
  BY <1>1, <1>6, FS_AddElement
<1>10. Cardinality(Under(h, a)) = Cardinality(rest) + (IF v = a THEN 1 ELSE 0)
  <2>1. CASE v = a
    BY <1>7, <1>8, <1>9, <2>1
  <2>2. CASE v # a
    <3>1. Under(h, a) = rest
      BY <1>7, <1>8, <2>2
    <3> QED BY <1>1, <2>2, <3>1
  <2> QED BY <2>1, <2>2
<1>11. Cardinality(Under(g, a)) = Cardinality(rest) + (IF w = a THEN 1 ELSE 0)
  <2>1. CASE w = a
    BY <1>7, <1>8, <1>9, <2>1
  <2>2. CASE w # a
    <3>1. Under(g, a) = rest
      BY <1>7, <1>8, <2>2
    <3> QED BY <1>1, <2>2, <3>1
  <2> QED BY <2>1, <2>2
<1>12. HeldBy(h, a) = Cardinality(Under(h, a)) /\ HeldBy(g, a) = Cardinality(Under(g, a))
  BY <1>1 DEF HeldBy, Exchanges
<1> QED BY <1>1, <1>10, <1>11, <1>12

\* An empty table.
LEMMA HeldByNone ==
  ASSUME NEW h, Associations(h) = {}, NEW a
  PROVE  HeldBy(h, a) = 0 /\ KeysOf(h) = {}
<1>1. Under(h, a) = {} /\ KeysOf(h) = {}
  BY DEF Under, KeysOf
<1> QED BY <1>1, FS_EmptySet DEF HeldBy

\* All references of the tables to a.
HeldByTables(ht, a) ==
  Cardinality({r \in Table \X Plain : [key |-> r[2], value |-> a] \in Associations(ht[r[1]])})
  + Cardinality({t \in Table : ht[t].keylockp /\ a \in KeysOf(ht[t])})

\* When one table changes, its references do.
SameBut(ht, new, t) == \A u \in Table : u # t => new[u] = ht[u]

LEMMA HeldByTablesChange ==
  ASSUME NEW ht, NEW new, NEW t \in Table, NEW a, SameBut(ht, new, t)
  PROVE  /\ HeldByTables(ht, a) \in Nat /\ HeldByTables(new, a) \in Nat
         /\ HeldBy(ht[t], a) \in Nat /\ HeldBy(new[t], a) \in Nat
         /\ HeldByTables(ht, a) - HeldBy(ht[t], a) \in Nat
         /\ HeldByTables(new, a) = HeldByTables(ht, a) - HeldBy(ht[t], a) + HeldBy(new[t], a)
<1> DEFINE R(m) == {r \in Table \X Plain : [key |-> r[2], value |-> a] \in Associations(m[r[1]])}
           L(m) == {u \in Table : m[u].keylockp /\ a \in KeysOf(m[u])}
           Others == {r \in R(ht) : r[1] # t}
           Lothers == L(ht) \ {t}
<1> USE DEF SameBut
<1>1. IsFiniteSet(Table) /\ IsFiniteSet(Plain) /\ IsFiniteSet(Table \X Plain)
  <2>1. Table \in SUBSET At
    BY DEF At
  <2>2. IsFiniteSet(Table)
    BY <2>1, HtableAssumption, FS_Subset
  <2> QED BY <2>2, HeldByType, FS_Product
<1>2. IsFiniteSet(Others) /\ Cardinality(Others) \in Nat
  <2>1. Others \in SUBSET (Table \X Plain)
    OBVIOUS
  <2> QED BY <1>1, <2>1, FS_Subset, FS_CardinalityType
<1>3. IsFiniteSet(Lothers) /\ Cardinality(Lothers) \in Nat
  <2>1. Lothers \in SUBSET Table
    OBVIOUS
  <2> QED BY <1>1, <2>1, FS_Subset, FS_CardinalityType
<1>4. ASSUME NEW m, \A u \in Table : u # t => m[u] = ht[u]
      PROVE  /\ Cardinality(R(m)) = Cardinality(Others) + Cardinality(Under(m[t], a))
             /\ Cardinality(L(m)) = Cardinality(Lothers)
                  + (IF m[t].keylockp /\ a \in KeysOf(m[t]) THEN 1 ELSE 0)
             /\ Cardinality(Under(m[t], a)) \in Nat
  <2> DEFINE U == Under(m[t], a)
             Here == {t} \X U
             pair == [k \in U |-> <<t, k>>]
  <2>1. IsFiniteSet(U) /\ Cardinality(U) \in Nat
    BY HeldByType
  <2>2. IsFiniteSet(Here) /\ Cardinality(Here) = Cardinality(U)
    <3>1. /\ pair \in [U -> Here]
          /\ \A x, y \in U : pair[x] = pair[y] => x = y
          /\ \A z \in Here : \E x \in U : pair[x] = z
      OBVIOUS
    <3> HIDE DEF pair, Here, U
    <3> QED BY <2>1, <3>1, SameCount
  <2>3. R(m) = Others \cup Here /\ Others \cap Here = {}
    <3>1. ASSUME NEW r \in R(m) PROVE r \in Others \cup Here
      <4>1. r = <<r[1], r[2]>> /\ r[1] \in Table /\ r[2] \in Plain
        OBVIOUS
      <4>2. CASE r[1] # t
        BY <1>4, <4>2
      <4>3. CASE r[1] = t
        BY <4>1, <4>3 DEF Under
      <4> QED BY <4>2, <4>3
    <3>2. ASSUME NEW r \in Others PROVE r \in R(m)
      BY <1>4
    <3>3. ASSUME NEW r \in Here PROVE r \in R(m) /\ r \notin Others
      <4>1. PICK k \in U : r = <<t, k>>
        OBVIOUS
      <4>2. r[1] = t /\ r[2] = k /\ k \in Plain /\ r \in Table \X Plain
        BY <4>1 DEF Under
      <4> QED BY <4>1, <4>2 DEF Under
    <3> HIDE DEF R, Others, Here
    <3> QED BY <3>1, <3>2, <3>3
  <2>4. Cardinality(R(m)) = Cardinality(Others) + Cardinality(U)
    <3> HIDE DEF R, Others, Here, U
    <3>1. Cardinality(Others \cap Here) = 0
      BY <2>3, FS_EmptySet
    <3>2. Cardinality(R(m)) = Cardinality(Others) + Cardinality(Here) - Cardinality(Others \cap Here)
      BY <1>2, <2>2, <2>3, FS_Union
    <3> QED BY <1>2, <2>1, <2>2, <3>1, <3>2
  <2>5. Cardinality(L(m)) = Cardinality(Lothers)
          + (IF m[t].keylockp /\ a \in KeysOf(m[t]) THEN 1 ELSE 0)
    <3>1. \A u \in Table : u # t => (u \in L(m) <=> u \in Lothers)
      BY <1>4
    <3>2. t \notin Lothers /\ (t \in L(m) <=> m[t].keylockp /\ a \in KeysOf(m[t]))
      OBVIOUS
    <3>3. L(m) \in SUBSET Table /\ Lothers \in SUBSET Table
      OBVIOUS
    <3> HIDE DEF L, Lothers
    <3>4. CASE t \in L(m)
      <4>1. L(m) = Lothers \cup {t}
        BY <3>1, <3>3, <3>4
      <4>2. Cardinality(Lothers \cup {t}) = Cardinality(Lothers) + 1
        BY <1>3, <3>2, FS_AddElement
      <4> QED BY <3>2, <3>4, <4>1, <4>2
    <3>5. CASE t \notin L(m)
      <4>1. L(m) = Lothers
        BY <3>1, <3>2, <3>3, <3>5
      <4> QED BY <1>3, <3>2, <3>5, <4>1
    <3> QED BY <3>4, <3>5
  <2> HIDE DEF R, L, Others, Lothers
  <2> QED BY <2>1, <2>4, <2>5
<1>5. \A m : HeldByTables(m, a) = Cardinality(R(m)) + Cardinality(L(m))
  BY DEF HeldByTables
<1>6. HeldBy(ht[t], a) \in Nat /\ HeldBy(new[t], a) \in Nat
  BY HeldByType
<1>7. \A u \in Table : u # t => ht[u] = ht[u]
  OBVIOUS
<1> HIDE DEF R, L, Others, Lothers
<1>8. HeldByTables(ht, a) = Cardinality(Others) + Cardinality(Lothers) + HeldBy(ht[t], a)
  BY <1>2, <1>3, <1>4, <1>5, <1>7 DEF HeldBy
<1>9. HeldByTables(new, a) = Cardinality(Others) + Cardinality(Lothers) + HeldBy(new[t], a)
  BY <1>2, <1>3, <1>4, <1>5 DEF HeldBy
<1> QED BY <1>2, <1>3, <1>6, <1>8, <1>9

\* What htable_dispose drops: each reference of the table, once.
LEMMA DropsProperties ==
  ASSUME NEW h, Sound(h)
  PROVE  /\ Drops(h) \in Seq({Unlock(x) : x \in At})
         /\ \A a \in At : Occurrences(Drops(h), {Unlock(a)}) = HeldBy(h, a)
<1> DEFINE e == Elements(h)
           N == Len(e)
<1>1. /\ e \in Seq(Assoc) /\ N \in Nat
      /\ \A n \in 1..N : e[n] \in Associations(h) /\ e[n] \in Assoc
      /\ \A m, n \in 1..N : e[m].key = e[n].key => m = n
      /\ \A f \in Associations(h) : \E n \in 1..N : e[n] = f
  <2>1. Associations(h) \in SUBSET Assoc
    BY SoundProperties
  <2> QED BY <2>1, ElementsProperties
<1> HIDE DEF e
<1>2. \A n \in 1..N : e[n].key \in At /\ e[n].value \in At
  BY <1>1 DEF Assoc, At
<1>3. \A x, y : Unlock(x) = Unlock(y) <=> x = y
  BY DEF Unlock, Do
<1>4. ASSUME NEW a \in At
      PROVE  /\ IsFiniteSet({n \in 1..N : e[n].value = a})
             /\ Cardinality({n \in 1..N : e[n].value = a}) = Cardinality(Under(h, a))
             /\ Cardinality(Under(h, a)) \in Nat
  <2> DEFINE V == {n \in 1..N : e[n].value = a}
             f == [n \in V |-> e[n].key]
  <2>1. f \in [V -> Under(h, a)]
    <3> SUFFICES ASSUME NEW n \in V PROVE e[n].key \in Under(h, a)
      OBVIOUS
    <3>1. e[n] \in Associations(h) /\ e[n] \in Assoc /\ e[n].value = a
      BY <1>1
    <3>2. e[n] = [key |-> e[n].key, value |-> a] /\ e[n].key \in Plain
      BY <3>1 DEF Assoc
    <3> QED BY <3>1, <3>2 DEF Under
  <2>2. \A x, y \in V : f[x] = f[y] => x = y
    BY <1>1
  <2>3. ASSUME NEW k \in Under(h, a) PROVE \E n \in V : f[n] = k
    <3>1. [key |-> k, value |-> a] \in Associations(h)
      BY DEF Under
    <3>2. PICK n \in 1..N : e[n] = [key |-> k, value |-> a]
      BY <1>1, <3>1
    <3> QED BY <3>2
  <2>4. IsFiniteSet(V)
    <3>1. IsFiniteSet(1..N) /\ V \in SUBSET (1..N)
      BY <1>1, FS_Interval
    <3> QED BY <3>1, FS_Subset
  <2> HIDE DEF f, V
  <2>5. Cardinality(Under(h, a)) = Cardinality(V)
    BY <2>1, <2>2, <2>3, <2>4, SameCount
  <2> QED BY <2>4, <2>5, HeldByType DEF V
<1>5. ASSUME NEW a \in At
      PROVE  /\ IsFiniteSet({n \in 1..N : e[n].key = a})
             /\ Cardinality({n \in 1..N : e[n].key = a}) = IF a \in KeysOf(h) THEN 1 ELSE 0
  <2> DEFINE K == {n \in 1..N : e[n].key = a}
  <2>1. CASE a \in KeysOf(h)
    <3>1. PICK f \in Associations(h) : f.key = a
      BY <2>1 DEF KeysOf
    <3>2. PICK n \in 1..N : e[n] = f
      BY <1>1
    <3>3. K = {n}
      BY <1>1, <3>1, <3>2
    <3> HIDE DEF K
    <3>4. IsFiniteSet({n}) /\ Cardinality({n}) = 1
      BY FS_Singleton
    <3> QED BY <2>1, <3>3, <3>4 DEF K
  <2>2. CASE a \notin KeysOf(h)
    <3>1. K = {}
      BY <1>1, <2>2 DEF KeysOf
    <3> HIDE DEF K
    <3> QED BY <2>2, <3>1, FS_EmptySet DEF K
  <2> QED BY <2>1, <2>2
<1>6. CASE ~h.keylockp
  <2> DEFINE u(n) == Unlock(e[n].value)
  <2>1. Drops(h) = [n \in 1..N |-> u(n)]
    BY <1>6 DEF Drops, e
  <2>2. \A n \in 1..N : u(n) \in {Unlock(x) : x \in At}
    BY <1>2
  <2>3. [n \in 1..N |-> u(n)] \in Seq({Unlock(x) : x \in At})
    <3> HIDE DEF u
    <3> QED BY <1>1, <2>2, IsASeq
  <2>4. ASSUME NEW a \in At PROVE Occurrences(Drops(h), {Unlock(a)}) = HeldBy(h, a)
    <3>1. {i \in DOMAIN Drops(h) : Drops(h)[i] \in {Unlock(a)}} = {n \in 1..N : e[n].value = a}
      BY <1>3, <2>1
    <3>2. HeldBy(h, a) = Cardinality(Under(h, a))
      <4>1. (IF h.keylockp /\ a \in KeysOf(h) THEN 1 ELSE 0) = 0
        BY <1>6
      <4>2. HeldBy(h, a) = Cardinality(Under(h, a)) + 0
        BY <4>1 DEF HeldBy
      <4>3. Cardinality(Under(h, a)) \in Nat
        BY HeldByType
      <4> QED BY <4>2, <4>3
    <3> QED BY <1>4, <3>1, <3>2 DEF Occurrences
  <2> QED BY <2>1, <2>3, <2>4
<1>7. CASE h.keylockp
  <2> DEFINE u(n) == Unlock(IF n % 2 = 1 THEN e[(n + 1) \div 2].key ELSE e[n \div 2].value)
  <2>1. Drops(h) = [n \in 1..(2 * N) |-> u(n)] /\ 2 * N \in Nat
    BY <1>1, <1>7 DEF Drops, e
  <2>2. ASSUME NEW n \in 1..(2 * N)
        PROVE  \/ n % 2 = 1 /\ (n + 1) \div 2 \in 1..N /\ n = 2 * ((n + 1) \div 2) - 1
               \/ n % 2 # 1 /\ n \div 2 \in 1..N /\ n = 2 * (n \div 2)
    BY <1>1
  <2>3. ASSUME NEW n \in 1..N
        PROVE  /\ 2 * n - 1 \in 1..(2 * N) /\ (2 * n - 1) % 2 = 1 /\ ((2 * n - 1) + 1) \div 2 = n
               /\ 2 * n \in 1..(2 * N) /\ (2 * n) % 2 # 1 /\ (2 * n) \div 2 = n
    BY <1>1
  <2>4. \A n \in 1..(2 * N) : u(n) \in {Unlock(x) : x \in At}
    BY <1>2, <2>2
  <2>5. [n \in 1..(2 * N) |-> u(n)] \in Seq({Unlock(x) : x \in At})
    <3>1. \A M \in Nat : (\A n \in 1..M : u(n) \in {Unlock(x) : x \in At})
                           => [n \in 1..M |-> u(n)] \in Seq({Unlock(x) : x \in At})
      <4> HIDE DEF u
      <4> QED BY IsASeq
    <3> HIDE DEF u
    <3> QED BY <2>1, <2>4, <3>1
  <2>6. ASSUME NEW a \in At PROVE Occurrences(Drops(h), {Unlock(a)}) = HeldBy(h, a)
    <3> DEFINE K == {n \in 1..N : e[n].key = a}
               V == {n \in 1..N : e[n].value = a}
               fk == [n \in K |-> 2 * n - 1]
               fv == [n \in V |-> 2 * n]
               Odd == {n \in 1..(2 * N) : n % 2 = 1 /\ (n + 1) \div 2 \in K}
               Even == {n \in 1..(2 * N) : n % 2 # 1 /\ n \div 2 \in V}
    <3>1. IsFiniteSet(Odd) /\ Cardinality(Odd) = Cardinality(K)
      <4>1. /\ fk \in [K -> Odd] /\ (\A x, y \in K : fk[x] = fk[y] => x = y)
            /\ \A z \in Odd : \E x \in K : fk[x] = z
        BY <1>1, <2>2, <2>3
      <4>2. IsFiniteSet(K)
        BY <1>5
      <4> HIDE DEF K, Odd, fk
      <4> QED BY <4>1, <4>2, SameCount
    <3>2. IsFiniteSet(Even) /\ Cardinality(Even) = Cardinality(V)
      <4>1. /\ fv \in [V -> Even] /\ (\A x, y \in V : fv[x] = fv[y] => x = y)
            /\ \A z \in Even : \E x \in V : fv[x] = z
        BY <1>1, <2>2, <2>3
      <4>2. IsFiniteSet(V)
        BY <1>4
      <4> HIDE DEF V, Even, fv
      <4> QED BY <4>1, <4>2, SameCount
    <3>3. {i \in DOMAIN Drops(h) : Drops(h)[i] \in {Unlock(a)}} = Odd \cup Even
      <4>1. ASSUME NEW i \in 1..(2 * N)
            PROVE  u(i) = Unlock(a) <=> i \in Odd \/ i \in Even
        <5>1. u(i) = Unlock(a) <=>
                (IF i % 2 = 1 THEN e[(i + 1) \div 2].key ELSE e[i \div 2].value) = a
          BY <1>3
        <5> QED BY <2>2, <5>1
      <4> HIDE DEF u, Odd, Even
      <4>2. {i \in DOMAIN Drops(h) : Drops(h)[i] \in {Unlock(a)}}
              = {i \in 1..(2 * N) : u(i) = Unlock(a)}
        BY <2>1
      <4>3. Odd \in SUBSET (1..(2 * N)) /\ Even \in SUBSET (1..(2 * N))
        BY DEF Odd, Even
      <4>4. {i \in 1..(2 * N) : u(i) = Unlock(a)} = Odd \cup Even
        BY <4>1, <4>3
      <4> QED BY <4>2, <4>4, Zenon
    <3>4. Odd \cap Even = {}
      OBVIOUS
    <3>5. HeldBy(h, a) = Cardinality(V) + Cardinality(K)
      <4>1. HeldBy(h, a) = Cardinality(Under(h, a)) + (IF a \in KeysOf(h) THEN 1 ELSE 0)
        BY <1>7 DEF HeldBy
      <4> QED BY <1>4, <1>5, <4>1
    <3>6. Cardinality(K) \in Nat /\ Cardinality(V) \in Nat
      <4>1. Cardinality(V) = Cardinality(Under(h, a)) /\ Cardinality(Under(h, a)) \in Nat
        BY <1>4, Zenon
      <4>2. Cardinality(K) = IF a \in KeysOf(h) THEN 1 ELSE 0
        BY <1>5, Zenon
      <4> HIDE DEF K, V
      <4> QED BY <4>1, <4>2
    <3> HIDE DEF Odd, Even, K, V
    <3>7. Cardinality(Odd \cap Even) = 0
      BY <3>4, FS_EmptySet
    <3>8. Cardinality(Odd \cup Even) = Cardinality(Odd) + Cardinality(Even) - Cardinality(Odd \cap Even)
      BY <3>1, <3>2, FS_Union
    <3>9. Occurrences(Drops(h), {Unlock(a)}) = Cardinality(Odd \cup Even)
      BY <3>3 DEF Occurrences
    <3> QED BY <3>1, <3>2, <3>5, <3>6, <3>7, <3>8, <3>9
  <2> QED BY <2>1, <2>5, <2>6
<1> QED BY <1>6, <1>7

\* The keys a rehash drops: each key once.
LEMMA KeyDropsProperties ==
  ASSUME NEW h, Sound(h),
         NEW s, s = [n \in 1..Len(Elements(h)) |-> Unlock(Reverse(Elements(h))[n].key)]
  PROVE  /\ s \in Seq({Unlock(x) : x \in KeysOf(h)})
         /\ \A a \in At : Occurrences(s, {Unlock(a)}) = IF a \in KeysOf(h) THEN 1 ELSE 0
<1> DEFINE e == Elements(h)
           N == Len(e)
<1>1. /\ e \in Seq(Assoc) /\ N \in Nat
      /\ \A n \in 1..N : e[n] \in Associations(h)
      /\ \A m, n \in 1..N : e[m].key = e[n].key => m = n
      /\ \A f \in Associations(h) : \E n \in 1..N : e[n] = f
  BY ElementsProperties
<1> HIDE DEF e
<1> DEFINE u(n) == Unlock(e[N - n + 1].key)
<1>2. s = [n \in 1..N |-> u(n)]
  BY <1>1 DEF Reverse, e
<1>3. \A n \in 1..N : N - n + 1 \in 1..N /\ N - (N - n + 1) + 1 = n
  BY <1>1
<1>4. \A n \in 1..N : u(n) \in {Unlock(x) : x \in KeysOf(h)}
  BY <1>1, <1>3 DEF KeysOf
<1>5. [n \in 1..N |-> u(n)] \in Seq({Unlock(x) : x \in KeysOf(h)})
  <2> HIDE DEF u
  <2> QED BY <1>1, <1>4, IsASeq
<1>6. \A x, y : Unlock(x) = Unlock(y) <=> x = y
  BY DEF Unlock, Do
<1>7. ASSUME NEW a \in At
      PROVE  Occurrences(s, {Unlock(a)}) = IF a \in KeysOf(h) THEN 1 ELSE 0
  <2> DEFINE K == {i \in DOMAIN s : s[i] \in {Unlock(a)}}
  <2>0. K = {i \in 1..N : e[N - i + 1].key = a}
    BY <1>2, <1>6
  <2> HIDE DEF K
  <2>1. CASE a \in KeysOf(h)
    <3>1. PICK f \in Associations(h) : f.key = a
      BY <2>1 DEF KeysOf
    <3>2. PICK n \in 1..N : e[n] = f
      BY <1>1
    <3>3. K = {N - n + 1}
      <4>1. N - n + 1 \in K
        BY <1>3, <2>0, <3>1, <3>2
      <4>2. ASSUME NEW i \in K PROVE i = N - n + 1
        <5>1. i \in 1..N /\ e[N - i + 1].key = a
          BY <2>0
        <5>2. N - i + 1 = n
          BY <1>1, <1>3, <3>1, <3>2, <5>1
        <5> QED BY <1>1, <5>1, <5>2
      <4> QED BY <4>1, <4>2
    <3>4. Cardinality({N - n + 1}) = 1
      BY FS_Singleton
    <3> QED BY <2>1, <3>3, <3>4 DEF Occurrences, K
  <2>2. CASE a \notin KeysOf(h)
    <3>1. K = {}
      BY <1>1, <1>3, <2>0, <2>2 DEF KeysOf
    <3> QED BY <2>2, <3>1, FS_EmptySet DEF Occurrences, K
  <2> QED BY <2>1, <2>2
<1> QED BY <1>2, <1>5, <1>7

-----------------------------------------------------------------------------
(* New and changed tables.                                                 *)

\* The empty sequence for every bucket.
LEMMA EmptyIsSound ==
  ASSUME NEW h, NEW n \in Nat, h.size = n, h \in Structures(n),
         \A b \in 0..(n - 1) : h.table[b] = <<>>
  PROVE  Sound(h) /\ Associations(h) = {} /\ KeysOf(h) = {}
<1>1. h.table \in Chains(n)
  BY DEF Structures
<1>2. \A p : p \notin Places(h.table)
  <2>1. ASSUME NEW p \in Places(h.table) PROVE FALSE
    <3>1. p[1] \in 0..(n - 1) /\ p[2] \in 1..Len(h.table[p[1]])
      BY <1>1, PlacesProperties
    <3>2. h.table[p[1]] = <<>>
      BY <3>1
    <3>3. Len(<<>>) = 0
      BY EmptySeq
    <3> QED BY <3>1, <3>2, <3>3
  <2> QED BY <2>1
<1>3. Associations(h) = {} /\ KeysOf(h) = {}
  BY <1>2 DEF Associations, KeysOf
<1> QED BY <1>2, <1>3 DEF Sound, InChains, OnceEach

LEMMA NewAndGone ==
  /\ Sound(NewTable) /\ Associations(NewTable) = {} /\ KeysOf(NewTable) = {}
  /\ NewTable \in Structures(Size)
  /\ NewTable.size = Size /\ NewTable.nelems = 0
  /\ NewTable.keylockp = FALSE /\ NewTable.rehashp = FALSE
  /\ NewTable.table = [b \in 0..(Size - 1) |-> <<>>]
  /\ Sound(Gone) /\ Associations(Gone) = {} /\ KeysOf(Gone) = {}
  /\ Gone.size = 0 /\ Gone.keylockp = FALSE
<1>1. Size \in Nat /\ <<>> \in Seq(Assoc)
  BY HtableAssumption
<1>2. NewTable = [size |-> Size, nelems |-> 0, keylockp |-> FALSE, rehashp |-> FALSE,
                  table |-> [b \in 0..(Size - 1) |-> <<>>]]
  BY DEF NewTable, Empty
<1>3. [b \in 0..(Size - 1) |-> <<>>] \in Chains(Size)
  BY <1>1 DEF Chains
<1>4. NewTable \in Structures(Size) /\ NewTable.size = Size
      /\ NewTable.nelems = 0
      /\ NewTable.keylockp = FALSE /\ NewTable.rehashp = FALSE
      /\ NewTable.table = [b \in 0..(Size - 1) |-> <<>>]
  BY <1>2, <1>3 DEF Structures
<1>5. \A b \in 0..(Size - 1) : NewTable.table[b] = <<>>
  BY <1>4
<1>6. <<>> \in Chains(0)
  <2>1. <<>> = [b \in 0..(0 - 1) |-> <<>>]
    <3>1. 0..(0 - 1) = {} /\ DOMAIN <<>> = {}
      OBVIOUS
    <3> QED BY <3>1
  <2>2. [b \in 0..(0 - 1) |-> <<>>] \in Chains(0)
    BY <1>1 DEF Chains
  <2> QED BY <2>1, <2>2
<1>7. Gone \in Structures(0) /\ Gone.size = 0 /\ Gone.keylockp = FALSE
  BY <1>6 DEF Gone, Structures
<1>8. \A b \in 0..(0 - 1) : Gone.table[b] = <<>>
  OBVIOUS
<1> QED BY <1>1, <1>4, <1>5, <1>7, <1>8, EmptyIsSound

\* A structure with a bucket is not the one of a table that is gone.
LEMMA NotGone ==
  ASSUME NEW h, h.size # 0
  PROVE  h # Gone
BY NewAndGone

\* Table g, of n buckets, is made of the elements of h, and has each once: src
\* says where in h the element at a place of g is.
IsCopy(g, h, n, src) ==
  /\ \A p \in Places(g.table) :
       /\ src[p] \in Places(h.table)
       /\ g.table[p[1]][p[2]] = h.table[src[p][1]][src[p][2]]
       /\ p[1] = Hash[g.table[p[1]][p[2]].key] % n
  /\ \A p, q \in Places(g.table) : p[1] = q[1] /\ src[p] = src[q] => p = q
  /\ \A p \in Places(h.table) : \E q \in Places(g.table) : src[q] = p

LEMMA SoundCopy ==
  ASSUME NEW h, Sound(h), NEW n \in Nat \ {0}, NEW g, g.size = n, g \in Structures(n),
         NEW src, IsCopy(g, h, n, src)
  PROVE  Sound(g) /\ Associations(g) = Associations(h) /\ KeysOf(g) = KeysOf(h)
<1>1. \A p, q \in Places(h.table) :
        h.table[p[1]][p[2]].key = h.table[q[1]][q[2]].key => p = q
  BY DEF Sound, OnceEach
<1>2. OnceEach(g.table)
  <2>1. ASSUME NEW p \in Places(g.table), NEW q \in Places(g.table),
               g.table[p[1]][p[2]].key = g.table[q[1]][q[2]].key
        PROVE  p = q
    <3>1. p[1] = q[1]
      <4>1. /\ p[1] = Hash[g.table[p[1]][p[2]].key] % n
            /\ q[1] = Hash[g.table[q[1]][q[2]].key] % n
        BY DEF IsCopy
      <4> QED BY <2>1, <4>1, Zenon
    <3>2. src[p] = src[q]
      <4>1. /\ src[p] \in Places(h.table) /\ g.table[p[1]][p[2]] = h.table[src[p][1]][src[p][2]]
            /\ src[q] \in Places(h.table) /\ g.table[q[1]][q[2]] = h.table[src[q][1]][src[q][2]]
        BY DEF IsCopy
      <4>2. h.table[src[p][1]][src[p][2]].key = h.table[src[q][1]][src[q][2]].key
        BY <2>1, <4>1, Zenon
      <4> QED BY <1>1, <4>1, <4>2, Zenon
    <3> QED BY <3>1, <3>2 DEF IsCopy
  <2> QED BY <2>1 DEF OnceEach
<1>3. InChains(g)
  BY DEF InChains, Bucket, IsCopy
<1>4. Associations(g) = Associations(h)
  <2>1. ASSUME NEW x \in Associations(g) PROVE x \in Associations(h)
    <3>1. PICK p \in Places(g.table) : x = g.table[p[1]][p[2]]
      BY DEF Associations
    <3>2. PICK q : q = src[p]
      OBVIOUS
    <3>3. q \in Places(h.table) /\ x = h.table[q[1]][q[2]]
      BY <3>1, <3>2 DEF IsCopy
    <3> QED BY <3>3 DEF Associations
  <2>2. ASSUME NEW x \in Associations(h) PROVE x \in Associations(g)
    <3>1. PICK p \in Places(h.table) : x = h.table[p[1]][p[2]]
      BY DEF Associations
    <3>2. PICK q \in Places(g.table) : src[q] = p
      BY DEF IsCopy
    <3> QED BY <3>1, <3>2 DEF Associations, IsCopy
  <2> QED BY <2>1, <2>2
<1> QED BY <1>2, <1>3, <1>4 DEF Sound, KeysOf

\* htable_resize keeps the associations and puts each in the chain of its key,
\* wherever it was.
LEMMA ResizeProperties ==
  ASSUME NEW h, Sound(h), NEW n \in Nat \ {0}
  PROVE  /\ Sound(htable_resize(h, n))
         /\ Associations(htable_resize(h, n)) = Associations(h)
         /\ KeysOf(htable_resize(h, n)) = KeysOf(h)
         /\ htable_resize(h, n).size = n
         /\ htable_resize(h, n).nelems = h.nelems
         /\ htable_resize(h, n).keylockp = h.keylockp
         /\ htable_resize(h, n).rehashp = h.rehashp
         /\ htable_resize(h, n) \in Structures(n)
<1> DEFINE g == htable_resize(h, n)
           InChain(b) == {p \in Places(h.table) : Hash[h.table[p[1]][p[2]].key] % n = b}
           chain(b) == Reverse(Listed(h.table, InChain(b)))
           N(b) == Cardinality(InChain(b))
           from(b, j) == InOrder(InChain(b))[N(b) - j + 1]
           src == [p \in Places(g.table) |-> from(p[1], p[2])]
<1>1. /\ h.size \in Nat /\ h.table \in Chains(h.size) /\ h \in Structures(h.size)
      /\ IsFiniteSet(Places(h.table))
  BY SoundProperties DEF Sound
<1>2. /\ Places(h.table) \in SUBSET (Nat \X Nat)
      /\ \A p \in Places(h.table) : h.table[p[1]][p[2]] \in Assoc
  BY <1>1, PlacesProperties
<1>3. ASSUME NEW b \in 0..(n - 1)
      PROVE  /\ N(b) \in Nat
             /\ \A j \in 1..N(b) : InOrder(InChain(b))[j] \in InChain(b)
             /\ \A i, j \in 1..N(b) : InOrder(InChain(b))[i] = InOrder(InChain(b))[j] => i = j
             /\ \A p \in InChain(b) : \E j \in 1..N(b) : InOrder(InChain(b))[j] = p
             /\ chain(b) \in Seq(Assoc) /\ Len(chain(b)) = N(b)
             /\ \A j \in 1..N(b) : chain(b)[j] = h.table[from(b, j)[1]][from(b, j)[2]]
  <2> DEFINE P == InChain(b)
             s == Listed(h.table, P)
  <2>1. P \in SUBSET (Nat \X Nat) /\ IsFiniteSet(P) /\ \A p \in P : h.table[p[1]][p[2]] \in Assoc
    <3>1. P \in SUBSET Places(h.table)
      OBVIOUS
    <3> HIDE DEF P
    <3>2. IsFiniteSet(P)
      BY <1>1, <3>1, FS_Subset
    <3>3. \A p \in P : h.table[p[1]][p[2]] \in Assoc
      BY <1>2, <3>1
    <3> QED BY <1>2, <3>1, <3>2, <3>3
  <2> HIDE DEF InChain
  <2>2. /\ Cardinality(P) \in Nat
        /\ \A j \in 1..Cardinality(P) : InOrder(P)[j] \in P
        /\ \A i, j \in 1..Cardinality(P) : InOrder(P)[i] = InOrder(P)[j] => i = j
        /\ \A p \in P : \E j \in 1..Cardinality(P) : InOrder(P)[j] = p
    BY <2>1, InOrderProperties
  <2>3. /\ s \in Seq(Assoc) /\ Len(s) = Cardinality(P)
        /\ \A j \in 1..Cardinality(P) : s[j] = h.table[InOrder(P)[j][1]][InOrder(P)[j][2]]
    <3>1. PICK c, R : c = h.table /\ R = P
      OBVIOUS
    <3>2. R \in SUBSET (Nat \X Nat) /\ IsFiniteSet(R) /\ \A p \in R : c[p[1]][p[2]] \in Assoc
      BY <2>1, <3>1, Zenon
    <3>3. Listed(c, R) \in Seq(Assoc) /\ Len(Listed(c, R)) = Cardinality(R)
      BY <3>2, ListedProperties
    <3>4. \A j \in 1..Cardinality(R) : Listed(c, R)[j] = c[InOrder(R)[j][1]][InOrder(R)[j][2]]
      BY <3>2, ListedProperties
    <3> QED BY <3>1, <3>3, <3>4, Zenon
  <2> DEFINE el(j) == s[(Len(s) - j) + 1]
  <2>4. chain(b) = [j \in 1..N(b) |-> el(j)]
    BY <2>3 DEF Reverse
  <2>5. \A j \in 1..N(b) : (Len(s) - j) + 1 \in 1..N(b)
    BY <2>2, <2>3
  <2>6. \A j \in 1..N(b) : s[j] \in Assoc
    <3>1. DOMAIN s = 1..N(b)
      BY <2>3, LenProperties
    <3> QED BY <2>3, <3>1, ElementOfSeq
  <2>7. \A j \in 1..N(b) : el(j) \in Assoc
    <3> HIDE DEF s
    <3> QED BY <2>5, <2>6
  <2>8. [j \in 1..N(b) |-> el(j)] \in Seq(Assoc) /\ Len([j \in 1..N(b) |-> el(j)]) = N(b)
    <3>1. N(b) \in Nat
      BY <2>2
    <3> HIDE DEF el, N
    <3> QED BY <2>7, <3>1, IsASeq
  <2>9. \A j \in 1..N(b) : chain(b)[j] = h.table[from(b, j)[1]][from(b, j)[2]]
    <3> TAKE j \in 1..N(b)
    <3>1. chain(b)[j] = s[(N(b) - j) + 1]
      BY <2>3, <2>4
    <3> QED BY <2>2, <2>3, <2>5, <3>1
  <2> QED BY <2>2, <2>4, <2>8, <2>9
<1>4. \A b \in 0..(n - 1) : \A j : j \in 1..N(b) => N(b) - j + 1 \in 1..N(b)
  <2> TAKE b \in 0..(n - 1)
  <2> TAKE j
  <2>1. N(b) \in Nat
    BY <1>3
  <2> HIDE DEF N
  <2> QED BY <2>1
<1>5. g = [h EXCEPT !.size = n, !.table = [b \in 0..(n - 1) |-> chain(b)]]
  BY DEF htable_resize
<1>6. [b \in 0..(n - 1) |-> chain(b)] \in Chains(n)
  <2> HIDE DEF chain
  <2> QED BY <1>3 DEF Chains
<1>7. /\ g \in Structures(n) /\ g.size = n /\ g.nelems = h.nelems
      /\ g.keylockp = h.keylockp /\ g.rehashp = h.rehashp
      /\ g.table = [b \in 0..(n - 1) |-> chain(b)]
  <2> HIDE DEF g, chain
  <2> QED BY <1>1, <1>5, <1>6 DEF Structures
<1>8. /\ g.table \in Chains(n)
      /\ \A b \in 0..(n - 1) : g.table[b] = chain(b)
  <2> HIDE DEF g, chain
  <2> QED BY <1>6, <1>7
<1>14. ASSUME NEW b \in 0..(n - 1)
       PROVE  /\ N(b) \in Nat /\ Len(g.table[b]) = N(b)
              /\ \A j \in 1..N(b) : g.table[b][j] = h.table[from(b, j)[1]][from(b, j)[2]]
              /\ \A j \in 1..N(b) : N(b) - j + 1 \in 1..N(b) /\ from(b, j) \in InChain(b)
              /\ \A i, j \in 1..N(b) : from(b, i) = from(b, j) => N(b) - i + 1 = N(b) - j + 1
  <2> HIDE DEF g, chain, N, InChain
  <2>1. N(b) \in Nat /\ Len(g.table[b]) = N(b)
    BY <1>3, <1>8
  <2>2. \A j \in 1..N(b) : g.table[b][j] = h.table[from(b, j)[1]][from(b, j)[2]]
    <3> HIDE DEF from
    <3> QED BY <1>3, <1>8
  <2>3. \A j \in 1..N(b) : N(b) - j + 1 \in 1..N(b)
    BY <2>1
  <2>4. \A j \in 1..N(b) : from(b, j) \in InChain(b)
    BY <1>3, <2>3
  <2>5. \A i, j \in 1..N(b) : from(b, i) = from(b, j) => N(b) - i + 1 = N(b) - j + 1
    BY <1>3, <2>3
  <2> QED BY <2>1, <2>2, <2>3, <2>4, <2>5
<1> HIDE DEF g, chain, N, InChain, from
<1>15. \A b \in 0..(n - 1) : N(b) \in Nat /\ Len(g.table[b]) = N(b)
  BY <1>14
<1>9. \A b, j : <<b, j>> \in Places(g.table) <=> b \in 0..(n - 1) /\ j \in 1..N(b)
  <2>1. PICK c : c = g.table
    OBVIOUS
  <2>2. \A b, j : <<b, j>> \in Places(c) <=> b \in 0..(n - 1) /\ j \in 1..Len(c[b])
    BY <1>8, <2>1, PlacesProperties
  <2>3. \A b \in 0..(n - 1) : Len(c[b]) = N(b)
    BY <1>15, <2>1
  <2> QED BY <2>1, <2>2, <2>3
<1>10. ASSUME NEW p \in Places(g.table)
       PROVE  /\ p = <<p[1], p[2]>> /\ p[1] \in 0..(n - 1) /\ p[2] \in 1..N(p[1])
              /\ src[p] = from(p[1], p[2])
              /\ src[p] \in Places(h.table)
              /\ g.table[p[1]][p[2]] = h.table[src[p][1]][src[p][2]]
              /\ p[1] = Hash[g.table[p[1]][p[2]].key] % n
  <2>1. p = <<p[1], p[2]>> /\ p[1] \in 0..(n - 1) /\ p[2] \in 1..N(p[1])
    BY <1>8, <1>15, PlacesProperties
  <2>2. src[p] = from(p[1], p[2])
    OBVIOUS
  <2>3. from(p[1], p[2]) \in InChain(p[1])
    BY <1>14, <2>1
  <2>4. g.table[p[1]][p[2]] = h.table[from(p[1], p[2])[1]][from(p[1], p[2])[2]]
    BY <1>14, <2>1
  <2>5. \A q, b : q \in InChain(b) => /\ q \in Places(h.table)
                                      /\ Hash[h.table[q[1]][q[2]].key] % n = b
    BY DEF InChain
  <2> HIDE DEF src
  <2> QED BY <2>1, <2>2, <2>3, <2>4, <2>5
<1>11. ASSUME NEW p \in Places(g.table), NEW q \in Places(g.table), p[1] = q[1], src[p] = src[q]
       PROVE  p = q
  <2>1. /\ p = <<p[1], p[2]>> /\ p[1] \in 0..(n - 1) /\ p[2] \in 1..N(p[1])
        /\ q = <<q[1], q[2]>> /\ q[2] \in 1..N(p[1])
        /\ from(p[1], p[2]) = from(p[1], q[2])
    BY <1>10, <1>11
  <2>2. N(p[1]) - p[2] + 1 = N(p[1]) - q[2] + 1
    BY <1>14, <2>1
  <2>3. N(p[1]) \in Nat
    BY <1>14, <2>1
  <2>4. p[2] = q[2]
    <3>1. \A m \in Nat : \A i, j \in 1..m : m - i + 1 = m - j + 1 => i = j
      OBVIOUS
    <3> QED BY <2>1, <2>2, <2>3, <3>1
  <2> QED BY <1>11, <2>1, <2>4
<1>12. ASSUME NEW p \in Places(h.table) PROVE \E q \in Places(g.table) : src[q] = p
  <2> DEFINE b == Hash[h.table[p[1]][p[2]].key] % n
  <2>1. p \in InChain(b)
    BY DEF InChain
  <2>2. b \in 0..(n - 1)
    <3>1. h.table[p[1]][p[2]].key \in Plain
      BY <1>2 DEF Assoc
    <3>2. PICK k : k = h.table[p[1]][p[2]].key
      OBVIOUS
    <3>3. Hash[k] \in Nat
      BY <3>1, <3>2, HtableAssumption
    <3>4. Hash[k] % n \in 0..(n - 1)
      BY <3>3
    <3> QED BY <3>2, <3>4
  <2> HIDE DEF b
  <2>3. PICK j \in 1..N(b) : InOrder(InChain(b))[j] = p
    BY <1>3, <2>1, <2>2
  <2>4. N(b) \in Nat
    BY <1>3, <2>2
  <2>5. N(b) - j + 1 \in 1..N(b) /\ N(b) - (N(b) - j + 1) + 1 = j
    BY <2>3, <2>4
  <2>6. <<b, N(b) - j + 1>> \in Places(g.table)
    BY <1>9, <2>2, <2>5
  <2>7. <<b, N(b) - j + 1>>[1] = b /\ <<b, N(b) - j + 1>>[2] = N(b) - j + 1
    OBVIOUS
  <2>8. src[<<b, N(b) - j + 1>>] = p
    <3>1. src[<<b, N(b) - j + 1>>] = from(b, N(b) - j + 1)
      BY <2>6, <2>7
    <3> QED BY <2>3, <2>5, <3>1 DEF from
  <2> QED BY <2>6, <2>8
<1> HIDE DEF src
<1>13. Sound(g) /\ Associations(g) = Associations(h) /\ KeysOf(g) = KeysOf(h)
  <2>1. \A p \in Places(g.table) :
          /\ src[p] \in Places(h.table)
          /\ g.table[p[1]][p[2]] = h.table[src[p][1]][src[p][2]]
          /\ p[1] = Hash[g.table[p[1]][p[2]].key] % n
    BY <1>10
  <2>2. \A p, q \in Places(g.table) : p[1] = q[1] /\ src[p] = src[q] => p = q
    BY <1>11
  <2>3. g \in Structures(n) /\ g.size = n
    BY <1>7
  <2>4. IsCopy(g, h, n, src)
    BY <1>12, <2>1, <2>2, Zenon DEF IsCopy
  <2> QED BY <2>3, <2>4, SoundCopy
<1> QED BY <1>7, <1>13 DEF g

\* A new element in front of the chain its key hashes to.
WithElement(h, k, v) ==
  [h EXCEPT !.nelems = @ + 1, !.table[Bucket(h, k)] = <<[key |-> k, value |-> v]>> \o @]

LEMMA InsertedProperties ==
  ASSUME NEW h, Sound(h), h.size # 0, NEW k \in Plain, k \notin KeysOf(h), NEW v \in At,
         NEW g, g = WithElement(h, k, v)
  PROVE  /\ Sound(g)
         /\ g.size = h.size /\ g.nelems = h.nelems + 1
         /\ g.keylockp = h.keylockp /\ g.rehashp = h.rehashp
         /\ Associations(g) = Associations(h) \cup {[key |-> k, value |-> v]}
         /\ KeysOf(g) = KeysOf(h) \cup {k}
<1> DEFINE b == Bucket(h, k)
           e == [key |-> k, value |-> v]
           chain == <<e>> \o h.table[b]
           move(p) == IF p[1] = b THEN <<b, p[2] - 1>> ELSE p
<1>1. /\ h.size \in Nat \ {0} /\ h.table \in Chains(h.size) /\ h \in Structures(h.size)
      /\ h.nelems \in Nat
  BY SoundProperties DEF Sound
<1>2. /\ b \in 0..(h.size - 1)
      /\ h.table[b] \in Seq(Assoc) /\ Len(h.table[b]) \in Nat
      /\ e \in Assoc /\ e.key = k
  BY <1>1, BucketType, PlacesProperties DEF Assoc
<1>3. /\ chain \in Seq(Assoc) /\ Len(chain) = Len(h.table[b]) + 1 /\ chain[1] = e
      /\ \A j \in 2..(Len(h.table[b]) + 1) : chain[j] = h.table[b][j - 1]
  <2> HIDE DEF e, b
  <2>1. <<e>> \in Seq(Assoc) /\ Len(<<e>>) = 1 /\ <<e>>[1] = e
    BY <1>2
  <2>2. /\ chain \in Seq(Assoc) /\ Len(chain) = Len(<<e>>) + Len(h.table[b])
        /\ \A i \in 1..(Len(<<e>>) + Len(h.table[b])) :
             chain[i] = IF i <= Len(<<e>>) THEN <<e>>[i] ELSE h.table[b][i - Len(<<e>>)]
    BY <1>2, <2>1, ConcatProperties
  <2> HIDE DEF chain
  <2>3. ASSUME NEW j \in 2..(Len(h.table[b]) + 1) PROVE chain[j] = h.table[b][j - 1]
    <3>1. j \in 1..(Len(<<e>>) + Len(h.table[b])) /\ ~(j <= Len(<<e>>)) /\ j - Len(<<e>>) = j - 1
      BY <1>2, <2>1
    <3> QED BY <2>2, <3>1
  <2>4. 1 \in 1..(Len(<<e>>) + Len(h.table[b])) /\ 1 <= Len(<<e>>)
    BY <1>2, <2>1
  <2> QED BY <1>2, <2>1, <2>2, <2>3, <2>4
<1>4. /\ g \in Structures(h.size) /\ g.size = h.size /\ g.nelems = h.nelems + 1
      /\ g.keylockp = h.keylockp /\ g.rehashp = h.rehashp
      /\ g.table = [h.table EXCEPT ![b] = chain] /\ g.table \in Chains(h.size)
  <2>1. g = [h EXCEPT !.nelems = h.nelems + 1, !.table = [h.table EXCEPT ![b] = chain]]
    BY DEF WithElement
  <2> HIDE DEF chain, b
  <2>2. [h.table EXCEPT ![b] = chain] \in Chains(h.size)
    BY <1>1, <1>2, <1>3 DEF Chains
  <2>4. h.nelems + 1 \in Nat
    BY <1>1
  <2>5. PICK m \in Nat : m = h.nelems + 1
    BY <2>4
  <2>6. PICK c \in Chains(h.size) : c = [h.table EXCEPT ![b] = chain]
    BY <2>2
  <2>7. g = [h EXCEPT !.nelems = m, !.table = c]
    BY <2>1, <2>5, <2>6
  <2>8. /\ g \in Structures(h.size) /\ g.size = h.size /\ g.nelems = m
        /\ g.keylockp = h.keylockp /\ g.rehashp = h.rehashp /\ g.table = c
    BY <1>1, <2>7 DEF Structures
  <2> HIDE DEF b
  <2> QED BY <2>5, <2>6, <2>8
<1>5. \A c \in 0..(h.size - 1) : g.table[c] = IF c = b THEN chain ELSE h.table[c]
  <2> HIDE DEF b, chain
  <2> QED BY <1>1, <1>4 DEF Chains
<1> HIDE DEF b, chain, e
<1>6. \A c, j : <<c, j>> \in Places(g.table) <=> c \in 0..(h.size - 1) /\ j \in 1..Len(g.table[c])
  BY <1>1, <1>4, PlacesProperties
<1>7. \A c, j : <<c, j>> \in Places(h.table) <=> c \in 0..(h.size - 1) /\ j \in 1..Len(h.table[c])
  BY <1>1, PlacesProperties
<1>8. ASSUME NEW p \in Places(g.table)
      PROVE  p = <<p[1], p[2]>> /\ p[1] \in 0..(h.size - 1) /\ p[2] \in 1..Len(g.table[p[1]])
  BY <1>1, <1>4, PlacesProperties
<1>9. ASSUME NEW p \in Places(g.table), p # <<b, 1>>
      PROVE  /\ move(p) \in Places(h.table)
             /\ p = <<p[1], p[2]>> /\ p[2] \in Nat /\ p[1] = move(p)[1]
             /\ g.table[p[1]][p[2]] = h.table[move(p)[1]][move(p)[2]]
  <2>1. p = <<p[1], p[2]>> /\ p[1] \in 0..(h.size - 1) /\ p[2] \in 1..Len(g.table[p[1]])
    BY <1>8
  <2>2. CASE p[1] # b
    <3>1. move(p) = p /\ g.table[p[1]] = h.table[p[1]]
      BY <1>5, <2>1, <2>2
    <3>2. Len(h.table[p[1]]) \in Nat
      BY <1>1, <2>1, PlacesProperties
    <3>3. <<p[1], p[2]>> \in Places(h.table)
      BY <1>7, <2>1, <3>1
    <3>4. p[2] \in Nat
      BY <2>1, <3>1, <3>2
    <3> HIDE DEF move
    <3> QED BY <2>1, <3>1, <3>3, <3>4, Zenon
  <2>3. CASE p[1] = b
    <3>1. g.table[p[1]] = chain
      BY <1>2, <1>5, <2>3
    <3>2. p[2] \in 2..(Len(h.table[b]) + 1)
      <4>1. p[2] # 1
        BY <1>9, <2>1, <2>3
      <4> QED BY <1>2, <1>3, <2>1, <3>1, <4>1
    <3>3. move(p) = <<b, p[2] - 1>> /\ <<b, p[2] - 1>>[1] = b /\ <<b, p[2] - 1>>[2] = p[2] - 1
      BY <2>3
    <3>4. p[2] - 1 \in 1..Len(h.table[b]) /\ p[2] \in Nat
      BY <1>2, <3>2
    <3>5. <<b, p[2] - 1>> \in Places(h.table)
      BY <1>2, <1>7, <3>4
    <3> HIDE DEF move
    <3> QED BY <1>3, <2>1, <2>3, <3>1, <3>2, <3>3, <3>4, <3>5
  <2> QED BY <2>2, <2>3
<1>10. ASSUME NEW q \in Places(h.table)
       PROVE  \E p \in Places(g.table) : p # <<b, 1>> /\ move(p) = q
  <2>1. q = <<q[1], q[2]>> /\ q[1] \in 0..(h.size - 1) /\ q[2] \in 1..Len(h.table[q[1]])
    BY <1>1, PlacesProperties
  <2>2. CASE q[1] # b
    <3>1. g.table[q[1]] = h.table[q[1]] /\ move(q) = q /\ q # <<b, 1>>
      BY <1>5, <2>1, <2>2
    <3>2. q \in Places(g.table)
      BY <1>6, <2>1, <3>1
    <3> HIDE DEF move
    <3> QED BY <3>1, <3>2
  <2>3. CASE q[1] = b
    <3>1. g.table[b] = chain
      BY <1>2, <1>5
    <3>2. q[2] + 1 \in 1..Len(chain) /\ q[2] + 1 # 1 /\ (q[2] + 1) - 1 = q[2]
      BY <1>2, <1>3, <2>1, <2>3
    <3>3. <<b, q[2] + 1>> \in Places(g.table) /\ <<b, q[2] + 1>> # <<b, 1>>
      BY <1>2, <1>6, <3>1, <3>2
    <3>4. move(<<b, q[2] + 1>>) = <<b, q[2]>>
      BY <3>2
    <3> HIDE DEF move
    <3> QED BY <2>1, <2>3, <3>3, <3>4
  <2> QED BY <2>2, <2>3
<1>11. <<b, 1>> \in Places(g.table) /\ g.table[b][1] = e
       /\ <<b, 1>>[1] = b /\ <<b, 1>>[2] = 1
  <2>1. g.table[b] = chain /\ 1 \in 1..Len(chain)
    <3>1. g.table[b] = chain
      BY <1>2, <1>5
    <3> QED BY <1>2, <1>3, <3>1
  <2> QED BY <1>2, <1>3, <1>6, <2>1
<1>12. ASSUME NEW p \in Places(g.table), NEW q \in Places(g.table),
              p # <<b, 1>>, q # <<b, 1>>, move(p) = move(q)
       PROVE  p = q
  <2>1. /\ p = <<p[1], p[2]>> /\ p[2] \in Nat /\ q = <<q[1], q[2]>> /\ q[2] \in Nat
        /\ p[1] = move(p)[1] /\ q[1] = move(q)[1]
    BY <1>9, <1>12
  <2>2. p[1] = q[1]
    <3> HIDE DEF move
    <3> QED BY <1>12, <2>1
  <2>3. p[2] = q[2]
    <3>1. move(p)[2] = IF p[1] = b THEN p[2] - 1 ELSE p[2]
      OBVIOUS
    <3>2. move(q)[2] = IF q[1] = b THEN q[2] - 1 ELSE q[2]
      OBVIOUS
    <3> HIDE DEF move
    <3> QED BY <1>12, <2>1, <2>2, <3>1, <3>2
  <2> QED BY <2>1, <2>2, <2>3, Zenon
<1> HIDE DEF move
<1>13. \A q \in Places(h.table) : h.table[q[1]][q[2]].key # k
  BY DEF KeysOf, Associations
<1>14. OnceEach(g.table)
  <2>1. \A p, q \in Places(h.table) :
          h.table[p[1]][p[2]].key = h.table[q[1]][q[2]].key => p = q
    BY DEF Sound, OnceEach
  <2>2. ASSUME NEW p \in Places(g.table), NEW q \in Places(g.table),
               g.table[p[1]][p[2]].key = g.table[q[1]][q[2]].key
        PROVE  p = q
    <3>3. g.table[<<b, 1>>[1]][<<b, 1>>[2]].key = k
      BY <1>2, <1>11
    <3>4. ASSUME NEW x \in Places(g.table), x # <<b, 1>> PROVE g.table[x[1]][x[2]].key # k
      BY <1>9, <1>13, <3>4
    <3>1. CASE p = <<b, 1>> \/ q = <<b, 1>>
      BY <2>2, <3>1, <3>3, <3>4, Zenon
    <3>2. CASE p # <<b, 1>> /\ q # <<b, 1>>
      <4>1. /\ move(p) \in Places(h.table) /\ g.table[p[1]][p[2]] = h.table[move(p)[1]][move(p)[2]]
            /\ move(q) \in Places(h.table) /\ g.table[q[1]][q[2]] = h.table[move(q)[1]][move(q)[2]]
        BY <1>9, <3>2
      <4>2. move(p) = move(q)
        BY <2>1, <2>2, <4>1
      <4> QED BY <1>12, <3>2, <4>2
    <3> QED BY <3>1, <3>2
  <2> QED BY <2>2 DEF OnceEach
<1>15. InChains(g)
  <2>1. \A p \in Places(h.table) : p[1] = Bucket(h, h.table[p[1]][p[2]].key)
    BY DEF Sound, InChains
  <2>2. \A x : Bucket(g, x) = Bucket(h, x)
    BY <1>4 DEF Bucket
  <2>3. ASSUME NEW p \in Places(g.table) PROVE p[1] = Bucket(h, g.table[p[1]][p[2]].key)
    <3>1. CASE p = <<b, 1>>
      BY <1>2, <1>11, <3>1 DEF b
    <3>2. CASE p # <<b, 1>>
      BY <1>9, <2>1, <3>2
    <3> QED BY <3>1, <3>2
  <2> QED BY <2>2, <2>3 DEF InChains
<1>16. Associations(g) = Associations(h) \cup {e}
  <2>1. ASSUME NEW x \in Associations(g) PROVE x \in Associations(h) \cup {e}
    <3>1. PICK p \in Places(g.table) : x = g.table[p[1]][p[2]]
      BY DEF Associations
    <3>2. CASE p = <<b, 1>>
      BY <1>11, <3>1, <3>2
    <3>3. CASE p # <<b, 1>>
      BY <1>9, <3>1, <3>3 DEF Associations
    <3> QED BY <3>2, <3>3
  <2>2. ASSUME NEW x \in Associations(h) PROVE x \in Associations(g)
    <3>1. PICK q \in Places(h.table) : x = h.table[q[1]][q[2]]
      BY DEF Associations
    <3>2. PICK p \in Places(g.table) : p # <<b, 1>> /\ move(p) = q
      BY <1>10
    <3> QED BY <1>9, <3>1, <3>2 DEF Associations
  <2>3. e \in Associations(g)
    BY <1>11 DEF Associations
  <2> QED BY <2>1, <2>2, <2>3
<1>17. KeysOf(g) = KeysOf(h) \cup {k}
  BY <1>2, <1>16 DEF KeysOf
<1> QED BY <1>1, <1>4, <1>14, <1>15, <1>16, <1>17 DEF Sound, e

\* The element found for a key with another value.
LEMMA ChangedProperties ==
  ASSUME NEW h, Sound(h), h.size # 0, NEW k \in Plain, Place(h, k) # 0, NEW v \in At,
         NEW g, g = [h EXCEPT !.table[Bucket(h, k)][Place(h, k)].value = v]
  PROVE  /\ Sound(g)
         /\ g.size = h.size /\ g.nelems = h.nelems
         /\ g.keylockp = h.keylockp /\ g.rehashp = h.rehashp
         /\ KeysOf(g) = KeysOf(h)
         /\ \A e : e \in Associations(g) <=> \/ e \in Associations(h) /\ e.key # k
                                             \/ e = [key |-> k, value |-> v]
<1> DEFINE b == Bucket(h, k)
           i == Place(h, k)
           chain == [h.table[b] EXCEPT ![i].value = v]
           new == [key |-> k, value |-> v]
<1>1. /\ h.size \in Nat \ {0} /\ h.table \in Chains(h.size) /\ h \in Structures(h.size)
  BY SoundProperties DEF Sound
<1>2. /\ <<b, i>> \in Places(h.table) /\ h.table[b][i].key = k
  BY PlaceFinds
<1>3. /\ b \in 0..(h.size - 1) /\ i \in 1..Len(h.table[b])
      /\ h.table[b] \in Seq(Assoc) /\ Len(h.table[b]) \in Nat
      /\ DOMAIN h.table[b] = 1..Len(h.table[b]) /\ h.table[b][i] \in Assoc
  <2>1. <<b, i>>[1] = b /\ <<b, i>>[2] = i
    OBVIOUS
  <2> QED BY <1>1, <1>2, <2>1, PlacesProperties
<1>4. [h.table[b][i] EXCEPT !.value = v] = new /\ new \in Assoc /\ new.key = k
  BY <1>2, <1>3 DEF Assoc
<1> HIDE DEF b, i
<1>5. /\ chain \in Seq(Assoc) /\ Len(chain) = Len(h.table[b])
      /\ chain[i] = new /\ \A j \in 1..Len(h.table[b]) : j # i => chain[j] = h.table[b][j]
  <2>1. chain = [h.table[b] EXCEPT ![i] = new]
    BY <1>3, <1>4
  <2> HIDE DEF chain, new
  <2> QED BY <1>3, <1>4, <2>1, ExceptSeq
<1>6. /\ g \in Structures(h.size) /\ g.size = h.size /\ g.nelems = h.nelems
      /\ g.keylockp = h.keylockp /\ g.rehashp = h.rehashp
      /\ g.table = [h.table EXCEPT ![b] = chain] /\ g.table \in Chains(h.size)
  <2>1. g = [h EXCEPT !.table = [h.table EXCEPT ![b] = chain]]
    BY DEF b, i
  <2> HIDE DEF chain
  <2>2. [h.table EXCEPT ![b] = chain] \in Chains(h.size)
    BY <1>1, <1>3, <1>5 DEF Chains
  <2> QED BY <1>1, <2>1, <2>2 DEF Structures
<1>7. \A c \in 0..(h.size - 1) : g.table[c] = IF c = b THEN chain ELSE h.table[c]
  <2> HIDE DEF chain
  <2> QED BY <1>1, <1>6 DEF Chains
<1> HIDE DEF chain, new
<1>8. \A p : p \in Places(g.table) <=> p \in Places(h.table)
  <2>1. \A c, j : <<c, j>> \in Places(g.table) <=> c \in 0..(h.size - 1) /\ j \in 1..Len(g.table[c])
    BY <1>1, <1>6, PlacesProperties
  <2>2. \A c, j : <<c, j>> \in Places(h.table) <=> c \in 0..(h.size - 1) /\ j \in 1..Len(h.table[c])
    BY <1>1, PlacesProperties
  <2>3. \A c, j : <<c, j>> \in Places(g.table) <=> <<c, j>> \in Places(h.table)
    <3> TAKE c, j
    <3>1. CASE c \in 0..(h.size - 1) /\ c = b
      BY <1>5, <1>7, <2>1, <2>2, <3>1
    <3>2. CASE c \in 0..(h.size - 1) /\ c # b
      <4>1. g.table[c] = h.table[c]
        BY <1>7, <3>2
      <4> QED BY <2>1, <2>2, <4>1
    <3>3. CASE c \notin 0..(h.size - 1)
      BY <2>1, <2>2, <3>3
    <3> QED BY <3>1, <3>2, <3>3
  <2>4. \A p \in Places(g.table) : p = <<p[1], p[2]>>
    BY <1>1, <1>6, PlacesProperties
  <2>5. \A p \in Places(h.table) : p = <<p[1], p[2]>>
    BY <1>1, PlacesProperties
  <2> TAKE p
  <2>6. <<p[1], p[2]>> \in Places(g.table) <=> <<p[1], p[2]>> \in Places(h.table)
    BY <2>3
  <2> QED BY <2>4, <2>5, <2>6, Zenon
<1>9. ASSUME NEW p \in Places(h.table)
      PROVE  /\ p = <<b, i>> => g.table[p[1]][p[2]] = new
             /\ p # <<b, i>> => g.table[p[1]][p[2]] = h.table[p[1]][p[2]]
             /\ g.table[p[1]][p[2]].key = h.table[p[1]][p[2]].key
  <2>1. p = <<p[1], p[2]>> /\ p[1] \in 0..(h.size - 1) /\ p[2] \in 1..Len(h.table[p[1]])
    BY <1>1, PlacesProperties
  <2>2. p = <<b, i>> => p[1] = b /\ p[2] = i
    OBVIOUS
  <2>3. p # <<b, i>> => p[1] # b \/ p[2] # i
    BY <2>1
  <2>4. CASE p = <<b, i>>
    <3>1. p[1] = b /\ p[2] = i /\ g.table[b] = chain
      BY <1>3, <1>7, <2>2, <2>4
    <3> QED BY <1>2, <1>3, <1>4, <1>5, <2>4, <3>1
  <2>5. CASE p # <<b, i>>
    <3>1. CASE p[1] = b
      <4>1. g.table[b] = chain /\ p[2] # i /\ p[2] \in 1..Len(h.table[b])
        BY <1>3, <1>7, <2>1, <2>3, <2>5, <3>1
      <4>2. chain[p[2]] = h.table[b][p[2]]
        BY <1>5, <4>1
      <4> QED BY <2>5, <3>1, <4>1, <4>2, Zenon
    <3>2. CASE p[1] # b
      <4>1. g.table[p[1]] = h.table[p[1]]
        BY <1>7, <2>1, <3>2
      <4> QED BY <2>5, <4>1, Zenon
    <3> QED BY <3>1, <3>2
  <2> QED BY <2>4, <2>5
<1>10. OnceEach(g.table)
  <2>1. \A p, q \in Places(h.table) :
          h.table[p[1]][p[2]].key = h.table[q[1]][q[2]].key => p = q
    BY DEF Sound, OnceEach
  <2>2. ASSUME NEW p \in Places(g.table), NEW q \in Places(g.table),
               g.table[p[1]][p[2]].key = g.table[q[1]][q[2]].key
        PROVE  p = q
    <3>1. p \in Places(h.table) /\ q \in Places(h.table)
      BY <1>8
    <3>2. /\ g.table[p[1]][p[2]].key = h.table[p[1]][p[2]].key
          /\ g.table[q[1]][q[2]].key = h.table[q[1]][q[2]].key
      BY <1>9, <3>1, Zenon
    <3>3. h.table[p[1]][p[2]].key = h.table[q[1]][q[2]].key
      BY <2>2, <3>2, Zenon
    <3> QED BY <2>1, <3>1, <3>3, Zenon
  <2> QED BY <2>2 DEF OnceEach
<1>11. InChains(g)
  <2>1. \A p \in Places(h.table) : p[1] = Bucket(h, h.table[p[1]][p[2]].key)
    BY DEF Sound, InChains
  <2>2. \A x : Bucket(g, x) = Bucket(h, x)
    BY <1>6 DEF Bucket
  <2>3. ASSUME NEW p \in Places(g.table)
        PROVE  p[1] = Bucket(g, g.table[p[1]][p[2]].key)
    <3>1. p \in Places(h.table)
      BY <1>8
    <3>2. g.table[p[1]][p[2]].key = h.table[p[1]][p[2]].key
      BY <1>9, <3>1, Zenon
    <3> QED BY <2>1, <2>2, <3>1, <3>2, Zenon
  <2> QED BY <2>3 DEF InChains
<1>12. \A p \in Places(h.table) : h.table[p[1]][p[2]].key = k => p = <<b, i>>
  <2>1. <<b, i>>[1] = b /\ <<b, i>>[2] = i
    OBVIOUS
  <2> QED BY <1>2, <2>1 DEF Sound, OnceEach
<1>13. ASSUME NEW e
       PROVE  e \in Associations(g) <=> \/ e \in Associations(h) /\ e.key # k
                                        \/ e = new
  <2>1. ASSUME e \in Associations(g) PROVE (e \in Associations(h) /\ e.key # k) \/ e = new
    <3>1. PICK p \in Places(h.table) : e = g.table[p[1]][p[2]]
      BY <1>8, <2>1 DEF Associations
    <3> QED BY <1>9, <1>12, <3>1 DEF Associations
  <2>2. ASSUME e \in Associations(h), e.key # k PROVE e \in Associations(g)
    <3>1. PICK p \in Places(h.table) : e = h.table[p[1]][p[2]]
      BY <2>2 DEF Associations
    <3>2. <<b, i>>[1] = b /\ <<b, i>>[2] = i
      OBVIOUS
    <3>3. p # <<b, i>>
      BY <1>2, <2>2, <3>1, <3>2
    <3> QED BY <1>8, <1>9, <3>1, <3>3 DEF Associations
  <2>3. new \in Associations(g)
    BY <1>2, <1>8, <1>9 DEF Associations
  <2> QED BY <2>1, <2>2, <2>3
<1>14. KeysOf(g) = KeysOf(h)
  <2>1. ASSUME NEW x PROVE x \in KeysOf(g) <=> x \in KeysOf(h)
    <3>1. x \in KeysOf(g) <=> \E p \in Places(g.table) : x = g.table[p[1]][p[2]].key
      BY DEF KeysOf, Associations
    <3>2. x \in KeysOf(h) <=> \E p \in Places(h.table) : x = h.table[p[1]][p[2]].key
      BY DEF KeysOf, Associations
    <3> QED BY <1>8, <1>9, <3>1, <3>2
  <2> QED BY <2>1
<1> QED BY <1>1, <1>6, <1>10, <1>11, <1>13, <1>14 DEF Sound, new

\* The associations of a saved table are in the chain of its keys already when
\* it is read: chain 0, where bread puts them.
FilesInOrder ==
  \A file \in File : \A i \in DOMAIN file : Hash[file[i].key] % Size = 0

\* What Bread makes of a file: the table, the objects and their references.
SavedTable(file) ==
  [NewTable EXCEPT !.keylockp = TRUE, !.rehashp = TRUE,
                   !.nelems = Len(file), !.table[0] = Reverse(file)]
Loaded(file) == {e.key : e \in ToSet(file)} \cup {e.value : e \in ToSet(file)}
RefsIn(file, a) == Cardinality({i \in DOMAIN file : file[i].key = a})
                   + Cardinality({i \in DOMAIN file : file[i].value = a})

\* A table read from a file.
LEMMA SavedProperties ==
  ASSUME FilesInOrder, NEW file \in File, NEW g, g = SavedTable(file)
  PROVE  /\ Sound(g)
         /\ g.size = Size /\ g.nelems = Len(file) /\ g.keylockp = TRUE /\ g.rehashp = TRUE
         /\ Len(file) \in Nat /\ 3 * (Len(file) - 1) <= 2 * Size
         /\ Loaded(file) \in SUBSET Plain
         /\ \A e \in Associations(g) : e.key \in Loaded(file) /\ e.value \in Loaded(file)
         /\ Associations(g) \in SUBSET ToSet(file)
         /\ Cardinality(KeysOf(g)) = Len(file)
         /\ \A a \in At : /\ HeldBy(g, a) = RefsIn(file, a)
                          /\ (HeldBy(g, a) = 0) <=> a \notin Loaded(file)
<1> DEFINE N == Len(file)
           rev == Reverse(file)
<1>1. /\ file \in Seq([key : Plain, value : Plain])
      /\ \A i, j \in DOMAIN file : file[i].key = file[j].key => i = j
      /\ 3 * (Len(file) - 1) <= 2 * Size
  BY HtableAssumption DEF IsSavedTable
<1>2. /\ N \in Nat /\ DOMAIN file = 1..N
      /\ \A i \in 1..N : /\ file[i] \in [key : Plain, value : Plain] /\ file[i] \in Assoc
                         /\ file[i].key \in Plain /\ file[i].value \in Plain
  <2>1. \A i \in 1..N : file[i] \in [key : Plain, value : Plain]
    BY <1>1, ElementOfSeq
  <2>2. [key : Plain, value : Plain] \in SUBSET Assoc
    BY DEF Assoc, At
  <2> QED BY <1>1, <2>1, <2>2, LenProperties
<1>3. \A j \in 1..N : N - j + 1 \in 1..N /\ N - (N - j + 1) + 1 = j
  BY <1>2
<1>4. /\ rev \in Seq(Assoc) /\ Len(rev) = N
      /\ \A j \in 1..N : rev[j] = file[N - j + 1]
  <2> DEFINE el(j) == file[N - j + 1]
  <2>1. rev = [j \in 1..N |-> el(j)]
    BY DEF Reverse
  <2>2. \A j \in 1..N : el(j) \in Assoc
    BY <1>2, <1>3
  <2>3. [j \in 1..N |-> el(j)] \in Seq(Assoc) /\ Len([j \in 1..N |-> el(j)]) = N
    <3> HIDE DEF el, N
    <3> QED BY <1>2, <2>2, IsASeq DEF N
  <2> HIDE DEF rev, N
  <2> QED BY <2>1, <2>3
<1>5. Size \in Nat \ {0}
  BY HtableAssumption
<1>6. /\ NewTable \in Structures(Size) /\ NewTable.size = Size
      /\ NewTable.table = [b \in 0..(Size - 1) |-> <<>>]
  BY NewAndGone
<1> HIDE DEF N, rev
<1>7. g = [NewTable EXCEPT !.keylockp = TRUE, !.rehashp = TRUE, !.nelems = N,
                           !.table = [NewTable.table EXCEPT ![0] = rev]]
  BY DEF N, rev, SavedTable
<1>8. PICK c : c = [NewTable.table EXCEPT ![0] = rev]
  OBVIOUS
<1>9. /\ c \in Chains(Size) /\ c[0] = rev
      /\ \A b \in 0..(Size - 1) : b # 0 => c[b] = <<>>
  <2>1. NewTable.table \in Chains(Size) /\ DOMAIN NewTable.table = 0..(Size - 1)
    BY <1>6 DEF Structures, Chains
  <2>2. \A b \in 0..(Size - 1) : NewTable.table[b] = <<>>
    BY <1>6
  <2>3. 0 \in 0..(Size - 1)
    BY <1>5
  <2> QED BY <1>4, <1>8, <2>1, <2>2, <2>3 DEF Chains
<1>10. g = [NewTable EXCEPT !.keylockp = TRUE, !.rehashp = TRUE, !.nelems = N, !.table = c]
  BY <1>7, <1>8
<1>11. /\ g \in Structures(Size) /\ g.size = Size /\ g.nelems = N
       /\ g.keylockp = TRUE /\ g.rehashp = TRUE /\ g.table = c
  BY <1>2, <1>6, <1>9, <1>10 DEF Structures
<1>12. \A b, j : <<b, j>> \in Places(g.table) <=> b = 0 /\ j \in 1..N
  <2>1. \A b, j : <<b, j>> \in Places(g.table) <=> b \in 0..(Size - 1) /\ j \in 1..Len(c[b])
    BY <1>5, <1>9, <1>11, PlacesProperties
  <2>2. Len(<<>>) = 0
    BY EmptySeq
  <2> TAKE b, j
  <2>3. CASE b \in 0..(Size - 1) /\ b # 0
    BY <1>9, <2>1, <2>2, <2>3
  <2>4. CASE ~(b \in 0..(Size - 1) /\ b # 0)
    BY <1>4, <1>5, <1>9, <2>1, <2>4
  <2> QED BY <2>3, <2>4
<1>13. ASSUME NEW p \in Places(g.table)
       PROVE  /\ p = <<p[1], p[2]>> /\ p[1] = 0 /\ p[2] \in 1..N
              /\ g.table[p[1]][p[2]] = file[N - p[2] + 1]
  <2>1. p = <<p[1], p[2]>>
    BY <1>5, <1>9, <1>11, PlacesProperties
  <2>2. p[1] = 0 /\ p[2] \in 1..N
    BY <1>12, <2>1
  <2> QED BY <1>4, <1>9, <1>11, <2>1, <2>2
<1>14. ASSUME NEW i \in 1..N
       PROVE  \E p \in Places(g.table) : g.table[p[1]][p[2]] = file[i]
  <2>1. <<0, N - i + 1>> \in Places(g.table) /\ <<0, N - i + 1>>[2] = N - i + 1
    BY <1>3, <1>12
  <2>2. file[N - (N - i + 1) + 1] = file[i]
    BY <1>3
  <2> QED BY <1>13, <2>1, <2>2
<1>15. OnceEach(g.table)
  <2>1. ASSUME NEW p \in Places(g.table), NEW q \in Places(g.table),
               g.table[p[1]][p[2]].key = g.table[q[1]][q[2]].key
        PROVE  p = q
    <3>1. N - p[2] + 1 = N - q[2] + 1
      <4>1. N - p[2] + 1 \in DOMAIN file /\ N - q[2] + 1 \in DOMAIN file
        BY <1>2, <1>3, <1>13
      <4>2. file[N - p[2] + 1].key = file[N - q[2] + 1].key
        BY <1>13, <2>1
      <4> QED BY <1>1, <4>1, <4>2
    <3>2. p[2] = q[2]
      <4>1. \A m \in Nat : \A i, j \in 1..m : m - i + 1 = m - j + 1 => i = j
        OBVIOUS
      <4> QED BY <1>2, <1>13, <3>1, <4>1
    <3> QED BY <1>13, <3>2
  <2> QED BY <2>1 DEF OnceEach
<1>16. InChains(g)
  <2>1. ASSUME NEW p \in Places(g.table) PROVE p[1] = Bucket(g, g.table[p[1]][p[2]].key)
    <3>1. N - p[2] + 1 \in DOMAIN file /\ g.table[p[1]][p[2]] = file[N - p[2] + 1] /\ p[1] = 0
      BY <1>2, <1>3, <1>13
    <3>2. Hash[file[N - p[2] + 1].key] % Size = 0
      BY <3>1 DEF FilesInOrder
    <3> QED BY <1>11, <3>1, <3>2 DEF Bucket
  <2> QED BY <2>1 DEF InChains
<1>17. Associations(g) = {file[i] : i \in 1..N}
  <2>1. ASSUME NEW x \in Associations(g) PROVE x \in {file[i] : i \in 1..N}
    BY <1>3, <1>13 DEF Associations
  <2>2. ASSUME NEW i \in 1..N PROVE file[i] \in Associations(g)
    BY <1>14 DEF Associations
  <2> QED BY <2>1, <2>2
<1>18. KeysOf(g) = {file[i].key : i \in 1..N}
  BY <1>17 DEF KeysOf
<1>19. IsFiniteSet(1..N) /\ Cardinality(1..N) = N
  BY <1>2, FS_Interval
<1>20. Cardinality(KeysOf(g)) = N
  <2> DEFINE f == [i \in 1..N |-> file[i].key]
  <2>1. /\ f \in [1..N -> KeysOf(g)] /\ (\A x, y \in 1..N : f[x] = f[y] => x = y)
        /\ \A z \in KeysOf(g) : \E x \in 1..N : f[x] = z
    BY <1>1, <1>2, <1>18
  <2>2. PICK D : D = 1..N
    OBVIOUS
  <2> HIDE DEF f
  <2>3. f \in [D -> KeysOf(g)] /\ IsFiniteSet(D) /\ Cardinality(D) = N
    BY <1>19, <2>1, <2>2
  <2>4. \A x, y \in D : f[x] = f[y] => x = y
    BY <2>1, <2>2
  <2>5. \A z \in KeysOf(g) : \E x \in D : f[x] = z
    BY <2>1, <2>2
  <2> QED BY <2>3, <2>4, <2>5, SameCount
<1>21. ASSUME NEW a \in At
       PROVE  /\ HeldBy(g, a) = Cardinality({i \in 1..N : file[i].key = a})
                                + Cardinality({i \in 1..N : file[i].value = a})
              /\ (HeldBy(g, a) = 0) <=> \A i \in 1..N : file[i].key # a /\ file[i].value # a
  <2> DEFINE K == {i \in 1..N : file[i].key = a}
             V == {i \in 1..N : file[i].value = a}
             f == [i \in V |-> file[i].key]
  <2>1. /\ IsFiniteSet(K) /\ Cardinality(K) \in Nat /\ IsFiniteSet(V) /\ Cardinality(V) \in Nat
    <3>1. K \in SUBSET (1..N) /\ V \in SUBSET (1..N)
      OBVIOUS
    <3> HIDE DEF K, V
    <3> QED BY <1>19, <3>1, FS_Subset, FS_CardinalityType
  <2>2. Cardinality(Under(g, a)) = Cardinality(V)
    <3>1. \A i \in 1..N : file[i] = [key |-> file[i].key, value |-> file[i].value]
      BY <1>2
    <3>2. f \in [V -> Under(g, a)]
      BY <1>2, <1>17, <3>1 DEF Under
    <3>3. \A x, y \in V : f[x] = f[y] => x = y
      BY <1>1, <1>2
    <3>4. ASSUME NEW k \in Under(g, a) PROVE \E x \in V : f[x] = k
      <4>1. [key |-> k, value |-> a] \in Associations(g)
        BY DEF Under
      <4>2. PICK i \in 1..N : file[i] = [key |-> k, value |-> a]
        BY <1>17, <4>1
      <4> QED BY <4>2
    <3> HIDE DEF f, V
    <3> QED BY <2>1, <3>2, <3>3, <3>4, SameCount
  <2>3. Cardinality(K) = IF a \in KeysOf(g) THEN 1 ELSE 0
    <3>1. CASE a \in KeysOf(g)
      <4>1. PICK i \in 1..N : file[i].key = a
        BY <1>18, <3>1
      <4>2. K = {i}
        BY <1>1, <1>2, <4>1
      <4>3. Cardinality({i}) = 1
        BY FS_Singleton
      <4> HIDE DEF K
      <4> QED BY <3>1, <4>2, <4>3
    <3>2. CASE a \notin KeysOf(g)
      <4>1. K = {}
        BY <1>18, <3>2
      <4> HIDE DEF K
      <4> QED BY <3>2, <4>1, FS_EmptySet
    <3> QED BY <3>1, <3>2
  <2>4. HeldBy(g, a) = Cardinality(K) + Cardinality(V)
    <3>1. HeldBy(g, a) = Cardinality(Under(g, a)) + (IF a \in KeysOf(g) THEN 1 ELSE 0)
      BY <1>11 DEF HeldBy
    <3> HIDE DEF K, V
    <3> QED BY <2>1, <2>2, <2>3, <3>1
  <2>5. (HeldBy(g, a) = 0) <=> K = {} /\ V = {}
    <3> HIDE DEF K, V
    <3>1. (Cardinality(K) = 0 <=> K = {}) /\ (Cardinality(V) = 0 <=> V = {})
      BY <2>1, FS_EmptySet
    <3> QED BY <2>1, <2>4, <3>1
  <2> QED BY <2>4, <2>5
<1>22. Loaded(file) = {file[i].key : i \in 1..N} \cup {file[i].value : i \in 1..N}
  <2>1. ToSet(file) = {file[i] : i \in 1..N}
    BY <1>2 DEF ToSet
  <2> QED BY <2>1 DEF Loaded
<1>23. \A e \in Associations(g) : e.key \in Loaded(file) /\ e.value \in Loaded(file)
  BY <1>17, <1>22
<1>24. ASSUME NEW a \in At
       PROVE  HeldBy(g, a) = RefsIn(file, a) /\ ((HeldBy(g, a) = 0) <=> a \notin Loaded(file))
  <2>1. HeldBy(g, a) = RefsIn(file, a)
    BY <1>2, <1>21 DEF RefsIn
  <2>2. (HeldBy(g, a) = 0) <=> \A i \in 1..N : file[i].key # a /\ file[i].value # a
    BY <1>21
  <2> QED BY <1>22, <2>1, <2>2
<1>25. Loaded(file) \in SUBSET Plain
  BY <1>2, <1>22
<1>26. Sound(g)
  BY <1>5, <1>11, <1>15, <1>16 DEF Sound
<1>27. Associations(g) \in SUBSET ToSet(file)
  BY <1>2, <1>17 DEF ToSet
<1> QED BY <1>1, <1>2, <1>11, <1>20, <1>23, <1>24, <1>25, <1>26, <1>27 DEF N

\* What del_finalizers leaves of the records of an object.
LEMMA WithoutProperties ==
  ASSUME NEW s \in Seq(Table), NEW t
  PROVE  /\ Without(s, t) \in Seq(Table)
         /\ \A u : Contains(Without(s, t), u) <=> Contains(s, u) /\ u # t
<1> DEFINE P == {1} \X {i \in DOMAIN s : s[i] # t}
           N == Cardinality(P)
           W == Without(s, t)
<1>1. DOMAIN s = 1..Len(s) /\ Len(s) \in Nat /\ \A i \in 1..Len(s) : s[i] \in Table
  BY LenProperties, ElementOfSeq
<1>2. P \in SUBSET (Nat \X Nat)
  BY <1>1
<1>3. IsFiniteSet(P)
  <2>0. IsFiniteSet(1..Len(s))
    BY <1>1, FS_Interval
  <2>1. IsFiniteSet(1..Len(s)) /\ IsFiniteSet({1})
    BY <2>0, FS_Singleton
  <2>2. IsFiniteSet({1} \X (1..Len(s)))
    BY <2>1, FS_Product
  <2>3. P \in SUBSET ({1} \X (1..Len(s)))
    BY <1>1
  <2> HIDE DEF P
  <2> QED BY <2>2, <2>3, FS_Subset
<1>4. \A p \in P : <<s>>[p[1]][p[2]] = s[p[2]] /\ p[2] \in 1..Len(s) /\ s[p[2]] # t
                   /\ <<s>>[p[1]][p[2]] \in Table
  BY <1>1
<1>5. \A i \in 1..Len(s) : s[i] # t => \E p \in P : p[2] = i
  <2> TAKE i \in 1..Len(s)
  <2> HAVE s[i] # t
  <2>1. <<1, i>> \in P /\ <<1, i>>[2] = i
    BY <1>1
  <2> QED BY <2>1
<1>6. W = Listed(<<s>>, P)
  BY DEF Without
<1> HIDE DEF P
<1>7. /\ N \in Nat
      /\ \A n \in 1..N : InOrder(P)[n] \in P
      /\ \A p \in P : \E n \in 1..N : InOrder(P)[n] = p
  BY <1>2, <1>3, InOrderProperties
<1>8. /\ W \in Seq(Table) /\ Len(W) = N
      /\ \A n \in 1..N : W[n] = <<s>>[InOrder(P)[n][1]][InOrder(P)[n][2]]
  BY <1>2, <1>3, <1>4, <1>6, ListedProperties
<1> HIDE DEF W, N
<1>9. ASSUME NEW u PROVE Contains(W, u) <=> Contains(s, u) /\ u # t
  <2>1. ASSUME Contains(W, u) PROVE Contains(s, u) /\ u # t
    <3>1. PICK n \in 1..N : W[n] = u
      BY <1>8, <2>1 DEF Contains
    <3>2. InOrder(P)[n] \in P /\ u = <<s>>[InOrder(P)[n][1]][InOrder(P)[n][2]]
      BY <1>7, <1>8, <3>1
    <3>3. InOrder(P)[n][2] \in 1..Len(s) /\ u = s[InOrder(P)[n][2]] /\ u # t
      BY <1>4, <3>2
    <3> QED BY <3>3 DEF Contains
  <2>2. ASSUME Contains(s, u), u # t PROVE Contains(W, u)
    <3>1. PICK i \in 1..Len(s) : s[i] = u
      BY <2>2 DEF Contains
    <3>2. PICK p \in P : p[2] = i
      BY <1>5, <2>2, <3>1
    <3>3. PICK n \in 1..N : InOrder(P)[n] = p
      BY <1>7
    <3>4. W[n] = u
      BY <1>4, <1>8, <3>1, <3>2, <3>3
    <3> QED BY <1>8, <3>4 DEF Contains
  <2> QED BY <2>1, <2>2
<1> QED BY <1>8, <1>9 DEF W

-----------------------------------------------------------------------------
(* The stack.                                                              *)

Dooms == {"purge", "dispose"}
Deaths == {"dispose", "zombify"}
Accesses == {"set", "get"}
Removals == {"finalize", "finalized"}

\* Where a task can be, and what it is about: a purge runs at once, the
\* finalizers of an object before the end of its death, a rehash right before
\* the access that started it.
TaskShape(s, i) ==
  LET this == s[i]
      last == Len(s)
  IN  /\ this.do \in Dooms \cup {"unlock"} => this.at \in At
      /\ this.do = "unlock" => this = Unlock(this.at)
      /\ this.do = "purge" => i = 1
      /\ this.do \in {"delete", "zombify"} => this.at \in Mortal /\ i = last
      /\ this.do = "delete" => i = 1
      /\ this.do \in Removals =>
           /\ this.at \in Plain /\ this.table \in Table
           /\ \E j \in (i + 1)..last : s[j].do \in Deaths /\ s[j].at = this.at
      /\ this.do \in Accesses =>
           /\ i = last
           /\ this.table \in Table /\ this.at \in Key /\ this.other \in Value \cup {NIL}
      /\ this.do \in {"rehash", "recompute"} =>
           /\ i = last - 1
           /\ s[last].do \in Accesses /\ s[last].table = this.table
           /\ this.other = NIL
      /\ this.do = "rehash" => i = 1

Shape(s) == s \in Seq(Task) /\ \A i \in 1..Len(s) : TaskShape(s, i)

\* No object dies twice at a time.
DiesOnce(s) ==
  \A i, j \in 1..Len(s) :
    s[i].do \in Dooms /\ s[j].do \in Dooms /\ s[i].at = s[j].at => i = j

\* weak: the tables and keys whose reference is weak.  A key goes from each such
\* table before it is freed or becomes a zombie.
GoFirst(s, weak) ==
  \A i \in 1..Len(s) : s[i].do \in Deaths =>
    \A t \in Table : <<t, s[i].at>> \in weak =>
      \E j \in 1..(i - 1) : s[j] = Do("finalize", s[i].at, t, NIL)

\* The first task replaced by others.
LEMMA ReplacedAt ==
  ASSUME NEW S, NEW s \in Seq(S), s # <<>>, NEW new \in Seq(S)
  PROVE  /\ new \o Tail(s) \in Seq(S)
         /\ Len(s) \in Nat \ {0} /\ Len(new) \in Nat /\ Head(s) = s[1] /\ Head(s) \in S
         /\ DOMAIN s = 1..Len(s) /\ DOMAIN new = 1..Len(new)
         /\ DOMAIN (new \o Tail(s)) = 1..Len(new \o Tail(s))
         /\ Len(new \o Tail(s)) = Len(new) + Len(s) - 1
         /\ \A i \in 1..Len(new) : (new \o Tail(s))[i] = new[i]
         /\ \A i \in 2..Len(s) : (new \o Tail(s))[i + Len(new) - 1] = s[i]
<1>1. /\ Head(s) \in S /\ Tail(s) \in Seq(S) /\ Len(Tail(s)) = Len(s) - 1
      /\ \A i \in 1..Len(Tail(s)) : Tail(s)[i] = s[i + 1]
  BY HeadTailProperties
<1>2. Head(s) = s[1] /\ Len(s) \in Nat \ {0} /\ Len(new) \in Nat
      /\ DOMAIN s = 1..Len(s) /\ DOMAIN new = 1..Len(new)
  BY EmptySeq, LenProperties
<1>3. /\ new \o Tail(s) \in Seq(S) /\ Len(new \o Tail(s)) = Len(new) + Len(Tail(s))
      /\ \A i \in 1..(Len(new) + Len(Tail(s))) :
           (new \o Tail(s))[i] = IF i <= Len(new) THEN new[i] ELSE Tail(s)[i - Len(new)]
  BY <1>1, ConcatProperties
<1> DEFINE u == new \o Tail(s)
<1>4. DOMAIN u = 1..Len(u)
  BY <1>3, LenProperties
<1> HIDE DEF u
<1>5. Len(u) = Len(new) + Len(s) - 1
  BY <1>1, <1>2, <1>3 DEF u
<1>6. ASSUME NEW i \in 1..Len(new) PROVE u[i] = new[i]
  BY <1>1, <1>2, <1>3 DEF u
<1>7. ASSUME NEW i \in 2..Len(s) PROVE u[i + Len(new) - 1] = s[i]
  <2> DEFINE n == i + Len(new) - 1
  <2>1. /\ n \in 1..(Len(new) + Len(Tail(s))) /\ ~(n <= Len(new))
        /\ n - Len(new) = i - 1 /\ i - 1 \in 1..Len(Tail(s)) /\ (i - 1) + 1 = i
    BY <1>1, <1>2
  <2>2. u[n] = Tail(s)[n - Len(new)]
    <3> HIDE DEF n
    <3> QED BY <1>3, <2>1 DEF u
  <2>3. Tail(s)[i - 1] = s[i]
    BY <1>1, <2>1
  <2> QED BY <2>1, <2>2, <2>3
<1> QED BY <1>1, <1>2, <1>3, <1>4, <1>5, <1>6, <1>7 DEF u

\* Each position is one of the new tasks or one of the old ones.
LEMMA ReplacedPositions ==
  ASSUME NEW S, NEW s \in Seq(S), s # <<>>, NEW new \in Seq(S),
         NEW i \in 1..Len(new \o Tail(s))
  PROVE  \/ i \in 1..Len(new) /\ (new \o Tail(s))[i] = new[i]
         \/ \E k \in 2..Len(s) : i = k + Len(new) - 1 /\ (new \o Tail(s))[i] = s[k]
<1>1. /\ Len(s) \in Nat \ {0} /\ Len(new) \in Nat
      /\ Len(new \o Tail(s)) = Len(new) + Len(s) - 1
      /\ \A j \in 1..Len(new) : (new \o Tail(s))[j] = new[j]
      /\ \A j \in 2..Len(s) : (new \o Tail(s))[j + Len(new) - 1] = s[j]
  BY ReplacedAt
<1> DEFINE u == new \o Tail(s)
<1> HIDE DEF u
<1>2. CASE i <= Len(new)
  BY <1>1, <1>2 DEF u
<1>3. CASE ~(i <= Len(new))
  <2>1. i - Len(new) + 1 \in 2..Len(s) /\ i = (i - Len(new) + 1) + Len(new) - 1
    BY <1>1, <1>3 DEF u
  <2>2. PICK k \in 2..Len(s) : k = i - Len(new) + 1
    BY <2>1
  <2>3. i = k + Len(new) - 1
    BY <2>1, <2>2
  <2> QED BY <1>1, <2>3 DEF u
<1> QED BY <1>2, <1>3

\* What the tasks are.
LEMMA ReplacedTasks ==
  ASSUME NEW S, NEW s \in Seq(S), s # <<>>, NEW new \in Seq(S)
  PROVE  /\ ToSet(new \o Tail(s)) = ToSet(new) \cup {s[i] : i \in 2..Len(s)}
         /\ ToSet(s) = {Head(s)} \cup {s[i] : i \in 2..Len(s)}
<1> DEFINE u == new \o Tail(s)
<1>1. /\ Len(s) \in Nat \ {0} /\ Len(new) \in Nat /\ Head(s) = s[1]
      /\ DOMAIN s = 1..Len(s) /\ DOMAIN new = 1..Len(new) /\ DOMAIN u = 1..Len(u)
      /\ Len(u) = Len(new) + Len(s) - 1
      /\ \A j \in 1..Len(new) : u[j] = new[j]
      /\ \A j \in 2..Len(s) : u[j + Len(new) - 1] = s[j]
  BY ReplacedAt
<1>2. \A i \in 1..Len(u) : \/ i \in 1..Len(new) /\ u[i] = new[i]
                           \/ \E k \in 2..Len(s) : i = k + Len(new) - 1 /\ u[i] = s[k]
  BY ReplacedPositions
<1> HIDE DEF u
<1>3. ASSUME NEW d \in ToSet(u) PROVE d \in ToSet(new) \cup {s[i] : i \in 2..Len(s)}
  BY <1>1, <1>2 DEF ToSet
<1>4. ASSUME NEW d \in ToSet(new) PROVE d \in ToSet(u)
  <2>1. PICK j \in 1..Len(new) : d = new[j]
    BY <1>1 DEF ToSet
  <2>2. j \in 1..Len(u)
    BY <1>1, <2>1
  <2> QED BY <1>1, <2>1, <2>2 DEF ToSet
<1>5. ASSUME NEW j \in 2..Len(s) PROVE s[j] \in ToSet(u)
  <2>1. j + Len(new) - 1 \in 1..Len(u)
    BY <1>1
  <2> QED BY <1>1, <2>1 DEF ToSet
<1>6. ToSet(s) = {Head(s)} \cup {s[i] : i \in 2..Len(s)}
  <2>1. \A i \in 1..Len(s) : i = 1 \/ i \in 2..Len(s)
    BY <1>1
  <2>2. 1 \in 1..Len(s) /\ \A i \in 2..Len(s) : i \in 1..Len(s)
    BY <1>1
  <2> QED BY <1>1, <2>1, <2>2 DEF ToSet
<1> QED BY <1>3, <1>4, <1>5, <1>6 DEF u

\* What may take the place of the first task.
NewTask(s, new, j) ==
  LET this == new[j]
  IN  /\ this.do \in {"unlock", "purge", "dispose", "finalize", "finalized", "zombify", "recompute"}
      /\ this.do \in Dooms \cup {"unlock"} => this.at \in At
      /\ this.do = "unlock" => this = Unlock(this.at)
      /\ this.do = "purge" => j = 1
      /\ this.do = "zombify" => this.at \in Mortal /\ j = Len(new) /\ Len(s) = 1
      /\ this.do \in Removals =>
           /\ this.at \in Plain /\ this.table \in Table
           /\ \/ \E k \in (j + 1)..Len(new) : new[k].do \in Deaths /\ new[k].at = this.at
              \/ \E k \in 2..Len(s) : s[k].do \in Deaths /\ s[k].at = this.at
      /\ this.do = "recompute" =>
           /\ j = Len(new) /\ Len(s) = 2
           /\ s[2].do \in Accesses /\ s[2].table = this.table
           /\ this.other = NIL

LEMMA ShapeKept ==
  ASSUME NEW s, Shape(s), s # <<>>, NEW new \in Seq(Task),
         \A j \in 1..Len(new) : NewTask(s, new, j)
  PROVE  Shape(new \o Tail(s))
<1> DEFINE u == new \o Tail(s)
<1>1. s \in Seq(Task) /\ \A i \in 1..Len(s) : TaskShape(s, i)
  BY DEF Shape
<1>2. /\ u \in Seq(Task)
      /\ Len(s) \in Nat \ {0} /\ Len(new) \in Nat
      /\ Len(u) = Len(new) + Len(s) - 1
      /\ \A j \in 1..Len(new) : u[j] = new[j]
      /\ \A j \in 2..Len(s) : u[j + Len(new) - 1] = s[j]
  BY <1>1, ReplacedAt
<1>3. \A i \in 1..Len(u) : \/ i \in 1..Len(new) /\ u[i] = new[i]
                           \/ \E k \in 2..Len(s) : i = k + Len(new) - 1 /\ u[i] = s[k]
  <2>1. s \in Seq(Task)
    BY <1>1
  <2> QED BY <2>1, ReplacedPositions
<1> HIDE DEF u
<1>4. ASSUME NEW i \in 1..Len(new) PROVE TaskShape(u, i)
  <2>1. NewTask(s, new, i) /\ u[i] = new[i]
    BY <1>2
  <2>2. ASSUME new[i].do \in Removals
        PROVE  \E j \in (i + 1)..Len(u) : u[j].do \in Deaths /\ u[j].at = new[i].at
    <3>1. CASE \E k \in (i + 1)..Len(new) : new[k].do \in Deaths /\ new[k].at = new[i].at
      <4>1. PICK k \in (i + 1)..Len(new) : new[k].do \in Deaths /\ new[k].at = new[i].at
        BY <3>1
      <4>2. k \in (i + 1)..Len(u) /\ k \in 1..Len(new)
        BY <1>2, <4>1
      <4> QED BY <1>2, <4>1, <4>2
    <3>2. CASE \E k \in 2..Len(s) : s[k].do \in Deaths /\ s[k].at = new[i].at
      <4>1. PICK k \in 2..Len(s) : s[k].do \in Deaths /\ s[k].at = new[i].at
        BY <3>2
      <4>2. k + Len(new) - 1 \in (i + 1)..Len(u) /\ u[k + Len(new) - 1] = s[k]
        BY <1>2, <4>1
      <4> QED BY <4>1, <4>2
    <3> QED BY <2>1, <2>2, <3>1, <3>2 DEF NewTask
  <2>3. ASSUME new[i].do = "zombify" PROVE i = Len(u)
    <3>1. i = Len(new) /\ Len(s) = 1
      BY <2>1, <2>3 DEF NewTask
    <3> QED BY <1>2, <3>1
  <2>4. ASSUME new[i].do = "recompute"
        PROVE  i = Len(u) - 1 /\ u[Len(u)].do \in Accesses /\ u[Len(u)].table = new[i].table
    <3>1. i = Len(new) /\ Len(s) = 2
      BY <2>1, <2>4 DEF NewTask
    <3>2. 2 \in 2..Len(s) /\ 2 + Len(new) - 1 = Len(u) /\ i = Len(u) - 1
      BY <1>2, <3>1
    <3>3. u[Len(u)] = s[2]
      BY <1>2, <3>2
    <3> QED BY <2>1, <2>4, <3>2, <3>3 DEF NewTask
  <2> QED BY <2>1, <2>2, <2>3, <2>4 DEF NewTask, TaskShape, Dooms, Removals, Accesses
<1>5. ASSUME NEW k \in 2..Len(s), NEW i \in 1..Len(u), i = k + Len(new) - 1 PROVE TaskShape(u, i)
  <2>1. TaskShape(s, k) /\ u[i] = s[k] /\ k # 1
    <3>1. k \in 1..Len(s)
      BY <1>2
    <3> QED BY <1>1, <1>2, <1>5, <3>1
  <2>2. s[k].do \notin {"purge", "delete", "rehash"}
    BY <2>1 DEF TaskShape
  <2>3. ASSUME k = Len(s) PROVE i = Len(u)
    BY <1>2, <1>5, <2>3
  <2>4. ASSUME NEW n \in (k + 1)..Len(s)
        PROVE  n + Len(new) - 1 \in (i + 1)..Len(u) /\ u[n + Len(new) - 1] = s[n]
    <3>1. n \in 2..Len(s)
      BY <1>2
    <3>2. n + Len(new) - 1 \in (i + 1)..Len(u)
      BY <1>2, <1>5, <3>1
    <3>3. u[n + Len(new) - 1] = s[n]
      BY <1>2, <3>1
    <3> QED BY <3>2, <3>3
  <2>5. ASSUME s[k].do \in Removals
        PROVE  \E j \in (i + 1)..Len(u) : u[j].do \in Deaths /\ u[j].at = s[k].at
    <3>1. PICK n \in (k + 1)..Len(s) : s[n].do \in Deaths /\ s[n].at = s[k].at
      BY <2>1, <2>5 DEF TaskShape
    <3> QED BY <2>4, <3>1
  <2>6. ASSUME s[k].do = "recompute"
        PROVE  i = Len(u) - 1 /\ u[Len(u)].do \in Accesses /\ u[Len(u)].table = s[k].table
    <3>1. k = Len(s) - 1 /\ s[Len(s)].do \in Accesses /\ s[Len(s)].table = s[k].table
      BY <2>1, <2>6 DEF TaskShape
    <3>2. Len(s) \in (k + 1)..Len(s) /\ Len(s) + Len(new) - 1 = Len(u) /\ i = Len(u) - 1
      BY <1>2, <1>5, <3>1
    <3>3. u[Len(u)] = s[Len(s)]
      BY <2>4, <3>2
    <3> QED BY <3>1, <3>2, <3>3
  <2> QED BY <2>1, <2>2, <2>3, <2>5, <2>6 DEF TaskShape, Dooms, Removals, Accesses
<1>6. ASSUME NEW i \in 1..Len(u) PROVE TaskShape(u, i)
  BY <1>3, <1>4, <1>5
<1> QED BY <1>2, <1>6 DEF Shape, u

LEMMA DiesOnceKept ==
  ASSUME NEW s \in Seq(Task), DiesOnce(s), s # <<>>, NEW new \in Seq(Task),
         DiesOnce(new),
         \A j \in 1..Len(new) : new[j].do \in Dooms =>
           \A k \in 2..Len(s) : s[k].do \in Dooms => s[k].at # new[j].at
  PROVE  DiesOnce(new \o Tail(s))
<1> DEFINE u == new \o Tail(s)
<1>1. Len(s) \in Nat \ {0} /\ Len(new) \in Nat
  BY ReplacedAt
<1>2. \A i \in 1..Len(u) : \/ i \in 1..Len(new) /\ u[i] = new[i]
                           \/ \E k \in 2..Len(s) : i = k + Len(new) - 1 /\ u[i] = s[k]
  BY ReplacedPositions
<1> HIDE DEF u
<1>3. ASSUME NEW i \in 1..Len(u), NEW j \in 1..Len(u),
             u[i].do \in Dooms, u[j].do \in Dooms, u[i].at = u[j].at
      PROVE  i = j
  <2>1. CASE i \in 1..Len(new) /\ u[i] = new[i] /\ j \in 1..Len(new) /\ u[j] = new[j]
    BY <1>3, <2>1 DEF DiesOnce
  <2>2. CASE i \in 1..Len(new) /\ u[i] = new[i] /\ \E k \in 2..Len(s) : u[j] = s[k]
    BY <1>3, <2>2
  <2>3. CASE j \in 1..Len(new) /\ u[j] = new[j] /\ \E k \in 2..Len(s) : u[i] = s[k]
    BY <1>3, <2>3
  <2>4. ASSUME NEW k \in 2..Len(s), i = k + Len(new) - 1, u[i] = s[k],
               NEW l \in 2..Len(s), j = l + Len(new) - 1, u[j] = s[l]
        PROVE  i = j
    <3>1. k \in 1..Len(s) /\ l \in 1..Len(s)
      BY <1>1
    <3>2. k = l
      BY <1>3, <2>4, <3>1 DEF DiesOnce
    <3> QED BY <2>4, <3>2
  <2> QED BY <1>2, <2>1, <2>2, <2>3, <2>4
<1> QED BY <1>3 DEF DiesOnce, u

LEMMA GoFirstKept ==
  ASSUME NEW s \in Seq(Task), NEW weak, GoFirst(s, weak), s # <<>>, NEW new \in Seq(Task),
         NEW later,
         \A k \in 2..Len(s) : s[k].do \in Deaths =>
           \A t \in Table : <<t, s[k].at>> \in later => <<t, s[k].at>> \in weak,
         \A k, t : Head(s) = Do("finalize", k, t, NIL) /\ <<t, k>> \in later =>
           \E i \in 1..Len(new) : new[i] = Do("finalize", k, t, NIL),
         GoFirst(new, later)
  PROVE  GoFirst(new \o Tail(s), later)
<1> DEFINE u == new \o Tail(s)
<1>1. /\ Len(s) \in Nat \ {0} /\ Len(new) \in Nat /\ Head(s) = s[1]
      /\ Len(u) = Len(new) + Len(s) - 1
      /\ \A j \in 1..Len(new) : u[j] = new[j]
      /\ \A j \in 2..Len(s) : u[j + Len(new) - 1] = s[j]
  BY ReplacedAt
<1>2. \A i \in 1..Len(u) : \/ i \in 1..Len(new) /\ u[i] = new[i]
                           \/ \E k \in 2..Len(s) : i = k + Len(new) - 1 /\ u[i] = s[k]
  BY ReplacedPositions
<1> HIDE DEF u
<1>3. ASSUME NEW i \in 1..Len(u), u[i].do \in Deaths, NEW t \in Table, <<t, u[i].at>> \in later
      PROVE  \E j \in 1..(i - 1) : u[j] = Do("finalize", u[i].at, t, NIL)
  <2>1. CASE i \in 1..Len(new) /\ u[i] = new[i]
    <3>1. PICK j \in 1..(i - 1) : new[j] = Do("finalize", u[i].at, t, NIL)
      BY <1>3, <2>1 DEF GoFirst
    <3>2. j \in 1..Len(new)
      BY <1>1, <2>1, <3>1
    <3> QED BY <1>1, <3>1, <3>2
  <2>2. ASSUME NEW k \in 2..Len(s), i = k + Len(new) - 1, u[i] = s[k]
        PROVE  \E j \in 1..(i - 1) : u[j] = Do("finalize", u[i].at, t, NIL)
    <3>1. k \in 1..Len(s) /\ <<t, s[k].at>> \in weak
      BY <1>1, <1>3, <2>2
    <3>2. PICK j \in 1..(k - 1) : s[j] = Do("finalize", s[k].at, t, NIL)
      BY <1>3, <2>2, <3>1 DEF GoFirst
    <3>3. CASE j = 1
      <4>1. PICK n \in 1..Len(new) : new[n] = Do("finalize", s[k].at, t, NIL)
        BY <1>1, <1>3, <2>2, <3>2, <3>3
      <4>2. n \in 1..(i - 1)
        BY <1>1, <2>2, <4>1
      <4> QED BY <1>1, <2>2, <4>1, <4>2
    <3>4. CASE j # 1
      <4>1. j \in 2..Len(s) /\ j + Len(new) - 1 \in 1..(i - 1)
        BY <1>1, <2>2, <3>2, <3>4
      <4>2. u[j + Len(new) - 1] = s[j]
        BY <1>1, <4>1
      <4> QED BY <2>2, <3>2, <4>1, <4>2
    <3> QED BY <3>3, <3>4
  <2> QED BY <1>2, <2>1, <2>2
<1> QED BY <1>3 DEF GoFirst, u

\* Few tasks, and none of some kind.
LEMMA OccurrencesNone ==
  ASSUME NEW s, NEW X, \A i \in DOMAIN s : s[i] \notin X
  PROVE  Occurrences(s, X) = 0
<1>1. {i \in DOMAIN s : s[i] \in X} = {}
  OBVIOUS
<1> QED BY <1>1, FS_EmptySet DEF Occurrences

LEMMA OccurrencesTwo ==
  ASSUME NEW S, NEW x \in S, NEW y \in S, NEW X
  PROVE  Occurrences(<<x, y>>, X) = (IF x \in X THEN 1 ELSE 0) + (IF y \in X THEN 1 ELSE 0)
<1>1. /\ <<x>> \in Seq(S) /\ <<y>> \in Seq(S) /\ <<x, y>> \in Seq(S)
      /\ Len(<<x>>) = 1 /\ <<x>>[1] = x /\ Len(<<y>>) = 1 /\ <<y>>[1] = y
      /\ Len(<<x, y>>) = 2 /\ <<x, y>>[1] = x /\ <<x, y>>[2] = y
  OBVIOUS
<1> DEFINE s == <<x>>
           t == <<y>>
           u == <<x, y>>
<1> HIDE DEF s, t, u
<1>2. /\ s \o t \in Seq(S) /\ Len(s \o t) = Len(s) + Len(t)
      /\ \A i \in 1..(Len(s) + Len(t)) :
           (s \o t)[i] = IF i <= Len(s) THEN s[i] ELSE t[i - Len(s)]
  BY <1>1, ConcatProperties DEF s, t
<1>3. Len(s \o t) = Len(u) /\ \A i \in 1..Len(s \o t) : (s \o t)[i] = u[i]
  <2>1. 1..2 = {1, 2} /\ Len(s) = 1 /\ Len(t) = 1 /\ Len(u) = 2
    BY <1>1 DEF s, t, u
  <2>2. u[1] = x /\ u[2] = y /\ s[1] = x /\ t[1] = y
    BY <1>1 DEF s, t, u
  <2> QED BY <1>2, <2>1, <2>2
<1>4. s \o t = u
  BY <1>1, <1>2, <1>3, SeqEqual DEF u
<1>5. Occurrences(s \o t, X) = Occurrences(s, X) + Occurrences(t, X)
  BY <1>1, OccurrencesConcat DEF s, t
<1> QED BY <1>4, <1>5, OccurrencesOne DEF s, t, u

\* An element of the sequence is counted.
LEMMA OccurrencesSome ==
  ASSUME NEW S, NEW s \in Seq(S), NEW X
  PROVE  Occurrences(s, X) # 0 <=> \E d \in ToSet(s) : d \in X
<1> DEFINE P == {i \in DOMAIN s : s[i] \in X}
<1>1. IsFiniteSet(P)
  BY OccurrencesType
<1>2. Occurrences(s, X) = Cardinality(P)
  BY DEF Occurrences
<1>3. P # {} <=> \E d \in ToSet(s) : d \in X
  BY DEF ToSet
<1> HIDE DEF P
<1>4. Cardinality(P) = 0 <=> P = {}
  BY <1>1, FS_EmptySet
<1> QED BY <1>2, <1>3, <1>4

\* Who dies, after the first task is replaced.
DoomedIn(s, a) == \E d \in ToSet(s) : d.at = a /\ d.do \in Dooms

LEMMA DoomedReplaced ==
  ASSUME NEW s \in Seq(Task), DiesOnce(s), s # <<>>, NEW new \in Seq(Task), NEW a
  PROVE  DoomedIn(new \o Tail(s), a) <=>
           \/ DoomedIn(new, a)
           \/ DoomedIn(s, a) /\ ~(Head(s).do \in Dooms /\ Head(s).at = a)
<1>1. /\ ToSet(new \o Tail(s)) = ToSet(new) \cup {s[i] : i \in 2..Len(s)}
      /\ ToSet(s) = {Head(s)} \cup {s[i] : i \in 2..Len(s)}
  BY ReplacedTasks
<1>2. Len(s) \in Nat \ {0} /\ Head(s) = s[1]
  BY ReplacedAt
<1>3. ASSUME Head(s).do \in Dooms, Head(s).at = a, NEW i \in 2..Len(s),
             s[i].at = a, s[i].do \in Dooms
      PROVE  FALSE
  <2>1. i \in 1..Len(s) /\ 1 \in 1..Len(s) /\ i # 1
    BY <1>2
  <2> QED BY <1>2, <1>3, <2>1 DEF DiesOnce
<1> QED BY <1>1, <1>3 DEF DoomedIn

-----------------------------------------------------------------------------
(* The invariant.                                                          *)

\* What is deleted is not a value, nor anything in a file.
DeletedNotStored ==
  \A a \in Mortal :
    /\ a \notin Value
    /\ \A file \in File : \A i \in DOMAIN file : a # file[i].key /\ a # file[i].value

TypesOK ==
  /\ status \in [At -> {"free", "live", "zombie"}]
  /\ count \in [At -> Nat] /\ held \in [At -> 0..MaxHeld]
  /\ flagged \in SUBSET Plain
  /\ finalizers \in [Plain -> Seq(Table)]
  /\ wild \in BOOLEAN

\* A structure is sound, and its counter and size are right while n elements
\* are being removed.
TableOK(h, n) ==
  /\ Sound(h)
  /\ h # Gone => /\ h.size >= 2
                 /\ h.nelems = Cardinality(KeysOf(h)) + n
                 /\ 3 * (h.nelems - 1) <= 2 * h.size

RemovalsOf(t) == {d \in Task : d.do = "finalized" /\ d.table = t}

TablesOK ==
  /\ DOMAIN htable = Table
  /\ \A t \in Table : /\ TableOK(htable[t], Occurrences(todo, RemovalsOf(t)))
                      /\ status[t] = "free" => htable[t] = Gone

CountsOK ==
  \A a \in At :
    /\ count[a] = held[a] + Occurrences(todo, {Unlock(a)}) + HeldByTables(htable, a)
    /\ (count[a] = 0) <=> (status[a] = "free" \/ DoomedIn(todo, a))

\* What tables contain lives, and a deleted object is nothing they hold.
ContentsLive ==
  /\ \A a \in At : status[a] = "zombie" => a \in Mortal
  /\ \A t \in Table : \A e \in Associations(htable[t]) :
       /\ status[e.key] = "live"
       /\ e.value \notin Mortal
       /\ htable[t].keylockp => e.key \notin Mortal

WeakIn(ht) == {r \in Table \X Plain : ~ht[r[1]].keylockp /\ r[2] \in KeysOf(ht[r[1]])}

KeysRegistered ==
  \A t \in Table, k \in Plain : <<t, k>> \in WeakIn(htable) =>
    \/ k \in flagged /\ Contains(finalizers[k], t)
    \/ Do("finalize", k, t, NIL) \in ToSet(todo)

\* A table that holds its keys awaits its rehash; nothing is registered for it.
LockedTables ==
  /\ \A t \in Table : htable[t].keylockp =>
       /\ htable[t].rehashp
       /\ \A k \in Plain : ~Contains(finalizers[k], t)
       /\ \A d \in ToSet(todo) : d.do \in Removals => d.table # t
  /\ \A t \in Table, k \in Plain : Contains(finalizers[k], t) => htable[t] # Gone

\* What the tasks rely on when their turn comes: lisp code holds the objects it
\* works on.
Needs ==
  \A d \in ToSet(todo) :
    /\ d.do \in {"delete", "zombify"} => held[d.at] > 0
    /\ d.do \in Accesses =>
         /\ held[d.table] > 0 /\ htable[d.table] # Gone
         /\ held[d.at] > 0
         /\ d.do = "set" => status[d.at] # "zombie"
         /\ d.other # NIL => held[d.other] > 0
         /\ htable[d.table].keylockp => Head(todo).do = "rehash"

IInv ==
  /\ TypesOK /\ TablesOK /\ CountsOK /\ ContentsLive
  /\ KeysRegistered /\ LockedTables /\ Needs
  /\ Shape(todo) /\ DiesOnce(todo) /\ GoFirst(todo, WeakIn(htable))

LEMMA TaskAts ==
  ASSUME NEW s, Shape(s), NEW d \in ToSet(s)
  PROVE  /\ d \in Task
         /\ d.do \in Dooms \cup {"unlock"} => d.at \in At
         /\ d.do = "unlock" => d = Unlock(d.at)
         /\ d.do \in {"delete", "zombify"} => d.at \in Mortal
         /\ d.do \in Removals => d.at \in Plain /\ d.table \in Table
         /\ d.do \in Accesses =>
              d.table \in Table /\ d.at \in Key /\ d.other \in Value \cup {NIL}
<1>1. s \in Seq(Task) /\ DOMAIN s = 1..Len(s) /\ \A i \in 1..Len(s) : s[i] \in Task /\ TaskShape(s, i)
  BY LenProperties, ElementOfSeq DEF Shape
<1>2. PICK i \in 1..Len(s) : d = s[i]
  BY <1>1 DEF ToSet
<1>3. TaskShape(s, i) /\ s[i] \in Task
  BY <1>1
<1> QED BY <1>2, <1>3 DEF TaskShape

\* The head of the stack.
LEMMA HeadTask ==
  ASSUME NEW s, Shape(s), s # <<>>
  PROVE  /\ s \in Seq(Task) /\ Head(s) = s[1] /\ Len(s) \in Nat \ {0} /\ Head(s) \in ToSet(s)
         /\ Head(s) \in Task /\ TaskShape(s, 1)
<1>1. s \in Seq(Task) /\ \A i \in 1..Len(s) : TaskShape(s, i)
  BY DEF Shape
<1>2. Head(s) = s[1] /\ Len(s) \in Nat \ {0} /\ Head(s) \in Task
  BY <1>1, ReplacedAt
<1>3. ToSet(s) = {Head(s)} \cup {s[i] : i \in 2..Len(s)}
  BY <1>1, ReplacedTasks
<1> QED BY <1>1, <1>2, <1>3

LEMMA NilNotAt ==
  /\ NIL \notin At /\ NIL \notin Plain /\ NIL \notin Table
  /\ Plain \in SUBSET At /\ Table \in SUBSET At /\ Key \in SUBSET Plain
  /\ Mortal \in SUBSET Plain /\ Value \in SUBSET At
  /\ \A a \in Plain : a \notin Table
BY HtableAssumption DEF At

LEMMA UnlockEqual ==
  \A a, b : /\ Unlock(a) = Unlock(b) <=> a = b
            /\ Unlock(a).do = "unlock" /\ Unlock(a).at = a
            /\ Unlock(a).table = NIL /\ Unlock(a).other = NIL
BY DEF Unlock, Do

LEMMA DoTask ==
  ASSUME NEW do \in {"unlock", "purge", "delete", "dispose", "zombify", "finalize",
                     "finalized", "rehash", "recompute", "set", "get"},
         NEW a \in At \cup {NIL}, NEW t \in Table \cup {NIL}, NEW o \in At \cup {NIL}
  PROVE  /\ Do(do, a, t, o) \in Task
         /\ Do(do, a, t, o).do = do /\ Do(do, a, t, o).at = a
         /\ Do(do, a, t, o).table = t /\ Do(do, a, t, o).other = o
BY DEF Do, Task

LEMMA FiniteTables ==
  IsFiniteSet(Table) /\ IsFiniteSet(Table \X Plain)
<1>1. Table \in SUBSET At
  BY DEF At
<1>2. IsFiniteSet(Table)
  BY <1>1, HtableAssumption, FS_Subset
<1> QED BY <1>2, HeldByType, FS_Product

LEMMA HeldByTablesType ==
  ASSUME NEW ht, NEW a
  PROVE  HeldByTables(ht, a) \in Nat
<1>1. IsFiniteSet(Table) /\ IsFiniteSet(Table \X Plain)
  BY FiniteTables
<1> DEFINE R == {r \in Table \X Plain : [key |-> r[2], value |-> a] \in Associations(ht[r[1]])}
           L == {t \in Table : ht[t].keylockp /\ a \in KeysOf(ht[t])}
<1>2. R \in SUBSET (Table \X Plain) /\ L \in SUBSET Table
  OBVIOUS
<1>3. HeldByTables(ht, a) = Cardinality(R) + Cardinality(L)
  BY DEF HeldByTables
<1> HIDE DEF R, L
<1>4. Cardinality(R) \in Nat /\ Cardinality(L) \in Nat
  BY <1>1, <1>2, FS_Subset, FS_CardinalityType
<1> QED BY <1>3, <1>4

-----------------------------------------------------------------------------
(* What most steps keep.                                                   *)

LEMMA WildKeeps ==
  ASSUME IInv, wild' = TRUE, UNCHANGED <<objects, finalizers, htable, todo>>
  PROVE  IInv'
<1> USE DEF objects
<1>1. TypesOK'
  BY DEF IInv, TypesOK
<1>2. TablesOK' /\ CountsOK' /\ ContentsLive' /\ KeysRegistered' /\ LockedTables' /\ Needs'
  BY DEF IInv, TablesOK, CountsOK, ContentsLive, KeysRegistered, LockedTables, Needs
<1>3. Shape(todo)' /\ DiesOnce(todo)' /\ GoFirst(todo, WeakIn(htable))'
  BY DEF IInv
<1> QED BY <1>1, <1>2, <1>3 DEF IInv

\* The first task replaced by others: what is on the stack then.
LEMMA StackStep ==
  ASSUME NEW s, Shape(s), DiesOnce(s), s # <<>>, NEW new \in Seq(Task),
         NEW u, u = new \o Tail(s)
  PROVE  /\ s \in Seq(Task) /\ u \in Seq(Task)
         /\ \A X : /\ Occurrences(u, X) = Occurrences(new, X) + Occurrences(s, X)
                                          - (IF Head(s) \in X THEN 1 ELSE 0)
                   /\ Occurrences(u, X) \in Nat /\ Occurrences(s, X) \in Nat
                   /\ Occurrences(new, X) \in Nat
         /\ ToSet(u) = ToSet(new) \cup {s[i] : i \in 2..Len(s)}
         /\ ToSet(s) = {Head(s)} \cup {s[i] : i \in 2..Len(s)}
         /\ \A a : DoomedIn(u, a) <=> \/ DoomedIn(new, a)
                                      \/ DoomedIn(s, a) /\ ~(Head(s).do \in Dooms /\ Head(s).at = a)
<1>1. s \in Seq(Task) /\ u \in Seq(Task)
  BY ReplacedAt DEF Shape
<1>2. ASSUME NEW X
      PROVE  /\ Occurrences(u, X) = Occurrences(new, X) + Occurrences(s, X)
                                    - (IF Head(s) \in X THEN 1 ELSE 0)
             /\ Occurrences(u, X) \in Nat /\ Occurrences(s, X) \in Nat
             /\ Occurrences(new, X) \in Nat
  <2>1. Occurrences(u, X) = Occurrences(new, X) + Occurrences(s, X)
                            - (IF Head(s) \in X THEN 1 ELSE 0)
    BY <1>1, OccurrencesReplace
  <2>2. /\ Occurrences(u, X) \in Nat /\ Occurrences(s, X) \in Nat
        /\ Occurrences(new, X) \in Nat
    BY <1>1, OccurrencesType
  <2> QED BY <2>1, <2>2
<1>3. /\ ToSet(u) = ToSet(new) \cup {s[i] : i \in 2..Len(s)}
      /\ ToSet(s) = {Head(s)} \cup {s[i] : i \in 2..Len(s)}
  BY <1>1, ReplacedTasks
<1>4. \A a : DoomedIn(u, a) <=> \/ DoomedIn(new, a)
                                \/ DoomedIn(s, a) /\ ~(Head(s).do \in Dooms /\ Head(s).at = a)
  BY <1>1, DoomedReplaced
<1> QED BY <1>1, <1>2, <1>3, <1>4

LEMMA NextStack ==
  ASSUME IInv, todo # <<>>, NEW new \in Seq(Task), todo' = new \o Tail(todo)
  PROVE  /\ Shape(todo) /\ DiesOnce(todo) /\ GoFirst(todo, WeakIn(htable))
         /\ todo \in Seq(Task) /\ todo' \in Seq(Task)
         /\ \A X : /\ Occurrences(todo', X) = Occurrences(new, X) + Occurrences(todo, X)
                                              - (IF Head(todo) \in X THEN 1 ELSE 0)
                   /\ Occurrences(todo', X) \in Nat /\ Occurrences(todo, X) \in Nat
                   /\ Occurrences(new, X) \in Nat
         /\ ToSet(todo') = ToSet(new) \cup {todo[i] : i \in 2..Len(todo)}
         /\ ToSet(todo) = {Head(todo)} \cup {todo[i] : i \in 2..Len(todo)}
         /\ \A a : DoomedIn(todo', a) <=>
                   \/ DoomedIn(new, a)
                   \/ DoomedIn(todo, a) /\ ~(Head(todo).do \in Dooms /\ Head(todo).at = a)
<1>1. Shape(todo) /\ DiesOnce(todo) /\ GoFirst(todo, WeakIn(htable))
  BY DEF IInv
<1>2. PICK u : u = todo' /\ u = new \o Tail(todo)
  OBVIOUS
<1>3. /\ todo \in Seq(Task) /\ u \in Seq(Task)
      /\ \A X : /\ Occurrences(u, X) = Occurrences(new, X) + Occurrences(todo, X)
                                          - (IF Head(todo) \in X THEN 1 ELSE 0)
                /\ Occurrences(u, X) \in Nat /\ Occurrences(todo, X) \in Nat
                /\ Occurrences(new, X) \in Nat
      /\ ToSet(u) = ToSet(new) \cup {todo[i] : i \in 2..Len(todo)}
      /\ ToSet(todo) = {Head(todo)} \cup {todo[i] : i \in 2..Len(todo)}
      /\ \A a : DoomedIn(u, a) <=>
                \/ DoomedIn(new, a)
                \/ DoomedIn(todo, a) /\ ~(Head(todo).do \in Dooms /\ Head(todo).at = a)
  BY <1>1, <1>2, StackStep
<1> QED BY <1>1, <1>2, <1>3

LEMMA NeedsKept ==
  ASSUME IInv, todo # <<>>, NEW new \in Seq(Task), todo' = new \o Tail(todo),
         \A d \in ToSet(new) : d.do \notin Accesses \cup {"delete", "zombify"},
         Head(todo).do # "rehash",
         held' = held,
         \A a \in At : status'[a] = "zombie" => status[a] = "zombie",
         \A t \in Table : /\ held[t] > 0 /\ htable[t] # Gone => htable'[t] # Gone
                          /\ htable'[t].keylockp => htable[t].keylockp
  PROVE  Needs'
<1>1. /\ ToSet(todo') = ToSet(new) \cup {todo[i] : i \in 2..Len(todo)}
      /\ ToSet(todo) = {Head(todo)} \cup {todo[i] : i \in 2..Len(todo)}
  BY NextStack
<1>2. ASSUME NEW d \in ToSet(todo'), d.do \in Accesses \cup {"delete", "zombify"}
      PROVE  /\ d \in ToSet(todo)
             /\ d.do \in Accesses => /\ d.table \in Table /\ ~htable[d.table].keylockp
                                    /\ d.at \in At
  <2>1. d \in ToSet(todo)
    BY <1>1, <1>2
  <2>2. d.do \in Accesses => d.table \in Table /\ d.at \in At
    BY <2>1, TaskAts, NilNotAt DEF IInv
  <2>3. d.do \in Accesses => ~htable[d.table].keylockp
    BY <2>1 DEF IInv, Needs
  <2> QED BY <2>1, <2>2, <2>3
<1> QED BY <1>2 DEF IInv, Needs

LEMMA RegisteredKept ==
  ASSUME IInv, todo # <<>>, NEW new \in Seq(Task), todo' = new \o Tail(todo),
         flagged' = flagged, finalizers' = finalizers,
         WeakIn(htable)' \in SUBSET WeakIn(htable),
         \A t \in Table, k \in Plain :
           Head(todo) = Do("finalize", k, t, NIL) /\ <<t, k>> \in WeakIn(htable)' =>
             Do("finalize", k, t, NIL) \in ToSet(new)
  PROVE  KeysRegistered'
<1>1. /\ ToSet(todo') = ToSet(new) \cup {todo[i] : i \in 2..Len(todo)}
      /\ ToSet(todo) = {Head(todo)} \cup {todo[i] : i \in 2..Len(todo)}
  BY NextStack
<1>2. ASSUME NEW t \in Table, NEW k \in Plain, <<t, k>> \in WeakIn(htable)'
      PROVE  \/ k \in flagged /\ Contains(finalizers[k], t)
             \/ Do("finalize", k, t, NIL) \in ToSet(todo')
  BY <1>1, <1>2 DEF IInv, KeysRegistered
<1> QED BY <1>2 DEF KeysRegistered

LEMMA LockedKept ==
  ASSUME IInv, todo # <<>>, NEW new \in Seq(Task), todo' = new \o Tail(todo),
         finalizers' = finalizers,
         \A t \in Table : /\ htable'[t].keylockp => htable[t].keylockp /\ htable'[t].rehashp
                          /\ htable[t] # Gone => htable'[t] # Gone,
         \A d \in ToSet(new) : d.do \in Removals =>
           \A t \in Table : htable'[t].keylockp => d.table # t
  PROVE  LockedTables'
<1>1. /\ ToSet(todo') = ToSet(new) \cup {todo[i] : i \in 2..Len(todo)}
      /\ ToSet(todo) = {Head(todo)} \cup {todo[i] : i \in 2..Len(todo)}
  BY NextStack
<1> QED BY <1>1 DEF IInv, LockedTables

-----------------------------------------------------------------------------
(* The steps.                                                              *)

LEMMA UnlockKeeps ==
  ASSUME IInv, RunUnlock
  PROVE  IInv'
<1>1. CASE TouchesFreed(status[task.at] = "free")
  BY <1>1, WildKeeps DEF TouchesFreed
<1>2. CASE /\ status[task.at] # "free"
           /\ UNLOCK(task.at, Tail(todo))
           /\ UNCHANGED <<status, flagged, held, finalizers, htable, wild>>
  <2> DEFINE a == task.at
             new == IF count[a] = 1 THEN <<Do("purge", a, NIL, NIL)>> ELSE <<>>
  <2>1. todo # <<>> /\ Head(todo).do = "unlock" /\ Shape(todo) /\ DiesOnce(todo)
        /\ GoFirst(todo, WeakIn(htable))
    BY DEF RunUnlock, Running, IInv
  <2>2. a \in At /\ Head(todo) = Unlock(a)
    BY <2>1, HeadTask, TaskAts DEF task
  <2>3. todo' = new \o Tail(todo) /\ count' = [count EXCEPT ![a] = @ - 1]
    BY <1>2 DEF UNLOCK
  <2>4. /\ new \in Seq(Task)
        /\ \A i \in 1..Len(new) : i = 1 /\ Len(new) = 1 /\ new[i] = Do("purge", a, NIL, NIL)
                                  /\ count[a] = 1
        /\ ToSet(new) = IF count[a] = 1 THEN {Do("purge", a, NIL, NIL)} ELSE {}
    <3>1. Do("purge", a, NIL, NIL) \in Task
      BY <2>2, DoTask
    <3> QED BY <3>1 DEF ToSet
  <2>5. Do("purge", a, NIL, NIL).do = "purge" /\ Do("purge", a, NIL, NIL).at = a
    BY DEF Do
  <2> HIDE DEF new
  <2>6. /\ \A X : /\ Occurrences(todo', X) = Occurrences(new, X) + Occurrences(todo, X)
                                          - (IF Head(todo) \in X THEN 1 ELSE 0)
                  /\ Occurrences(todo', X) \in Nat /\ Occurrences(todo, X) \in Nat
                  /\ Occurrences(new, X) \in Nat
        /\ ToSet(todo') = ToSet(new) \cup {todo[i] : i \in 2..Len(todo)}
        /\ ToSet(todo) = {Head(todo)} \cup {todo[i] : i \in 2..Len(todo)}
        /\ \A b : DoomedIn(todo', b) <=> DoomedIn(new, b) \/ DoomedIn(todo, b)
    <3>1. Head(todo).do \notin Dooms
      BY <2>1 DEF Dooms
    <3>2. /\ \A X : /\ Occurrences(todo', X) = Occurrences(new, X) + Occurrences(todo, X)
                                            - (IF Head(todo) \in X THEN 1 ELSE 0)
                    /\ Occurrences(todo', X) \in Nat /\ Occurrences(todo, X) \in Nat
                    /\ Occurrences(new, X) \in Nat
          /\ ToSet(todo') = ToSet(new) \cup {todo[i] : i \in 2..Len(todo)}
          /\ ToSet(todo) = {Head(todo)} \cup {todo[i] : i \in 2..Len(todo)}
          /\ \A b : DoomedIn(todo', b) <=>
                    \/ DoomedIn(new, b)
                    \/ DoomedIn(todo, b) /\ ~(Head(todo).do \in Dooms /\ Head(todo).at = b)
      BY <2>1, <2>3, <2>4, NextStack
    <3> QED BY <3>1, <3>2
  <2>7. \A b : Occurrences(new, {Unlock(b)}) = 0
    <3> TAKE b
    <3>1. \A i \in DOMAIN new : new[i] \notin {Unlock(b)}
      <4>1. DOMAIN new = 1..Len(new)
        BY <2>4, LenProperties
      <4> QED BY <2>4, <2>5, <4>1, UnlockEqual
    <3> QED BY <3>1, OccurrencesNone
  <2>8. \A t : Occurrences(new, RemovalsOf(t)) = 0
    <3> TAKE t
    <3>1. \A i \in DOMAIN new : new[i] \notin RemovalsOf(t)
      <4>1. DOMAIN new = 1..Len(new)
        BY <2>4, LenProperties
      <4> QED BY <2>4, <2>5, <4>1 DEF RemovalsOf
    <3> QED BY <3>1, OccurrencesNone
  <2>9. count[a] \in Nat \ {0} /\ ~DoomedIn(todo, a)
    <3>1. Occurrences(todo, {Unlock(a)}) # 0
      BY <2>2, <2>6, OccurrencesSome, <2>1 DEF Shape
    <3>2. count[a] = held[a] + Occurrences(todo, {Unlock(a)}) + HeldByTables(htable, a)
      BY <2>2 DEF IInv, CountsOK
    <3>3. count[a] \in Nat /\ held[a] \in Nat /\ HeldByTables(htable, a) \in Nat
      BY <2>2, HeldByTablesType DEF IInv, TypesOK
    <3>4. count[a] # 0
      BY <2>6, <3>1, <3>2, <3>3
    <3> QED BY <2>2, <3>3, <3>4 DEF IInv, CountsOK
  <2>10. TypesOK'
    BY <1>2, <2>2, <2>3, <2>9 DEF IInv, TypesOK
  <2>11. TablesOK'
    <3>1. \A t : Occurrences(todo', RemovalsOf(t)) = Occurrences(todo, RemovalsOf(t))
      <4> TAKE t
      <4>1. Head(todo) \notin RemovalsOf(t)
        BY <2>1 DEF RemovalsOf
      <4> QED BY <2>6, <2>8, <4>1
    <3> QED BY <1>2, <3>1 DEF IInv, TablesOK
  <2>12. CountsOK'
    <3> SUFFICES ASSUME NEW b \in At
                 PROVE  /\ count'[b] = held[b] + Occurrences(todo', {Unlock(b)}) + HeldByTables(htable, b)
                        /\ (count'[b] = 0) <=> (status[b] = "free" \/ DoomedIn(todo', b))
      BY <1>2 DEF CountsOK
    <3>1. /\ count[b] = held[b] + Occurrences(todo, {Unlock(b)}) + HeldByTables(htable, b)
          /\ (count[b] = 0) <=> (status[b] = "free" \/ DoomedIn(todo, b))
          /\ count[b] \in Nat /\ held[b] \in Nat /\ HeldByTables(htable, b) \in Nat
      <4>1. TypesOK /\ CountsOK
        BY DEF IInv
      <4>2. count[b] \in Nat /\ held[b] \in Nat
        BY <4>1 DEF TypesOK
      <4> QED BY <4>1, <4>2, HeldByTablesType DEF CountsOK
    <3>2. Occurrences(todo', {Unlock(b)})
            = Occurrences(todo, {Unlock(b)}) - (IF a = b THEN 1 ELSE 0)
      BY <2>2, <2>6, <2>7, UnlockEqual
    <3>3. count'[b] = IF a = b THEN count[b] - 1 ELSE count[b]
      BY <2>2, <2>3 DEF IInv, TypesOK
    <3>4. DoomedIn(new, b) <=> a = b /\ count[a] = 1
      BY <2>4, <2>5 DEF DoomedIn, Dooms
    <3>5. count'[b] = held[b] + Occurrences(todo', {Unlock(b)}) + HeldByTables(htable, b)
      BY <2>6, <3>1, <3>2, <3>3
    <3>6. CASE a = b
      <4>1. status[b] # "free" /\ ~DoomedIn(todo, b) /\ count[b] \in Nat \ {0}
        BY <1>2, <2>9, <3>6
      <4>2. (count'[b] = 0) <=> count[b] = 1
        BY <3>3, <3>6, <4>1
      <4> QED BY <2>6, <3>4, <3>5, <3>6, <4>1, <4>2, Zenon
    <3>7. CASE a # b
      BY <2>6, <3>1, <3>3, <3>4, <3>5, <3>7
    <3> QED BY <3>6, <3>7
  <2>13. ContentsLive'
    BY <1>2 DEF IInv, ContentsLive
  <2>14. KeysRegistered'
    <3>1. \A k, t : Head(todo) # Do("finalize", k, t, NIL)
      BY <2>1 DEF Do
    <3> QED BY <1>2, <2>1, <2>3, <2>4, <3>1, RegisteredKept
  <2>15. LockedTables'
    <3>1. \A d \in ToSet(new) : d.do \notin Removals
      BY <2>4, <2>5 DEF Removals
    <3>2. \A t \in Table : htable[t].keylockp => htable[t].rehashp
      BY DEF IInv, LockedTables
    <3> QED BY <1>2, <2>1, <2>3, <2>4, <3>1, <3>2, LockedKept
  <2>16. Needs'
    <3>1. \A d \in ToSet(new) : d.do \notin Accesses \cup {"delete", "zombify"}
      BY <2>4, <2>5 DEF Accesses
    <3> QED BY <1>2, <2>1, <2>3, <2>4, <3>1, NeedsKept
  <2>17. Shape(todo')
    <3>1. \A j \in 1..Len(new) : NewTask(todo, new, j)
      BY <2>2, <2>4, <2>5 DEF NewTask, Dooms, Removals
    <3> QED BY <2>1, <2>3, <2>4, <3>1, ShapeKept
  <2>18. DiesOnce(todo')
    <3>1. DiesOnce(new)
      BY <2>4 DEF DiesOnce
    <3>2. \A j \in 1..Len(new) : \A k \in 2..Len(todo) : todo[k].do \in Dooms => todo[k].at # new[j].at
      BY <2>4, <2>5, <2>6, <2>9 DEF DoomedIn
    <3> QED BY <2>1, <2>3, <2>4, <3>1, <3>2, DiesOnceKept DEF Shape
  <2>19. GoFirst(todo', WeakIn(htable))
    <3>1. \A k, t : Head(todo) # Do("finalize", k, t, NIL)
      BY <2>1 DEF Do
    <3>2. GoFirst(new, WeakIn(htable))
      BY <2>4, <2>5 DEF GoFirst, Deaths
    <3> QED BY <2>1, <2>3, <2>4, <3>1, <3>2, GoFirstKept DEF Shape
  <2>20. Shape(todo)' /\ DiesOnce(todo)' /\ GoFirst(todo, WeakIn(htable))'
    BY <1>2, <2>17, <2>18, <2>19
  <2> QED BY <2>10, <2>11, <2>12, <2>13, <2>14, <2>15, <2>16, <2>20 DEF IInv
<1> QED BY <1>1, <1>2 DEF RunUnlock

\* When references only move, the counts stay right.
LEMMA CountsStep ==
  ASSUME IInv, UNCHANGED <<status, count, held>>,
         \A a \in At :
           /\ HeldByTables(htable', a) + Occurrences(todo', {Unlock(a)})
                = HeldByTables(htable, a) + Occurrences(todo, {Unlock(a)})
           /\ Occurrences(todo', {Unlock(a)}) \in Nat /\ Occurrences(todo, {Unlock(a)}) \in Nat
           /\ DoomedIn(todo', a) <=> DoomedIn(todo, a)
  PROVE  CountsOK'
<1> SUFFICES ASSUME NEW a \in At
             PROVE  /\ count[a] = held[a] + Occurrences(todo', {Unlock(a)}) + HeldByTables(htable', a)
                    /\ (count[a] = 0) <=> (status[a] = "free" \/ DoomedIn(todo', a))
  BY DEF CountsOK
<1>1. /\ count[a] = held[a] + Occurrences(todo, {Unlock(a)}) + HeldByTables(htable, a)
      /\ (count[a] = 0) <=> (status[a] = "free" \/ DoomedIn(todo, a))
  BY DEF IInv, CountsOK
<1>2. held[a] \in Nat /\ HeldByTables(htable, a) \in Nat /\ HeldByTables(htable', a) \in Nat
  BY HeldByTablesType DEF IInv, TypesOK
<1> QED BY <1>1, <1>2

\* Who is dying, or held, and how often it is referred to.
LEMMA CountFacts ==
  ASSUME IInv, NEW a \in At
  PROVE  /\ count[a] \in Nat /\ held[a] \in Nat
         /\ HeldByTables(htable, a) \in Nat /\ Occurrences(todo, {Unlock(a)}) \in Nat
         /\ count[a] = held[a] + Occurrences(todo, {Unlock(a)}) + HeldByTables(htable, a)
         /\ (count[a] = 0) <=> (status[a] = "free" \/ DoomedIn(todo, a))
         /\ held[a] > 0 => count[a] # 0 /\ status[a] # "free" /\ ~DoomedIn(todo, a)
<1>1. count[a] \in Nat /\ held[a] \in Nat /\ HeldByTables(htable, a) \in Nat
  BY HeldByTablesType DEF IInv, TypesOK
<1>2. Occurrences(todo, {Unlock(a)}) \in Nat
  BY OccurrencesType DEF IInv, Shape
<1>3. /\ count[a] = held[a] + Occurrences(todo, {Unlock(a)}) + HeldByTables(htable, a)
      /\ (count[a] = 0) <=> (status[a] = "free" \/ DoomedIn(todo, a))
  BY DEF IInv, CountsOK
<1>4. held[a] > 0 => count[a] # 0
  BY <1>1, <1>2, <1>3
<1> QED BY <1>1, <1>2, <1>3, <1>4

LEMMA FinalizersKeeps ==
  ASSUME IInv, RunFinalizers
  PROVE  IInv'
<1> DEFINE a == task.at
           records == IF a \in flagged THEN Reverse(finalizers[a]) ELSE <<>>
           end == Do(IF task.do = "purge" THEN "dispose" ELSE "zombify", a, NIL, NIL)
           calls == [i \in DOMAIN records |-> Do("finalize", a, records[i], NIL)]
           new == calls \o <<end>>
           N == Len(records)
<1>1. /\ todo # <<>> /\ Head(todo).do \in {"purge", "delete"}
      /\ Shape(todo) /\ DiesOnce(todo) /\ GoFirst(todo, WeakIn(htable))
  BY DEF RunFinalizers, Running, IInv
<1>2. /\ task = Head(todo) /\ task \in Task /\ task \in ToSet(todo) /\ a \in At
      /\ task.do \in {"purge", "delete"} /\ todo[1] = task
      /\ task.do = "delete" => Len(todo) = 1 /\ a \in Mortal
  BY <1>1, HeadTask, TaskAts, NilNotAt DEF task, TaskShape, Dooms
<1>3. /\ todo' = new \o Tail(todo)
      /\ finalizers' = IF a \in flagged THEN [finalizers EXCEPT ![a] = <<>>] ELSE finalizers
      /\ flagged' = flagged \ {a}
      /\ UNCHANGED <<status, count, held, htable, wild>>
  BY DEF RunFinalizers, Then
<1>4. TypesOK /\ flagged \in SUBSET Plain /\ finalizers \in [Plain -> Seq(Table)]
  BY DEF IInv, TypesOK
<1> HIDE DEF a
<1>5. /\ N \in Nat /\ DOMAIN records = 1..N
      /\ \A i \in 1..N : records[i] \in Table /\ a \in flagged /\ Contains(finalizers[a], records[i])
      /\ a \in flagged => \A t : Contains(finalizers[a], t) => \E i \in 1..N : records[i] = t
  <2>1. CASE a \in flagged
    <3> DEFINE f == finalizers[a]
    <3>1. /\ f \in Seq(Table) /\ Len(f) \in Nat
          /\ \A i \in 1..Len(f) : f[i] \in Table
      <4>1. f \in Seq(Table)
        BY <1>4, <2>1
      <4> QED BY <4>1, LenProperties, ElementOfSeq
    <3>2. records = [i \in 1..Len(f) |-> f[(Len(f) - i) + 1]]
      BY <2>1 DEF Reverse
    <3> HIDE DEF f
    <3>3. N = Len(f) /\ DOMAIN records = 1..N /\ \A i \in 1..N : records[i] = f[(N - i) + 1]
      <4> HIDE DEF records
      <4> QED BY <3>1, <3>2
    <3>4. \A i \in 1..N : (N - i) + 1 \in 1..N /\ (N - ((N - i) + 1)) + 1 = i
      BY <3>1, <3>3
    <3> HIDE DEF N, records
    <3>5. \A t : Contains(f, t) => \E i \in 1..N : records[i] = t
      <4> TAKE t
      <4> HAVE Contains(f, t)
      <4>1. PICK j \in 1..N : f[j] = t
        BY <3>3 DEF Contains
      <4>2. records[(N - j) + 1] = t
        BY <3>3, <3>4, <4>1
      <4> QED BY <3>4, <4>2
    <3>6. \A i \in 1..N : records[i] \in Table /\ Contains(f, records[i])
      BY <3>1, <3>3, <3>4 DEF Contains
    <3> QED BY <2>1, <3>1, <3>3, <3>5, <3>6 DEF f
  <2>2. CASE a \notin flagged
    <3>1. records = <<>> /\ Len(<<>>) = 0 /\ DOMAIN <<>> = 1..0
      BY <2>2
    <3> HIDE DEF records
    <3>2. N = 0
      BY <3>1
    <3> QED BY <2>2, <3>1, <3>2
  <2> QED BY <2>1, <2>2
<1>6. /\ end \in Task /\ end.at = a /\ end.table = NIL
      /\ end.do = IF task.do = "purge" THEN "dispose" ELSE "zombify"
  BY <1>2 DEF Do, Task
<1>7. \A i \in 1..N : /\ Do("finalize", a, records[i], NIL) \in Task
                      /\ Do("finalize", a, records[i], NIL).do = "finalize"
                      /\ Do("finalize", a, records[i], NIL).at = a
                      /\ Do("finalize", a, records[i], NIL).table = records[i]
  <2> HIDE DEF records, N
  <2> QED BY <1>2, <1>5 DEF Do, Task
<1>8. /\ new \in Seq(Task) /\ Len(new) = N + 1
      /\ \A i \in 1..N : new[i] = Do("finalize", a, records[i], NIL)
      /\ new[N + 1] = end
  <2> DEFINE c(i) == Do("finalize", a, records[i], NIL)
  <2>1. calls = [i \in 1..N |-> c(i)]
    BY <1>5
  <2>2. \A i \in 1..N : c(i) \in Task
    BY <1>7
  <2>3. [i \in 1..N |-> c(i)] \in Seq(Task) /\ Len([i \in 1..N |-> c(i)]) = N
    <3>1. N \in Nat
      BY <1>5
    <3> HIDE DEF c, N
    <3> QED BY <2>2, <3>1, IsASeq
  <2> HIDE DEF N, end
  <2>4. <<end>> \in Seq(Task) /\ Len(<<end>>) = 1 /\ <<end>>[1] = end
    BY <1>6
  <2> HIDE DEF calls, c
  <2>5. \A i \in 1..N : calls[i] = c(i)
    BY <2>1
  <2>6. /\ new \in Seq(Task) /\ Len(new) = N + 1
        /\ \A i \in 1..(N + 1) : new[i] = IF i <= N THEN calls[i] ELSE <<end>>[i - N]
    <3>1. calls \in Seq(Task) /\ Len(calls) = N
      BY <2>1, <2>3
    <3>2. PICK d : d = <<end>>
      OBVIOUS
    <3>3. d \in Seq(Task) /\ Len(d) = 1 /\ new = calls \o d
      BY <2>4, <3>2
    <3>4. /\ calls \o d \in Seq(Task) /\ Len(calls \o d) = Len(calls) + Len(d)
          /\ \A i \in 1..(Len(calls) + Len(d)) :
               (calls \o d)[i] = IF i <= Len(calls) THEN calls[i] ELSE d[i - Len(calls)]
      BY <3>1, <3>3, ConcatProperties
    <3> HIDE DEF new
    <3> QED BY <3>1, <3>2, <3>3, <3>4
  <2> HIDE DEF new
  <2>7. \A i \in 1..N : i \in 1..(N + 1) /\ i <= N
    BY <1>5
  <2>8. N + 1 \in 1..(N + 1) /\ ~(N + 1 <= N) /\ (N + 1) - N = 1
    BY <1>5
  <2>9. new[N + 1] = <<end>>[(N + 1) - N]
    BY <2>6, <2>8
  <2> QED BY <2>4, <2>5, <2>6, <2>7, <2>8, <2>9 DEF c
<1> HIDE DEF new, calls, end, records, N
<1>9. /\ DOMAIN new = 1..(N + 1) /\ \A i \in 1..(N + 1) : i \in 1..N \/ i = N + 1
      /\ \A i \in 1..N : i \in 1..(N + 1) /\ i < N + 1
      /\ N + 1 \in 1..(N + 1)
  BY <1>5, <1>8, LenProperties
<1>10. \A i \in 1..(N + 1) : /\ i \in 1..N => new[i].do = "finalize" /\ new[i].at = a
                             /\ i = N + 1 => new[i].do \in Deaths /\ new[i].at = a
                             /\ new[i].do \in {"finalize", "dispose", "zombify"}
  BY <1>6, <1>7, <1>8, <1>9 DEF Deaths
<1>11. /\ todo \in Seq(Task) /\ todo' \in Seq(Task)
       /\ \A X : /\ Occurrences(todo', X) = Occurrences(new, X) + Occurrences(todo, X)
                                            - (IF Head(todo) \in X THEN 1 ELSE 0)
                 /\ Occurrences(todo', X) \in Nat /\ Occurrences(todo, X) \in Nat
                 /\ Occurrences(new, X) \in Nat
       /\ ToSet(todo') = ToSet(new) \cup {todo[i] : i \in 2..Len(todo)}
       /\ ToSet(todo) = {Head(todo)} \cup {todo[i] : i \in 2..Len(todo)}
       /\ \A b : DoomedIn(todo', b) <=>
                 \/ DoomedIn(new, b)
                 \/ DoomedIn(todo, b) /\ ~(Head(todo).do \in Dooms /\ Head(todo).at = b)
  BY <1>1, <1>3, <1>8, NextStack
<1>12. ToSet(new) = {new[i] : i \in 1..(N + 1)}
  BY <1>9 DEF ToSet
<1>13. ASSUME NEW X, \A d \in X : d.do \in {"unlock", "finalized"}
       PROVE  Occurrences(todo', X) = Occurrences(todo, X)
  <2>1. \A i \in DOMAIN new : new[i] \notin X
    BY <1>9, <1>10, <1>13
  <2>2. Occurrences(new, X) = 0
    BY <2>1, OccurrencesNone
  <2>3. Head(todo) \notin X
    BY <1>1, <1>13
  <2> QED BY <1>11, <2>2, <2>3
<1>14. TypesOK'
  <2>1. flagged' \in SUBSET Plain /\ finalizers' \in [Plain -> Seq(Table)]
    BY <1>3, <1>4
  <2> QED BY <1>3, <1>4, <2>1 DEF TypesOK
<1>15. TablesOK'
  <2>1. \A t : Occurrences(todo', RemovalsOf(t)) = Occurrences(todo, RemovalsOf(t))
    BY <1>13 DEF RemovalsOf
  <2> QED BY <1>3, <2>1 DEF IInv, TablesOK
<1>16. CountsOK'
  <2>1. ASSUME NEW b \in At
        PROVE  /\ Occurrences(todo', {Unlock(b)}) = Occurrences(todo, {Unlock(b)})
               /\ DoomedIn(todo', b) <=> DoomedIn(todo, b)
    <3>1. Occurrences(todo', {Unlock(b)}) = Occurrences(todo, {Unlock(b)})
      BY <1>13, UnlockEqual
    <3>2. DoomedIn(new, b) <=> b = a /\ task.do = "purge"
      <4>1. ASSUME DoomedIn(new, b) PROVE b = a /\ task.do = "purge"
        <5>1. PICK i \in 1..(N + 1) : new[i].at = b /\ new[i].do \in Dooms
          BY <1>12, <4>1 DEF DoomedIn
        <5>2. new[i].do = "dispose"
          BY <1>10, <5>1 DEF Dooms
        <5> QED BY <1>6, <1>8, <1>9, <1>10, <5>1, <5>2
      <4>2. ASSUME b = a, task.do = "purge" PROVE DoomedIn(new, b)
        <5>1. new[N + 1].do = "dispose" /\ new[N + 1].at = b /\ new[N + 1] \in ToSet(new)
          BY <1>6, <1>8, <1>9, <1>12, <4>2
        <5> QED BY <5>1 DEF DoomedIn, Dooms
      <4> QED BY <4>1, <4>2
    <3>3. Head(todo).do \in Dooms <=> task.do = "purge"
      BY <1>2 DEF Dooms
    <3>4. task.at = a /\ Head(todo).at = a
      BY <1>2 DEF a
    <3>5. task.do = "purge" => DoomedIn(todo, a)
      BY <1>2, <3>4 DEF DoomedIn, Dooms
    <3> QED BY <1>11, <3>1, <3>2, <3>3, <3>4, <3>5
  <2>2. ASSUME NEW b \in At
        PROVE  Occurrences(todo', {Unlock(b)}) \in Nat /\ Occurrences(todo, {Unlock(b)}) \in Nat
    BY <1>11
  <2> QED BY <1>3, <2>1, <2>2, CountsStep
<1>17. ContentsLive'
  BY <1>3 DEF IInv, ContentsLive
<1>18. ASSUME a \in flagged, NEW t, Contains(finalizers[a], t)
       PROVE  \E i \in 1..N : new[i] = Do("finalize", a, t, NIL)
  BY <1>5, <1>8, <1>18
<1>19. KeysRegistered'
  <2>1. ASSUME NEW t \in Table, NEW k \in Plain, <<t, k>> \in WeakIn(htable)
        PROVE  \/ k \in flagged' /\ Contains(finalizers'[k], t)
               \/ Do("finalize", k, t, NIL) \in ToSet(todo')
    <3>1. CASE k \in flagged /\ Contains(finalizers[k], t) /\ k = a
      <4>1. PICK i \in 1..N : new[i] = Do("finalize", a, t, NIL)
        BY <1>18, <3>1
      <4> QED BY <1>9, <1>11, <1>12, <3>1, <4>1
    <3>2. CASE k \in flagged /\ Contains(finalizers[k], t) /\ k # a
      BY <1>3, <1>4, <3>2
    <3>3. CASE Do("finalize", k, t, NIL) \in ToSet(todo)
      <4>1. Do("finalize", k, t, NIL) # Head(todo)
        BY <1>1 DEF Do
      <4> QED BY <1>11, <3>3, <4>1
    <3> QED BY <2>1, <3>1, <3>2, <3>3 DEF IInv, KeysRegistered
  <2> QED BY <1>3, <2>1 DEF KeysRegistered
<1>20. LockedTables'
  <2>1. ASSUME NEW k \in Plain, NEW t, Contains(finalizers'[k], t)
        PROVE  Contains(finalizers[k], t)
    <3>1. CASE a \in flagged /\ k = a
      <4>1. finalizers'[k] = <<>> /\ Len(<<>>) = 0
        BY <1>3, <1>4, <3>1
      <4> QED BY <2>1, <4>1 DEF Contains
    <3>2. CASE ~(a \in flagged /\ k = a)
      BY <1>3, <1>4, <2>1, <3>2
    <3> QED BY <3>1, <3>2
  <2>2. ASSUME NEW t \in Table, htable[t].keylockp, NEW d \in ToSet(new), d.do \in Removals
        PROVE  d.table # t
    <3>1. PICK i \in 1..(N + 1) : d = new[i]
      BY <1>12
    <3>2. i \in 1..N
      BY <1>9, <1>10, <2>2, <3>1 DEF Removals, Deaths
    <3>3. d.table = records[i] /\ a \in flagged /\ Contains(finalizers[a], records[i])
      BY <1>5, <1>7, <1>8, <3>1, <3>2
    <3> QED BY <1>4, <2>2, <3>3 DEF IInv, LockedTables
  <2> QED BY <1>3, <1>11, <2>1, <2>2 DEF IInv, LockedTables
<1>21. Needs'
  <2>1. ASSUME NEW d \in ToSet(todo'), d.do \in Accesses \cup {"delete", "zombify"}
        PROVE  \/ d \in ToSet(todo)
               \/ d.do = "zombify" /\ d.at = a /\ task.do = "delete"
    <3>1. CASE d \in ToSet(new)
      BY <1>2, <1>6, <1>8, <1>9, <1>10, <1>12, <2>1, <3>1 DEF Accesses
    <3>2. CASE d \notin ToSet(new)
      BY <1>11, <3>2
    <3> QED BY <3>1, <3>2
  <2>2. task.do = "delete" => held[a] > 0
    BY <1>2 DEF IInv, Needs, a
  <2>3. "zombify" \notin Accesses
    BY DEF Accesses
  <2>4. Head(todo).do # "rehash"
    BY <1>1
  <2>5. ASSUME NEW d \in ToSet(todo'), d.do \in Accesses
        PROVE  d \in ToSet(todo) /\ ~htable[d.table].keylockp
    BY <2>1, <2>3, <2>4, <2>5 DEF IInv, Needs
  <2> QED BY <1>3, <2>1, <2>2, <2>3, <2>5 DEF IInv, Needs
<1>22. Shape(todo')
  <2>1. ASSUME NEW j \in 1..(N + 1) PROVE NewTask(todo, new, j)
    <3>1. CASE j \in 1..N
      <4>1. N + 1 \in (j + 1)..Len(new)
        BY <1>5, <1>8, <3>1
      <4>2. new[N + 1].do \in Deaths /\ new[N + 1].at = a
        BY <1>9, <1>10
      <4>3. new[j].do = "finalize" /\ new[j].at = a /\ a \in Plain /\ new[j].table \in Table
        BY <1>4, <1>5, <1>7, <1>8, <3>1
      <4> QED BY <4>1, <4>2, <4>3 DEF NewTask, Dooms, Removals
    <3>2. CASE j = N + 1
      <4>1. new[j] = end /\ j = Len(new)
        BY <1>8, <3>2
      <4> QED BY <1>2, <1>6, <4>1 DEF NewTask, Dooms, Removals
    <3> QED BY <1>9, <3>1, <3>2
  <2> QED BY <1>1, <1>3, <1>8, <2>1, ShapeKept
<1>23. DiesOnce(todo')
  <2>1. ASSUME NEW i \in 1..(N + 1), new[i].do \in Dooms PROVE i = N + 1 /\ task.do = "purge"
    BY <1>6, <1>8, <1>9, <1>10, <2>1 DEF Dooms
  <2>2. DiesOnce(new)
    BY <1>8, <2>1 DEF DiesOnce
  <2>3. ASSUME NEW j \in 1..Len(new), new[j].do \in Dooms,
               NEW k \in 2..Len(todo), todo[k].do \in Dooms
        PROVE  todo[k].at # new[j].at
    <3>1. task.do = "purge" /\ new[j].at = a /\ todo[1].do \in Dooms /\ todo[1].at = a
      BY <1>2, <1>8, <1>10, <2>1, <2>3 DEF Dooms, a
    <3>2. Len(todo) \in Nat
      BY <1>1, HeadTask
    <3>3. 1 \in 1..Len(todo) /\ k \in 1..Len(todo) /\ k # 1
      BY <2>3, <3>2
    <3> QED BY <1>1, <2>3, <3>1, <3>3 DEF DiesOnce
  <2> QED BY <1>1, <1>3, <1>8, <1>11, <2>2, <2>3, DiesOnceKept
<1>24. GoFirst(todo', WeakIn(htable))
  <2>1. ASSUME NEW t \in Table, <<t, a>> \in WeakIn(htable)
        PROVE  \E i \in 1..N : new[i] = Do("finalize", a, t, NIL)
    <3>1. a \in Plain
      BY <2>1 DEF WeakIn
    <3>2. CASE a \in flagged /\ Contains(finalizers[a], t)
      BY <1>18, <3>2
    <3>3. CASE Do("finalize", a, t, NIL) \in ToSet(todo)
      <4>1. DOMAIN todo = 1..Len(todo) /\ Len(todo) \in Nat
        BY <1>11, LenProperties
      <4>2. PICK i \in 1..Len(todo) : todo[i] = Do("finalize", a, t, NIL)
        BY <3>3, <4>1 DEF ToSet
      <4>3. todo[i].do = "finalize" /\ todo[i].at = a /\ i # 1
        BY <1>2, <4>2 DEF Do
      <4>4. task.do = "purge"
        <5>1. i \in 1..Len(todo) /\ 1 \in 1..Len(todo) /\ Len(todo) # 1
          BY <4>1, <4>2, <4>3
        <5> QED BY <1>2, <5>1
      <4>5. PICK j \in (i + 1)..Len(todo) : todo[j].do \in Deaths /\ todo[j].at = a
        BY <1>1, <4>2, <4>3 DEF Shape, TaskShape, Removals
      <4>6. j \in 1..Len(todo) /\ 1 \in 1..Len(todo) /\ j # 1
        BY <4>1, <4>2, <4>5
      <4>7. CASE todo[j].do = "dispose"
        <5>1. todo[1].do \in Dooms /\ todo[j].do \in Dooms /\ todo[1].at = todo[j].at
          BY <1>2, <4>4, <4>5, <4>7 DEF Dooms, a
        <5> QED BY <1>1, <4>6, <5>1 DEF DiesOnce
      <4>8. CASE todo[j].do = "zombify"
        <5>1. todo[j] \in ToSet(todo)
          BY <4>1, <4>6 DEF ToSet
        <5>2. held[a] > 0
          BY <4>5, <4>8, <5>1 DEF IInv, Needs
        <5>3. DoomedIn(todo, a)
          BY <1>2, <4>4 DEF DoomedIn, Dooms, a
        <5> QED BY <1>2, <5>2, <5>3, CountFacts
      <4> QED BY <4>5, <4>7, <4>8 DEF Deaths
    <3> QED BY <2>1, <3>1, <3>2, <3>3 DEF IInv, KeysRegistered
  <2>2. GoFirst(new, WeakIn(htable))
    <3> SUFFICES ASSUME NEW i \in 1..(N + 1), new[i].do \in Deaths,
                        NEW t \in Table, <<t, new[i].at>> \in WeakIn(htable)
                 PROVE  \E j \in 1..(i - 1) : new[j] = Do("finalize", new[i].at, t, NIL)
      BY <1>8 DEF GoFirst
    <3>1. i = N + 1 /\ new[i].at = a
      BY <1>9, <1>10 DEF Deaths
    <3>2. 1..(i - 1) = 1..N
      BY <1>5, <3>1
    <3> QED BY <2>1, <3>1, <3>2
  <2>3. \A k, t : Head(todo) # Do("finalize", k, t, NIL)
    BY <1>1 DEF Do
  <2> QED BY <1>1, <1>3, <1>8, <1>11, <2>2, <2>3, GoFirstKept
<1>25. Shape(todo)' /\ DiesOnce(todo)' /\ GoFirst(todo, WeakIn(htable))'
  BY <1>3, <1>22, <1>23, <1>24
<1> QED BY <1>14, <1>15, <1>16, <1>17, <1>19, <1>20, <1>21, <1>25 DEF IInv

\* One table changes.
OnlyTable(t, g) ==
  DOMAIN htable' = Table /\ htable'[t] = g /\ SameBut(htable, htable', t)

LEMMA TableChange ==
  ASSUME IInv, NEW t \in Table, NEW g, OnlyTable(t, g)
  PROVE  /\ Sound(htable[t]) /\ DOMAIN htable' = Table /\ htable'[t] = g
         /\ \A u \in Table : u # t => htable'[u] = htable[u]
         /\ \A a : /\ HeldByTables(htable, a) \in Nat /\ HeldByTables(htable', a) \in Nat
                   /\ HeldBy(htable[t], a) \in Nat /\ HeldBy(g, a) \in Nat
                   /\ HeldByTables(htable, a) - HeldBy(htable[t], a) \in Nat
                   /\ HeldByTables(htable', a)
                        = HeldByTables(htable, a) - HeldBy(htable[t], a) + HeldBy(g, a)
<1>1. DOMAIN htable = Table /\ Sound(htable[t])
  BY DEF IInv, TablesOK, TableOK
<1>2. /\ DOMAIN htable' = Table /\ htable'[t] = g
      /\ \A u \in Table : u # t => htable'[u] = htable[u]
  BY DEF OnlyTable, SameBut
<1>3. PICK old, new : old = htable /\ new = htable'
  OBVIOUS
<1>4. ASSUME NEW a
      PROVE  /\ HeldByTables(old, a) \in Nat /\ HeldByTables(new, a) \in Nat
             /\ HeldBy(old[t], a) \in Nat /\ HeldBy(new[t], a) \in Nat
             /\ HeldByTables(old, a) - HeldBy(old[t], a) \in Nat
             /\ HeldByTables(new, a) = HeldByTables(old, a) - HeldBy(old[t], a) + HeldBy(new[t], a)
  <2>1. SameBut(old, new, t)
    BY <1>2, <1>3 DEF SameBut
  <2> QED BY <2>1, HeldByTablesChange
<1> QED BY <1>1, <1>2, <1>3, <1>4

\* A step that takes associations from a table, or none, and nothing else.
Takes(new, t, g) ==
  /\ htable[t] # Gone /\ g # Gone /\ ~htable[t].keylockp /\ ~g.keylockp
  /\ Associations(g) \in SUBSET Associations(htable[t])
  /\ TableOK(g, Occurrences(todo', RemovalsOf(t)))
  /\ Head(todo).do \in {"finalize", "finalized", "recompute"}
  /\ \A j \in 1..Len(new) :
       NewTask(todo, new, j) /\ new[j].do \in {"unlock", "finalize", "finalized"}
  /\ \A a \in At : Occurrences(new, {Unlock(a)}) = HeldBy(htable[t], a) - HeldBy(g, a)
  /\ \A d \in ToSet(new) \cup {Head(todo)} : d.do \in Removals => d.table = t
  /\ \A k : Head(todo) = Do("finalize", k, t, NIL) => k \notin KeysOf(g)

LEMMA TakesKeeps ==
  ASSUME IInv, todo # <<>>, NEW new \in Seq(Task), todo' = new \o Tail(todo),
         UNCHANGED <<objects, finalizers, wild>>,
         NEW t \in Table, NEW g, OnlyTable(t, g), Takes(new, t, g)
  PROVE  IInv'
<1> USE DEF Takes
<1>1. /\ DOMAIN htable' = Table /\ htable'[t] = g
      /\ \A u \in Table : u # t => htable'[u] = htable[u]
  BY TableChange
<1>2. /\ Shape(todo) /\ DiesOnce(todo) /\ GoFirst(todo, WeakIn(htable))
      /\ todo \in Seq(Task) /\ todo' \in Seq(Task)
      /\ \A X : /\ Occurrences(todo', X) = Occurrences(new, X) + Occurrences(todo, X)
                                           - (IF Head(todo) \in X THEN 1 ELSE 0)
                /\ Occurrences(todo', X) \in Nat /\ Occurrences(todo, X) \in Nat
                /\ Occurrences(new, X) \in Nat
      /\ \A a : DoomedIn(todo', a) <=>
                \/ DoomedIn(new, a)
                \/ DoomedIn(todo, a) /\ ~(Head(todo).do \in Dooms /\ Head(todo).at = a)
  BY NextStack
<1>3. DOMAIN new = 1..Len(new) /\ ToSet(new) = {new[j] : j \in 1..Len(new)}
  <2>1. DOMAIN new = 1..Len(new)
    BY LenProperties
  <2> QED BY <2>1 DEF ToSet
<1>4. /\ \A d \in ToSet(new) \cup {Head(todo)} :
           d.do \notin Dooms \cup Deaths \cup Accesses \cup {"delete", "zombify", "rehash"}
      /\ \A a : Head(todo) # Unlock(a)
  BY <1>3, UnlockEqual DEF Dooms, Deaths, Accesses
<1>5. KeysOf(g) \in SUBSET KeysOf(htable[t])
  BY DEF KeysOf
<1>6. TypesOK'
  BY DEF IInv, TypesOK, objects
<1>7. TablesOK'
  <2>1. ASSUME NEW u \in Table
        PROVE  TableOK(htable'[u], Occurrences(todo', RemovalsOf(u)))
    <3>1. CASE u = t
      BY <1>1, <3>1
    <3>2. CASE u # t
      <4>1. Head(todo) \notin RemovalsOf(u) /\ \A i \in DOMAIN new : new[i] \notin RemovalsOf(u)
        BY <1>3, <3>2 DEF RemovalsOf, Removals
      <4>2. Occurrences(new, RemovalsOf(u)) = 0
        BY <4>1, OccurrencesNone
      <4>3. Occurrences(todo', RemovalsOf(u)) = Occurrences(todo, RemovalsOf(u))
        BY <1>2, <4>1, <4>2
      <4> QED BY <1>1, <3>2, <4>3 DEF IInv, TablesOK
    <3> QED BY <3>1, <3>2
  <2>2. \A u \in Table : status[u] = "free" => htable'[u] = Gone
    BY <1>1 DEF IInv, TablesOK
  <2> QED BY <1>1, <2>1, <2>2 DEF TablesOK, objects
<1>8. CountsOK'
  <2>1. ASSUME NEW a \in At
        PROVE  /\ HeldByTables(htable', a) + Occurrences(todo', {Unlock(a)})
                    = HeldByTables(htable, a) + Occurrences(todo, {Unlock(a)})
               /\ Occurrences(todo', {Unlock(a)}) \in Nat /\ Occurrences(todo, {Unlock(a)}) \in Nat
               /\ DoomedIn(todo', a) <=> DoomedIn(todo, a)
    <3>1. /\ HeldByTables(htable, a) \in Nat /\ HeldBy(htable[t], a) \in Nat /\ HeldBy(g, a) \in Nat
          /\ HeldByTables(htable', a)
               = HeldByTables(htable, a) - HeldBy(htable[t], a) + HeldBy(g, a)
      BY TableChange
    <3>2. Occurrences(new, {Unlock(a)}) = HeldBy(htable[t], a) - HeldBy(g, a)
      OBVIOUS
    <3>3. Occurrences(todo', {Unlock(a)})
            = Occurrences(new, {Unlock(a)}) + Occurrences(todo, {Unlock(a)})
          /\ Occurrences(todo', {Unlock(a)}) \in Nat /\ Occurrences(todo, {Unlock(a)}) \in Nat
      BY <1>2, <1>4
    <3>4. DoomedIn(todo', a) <=> DoomedIn(todo, a)
      BY <1>2, <1>4 DEF DoomedIn
    <3> QED BY <3>1, <3>2, <3>3, <3>4
  <2> QED BY <2>1, CountsStep DEF objects
<1>9. ContentsLive'
  BY <1>1 DEF IInv, ContentsLive, objects
<1>10. WeakIn(htable)' \in SUBSET WeakIn(htable)
  BY <1>1, <1>5 DEF WeakIn
<1>11. \A u \in Table, k \in Plain :
         Head(todo) = Do("finalize", k, u, NIL) => <<u, k>> \notin WeakIn(htable)'
  <2> SUFFICES ASSUME NEW u \in Table, NEW k \in Plain, Head(todo) = Do("finalize", k, u, NIL)
               PROVE  <<u, k>> \notin WeakIn(htable)'
    OBVIOUS
  <2>1. u = t
    BY DEF Do, Removals
  <2>2. k \notin KeysOf(htable'[t])
    BY <1>1, <2>1
  <2> QED BY <2>1, <2>2 DEF WeakIn
<1>12. KeysRegistered'
  BY <1>10, <1>11, RegisteredKept DEF objects
<1>13. LockedTables'
  <2>1. ASSUME NEW u \in Table
        PROVE  /\ htable'[u].keylockp => htable[u].keylockp /\ htable'[u].rehashp
               /\ htable[u] # Gone => htable'[u] # Gone
    BY <1>1 DEF IInv, LockedTables
  <2>2. \A d \in ToSet(new) : d.do \in Removals =>
          \A u \in Table : htable'[u].keylockp => d.table # u
    BY <1>1
  <2> QED BY <2>1, <2>2, LockedKept DEF objects
<1>14. Needs'
  <2>1. \A d \in ToSet(new) : d.do \notin Accesses \cup {"delete", "zombify"}
    BY <1>4
  <2>2. Head(todo).do # "rehash"
    BY <1>4
  <2>3. \A u \in Table : /\ held[u] > 0 /\ htable[u] # Gone => htable'[u] # Gone
                         /\ htable'[u].keylockp => htable[u].keylockp
    BY <1>1
  <2>4. held' = held /\ status' = status
    BY DEF objects
  <2> QED BY <2>1, <2>2, <2>3, <2>4, NeedsKept
<1>15. Shape(todo')
  BY <1>2, ShapeKept
<1>16. DiesOnce(todo')
  <2>1. DiesOnce(new) /\ \A j \in 1..Len(new) : new[j].do \notin Dooms
    BY <1>3, <1>4 DEF DiesOnce
  <2> QED BY <1>2, <2>1, DiesOnceKept
<1>17. GoFirst(todo', WeakIn(htable)')
  <2>1. GoFirst(new, WeakIn(htable)')
    BY <1>3, <1>4 DEF GoFirst
  <2>2. \A k \in 2..Len(todo) : todo[k].do \in Deaths =>
          \A u \in Table : <<u, todo[k].at>> \in WeakIn(htable)' => <<u, todo[k].at>> \in WeakIn(htable)
    BY <1>10
  <2>3. \A k, u : ~(Head(todo) = Do("finalize", k, u, NIL) /\ <<u, k>> \in WeakIn(htable)')
    <3> TAKE k, u
    <3>1. ASSUME <<u, k>> \in WeakIn(htable)' PROVE u \in Table /\ k \in Plain
      BY <3>1 DEF WeakIn
    <3> QED BY <1>11, <3>1
  <2>4. PICK later : later = WeakIn(htable)'
    OBVIOUS
  <2> QED BY <1>2, <2>1, <2>2, <2>3, <2>4, GoFirstKept
<1>18. Shape(todo)' /\ DiesOnce(todo)' /\ GoFirst(todo, WeakIn(htable))'
  BY <1>15, <1>16, <1>17
<1> QED BY <1>6, <1>7, <1>8, <1>9, <1>12, <1>13, <1>14, <1>18 DEF IInv

LEMMA FinalizeKeeps ==
  ASSUME IInv, RunFinalize
  PROVE  IInv'
<1> DEFINE k == task.at
           t == task.table
           h == htable[t]
           b == Bucket(h, k)
           i == Place(h, k)
           e == h.table[b][i]
           again == Do("finalized", k, t, Before(h, b, i))
<1>1. /\ todo # <<>> /\ Head(todo).do = "finalize" /\ task = Head(todo)
      /\ Shape(todo) /\ Head(todo) \in ToSet(todo)
  BY HeadTask DEF RunFinalize, Running, IInv, task
<1>2. k \in Plain /\ t \in Table /\ Head(todo).at = k /\ Head(todo).table = t
  BY <1>1, TaskAts DEF Removals
<1>3. TableOK(h, Occurrences(todo, RemovalsOf(t))) /\ Sound(h)
  BY <1>2 DEF IInv, TablesOK, TableOK
<1>4. ~h.keylockp
  <2>1. h.keylockp => Head(todo).table # t
    BY <1>1, <1>2 DEF IInv, LockedTables, Removals
  <2> QED BY <1>2, <2>1
<1>5. /\ Occurrences(todo, RemovalsOf(t)) \in Nat /\ todo \in Seq(Task)
      /\ Head(todo) \notin RemovalsOf(t)
  BY <1>1, OccurrencesType DEF Shape, RemovalsOf
<1>6. \A d : Head(todo) = Do("finalize", d, t, NIL) => d = k
  BY <1>2 DEF Do
<1>7. CASE TouchesFreed(h = Gone)
  BY <1>7, WildKeeps DEF TouchesFreed
<1>8. CASE /\ h # Gone /\ i = 0
           /\ Then(<<>>)
           /\ UNCHANGED <<objects, finalizers, htable, wild>>
  <2> DEFINE new == <<>>
  <2>1. /\ new \in Seq(Task) /\ todo' = new \o Tail(todo)
        /\ Len(new) = 0 /\ 1..0 = {} /\ DOMAIN new = {} /\ ToSet(new) = {}
    BY <1>8 DEF Then, ToSet
  <2> HIDE DEF new
  <2>2. \A X : Occurrences(new, X) = 0
    BY <2>1, OccurrencesNone
  <2>3. Occurrences(todo', RemovalsOf(t)) = Occurrences(todo, RemovalsOf(t))
    <3>1. Occurrences(todo', RemovalsOf(t)) = Occurrences(new, RemovalsOf(t))
            + Occurrences(todo, RemovalsOf(t)) - (IF Head(todo) \in RemovalsOf(t) THEN 1 ELSE 0)
      BY <1>1, <2>1, NextStack
    <3>2. Occurrences(new, RemovalsOf(t)) = 0
      BY <2>2
    <3> QED BY <1>5, <3>1, <3>2
  <2>4. OnlyTable(t, h)
    BY <1>2, <1>8 DEF IInv, TablesOK, OnlyTable, SameBut
  <2>5. k \notin KeysOf(h)
    <3>1. h.size \in Nat /\ h.size # 0
      BY <1>3, <1>8 DEF TableOK, Sound
    <3> QED BY <1>2, <1>3, <1>8, <3>1, PlaceFinds
  <2>6. \A a \in At : Occurrences(new, {Unlock(a)}) = HeldBy(h, a) - HeldBy(h, a)
    <3> TAKE a \in At
    <3>1. HeldBy(h, a) \in Nat
      BY HeldByType
    <3> QED BY <2>2, <3>1
  <2> HIDE DEF h, t, k
  <2>7. UNCHANGED <<objects, finalizers, wild>> /\ h # Gone
    BY <1>8
  <2>8. TableOK(h, Occurrences(todo', RemovalsOf(t)))
    BY <1>3, <2>3
  <2>9. htable[t] = h
    BY DEF h
  <2>10. \A j \in 1..Len(new) : NewTask(todo, new, j) /\ new[j].do \in {"unlock", "finalize", "finalized"}
    BY <2>1
  <2>11. \A d \in ToSet(new) \cup {Head(todo)} : d.do \in Removals => d.table = t
    BY <1>2, <2>1
  <2>12. \A d : Head(todo) = Do("finalize", d, t, NIL) => d \notin KeysOf(h)
    BY <1>6, <2>5
  <2>13. Takes(new, t, h)
    BY <1>1, <1>4, <2>6, <2>7, <2>8, <2>9, <2>10, <2>11, <2>12 DEF Takes
  <2> QED BY <1>1, <1>2, <2>1, <2>4, <2>7, <2>13, TakesKeeps
<1>9. CASE /\ h # Gone /\ i # 0
           /\ htable' = [htable EXCEPT ![t] = Unlinked(h, b, i)]
           /\ Then(<<Unlock(e.value), again>>)
           /\ UNCHANGED <<objects, finalizers, wild>>
  <2> DEFINE g == Unlinked(h, b, i)
             new == <<Unlock(e.value), again>>
  <2>1. h.size \in Nat /\ h.size # 0
    <3> HIDE DEF h, t, k, b, i, g, new, again
    <3> QED BY <1>3, <1>9 DEF TableOK, Sound
  <2>2. <<b, i>> \in Places(h.table) /\ e.key = k /\ k \in KeysOf(h)
    BY <1>2, <1>3, <1>9, <2>1, PlaceFinds
  <2> HIDE DEF b, i
  <2>3. /\ Sound(g) /\ g.size = h.size /\ g.nelems = h.nelems /\ g.keylockp = h.keylockp
        /\ e \in Associations(h)
        /\ Associations(g) = Associations(h) \ {e}
        /\ KeysOf(g) = KeysOf(h) \ {e.key}
        /\ Before(h, b, i) \in KeysOf(g) \cup {NIL}
    <3> HIDE DEF h
    <3> QED BY <1>3, <2>2, UnlinkedProperties
  <2>4. /\ e \in Assoc /\ KeysOf(h) \in SUBSET Plain /\ h.nelems \in Nat
        /\ IsFiniteSet(KeysOf(h)) /\ Cardinality(KeysOf(h)) \in Nat
    BY <1>3, <2>3, SoundProperties
  <2>5. e.value \in At /\ e = [key |-> k, value |-> e.value]
    BY <2>2, <2>4 DEF Assoc
  <2>6. Before(h, b, i) \in At \cup {NIL}
    BY <2>3, <2>4, NilNotAt
  <2>7. /\ again \in Task /\ again.do = "finalized" /\ again.at = k /\ again.table = t
    <3>1. k \in At \cup {NIL} /\ t \in Table \cup {NIL}
      BY <1>2, NilNotAt
    <3> HIDE DEF k, t, h
    <3> QED BY <2>6, <3>1, DoTask
  <2>8. Unlock(e.value) \in Task /\ Unlock(e.value).do = "unlock" /\ Unlock(e.value).at = e.value
    BY <2>5, UnlockEqual DEF Unlock, Do, Task
  <2> DEFINE x == Unlock(e.value)
  <2>9. x \in Task /\ x.do = "unlock" /\ x.at = e.value /\ x = Unlock(x.at)
    BY <2>8
  <2> HIDE DEF g, e, again
  <2>10. /\ new \in Seq(Task) /\ Len(new) = 2 /\ new[1] = x /\ new[2] = again
         /\ ToSet(new) = {x, again} /\ todo' = new \o Tail(todo)
    <3>1. todo' = <<x, again>> \o Tail(todo)
      BY <1>9 DEF Then
    <3>2. <<x, again>> \in Seq(Task) /\ Len(<<x, again>>) = 2
          /\ <<x, again>>[1] = x /\ <<x, again>>[2] = again
      BY <2>7, <2>9
    <3>3. ToSet(<<x, again>>) = {x, again}
      BY DEF ToSet
    <3> QED BY <3>1, <3>2, <3>3
  <2>11. \A X : Occurrences(new, X) = (IF x \in X THEN 1 ELSE 0) + (IF again \in X THEN 1 ELSE 0)
    <3> HIDE DEF x
    <3> QED BY <2>7, <2>9, OccurrencesTwo
  <2>12. \A a \in At : Occurrences(new, {Unlock(a)}) = HeldBy(h, a) - HeldBy(g, a)
    <3> TAKE a \in At
    <3>1. Occurrences(new, {Unlock(a)}) = IF e.value = a THEN 1 ELSE 0
      BY <2>7, <2>11, UnlockEqual
    <3>2. HeldBy(h, a) = HeldBy(g, a) + (IF e.value = a THEN 1 ELSE 0)
                         + (IF g.keylockp /\ k = a THEN 1 ELSE 0)
      <4>1. /\ Associations(h) = Associations(g) \cup {[key |-> k, value |-> e.value]}
            /\ KeysOf(h) = KeysOf(g) \cup {k} /\ k \notin KeysOf(g)
            /\ h.keylockp = g.keylockp
        BY <2>2, <2>3, <2>5
      <4> HIDE DEF h, k
      <4>2. PICK v : v = e.value
        OBVIOUS
      <4>3. k \in Plain /\ Adds(g, h, k, v)
        BY <1>2, <4>1, <4>2 DEF Adds
      <4>4. HeldBy(h, a) = HeldBy(g, a) + (IF v = a THEN 1 ELSE 0)
                           + (IF g.keylockp /\ k = a THEN 1 ELSE 0)
        BY <4>3, HeldByMore
      <4> QED BY <4>2, <4>4
    <3>3. HeldBy(h, a) \in Nat /\ HeldBy(g, a) \in Nat
      BY HeldByType
    <3> QED BY <1>4, <2>3, <3>1, <3>2, <3>3
  <2> HIDE DEF new
  <2>13. Occurrences(todo', RemovalsOf(t)) = Occurrences(todo, RemovalsOf(t)) + 1
    <3>1. Occurrences(new, RemovalsOf(t)) = 1
      BY <2>7, <2>9, <2>11 DEF RemovalsOf
    <3>2. Occurrences(todo', RemovalsOf(t)) = Occurrences(new, RemovalsOf(t))
            + Occurrences(todo, RemovalsOf(t)) - (IF Head(todo) \in RemovalsOf(t) THEN 1 ELSE 0)
      BY <1>1, <2>10, NextStack
    <3> QED BY <1>5, <3>1, <3>2
  <2>14. Cardinality(KeysOf(g)) = Cardinality(KeysOf(h)) - 1 /\ Cardinality(KeysOf(g)) \in Nat
    <3>1. k \in KeysOf(h) /\ KeysOf(g) = KeysOf(h) \ {k}
      BY <2>2, <2>3
    <3>2. Cardinality(KeysOf(h) \ {k}) = Cardinality(KeysOf(h)) - 1
      BY <2>4, <3>1, FS_RemoveElement
    <3>3. Cardinality(KeysOf(g)) \in Nat
      BY <2>3, SoundProperties
    <3> QED BY <3>1, <3>2, <3>3
  <2>15. TableOK(g, Occurrences(todo', RemovalsOf(t))) /\ g # Gone
    <3>1. h.size >= 2 /\ h.nelems = Cardinality(KeysOf(h)) + Occurrences(todo, RemovalsOf(t))
          /\ 3 * (h.nelems - 1) <= 2 * h.size
      BY <1>3, <1>9 DEF TableOK
    <3>2. g.size >= 2 /\ g.nelems = Cardinality(KeysOf(g)) + Occurrences(todo', RemovalsOf(t))
          /\ 3 * (g.nelems - 1) <= 2 * g.size
      BY <1>5, <2>3, <2>4, <2>13, <2>14, <3>1
    <3>3. g # Gone
      BY <2>1, <2>3, NotGone
    <3> QED BY <2>3, <3>2, <3>3 DEF TableOK
  <2>16. \A j \in 1..Len(new) :
           NewTask(todo, new, j) /\ new[j].do \in {"unlock", "finalize", "finalized"}
    <3>1. \E n \in 2..Len(todo) : todo[n].do \in Deaths /\ todo[n].at = k
      BY <1>1, <1>2, HeadTask DEF TaskShape, Removals
    <3>2. NewTask(todo, new, 1)
      BY <2>5, <2>9, <2>10 DEF NewTask, Dooms, Removals
    <3>3. NewTask(todo, new, 2)
      BY <1>2, <2>7, <2>10, <3>1 DEF NewTask, Dooms, Removals
    <3> QED BY <2>7, <2>9, <2>10, <3>2, <3>3
  <2> HIDE DEF h, t, k, x
  <2>17. UNCHANGED <<objects, finalizers, wild>> /\ h # Gone /\ OnlyTable(t, g)
    <3>1. htable' = [htable EXCEPT ![t] = g] /\ DOMAIN htable = Table
      BY <1>9 DEF g, IInv, TablesOK
    <3>2. OnlyTable(t, g)
      BY <1>2, <3>1 DEF OnlyTable, SameBut
    <3> QED BY <1>9, <3>2
  <2>18. htable[t] = h
    BY DEF h
  <2>19. \A d \in ToSet(new) \cup {Head(todo)} : d.do \in Removals => d.table = t
    BY <1>2, <2>7, <2>9, <2>10 DEF Removals
  <2>20. \A d : Head(todo) = Do("finalize", d, t, NIL) => d \notin KeysOf(g)
    BY <1>6, <2>2, <2>3
  <2>21. ~g.keylockp /\ Associations(g) \in SUBSET Associations(h)
    BY <1>4, <2>3
  <2>22. Takes(new, t, g)
    BY <1>1, <1>4, <2>12, <2>15, <2>16, <2>17, <2>18, <2>19, <2>20, <2>21 DEF Takes
  <2> QED BY <1>1, <1>2, <2>10, <2>17, <2>22, TakesKeeps
<1> QED BY <1>7, <1>8, <1>9 DEF RunFinalize

LEMMA FinalizedKeeps ==
  ASSUME IInv, RunFinalized
  PROVE  IInv'
<1> DEFINE k == task.at
           t == task.table
           h == htable[t]
           stale == h = Gone \/ (task.other # NIL /\ task.other \notin KeysOf(h))
           x == Do("finalize", k, t, NIL)
           g == [h EXCEPT !.nelems = @ - 1]
           new == <<x>>
<1>1. /\ todo # <<>> /\ Head(todo).do = "finalized" /\ task = Head(todo)
      /\ Shape(todo) /\ Head(todo) \in ToSet(todo) /\ Head(todo) \in Task
  BY HeadTask DEF RunFinalized, Running, IInv, task
<1>2. k \in Plain /\ t \in Table /\ Head(todo).at = k /\ Head(todo).table = t
  BY <1>1, TaskAts DEF Removals
<1>3. TableOK(h, Occurrences(todo, RemovalsOf(t))) /\ Sound(h)
  BY <1>2 DEF IInv, TablesOK, TableOK
<1>4. ~h.keylockp
  <2>1. h.keylockp => Head(todo).table # t
    BY <1>1, <1>2 DEF IInv, LockedTables, Removals
  <2> QED BY <1>2, <2>1
<1>5. /\ Occurrences(todo, RemovalsOf(t)) \in Nat \ {0} /\ todo \in Seq(Task)
      /\ Head(todo) \in RemovalsOf(t)
  <2>1. todo \in Seq(Task) /\ Head(todo) \in RemovalsOf(t)
    BY <1>1, <1>2 DEF Shape, RemovalsOf
  <2>2. Occurrences(todo, RemovalsOf(t)) \in Nat
    BY <2>1, OccurrencesType
  <2>3. Occurrences(todo, RemovalsOf(t)) # 0
    BY <1>1, <2>1, OccurrencesSome
  <2> QED BY <2>1, <2>2, <2>3
<1>6. CASE TouchesFreed(stale)
  BY <1>6, WildKeeps DEF TouchesFreed
<1>7. CASE /\ ~stale
           /\ htable' = [htable EXCEPT ![t].nelems = @ - 1]
           /\ Then(<<x>>)
           /\ UNCHANGED <<objects, finalizers, wild>>
  <2>1. h # Gone /\ OnlyTable(t, g)
    <3>1. htable' = [htable EXCEPT ![t] = g] /\ DOMAIN htable = Table
      BY <1>7 DEF IInv, TablesOK
    <3> HIDE DEF g
    <3>2. OnlyTable(t, g)
      BY <1>2, <3>1 DEF OnlyTable, SameBut
    <3> QED BY <1>7, <3>2
  <2>2. h.size >= 2 /\ h.nelems = Cardinality(KeysOf(h)) + Occurrences(todo, RemovalsOf(t))
        /\ 3 * (h.nelems - 1) <= 2 * h.size
    <3> HIDE DEF h, g, t
    <3> QED BY <1>3, <2>1 DEF TableOK
  <2>3. /\ h \in Structures(h.size) /\ h.size \in Nat /\ h.nelems \in Nat
        /\ Cardinality(KeysOf(h)) \in Nat
    <3> HIDE DEF h, g, t
    <3> QED BY <1>3, SoundProperties DEF Sound
  <2>4. h.nelems - 1 \in Nat
    <3> HIDE DEF h, g, t
    <3>1. PICK n, e, o :
            n = h.nelems /\ e = Cardinality(KeysOf(h)) /\ o = Occurrences(todo, RemovalsOf(t))
      OBVIOUS
    <3>2. n = e + o /\ n \in Nat /\ e \in Nat /\ o \in Nat \ {0}
      BY <1>5, <2>2, <2>3, <3>1
    <3>3. n - 1 \in Nat
      BY <3>2
    <3> QED BY <3>1, <3>3
  <2>5. /\ g \in Structures(h.size) /\ g.table = h.table /\ g.size = h.size
        /\ g.nelems = h.nelems - 1 /\ g.keylockp = h.keylockp
    BY <2>3, <2>4 DEF Structures
  <2> HIDE DEF g
  <2>6. Sound(g) /\ Associations(g) = Associations(h) /\ KeysOf(g) = KeysOf(h)
    BY <1>3, <2>5, SameChains
  <2>7. x \in Task /\ x.do = "finalize" /\ x.at = k /\ x.table = t
    BY <1>2, NilNotAt DEF Do, Task
  <2> HIDE DEF x
  <2>8. /\ new \in Seq(Task) /\ Len(new) = 1 /\ new[1] = x
        /\ ToSet(new) = {x} /\ todo' = new \o Tail(todo)
        /\ \A X : Occurrences(new, X) = IF x \in X THEN 1 ELSE 0
    BY <1>7, <2>7, OccurrencesOne DEF Then, ToSet
  <2> HIDE DEF new
  <2>9. Occurrences(todo', RemovalsOf(t)) = Occurrences(todo, RemovalsOf(t)) - 1
    <3>1. Occurrences(new, RemovalsOf(t)) = 0
      BY <2>7, <2>8 DEF RemovalsOf
    <3>2. Occurrences(todo', RemovalsOf(t)) = Occurrences(new, RemovalsOf(t))
            + Occurrences(todo, RemovalsOf(t)) - (IF Head(todo) \in RemovalsOf(t) THEN 1 ELSE 0)
      BY <1>1, <2>8, NextStack
    <3> QED BY <1>5, <3>1, <3>2
  <2>10. TableOK(g, Occurrences(todo', RemovalsOf(t))) /\ g # Gone
    <3>1. g.size >= 2 /\ g.nelems = Cardinality(KeysOf(g)) + Occurrences(todo', RemovalsOf(t))
      BY <1>5, <2>2, <2>3, <2>5, <2>6, <2>9
    <3>2. 3 * (g.nelems - 1) <= 2 * g.size
      <4>1. g.nelems \in Nat /\ g.nelems <= h.nelems
        BY <2>3, <2>4, <2>5
      <4> QED BY <2>2, <2>3, <2>5, <4>1
    <3>3. g # Gone
      <4>1. g.size # 0
        BY <2>2, <2>3, <2>5
      <4> QED BY <4>1, NotGone
    <3> QED BY <2>6, <3>1, <3>2, <3>3 DEF TableOK
  <2>11. \A a \in At : Occurrences(new, {Unlock(a)}) = HeldBy(h, a) - HeldBy(g, a)
    <3> TAKE a \in At
    <3>1. Occurrences(new, {Unlock(a)}) = 0
      BY <2>7, <2>8, UnlockEqual
    <3>2. HeldBy(g, a) = HeldBy(h, a)
      BY <2>5, <2>6 DEF HeldBy, Under
    <3>3. HeldBy(h, a) \in Nat
      BY HeldByType
    <3> QED BY <3>1, <3>2, <3>3
  <2>12. \A j \in 1..Len(new) :
           NewTask(todo, new, j) /\ new[j].do \in {"unlock", "finalize", "finalized"}
    <3>1. \E n \in 2..Len(todo) : todo[n].do \in Deaths /\ todo[n].at = k
      BY <1>1, <1>2, HeadTask DEF TaskShape, Removals
    <3>2. NewTask(todo, new, 1)
      BY <1>2, <2>7, <2>8, <3>1 DEF NewTask, Dooms, Removals
    <3> QED BY <2>7, <2>8, <3>2
  <2> HIDE DEF h, t, k
  <2>13. htable[t] = h
    BY DEF h
  <2>14. \A d \in ToSet(new) \cup {Head(todo)} : d.do \in Removals => d.table = t
    BY <1>2, <2>7, <2>8
  <2>15. \A d : Head(todo) = Do("finalize", d, t, NIL) => d \notin KeysOf(g)
    BY <1>1 DEF Do
  <2>16. ~g.keylockp /\ Associations(g) \in SUBSET Associations(h)
    BY <1>4, <2>5, <2>6
  <2>17. UNCHANGED <<objects, finalizers, wild>>
    BY <1>7
  <2>18. Takes(new, t, g)
    BY <1>1, <1>4, <2>1, <2>10, <2>11, <2>12, <2>13, <2>14, <2>15, <2>16 DEF Takes
  <2> QED BY <1>1, <1>2, <2>1, <2>8, <2>17, <2>18, TakesKeeps
<1> QED BY <1>6, <1>7 DEF RunFinalized

\* A table holds no more to an object than all tables.
LEMMA HeldAtLeast ==
  ASSUME NEW ht, NEW t \in Table, NEW a, ht[t].keylockp, a \in KeysOf(ht[t])
  PROVE  HeldByTables(ht, a) # 0
<1>1. /\ HeldByTables(ht, a) \in Nat /\ HeldBy(ht[t], a) \in Nat
      /\ HeldByTables(ht, a) - HeldBy(ht[t], a) \in Nat
  <2>1. SameBut(ht, ht, t)
    BY DEF SameBut
  <2> QED BY <2>1, HeldByTablesChange
<1>2. HeldBy(ht[t], a) # 0
  <2>1. HeldBy(ht[t], a) = Cardinality(Under(ht[t], a)) + 1
    BY DEF HeldBy
  <2>2. Cardinality(Under(ht[t], a)) \in Nat
    BY HeldByType
  <2> QED BY <2>1, <2>2
<1> QED BY <1>1, <1>2

\* The end of a death: what is freed or becomes a zombie is no key any more.
LEMMA DeathKeeps ==
  ASSUME IInv, todo # <<>>, Then(<<>>),
         NEW a, a = Head(todo).at, NEW fate, status' = [status EXCEPT ![a] = fate],
         \/ /\ Head(todo).do = "dispose" /\ fate = "free"
            /\ a \in Table => htable[a] = Gone
            /\ flagged' = flagged
         \/ /\ Head(todo).do = "zombify" /\ fate = "zombie"
            /\ flagged' = flagged \ {a},
         UNCHANGED <<count, held, finalizers, htable, wild>>
  PROVE  IInv'
<1> DEFINE new == <<>>
<1>1. /\ new \in Seq(Task) /\ todo' = new \o Tail(todo)
      /\ Len(new) = 0 /\ 1..0 = {} /\ DOMAIN new = {} /\ ToSet(new) = {}
  BY DEF Then, ToSet
<1> HIDE DEF new
<1>2. /\ Shape(todo) /\ DiesOnce(todo) /\ GoFirst(todo, WeakIn(htable))
      /\ todo \in Seq(Task) /\ todo' \in Seq(Task)
      /\ \A X : /\ Occurrences(todo', X) = Occurrences(new, X) + Occurrences(todo, X)
                                           - (IF Head(todo) \in X THEN 1 ELSE 0)
                /\ Occurrences(todo', X) \in Nat /\ Occurrences(todo, X) \in Nat
                /\ Occurrences(new, X) \in Nat
      /\ ToSet(todo') = ToSet(new) \cup {todo[i] : i \in 2..Len(todo)}
      /\ ToSet(todo) = {Head(todo)} \cup {todo[i] : i \in 2..Len(todo)}
      /\ \A b : DoomedIn(todo', b) <=>
                \/ DoomedIn(new, b)
                \/ DoomedIn(todo, b) /\ ~(Head(todo).do \in Dooms /\ Head(todo).at = b)
  BY <1>1, NextStack
<1>3. /\ Head(todo) = todo[1] /\ Head(todo) \in ToSet(todo) /\ Len(todo) \in Nat \ {0}
      /\ TaskShape(todo, 1)
  BY <1>2, HeadTask
<1>4. a \in At /\ (Head(todo).do = "zombify" => a \in Mortal /\ held[a] > 0 /\ Len(todo) = 1)
  <2>1. a \in At
    BY <1>2, <1>3, TaskAts, NilNotAt DEF Dooms
  <2>2. Head(todo).do = "zombify" => a \in Mortal /\ Len(todo) = 1
    BY <1>3 DEF TaskShape
  <2>3. Head(todo).do = "zombify" => held[a] > 0
    BY <1>3 DEF IInv, Needs
  <2> QED BY <2>1, <2>2, <2>3
<1>5. ASSUME NEW t \in Table, a \in KeysOf(htable[t])
      PROVE  FALSE
  <2>1. CASE htable[t].keylockp
    <3>1. CASE Head(todo).do = "zombify"
      <4>1. PICK e \in Associations(htable[t]) : e.key = a
        BY <1>5 DEF KeysOf
      <4> QED BY <1>4, <2>1, <3>1, <4>1 DEF IInv, ContentsLive
    <3>2. CASE Head(todo).do = "dispose"
      <4>1. DoomedIn(todo, a)
        BY <1>3, <3>2 DEF DoomedIn, Dooms
      <4>2. /\ count[a] = 0 /\ held[a] \in Nat
            /\ HeldByTables(htable, a) \in Nat /\ Occurrences(todo, {Unlock(a)}) \in Nat
            /\ count[a] = held[a] + Occurrences(todo, {Unlock(a)}) + HeldByTables(htable, a)
        BY <1>4, <4>1, CountFacts
      <4>3. HeldByTables(htable, a) # 0
        BY <1>5, <2>1, HeldAtLeast
      <4> QED BY <4>2, <4>3
    <3> QED BY <3>1, <3>2
  <2>2. CASE ~htable[t].keylockp
    <3>1. a \in Plain
      <4>1. Sound(htable[t])
        BY DEF IInv, TablesOK, TableOK
      <4> QED BY <1>5, <4>1, SoundProperties
    <3>2. <<t, a>> \in WeakIn(htable)
      BY <1>5, <2>2, <3>1 DEF WeakIn
    <3>3. 1 \in 1..Len(todo) /\ todo[1].do \in Deaths /\ todo[1].at = a
      BY <1>3 DEF Deaths
    <3>4. \E j \in 1..(1 - 1) : todo[j] = Do("finalize", todo[1].at, t, NIL)
      BY <1>2, <3>2, <3>3 DEF GoFirst
    <3> QED BY <3>4
  <2> QED BY <2>1, <2>2
<1>6. TypesOK /\ status \in [At -> {"free", "live", "zombie"}] /\ flagged \in SUBSET Plain
  BY DEF IInv, TypesOK
<1>7. \A b \in At : status'[b] = IF b = a THEN fate ELSE status[b]
  BY <1>4, <1>6
<1>8. \A X : Occurrences(new, X) = 0
  BY <1>1, OccurrencesNone
<1>9. Head(todo) \notin {Unlock(b) : b \in At} /\ \A t : Head(todo) \notin RemovalsOf(t)
  BY UnlockEqual DEF RemovalsOf
<1>10. TypesOK'
  BY <1>4, <1>6 DEF TypesOK
<1>11. TablesOK'
  <2>1. \A t : Occurrences(todo', RemovalsOf(t)) = Occurrences(todo, RemovalsOf(t))
    <3> TAKE t
    <3>1. Head(todo) \notin RemovalsOf(t)
      BY <1>9
    <3> QED BY <1>2, <1>8, <3>1
  <2>2. \A t \in Table : status'[t] = "free" => htable[t] = Gone
    <3> TAKE t \in Table
    <3>1. t \in At
      BY NilNotAt
    <3>2. status[t] = "free" => htable[t] = Gone
      BY DEF IInv, TablesOK
    <3> QED BY <1>7, <3>1, <3>2
  <2> QED BY <2>1, <2>2 DEF IInv, TablesOK
<1>12. CountsOK'
  <2> SUFFICES ASSUME NEW b \in At
               PROVE  /\ count[b] = held[b] + Occurrences(todo', {Unlock(b)}) + HeldByTables(htable, b)
                      /\ (count[b] = 0) <=> (status'[b] = "free" \/ DoomedIn(todo', b))
    BY DEF CountsOK
  <2>1. Occurrences(todo', {Unlock(b)}) = Occurrences(todo, {Unlock(b)})
    <3>1. Head(todo) \notin {Unlock(b)}
      BY <1>9
    <3> QED BY <1>2, <1>8, <3>1
  <2>2. /\ count[b] = held[b] + Occurrences(todo, {Unlock(b)}) + HeldByTables(htable, b)
        /\ (count[b] = 0) <=> (status[b] = "free" \/ DoomedIn(todo, b))
        /\ held[b] > 0 => count[b] # 0 /\ status[b] # "free" /\ ~DoomedIn(todo, b)
    BY CountFacts
  <2>3. ~DoomedIn(new, b)
    BY <1>1 DEF DoomedIn
  <2>4. CASE Head(todo).do = "dispose"
    <3>1. DoomedIn(todo, a)
      BY <1>3, <2>4 DEF DoomedIn, Dooms
    <3>2. DoomedIn(todo', b) <=> DoomedIn(todo, b) /\ b # a
      BY <1>2, <2>3, <2>4 DEF Dooms
    <3> QED BY <1>7, <2>1, <2>2, <2>4, <3>1, <3>2
  <2>5. CASE Head(todo).do = "zombify"
    <3>1. DoomedIn(todo', b) <=> DoomedIn(todo, b)
      BY <1>2, <2>3, <2>5 DEF Dooms
    <3>2. (status'[b] = "free") <=> (status[b] = "free")
      BY <1>4, <1>7, <2>2, <2>5
    <3> QED BY <2>1, <2>2, <3>1, <3>2
  <2> QED BY <2>4, <2>5
<1>13. ContentsLive'
  <2>1. \A b \in At : status'[b] = "zombie" => b \in Mortal
    BY <1>4, <1>7 DEF IInv, ContentsLive
  <2>2. ASSUME NEW t \in Table, NEW e \in Associations(htable[t])
        PROVE  status'[e.key] = "live"
    <3>1. e.key \in KeysOf(htable[t]) /\ status[e.key] = "live"
      BY DEF KeysOf, IInv, ContentsLive
    <3>2. Sound(htable[t])
      BY DEF IInv, TablesOK, TableOK
    <3>3. e.key \in At
      BY <3>1, <3>2, SoundProperties, NilNotAt
    <3> QED BY <1>5, <1>7, <3>1, <3>3
  <2> QED BY <2>1, <2>2 DEF IInv, ContentsLive
<1>14. KeysRegistered'
  <2>1. ASSUME NEW t \in Table, NEW k \in Plain, <<t, k>> \in WeakIn(htable)
        PROVE  \/ k \in flagged' /\ Contains(finalizers[k], t)
               \/ Do("finalize", k, t, NIL) \in ToSet(todo')
    <3>1. k # a
      BY <1>5, <2>1 DEF WeakIn
    <3>2. Do("finalize", k, t, NIL) # Head(todo)
      BY DEF Do
    <3>3. \/ k \in flagged /\ Contains(finalizers[k], t)
          \/ Do("finalize", k, t, NIL) \in ToSet(todo)
      BY <2>1 DEF IInv, KeysRegistered
    <3> QED BY <1>2, <3>1, <3>2, <3>3
  <2> QED BY <2>1 DEF KeysRegistered
<1>15. LockedTables'
  BY <1>1, <1>2 DEF IInv, LockedTables
<1>16. Needs'
  <2>1. CASE Head(todo).do = "dispose"
    <3>1. Head(todo).do # "rehash" /\ \A b \in At : status'[b] = "zombie" => status[b] = "zombie"
      BY <1>7, <2>1
    <3>2. \A d \in ToSet(new) : d.do \notin Accesses \cup {"delete", "zombify"}
      BY <1>1
    <3> QED BY <1>1, <3>1, <3>2, NeedsKept
  <2>2. CASE Head(todo).do = "zombify"
    <3>1. 2..Len(todo) = {}
      <4>1. Len(todo) = 1 /\ 2..1 = {}
        BY <1>4, <2>2
      <4> QED BY <4>1
    <3>2. ToSet(todo') = {}
      BY <1>1, <1>2, <3>1
    <3> QED BY <3>2 DEF Needs
  <2> QED BY <2>1, <2>2
<1>17. Shape(todo')
  BY <1>1, <1>2, ShapeKept
<1>18. DiesOnce(todo')
  <2>1. DiesOnce(new)
    BY <1>1 DEF DiesOnce
  <2> QED BY <1>1, <1>2, <2>1, DiesOnceKept
<1>19. GoFirst(todo', WeakIn(htable))
  <2>1. GoFirst(new, WeakIn(htable)) /\ \A k, t : Head(todo) # Do("finalize", k, t, NIL)
    BY <1>1 DEF GoFirst, Do
  <2> QED BY <1>1, <1>2, <2>1, GoFirstKept
<1>20. Shape(todo)' /\ DiesOnce(todo)' /\ GoFirst(todo, WeakIn(htable))'
  BY <1>17, <1>18, <1>19
<1> QED BY <1>10, <1>11, <1>12, <1>13, <1>14, <1>15, <1>16, <1>20 DEF IInv

\* References dropped one after the other, then another task.
Unlocks(S) == {Unlock(x) : x \in S}

UnlocksAnd(new, drops, S, end) ==
  /\ new \in Seq(Task) /\ Len(drops) \in Nat /\ Len(new) = Len(drops) + 1
  /\ \A i \in 1..Len(drops) :
       new[i].do = "unlock" /\ new[i].at \in S /\ new[i] = Unlock(new[i].at)
  /\ new[Len(drops) + 1] = end
  /\ \A X : Occurrences(new, X) = Occurrences(drops, X) + (IF end \in X THEN 1 ELSE 0)
  /\ \A i \in 1..(Len(drops) + 1) : i \in 1..Len(drops) \/ i = Len(drops) + 1
  /\ \A d \in ToSet(new) : d = end \/ (d.do = "unlock" /\ d.at \in S)
  /\ \A i \in DOMAIN new : new[i] \in ToSet(new)
  /\ end \in ToSet(new)

LEMMA UnlocksThen ==
  ASSUME NEW S \in SUBSET At, NEW drops \in Seq(Unlocks(S)), NEW end \in Task
  PROVE  UnlocksAnd(drops \o <<end>>, drops, S, end)
<1> DEFINE new == drops \o <<end>>
<1> DEFINE N == Len(drops)
<1>1. Unlocks(S) \in SUBSET Task
  BY DEF Unlocks, Unlock, Do, Task
<1>2. \A d \in Unlocks(S) : \E x \in S : d = Unlock(x)
  BY DEF Unlocks
<1>3. /\ N \in Nat /\ DOMAIN drops = 1..N
      /\ \A i \in 1..N : \E x \in S : drops[i] = Unlock(x)
  <2>1. N \in Nat /\ DOMAIN drops = 1..N
    BY LenProperties
  <2>2. \A i \in 1..N : drops[i] \in Unlocks(S)
    BY ElementOfSeq
  <2> QED BY <1>2, <2>1, <2>2
<1>4. drops \in Seq(Task)
  BY <1>1
<1>5. /\ new \in Seq(Task) /\ Len(new) = N + 1
      /\ \A i \in 1..N : new[i] = drops[i]
      /\ new[N + 1] = end
      /\ \A X : Occurrences(new, X) = Occurrences(drops, X) + (IF end \in X THEN 1 ELSE 0)
  <2>1. PICK last : last = <<end>>
    OBVIOUS
  <2>2. last \in Seq(Task) /\ Len(last) = 1 /\ last[1] = end /\ new = drops \o last
    BY <2>1
  <2>3. /\ drops \o last \in Seq(Task) /\ Len(drops \o last) = Len(drops) + Len(last)
        /\ \A i \in 1..(Len(drops) + Len(last)) :
             (drops \o last)[i] = IF i <= Len(drops) THEN drops[i] ELSE last[i - Len(drops)]
    BY <1>4, <2>2, ConcatProperties
  <2>4. \A X : Occurrences(drops \o last, X) = Occurrences(drops, X) + Occurrences(last, X)
    BY <1>4, <2>2, OccurrencesConcat
  <2> HIDE DEF new
  <2>5. \A X : Occurrences(last, X) = IF end \in X THEN 1 ELSE 0
    BY <2>1, OccurrencesOne
  <2>6. \A i \in 1..N : i \in 1..(N + 1) /\ i <= N
    BY <1>3
  <2>7. N + 1 \in 1..(N + 1) /\ ~(N + 1 <= N) /\ (N + 1) - N = 1
    BY <1>3
  <2>8. new[N + 1] = last[(N + 1) - N]
    BY <2>2, <2>3, <2>7
  <2> QED BY <2>2, <2>3, <2>4, <2>5, <2>6, <2>7, <2>8
<1> HIDE DEF N, new
<1>6. /\ DOMAIN new = 1..(N + 1) /\ \A i \in 1..(N + 1) : i \in 1..N \/ i = N + 1
      /\ N + 1 \in 1..(N + 1)
  BY <1>3, <1>5, LenProperties
<1>7. \A i \in 1..N : new[i].do = "unlock" /\ new[i].at \in S /\ new[i] = Unlock(new[i].at)
  BY <1>3, <1>5, UnlockEqual
<1>8. /\ \A d \in ToSet(new) : \E i \in 1..(N + 1) : d = new[i]
      /\ \A i \in DOMAIN new : new[i] \in ToSet(new)
  BY <1>6 DEF ToSet
<1>9. end \in ToSet(new) /\ \A d \in ToSet(new) : d = end \/ (d.do = "unlock" /\ d.at \in S)
  <2>1. ASSUME NEW d \in ToSet(new) PROVE d = end \/ (d.do = "unlock" /\ d.at \in S)
    <3>1. PICK i \in 1..(N + 1) : d = new[i]
      BY <1>8
    <3>2. CASE i \in 1..N
      BY <1>7, <3>1, <3>2
    <3>3. CASE i = N + 1
      <4>1. d = new[N + 1]
        BY <3>1, <3>3
      <4>2. new[N + 1] = end
        BY <1>5
      <4> QED BY <4>1, <4>2
    <3> QED BY <1>6, <3>2, <3>3
  <2>2. end \in ToSet(new)
    BY <1>5, <1>6, <1>8
  <2> QED BY <2>1, <2>2
<1>10. UnlocksAnd(new, drops, S, end)
  BY <1>3, <1>5, <1>6, <1>7, <1>8, <1>9 DEF N, UnlocksAnd
<1> QED BY <1>10 DEF new

LEMMA DisposeKeeps ==
  ASSUME IInv, RunDispose
  PROVE  IInv'
<1> DEFINE a == task.at
           h == htable[a]
           end == Do("dispose", a, NIL, NIL)
           drops == Drops(h)
           new == drops \o <<end>>
           N == Len(drops)
<1>1. /\ todo # <<>> /\ Head(todo).do = "dispose" /\ task = Head(todo)
      /\ Shape(todo) /\ DiesOnce(todo) /\ GoFirst(todo, WeakIn(htable))
      /\ Head(todo) \in ToSet(todo) /\ Head(todo) = todo[1] /\ Len(todo) \in Nat \ {0}
      /\ UNCHANGED <<count, flagged, held, wild>>
  BY HeadTask DEF RunDispose, Running, IInv, task
<1>2. a \in At /\ Head(todo).at = a
  BY <1>1, TaskAts DEF Dooms
<1>3. CASE ~(a \in Table /\ h # Gone)
  <2>1. /\ status' = [status EXCEPT ![a] = "free"]
        /\ Then(<<>>)
        /\ UNCHANGED <<finalizers, htable>>
    BY <1>3 DEF RunDispose
  <2>2. a \in Table => htable[a] = Gone
    BY <1>3
  <2> HIDE DEF a
  <2> QED BY <1>1, <1>2, <2>1, <2>2, DeathKeeps
<1>4. CASE a \in Table /\ h # Gone
  <2>1. /\ finalizers' = [k \in Plain |-> Without(finalizers[k], a)]
        /\ htable' = [htable EXCEPT ![a] = Gone]
        /\ todo' = new \o Tail(todo)
        /\ status' = status
    BY <1>4 DEF RunDispose, Then, del_finalizers
  <2>2. Sound(h) /\ OnlyTable(a, Gone)
    <3>1. DOMAIN htable = Table /\ Sound(h)
      BY <1>4 DEF IInv, TablesOK, TableOK
    <3>2. OnlyTable(a, Gone)
      BY <1>4, <2>1, <3>1 DEF OnlyTable, SameBut
    <3> QED BY <3>1, <3>2
  <2>3. /\ DOMAIN htable' = Table /\ htable'[a] = Gone
        /\ \A u \in Table : u # a => htable'[u] = htable[u]
    BY <1>4, <2>2 DEF OnlyTable, SameBut
  <2>4. /\ drops \in Seq({Unlock(x) : x \in At})
        /\ \A b \in At : Occurrences(drops, {Unlock(b)}) = HeldBy(h, b)
    BY <2>2, DropsProperties
  <2>5. end \in Task /\ end.do = "dispose" /\ end.at = a
    BY <1>2 DEF Do, Task
  <2>6. /\ new \in Seq(Task) /\ N \in Nat /\ Len(new) = N + 1
        /\ \A i \in 1..N : new[i].do = "unlock" /\ new[i].at \in At /\ new[i] = Unlock(new[i].at)
        /\ new[N + 1] = end
        /\ \A X : Occurrences(new, X) = Occurrences(drops, X) + (IF end \in X THEN 1 ELSE 0)
        /\ \A i \in 1..(N + 1) : i \in 1..N \/ i = N + 1
        /\ \A d \in ToSet(new) : d = end \/ (d.do = "unlock" /\ d.at \in At)
        /\ \A i \in DOMAIN new : new[i] \in ToSet(new)
        /\ end \in ToSet(new)
    <3> HIDE DEF drops, end
    <3>1. drops \in Seq(Unlocks(At)) /\ At \in SUBSET At
      BY <2>4 DEF Unlocks
    <3>2. UnlocksAnd(drops \o <<end>>, drops, At, end)
      BY <2>5, <3>1, UnlocksThen
    <3> HIDE DEF new
    <3>3. UnlocksAnd(new, drops, At, end)
      BY <3>2 DEF new
    <3> QED BY <3>3 DEF UnlocksAnd
  <2> HIDE DEF drops, end, new, N
  <2>7. \A d \in ToSet(new) : d.do \in {"unlock", "dispose"}
    BY <2>5, <2>6
  <2>8. /\ todo \in Seq(Task) /\ todo' \in Seq(Task)
         /\ \A X : /\ Occurrences(todo', X) = Occurrences(new, X) + Occurrences(todo, X)
                                              - (IF Head(todo) \in X THEN 1 ELSE 0)
                   /\ Occurrences(todo', X) \in Nat /\ Occurrences(todo, X) \in Nat
                   /\ Occurrences(new, X) \in Nat
         /\ ToSet(todo') = ToSet(new) \cup {todo[i] : i \in 2..Len(todo)}
         /\ ToSet(todo) = {Head(todo)} \cup {todo[i] : i \in 2..Len(todo)}
         /\ \A b : DoomedIn(todo', b) <=>
                   \/ DoomedIn(new, b)
                   \/ DoomedIn(todo, b) /\ ~(Head(todo).do \in Dooms /\ Head(todo).at = b)
    BY <1>1, <2>1, <2>6, NextStack
  <2> HIDE DEF h
  <2>9. h = htable[a] /\ a \in Table /\ h # Gone
    BY <1>4 DEF h
  <2> HIDE DEF a
  <2>10. DoomedIn(todo, a) /\ held[a] = 0
    <3>1. DoomedIn(todo, a)
      BY <1>1, <1>2 DEF DoomedIn, Dooms
    <3>2. held[a] \in Nat /\ ~(held[a] > 0)
      BY <1>2, <3>1, CountFacts
    <3> QED BY <3>1, <3>2
  <2>11. \A b : DoomedIn(new, b) <=> b = a
    <3>1. end \in ToSet(new)
      BY <2>6
    <3> QED BY <2>5, <2>6, <3>1 DEF DoomedIn, Dooms
  <2>12. \A k \in Plain : /\ finalizers'[k] \in Seq(Table)
                          /\ \A u : Contains(finalizers'[k], u) <=> Contains(finalizers[k], u) /\ u # a
    <3> TAKE k \in Plain
    <3>1. finalizers[k] \in Seq(Table) /\ finalizers'[k] = Without(finalizers[k], a)
      BY <2>1 DEF IInv, TypesOK
    <3> QED BY <3>1, WithoutProperties
  <2>13. Associations(Gone) = {} /\ KeysOf(Gone) = {} /\ Sound(Gone) /\ ~Gone.keylockp
    BY NewAndGone
  <2>14. TypesOK'
    <3>1. finalizers' \in [Plain -> Seq(Table)]
      BY <2>1, <2>12
    <3> QED BY <1>1, <2>1, <3>1 DEF IInv, TypesOK
  <2>15. TablesOK'
    <3>1. ASSUME NEW u PROVE Occurrences(todo', RemovalsOf(u)) = Occurrences(todo, RemovalsOf(u))
      <4>1. Head(todo) \notin RemovalsOf(u) /\ \A i \in DOMAIN new : new[i] \notin RemovalsOf(u)
        BY <1>1, <2>6, <2>7 DEF RemovalsOf
      <4>2. Occurrences(new, RemovalsOf(u)) = 0
        BY <4>1, OccurrencesNone
      <4> QED BY <2>8, <4>1, <4>2
    <3>2. TableOK(Gone, Occurrences(todo', RemovalsOf(a)))
      BY <2>13 DEF TableOK
    <3>3. ASSUME NEW u \in Table
          PROVE  /\ TableOK(htable'[u], Occurrences(todo', RemovalsOf(u)))
                 /\ status[u] = "free" => htable'[u] = Gone
      BY <2>3, <3>1, <3>2 DEF IInv, TablesOK
    <3> QED BY <2>1, <2>3, <3>3 DEF TablesOK
  <2>16. CountsOK'
    <3>1. ASSUME NEW b \in At
          PROVE  /\ HeldByTables(htable', b) + Occurrences(todo', {Unlock(b)})
                      = HeldByTables(htable, b) + Occurrences(todo, {Unlock(b)})
                 /\ Occurrences(todo', {Unlock(b)}) \in Nat /\ Occurrences(todo, {Unlock(b)}) \in Nat
                 /\ DoomedIn(todo', b) <=> DoomedIn(todo, b)
      <4>1. /\ HeldByTables(htable, b) \in Nat /\ HeldBy(htable[a], b) \in Nat
            /\ HeldByTables(htable', b)
                 = HeldByTables(htable, b) - HeldBy(htable[a], b) + HeldBy(Gone, b)
        BY <2>2, <2>9, TableChange
      <4>2. HeldBy(Gone, b) = 0
        BY <2>13, HeldByNone
      <4>3. Occurrences(new, {Unlock(b)}) = HeldBy(htable[a], b)
        <5>1. end \notin {Unlock(b)}
          BY <2>5, UnlockEqual
        <5>2. Occurrences(drops, {Unlock(b)}) = HeldBy(htable[a], b)
          BY <2>4, <2>9
        <5>3. HeldBy(htable[a], b) \in Nat
          BY HeldByType
        <5> QED BY <2>6, <5>1, <5>2, <5>3
      <4>4. Occurrences(todo', {Unlock(b)})
              = Occurrences(new, {Unlock(b)}) + Occurrences(todo, {Unlock(b)})
            /\ Occurrences(todo', {Unlock(b)}) \in Nat /\ Occurrences(todo, {Unlock(b)}) \in Nat
        <5>1. Head(todo) \notin {Unlock(b)}
          BY <1>1, UnlockEqual
        <5> QED BY <2>8, <5>1
      <4>5. DoomedIn(todo', b) <=> DoomedIn(todo, b)
        BY <1>1, <1>2, <2>8, <2>10, <2>11 DEF Dooms
      <4> QED BY <4>1, <4>2, <4>3, <4>4, <4>5
    <3> QED BY <1>1, <2>1, <3>1, CountsStep
  <2>17. ContentsLive'
    <3>1. \A u \in Table : Associations(htable'[u]) \in SUBSET Associations(htable[u])
                           /\ (htable'[u].keylockp => htable[u].keylockp)
      BY <2>3, <2>13
    <3> QED BY <2>1, <3>1 DEF IInv, ContentsLive
  <2>18. ASSUME NEW u, NEW k, <<u, k>> \in WeakIn(htable)'
         PROVE  u \in Table /\ k \in Plain /\ u # a /\ <<u, k>> \in WeakIn(htable)
    BY <2>3, <2>13, <2>18 DEF WeakIn
  <2>19. \A k, t : Head(todo) # Do("finalize", k, t, NIL)
    BY <1>1 DEF Do
  <2>20. KeysRegistered'
    <3>1. ASSUME NEW u \in Table, NEW k \in Plain, <<u, k>> \in WeakIn(htable)'
          PROVE  \/ k \in flagged /\ Contains(finalizers'[k], u)
                 \/ Do("finalize", k, u, NIL) \in ToSet(todo')
      <4>1. u # a /\ <<u, k>> \in WeakIn(htable)
        BY <2>18, <3>1
      <4>2. \/ k \in flagged /\ Contains(finalizers[k], u)
            \/ Do("finalize", k, u, NIL) \in ToSet(todo)
        BY <4>1 DEF IInv, KeysRegistered
      <4> QED BY <2>8, <2>12, <2>19, <4>1, <4>2
    <3> QED BY <1>1, <3>1 DEF KeysRegistered
  <2>21. LockedTables'
    <3>1. ASSUME NEW u \in Table, htable'[u].keylockp
          PROVE  /\ htable'[u].rehashp
                 /\ \A k \in Plain : ~Contains(finalizers'[k], u)
                 /\ \A d \in ToSet(todo') : d.do \in Removals => d.table # u
      <4>1. htable'[u] = htable[u] /\ htable[u].keylockp
        BY <2>3, <2>13, <3>1
      <4>2. \A d \in ToSet(new) : d.do \notin Removals
        BY <2>7 DEF Removals
      <4> QED BY <2>8, <2>12, <4>1, <4>2 DEF IInv, LockedTables
    <3>2. ASSUME NEW u \in Table, NEW k \in Plain, Contains(finalizers'[k], u)
          PROVE  htable'[u] # Gone
      BY <2>3, <2>12, <3>2 DEF IInv, LockedTables
    <3> QED BY <3>1, <3>2 DEF LockedTables
  <2>22. Needs'
    <3>1. \A d \in ToSet(new) : d.do \notin Accesses \cup {"delete", "zombify"}
      BY <2>7 DEF Accesses
    <3>2. \A u \in Table : /\ held[u] > 0 /\ htable[u] # Gone => htable'[u] # Gone
                           /\ htable'[u].keylockp => htable[u].keylockp
      BY <2>3, <2>10, <2>13
    <3>3. Head(todo).do # "rehash" /\ held' = held
          /\ \A b \in At : status'[b] = "zombie" => status[b] = "zombie"
      BY <1>1, <2>1
    <3> QED BY <1>1, <2>1, <2>6, <3>1, <3>2, <3>3, NeedsKept
  <2>23. Shape(todo')
    <3>1. ASSUME NEW j \in 1..(N + 1) PROVE NewTask(todo, new, j)
      <4>1. CASE j \in 1..N
        BY <2>6, <4>1 DEF NewTask, Dooms, Removals
      <4>2. CASE j = N + 1
        BY <1>2, <2>5, <2>6, <4>2 DEF NewTask, Dooms, Removals
      <4> QED BY <2>6, <4>1, <4>2
    <3> QED BY <1>1, <2>1, <2>6, <3>1, ShapeKept
  <2>24. DiesOnce(todo')
    <3>1. \A i \in 1..(N + 1) : new[i].do \in Dooms => i = N + 1 /\ new[i].at = a
      BY <2>5, <2>6 DEF Dooms
    <3>2. DiesOnce(new)
      BY <2>6, <3>1 DEF DiesOnce
    <3>3. ASSUME NEW k \in 2..Len(todo), todo[k].do \in Dooms PROVE todo[k].at # a
      <4>1. 1 \in 1..Len(todo) /\ k \in 1..Len(todo) /\ k # 1
        BY <1>1, <3>3
      <4>2. todo[1].do \in Dooms /\ todo[1].at = a
        BY <1>1, <1>2 DEF Dooms
      <4> QED BY <1>1, <3>3, <4>1, <4>2 DEF DiesOnce
    <3>4. \A j \in 1..Len(new) : new[j].do \in Dooms =>
            \A k \in 2..Len(todo) : todo[k].do \in Dooms => todo[k].at # new[j].at
      BY <2>6, <3>1, <3>3
    <3> QED BY <1>1, <2>1, <2>6, <2>8, <3>2, <3>4, DiesOnceKept
  <2>25. GoFirst(todo', WeakIn(htable)')
    <3>1. PICK later : later = WeakIn(htable)'
      OBVIOUS
    <3>2. GoFirst(new, later)
      <4>1. ASSUME NEW i \in 1..(N + 1), new[i].do \in Deaths PROVE new[i].at = a
        BY <2>5, <2>6, <4>1 DEF Deaths
      <4>2. a \notin Plain
        BY <2>9, NilNotAt
      <4> QED BY <2>6, <2>18, <3>1, <4>1, <4>2 DEF GoFirst
    <3>3. \A k \in 2..Len(todo) : todo[k].do \in Deaths =>
            \A u \in Table : <<u, todo[k].at>> \in later => <<u, todo[k].at>> \in WeakIn(htable)
      BY <2>18, <3>1
    <3>4. GoFirst(todo', later)
      <4>1. todo # <<>> /\ todo \in Seq(Task) /\ new \in Seq(Task) /\ todo' = new \o Tail(todo)
        BY <1>1, <2>1, <2>6, <2>8
      <4> QED BY <1>1, <2>19, <3>2, <3>3, <4>1, GoFirstKept
    <3> QED BY <3>1, <3>4
  <2>26. Shape(todo)' /\ DiesOnce(todo)' /\ GoFirst(todo, WeakIn(htable))'
    BY <2>23, <2>24, <2>25
  <2> QED BY <2>14, <2>15, <2>16, <2>17, <2>20, <2>21, <2>22, <2>26 DEF IInv
<1> QED BY <1>3, <1>4

LEMMA ZombifyKeeps ==
  ASSUME IInv, RunZombify
  PROVE  IInv'
<1>1. /\ todo # <<>> /\ Head(todo).do = "zombify" /\ Then(<<>>)
      /\ status' = [status EXCEPT ![Head(todo).at] = "zombie"]
      /\ flagged' = flagged \ {Head(todo).at}
      /\ UNCHANGED <<count, held, finalizers, htable, wild>>
  BY DEF RunZombify, Running, task
<1> QED BY <1>1, DeathKeeps

\* A record is put in front of the others.
LEMMA Prepended ==
  ASSUME NEW s \in Seq(Table), NEW t \in Table
  PROVE  /\ <<t>> \o s \in Seq(Table)
         /\ \A u : Contains(<<t>> \o s, u) <=> Contains(s, u) \/ u = t
<1>1. <<t>> \in Seq(Table) /\ Len(<<t>>) = 1 /\ <<t>>[1] = t /\ Len(s) \in Nat
  BY LenProperties
<1>2. PICK d : d = <<t>>
  OBVIOUS
<1>3. /\ d \o s \in Seq(Table) /\ Len(d \o s) = Len(d) + Len(s)
      /\ \A i \in 1..(Len(d) + Len(s)) :
           (d \o s)[i] = IF i <= Len(d) THEN d[i] ELSE s[i - Len(d)]
  BY <1>1, <1>2, ConcatProperties
<1> DEFINE r == d \o s
<1> HIDE DEF r
<1>4. Len(r) = Len(s) + 1 /\ r[1] = t /\ \A i \in 1..Len(s) : r[i + 1] = s[i]
  <2>1. Len(r) = 1 + Len(s) /\ \A i \in 1..(1 + Len(s)) : r[i] = IF i <= 1 THEN d[i] ELSE s[i - 1]
    BY <1>1, <1>2, <1>3 DEF r
  <2>2. 1 \in 1..(1 + Len(s)) /\ \A i \in 1..Len(s) : i + 1 \in 1..(1 + Len(s)) /\ ~(i + 1 <= 1) /\ (i + 1) - 1 = i
    BY <1>1
  <2>3. \A i \in 1..Len(s) : r[i + 1] = s[(i + 1) - 1]
    BY <2>1, <2>2
  <2> QED BY <1>1, <1>2, <2>1, <2>2, <2>3
<1>5. ASSUME NEW u PROVE Contains(r, u) <=> Contains(s, u) \/ u = t
  <2>1. ASSUME Contains(r, u) PROVE Contains(s, u) \/ u = t
    <3>1. PICK i \in 1..(Len(s) + 1) : r[i] = u
      BY <1>4, <2>1 DEF Contains
    <3>2. CASE i = 1
      BY <1>4, <3>1, <3>2
    <3>3. CASE i # 1
      <4>1. PICK j \in 1..Len(s) : i = j + 1
        <5>1. i - 1 \in 1..Len(s) /\ i = (i - 1) + 1
          BY <1>1, <3>1, <3>3
        <5> QED BY <5>1
      <4> QED BY <1>4, <3>1, <4>1 DEF Contains
    <3> QED BY <3>2, <3>3
  <2>2. ASSUME Contains(s, u) PROVE Contains(r, u)
    <3>1. PICK i \in 1..Len(s) : s[i] = u
      BY <2>2 DEF Contains
    <3>2. i + 1 \in 1..Len(r) /\ r[i + 1] = u
      BY <1>1, <1>4, <3>1
    <3> QED BY <3>2 DEF Contains
  <2>3. ASSUME u = t PROVE Contains(r, u)
    <3>1. 1 \in 1..Len(r)
      BY <1>1, <1>4
    <3> QED BY <1>4, <2>3, <3>1 DEF Contains
  <2> QED BY <2>1, <2>2, <2>3
<1> QED BY <1>2, <1>3, <1>5 DEF r

\* A registration.
LEMMA RegisteredProperties ==
  ASSUME TypesOK, NEW k \in Plain, NEW t \in Table, NEW records, records = Registered(finalizers, k, t)
  PROVE  /\ records \in [Plain -> Seq(Table)]
         /\ \A j \in Plain : j # k => records[j] = finalizers[j]
         /\ \A u : Contains(records[k], u) <=> Contains(finalizers[k], u) \/ u = t
<1>1. finalizers \in [Plain -> Seq(Table)] /\ finalizers[k] \in Seq(Table)
  BY DEF TypesOK
<1>2. CASE k \in flagged /\ Contains(finalizers[k], t)
  BY <1>1, <1>2 DEF Registered
<1>3. CASE ~(k \in flagged /\ Contains(finalizers[k], t))
  <2>1. PICK s \in Seq(Table) : s = finalizers[k]
    BY <1>1
  <2>2. records = [finalizers EXCEPT ![k] = <<t>> \o s]
    BY <1>1, <1>3, <2>1 DEF Registered
  <2>3. PICK r : r = <<t>> \o s
    OBVIOUS
  <2>4. r \in Seq(Table) /\ \A u : Contains(r, u) <=> Contains(s, u) \/ u = t
    BY <2>3, Prepended
  <2>5. records[k] = r /\ records \in [Plain -> Seq(Table)]
        /\ \A j \in Plain : j # k => records[j] = finalizers[j]
    BY <1>1, <2>2, <2>3, <2>4
  <2> QED BY <2>1, <2>4, <2>5
<1> QED BY <1>2, <1>3

LEMMA RehashKeeps ==
  ASSUME IInv, RunRehash
  PROVE  IInv'
<1> DEFINE t == task.table
           h == htable[t]
           end == Do("recompute", NIL, t, NIL)
           g == IF h.keylockp THEN [h EXCEPT !.keylockp = FALSE] ELSE h
           e == Elements(h)
           unlocks == [n \in 1..Len(e) |-> Unlock(Reverse(e)[n].key)]
           drops == IF h.keylockp THEN unlocks ELSE <<>>
           new == drops \o <<end>>
           N == Len(drops)
<1>1. /\ todo # <<>> /\ Head(todo).do = "rehash" /\ task = Head(todo)
      /\ Shape(todo) /\ DiesOnce(todo) /\ GoFirst(todo, WeakIn(htable))
      /\ Head(todo) = todo[1]
      /\ UNCHANGED <<status, count, held, wild>>
  BY HeadTask DEF RunRehash, Running, IInv, task
<1>2. /\ Len(todo) = 2 /\ 2..Len(todo) = {2} /\ todo[2] \in ToSet(todo)
      /\ todo[2].do \in Accesses /\ todo[2].table = t
  <2>1. Len(todo) \in Nat /\ 1 = Len(todo) - 1
        /\ todo[Len(todo)].do \in Accesses /\ todo[Len(todo)].table = t
    BY <1>1, HeadTask DEF TaskShape
  <2>2. Len(todo) = 2 /\ 2..2 = {2}
    BY <2>1
  <2>3. DOMAIN todo = 1..2
    BY <1>1, <2>2, LenProperties DEF Shape
  <2> QED BY <2>1, <2>2, <2>3 DEF ToSet
<1>3. /\ t \in Table /\ held[t] > 0 /\ h # Gone
      /\ TableOK(h, Occurrences(todo, RemovalsOf(t))) /\ Sound(h)
  <2>1. t \in Table
    BY <1>1, <1>2, TaskAts
  <2>2. held[t] > 0 /\ h # Gone
    BY <1>2 DEF IInv, Needs
  <2> QED BY <2>1, <2>2 DEF IInv, TablesOK, TableOK
<1>4. TypesOK /\ flagged \in SUBSET Plain /\ finalizers \in [Plain -> Seq(Table)] /\ DOMAIN htable = Table
  BY DEF IInv, TypesOK, TablesOK
<1>5. KeysOf(h) \in SUBSET Plain
  BY <1>3, SoundProperties
<1>6. /\ OnlyTable(t, g)
      /\ todo' = new \o Tail(todo)
  <2>1. CASE h.keylockp
    <3>1. htable' = [htable EXCEPT ![t].keylockp = FALSE] /\ todo' = new \o Tail(todo)
      BY <2>1 DEF RunRehash, Then
    <3>2. htable' = [htable EXCEPT ![t] = g]
      BY <1>3, <1>4, <2>1, <3>1
    <3> HIDE DEF g
    <3> QED BY <1>3, <1>4, <3>1, <3>2 DEF OnlyTable, SameBut
  <2>2. CASE ~h.keylockp
    <3>1. htable' = htable /\ todo' = <<end>> \o Tail(todo) /\ g = h
      BY <2>2 DEF RunRehash, Then
    <3>2. new = <<end>>
      <4>1. drops = <<>>
        BY <2>2
      <4> HIDE DEF drops, end
      <4> QED BY <4>1
    <3> HIDE DEF g, new
    <3> QED BY <1>3, <1>4, <3>1, <3>2 DEF OnlyTable, SameBut
  <2> QED BY <2>1, <2>2
<1>7. /\ finalizers' \in [Plain -> Seq(Table)] /\ flagged' \in SUBSET Plain
      /\ \A k \in Plain : \A u : Contains(finalizers'[k], u) =>
                                   Contains(finalizers[k], u) \/ u = t
      /\ \A k \in Plain : \A u : k \in flagged /\ Contains(finalizers[k], u) =>
                                   k \in flagged' /\ Contains(finalizers'[k], u)
      /\ h.keylockp => \A k \in KeysOf(h) : k \in flagged' /\ Contains(finalizers'[k], t)
  <2>1. CASE h.keylockp
    <3>1. /\ finalizers' = [k \in Plain |-> IF k \in KeysOf(h)
                                      THEN Registered(finalizers, k, t)[k] ELSE finalizers[k]]
          /\ flagged' = flagged \cup KeysOf(h)
      BY <2>1 DEF RunRehash
    <3> HIDE DEF h, t
    <3>2. ASSUME NEW k \in Plain
          PROVE  /\ finalizers'[k] \in Seq(Table)
                 /\ \A u : Contains(finalizers'[k], u) => Contains(finalizers[k], u) \/ u = t
                 /\ \A u : Contains(finalizers[k], u) => Contains(finalizers'[k], u)
                 /\ k \in KeysOf(h) => Contains(finalizers'[k], t)
      <4>1. finalizers[k] \in Seq(Table)
        BY <1>4
      <4>2. CASE k \in KeysOf(h)
        <5>1. PICK records : records = Registered(finalizers, k, t)
          OBVIOUS
        <5>2. finalizers'[k] = records[k]
          BY <3>1, <4>2, <5>1
        <5>3. /\ records \in [Plain -> Seq(Table)]
              /\ \A u : Contains(records[k], u) <=> Contains(finalizers[k], u) \/ u = t
          BY <1>3, <1>4, <5>1, RegisteredProperties
        <5> QED BY <5>2, <5>3
      <4>3. CASE k \notin KeysOf(h)
        BY <3>1, <4>1, <4>3
      <4> QED BY <4>2, <4>3
    <3> QED BY <1>4, <1>5, <3>1, <3>2
  <2>2. CASE ~h.keylockp
    <3>1. finalizers' = finalizers /\ flagged' = flagged
      BY <2>2 DEF RunRehash
    <3> QED BY <1>4, <2>2, <3>1
  <2> QED BY <2>1, <2>2
<1>8. /\ Sound(g) /\ g # Gone /\ ~g.keylockp /\ Associations(g) = Associations(h)
      /\ KeysOf(g) = KeysOf(h) /\ g.size = h.size /\ g.nelems = h.nelems
  <2>1. h \in Structures(h.size) /\ h.size \in Nat /\ h.size >= 2
    BY <1>3 DEF Sound, TableOK
  <2>2. /\ g \in Structures(h.size) /\ g.table = h.table /\ g.size = h.size /\ g.nelems = h.nelems
        /\ ~g.keylockp
    BY <2>1 DEF Structures
  <2> HIDE DEF g, h
  <2>3. g.size # 0
    BY <2>1, <2>2
  <2> QED BY <1>3, <2>2, <2>3, SameChains, NotGone
<1>9. /\ drops \in Seq(Unlocks(KeysOf(h)))
      /\ \A b \in At : Occurrences(drops, {Unlock(b)}) = HeldBy(h, b) - HeldBy(g, b)
  <2>1. CASE h.keylockp
    <3>1. /\ unlocks \in Seq(Unlocks(KeysOf(h)))
          /\ \A b \in At : Occurrences(unlocks, {Unlock(b)}) = IF b \in KeysOf(h) THEN 1 ELSE 0
      <4>1. /\ unlocks \in Seq({Unlock(x) : x \in KeysOf(h)})
            /\ \A b \in At : Occurrences(unlocks, {Unlock(b)}) = IF b \in KeysOf(h) THEN 1 ELSE 0
        <5> DEFINE s == unlocks
        <5>1. s = [n \in 1..Len(Elements(h)) |-> Unlock(Reverse(Elements(h))[n].key)]
          OBVIOUS
        <5> HIDE DEF s, h
        <5> QED BY <1>3, <5>1, KeyDropsProperties
      <4> HIDE DEF unlocks
      <4> QED BY <4>1 DEF Unlocks
    <3> HIDE DEF unlocks, g, h
    <3>2. ASSUME NEW b \in At
          PROVE  HeldBy(h, b) - HeldBy(g, b) = IF b \in KeysOf(h) THEN 1 ELSE 0
      <4>1. Under(g, b) = Under(h, b) /\ Cardinality(Under(h, b)) \in Nat
        BY <1>8, HeldByType DEF Under
      <4> QED BY <1>8, <2>1, <4>1 DEF HeldBy
    <3> QED BY <2>1, <3>1, <3>2
  <2>2. CASE ~h.keylockp
    <3>1. drops = <<>> /\ g = h
      BY <2>2
    <3> HIDE DEF drops, g, h
    <3>2. drops \in Seq(Unlocks(KeysOf(h)))
      BY <3>1
    <3>3. ASSUME NEW b \in At
          PROVE  Occurrences(drops, {Unlock(b)}) = HeldBy(h, b) - HeldBy(g, b)
      <4>1. Occurrences(<<>>, {Unlock(b)}) = 0
        BY OccurrencesOne
      <4>2. HeldBy(h, b) \in Nat
        BY HeldByType
      <4> QED BY <3>1, <4>1, <4>2
    <3> QED BY <3>2, <3>3
  <2> QED BY <2>1, <2>2
<1>10. end \in Task /\ end.do = "recompute" /\ end.table = t /\ end.other = NIL
  BY <1>3 DEF Do, Task
<1> HIDE DEF drops, end, g, h, t
<1>11. /\ new \in Seq(Task) /\ N \in Nat /\ Len(new) = N + 1
       /\ \A i \in 1..N : new[i].do = "unlock" /\ new[i].at \in At /\ new[i] = Unlock(new[i].at)
       /\ new[N + 1] = end
       /\ \A X : Occurrences(new, X) = Occurrences(drops, X) + (IF end \in X THEN 1 ELSE 0)
       /\ \A i \in 1..(N + 1) : i \in 1..N \/ i = N + 1
       /\ \A d \in ToSet(new) : d.do \in {"unlock", "recompute"}
       /\ \A i \in DOMAIN new : new[i] \in ToSet(new)
  <2>1. KeysOf(h) \in SUBSET At
    BY <1>5, NilNotAt
  <2>2. UnlocksAnd(drops \o <<end>>, drops, KeysOf(h), end)
    BY <1>9, <1>10, <2>1, UnlocksThen
  <2> HIDE DEF new
  <2>3. UnlocksAnd(new, drops, KeysOf(h), end)
    BY <2>2 DEF new
  <2> QED BY <1>10, <2>1, <2>3 DEF UnlocksAnd
<1> HIDE DEF new, N
<1>12. /\ todo \in Seq(Task) /\ todo' \in Seq(Task)
       /\ \A X : /\ Occurrences(todo', X) = Occurrences(new, X) + Occurrences(todo, X)
                                            - (IF Head(todo) \in X THEN 1 ELSE 0)
                 /\ Occurrences(todo', X) \in Nat /\ Occurrences(todo, X) \in Nat
                 /\ Occurrences(new, X) \in Nat
       /\ ToSet(todo') = ToSet(new) \cup {todo[i] : i \in 2..Len(todo)}
       /\ ToSet(todo) = {Head(todo)} \cup {todo[i] : i \in 2..Len(todo)}
       /\ \A b : DoomedIn(todo', b) <=>
                 \/ DoomedIn(new, b)
                 \/ DoomedIn(todo, b) /\ ~(Head(todo).do \in Dooms /\ Head(todo).at = b)
  BY <1>1, <1>6, <1>11, NextStack
<1>13. \A d \in ToSet(new) : d.do \notin Accesses \cup Dooms \cup Deaths \cup Removals \cup {"delete", "zombify"}
  BY <1>11 DEF Accesses, Dooms, Deaths, Removals
<1>14. /\ DOMAIN htable' = Table /\ htable'[t] = g /\ h = htable[t]
       /\ \A u \in Table : u # t => htable'[u] = htable[u]
  BY <1>6 DEF OnlyTable, SameBut, h
<1>15. TypesOK'
  BY <1>1, <1>4, <1>7 DEF TypesOK
<1>16. TablesOK'
  <2>1. ASSUME NEW u PROVE Occurrences(todo', RemovalsOf(u)) = Occurrences(todo, RemovalsOf(u))
    <3>1. Head(todo) \notin RemovalsOf(u) /\ \A i \in DOMAIN new : new[i] \notin RemovalsOf(u)
      BY <1>1, <1>11 DEF RemovalsOf
    <3>2. Occurrences(new, RemovalsOf(u)) = 0
      BY <3>1, OccurrencesNone
    <3> QED BY <1>12, <3>1, <3>2
  <2>2. TableOK(g, Occurrences(todo', RemovalsOf(t)))
    BY <1>3, <1>8, <2>1 DEF TableOK
  <2>3. ASSUME NEW u \in Table
        PROVE  /\ TableOK(htable'[u], Occurrences(todo', RemovalsOf(u)))
               /\ status[u] = "free" => htable'[u] = Gone
    BY <1>3, <1>14, <2>1, <2>2 DEF IInv, TablesOK
  <2> QED BY <1>1, <1>14, <2>3 DEF TablesOK
<1>17. CountsOK'
  <2>1. ASSUME NEW b \in At
        PROVE  /\ HeldByTables(htable', b) + Occurrences(todo', {Unlock(b)})
                    = HeldByTables(htable, b) + Occurrences(todo, {Unlock(b)})
               /\ Occurrences(todo', {Unlock(b)}) \in Nat /\ Occurrences(todo, {Unlock(b)}) \in Nat
               /\ DoomedIn(todo', b) <=> DoomedIn(todo, b)
    <3>1. /\ HeldByTables(htable, b) \in Nat /\ HeldBy(h, b) \in Nat /\ HeldBy(g, b) \in Nat
          /\ HeldByTables(htable', b)
               = HeldByTables(htable, b) - HeldBy(h, b) + HeldBy(g, b)
      BY <1>3, <1>6, <1>14, TableChange
    <3>2. Occurrences(new, {Unlock(b)}) = HeldBy(h, b) - HeldBy(g, b)
      <4>1. end \notin {Unlock(b)}
        BY <1>10, UnlockEqual
      <4>2. Occurrences(drops, {Unlock(b)}) = HeldBy(h, b) - HeldBy(g, b)
        BY <1>9
      <4> QED BY <1>11, <3>1, <4>1, <4>2
    <3>3. Occurrences(todo', {Unlock(b)})
            = Occurrences(new, {Unlock(b)}) + Occurrences(todo, {Unlock(b)})
          /\ Occurrences(todo', {Unlock(b)}) \in Nat /\ Occurrences(todo, {Unlock(b)}) \in Nat
      <4>1. Head(todo) \notin {Unlock(b)}
        BY <1>1, UnlockEqual
      <4> QED BY <1>12, <4>1
    <3>4. DoomedIn(todo', b) <=> DoomedIn(todo, b)
      <4>1. ~DoomedIn(new, b) /\ Head(todo).do \notin Dooms
        BY <1>1, <1>13 DEF DoomedIn, Dooms
      <4> QED BY <1>12, <4>1
    <3> QED BY <3>1, <3>2, <3>3, <3>4
  <2> QED BY <1>1, <2>1, CountsStep
<1>18. ContentsLive'
  <2>1. \A u \in Table : /\ Associations(htable'[u]) = Associations(htable[u])
                         /\ htable'[u].keylockp => htable[u].keylockp
    BY <1>8, <1>14
  <2> QED BY <1>1, <2>1 DEF IInv, ContentsLive
<1>19. ASSUME NEW u, NEW k, <<u, k>> \in WeakIn(htable)'
       PROVE  /\ u \in Table /\ k \in Plain
              /\ \/ u = t /\ k \in KeysOf(h)
                 \/ u # t /\ <<u, k>> \in WeakIn(htable)
  BY <1>8, <1>14, <1>19 DEF WeakIn
<1>20. \A k, u : Head(todo) # Do("finalize", k, u, NIL)
  BY <1>1 DEF Do
<1>21. KeysRegistered'
  <2>1. ASSUME NEW u \in Table, NEW k \in Plain, <<u, k>> \in WeakIn(htable)'
        PROVE  \/ k \in flagged' /\ Contains(finalizers'[k], u)
               \/ Do("finalize", k, u, NIL) \in ToSet(todo')
    <3>1. CASE u = t /\ k \in KeysOf(h) /\ h.keylockp
      BY <1>7, <3>1
    <3>2. CASE <<u, k>> \in WeakIn(htable)
      <4>1. \/ k \in flagged /\ Contains(finalizers[k], u)
            \/ Do("finalize", k, u, NIL) \in ToSet(todo)
        BY <3>2 DEF IInv, KeysRegistered
      <4>2. Do("finalize", k, u, NIL) # Head(todo)
        BY <1>20
      <4> QED BY <1>7, <1>12, <4>1, <4>2
    <3>3. u = t /\ k \in KeysOf(h) /\ ~h.keylockp => <<u, k>> \in WeakIn(htable)
      BY <1>14 DEF WeakIn
    <3> QED BY <1>19, <2>1, <3>1, <3>2, <3>3
  <2> QED BY <2>1 DEF KeysRegistered
<1>22. LockedTables'
  <2>1. ASSUME NEW u \in Table, htable'[u].keylockp
        PROVE  /\ htable'[u].rehashp
               /\ \A k \in Plain : ~Contains(finalizers'[k], u)
               /\ \A d \in ToSet(todo') : d.do \in Removals => d.table # u
    <3>1. u # t /\ htable'[u] = htable[u] /\ htable[u].keylockp
      BY <1>8, <1>14, <2>1
    <3>2. \A k \in Plain : ~Contains(finalizers[k], u)
      BY <3>1 DEF IInv, LockedTables
    <3>3. \A d \in ToSet(new) : d.do \notin Removals
      BY <1>13
    <3> QED BY <1>7, <1>12, <3>1, <3>2, <3>3 DEF IInv, LockedTables
  <2>2. ASSUME NEW u \in Table, NEW k \in Plain, Contains(finalizers'[k], u)
        PROVE  htable'[u] # Gone
    <3>1. Contains(finalizers[k], u) \/ u = t
      BY <1>7, <2>2
    <3> QED BY <1>8, <1>14, <3>1 DEF IInv, LockedTables
  <2> QED BY <2>1, <2>2 DEF LockedTables
<1>23. Needs'
  <2>1. ASSUME NEW d \in ToSet(todo'), d.do \in Accesses \cup {"delete", "zombify"}
        PROVE  d = todo[2]
    BY <1>2, <1>12, <1>13, <2>1
  <2>2. /\ todo[2].do \notin {"delete", "zombify"} /\ held[t] > 0
        /\ held[todo[2].at] > 0
        /\ todo[2].do = "set" => status[todo[2].at] # "zombie"
        /\ todo[2].other # NIL => held[todo[2].other] > 0
    BY <1>2, <1>3 DEF IInv, Needs, Accesses
  <2>3. htable'[t] # Gone /\ ~htable'[t].keylockp
    BY <1>8, <1>14
  <2>4. held' = held /\ status' = status
    BY <1>1
  <2> QED BY <1>2, <2>1, <2>2, <2>3, <2>4 DEF Needs
<1>24. Shape(todo')
  <2>1. ASSUME NEW j \in 1..(N + 1) PROVE NewTask(todo, new, j)
    <3>1. CASE j \in 1..N
      BY <1>11, <3>1 DEF NewTask, Dooms, Removals
    <3>2. CASE j = N + 1
      BY <1>2, <1>10, <1>11, <3>2 DEF NewTask, Dooms, Removals
    <3> QED BY <1>11, <3>1, <3>2
  <2> QED BY <1>1, <1>6, <1>11, <2>1, ShapeKept
<1>25. \A j \in 1..Len(new) : new[j].do \notin Dooms \cup Deaths
  <2>1. DOMAIN new = 1..Len(new)
    BY <1>11, LenProperties
  <2> QED BY <1>11, <1>13, <2>1
<1>26. DiesOnce(todo')
  <2>1. DiesOnce(new)
    BY <1>25 DEF DiesOnce
  <2>2. todo # <<>> /\ new \in Seq(Task) /\ todo' = new \o Tail(todo)
    BY <1>1, <1>6, <1>11
  <2> QED BY <1>1, <1>12, <1>25, <2>1, <2>2, DiesOnceKept
<1>27. GoFirst(todo', WeakIn(htable)')
  <2>1. PICK later : later = WeakIn(htable)'
    OBVIOUS
  <2>2. GoFirst(new, later)
    BY <1>25 DEF GoFirst
  <2>3. \A k \in 2..Len(todo) : todo[k].do \in Deaths =>
          \A u \in Table : <<u, todo[k].at>> \in later => <<u, todo[k].at>> \in WeakIn(htable)
    BY <1>2 DEF Accesses, Deaths
  <2>4. todo # <<>> /\ todo \in Seq(Task) /\ new \in Seq(Task) /\ todo' = new \o Tail(todo)
    BY <1>1, <1>6, <1>11, <1>12
  <2>5. GoFirst(todo', later)
    BY <1>1, <1>20, <2>2, <2>3, <2>4, GoFirstKept
  <2> QED BY <2>1, <2>5
<1>28. Shape(todo)' /\ DiesOnce(todo)' /\ GoFirst(todo, WeakIn(htable))'
  BY <1>24, <1>26, <1>27
<1> QED BY <1>15, <1>16, <1>17, <1>18, <1>21, <1>22, <1>23, <1>28 DEF IInv

LEMMA RecomputeKeeps ==
  ASSUME IInv, RunRecompute
  PROVE  IInv'
<1> DEFINE t == task.table
           h == htable[t]
           stale == \/ task.other # NIL /\ task.other \notin KeysOf(h)
                    \/ \E e \in Associations(h) : "free" \in {status[e.key], status[e.value]}
           r == htable_resize(h, h.size)
           g == [r EXCEPT !.rehashp = FALSE]
           new == <<>>
<1>1. /\ todo # <<>> /\ Head(todo).do = "recompute" /\ task = Head(todo)
      /\ Shape(todo) /\ Head(todo) = todo[1]
  BY HeadTask DEF RunRecompute, Running, IInv, task
<1>2. /\ Len(todo) = 2 /\ todo[2] \in ToSet(todo)
      /\ todo[2].do \in Accesses /\ todo[2].table = t
  <2>1. Len(todo) \in Nat /\ 1 = Len(todo) - 1
        /\ todo[Len(todo)].do \in Accesses /\ todo[Len(todo)].table = t
    BY <1>1, HeadTask DEF TaskShape
  <2>2. Len(todo) = 2
    BY <2>1
  <2>3. DOMAIN todo = 1..2
    BY <1>1, <2>2, LenProperties DEF Shape
  <2> QED BY <2>1, <2>2, <2>3 DEF ToSet
<1>3. /\ t \in Table /\ h # Gone /\ ~h.keylockp
      /\ TableOK(h, Occurrences(todo, RemovalsOf(t))) /\ Sound(h)
  <2>1. t \in Table
    BY <1>1, <1>2, TaskAts
  <2>2. h # Gone /\ ~h.keylockp
    BY <1>1, <1>2 DEF IInv, Needs
  <2> QED BY <2>1, <2>2 DEF IInv, TablesOK, TableOK
<1>4. \A e \in Associations(h) : ~Zombie(e)
  <2> TAKE e \in Associations(h)
  <2>1. e \in Assoc
    BY <1>3, SoundProperties
  <2>2. e.value \in At
    BY <2>1 DEF Assoc
  <2>3. status[e.key] = "live" /\ e.value \notin Mortal
    BY <1>3 DEF IInv, ContentsLive
  <2>4. status[e.value] # "zombie"
    BY <2>2, <2>3 DEF IInv, ContentsLive
  <2> QED BY <2>3, <2>4 DEF Zombie
<1>5. CASE TouchesFreed(stale)
  BY <1>5, WildKeeps DEF TouchesFreed
<1>6. ASSUME NEW b \in DOMAIN h.table, NEW i \in DOMAIN h.table[b], Zombie(h.table[b][i])
      PROVE  FALSE
  <2>1. <<b, i>> \in Places(h.table) /\ <<b, i>>[1] = b /\ <<b, i>>[2] = i
    BY DEF Places
  <2>2. h.table[b][i] \in Associations(h)
    <3> HIDE DEF h
    <3> QED BY <2>1 DEF Associations
  <2> QED BY <1>4, <1>6, <2>2
<1>7. CASE /\ ~stale
           /\ htable' = [htable EXCEPT ![t] = g]
           /\ Then(<<>>)
           /\ UNCHANGED <<objects, finalizers, wild>>
  <2>1. h.size \in Nat \ {0} /\ h.size >= 2
        /\ h.nelems = Cardinality(KeysOf(h)) + Occurrences(todo, RemovalsOf(t))
        /\ 3 * (h.nelems - 1) <= 2 * h.size
    BY <1>3 DEF TableOK, Sound
  <2> HIDE DEF h
  <2>2. /\ Sound(r) /\ Associations(r) = Associations(h) /\ KeysOf(r) = KeysOf(h)
        /\ r.size = h.size /\ r.nelems = h.nelems
        /\ r.keylockp = h.keylockp
        /\ r \in Structures(h.size)
    BY <1>3, <2>1, ResizeProperties
  <2> HIDE DEF r
  <2>3. /\ g \in Structures(r.size) /\ g.table = r.table /\ g.size = h.size /\ g.nelems = h.nelems
        /\ g.keylockp = h.keylockp
    BY <2>2 DEF Structures
  <2> HIDE DEF g
  <2>4. Sound(g) /\ Associations(g) = Associations(h) /\ KeysOf(g) = KeysOf(h)
    BY <2>2, <2>3, SameChains
  <2>5. g # Gone
    <3>1. g.size # 0
      BY <2>1, <2>3
    <3> QED BY <3>1, NotGone
  <2>6. /\ new \in Seq(Task) /\ todo' = new \o Tail(todo)
        /\ Len(new) = 0 /\ 1..0 = {} /\ DOMAIN new = {} /\ ToSet(new) = {}
    BY <1>7 DEF Then, ToSet
  <2> HIDE DEF new
  <2>7. \A X : Occurrences(new, X) = 0
    BY <2>6, OccurrencesNone
  <2>8. Occurrences(todo', RemovalsOf(t)) = Occurrences(todo, RemovalsOf(t))
    <3>1. Occurrences(todo', RemovalsOf(t)) = Occurrences(new, RemovalsOf(t))
            + Occurrences(todo, RemovalsOf(t)) - (IF Head(todo) \in RemovalsOf(t) THEN 1 ELSE 0)
          /\ Occurrences(todo, RemovalsOf(t)) \in Nat
      BY <1>1, <2>6, NextStack
    <3>2. Occurrences(new, RemovalsOf(t)) = 0 /\ Head(todo) \notin RemovalsOf(t)
      BY <1>1, <2>7 DEF RemovalsOf
    <3> QED BY <3>1, <3>2
  <2>9. TableOK(g, Occurrences(todo', RemovalsOf(t)))
    <3>1. g.size >= 2 /\ g.nelems = Cardinality(KeysOf(g)) + Occurrences(todo', RemovalsOf(t))
          /\ 3 * (g.nelems - 1) <= 2 * g.size
      BY <2>1, <2>3, <2>4, <2>8
    <3> QED BY <2>4, <3>1 DEF TableOK
  <2>10. \A a \in At : Occurrences(new, {Unlock(a)}) = HeldBy(h, a) - HeldBy(g, a)
    <3> TAKE a \in At
    <3>1. HeldBy(g, a) = HeldBy(h, a)
      BY <2>3, <2>4 DEF HeldBy, Under
    <3>2. HeldBy(h, a) \in Nat
      BY HeldByType
    <3> QED BY <2>7, <3>1, <3>2
  <2>11. DOMAIN htable = Table /\ htable' = [htable EXCEPT ![t] = g]
    BY <1>7 DEF IInv, TablesOK
  <2>12. OnlyTable(t, g)
    BY <1>3, <2>11 DEF OnlyTable, SameBut
  <2>13. \A k : Head(todo) # Do("finalize", k, t, NIL)
    BY <1>1 DEF Do
  <2>14. h = htable[t]
    BY DEF h
  <2>15. \A d \in ToSet(new) \cup {Head(todo)} : d.do \notin Removals
    BY <1>1, <2>6 DEF Removals
  <2>16. \A j \in 1..Len(new) :
           NewTask(todo, new, j) /\ new[j].do \in {"unlock", "finalize", "finalized"}
    BY <2>6
  <2> HIDE DEF t
  <2>17. Takes(new, t, g)
    BY <1>1, <1>3, <2>3, <2>4, <2>5, <2>9, <2>10, <2>13, <2>14, <2>15, <2>16 DEF Takes
  <2> QED BY <1>1, <1>3, <1>7, <2>6, <2>12, <2>17, TakesKeeps
<1> QED BY <1>5, <1>6, <1>7 DEF RunRecompute

-----------------------------------------------------------------------------
(* What lisp code starts, and the accesses after a rehash: nothing is dying. *)

AtRest ==
  /\ TypesOK /\ CountsOK /\ ContentsLive
  /\ DOMAIN htable = Table
  /\ \A t \in Table : /\ TableOK(htable[t], 0)
                      /\ status[t] = "free" => htable[t] = Gone
  /\ \A t \in Table, k \in Plain :
       <<t, k>> \in WeakIn(htable) => k \in flagged /\ Contains(finalizers[k], t)
  /\ \A t \in Table : htable[t].keylockp =>
       htable[t].rehashp /\ \A k \in Plain : ~Contains(finalizers[k], t)
  /\ \A t \in Table, k \in Plain : Contains(finalizers[k], t) => htable[t] # Gone

Beginnings == {"unlock", "purge", "delete", "rehash", "set", "get"}
Begins == \A d \in ToSet(todo) : d.do \in Beginnings

LEMMA InvAtRest ==
  ASSUME IInv, todo = <<>> \/ Head(todo).do \in Accesses
  PROVE  /\ AtRest
         /\ todo # <<>> => Tail(todo) = <<>> /\ Head(todo) \in ToSet(todo)
         /\ \A a \in At : /\ count[a] = held[a] + HeldByTables(htable, a)
                          /\ (count[a] = 0) <=> (status[a] = "free")
                          /\ count[a] \in Nat /\ held[a] \in Nat /\ HeldByTables(htable, a) \in Nat
<1>1. Shape(todo) /\ todo \in Seq(Task) /\ DOMAIN todo = 1..Len(todo) /\ Len(todo) \in Nat
  <2>1. Shape(todo) /\ todo \in Seq(Task)
    BY DEF IInv, Shape
  <2> QED BY <2>1, LenProperties
<1>2. ASSUME todo # <<>>
      PROVE  Len(todo) = 1 /\ Head(todo) = todo[1] /\ Head(todo).do \in Accesses
             /\ Head(todo) \in ToSet(todo)
  <2>1. Head(todo) = todo[1] /\ TaskShape(todo, 1) /\ Head(todo) \in ToSet(todo)
    BY <1>1, <1>2, HeadTask
  <2> QED BY <1>2, <2>1 DEF TaskShape
<1>3. todo # <<>> => Tail(todo) = <<>>
  <2>1. ASSUME todo # <<>> PROVE Tail(todo) = <<>>
    <3>1. Tail(todo) \in Seq(Task) /\ Len(Tail(todo)) = Len(todo) - 1
      BY <1>1, <2>1, HeadTailProperties
    <3>2. Len(Tail(todo)) = 0
      BY <1>2, <2>1, <3>1
    <3> QED BY <3>1, <3>2, EmptySeq
  <2> QED BY <2>1
<1>4. \A i \in DOMAIN todo : todo[i].do \in Accesses
  <2>1. CASE todo = <<>>
    BY <2>1
  <2>2. CASE todo # <<>>
    <3>1. \A i \in DOMAIN todo : i = 1
      <4>1. DOMAIN todo = 1..Len(todo) /\ Len(todo) = 1
        BY <1>1, <1>2, <2>2
      <4>2. DOMAIN todo = 1..1
        BY <4>1
      <4> QED BY <4>2
    <3> QED BY <1>2, <2>2, <3>1
  <2> QED BY <2>1, <2>2
<1>5. \A d \in ToSet(todo) : d.do \in Accesses
  BY <1>4 DEF ToSet
<1>6. \A t : Occurrences(todo, RemovalsOf(t)) = 0
  <2> TAKE t
  <2>1. \A i \in DOMAIN todo : todo[i] \notin RemovalsOf(t)
    BY <1>4 DEF RemovalsOf, Accesses
  <2> QED BY <2>1, OccurrencesNone
<1>7. ASSUME NEW a \in At PROVE Occurrences(todo, {Unlock(a)}) = 0 /\ ~DoomedIn(todo, a)
  <2>1. \A i \in DOMAIN todo : todo[i] \notin {Unlock(a)}
    BY <1>4, UnlockEqual DEF Accesses
  <2>2. ~DoomedIn(todo, a)
    BY <1>5 DEF DoomedIn, Dooms, Accesses
  <2> QED BY <2>1, <2>2, OccurrencesNone
<1>8. ASSUME NEW a \in At
      PROVE  /\ count[a] = held[a] + HeldByTables(htable, a)
             /\ (count[a] = 0) <=> (status[a] = "free")
             /\ count[a] \in Nat /\ held[a] \in Nat /\ HeldByTables(htable, a) \in Nat
  <2>1. /\ count[a] = held[a] + Occurrences(todo, {Unlock(a)}) + HeldByTables(htable, a)
        /\ (count[a] = 0) <=> (status[a] = "free" \/ DoomedIn(todo, a))
        /\ count[a] \in Nat /\ held[a] \in Nat /\ HeldByTables(htable, a) \in Nat
    BY CountFacts
  <2> QED BY <1>7, <2>1
<1>9. AtRest
  <2>1. TypesOK /\ CountsOK /\ ContentsLive
    BY DEF IInv
  <2>2. DOMAIN htable = Table /\ \A t \in Table : /\ TableOK(htable[t], 0)
                                                  /\ status[t] = "free" => htable[t] = Gone
    BY <1>6 DEF IInv, TablesOK
  <2>3. \A t, k : Do("finalize", k, t, NIL) \notin ToSet(todo)
    BY <1>5 DEF Do, Accesses
  <2>4. \A t \in Table, k \in Plain :
          <<t, k>> \in WeakIn(htable) => k \in flagged /\ Contains(finalizers[k], t)
    BY <2>3 DEF IInv, KeysRegistered
  <2>5. /\ \A t \in Table : htable[t].keylockp =>
             htable[t].rehashp /\ \A k \in Plain : ~Contains(finalizers[k], t)
        /\ \A t \in Table, k \in Plain : Contains(finalizers[k], t) => htable[t] # Gone
    BY DEF IInv, LockedTables
  <2> QED BY <2>1, <2>2, <2>4, <2>5 DEF AtRest
<1> QED BY <1>2, <1>3, <1>8, <1>9

LEMMA RestIsInv ==
  AtRest /\ Shape(todo) /\ Needs /\ Begins => IInv
<1> SUFFICES ASSUME AtRest, Shape(todo), Needs, \A d \in ToSet(todo) : d.do \in Beginnings
             PROVE  IInv
  BY DEF Begins
<1>1. todo \in Seq(Task) /\ DOMAIN todo = 1..Len(todo)
  BY LenProperties DEF Shape
<1>2. \A i \in 1..Len(todo) : todo[i].do \in Beginnings /\ TaskShape(todo, i)
  BY <1>1 DEF ToSet, Shape
<1>3. TablesOK
  <2>1. ASSUME NEW t PROVE Occurrences(todo, RemovalsOf(t)) = 0
    <3>1. \A i \in DOMAIN todo : todo[i] \notin RemovalsOf(t)
      BY <1>1, <1>2 DEF RemovalsOf, Beginnings
    <3> QED BY <3>1, OccurrencesNone
  <2> QED BY <2>1 DEF AtRest, TablesOK
<1>4. KeysRegistered
  BY DEF AtRest, KeysRegistered
<1>5. LockedTables
  BY DEF AtRest, LockedTables, Removals, Beginnings
<1>6. DiesOnce(todo)
  <2>1. \A i \in 1..Len(todo) : todo[i].do \in Dooms => i = 1
    BY <1>2 DEF Beginnings, Dooms, TaskShape
  <2> QED BY <2>1 DEF DiesOnce
<1>7. GoFirst(todo, WeakIn(htable))
  BY <1>2 DEF GoFirst, Deaths, Beginnings
<1> QED BY <1>3, <1>4, <1>5, <1>6, <1>7 DEF AtRest, IInv

\* Most lisp functions leave at most one reference to drop.
Few(s) ==
  \/ s = <<>>
  \/ \E a \in At : s = <<Unlock(a)>> \/ s = <<Do("purge", a, NIL, NIL)>>

LEMMA FewIsInv ==
  AtRest /\ Few(todo) => IInv
<1> SUFFICES ASSUME AtRest, Few(todo)
             PROVE  Shape(todo) /\ Needs /\ (\A d \in ToSet(todo) : d.do \in Beginnings)
  BY RestIsInv DEF Begins
<1>1. CASE todo = <<>>
  <2>1. todo \in Seq(Task) /\ 1..Len(todo) = {} /\ ToSet(todo) = {}
    BY <1>1 DEF ToSet
  <2> QED BY <2>1 DEF Shape, Needs
<1>2. ASSUME NEW a \in At, NEW d \in {Unlock(a), Do("purge", a, NIL, NIL)}, todo = <<d>>
      PROVE  Shape(todo) /\ Needs /\ (\A x \in ToSet(todo) : x.do \in Beginnings)
  <2>1. d \in Task /\ d.at = a /\ d.do \in {"unlock", "purge"} /\ (d.do = "unlock" => d = Unlock(d.at))
    BY DEF Unlock, Do, Task
  <2>2. todo \in Seq(Task) /\ Len(todo) = 1 /\ todo[1] = d /\ 1..1 = {1} /\ ToSet(todo) = {d}
    BY <1>2, <2>1 DEF ToSet
  <2>3. TaskShape(todo, 1)
    BY <2>1, <2>2 DEF TaskShape, Dooms, Removals, Accesses
  <2> QED BY <2>1, <2>2, <2>3 DEF Shape, Needs, Beginnings, Accesses
<1> QED BY <1>1, <1>2 DEF Few

\* What every change of one table by htable_set has in common.
Stores(t, g) ==
  /\ OnlyTable(t, g) /\ TableOK(g, 0)
  /\ g # Gone /\ htable[t] # Gone /\ ~htable[t].keylockp /\ ~g.keylockp
  /\ \A e \in Associations(g) : status[e.key] = "live" /\ e.value \notin Mortal
  /\ flagged' \in SUBSET Plain /\ flagged \in SUBSET flagged'
  /\ finalizers' \in [Plain -> Seq(Table)]
  /\ \A u \in Table, k \in Plain :
       /\ Contains(finalizers[k], u) => Contains(finalizers'[k], u)
       /\ Contains(finalizers'[k], u) => Contains(finalizers[k], u) \/ u = t
  /\ \A k \in KeysOf(g) : k \in KeysOf(htable[t]) \/ (k \in flagged' /\ Contains(finalizers'[k], t))
  /\ count' \in [At -> Nat]
  /\ \A a \in At :
       /\ count'[a] + HeldBy(htable[t], a)
            = count[a] + Occurrences(todo', {Unlock(a)}) + HeldBy(g, a)
       /\ (count'[a] = 0) <=> (count[a] = 0)
       /\ Occurrences(todo', {Unlock(a)}) \in Nat
       /\ ~DoomedIn(todo', a)

LEMMA StoresKeeps ==
  ASSUME IInv, todo = <<>> \/ Head(todo).do \in Accesses, Few(todo'),
         UNCHANGED <<status, held, wild>>,
         NEW t \in Table, NEW g, Stores(t, g)
  PROVE  IInv'
<1>1. /\ AtRest
      /\ \A a \in At : /\ count[a] = held[a] + HeldByTables(htable, a)
                       /\ (count[a] = 0) <=> (status[a] = "free")
                       /\ count[a] \in Nat /\ held[a] \in Nat
  BY InvAtRest
<1>2. /\ Sound(htable[t]) /\ DOMAIN htable' = Table /\ htable'[t] = g
      /\ \A u \in Table : u # t => htable'[u] = htable[u]
      /\ \A a : /\ HeldByTables(htable, a) \in Nat /\ HeldByTables(htable', a) \in Nat
                /\ HeldBy(htable[t], a) \in Nat /\ HeldBy(g, a) \in Nat
                /\ HeldByTables(htable', a)
                     = HeldByTables(htable, a) - HeldBy(htable[t], a) + HeldBy(g, a)
  <2>1. OnlyTable(t, g)
    BY DEF Stores
  <2> QED BY <2>1, TableChange
<1>3. TypesOK'
  BY <1>1 DEF AtRest, TypesOK, Stores
<1>4. CountsOK'
  <2> SUFFICES ASSUME NEW a \in At
               PROVE  /\ count'[a] = held[a] + Occurrences(todo', {Unlock(a)}) + HeldByTables(htable', a)
                      /\ (count'[a] = 0) <=> (status[a] = "free" \/ DoomedIn(todo', a))
    BY DEF CountsOK
  <2>1. /\ count'[a] + HeldBy(htable[t], a)
            = count[a] + Occurrences(todo', {Unlock(a)}) + HeldBy(g, a)
        /\ (count'[a] = 0) <=> (count[a] = 0)
        /\ Occurrences(todo', {Unlock(a)}) \in Nat /\ count'[a] \in Nat
        /\ ~DoomedIn(todo', a)
    BY DEF Stores
  <2>2. /\ count[a] = held[a] + HeldByTables(htable, a)
        /\ (count[a] = 0) <=> (status[a] = "free")
        /\ count[a] \in Nat /\ held[a] \in Nat
    BY <1>1
  <2>3. /\ HeldByTables(htable, a) \in Nat /\ HeldByTables(htable', a) \in Nat
        /\ HeldBy(htable[t], a) \in Nat /\ HeldBy(g, a) \in Nat
        /\ HeldByTables(htable', a)
             = HeldByTables(htable, a) - HeldBy(htable[t], a) + HeldBy(g, a)
    BY <1>2
  <2>4. count'[a] = held[a] + Occurrences(todo', {Unlock(a)}) + HeldByTables(htable', a)
    <3>1. PICK b : b = HeldBy(htable[t], a)
      OBVIOUS
    <3>2. PICK f : f = HeldBy(g, a)
      OBVIOUS
    <3>3. PICK o : o = Occurrences(todo', {Unlock(a)})
      OBVIOUS
    <3>4. PICK x : x = HeldByTables(htable, a)
      OBVIOUS
    <3>5. PICK y : y = HeldByTables(htable', a)
      OBVIOUS
    <3>6. PICK c : c = count[a]
      OBVIOUS
    <3>7. PICK d : d = count'[a]
      OBVIOUS
    <3>8. PICK h : h = held[a]
      OBVIOUS
    <3>9. /\ b \in Nat /\ f \in Nat /\ o \in Nat /\ x \in Nat
          /\ y \in Nat /\ c \in Nat /\ d \in Nat /\ h \in Nat
      BY <2>1, <2>2, <2>3, <3>1, <3>2, <3>3, <3>4, <3>5, <3>6, <3>7, <3>8
    <3>10. d + b = c + o + f
      BY <2>1, <3>1, <3>2, <3>3, <3>6, <3>7
    <3>11. c = h + x
      BY <2>2, <3>4, <3>6, <3>8
    <3>12. y = x - b + f
      BY <2>3, <3>1, <3>2, <3>4, <3>5
    <3>13. d = h + o + y
      BY <3>9, <3>10, <3>11, <3>12
    <3> QED BY <3>3, <3>5, <3>7, <3>8, <3>13
  <2> QED BY <2>1, <2>2, <2>4
<1>5. ContentsLive'
  <2>1. /\ \A a \in At : status[a] = "zombie" => a \in Mortal
        /\ \A u \in Table : \A e \in Associations(htable[u]) :
             /\ status[e.key] = "live"
             /\ e.value \notin Mortal
             /\ htable[u].keylockp => e.key \notin Mortal
    BY <1>1 DEF AtRest, ContentsLive
  <2>2. ASSUME NEW u \in Table, NEW e \in Associations(htable'[u])
        PROVE  /\ status[e.key] = "live" /\ e.value \notin Mortal
               /\ htable'[u].keylockp => e.key \notin Mortal
    <3>1. CASE u = t
      BY <1>2, <2>2, <3>1 DEF Stores
    <3>2. CASE u # t
      BY <1>2, <2>1, <2>2, <3>2
    <3> QED BY <3>1, <3>2
  <2> QED BY <2>1, <2>2 DEF ContentsLive
<1>6. \A u \in Table : /\ TableOK(htable'[u], 0)
                       /\ status'[u] = "free" => htable'[u] = Gone
  <2> TAKE u \in Table
  <2>1. TableOK(htable[u], 0) /\ (status[u] = "free" => htable[u] = Gone)
    BY <1>1 DEF AtRest
  <2>2. CASE u = t
    BY <1>2, <2>1, <2>2 DEF Stores
  <2>3. CASE u # t
    BY <1>2, <2>1, <2>3
  <2> QED BY <2>2, <2>3
<1>7. \A u \in Table, k \in Plain :
        <<u, k>> \in WeakIn(htable') => k \in flagged' /\ Contains(finalizers'[k], u)
  <2> SUFFICES ASSUME NEW u \in Table, NEW k \in Plain, <<u, k>> \in WeakIn(htable')
               PROVE  k \in flagged' /\ Contains(finalizers'[k], u)
    OBVIOUS
  <2>1. ~htable'[u].keylockp /\ k \in KeysOf(htable'[u])
    BY DEF WeakIn
  <2>2. CASE <<u, k>> \in WeakIn(htable)
    <3>1. k \in flagged /\ Contains(finalizers[k], u)
      BY <1>1, <2>2 DEF AtRest
    <3> QED BY <3>1 DEF Stores
  <2>3. CASE <<u, k>> \notin WeakIn(htable)
    <3>1. u = t
      BY <1>2, <2>1, <2>3 DEF WeakIn
    <3>2. k \in KeysOf(g) /\ k \notin KeysOf(htable[t])
      BY <1>2, <2>1, <2>3, <3>1 DEF WeakIn, Stores
    <3> QED BY <3>1, <3>2 DEF Stores
  <2> QED BY <2>2, <2>3
<1>8. \A u \in Table : htable'[u].keylockp =>
        htable'[u].rehashp /\ \A k \in Plain : ~Contains(finalizers'[k], u)
  <2> SUFFICES ASSUME NEW u \in Table, htable'[u].keylockp
               PROVE  htable'[u].rehashp /\ \A k \in Plain : ~Contains(finalizers'[k], u)
    OBVIOUS
  <2>1. u # t
    BY <1>2 DEF Stores
  <2>2. htable'[u] = htable[u]
    BY <1>2, <2>1
  <2>3. htable[u].rehashp /\ \A k \in Plain : ~Contains(finalizers[k], u)
    BY <1>1, <2>2 DEF AtRest
  <2> QED BY <2>1, <2>2, <2>3 DEF Stores
<1>9. \A u \in Table, k \in Plain : Contains(finalizers'[k], u) => htable'[u] # Gone
  <2> SUFFICES ASSUME NEW u \in Table, NEW k \in Plain, Contains(finalizers'[k], u)
               PROVE  htable'[u] # Gone
    OBVIOUS
  <2>1. CASE u = t
    BY <1>2, <2>1 DEF Stores
  <2>2. CASE u # t
    <3>1. Contains(finalizers[k], u)
      BY <2>2 DEF Stores
    <3> QED BY <1>1, <1>2, <2>2, <3>1 DEF AtRest
  <2> QED BY <2>1, <2>2
<1>10. AtRest'
  BY <1>2, <1>3, <1>4, <1>5, <1>6, <1>7, <1>8, <1>9 DEF AtRest
<1>11. (AtRest /\ Few(todo))' => IInv'
  BY FewIsInv, PTL
<1> QED BY <1>10, <1>11

\* The state in which htable_set and htable_get do their work.
Ready(t, k) ==
  /\ todo = <<>> \/ Head(todo).do \in Accesses
  /\ htable[t] # Gone /\ ~htable[t].keylockp
  /\ held[k] > 0

LEMMA ReadyFacts ==
  ASSUME IInv, NEW t \in Table, NEW k \in Key, Ready(t, k), NEW h, h = htable[t]
  PROVE  /\ TypesOK /\ DOMAIN htable = Table
         /\ Sound(h) /\ h.size \in Nat /\ h.size >= 2 /\ h.nelems \in Nat
         /\ h.nelems = Cardinality(KeysOf(h)) /\ 3 * (h.nelems - 1) <= 2 * h.size
         /\ k \in Plain /\ k \in At /\ status[k] \in {"live", "zombie"}
         /\ \A e \in Associations(h) : status[e.key] = "live" /\ e.value \notin Mortal
         /\ Place(h, k) # 0 <=> k \in KeysOf(h)
<1>1. /\ AtRest
      /\ \A a \in At : /\ count[a] = held[a] + HeldByTables(htable, a)
                       /\ (count[a] = 0) <=> (status[a] = "free")
                       /\ count[a] \in Nat /\ held[a] \in Nat /\ HeldByTables(htable, a) \in Nat
  BY InvAtRest DEF Ready
<1>2. k \in Plain /\ k \in At /\ h # Gone
  BY NilNotAt DEF Ready
<1>3. TypesOK /\ DOMAIN htable = Table /\ TableOK(h, 0)
  BY <1>1 DEF AtRest
<1>4. /\ Sound(h) /\ h.size >= 2 /\ h.nelems = Cardinality(KeysOf(h)) + 0
      /\ 3 * (h.nelems - 1) <= 2 * h.size
  BY <1>2, <1>3 DEF TableOK
<1>5. h.size \in Nat /\ h.nelems \in Nat /\ Cardinality(KeysOf(h)) \in Nat
  BY <1>4, SoundProperties
<1>6. h.nelems = Cardinality(KeysOf(h)) /\ h.size # 0
  BY <1>4, <1>5
<1>7. Place(h, k) # 0 <=> k \in KeysOf(h)
  BY <1>2, <1>4, <1>6, PlaceFinds
<1>8. status[k] \in {"live", "zombie"}
  <2>1. count[k] = held[k] + HeldByTables(htable, k) /\ (count[k] = 0 <=> status[k] = "free")
        /\ held[k] \in Nat /\ HeldByTables(htable, k) \in Nat
    BY <1>1, <1>2
  <2>2. held[k] > 0
    BY DEF Ready
  <2>3. count[k] # 0
    BY <2>1, <2>2
  <2> QED BY <1>2, <1>3, <2>1, <2>3 DEF TypesOK
<1>9. \A e \in Associations(h) : status[e.key] = "live" /\ e.value \notin Mortal
  BY <1>1 DEF AtRest, ContentsLive
<1> QED BY <1>2, <1>3, <1>4, <1>5, <1>6, <1>7, <1>8, <1>9

\* The element of a key that is found.
LEMMA FoundFacts ==
  ASSUME NEW h, Sound(h), h.size # 0, NEW k \in Plain, Place(h, k) # 0,
         NEW w, w = h.table[Bucket(h, k)][Place(h, k)].value
  PROVE  /\ <<Bucket(h, k), Place(h, k)>> \in Places(h.table)
         /\ h.table[Bucket(h, k)][Place(h, k)] = [key |-> k, value |-> w]
         /\ [key |-> k, value |-> w] \in Associations(h)
         /\ w \in At /\ k \in KeysOf(h)
         /\ OnlyValue(h, k, w)
<1> DEFINE b == Bucket(h, k)
           i == Place(h, k)
           e == h.table[b][i]
<1>1. <<b, i>> \in Places(h.table) /\ e.key = k /\ k \in KeysOf(h)
  BY PlaceFinds
<1>2. e \in Associations(h)
  <2>1. <<b, i>>[1] = b /\ <<b, i>>[2] = i
    OBVIOUS
  <2> QED BY <1>1, <2>1 DEF Associations
<1>3. /\ Associations(h) \in SUBSET Assoc
      /\ \A f, d \in Associations(h) : f.key = d.key => f = d
  BY SoundProperties
<1> HIDE DEF b, i
<1>4. e = [key |-> k, value |-> w] /\ w \in At
  <2>1. e.value = w
    BY DEF b, i
  <2> HIDE DEF e
  <2> QED BY <1>1, <1>2, <1>3, <2>1 DEF Assoc
<1>5. OnlyValue(h, k, w)
  <2>1. ASSUME NEW f \in Associations(h), f.key = k PROVE f.value = w
    <3>1. f = e
      BY <1>1, <1>2, <1>3, <2>1
    <3> QED BY <1>4, <3>1
  <2> QED BY <2>1 DEF OnlyValue
<1>6. e = h.table[Bucket(h, k)][Place(h, k)]
  BY DEF b, i
<1>7. <<Bucket(h, k), Place(h, k)>> \in Places(h.table)
  BY <1>1 DEF b, i
<1> HIDE DEF e
<1> QED BY <1>1, <1>2, <1>4, <1>5, <1>6, <1>7

\* An object that lisp code has and that is not deleted may be stored.
LEMMA StoredFacts ==
  ASSUME IInv, DeletedNotStored, NEW t \in Table, NEW k \in Key, Ready(t, k),
         NEW v \in Value, held[v] > 0
  PROVE  v \in At /\ v \notin Mortal /\ count[v] \in Nat \ {0}
<1>1. v \in At /\ v \notin Mortal
  BY NilNotAt DEF DeletedNotStored
<1>2. count[v] = held[v] + HeldByTables(htable, v) /\ count[v] \in Nat /\ held[v] \in Nat
      /\ HeldByTables(htable, v) \in Nat
  BY <1>1, InvAtRest DEF Ready
<1> QED BY <1>1, <1>2

LEMMA OneDropped ==
  ASSUME NEW w \in At, NEW s, s = <<Unlock(w)>>
  PROVE  /\ Few(s)
         /\ \A a \in At : /\ Occurrences(s, {Unlock(a)}) = IF w = a THEN 1 ELSE 0
                          /\ ~DoomedIn(s, a)
<1>1. Few(s)
  BY DEF Few
<1>2. \A a \in At : Occurrences(s, {Unlock(a)}) = IF w = a THEN 1 ELSE 0
  <2> TAKE a \in At
  <2>1. Occurrences(s, {Unlock(a)}) = IF Unlock(w) \in {Unlock(a)} THEN 1 ELSE 0
    BY OccurrencesOne
  <2> QED BY <2>1, UnlockEqual
<1>3. \A a \in At : ~DoomedIn(s, a)
  <2>1. ToSet(s) = {Unlock(w)}
    BY DEF ToSet
  <2> QED BY <2>1, UnlockEqual DEF DoomedIn, Dooms
<1> QED BY <1>1, <1>2, <1>3

LEMMA NothingLeft ==
  /\ Few(<<>>)
  /\ \A a : Occurrences(<<>>, {Unlock(a)}) = 0 /\ ~DoomedIn(<<>>, a)
<1>1. ToSet(<<>>) = {}
  BY DEF ToSet
<1> QED BY <1>1, OccurrencesOne DEF Few, DoomedIn

LEMMA ChangeKeeps ==
  ASSUME IInv, DeletedNotStored, NEW t \in Table, NEW k \in Key, Ready(t, k), status[k] # "zombie",
         NEW v \in Value, held[v] > 0, Place(htable[t], k) # 0,
         Change(t, k, v, <<>>), UNCHANGED <<status, held, wild>>
  PROVE  IInv'
<1> DEFINE h == htable[t]
           b == Bucket(h, k)
           i == Place(h, k)
           w == h.table[b][i].value
           g == [h EXCEPT !.table[Bucket(h, k)][Place(h, k)].value = v]
<1>1. /\ TypesOK /\ DOMAIN htable = Table
      /\ Sound(h) /\ h.size \in Nat /\ h.size >= 2 /\ h.nelems \in Nat
      /\ h.nelems = Cardinality(KeysOf(h)) /\ 3 * (h.nelems - 1) <= 2 * h.size
      /\ k \in Plain /\ k \in At /\ status[k] \in {"live", "zombie"}
      /\ \A e \in Associations(h) : status[e.key] = "live" /\ e.value \notin Mortal
  BY ReadyFacts
<1>2. v \in At /\ v \notin Mortal /\ count[v] \in Nat \ {0}
  BY StoredFacts
<1>3. htable' = [htable EXCEPT ![t] = g]
  BY DEF Change
<1>4. /\ count' = [count EXCEPT ![v] = @ + 1]
      /\ todo' = <<Unlock(w)>> \o <<>>
      /\ UNCHANGED <<flagged, finalizers>>
  BY DEF Change
<1>5. h.size # 0 /\ Place(h, k) # 0
  BY <1>1
<1>6. [key |-> k, value |-> w] \in Associations(h) /\ w \in At /\ OnlyValue(h, k, w)
  <2> HIDE DEF h
  <2>1. PICK x : x = h.table[Bucket(h, k)][Place(h, k)].value
    OBVIOUS
  <2>2. [key |-> k, value |-> x] \in Associations(h) /\ x \in At /\ OnlyValue(h, k, x)
    BY <1>1, <1>5, <2>1, FoundFacts
  <2> QED BY <2>1, <2>2
<1>7. /\ Sound(g)
      /\ g.size = h.size /\ g.nelems = h.nelems
      /\ g.keylockp = h.keylockp
      /\ KeysOf(g) = KeysOf(h)
      /\ \A e : e \in Associations(g) <=> \/ e \in Associations(h) /\ e.key # k
                                          \/ e = [key |-> k, value |-> v]
  <2> HIDE DEF h
  <2>1. \A d : d = g => /\ Sound(d)
                        /\ d.size = h.size /\ d.nelems = h.nelems
                        /\ d.keylockp = h.keylockp
                        /\ KeysOf(d) = KeysOf(h)
                        /\ \A e : e \in Associations(d) <=> \/ e \in Associations(h) /\ e.key # k
                                                            \/ e = [key |-> k, value |-> v]
    BY <1>1, <1>2, <1>5, ChangedProperties
  <2> QED BY <2>1
<1> HIDE DEF g, w
<1>8. OnlyTable(t, g)
  BY <1>1, <1>3 DEF OnlyTable, SameBut
<1>9. todo' = <<Unlock(w)>>
  BY <1>4
<1>10. /\ Few(todo')
       /\ \A a \in At : /\ Occurrences(todo', {Unlock(a)}) = IF w = a THEN 1 ELSE 0
                        /\ ~DoomedIn(todo', a)
  BY <1>6, <1>9, OneDropped
<1>11. htable[t] # Gone /\ ~htable[t].keylockp /\ ~h.keylockp /\ ~g.keylockp
  BY <1>7 DEF Ready
<1>12. TableOK(g, 0) /\ g # Gone
  <2>1. g.size # 0 /\ g.size >= 2 /\ g.nelems = Cardinality(KeysOf(g)) + 0
        /\ 3 * (g.nelems - 1) <= 2 * g.size
    BY <1>1, <1>7
  <2> QED BY <1>7, <2>1, NotGone DEF TableOK
<1>13. \A e \in Associations(g) : status[e.key] = "live" /\ e.value \notin Mortal
  <2>1. status[k] = "live"
    BY <1>1
  <2> QED BY <1>1, <1>2, <1>7, <2>1
<1>14. count' \in [At -> Nat] /\ count \in [At -> Nat]
  BY <1>1, <1>2, <1>4 DEF TypesOK
<1>15. ASSUME NEW a \in At
       PROVE  /\ count'[a] + HeldBy(htable[t], a)
                   = count[a] + Occurrences(todo', {Unlock(a)}) + HeldBy(g, a)
              /\ (count'[a] = 0) <=> (count[a] = 0)
              /\ Occurrences(todo', {Unlock(a)}) \in Nat
              /\ ~DoomedIn(todo', a)
  <2>1. HeldBy(g, a) = HeldBy(h, a) - (IF w = a THEN 1 ELSE 0) + (IF v = a THEN 1 ELSE 0)
    <3> HIDE DEF h
    <3>1. PICK x : x = w
      OBVIOUS
    <3>2. [key |-> k, value |-> x] \in Associations(h) /\ k \in Plain /\ OnlyValue(h, k, x)
      BY <1>1, <1>6, <3>1
    <3>3. /\ \A e : e \in Associations(g) <=> \/ e \in Associations(h) /\ e.key # k
                                              \/ e = [key |-> k, value |-> v]
          /\ KeysOf(g) = KeysOf(h) /\ ~h.keylockp /\ ~g.keylockp
      BY <1>7, <1>11
    <3>4. HeldBy(g, a) = HeldBy(h, a) - (IF x = a THEN 1 ELSE 0) + (IF v = a THEN 1 ELSE 0)
      <4>1. Exchanges(h, g, k, x, v)
        BY <3>2, <3>3 DEF Exchanges
      <4> QED BY <3>2, <4>1, HeldByExchanged
    <3> QED BY <3>1, <3>4
  <2>2. HeldBy(g, a) \in Nat /\ HeldBy(h, a) \in Nat
    BY HeldByType
  <2>3. count[a] \in Nat /\ count'[a] = count[a] + (IF v = a THEN 1 ELSE 0)
    BY <1>2, <1>4, <1>14
  <2>4. Occurrences(todo', {Unlock(a)}) = (IF w = a THEN 1 ELSE 0) /\ ~DoomedIn(todo', a)
    BY <1>10
  <2>5. (count'[a] = 0) <=> (count[a] = 0)
    BY <1>2, <2>3
  <2> HIDE DEF h
  <2>6. count'[a] + HeldBy(h, a) = count[a] + Occurrences(todo', {Unlock(a)}) + HeldBy(g, a)
    <3>1. CASE w = a /\ v = a
      BY <2>1, <2>2, <2>3, <2>4, <3>1
    <3>2. CASE w = a /\ v # a
      BY <2>1, <2>2, <2>3, <2>4, <3>2
    <3>3. CASE w # a /\ v = a
      BY <2>1, <2>2, <2>3, <2>4, <3>3
    <3>4. CASE w # a /\ v # a
      BY <2>1, <2>2, <2>3, <2>4, <3>4
    <3> QED BY <3>1, <3>2, <3>3, <3>4
  <2> QED BY <2>4, <2>5, <2>6 DEF h
<1>16. /\ flagged' \in SUBSET Plain /\ flagged \in SUBSET flagged'
       /\ finalizers' \in [Plain -> Seq(Table)]
       /\ \A u \in Table, j \in Plain :
            /\ Contains(finalizers[j], u) => Contains(finalizers'[j], u)
            /\ Contains(finalizers'[j], u) => Contains(finalizers[j], u) \/ u = t
  BY <1>1, <1>4 DEF TypesOK
<1>17. \A j \in KeysOf(g) :
         j \in KeysOf(htable[t]) \/ (j \in flagged' /\ Contains(finalizers'[j], t))
  BY <1>7
<1>18. Stores(t, g)
  BY <1>8, <1>11, <1>12, <1>13, <1>14, <1>15, <1>16, <1>17 DEF Stores
<1> QED BY <1>10, <1>18, StoresKeeps DEF Ready

LEMMA WithdrawKeeps ==
  ASSUME IInv, NEW t \in Table, NEW k \in Key, Ready(t, k), Place(htable[t], k) # 0,
         Withdraw(t, k, <<>>), UNCHANGED <<status, held, wild>>
  PROVE  IInv'
<1> DEFINE h == htable[t]
           b == Bucket(h, k)
           i == Place(h, k)
           w == h.table[b][i].value
           r == Unlinked(h, b, i)
           g == [r EXCEPT !.nelems = @ - 1]
<1>1. /\ TypesOK /\ DOMAIN htable = Table
      /\ Sound(h) /\ h.size \in Nat /\ h.size >= 2 /\ h.nelems \in Nat
      /\ h.nelems = Cardinality(KeysOf(h)) /\ 3 * (h.nelems - 1) <= 2 * h.size
      /\ k \in Plain /\ k \in At
      /\ \A e \in Associations(h) : status[e.key] = "live" /\ e.value \notin Mortal
  BY ReadyFacts
<1>2. h.size # 0 /\ Place(h, k) # 0 /\ ~h.keylockp
  BY <1>1 DEF Ready
<1>3. /\ <<b, i>> \in Places(h.table)
      /\ h.table[b][i] = [key |-> k, value |-> w]
      /\ [key |-> k, value |-> w] \in Associations(h) /\ w \in At /\ k \in KeysOf(h)
  BY <1>1, <1>2, FoundFacts
<1>4. /\ htable' = [htable EXCEPT ![t] = g]
      /\ todo' = <<Unlock(w)>>
      /\ UNCHANGED <<count, flagged, finalizers>>
  BY <1>2 DEF Withdraw
<1> HIDE DEF h, b, i, w
<1>5. /\ Sound(r) /\ r.size = h.size /\ r.nelems = h.nelems /\ r.keylockp = h.keylockp
      /\ Associations(r) = Associations(h) \ {[key |-> k, value |-> w]}
      /\ KeysOf(r) = KeysOf(h) \ {k}
  <2>1. /\ Sound(r) /\ r.size = h.size /\ r.nelems = h.nelems /\ r.keylockp = h.keylockp
        /\ Associations(r) = Associations(h) \ {h.table[b][i]}
        /\ KeysOf(r) = KeysOf(h) \ {h.table[b][i].key}
    BY <1>1, <1>3, UnlinkedProperties
  <2> QED BY <1>3, <2>1
<1> HIDE DEF r
<1>6. /\ IsFiniteSet(KeysOf(h))
      /\ Cardinality(KeysOf(r)) = Cardinality(KeysOf(h)) - 1
      /\ Cardinality(KeysOf(r)) \in Nat
  <2>1. IsFiniteSet(KeysOf(h)) /\ Cardinality(KeysOf(r)) \in Nat
    BY <1>1, <1>5, SoundProperties
  <2>2. Cardinality(KeysOf(h) \ {k}) = Cardinality(KeysOf(h)) - 1
    BY <1>3, <2>1, FS_RemoveElement
  <2> QED BY <1>5, <2>1, <2>2
<1>7. r \in Structures(h.size) /\ r.nelems - 1 \in Nat
  BY <1>1, <1>5, <1>6 DEF Sound
<1>8. /\ g \in Structures(r.size) /\ g.table = r.table /\ g.size = h.size
      /\ g.nelems = h.nelems - 1 /\ g.keylockp = h.keylockp
  BY <1>5, <1>7 DEF Structures
<1> HIDE DEF g
<1>9. Sound(g) /\ Associations(g) = Associations(r) /\ KeysOf(g) = KeysOf(r)
  BY <1>5, <1>8, SameChains
<1>10. TableOK(g, 0) /\ g # Gone
  <2>1. g.size # 0 /\ g.size >= 2 /\ g.nelems = Cardinality(KeysOf(g)) + 0
        /\ 3 * (g.nelems - 1) <= 2 * g.size
    BY <1>1, <1>6, <1>8, <1>9
  <2> QED BY <1>9, <2>1, NotGone DEF TableOK
<1>11. OnlyTable(t, g)
  BY <1>1, <1>4 DEF OnlyTable, SameBut
<1>12. /\ Few(todo')
       /\ \A a \in At : /\ Occurrences(todo', {Unlock(a)}) = IF w = a THEN 1 ELSE 0
                        /\ ~DoomedIn(todo', a)
  BY <1>3, <1>4, OneDropped
<1>13. htable[t] # Gone /\ ~htable[t].keylockp /\ ~g.keylockp
  BY <1>2, <1>8 DEF Ready
<1>14. \A e \in Associations(g) : status[e.key] = "live" /\ e.value \notin Mortal
  BY <1>1, <1>5, <1>9
<1>15. count' \in [At -> Nat] /\ count' = count
  BY <1>1, <1>4 DEF TypesOK
<1>16. ASSUME NEW a \in At
       PROVE  /\ count'[a] + HeldBy(htable[t], a)
                   = count[a] + Occurrences(todo', {Unlock(a)}) + HeldBy(g, a)
              /\ (count'[a] = 0) <=> (count[a] = 0)
              /\ Occurrences(todo', {Unlock(a)}) \in Nat
              /\ ~DoomedIn(todo', a)
  <2>1. HeldBy(h, a) = HeldBy(g, a) + (IF w = a THEN 1 ELSE 0)
                       + (IF g.keylockp /\ k = a THEN 1 ELSE 0)
    <3>1. /\ Associations(h) = Associations(g) \cup {[key |-> k, value |-> w]}
          /\ KeysOf(h) = KeysOf(g) \cup {k} /\ k \notin KeysOf(g)
          /\ h.keylockp = g.keylockp
      BY <1>3, <1>5, <1>8, <1>9
    <3>2. PICK x : x = w
      OBVIOUS
    <3>3. k \in Plain /\ Associations(h) = Associations(g) \cup {[key |-> k, value |-> x]}
      BY <1>1, <3>1, <3>2
    <3>4. HeldBy(h, a) = HeldBy(g, a) + (IF x = a THEN 1 ELSE 0)
                         + (IF g.keylockp /\ k = a THEN 1 ELSE 0)
      <4>1. Adds(g, h, k, x)
        BY <3>1, <3>3 DEF Adds
      <4> QED BY <3>3, <4>1, HeldByMore
    <3> QED BY <3>2, <3>4
  <2>2. HeldBy(g, a) \in Nat /\ HeldBy(h, a) \in Nat /\ count[a] \in Nat
    BY <1>15, HeldByType
  <2>3. Occurrences(todo', {Unlock(a)}) = (IF w = a THEN 1 ELSE 0) /\ ~DoomedIn(todo', a)
    BY <1>12
  <2>4. count'[a] + HeldBy(h, a) = count[a] + Occurrences(todo', {Unlock(a)}) + HeldBy(g, a)
    <3>1. CASE w = a
      BY <1>13, <1>15, <2>1, <2>2, <2>3, <3>1
    <3>2. CASE w # a
      BY <1>13, <1>15, <2>1, <2>2, <2>3, <3>2
    <3> QED BY <3>1, <3>2
  <2> QED BY <1>15, <2>3, <2>4 DEF h
<1>17. /\ flagged' \in SUBSET Plain /\ flagged \in SUBSET flagged'
       /\ finalizers' \in [Plain -> Seq(Table)]
       /\ \A u \in Table, j \in Plain :
            /\ Contains(finalizers[j], u) => Contains(finalizers'[j], u)
            /\ Contains(finalizers'[j], u) => Contains(finalizers[j], u) \/ u = t
  BY <1>1, <1>4 DEF TypesOK
<1>18. \A j \in KeysOf(g) :
         j \in KeysOf(htable[t]) \/ (j \in flagged' /\ Contains(finalizers'[j], t))
  BY <1>5, <1>9 DEF h
<1>19. Stores(t, g)
  BY <1>10, <1>11, <1>13, <1>14, <1>15, <1>16, <1>17, <1>18 DEF Stores
<1> QED BY <1>12, <1>19, StoresKeeps DEF Ready

\* A table is extended in time by one resize.
LEMMA ExtendedProperties ==
  ASSUME NEW h, Sound(h), h.size \in Nat, h.size >= 2, h.nelems \in Nat,
         3 * (h.nelems - 1) <= 2 * h.size
  PROVE  /\ Sound(Extended(h)) /\ Associations(Extended(h)) = Associations(h)
         /\ KeysOf(Extended(h)) = KeysOf(h)
         /\ Extended(h).nelems = h.nelems /\ Extended(h).keylockp = h.keylockp
         /\ Extended(h).size \in Nat /\ Extended(h).size >= 2
         /\ 3 * h.nelems <= 2 * Extended(h).size
<1>1. CASE 2 * h.size < 3 * h.nelems
  <2> DEFINE n == 2 * h.size - 1
  <2>1. n \in Nat \ {0} /\ n >= 2 /\ 3 * h.nelems <= 2 * n
    BY <1>1
  <2>2. Extended(h) = htable_resize(h, n)
    BY <1>1 DEF Extended
  <2> HIDE DEF n
  <2>3. /\ Sound(htable_resize(h, n)) /\ Associations(htable_resize(h, n)) = Associations(h)
        /\ KeysOf(htable_resize(h, n)) = KeysOf(h)
        /\ htable_resize(h, n).size = n /\ htable_resize(h, n).nelems = h.nelems
        /\ htable_resize(h, n).keylockp = h.keylockp
    BY <2>1, ResizeProperties
  <2> QED BY <2>1, <2>2, <2>3
<1>2. CASE ~(2 * h.size < 3 * h.nelems)
  <2>1. Extended(h) = h
    BY <1>2 DEF Extended
  <2> QED BY <1>2, <2>1
<1> QED BY <1>1, <1>2

LEMMA InsertKeeps ==
  ASSUME IInv, DeletedNotStored, NEW t \in Table, NEW k \in Key, Ready(t, k), status[k] # "zombie",
         NEW v \in Value, held[v] > 0, Place(htable[t], k) = 0,
         Insert(t, k, v, <<>>), UNCHANGED <<status, held, wild>>
  PROVE  IInv'
<1> DEFINE h == htable[t]
           r == Extended(h)
           g == [r EXCEPT !.nelems = @ + 1,
                          !.table[Bucket(r, k)] = <<[key |-> k, value |-> v]>> \o @]
<1>1. /\ TypesOK /\ DOMAIN htable = Table
      /\ Sound(h) /\ h.size \in Nat /\ h.size >= 2 /\ h.nelems \in Nat
      /\ h.nelems = Cardinality(KeysOf(h)) /\ 3 * (h.nelems - 1) <= 2 * h.size
      /\ k \in Plain /\ k \in At /\ status[k] \in {"live", "zombie"}
      /\ \A e \in Associations(h) : status[e.key] = "live" /\ e.value \notin Mortal
      /\ k \notin KeysOf(h)
  BY ReadyFacts
<1>2. v \in At /\ v \notin Mortal /\ count[v] \in Nat \ {0}
  BY StoredFacts
<1>3. /\ Sound(r) /\ Associations(r) = Associations(h) /\ KeysOf(r) = KeysOf(h)
      /\ r.nelems = h.nelems /\ r.keylockp = h.keylockp
      /\ r.size \in Nat /\ r.size >= 2 /\ 3 * h.nelems <= 2 * r.size
  <2> HIDE DEF h
  <2> QED BY <1>1, ExtendedProperties
<1>4. htable[t] # Gone /\ ~htable[t].keylockp /\ ~h.keylockp /\ ~r.keylockp
  BY <1>3 DEF Ready
<1>5. /\ htable' = [htable EXCEPT ![t] = g]
      /\ count' = [count EXCEPT ![v] = @ + 1]
      /\ finalizers' = Registered(finalizers, k, t)
      /\ flagged' = flagged \cup {k}
      /\ todo' = <<>>
  BY <1>4 DEF Insert, add_finalizer
<1> HIDE DEF r
<1>6. /\ Sound(g) /\ g.size = r.size /\ g.nelems = r.nelems + 1
      /\ g.keylockp = r.keylockp
      /\ Associations(g) = Associations(r) \cup {[key |-> k, value |-> v]}
      /\ KeysOf(g) = KeysOf(r) \cup {k}
  <2>1. r.size # 0 /\ k \notin KeysOf(r)
    BY <1>1, <1>3
  <2>2. PICK d : d = g
    OBVIOUS
  <2>3. d = WithElement(r, k, v)
    BY <2>2 DEF WithElement
  <2> HIDE DEF g
  <2>4. Sound(r) /\ k \in Plain /\ v \in At
    BY <1>1, <1>2, <1>3
  <2> HIDE DEF h
  <2>5. /\ Sound(d) /\ d.size = r.size /\ d.nelems = r.nelems + 1
        /\ d.keylockp = r.keylockp
        /\ Associations(d) = Associations(r) \cup {[key |-> k, value |-> v]}
        /\ KeysOf(d) = KeysOf(r) \cup {k}
    BY <2>1, <2>3, <2>4, InsertedProperties
  <2> QED BY <2>2, <2>5
<1> HIDE DEF g
<1>7. OnlyTable(t, g)
  BY <1>1, <1>5 DEF OnlyTable, SameBut
<1>8. /\ Few(todo')
      /\ \A a \in At : /\ Occurrences(todo', {Unlock(a)}) = 0
                       /\ ~DoomedIn(todo', a)
  BY <1>5, NothingLeft
<1>9. ~g.keylockp /\ g # Gone
  <2>1. g.size # 0
    BY <1>3, <1>6
  <2> QED BY <1>4, <1>6, <2>1, NotGone
<1>10. TableOK(g, 0)
  <2>1. IsFiniteSet(KeysOf(h)) /\ Cardinality(KeysOf(h)) \in Nat
    BY <1>1, SoundProperties
  <2>2. Cardinality(KeysOf(h) \cup {k}) = Cardinality(KeysOf(h)) + 1
    BY <1>1, <2>1, FS_AddElement
  <2>3. Cardinality(KeysOf(g)) = h.nelems + 1 /\ g.nelems = h.nelems + 1 /\ g.size = r.size
    BY <1>1, <1>3, <1>6, <2>2
  <2>4. g.size >= 2 /\ g.nelems = Cardinality(KeysOf(g)) + 0 /\ 3 * (g.nelems - 1) <= 2 * g.size
    <3> HIDE DEF h
    <3> QED BY <1>1, <1>3, <2>3
  <2> QED BY <1>6, <2>4 DEF TableOK
<1>11. \A e \in Associations(g) : status[e.key] = "live" /\ e.value \notin Mortal
  <2>1. status[k] = "live"
    BY <1>1
  <2> QED BY <1>1, <1>2, <1>3, <1>6, <2>1
<1>12. count' \in [At -> Nat] /\ count \in [At -> Nat]
  <2>1. count \in [At -> Nat]
    BY <1>1 DEF TypesOK
  <2>2. v \in At /\ count[v] + 1 \in Nat
    BY <1>2
  <2> QED BY <1>5, <2>1, <2>2
<1>13. ASSUME NEW a \in At
       PROVE  /\ count'[a] + HeldBy(htable[t], a)
                   = count[a] + Occurrences(todo', {Unlock(a)}) + HeldBy(g, a)
              /\ (count'[a] = 0) <=> (count[a] = 0)
              /\ Occurrences(todo', {Unlock(a)}) \in Nat
              /\ ~DoomedIn(todo', a)
  <2>1. HeldBy(g, a) = HeldBy(h, a) + (IF v = a THEN 1 ELSE 0)
                       + (IF h.keylockp /\ k = a THEN 1 ELSE 0)
    <3> HIDE DEF h
    <3>1. Adds(h, g, k, v)
      BY <1>1, <1>3, <1>6 DEF Adds
    <3> QED BY <1>1, <3>1, HeldByMore
  <2>2. HeldBy(g, a) \in Nat /\ HeldBy(h, a) \in Nat
    BY HeldByType
  <2>3. count[a] \in Nat /\ count'[a] = count[a] + (IF v = a THEN 1 ELSE 0)
    BY <1>2, <1>5, <1>12
  <2>4. Occurrences(todo', {Unlock(a)}) = 0 /\ ~DoomedIn(todo', a)
    BY <1>8
  <2>5. (count'[a] = 0) <=> (count[a] = 0)
    BY <1>2, <2>3
  <2>6. count'[a] + HeldBy(h, a) = count[a] + Occurrences(todo', {Unlock(a)}) + HeldBy(g, a)
    <3> HIDE DEF h
    <3>1. CASE v = a
      BY <1>4, <2>1, <2>2, <2>3, <2>4, <3>1
    <3>2. CASE v # a
      BY <1>4, <2>1, <2>2, <2>3, <2>4, <3>2
    <3> QED BY <3>1, <3>2
  <2> QED BY <2>4, <2>5, <2>6
<1>14. /\ finalizers' \in [Plain -> Seq(Table)]
       /\ \A j \in Plain : j # k => finalizers'[j] = finalizers[j]
       /\ \A u : Contains(finalizers'[k], u) <=> Contains(finalizers[k], u) \/ u = t
  <2>1. PICK records : records = Registered(finalizers, k, t)
    OBVIOUS
  <2>2. TypesOK /\ k \in Plain
    BY <1>1
  <2>3. records \in [Plain -> Seq(Table)]
    BY <2>1, <2>2, RegisteredProperties
  <2>4. \A j \in Plain : j # k => records[j] = finalizers[j]
    BY <2>1, <2>2, RegisteredProperties
  <2>5. \A u : Contains(records[k], u) <=> Contains(finalizers[k], u) \/ u = t
    BY <2>1, <2>2, RegisteredProperties
  <2> QED BY <1>5, <2>1, <2>3, <2>4, <2>5
<1>15. /\ flagged' \in SUBSET Plain /\ flagged \in SUBSET flagged'
       /\ \A u \in Table, j \in Plain :
            /\ Contains(finalizers[j], u) => Contains(finalizers'[j], u)
            /\ Contains(finalizers'[j], u) => Contains(finalizers[j], u) \/ u = t
  <2>1. flagged' \in SUBSET Plain /\ flagged \in SUBSET flagged'
    BY <1>1, <1>5 DEF TypesOK
  <2>2. ASSUME NEW u \in Table, NEW j \in Plain
        PROVE  /\ Contains(finalizers[j], u) => Contains(finalizers'[j], u)
               /\ Contains(finalizers'[j], u) => Contains(finalizers[j], u) \/ u = t
    <3>1. CASE j = k
      BY <1>14, <3>1
    <3>2. CASE j # k
      BY <1>14, <3>2
    <3> QED BY <3>1, <3>2
  <2> QED BY <2>1, <2>2
<1>16. \A j \in KeysOf(g) :
         j \in KeysOf(htable[t]) \/ (j \in flagged' /\ Contains(finalizers'[j], t))
  <2>1. k \in flagged' /\ Contains(finalizers'[k], t)
    BY <1>5, <1>14
  <2> QED BY <1>3, <1>6, <2>1
<1>17. Stores(t, g)
  BY <1>4, <1>7, <1>9, <1>10, <1>11, <1>12, <1>13, <1>14, <1>15, <1>16 DEF Stores
<1> QED BY <1>8, <1>17, StoresKeeps DEF Ready

\* Only the list of tasks changes.
LEMMA SameAtRest ==
  ASSUME IInv, todo = <<>> \/ Head(todo).do \in Accesses,
         UNCHANGED <<objects, finalizers, htable, wild>>,
         \A a \in At : Occurrences(todo', {Unlock(a)}) = 0 /\ ~DoomedIn(todo', a)
  PROVE  AtRest'
<1>1. AtRest
  BY InvAtRest
<1>2. CountsOK'
  <2> SUFFICES ASSUME NEW a \in At
               PROVE  /\ count[a] = held[a] + Occurrences(todo', {Unlock(a)}) + HeldByTables(htable, a)
                      /\ (count[a] = 0) <=> (status[a] = "free" \/ DoomedIn(todo', a))
    BY DEF CountsOK, objects
  <2>1. /\ count[a] = held[a] + HeldByTables(htable, a)
        /\ (count[a] = 0) <=> (status[a] = "free")
        /\ count[a] \in Nat /\ held[a] \in Nat /\ HeldByTables(htable, a) \in Nat
    BY InvAtRest
  <2>2. Occurrences(todo', {Unlock(a)}) = 0 /\ ~DoomedIn(todo', a)
    OBVIOUS
  <2> QED BY <2>1, <2>2
<1>3. TypesOK' /\ ContentsLive'
  BY <1>1 DEF AtRest, TypesOK, ContentsLive, objects
<1> QED BY <1>1, <1>2, <1>3 DEF AtRest, objects

LEMMA NothingKeeps ==
  ASSUME IInv, todo = <<>> \/ Head(todo).do \in Accesses,
         UNCHANGED <<objects, finalizers, htable, wild>>, todo' = <<>>
  PROVE  IInv'
<1>1. \A a \in At : Occurrences(todo', {Unlock(a)}) = 0 /\ ~DoomedIn(todo', a)
  BY NothingLeft
<1>2. Few(todo')
  BY NothingLeft
<1>3. AtRest'
  BY <1>1, SameAtRest
<1>4. (AtRest /\ Few(todo))' => IInv'
  BY FewIsInv, PTL
<1> QED BY <1>2, <1>3, <1>4

\* htable_set, after the rehash or without.
LEMMA SetKeeps ==
  ASSUME IInv, DeletedNotStored, NEW t \in Table, NEW k \in Key, Ready(t, k), status[k] # "zombie",
         NEW v \in Value \cup {NIL}, v # NIL => held[v] > 0,
         htable_set(t, k, v, <<>>)
  PROVE  IInv'
<1>1. UNCHANGED <<status, held, wild>>
  BY DEF htable_set
<1>2. CASE Place(htable[t], k) # 0 /\ v # NIL /\ Change(t, k, v, <<>>)
  BY <1>1, <1>2, ChangeKeeps
<1>3. CASE Place(htable[t], k) = 0 /\ v # NIL /\ Insert(t, k, v, <<>>)
  BY <1>1, <1>3, InsertKeeps
<1>4. CASE Place(htable[t], k) # 0 /\ v = NIL /\ Withdraw(t, k, <<>>)
  BY <1>1, <1>4, WithdrawKeeps
<1>5. CASE /\ todo' = <<>>
           /\ UNCHANGED <<count, flagged, finalizers, htable>>
  <2>1. UNCHANGED <<objects, finalizers, htable, wild>> /\ todo' = <<>>
    BY <1>1, <1>5 DEF objects
  <2> QED BY <2>1, NothingKeeps DEF Ready
<1> QED BY <1>2, <1>3, <1>4, <1>5 DEF htable_set

\* Lisp code is given one more reference.
LEMMA GainKeeps ==
  ASSUME IInv, todo = <<>> \/ Head(todo).do \in Accesses,
         NEW v \in At, count[v] # 0, CanHold(v),
         held' = [held EXCEPT ![v] = @ + 1], count' = [count EXCEPT ![v] = @ + 1],
         UNCHANGED <<status, flagged, finalizers, htable, wild>>, todo' = <<>>
  PROVE  IInv'
<1>1. AtRest /\ TypesOK
  BY InvAtRest DEF AtRest
<1>2. \A a \in At : Occurrences(todo', {Unlock(a)}) = 0 /\ ~DoomedIn(todo', a)
  BY NothingLeft
<1>3. TypesOK'
  <2>1. held[v] \in 0..MaxHeld /\ held[v] < MaxHeld /\ MaxHeld \in Nat
    BY <1>1, HtableAssumption DEF TypesOK, CanHold
  <2>2. held[v] + 1 \in 0..MaxHeld
    BY <2>1
  <2>3. held' \in [At -> 0..MaxHeld]
    BY <1>1, <2>2 DEF TypesOK
  <2>4. count[v] + 1 \in Nat
    BY <1>1 DEF TypesOK
  <2>5. count' \in [At -> Nat]
    BY <1>1, <2>4 DEF TypesOK
  <2> QED BY <1>1, <2>3, <2>5 DEF TypesOK
<1>4. CountsOK'
  <2> SUFFICES ASSUME NEW a \in At
               PROVE  /\ count'[a] = held'[a] + Occurrences(todo', {Unlock(a)}) + HeldByTables(htable, a)
                      /\ (count'[a] = 0) <=> (status[a] = "free" \/ DoomedIn(todo', a))
    BY DEF CountsOK
  <2>1. /\ count[a] = held[a] + HeldByTables(htable, a)
        /\ (count[a] = 0) <=> (status[a] = "free")
        /\ count[a] \in Nat /\ held[a] \in Nat /\ HeldByTables(htable, a) \in Nat
    BY InvAtRest
  <2>2. Occurrences(todo', {Unlock(a)}) = 0 /\ ~DoomedIn(todo', a)
    BY <1>2
  <2>3. CASE a = v
    <3>1. count'[a] = count[a] + 1 /\ held'[a] = held[a] + 1 /\ count[a] # 0
      BY <1>1, <2>3 DEF TypesOK
    <3> QED BY <2>1, <2>2, <3>1
  <2>4. CASE a # v
    <3>1. count'[a] = count[a] /\ held'[a] = held[a]
      BY <1>1, <2>4 DEF TypesOK
    <3> QED BY <2>1, <2>2, <3>1
  <2> QED BY <2>3, <2>4
<1>5. ContentsLive'
  BY <1>1 DEF AtRest, ContentsLive
<1>6. AtRest'
  BY <1>1, <1>3, <1>4, <1>5 DEF AtRest
<1>7. Few(todo')
  BY NothingLeft
<1>8. (AtRest /\ Few(todo))' => IInv'
  BY FewIsInv, PTL
<1> QED BY <1>6, <1>7, <1>8

\* htable_get, after the rehash or without.
LEMMA GetKeeps ==
  ASSUME IInv, NEW t \in Table, NEW k \in Key, Ready(t, k), htable_get(t, k, <<>>)
  PROVE  IInv'
<1> DEFINE h == htable[t]
           v == h.table[Bucket(h, k)][Place(h, k)].value
<1>1. UNCHANGED <<status, flagged, finalizers, htable, wild>> /\ todo' = <<>>
  BY DEF htable_get
<1>2. CASE UNCHANGED <<held, count>>
  <2>1. UNCHANGED <<objects, finalizers, htable, wild>>
    BY <1>1, <1>2 DEF objects
  <2> QED BY <1>1, <2>1, NothingKeeps DEF Ready
<1>3. CASE /\ Place(h, k) # 0 /\ CanHold(v)
           /\ held' = [held EXCEPT ![v] = @ + 1]
           /\ count' = [count EXCEPT ![v] = @ + 1]
  <2>1. Sound(h) /\ h.size \in Nat /\ h.size >= 2 /\ k \in Plain
    <3> HIDE DEF v
    <3> QED BY ReadyFacts
  <2>2. h.size # 0
    BY <2>1
  <2>3. PICK x : x = v
    OBVIOUS
  <2>4. [key |-> k, value |-> x] \in Associations(h) /\ x \in At
    <3> HIDE DEF h
    <3> QED BY <1>3, <2>1, <2>2, <2>3, FoundFacts
  <2>5. count[x] # 0
    <3>1. HeldByTables(htable, x) # 0
      <4>1. k \in Under(h, x)
        BY <2>1, <2>4 DEF Under
      <4>2. Cardinality(Under(h, x)) # 0
        BY <4>1, HeldByType, FS_EmptySet
      <4>3. HeldBy(h, x) # 0 /\ HeldBy(h, x) \in Nat
        <5>1. Cardinality(Under(h, x)) \in Nat
          BY HeldByType
        <5> QED BY <4>2, <5>1 DEF HeldBy
      <4>4. SameBut(htable, htable, t)
        BY DEF SameBut
      <4>5. HeldByTables(htable, x) \in Nat /\ HeldByTables(htable, x) - HeldBy(htable[t], x) \in Nat
        BY <4>4, HeldByTablesChange
      <4> QED BY <4>3, <4>5
    <3>2. /\ count[x] = held[x] + HeldByTables(htable, x)
          /\ held[x] \in Nat /\ HeldByTables(htable, x) \in Nat
      BY <2>4, InvAtRest DEF Ready
    <3> QED BY <3>1, <3>2
  <2>6. CanHold(x) /\ held' = [held EXCEPT ![x] = @ + 1] /\ count' = [count EXCEPT ![x] = @ + 1]
    BY <1>3, <2>3
  <2> QED BY <1>1, <2>4, <2>5, <2>6, GainKeeps DEF Ready
<1> QED BY <1>2, <1>3 DEF htable_get

\* The accesses after a rehash.
LEMMA AccessKeeps ==
  ASSUME IInv, DeletedNotStored, RunSet \/ RunGet
  PROVE  IInv'
<1> DEFINE d == Head(todo)
<1>1. todo # <<>> /\ d.do \in Accesses /\ (RunSet <=> d.do = "set") /\ (RunGet <=> d.do = "get")
  BY DEF RunSet, RunGet, Running, Accesses
<1>2. Tail(todo) = <<>> /\ d \in ToSet(todo)
  BY <1>1, InvAtRest
<1>3. Shape(todo) /\ Needs
  BY DEF IInv
<1>4. d.table \in Table /\ d.at \in Key /\ d.other \in Value \cup {NIL}
  BY <1>1, <1>2, <1>3, TaskAts
<1>5. /\ held[d.table] > 0 /\ htable[d.table] # Gone
      /\ held[d.at] > 0
      /\ d.do = "set" => status[d.at] # "zombie"
      /\ d.other # NIL => held[d.other] > 0
      /\ ~htable[d.table].keylockp
  BY <1>1, <1>2, <1>3 DEF Needs, Accesses
<1>6. Ready(d.table, d.at)
  BY <1>1, <1>5 DEF Ready
<1>7. CASE RunSet
  <2>1. htable_set(d.table, d.at, d.other, <<>>)
    BY <1>2, <1>7 DEF RunSet, task
  <2>2. PICK t \in Table, k \in Key, v \in Value \cup {NIL} : t = d.table /\ k = d.at /\ v = d.other
    BY <1>4
  <2>3. /\ htable_set(t, k, v, <<>>) /\ Ready(t, k) /\ status[k] # "zombie"
        /\ v # NIL => held[v] > 0
    BY <1>1, <1>5, <1>6, <1>7, <2>1, <2>2
  <2> QED BY <2>3, SetKeeps
<1>8. CASE RunGet
  <2>1. htable_get(d.table, d.at, <<>>)
    BY <1>2, <1>8 DEF RunGet, task
  <2> QED BY <1>4, <1>6, <2>1, GetKeeps
<1> QED BY <1>7, <1>8

-----------------------------------------------------------------------------
(* Lisp code.                                                              *)

LEMMA LispFacts ==
  ASSUME IInv, InLisp
  PROVE  /\ todo = <<>> /\ AtRest /\ TypesOK
         /\ \A a \in At : /\ count[a] = held[a] + HeldByTables(htable, a)
                          /\ (count[a] = 0) <=> (status[a] = "free")
                          /\ count[a] \in Nat /\ held[a] \in Nat /\ HeldByTables(htable, a) \in Nat
                          /\ Has(a) => held[a] > 0 /\ count[a] # 0 /\ status[a] # "free"
<1>1. todo = <<>>
  BY DEF InLisp
<1>2. /\ AtRest
      /\ \A a \in At : /\ count[a] = held[a] + HeldByTables(htable, a)
                       /\ (count[a] = 0) <=> (status[a] = "free")
                       /\ count[a] \in Nat /\ held[a] \in Nat /\ HeldByTables(htable, a) \in Nat
  BY <1>1, InvAtRest
<1>3. ASSUME NEW a \in At, Has(a) PROVE held[a] > 0 /\ count[a] # 0
  <2>1. /\ count[a] = held[a] + HeldByTables(htable, a)
        /\ held[a] \in Nat /\ HeldByTables(htable, a) \in Nat
    BY <1>2
  <2>2. held[a] > 0
    BY <1>3 DEF Has
  <2> QED BY <2>1, <2>2
<1> QED BY <1>1, <1>2, <1>3 DEF AtRest

\* Lists of what an access or delete begins with.
LEMMA QuietList ==
  ASSUME NEW s \in Seq(Task), \A d \in ToSet(s) : d.do \in {"delete", "rehash", "set", "get"}
  PROVE  \A a : Occurrences(s, {Unlock(a)}) = 0 /\ ~DoomedIn(s, a)
<1> TAKE a
<1>1. DOMAIN s = 1..Len(s)
  BY LenProperties
<1>2. \A i \in DOMAIN s : s[i] \notin {Unlock(a)}
  BY UnlockEqual DEF ToSet
<1>3. Occurrences(s, {Unlock(a)}) = 0
  BY <1>2, OccurrencesNone
<1>4. ~DoomedIn(s, a)
  BY DEF DoomedIn, Dooms
<1> QED BY <1>3, <1>4

LEMMA DeleteKeeps ==
  ASSUME IInv, NEW a \in Mortal, Delete(a)
  PROVE  IInv'
<1> DEFINE d == Do("delete", a, NIL, NIL)
<1>1. /\ InLisp /\ Has(a)
      /\ todo' = <<d>> /\ UNCHANGED <<objects, finalizers, htable, wild>>
  BY DEF Delete
<1>2. todo = <<>> /\ held[a] > 0 /\ a \in At
  BY <1>1, NilNotAt, LispFacts
<1>3. d \in Task /\ d.do = "delete" /\ d.at = a
  BY <1>2, DoTask
<1> HIDE DEF d
<1>4. <<d>> \in Seq(Task) /\ Len(<<d>>) = 1 /\ <<d>>[1] = d /\ 1..1 = {1} /\ ToSet(<<d>>) = {d}
  BY <1>3 DEF ToSet
<1>5. \A b : Occurrences(<<d>>, {Unlock(b)}) = 0 /\ ~DoomedIn(<<d>>, b)
  BY <1>3, <1>4, QuietList
<1>6. AtRest'
  BY <1>1, <1>2, <1>5, SameAtRest
<1>7. TaskShape(<<d>>, 1)
  BY <1>3, <1>4 DEF TaskShape, Dooms, Removals, Accesses
<1>8. Shape(todo')
  BY <1>1, <1>4, <1>7 DEF Shape
<1>9. held' = held
  BY <1>1 DEF objects
<1>10. Needs'
  BY <1>1, <1>2, <1>3, <1>4, <1>9 DEF Needs, Accesses
<1>11. Begins'
  BY <1>1, <1>3, <1>4 DEF Begins, Beginnings
<1>12. (AtRest /\ Shape(todo) /\ Needs /\ Begins)' => IInv'
  BY RestIsInv, PTL
<1> QED BY <1>6, <1>8, <1>10, <1>11, <1>12

\* A rehash comes before the access.
LEMMA RehashingKeeps ==
  ASSUME IInv, InLisp, NEW t \in Table, IsTable(t), NEW k \in Key, Has(k),
         NEW do \in Accesses, NEW v \in Value \cup {NIL}, v # NIL => Has(v),
         do = "set" => status[k] # "zombie",
         Rehashing(t, Do(do, k, t, v))
  PROVE  IInv'
<1> DEFINE d == Do("rehash", NIL, t, NIL)
           e == Do(do, k, t, v)
<1>1. todo' = <<d, e>> /\ UNCHANGED <<objects, finalizers, htable, wild>>
  BY DEF Rehashing
<1>2. todo = <<>>
  BY LispFacts
<1>3. d \in Task /\ d.do = "rehash" /\ d.table = t /\ d.other = NIL
  BY NilNotAt, DoTask
<1>4. e \in Task /\ e.do \in Accesses /\ e.do = do /\ e.table = t /\ e.at = k /\ e.other = v
  <2>1. do \in {"unlock", "purge", "delete", "dispose", "zombify", "finalize",
                "finalized", "rehash", "recompute", "set", "get"}
        /\ k \in At \cup {NIL} /\ t \in Table \cup {NIL} /\ v \in At \cup {NIL}
    BY NilNotAt DEF Accesses
  <2> QED BY <2>1, DoTask
<1> HIDE DEF d, e
<1>5. /\ <<d, e>> \in Seq(Task) /\ Len(<<d, e>>) = 2 /\ <<d, e>>[1] = d /\ <<d, e>>[2] = e
      /\ 1..2 = {1, 2} /\ ToSet(<<d, e>>) = {d, e} /\ Head(<<d, e>>) = d
  BY <1>3, <1>4 DEF ToSet
<1>6. \A b : Occurrences(<<d, e>>, {Unlock(b)}) = 0 /\ ~DoomedIn(<<d, e>>, b)
  <2>1. \A x \in ToSet(<<d, e>>) : x.do \in {"delete", "rehash", "set", "get"}
    BY <1>3, <1>4, <1>5 DEF Accesses
  <2> QED BY <1>5, <2>1, QuietList
<1>7. AtRest'
  BY <1>1, <1>2, <1>6, SameAtRest
<1>8. Shape(todo')
  <2>1. TaskShape(<<d, e>>, 1)
    BY <1>3, <1>4, <1>5 DEF TaskShape, Dooms, Removals, Accesses
  <2>2. TaskShape(<<d, e>>, 2)
    BY <1>3, <1>4, <1>5 DEF TaskShape, Dooms, Removals, Accesses
  <2> QED BY <1>1, <1>5, <2>1, <2>2 DEF Shape
<1>9. held' = held /\ status' = status /\ htable' = htable
  BY <1>1 DEF objects
<1>10. held[t] > 0 /\ htable[t] # Gone /\ held[k] > 0 /\ (v # NIL => held[v] > 0)
  BY DEF IsTable, Has
<1>11. Needs'
  <2>1. Head(todo').do = "rehash" /\ ToSet(todo') = {d, e}
    BY <1>1, <1>3, <1>5
  <2>2. d.do \notin {"delete", "zombify"} \cup Accesses /\ e.do \notin {"delete", "zombify"}
    BY <1>3, <1>4 DEF Accesses
  <2> QED BY <1>4, <1>9, <1>10, <2>1, <2>2 DEF Needs
<1>12. Begins'
  BY <1>1, <1>3, <1>4, <1>5 DEF Begins, Beginnings, Accesses
<1>13. (AtRest /\ Shape(todo) /\ Needs /\ Begins)' => IInv'
  BY RestIsInv, PTL
<1> QED BY <1>7, <1>8, <1>11, <1>12, <1>13

LEMMA SetLispKeeps ==
  ASSUME IInv, DeletedNotStored, NEW t \in Table, NEW k \in Key, NEW value \in Value \cup {NIL},
         Set(t, k, value)
  PROVE  IInv'
<1> DEFINE v == IF value # NIL /\ status[value] = "zombie" THEN NIL ELSE value
<1>1. /\ InLisp /\ IsTable(t) /\ Has(k) /\ (value # NIL => Has(value))
      /\ status[k] # "zombie"
      /\ Rehashing(t, Do("set", k, t, v)) \/ (~htable[t].rehashp /\ htable_set(t, k, v, <<>>))
  BY DEF Set
<1>2. PICK x \in Value \cup {NIL} : x = v /\ (x # NIL => Has(x))
  BY <1>1
<1> HIDE DEF v
<1>3. CASE Rehashing(t, Do("set", k, t, v))
  <2>1. "set" \in Accesses /\ Rehashing(t, Do("set", k, t, x))
    BY <1>2, <1>3 DEF Accesses
  <2> QED BY <1>1, <1>2, <2>1, RehashingKeeps
<1>4. CASE ~htable[t].rehashp /\ htable_set(t, k, v, <<>>)
  <2>1. todo = <<>> /\ AtRest
    BY <1>1, LispFacts
  <2>2. ~htable[t].keylockp
    BY <1>4, <2>1 DEF AtRest
  <2>3. Ready(t, k) /\ (x # NIL => held[x] > 0)
    BY <1>1, <1>2, <2>1, <2>2 DEF Ready, IsTable, Has
  <2>4. htable_set(t, k, x, <<>>)
    BY <1>2, <1>4
  <2> QED BY <1>1, <1>2, <2>3, <2>4, SetKeeps
<1> QED BY <1>1, <1>3, <1>4

LEMMA GetLispKeeps ==
  ASSUME IInv, NEW t \in Table, NEW k \in Key, Get(t, k)
  PROVE  IInv'
<1>1. /\ InLisp /\ IsTable(t) /\ Has(k)
      /\ Rehashing(t, Do("get", k, t, NIL)) \/ (~htable[t].rehashp /\ htable_get(t, k, <<>>))
  BY DEF Get
<1>2. CASE Rehashing(t, Do("get", k, t, NIL))
  <2>1. "get" \in Accesses /\ "get" # "set" /\ NIL \in Value \cup {NIL}
    BY DEF Accesses
  <2> QED BY <1>1, <1>2, <2>1, RehashingKeeps
<1>3. CASE ~htable[t].rehashp /\ htable_get(t, k, <<>>)
  <2>1. todo = <<>> /\ AtRest
    BY <1>1, LispFacts
  <2>2. ~htable[t].keylockp
    BY <1>3, <2>1 DEF AtRest
  <2>3. Ready(t, k)
    BY <1>1, <2>1, <2>2 DEF Ready, IsTable, Has
  <2> QED BY <1>3, <2>3, GetKeeps
<1> QED BY <1>1, <1>2, <1>3

LEMMA KeysKeeps ==
  ASSUME IInv, NEW t \in Table, NEW k \in Key, Keys(t, k)
  PROVE  IInv'
<1>1. /\ InLisp /\ k \in KeysOf(htable[t])
      /\ CanHold(k)
      /\ held' = [held EXCEPT ![k] = @ + 1]
      /\ count' = [count EXCEPT ![k] = @ + 1]
      /\ UNCHANGED <<status, flagged, finalizers, htable, todo, wild>>
  BY DEF Keys
<1>2. todo = <<>> /\ AtRest /\ k \in At
  BY <1>1, NilNotAt, LispFacts
<1>3. status[k] = "live"
  BY <1>1, <1>2 DEF AtRest, ContentsLive, KeysOf
<1>4. count[k] # 0
  <2>1. (count[k] = 0) <=> (status[k] = "free")
    BY <1>1, <1>2, LispFacts
  <2> QED BY <1>3, <2>1
<1>5. todo' = <<>>
  BY <1>1, <1>2
<1> QED BY <1>1, <1>2, <1>4, <1>5, GainKeeps

\* The contents of the tables stay, and what they refer to.
Alike ==
  /\ DOMAIN htable' = Table
  /\ \A t \in Table :
       /\ TableOK(htable'[t], 0)
       /\ Associations(htable'[t]) = Associations(htable[t])
       /\ KeysOf(htable'[t]) = KeysOf(htable[t])
       /\ htable'[t].keylockp = htable[t].keylockp
       /\ htable[t].rehashp => htable'[t].rehashp
       /\ htable[t] # Gone => htable'[t] # Gone
       /\ status'[t] = "free" => htable'[t] = Gone
  /\ \A a \in At :
       /\ count'[a] = held'[a] + HeldByTables(htable, a)
       /\ (count'[a] = 0) <=> (status'[a] = "free")
       /\ count'[a] \in Nat
       /\ status'[a] = "zombie" => status[a] = "zombie"
       /\ status[a] = "live" => status'[a] = "live"
  /\ \A k \in flagged : status[k] = "live" => k \in flagged'

LEMMA AlikeKeeps ==
  ASSUME IInv, InLisp, TypesOK', Alike, UNCHANGED <<finalizers, todo>>
  PROVE  IInv'
<1>1. todo = <<>> /\ todo' = <<>> /\ AtRest
  BY LispFacts
<1>2. \A t \in Table : /\ Associations(htable'[t]) = Associations(htable[t])
                       /\ KeysOf(htable'[t]) = KeysOf(htable[t])
                       /\ htable'[t].keylockp = htable[t].keylockp
  BY DEF Alike
<1>3. ASSUME NEW t \in Table, NEW e \in Associations(htable[t])
      PROVE  /\ e.key \in Plain /\ e.key \in At /\ e.key \in KeysOf(htable[t])
             /\ status[e.key] = "live" /\ status'[e.key] = "live"
             /\ e.value \notin Mortal
             /\ htable[t].keylockp => e.key \notin Mortal
  <2>1. Sound(htable[t])
    BY <1>1 DEF AtRest, TableOK
  <2>2. e.key \in Plain /\ e.key \in KeysOf(htable[t])
    BY <1>3, <2>1, SoundProperties DEF Assoc, KeysOf
  <2>3. e.key \in At
    BY <2>2, NilNotAt
  <2>4. /\ status[e.key] = "live" /\ e.value \notin Mortal
        /\ htable[t].keylockp => e.key \notin Mortal
    BY <1>1, <1>3 DEF AtRest, ContentsLive
  <2>5. status'[e.key] = "live"
    BY <2>3, <2>4 DEF Alike
  <2> QED BY <2>2, <2>3, <2>4, <2>5
<1>4. CountsOK'
  <2> SUFFICES ASSUME NEW a \in At
               PROVE  /\ count'[a] = held'[a] + Occurrences(todo', {Unlock(a)}) + HeldByTables(htable', a)
                      /\ (count'[a] = 0) <=> (status'[a] = "free" \/ DoomedIn(todo', a))
    BY DEF CountsOK
  <2>1. Occurrences(todo', {Unlock(a)}) = 0 /\ ~DoomedIn(todo', a)
    BY <1>1, NothingLeft
  <2>2. HeldByTables(htable', a) = HeldByTables(htable, a)
    <3>1. {r \in Table \X Plain : [key |-> r[2], value |-> a] \in Associations(htable'[r[1]])}
            = {r \in Table \X Plain : [key |-> r[2], value |-> a] \in Associations(htable[r[1]])}
      <4>1. ASSUME NEW r \in Table \X Plain
            PROVE  Associations(htable'[r[1]]) = Associations(htable[r[1]])
        BY <1>2
      <4> QED BY <4>1
    <3>2. {t \in Table : htable'[t].keylockp /\ a \in KeysOf(htable'[t])}
            = {t \in Table : htable[t].keylockp /\ a \in KeysOf(htable[t])}
      BY <1>2
    <3> QED BY <3>1, <3>2 DEF HeldByTables
  <2>3. /\ count'[a] = held'[a] + HeldByTables(htable, a)
        /\ (count'[a] = 0) <=> (status'[a] = "free")
    BY DEF Alike
  <2>4. held'[a] \in Nat /\ HeldByTables(htable, a) \in Nat
    <3>1. held'[a] \in 0..MaxHeld /\ MaxHeld \in Nat
      BY HtableAssumption DEF TypesOK
    <3> QED BY <3>1, HeldByTablesType
  <2> QED BY <2>1, <2>2, <2>3, <2>4
<1>5. ContentsLive'
  <2>1. \A a \in At : status'[a] = "zombie" => a \in Mortal
    BY <1>1 DEF AtRest, ContentsLive, Alike
  <2>2. ASSUME NEW t \in Table, NEW e \in Associations(htable'[t])
        PROVE  /\ status'[e.key] = "live" /\ e.value \notin Mortal
               /\ htable'[t].keylockp => e.key \notin Mortal
    BY <1>2, <1>3, <2>2
  <2> QED BY <2>1, <2>2 DEF ContentsLive
<1>6. \A t \in Table, k \in Plain :
        <<t, k>> \in WeakIn(htable') => k \in flagged' /\ Contains(finalizers'[k], t)
  <2> SUFFICES ASSUME NEW t \in Table, NEW k \in Plain, <<t, k>> \in WeakIn(htable')
               PROVE  k \in flagged' /\ Contains(finalizers'[k], t)
    OBVIOUS
  <2>1. <<t, k>> \in WeakIn(htable) /\ k \in KeysOf(htable[t])
    BY <1>2 DEF WeakIn
  <2>2. k \in flagged /\ Contains(finalizers[k], t)
    BY <1>1, <2>1 DEF AtRest
  <2>3. status[k] = "live"
    BY <1>3, <2>1 DEF KeysOf
  <2> QED BY <2>2, <2>3 DEF Alike
<1>7. \A t \in Table : htable'[t].keylockp =>
        htable'[t].rehashp /\ \A k \in Plain : ~Contains(finalizers'[k], t)
  <2> SUFFICES ASSUME NEW t \in Table, htable'[t].keylockp
               PROVE  htable'[t].rehashp /\ \A k \in Plain : ~Contains(finalizers'[k], t)
    OBVIOUS
  <2>1. htable[t].rehashp /\ \A k \in Plain : ~Contains(finalizers[k], t)
    BY <1>1, <1>2 DEF AtRest
  <2>2. finalizers' = finalizers
    OBVIOUS
  <2> QED BY <2>1, <2>2 DEF Alike
<1>8. \A t \in Table, k \in Plain : Contains(finalizers'[k], t) => htable'[t] # Gone
  <2>1. finalizers' = finalizers /\ \A t \in Table : htable[t] # Gone => htable'[t] # Gone
    BY DEF Alike
  <2>2. \A t \in Table, k \in Plain : Contains(finalizers[k], t) => htable[t] # Gone
    BY <1>1 DEF AtRest
  <2> QED BY <2>1, <2>2
<1>9. DOMAIN htable' = Table /\ \A t \in Table : /\ TableOK(htable'[t], 0)
                                                 /\ status'[t] = "free" => htable'[t] = Gone
  BY DEF Alike
<1>10. AtRest'
  BY <1>4, <1>5, <1>6, <1>7, <1>8, <1>9 DEF AtRest
<1>11. Few(todo')
  BY <1>1, NothingLeft
<1>12. (AtRest /\ Few(todo))' => IInv'
  BY FewIsInv, PTL
<1> QED BY <1>10, <1>11, <1>12

LEMMA RehashLispKeeps ==
  ASSUME IInv, NEW t \in Table, Rehash(t)
  PROVE  IInv'
<1> DEFINE h == htable[t]
           g == [h EXCEPT !.rehashp = TRUE]
<1>1. /\ InLisp /\ h # Gone
      /\ htable' = [htable EXCEPT ![t] = g]
      /\ UNCHANGED <<objects, finalizers, todo, wild>>
  BY DEF Rehash, IsTable
<1>2. todo = <<>> /\ AtRest
  BY <1>1, LispFacts
<1>3. Sound(h) /\ TableOK(h, 0)
  BY <1>2 DEF AtRest, TableOK
<1>4. /\ g \in Structures(h.size) /\ g.table = h.table /\ g.size = h.size
      /\ g.nelems = h.nelems /\ g.keylockp = h.keylockp /\ g.rehashp = TRUE
  <2> HIDE DEF h
  <2>1. h \in Structures(h.size)
    BY <1>3 DEF Sound
  <2> QED BY <2>1 DEF Structures
<1> HIDE DEF g
<1>5. Sound(g) /\ Associations(g) = Associations(h) /\ KeysOf(g) = KeysOf(h)
  <2> HIDE DEF h
  <2> QED BY <1>3, <1>4, SameChains
<1>6. h.size >= 2 /\ h.nelems = Cardinality(KeysOf(h)) + 0 /\ 3 * (h.nelems - 1) <= 2 * h.size
      /\ h.size \in Nat
  <2>1. h.size \in Nat
    BY <1>3 DEF Sound
  <2> QED BY <1>1, <1>3, <2>1 DEF TableOK
<1>7. TableOK(g, 0) /\ g # Gone
  <2>1. g.size # 0
    BY <1>4, <1>6
  <2> QED BY <1>4, <1>5, <1>6, <2>1, NotGone DEF TableOK
<1>8. htable'[t] = g /\ DOMAIN htable' = Table /\ \A u \in Table : u # t => htable'[u] = htable[u]
  BY <1>1, <1>2 DEF AtRest
<1>9. status' = status /\ count' = count /\ held' = held /\ flagged' = flagged
  BY <1>1 DEF objects
<1>10. status[t] # "free"
  BY <1>1, <1>2 DEF AtRest
<1>11. \A u \in Table :
       /\ TableOK(htable'[u], 0)
       /\ Associations(htable'[u]) = Associations(htable[u])
       /\ KeysOf(htable'[u]) = KeysOf(htable[u])
       /\ htable'[u].keylockp = htable[u].keylockp
       /\ htable[u].rehashp => htable'[u].rehashp
       /\ htable[u] # Gone => htable'[u] # Gone
       /\ status'[u] = "free" => htable'[u] = Gone
  <2> TAKE u \in Table
  <2>1. CASE u = t
    BY <1>4, <1>5, <1>7, <1>8, <1>9, <1>10, <2>1
  <2>2. CASE u # t
    BY <1>2, <1>8, <1>9, <2>2 DEF AtRest
  <2> QED BY <2>1, <2>2
<1>12. \A a \in At :
       /\ count'[a] = held'[a] + HeldByTables(htable, a)
       /\ (count'[a] = 0) <=> (status'[a] = "free")
       /\ count'[a] \in Nat
       /\ status'[a] = "zombie" => status[a] = "zombie"
       /\ status[a] = "live" => status'[a] = "live"
  BY <1>1, <1>9, LispFacts
<1>13. Alike
  BY <1>8, <1>9, <1>11, <1>12 DEF Alike
<1>14. TypesOK'
  BY <1>1, <1>2, <1>9 DEF AtRest, TypesOK
<1> QED BY <1>1, <1>13, <1>14, AlikeKeeps

LEMMA NewKeeps ==
  ASSUME IInv, NEW a \in At, New(a)
  PROVE  IInv'
<1>1. /\ InLisp /\ status[a] = "free"
      /\ status' = [status EXCEPT ![a] = "live"]
      /\ count' = [count EXCEPT ![a] = 1]
      /\ held' = [held EXCEPT ![a] = 1]
      /\ flagged' = flagged \ {a}
      /\ htable' = IF a \in Table THEN [htable EXCEPT ![a] = NewTable] ELSE htable
      /\ UNCHANGED <<finalizers, todo, wild>>
  BY DEF New, Allocated
<1>2. todo = <<>> /\ AtRest /\ TypesOK
  BY <1>1, LispFacts
<1>3. /\ status' \in [At -> {"free", "live", "zombie"}] /\ count' \in [At -> Nat]
      /\ held' \in [At -> 0..MaxHeld]
      /\ status'[a] = "live" /\ count'[a] = 1 /\ held'[a] = 1
      /\ \A b \in At : b # a => status'[b] = status[b] /\ count'[b] = count[b] /\ held'[b] = held[b]
  <2>1. 1 \in 0..MaxHeld
    BY HtableAssumption
  <2> QED BY <1>1, <1>2, <2>1 DEF TypesOK
<1>4. TypesOK'
  BY <1>1, <1>2, <1>3 DEF TypesOK
<1>5. DOMAIN htable' = Table
      /\ \A t \in Table : \/ t # a /\ htable'[t] = htable[t]
                          \/ t = a /\ htable[t] = Gone /\ htable'[t] = NewTable
  <2>1. DOMAIN htable = Table
    BY <1>2 DEF AtRest
  <2>2. CASE a \in Table
    <3>1. htable[a] = Gone
      BY <1>1, <1>2, <2>2 DEF AtRest
    <3> QED BY <1>1, <2>1, <2>2, <3>1
  <2>3. CASE a \notin Table
    BY <1>1, <2>1, <2>3
  <2> QED BY <2>2, <2>3
<1>6. TableOK(NewTable, 0)
  <2>1. /\ Sound(NewTable) /\ KeysOf(NewTable) = {}
        /\ NewTable.size = Size /\ NewTable.nelems = 0
    BY NewAndGone
  <2>2. NewTable.size >= 2 /\ NewTable.nelems = Cardinality(KeysOf(NewTable)) + 0
        /\ 3 * (NewTable.nelems - 1) <= 2 * NewTable.size
    <3>1. Cardinality(KeysOf(NewTable)) = 0
      BY <2>1, FS_EmptySet
    <3> QED BY <2>1, <3>1, HtableAssumption
  <2> QED BY <2>1, <2>2 DEF TableOK
<1>7. NewTable # Gone
  <2>1. NewTable.size # 0
    BY NewAndGone, HtableAssumption
  <2> QED BY <2>1, NotGone
<1>8. \A t \in Table :
       /\ TableOK(htable'[t], 0)
       /\ Associations(htable'[t]) = Associations(htable[t])
       /\ KeysOf(htable'[t]) = KeysOf(htable[t])
       /\ htable'[t].keylockp = htable[t].keylockp
       /\ htable[t].rehashp => htable'[t].rehashp
       /\ htable[t] # Gone => htable'[t] # Gone
       /\ status'[t] = "free" => htable'[t] = Gone
  <2> TAKE t \in Table
  <2>1. CASE t # a /\ htable'[t] = htable[t]
    <3>1. status'[t] = status[t]
      BY <1>3, <2>1, NilNotAt
    <3> QED BY <1>2, <2>1, <3>1 DEF AtRest
  <2>2. CASE t = a /\ htable[t] = Gone /\ htable'[t] = NewTable
    <3>1. Gone.rehashp = FALSE
      BY DEF Gone
    <3> QED BY <1>3, <1>6, <1>7, <2>2, <3>1, NewAndGone
  <2> QED BY <1>5, <2>1, <2>2
<1>9. ASSUME NEW b \in At
      PROVE  /\ count'[b] = held'[b] + HeldByTables(htable, b)
             /\ (count'[b] = 0) <=> (status'[b] = "free")
             /\ count'[b] \in Nat
             /\ status'[b] = "zombie" => status[b] = "zombie"
             /\ status[b] = "live" => status'[b] = "live"
  <2>1. /\ count[b] = held[b] + HeldByTables(htable, b)
        /\ (count[b] = 0) <=> (status[b] = "free")
        /\ count[b] \in Nat /\ held[b] \in Nat /\ HeldByTables(htable, b) \in Nat
    BY <1>1, LispFacts
  <2>2. CASE b = a
    <3>1. HeldByTables(htable, b) = 0
      BY <1>1, <2>1, <2>2
    <3> QED BY <1>3, <2>2, <3>1
  <2>3. CASE b # a
    BY <1>3, <2>1, <2>3
  <2> QED BY <2>2, <2>3
<1>10. \A k \in flagged : status[k] = "live" => k \in flagged'
  <2>1. status[a] # "live"
    BY <1>1
  <2> QED BY <1>1, <2>1
<1>11. Alike
  BY <1>5, <1>8, <1>9, <1>10 DEF Alike
<1> QED BY <1>1, <1>4, <1>11, AlikeKeeps

LEMMA DropKeeps ==
  ASSUME IInv, NEW a \in At, Drop(a)
  PROVE  IInv'
<1>1. /\ InLisp /\ Has(a)
      /\ held' = [held EXCEPT ![a] = @ - 1]
      /\ count' = [count EXCEPT ![a] = @ - 1]
      /\ todo' = (IF count[a] = 1 THEN <<Do("purge", a, NIL, NIL)>> ELSE <<>>)
      /\ UNCHANGED <<status, flagged, finalizers, htable, wild>>
  BY DEF Drop, UNLOCK
<1>2. todo = <<>> /\ AtRest /\ TypesOK /\ held[a] > 0 /\ count[a] # 0 /\ status[a] # "free"
  BY <1>1, LispFacts
<1>3. /\ held[a] - 1 \in 0..MaxHeld /\ count[a] - 1 \in Nat
      /\ held[a] \in Nat /\ count[a] \in Nat
  <2>1. held[a] \in 0..MaxHeld /\ MaxHeld \in Nat /\ count[a] \in Nat
    BY <1>2, HtableAssumption DEF TypesOK
  <2> QED BY <1>2, <2>1
<1>4. /\ held' \in [At -> 0..MaxHeld] /\ count' \in [At -> Nat]
      /\ held'[a] = held[a] - 1 /\ count'[a] = count[a] - 1
      /\ \A b \in At : b # a => held'[b] = held[b] /\ count'[b] = count[b]
  BY <1>1, <1>2, <1>3 DEF TypesOK
<1>5. TypesOK'
  BY <1>1, <1>2, <1>4 DEF TypesOK
<1> DEFINE d == Do("purge", a, NIL, NIL)
<1>6. /\ d.do = "purge" /\ d.at = a /\ \A b : d # Unlock(b)
  BY UnlockEqual DEF Do
<1>7. /\ Few(todo')
      /\ \A b \in At : /\ Occurrences(todo', {Unlock(b)}) = 0
                       /\ DoomedIn(todo', b) <=> (b = a /\ count[a] = 1)
  <2>1. CASE count[a] = 1
    <3>1. todo' = <<d>>
      BY <1>1, <2>1
    <3>2. Few(todo')
      BY <3>1 DEF Few
    <3> HIDE DEF d
    <3>3. ToSet(<<d>>) = {d}
      BY DEF ToSet
    <3>4. \A b : Occurrences(<<d>>, {Unlock(b)}) = 0
      <4> TAKE b
      <4>1. d \notin {Unlock(b)}
        BY <1>6
      <4> QED BY <4>1, OccurrencesOne
    <3>5. \A b : DoomedIn(<<d>>, b) <=> b = a
      BY <1>6, <3>3 DEF DoomedIn, Dooms
    <3> QED BY <2>1, <3>1, <3>2, <3>4, <3>5
  <2>2. CASE count[a] # 1
    <3>1. todo' = <<>>
      BY <1>1, <2>2
    <3> QED BY <2>2, <3>1, NothingLeft
  <2> QED BY <2>1, <2>2
<1> HIDE DEF d
<1>8. CountsOK'
  <2> SUFFICES ASSUME NEW b \in At
               PROVE  /\ count'[b] = held'[b] + Occurrences(todo', {Unlock(b)}) + HeldByTables(htable, b)
                      /\ (count'[b] = 0) <=> (status[b] = "free" \/ DoomedIn(todo', b))
    BY <1>1 DEF CountsOK
  <2>1. /\ count[b] = held[b] + HeldByTables(htable, b)
        /\ (count[b] = 0) <=> (status[b] = "free")
        /\ count[b] \in Nat /\ held[b] \in Nat /\ HeldByTables(htable, b) \in Nat
    BY <1>1, LispFacts
  <2>2. Occurrences(todo', {Unlock(b)}) = 0 /\ (DoomedIn(todo', b) <=> (b = a /\ count[a] = 1))
    BY <1>7
  <2>3. CASE b = a
    <3>1. count'[b] = count[b] - 1 /\ held'[b] = held[b] - 1
      BY <1>4, <2>3
    <3>2. count'[b] = held'[b] + 0 + HeldByTables(htable, b)
      BY <2>1, <3>1
    <3>3. (count'[b] = 0) <=> count[a] = 1
      BY <2>1, <2>3, <3>1
    <3> QED BY <1>2, <2>2, <2>3, <3>2, <3>3
  <2>4. CASE b # a
    BY <1>4, <2>1, <2>2, <2>4
  <2> QED BY <2>3, <2>4
<1>9. ContentsLive'
  BY <1>1, <1>2 DEF AtRest, ContentsLive
<1>10. AtRest'
  BY <1>1, <1>2, <1>5, <1>8, <1>9 DEF AtRest
<1>11. (AtRest /\ Few(todo))' => IInv'
  BY FewIsInv, PTL
<1> QED BY <1>7, <1>10, <1>11

\* What bread does, with the names of this module.
LEMMA BreadProperties ==
  ASSUME NEW t \in Table, NEW file \in File, Bread(t, file)
  PROVE  /\ InLisp /\ \A a \in Loaded(file) \cup {t} : status[a] = "free"
         /\ status' = [a \in At |-> IF a \in Loaded(file) \cup {t} THEN "live" ELSE status[a]]
         /\ count' = [a \in At |-> IF a = t THEN 1
                                   ELSE IF a \in Loaded(file) THEN RefsIn(file, a) ELSE count[a]]
         /\ held' = [held EXCEPT ![t] = 1]
         /\ flagged' = flagged \ (Loaded(file) \cup {t})
         /\ htable' = [htable EXCEPT ![t] = SavedTable(file)]
         /\ UNCHANGED <<finalizers, todo, wild>>
BY DEF Bread, Loaded, RefsIn, SavedTable

LEMMA BreadKeeps ==
  ASSUME IInv, FilesInOrder, DeletedNotStored, NEW t \in Table, NEW file \in File, Bread(t, file)
  PROVE  IInv'
<1>1. /\ InLisp /\ \A a \in Loaded(file) \cup {t} : status[a] = "free"
      /\ status' = [a \in At |-> IF a \in Loaded(file) \cup {t} THEN "live" ELSE status[a]]
      /\ count' = [a \in At |-> IF a = t THEN 1
                                ELSE IF a \in Loaded(file) THEN RefsIn(file, a) ELSE count[a]]
      /\ held' = [held EXCEPT ![t] = 1]
      /\ flagged' = flagged \ (Loaded(file) \cup {t})
      /\ htable' = [htable EXCEPT ![t] = SavedTable(file)]
      /\ UNCHANGED <<finalizers, todo, wild>>
  BY BreadProperties
<1>2. todo = <<>> /\ AtRest /\ TypesOK
  BY <1>1, LispFacts
<1>3. PICK g : g = SavedTable(file)
  OBVIOUS
<1>4. /\ Sound(g) /\ g.size = Size /\ g.nelems = Len(file) /\ g.keylockp = TRUE /\ g.rehashp = TRUE
      /\ Len(file) \in Nat /\ 3 * (Len(file) - 1) <= 2 * Size
      /\ Loaded(file) \in SUBSET Plain
      /\ \A e \in Associations(g) : e.key \in Loaded(file) /\ e.value \in Loaded(file)
      /\ Cardinality(KeysOf(g)) = Len(file)
      /\ \A a \in At : /\ HeldBy(g, a) = RefsIn(file, a)
                       /\ (HeldBy(g, a) = 0) <=> a \notin Loaded(file)
  BY <1>3, SavedProperties
<1>5. t \in At /\ t \notin Loaded(file) /\ Loaded(file) \in SUBSET At
  BY <1>4, NilNotAt
<1>6. \A a \in Loaded(file) : a \notin Mortal
  BY DEF DeletedNotStored, Loaded, ToSet
<1>7. DOMAIN htable' = Table /\ htable'[t] = g /\ \A u \in Table : u # t => htable'[u] = htable[u]
  BY <1>1, <1>2, <1>3 DEF AtRest
<1>8. htable[t] = Gone
  BY <1>1, <1>2 DEF AtRest
<1>9. TableOK(g, 0) /\ g # Gone
  <2>1. g.size # 0 /\ g.size >= 2 /\ g.nelems = Cardinality(KeysOf(g)) + 0
        /\ 3 * (g.nelems - 1) <= 2 * g.size
    BY <1>4, HtableAssumption
  <2> QED BY <1>4, <2>1, NotGone DEF TableOK
<1>10. ASSUME NEW a \in At
       PROVE  /\ HeldByTables(htable', a) = HeldByTables(htable, a) + HeldBy(g, a)
              /\ HeldByTables(htable, a) \in Nat /\ HeldBy(g, a) \in Nat
  <2>1. OnlyTable(t, g)
    BY <1>7 DEF OnlyTable, SameBut
  <2>2. /\ HeldByTables(htable, a) \in Nat /\ HeldBy(g, a) \in Nat
        /\ HeldByTables(htable', a)
             = HeldByTables(htable, a) - HeldBy(htable[t], a) + HeldBy(g, a)
    BY <2>1, TableChange
  <2>3. HeldBy(htable[t], a) = 0
    BY <1>8, HeldByNone, NewAndGone
  <2> QED BY <2>2, <2>3
<1>11. ASSUME NEW a \in At
       PROVE  /\ count[a] = held[a] + HeldByTables(htable, a)
              /\ (count[a] = 0) <=> (status[a] = "free")
              /\ count[a] \in Nat /\ held[a] \in Nat
  BY <1>1, LispFacts
<1>12. TypesOK'
  <2>1. 1 \in 0..MaxHeld
    BY HtableAssumption
  <2>2. held' \in [At -> 0..MaxHeld]
    BY <1>1, <1>2, <2>1 DEF TypesOK
  <2>3. status' \in [At -> {"free", "live", "zombie"}]
    BY <1>1, <1>2 DEF TypesOK
  <2>4. count' \in [At -> Nat]
    <3>1. ASSUME NEW a \in At
          PROVE  (IF a = t THEN 1 ELSE IF a \in Loaded(file) THEN RefsIn(file, a) ELSE count[a]) \in Nat
      BY <1>4, <1>10, <1>11
    <3> QED BY <1>1, <3>1
  <2> QED BY <1>1, <1>2, <2>2, <2>3, <2>4 DEF TypesOK
<1>13. CountsOK'
  <2> SUFFICES ASSUME NEW a \in At
               PROVE  /\ count'[a] = held'[a] + Occurrences(todo', {Unlock(a)}) + HeldByTables(htable', a)
                      /\ (count'[a] = 0) <=> (status'[a] = "free" \/ DoomedIn(todo', a))
    BY DEF CountsOK
  <2>1. Occurrences(todo', {Unlock(a)}) = 0 /\ ~DoomedIn(todo', a)
    BY <1>1, <1>2, NothingLeft
  <2>2. /\ HeldByTables(htable', a) = HeldByTables(htable, a) + HeldBy(g, a)
        /\ HeldByTables(htable, a) \in Nat /\ HeldBy(g, a) \in Nat
        /\ HeldBy(g, a) = RefsIn(file, a) /\ ((HeldBy(g, a) = 0) <=> a \notin Loaded(file))
    BY <1>4, <1>10
  <2>3. /\ count[a] = held[a] + HeldByTables(htable, a)
        /\ (count[a] = 0) <=> (status[a] = "free")
        /\ count[a] \in Nat /\ held[a] \in Nat
    BY <1>11
  <2>4. CASE a = t
    <3>1. count'[a] = 1 /\ held'[a] = 1 /\ status'[a] = "live"
      BY <1>1, <1>2, <2>4 DEF TypesOK
    <3>2. HeldByTables(htable, a) = 0 /\ HeldBy(g, a) = 0
      BY <1>1, <1>5, <2>2, <2>3, <2>4
    <3> QED BY <2>1, <2>2, <3>1, <3>2
  <2>5. CASE a \in Loaded(file)
    <3>1. count'[a] = RefsIn(file, a) /\ held'[a] = held[a] /\ status'[a] = "live"
      BY <1>1, <1>2, <1>5, <2>5 DEF TypesOK
    <3>2. HeldByTables(htable, a) = 0 /\ held[a] = 0
      BY <1>1, <2>2, <2>3, <2>5
    <3>3. count'[a] # 0 /\ count'[a] = held'[a] + 0 + HeldByTables(htable', a)
      BY <2>2, <2>5, <3>1, <3>2
    <3> QED BY <2>1, <3>1, <3>3
  <2>6. CASE a # t /\ a \notin Loaded(file)
    <3>1. count'[a] = count[a] /\ held'[a] = held[a] /\ status'[a] = status[a]
      BY <1>1, <1>2, <2>6 DEF TypesOK
    <3> QED BY <2>1, <2>2, <2>3, <2>6, <3>1
  <2> QED BY <2>4, <2>5, <2>6
<1>14. ASSUME NEW u \in Table, NEW e \in Associations(htable[u])
       PROVE  /\ e.key \in Plain /\ e.key \in KeysOf(htable[u])
              /\ status[e.key] = "live" /\ status'[e.key] = "live" /\ e.value \notin Mortal
              /\ htable[u].keylockp => e.key \notin Mortal
  <2>1. Sound(htable[u])
    BY <1>2 DEF AtRest, TableOK
  <2>2. e.key \in Plain /\ e.key \in KeysOf(htable[u])
    BY <1>14, <2>1, SoundProperties DEF Assoc, KeysOf
  <2>3. /\ status[e.key] = "live" /\ e.value \notin Mortal
        /\ htable[u].keylockp => e.key \notin Mortal
    BY <1>2, <1>14 DEF AtRest, ContentsLive
  <2>4. e.key \in At
    BY <2>2, NilNotAt
  <2>5. status'[e.key] = "live"
    BY <1>1, <2>3, <2>4
  <2> QED BY <2>2, <2>3, <2>5
<1>15. ContentsLive'
  <2>1. ASSUME NEW a \in At, status'[a] = "zombie" PROVE a \in Mortal
    <3>1. status[a] = "zombie"
      BY <1>1, <2>1
    <3> QED BY <1>2, <3>1 DEF AtRest, ContentsLive
  <2>2. ASSUME NEW u \in Table, NEW e \in Associations(htable'[u])
        PROVE  /\ status'[e.key] = "live" /\ e.value \notin Mortal
               /\ htable'[u].keylockp => e.key \notin Mortal
    <3>1. CASE u = t
      <4>1. e.key \in Loaded(file) /\ e.value \in Loaded(file)
        BY <1>4, <1>7, <2>2, <3>1
      <4>2. e.key \in At
        BY <1>5, <4>1
      <4> QED BY <1>1, <1>6, <4>1, <4>2
    <3>2. CASE u # t
      BY <1>7, <1>14, <2>2, <3>2
    <3> QED BY <3>1, <3>2
  <2> QED BY <2>1, <2>2 DEF ContentsLive
<1>16. \A u \in Table, k \in Plain :
         <<u, k>> \in WeakIn(htable') => k \in flagged' /\ Contains(finalizers'[k], u)
  <2> SUFFICES ASSUME NEW u \in Table, NEW k \in Plain, <<u, k>> \in WeakIn(htable')
               PROVE  k \in flagged' /\ Contains(finalizers'[k], u)
    OBVIOUS
  <2>1. u # t
    BY <1>4, <1>7 DEF WeakIn
  <2>2. <<u, k>> \in WeakIn(htable) /\ k \in KeysOf(htable[u])
    BY <1>7, <2>1 DEF WeakIn
  <2>3. k \in flagged /\ Contains(finalizers[k], u)
    BY <1>2, <2>2 DEF AtRest
  <2>4. status[k] = "live"
    BY <1>14, <2>2 DEF KeysOf
  <2>5. k \notin Loaded(file) \cup {t}
    BY <1>1, <2>4
  <2> QED BY <1>1, <2>3, <2>5
<1>17. \A u \in Table : htable'[u].keylockp =>
         htable'[u].rehashp /\ \A k \in Plain : ~Contains(finalizers'[k], u)
  <2> SUFFICES ASSUME NEW u \in Table, htable'[u].keylockp
               PROVE  htable'[u].rehashp /\ \A k \in Plain : ~Contains(finalizers[k], u)
    BY <1>1
  <2>1. CASE u = t
    <3>1. \A k \in Plain : ~Contains(finalizers[k], u)
      BY <1>2, <1>8, <2>1 DEF AtRest
    <3> QED BY <1>4, <1>7, <2>1, <3>1
  <2>2. CASE u # t
    BY <1>2, <1>7, <2>2 DEF AtRest
  <2> QED BY <2>1, <2>2
<1>18. \A u \in Table, k \in Plain : Contains(finalizers'[k], u) => htable'[u] # Gone
  <2>1. \A u \in Table, k \in Plain : Contains(finalizers[k], u) => htable[u] # Gone
    BY <1>2 DEF AtRest
  <2> QED BY <1>1, <1>7, <1>8, <2>1
<1>19. \A u \in Table : /\ TableOK(htable'[u], 0)
                        /\ status'[u] = "free" => htable'[u] = Gone
  <2> TAKE u \in Table
  <2>1. CASE u = t
    BY <1>1, <1>5, <1>7, <1>9, <2>1
  <2>2. CASE u # t
    <3>1. u \in At /\ u \notin Loaded(file)
      BY <1>4, NilNotAt
    <3>2. status'[u] = status[u]
      BY <1>1, <2>2, <3>1
    <3> QED BY <1>2, <1>7, <2>2, <3>2 DEF AtRest
  <2> QED BY <2>1, <2>2
<1>20. AtRest'
  BY <1>7, <1>12, <1>13, <1>15, <1>16, <1>17, <1>18, <1>19 DEF AtRest
<1>21. Few(todo')
  BY <1>1, <1>2, NothingLeft
<1>22. (AtRest /\ Few(todo))' => IInv'
  BY FewIsInv, PTL
<1> QED BY <1>20, <1>21, <1>22

-----------------------------------------------------------------------------
(* The invariant.                                                          *)

LEMMA InitGivesIInv ==
  ASSUME Init
  PROVE  IInv
<1>1. /\ status = [a \in At |-> "free"] /\ count = [a \in At |-> 0]
      /\ held = [a \in At |-> 0] /\ flagged = {} /\ finalizers = [k \in Plain |-> <<>>]
      /\ htable = [t \in Table |-> Gone] /\ todo = <<>> /\ wild = FALSE
  BY DEF Init
<1>2. /\ Sound(Gone) /\ Associations(Gone) = {} /\ KeysOf(Gone) = {}
      /\ Gone.size = 0 /\ Gone.keylockp = FALSE
  BY NewAndGone
<1>3. \A t \in Table : htable[t] = Gone
  BY <1>1
<1>4. TypesOK
  <2>1. 0 \in 0..MaxHeld
    BY HtableAssumption
  <2>2. <<>> \in Seq(Table)
    OBVIOUS
  <2> QED BY <1>1, <2>1, <2>2 DEF TypesOK
<1>5. CountsOK
  <2> SUFFICES ASSUME NEW a \in At
               PROVE  /\ count[a] = held[a] + Occurrences(todo, {Unlock(a)}) + HeldByTables(htable, a)
                      /\ (count[a] = 0) <=> (status[a] = "free" \/ DoomedIn(todo, a))
    BY DEF CountsOK
  <2>1. Occurrences(todo, {Unlock(a)}) = 0
    BY <1>1, NothingLeft
  <2>2. HeldByTables(htable, a) = 0
    <3>1. {r \in Table \X Plain : [key |-> r[2], value |-> a] \in Associations(htable[r[1]])} = {}
      <4>1. \A r \in Table \X Plain : Associations(htable[r[1]]) = {}
        BY <1>2, <1>3
      <4> QED BY <4>1
    <3>2. {t \in Table : htable[t].keylockp /\ a \in KeysOf(htable[t])} = {}
      BY <1>2, <1>3
    <3>3. Cardinality({}) = 0
      BY FS_EmptySet
    <3>4. HeldByTables(htable, a) = Cardinality({}) + Cardinality({})
      BY <3>1, <3>2, Zenon DEF HeldByTables
    <3> QED BY <3>3, <3>4
  <2> QED BY <1>1, <2>1, <2>2
<1>6. ContentsLive
  BY <1>1, <1>2, <1>3 DEF ContentsLive
<1>7. TableOK(Gone, 0)
  BY <1>2 DEF TableOK
<1>8. \A t \in Table, k \in Plain : ~Contains(finalizers[k], t) /\ <<t, k>> \notin WeakIn(htable)
  <2> TAKE t \in Table, k \in Plain
  <2>1. finalizers[k] = <<>>
    BY <1>1
  <2>2. ~Contains(<<>>, t)
    BY DEF Contains
  <2> QED BY <1>2, <1>3, <2>1, <2>2 DEF WeakIn
<1>9. AtRest
  BY <1>1, <1>2, <1>3, <1>4, <1>5, <1>6, <1>7, <1>8 DEF AtRest
<1>10. Few(todo)
  BY <1>1, NothingLeft
<1> QED BY <1>9, <1>10, FewIsInv

LEMMA RunKeeps ==
  ASSUME IInv, DeletedNotStored, Run
  PROVE  IInv'
<1>1. CASE RunUnlock
  BY <1>1, UnlockKeeps
<1>2. CASE RunFinalizers
  BY <1>2, FinalizersKeeps
<1>3. CASE RunFinalize
  BY <1>3, FinalizeKeeps
<1>4. CASE RunFinalized
  BY <1>4, FinalizedKeeps
<1>5. CASE RunDispose
  BY <1>5, DisposeKeeps
<1>6. CASE RunZombify
  BY <1>6, ZombifyKeeps
<1>7. CASE RunRehash
  BY <1>7, RehashKeeps
<1>8. CASE RunRecompute
  BY <1>8, RecomputeKeeps
<1>9. CASE RunSet \/ RunGet
  BY <1>9, AccessKeeps
<1> QED BY <1>1, <1>2, <1>3, <1>4, <1>5, <1>6, <1>7, <1>8, <1>9 DEF Run

LEMMA LispKeeps ==
  ASSUME IInv, FilesInOrder, DeletedNotStored, Lisp
  PROVE  IInv'
<1>1. ASSUME NEW a \in At, New(a) PROVE IInv'
  BY <1>1, NewKeeps
<1>2. ASSUME NEW a \in At, Drop(a) PROVE IInv'
  BY <1>2, DropKeeps
<1>3. ASSUME NEW a \in Mortal, Delete(a) PROVE IInv'
  BY <1>3, DeleteKeeps
<1>4. ASSUME NEW t \in Table, Rehash(t) PROVE IInv'
  BY <1>4, RehashLispKeeps
<1>5. ASSUME NEW t \in Table, NEW f \in File, Bread(t, f) PROVE IInv'
  BY <1>5, BreadKeeps
<1>6. ASSUME NEW t \in Table, NEW k \in Key, Get(t, k) PROVE IInv'
  BY <1>6, GetLispKeeps
<1>7. ASSUME NEW t \in Table, NEW k \in Key, Keys(t, k) PROVE IInv'
  BY <1>7, KeysKeeps
<1>8. ASSUME NEW t \in Table, NEW k \in Key, NEW v \in Value \cup {NIL}, Set(t, k, v) PROVE IInv'
  BY <1>8, SetLispKeeps
<1> QED BY <1>1, <1>2, <1>3, <1>4, <1>5, <1>6, <1>7, <1>8 DEF Lisp

LEMMA StutterKeeps ==
  ASSUME IInv, UNCHANGED vars
  PROVE  IInv'
<1>1. /\ status' = status /\ count' = count /\ flagged' = flagged /\ held' = held
      /\ finalizers' = finalizers /\ htable' = htable /\ todo' = todo /\ wild' = wild
  BY DEF vars, objects
<1>2. TypesOK' /\ TablesOK' /\ CountsOK' /\ ContentsLive'
  BY <1>1 DEF IInv, TypesOK, TablesOK, CountsOK, ContentsLive
<1>3. KeysRegistered' /\ LockedTables' /\ Needs'
  BY <1>1 DEF IInv, KeysRegistered, LockedTables, Needs
<1>4. Shape(todo') /\ DiesOnce(todo') /\ GoFirst(todo', WeakIn(htable'))
  BY <1>1 DEF IInv
<1> QED BY <1>2, <1>3, <1>4 DEF IInv

\* The invariant of the tables, their finalizers and the stack of tasks, from
\* which the others follow, holds of all that htable.c and allocate.c do.
THEOREM InvariantHolds ==
  ASSUME FilesInOrder, DeletedNotStored
  PROVE  Spec => []IInv
<1>1. Init => IInv
  BY InitGivesIInv
<1>2. IInv /\ [Next]_vars => IInv'
  <2> SUFFICES ASSUME IInv, [Next]_vars PROVE IInv'
    OBVIOUS
  <2>1. CASE Run
    BY <2>1, RunKeeps
  <2>2. CASE Lisp
    BY <2>2, LispKeeps
  <2>3. CASE UNCHANGED vars
    BY <2>3, StutterKeeps
  <2> QED BY <2>1, <2>2, <2>3 DEF Next
<1> QED BY <1>1, <1>2, PTL DEF Spec

-----------------------------------------------------------------------------
(* What it means.                                                          *)

LEMMA InvTables ==
  ASSUME IInv, NEW t \in Table, NEW h, h = htable[t]
  PROVE  /\ Sound(h) /\ (h.size # 0 <=> h # Gone)
         /\ h # Gone => /\ h.nelems = Cardinality(KeysOf(h)) + Occurrences(todo, RemovalsOf(t))
                        /\ 3 * (h.nelems - 1) <= 2 * h.size
         /\ KeysOf(h) # {} => h # Gone
<1>1. TableOK(h, Occurrences(todo, RemovalsOf(t)))
  BY DEF IInv, TablesOK
<1>2. Sound(h) /\ h.size \in Nat
  BY <1>1 DEF TableOK, Sound
<1>3. /\ h # Gone => /\ h.size >= 2
                     /\ h.nelems = Cardinality(KeysOf(h)) + Occurrences(todo, RemovalsOf(t))
                     /\ 3 * (h.nelems - 1) <= 2 * h.size
  BY <1>1 DEF TableOK
<1>4. Gone.size = 0 /\ KeysOf(Gone) = {}
  BY NewAndGone
<1> QED BY <1>2, <1>3, <1>4

\* Every variable has its type: also the chains of a table whose elements are
\* unlinked and relocated, and the list of what the C functions have to do.
THEOREM TypeCorrect ==
  ASSUME FilesInOrder, DeletedNotStored
  PROVE  Spec => []TypeOK
<1>1. IInv => TypeOK
  <2> SUFFICES ASSUME IInv PROVE TypeOK
    OBVIOUS
  <2>1. TypesOK /\ todo \in Seq(Task)
    BY DEF IInv, Shape
  <2>2. flagged \subseteq At
    BY <2>1, NilNotAt DEF TypesOK
  <2>3. ASSUME NEW t \in Table
        PROVE  /\ htable[t].size \in Nat /\ htable[t].nelems \in Nat
               /\ htable[t].keylockp \in BOOLEAN
               /\ htable[t].rehashp \in BOOLEAN
               /\ htable[t].table \in [0..(htable[t].size - 1) -> Seq(Assoc)]
    <3>1. Sound(htable[t])
      BY InvTables
    <3> QED BY <3>1, SoundProperties DEF Chains
  <2> QED BY <2>1, <2>2, <2>3 DEF TypeOK, TypesOK
<1> QED BY <1>1, InvariantHolds, PTL

\* Each reference of lisp code, of C functions and of tables is counted, once,
\* and an object dies with the last: while htable_rehash makes the references to
\* keys weak, and while tables, keys and values take each other down.
THEOREM FreedWithLastReferenceCorrect ==
  ASSUME FilesInOrder, DeletedNotStored
  PROVE  Spec => []FreedWithLastReference
<1>1. IInv => FreedWithLastReference
  <2> SUFFICES ASSUME IInv, NEW a \in At
               PROVE  /\ count[a] = References(a)
                      /\ (count[a] = 0) <=> (status[a] = "free" \/ Doomed(a))
    BY DEF FreedWithLastReference
  <2>1. /\ count[a] = held[a] + Occurrences(todo, {Unlock(a)}) + HeldByTables(htable, a)
        /\ (count[a] = 0) <=> (status[a] = "free" \/ DoomedIn(todo, a))
        /\ held[a] \in Nat
    BY CountFacts
  <2>2. {i \in DOMAIN todo : todo[i] = Unlock(a)} = {i \in DOMAIN todo : todo[i] \in {Unlock(a)}}
    OBVIOUS
  <2>3. DoomedIn(todo, a) <=> Doomed(a)
    BY DEF DoomedIn, Doomed, Dooms, ToSet
  <2> DEFINE u == Cardinality({i \in DOMAIN todo : todo[i] = Unlock(a)})
             v == Cardinality({r \in Table \X Plain :
                                 [key |-> r[2], value |-> a] \in Associations(htable[r[1]])})
             w == Cardinality({t \in Table : htable[t].keylockp /\ a \in KeysOf(htable[t])})
  <2>4. References(a) = held[a] + u + v + w
    BY DEF References
  <2>5. Occurrences(todo, {Unlock(a)}) = u
    BY <2>2 DEF Occurrences
  <2>6. HeldByTables(htable, a) = v + w
    BY DEF HeldByTables
  <2>7. u \in Nat /\ v \in Nat /\ w \in Nat
    <3>1. u \in Nat
      BY <2>5, CountFacts
    <3> DEFINE V == {r \in Table \X Plain :
                       [key |-> r[2], value |-> a] \in Associations(htable[r[1]])}
               W == {t \in Table : htable[t].keylockp /\ a \in KeysOf(htable[t])}
    <3>2. V \in SUBSET (Table \X Plain) /\ W \in SUBSET Table
      OBVIOUS
    <3>3. v = Cardinality(V) /\ w = Cardinality(W)
      OBVIOUS
    <3> HIDE DEF u, v, w, V, W
    <3>4. v \in Nat /\ w \in Nat
      BY <3>2, <3>3, FiniteTables, FS_Subset, FS_CardinalityType
    <3> QED BY <3>1, <3>4
  <2> HIDE DEF u, v, w
  <2>8. count[a] = References(a)
    BY <2>1, <2>4, <2>5, <2>6, <2>7
  <2> QED BY <2>1, <2>3, <2>8
<1> QED BY <1>1, InvariantHolds, PTL

\* No association outlives its key: run_finalizers removes it before purge frees
\* the key, and a table that locks its keys keeps them alive.
THEOREM AssociationsRemovedCorrect ==
  ASSUME FilesInOrder, DeletedNotStored
  PROVE  Spec => []AssociationsRemoved
<1>1. IInv => AssociationsRemoved
  <2> SUFFICES ASSUME IInv, NEW t \in Table, NEW k \in KeysOf(htable[t])
               PROVE  status[k] # "free"
    BY DEF AssociationsRemoved
  <2>1. status[k] = "live"
    BY DEF IInv, ContentsLive, KeysOf
  <2> QED BY <2>1
<1> QED BY <1>1, InvariantHolds, PTL

\* The key of a weak association has its finalizer, or run_finalizers is about
\* to call it: the one record of htable_set is never lost, whatever tables are
\* disposed of and however often they are rehashed.
THEOREM WeakKeysRegisteredCorrect ==
  ASSUME FilesInOrder, DeletedNotStored
  PROVE  Spec => []WeakKeysRegistered
<1>1. IInv => WeakKeysRegistered
  <2> SUFFICES ASSUME IInv, NEW t \in Table, ~htable[t].keylockp, NEW k \in KeysOf(htable[t])
               PROVE  \/ k \in flagged /\ Contains(finalizers[k], t)
                      \/ \E i \in DOMAIN todo : todo[i] = Do("finalize", k, t, NIL)
    BY DEF WeakKeysRegistered
  <2>1. Sound(htable[t])
    BY InvTables
  <2>2. k \in Plain
    BY <2>1, SoundProperties
  <2>3. <<t, k>> \in WeakIn(htable)
    BY <2>2 DEF WeakIn
  <2> QED BY <2>2, <2>3 DEF IInv, KeysRegistered, ToSet
<1> QED BY <1>1, InvariantHolds, PTL

\* htable_get finds every key that htable_keys returns, in the bucket it hashes
\* to, and nelems, which decides when the table is extended, is right.
THEOREM KeysAreFoundCorrect ==
  ASSUME FilesInOrder, DeletedNotStored
  PROVE  Spec => []KeysAreFound
<1>1. IInv => KeysAreFound
  <2> SUFFICES ASSUME IInv, NEW t \in Table, NEW h, h = htable[t]
               PROVE  /\ ~h.rehashp => \A k \in KeysOf(h) : Place(h, k) # 0
                      /\ Cardinality(KeysOf(h)) = Len(Elements(h))
                      /\ h # Gone =>
                           /\ h.nelems = Len(Elements(h)) + Removing(t)
                           /\ 3 * (h.nelems - 1) <= 2 * h.size
    BY DEF KeysAreFound
  <2>1. /\ Sound(h) /\ (h.size # 0 <=> h # Gone)
        /\ h # Gone => /\ h.nelems = Cardinality(KeysOf(h)) + Occurrences(todo, RemovalsOf(t))
                       /\ 3 * (h.nelems - 1) <= 2 * h.size
        /\ KeysOf(h) # {} => h # Gone
    BY InvTables
  <2>2. ASSUME NEW k \in KeysOf(h) PROVE Place(h, k) # 0
    <3>1. k \in Plain /\ h.size # 0
      BY <2>1, SoundProperties
    <3> QED BY <2>1, <3>1, PlaceFinds
  <2>3. Len(Elements(h)) = Cardinality(KeysOf(h))
    BY <2>1, ElementsProperties
  <2>4. Removing(t) = Occurrences(todo, RemovalsOf(t))
    <3>1. todo \in Seq(Task) /\ \A i \in DOMAIN todo : todo[i] \in Task
      <4>1. todo \in Seq(Task)
        BY DEF IInv, Shape
      <4> QED BY <4>1, LenProperties, ElementOfSeq
    <3>2. {i \in DOMAIN todo : todo[i].do = "finalized" /\ todo[i].table = t}
            = {i \in DOMAIN todo : todo[i] \in RemovalsOf(t)}
      BY <3>1 DEF RemovalsOf
    <3> QED BY <3>2 DEF Removing, Occurrences
  <2> QED BY <2>1, <2>2, <2>3, <2>4
<1> QED BY <1>1, InvariantHolds, PTL

-----------------------------------------------------------------------------
(* No function goes on with what is freed.                                 *)

\* The objects in tables, as values and as keys.
Stored == Value \cup UNION {{file[i].value : i \in DOMAIN file} : file \in File}
Keyed == Key \cup UNION {{file[i].key : i \in DOMAIN file} : file \in File}

\* No table is a value, nor is a key unless it is the only value there is.
StoredApart ==
  /\ Stored \cap Table = {}
  /\ \A v \in Stored \cap Keyed : Stored = {v}

ContentsKnown ==
  \A t \in Table : \A e \in Associations(htable[t]) : e.key \in Keyed /\ e.value \in Stored
RecordsKnown ==
  \A t \in Table, k \in Plain : Contains(finalizers[k], t) => k \in Keyed

\* A removal under way has its table, and the element its pointer lies in.
SafeTask(ht, d) ==
  d.do \in Removals =>
    /\ d.at \in Keyed /\ ht[d.table] # Gone
    /\ d.do = "finalized" /\ d.other # NIL => d.other \in KeysOf(ht[d.table])

\* Nothing waits for the end of a table; and while the value of an element is
\* dropped no other element is taken from any table.
Drop3 == {"unlock", "purge", "dispose"}
Light(d) == d.do \in Drop3 \cup {"finalize"} /\ d.at \in Stored
Steady(s, i) ==
  /\ s[i].do \in Drop3 /\ s[i].at \in Table => i = Len(s)
  /\ s[i].do = "finalized" => \A j \in 1..(i - 1) : Light(s[j])
AllSteady(s) == \A i \in 1..Len(s) : Steady(s, i)

SafeInv ==
  /\ ~wild
  /\ ContentsKnown /\ RecordsKnown
  /\ \A d \in ToSet(todo) : SafeTask(htable, d)
  /\ AllSteady(todo)

LEMMA StoredTypes ==
  ASSUME StoredApart, DeletedNotStored
  PROVE  /\ Stored \in SUBSET Plain /\ Keyed \in SUBSET Plain
         /\ Key \in SUBSET Keyed /\ Value \in SUBSET Stored
         /\ \A v \in Stored : v \notin Mortal /\ v \notin Table /\ v \in At
         /\ \A v, k \in Stored : k \in Keyed => v = k
         /\ \A file \in File : \A i \in DOMAIN file : file[i].key \in Keyed /\ file[i].value \in Stored
<1>1. ASSUME NEW file \in File, NEW i \in DOMAIN file
      PROVE  /\ file[i].key \in Plain /\ file[i].value \in Plain
             /\ file[i].key \in Keyed /\ file[i].value \in Stored
             /\ file[i].value \notin Mortal
  <2>1. file \in Seq([key : Plain, value : Plain])
    BY HtableAssumption DEF IsSavedTable
  <2>2. file[i] \in [key : Plain, value : Plain]
    BY <2>1, LenProperties, ElementOfSeq
  <2>3. file[i].key \in Keyed /\ file[i].value \in Stored
    BY DEF Keyed, Stored
  <2>4. file[i].value \notin Mortal
    BY DEF DeletedNotStored
  <2> QED BY <2>2, <2>3, <2>4
<1>2. ASSUME NEW v \in Stored PROVE v \in Plain /\ v \notin Mortal /\ v \notin Table /\ v \in At
  <2>1. v \notin Table
    BY DEF StoredApart
  <2>2. CASE v \in Value
    BY <2>1, <2>2, NilNotAt DEF At, DeletedNotStored
  <2>3. CASE v \notin Value
    <3>1. PICK file \in File : \E i \in DOMAIN file : v = file[i].value
      BY <2>3 DEF Stored
    <3> QED BY <1>1, <2>1, <3>1, NilNotAt
  <2> QED BY <2>2, <2>3
<1>3. ASSUME NEW k \in Keyed PROVE k \in Plain
  <2>1. CASE k \in Key
    BY <2>1, NilNotAt
  <2>2. CASE k \notin Key
    <3>1. PICK file \in File : \E i \in DOMAIN file : k = file[i].key
      BY <2>2 DEF Keyed
    <3> QED BY <1>1, <3>1
  <2> QED BY <2>1, <2>2
<1>4. Key \in SUBSET Keyed /\ Value \in SUBSET Stored
  BY DEF Keyed, Stored
<1>5. \A v, k \in Stored : k \in Keyed => v = k
  BY DEF StoredApart
<1> QED BY <1>1, <1>2, <1>3, <1>4, <1>5

\* The first task replaced: what may take its place.
SteadyNew(s, new, j) ==
  /\ new[j].do \in Drop3 /\ new[j].at \in Table => j = Len(new) /\ Len(s) = 1
  /\ new[j].do = "finalized" => \A i \in 1..(j - 1) : Light(new[i])
  /\ (\E i \in 2..Len(s) : s[i].do = "finalized") => Light(new[j])

LEMMA SteadyKept ==
  ASSUME NEW s \in Seq(Task), s # <<>>, AllSteady(s), NEW new \in Seq(Task),
         \A j \in 1..Len(new) : SteadyNew(s, new, j)
  PROVE  AllSteady(new \o Tail(s))
<1> DEFINE u == new \o Tail(s)
<1>1. /\ u \in Seq(Task)
      /\ Len(s) \in Nat \ {0} /\ Len(new) \in Nat
      /\ Len(u) = Len(new) + Len(s) - 1
      /\ \A j \in 1..Len(new) : u[j] = new[j]
      /\ \A j \in 2..Len(s) : u[j + Len(new) - 1] = s[j]
  BY ReplacedAt
<1>2. \A i \in 1..Len(u) : \/ i \in 1..Len(new) /\ u[i] = new[i]
                           \/ \E k \in 2..Len(s) : i = k + Len(new) - 1 /\ u[i] = s[k]
  BY ReplacedPositions
<1> HIDE DEF u
<1>3. ASSUME NEW i \in 1..Len(u), u[i].do \in Drop3, u[i].at \in Table
      PROVE  i = Len(u)
  <2>1. CASE i \in 1..Len(new) /\ u[i] = new[i]
    <3>1. i = Len(new) /\ Len(s) = 1
      BY <1>3, <2>1 DEF SteadyNew
    <3> QED BY <1>1, <3>1
  <2>2. CASE \E k \in 2..Len(s) : i = k + Len(new) - 1 /\ u[i] = s[k]
    <3>1. PICK k \in 2..Len(s) : i = k + Len(new) - 1 /\ u[i] = s[k]
      BY <2>2
    <3>2. k \in 1..Len(s)
      BY <1>1
    <3>3. s[k].do \in Drop3 /\ s[k].at \in Table
      BY <1>3, <3>1
    <3>4. k = Len(s)
      BY <3>2, <3>3 DEF AllSteady, Steady
    <3> QED BY <1>1, <3>1, <3>4
  <2> QED BY <1>2, <2>1, <2>2
<1>4. ASSUME NEW i \in 1..Len(u), u[i].do = "finalized", NEW j \in 1..(i - 1)
      PROVE  Light(u[j])
  <2>1. CASE i \in 1..Len(new) /\ u[i] = new[i]
    <3>1. j \in 1..Len(new)
      BY <1>1, <2>1
    <3>2. Light(new[j])
      BY <1>4, <2>1 DEF SteadyNew
    <3> QED BY <1>1, <3>1, <3>2
  <2>2. CASE \E k \in 2..Len(s) : i = k + Len(new) - 1 /\ u[i] = s[k]
    <3>1. PICK k \in 2..Len(s) : i = k + Len(new) - 1 /\ u[i] = s[k]
      BY <2>2
    <3>2. k \in 1..Len(s) /\ s[k].do = "finalized"
      BY <1>1, <1>4, <3>1
    <3>3. j \in 1..Len(u)
      BY <1>1
    <3>4. CASE j \in 1..Len(new) /\ u[j] = new[j]
      BY <3>2, <3>4 DEF SteadyNew
    <3>5. CASE \E m \in 2..Len(s) : j = m + Len(new) - 1 /\ u[j] = s[m]
      <4>1. PICK m \in 2..Len(s) : j = m + Len(new) - 1 /\ u[j] = s[m]
        BY <3>5
      <4>2. m \in 1..(k - 1)
        BY <1>1, <3>1, <4>1
      <4>3. Light(s[m])
        BY <3>2, <4>2 DEF AllSteady, Steady
      <4> QED BY <4>1, <4>3
    <3> QED BY <1>2, <3>3, <3>4, <3>5
  <2> QED BY <1>2, <2>1, <2>2
<1>5. \A i \in 1..Len(u) : Steady(u, i)
  BY <1>3, <1>4 DEF Steady
<1> QED BY <1>5 DEF AllSteady, u

\* What is on the stack after the first task is safe, unless tables lose keys.
KeepsKeys == \A t \in Table : /\ htable[t] # Gone => htable'[t] # Gone
                              /\ KeysOf(htable[t]) \in SUBSET KeysOf(htable'[t])

LEMMA RestSafe ==
  ASSUME IInv, SafeInv, todo # <<>>, KeepsKeys, NEW i \in 2..Len(todo)
  PROVE  SafeTask(htable', todo[i])
<1>1. /\ Shape(todo) /\ todo \in Seq(Task)
      /\ ToSet(todo) = {Head(todo)} \cup {todo[j] : j \in 2..Len(todo)}
  BY ReplacedTasks DEF IInv, Shape
<1>2. todo[i] \in ToSet(todo)
  BY <1>1
<1>3. SafeTask(htable, todo[i]) /\ (todo[i].do \in Removals => todo[i].table \in Table)
  BY <1>1, <1>2, TaskAts DEF SafeInv
<1> QED BY <1>3 DEF SafeTask, KeepsKeys

LEMMA StackSafe ==
  ASSUME IInv, SafeInv, todo # <<>>, NEW new \in Seq(Task), todo' = new \o Tail(todo),
         \A j \in 1..Len(new) : SteadyNew(todo, new, j) /\ SafeTask(htable', new[j]),
         \A i \in 2..Len(todo) : SafeTask(htable', todo[i])
  PROVE  AllSteady(todo') /\ \A d \in ToSet(todo') : SafeTask(htable', d)
<1>1. todo \in Seq(Task) /\ DOMAIN new = 1..Len(new)
  BY LenProperties DEF IInv, Shape
<1>2. ToSet(todo') = ToSet(new) \cup {todo[i] : i \in 2..Len(todo)}
  BY <1>1, ReplacedTasks
<1>3. \A d \in ToSet(new) : SafeTask(htable', d)
  BY <1>1 DEF ToSet
<1>4. AllSteady(todo)
  BY DEF SafeInv
<1> QED BY <1>1, <1>2, <1>3, <1>4, SteadyKept

\* A stack without removals.
Quiet(s) ==
  \A i \in 1..Len(s) : /\ s[i].do \notin Removals
                       /\ s[i].do \in Drop3 /\ s[i].at \in Table => i = Len(s)

LEMMA QuietSafe ==
  ASSUME NEW s \in Seq(Task), Quiet(s), NEW ht
  PROVE  AllSteady(s) /\ \A d \in ToSet(s) : SafeTask(ht, d)
<1>1. DOMAIN s = 1..Len(s)
  BY LenProperties
<1>2. \A d \in ToSet(s) : d.do \notin Removals
  BY <1>1 DEF ToSet, Quiet
<1> QED BY <1>2 DEF AllSteady, Steady, Quiet, SafeTask, Removals

LEMMA FewQuiet ==
  ASSUME NEW s, Few(s)
  PROVE  Quiet(s) /\ s \in Seq(Task)
<1>1. CASE s = <<>>
  <2>1. 1..Len(<<>>) = {}
    OBVIOUS
  <2> QED BY <1>1, <2>1 DEF Quiet
<1>2. ASSUME NEW a \in At, NEW d, d = Unlock(a) \/ d = Do("purge", a, NIL, NIL), s = <<d>>
      PROVE  Quiet(s) /\ s \in Seq(Task)
  <2>1. d \in Task /\ d.do \in {"unlock", "purge"}
    BY <1>2, DoTask DEF Unlock
  <2>2. Len(s) = 1 /\ s[1] = d /\ 1..1 = {1}
    BY <1>2
  <2> QED BY <1>2, <2>1, <2>2 DEF Quiet, Removals
<1> QED BY <1>1, <1>2 DEF Few

\* Contents and records after a step.
NewKnown(k, v) == k \in Keyed /\ v \in Stored
LEMMA KnownKept ==
  ASSUME SafeInv,
         \A t \in Table : \A e \in Associations(htable'[t]) :
           e \in Associations(htable[t]) \/ NewKnown(e.key, e.value),
         \A t \in Table, k \in Plain : Contains(finalizers'[k], t) =>
           Contains(finalizers[k], t) \/ k \in Keyed
  PROVE  ContentsKnown' /\ RecordsKnown'
BY DEF SafeInv, ContentsKnown, RecordsKnown, NewKnown

\* What the first task is when others wait.
LEMMA HeadSteady ==
  ASSUME IInv, SafeInv, todo # <<>>
  PROVE  /\ Head(todo).do \in Drop3 /\ Head(todo).at \in Table => Len(todo) = 1
         /\ (\E i \in 2..Len(todo) : todo[i].do = "finalized") => Light(Head(todo))
         /\ SafeTask(htable, Head(todo))
<1>1. /\ Head(todo) = todo[1] /\ Len(todo) \in Nat \ {0} /\ Head(todo) \in ToSet(todo)
  BY HeadTask DEF IInv
<1>2. 1 \in 1..Len(todo)
  BY <1>1
<1>3. \A i \in 1..Len(todo) : Steady(todo, i)
  BY DEF SafeInv, AllSteady
<1>4. Head(todo).do \in Drop3 /\ Head(todo).at \in Table => Len(todo) = 1
  BY <1>1, <1>2, <1>3 DEF Steady
<1>5. ASSUME NEW i \in 2..Len(todo), todo[i].do = "finalized" PROVE Light(Head(todo))
  <2>1. i \in 1..Len(todo) /\ 1 \in 1..(i - 1)
    BY <1>1
  <2> QED BY <1>1, <1>3, <1>5, <2>1 DEF Steady
<1>6. SafeTask(htable, Head(todo))
  BY <1>1 DEF SafeInv
<1> QED BY <1>4, <1>5, <1>6

\* A step that puts such tasks on the stack.
LEMMA SafeStep ==
  ASSUME IInv, SafeInv, todo # <<>>, NEW new \in Seq(Task), todo' = new \o Tail(todo),
         KeepsKeys, ContentsKnown', RecordsKnown', wild' = wild,
         \A j \in 1..Len(new) : SteadyNew(todo, new, j) /\ SafeTask(htable', new[j])
  PROVE  SafeInv'
<1>1. \A i \in 2..Len(todo) : SafeTask(htable', todo[i])
  BY RestSafe
<1>2. AllSteady(todo') /\ \A x \in ToSet(todo') : SafeTask(htable', x)
  BY <1>1, StackSafe
<1> QED BY <1>2 DEF SafeInv

\* An object that a table holds is not doomed, nor free.
LEMMA HeldIsCounted ==
  ASSUME IInv, NEW t \in Table, NEW k \in Plain, NEW a \in At,
         [key |-> k, value |-> a] \in Associations(htable[t])
  PROVE  status[a] # "free" /\ ~DoomedIn(todo, a)
<1>1. k \in Under(htable[t], a)
  BY DEF Under
<1>2. Cardinality(Under(htable[t], a)) # 0 /\ Cardinality(Under(htable[t], a)) \in Nat
  BY <1>1, HeldByType, FS_EmptySet
<1>3. HeldBy(htable[t], a) # 0 /\ HeldBy(htable[t], a) \in Nat
  BY <1>2, HeldByType DEF HeldBy
<1>4. SameBut(htable, htable, t)
  BY DEF SameBut
<1>5. HeldByTables(htable, a) \in Nat /\ HeldByTables(htable, a) - HeldBy(htable[t], a) \in Nat
  BY <1>4, HeldByTablesChange
<1>6. HeldByTables(htable, a) # 0
  BY <1>3, <1>5
<1>7. /\ count[a] \in Nat /\ held[a] \in Nat
      /\ HeldByTables(htable, a) \in Nat /\ Occurrences(todo, {Unlock(a)}) \in Nat
      /\ count[a] = held[a] + Occurrences(todo, {Unlock(a)}) + HeldByTables(htable, a)
      /\ (count[a] = 0) <=> (status[a] = "free" \/ DoomedIn(todo, a))
  BY CountFacts
<1>8. count[a] # 0
  BY <1>6, <1>7
<1> QED BY <1>7, <1>8

LEMMA SafeStays ==
  ASSUME SafeInv, htable' = htable, finalizers' = finalizers
  PROVE  KeepsKeys /\ ContentsKnown' /\ RecordsKnown'
<1>1. KeepsKeys
  BY DEF KeepsKeys
<1>2. ContentsKnown' /\ RecordsKnown'
  BY KnownKept
<1> QED BY <1>1, <1>2

\* A task that is none of a removal, in place of one at the same object.
LEMMA SafeUnlock ==
  ASSUME IInv, SafeInv, RunUnlock
  PROVE  SafeInv'
<1> DEFINE a == task.at
           d == Do("purge", a, NIL, NIL)
           new == IF count[a] = 1 THEN <<d>> ELSE <<>>
<1>1. todo # <<>> /\ Head(todo).do = "unlock" /\ Shape(todo) /\ task = Head(todo)
  BY DEF RunUnlock, Running, IInv, task
<1>2. a \in At /\ Head(todo) = Unlock(a) /\ Head(todo).at = a
      /\ Head(todo) \in ToSet(todo) /\ todo \in Seq(Task)
      /\ Head(todo) = todo[1] /\ Len(todo) \in Nat \ {0}
  BY <1>1, HeadTask, TaskAts
<1>3. status[a] # "free"
  <2>1. Occurrences(todo, {Unlock(a)}) # 0
    BY <1>2, OccurrencesSome
  <2>2. /\ count[a] \in Nat /\ held[a] \in Nat
        /\ HeldByTables(htable, a) \in Nat /\ Occurrences(todo, {Unlock(a)}) \in Nat
        /\ count[a] = held[a] + Occurrences(todo, {Unlock(a)}) + HeldByTables(htable, a)
        /\ (count[a] = 0) <=> (status[a] = "free" \/ DoomedIn(todo, a))
    BY <1>2, CountFacts
  <2> QED BY <2>1, <2>2
<1>4. /\ todo' = new \o Tail(todo)
      /\ UNCHANGED <<status, flagged, held, finalizers, htable, wild>>
  BY <1>3 DEF RunUnlock, TouchesFreed, UNLOCK
<1> HIDE DEF a
<1>5. d \in Task /\ d.do = "purge" /\ d.at = a
  BY <1>2 DEF Do, Task
<1> HIDE DEF d
<1>6. new \in Seq(Task) /\ \A j \in 1..Len(new) : j = Len(new) /\ new[j] = d
  <2>1. <<d>> \in Seq(Task) /\ Len(<<d>>) = 1 /\ <<d>>[1] = d /\ 1..1 = {1}
    BY <1>5
  <2>2. CASE count[a] = 1
    BY <2>1, <2>2
  <2>3. CASE count[a] # 1
    BY <2>3
  <2> QED BY <2>2, <2>3
<1> HIDE DEF new
<1>7. KeepsKeys /\ ContentsKnown' /\ RecordsKnown'
  BY <1>4, SafeStays
<1>8. /\ a \in Table => Len(todo) = 1
      /\ (\E i \in 2..Len(todo) : todo[i].do = "finalized") => a \in Stored
  <2>1. /\ Head(todo).do \in Drop3 /\ Head(todo).at \in Table => Len(todo) = 1
        /\ (\E i \in 2..Len(todo) : todo[i].do = "finalized") => Light(Head(todo))
    BY <1>1, HeadSteady
  <2> QED BY <1>1, <1>2, <2>1 DEF Light, Drop3
<1>9. ASSUME NEW j \in 1..Len(new) PROVE SteadyNew(todo, new, j) /\ SafeTask(htable', new[j])
  <2>1. j = Len(new) /\ new[j].do = "purge" /\ new[j].at = a
    BY <1>5, <1>6
  <2>2. SteadyNew(todo, new, j)
    BY <1>8, <2>1 DEF SteadyNew, Light, Drop3
  <2> QED BY <2>1, <2>2 DEF SafeTask, Removals
<1>10. wild' = wild
  BY <1>4
<1> QED BY <1>1, <1>4, <1>6, <1>7, <1>9, <1>10, SafeStep

\* The first task ends.
LEMMA SafeEnd ==
  ASSUME IInv, SafeInv, todo # <<>>, todo' = <<>> \o Tail(todo),
         UNCHANGED <<htable, finalizers, wild>>
  PROVE  SafeInv'
<1> DEFINE new == <<>>
<1>1. /\ new \in Seq(Task) /\ todo' = new \o Tail(todo)
      /\ Len(new) = 0 /\ 1..0 = {}
  OBVIOUS
<1> HIDE DEF new
<1>2. KeepsKeys /\ ContentsKnown' /\ RecordsKnown'
  BY SafeStays
<1>3. \A i \in 2..Len(todo) : SafeTask(htable', todo[i])
  BY <1>2, RestSafe
<1>4. \A j \in 1..Len(new) : SteadyNew(todo, new, j) /\ SafeTask(htable', new[j])
  BY <1>1
<1>5. AllSteady(todo') /\ \A x \in ToSet(todo') : SafeTask(htable', x)
  BY <1>1, <1>3, <1>4, StackSafe
<1> QED BY <1>2, <1>5 DEF SafeInv

LEMMA SafeFinalizers ==
  ASSUME IInv, SafeInv, RunFinalizers
  PROVE  SafeInv'
<1> DEFINE a == task.at
           records == IF a \in flagged THEN Reverse(finalizers[a]) ELSE <<>>
           end == Do(IF task.do = "purge" THEN "dispose" ELSE "zombify", a, NIL, NIL)
           calls == [i \in DOMAIN records |-> Do("finalize", a, records[i], NIL)]
           new == calls \o <<end>>
           N == Len(records)
<1>1. /\ todo # <<>> /\ Head(todo).do \in {"purge", "delete"}
      /\ Shape(todo)
  BY DEF RunFinalizers, Running, IInv
<1>2. /\ task = Head(todo) /\ task \in Task /\ task \in ToSet(todo) /\ a \in At
      /\ task.do \in {"purge", "delete"} /\ todo[1] = task
      /\ task.do = "delete" => Len(todo) = 1 /\ a \in Mortal
      /\ Len(todo) \in Nat \ {0} /\ todo \in Seq(Task)
  BY <1>1, HeadTask, TaskAts, NilNotAt DEF task, TaskShape, Dooms
<1>3. /\ todo' = new \o Tail(todo)
      /\ finalizers' = IF a \in flagged THEN [finalizers EXCEPT ![a] = <<>>] ELSE finalizers
      /\ UNCHANGED <<status, count, held, htable, wild>>
  BY DEF RunFinalizers, Then
<1>4. flagged \in SUBSET Plain /\ finalizers \in [Plain -> Seq(Table)]
  BY DEF IInv, TypesOK
<1> HIDE DEF a
<1>5. /\ N \in Nat /\ DOMAIN records = 1..N
      /\ \A i \in 1..N : /\ records[i] \in Table /\ a \in Plain
                         /\ Contains(finalizers[a], records[i])
  <2>1. CASE a \in flagged
    <3> DEFINE f == finalizers[a]
    <3>1. /\ f \in Seq(Table) /\ Len(f) \in Nat /\ DOMAIN f = 1..Len(f)
          /\ \A i \in 1..Len(f) : f[i] \in Table
      <4>1. f \in Seq(Table)
        BY <1>4, <2>1
      <4> QED BY <4>1, LenProperties, ElementOfSeq
    <3>2. records = [i \in 1..Len(f) |-> f[(Len(f) - i) + 1]]
      BY <2>1 DEF Reverse
    <3> HIDE DEF f
    <3>3. N = Len(f) /\ DOMAIN records = 1..N /\ \A i \in 1..N : records[i] = f[(N - i) + 1]
      <4> HIDE DEF records
      <4> QED BY <3>1, <3>2
    <3>4. \A i \in 1..N : (N - i) + 1 \in 1..N
      BY <3>1, <3>3
    <3> HIDE DEF N, records
    <3>5. ASSUME NEW i \in 1..N PROVE records[i] \in Table /\ Contains(f, records[i])
      BY <3>1, <3>3, <3>4 DEF Contains
    <3> QED BY <1>4, <2>1, <3>1, <3>3, <3>5 DEF f
  <2>2. CASE a \notin flagged
    BY <2>2
  <2> QED BY <2>1, <2>2
<1>6. end \in Task /\ end.do \in {"dispose", "zombify"} /\ end.at = a
      /\ (end.do = "dispose" <=> task.do = "purge")
  BY <1>2, DoTask
<1>7. \A i \in 1..N : /\ calls[i] \in Task /\ calls[i].do = "finalize"
                      /\ calls[i].at = a /\ calls[i].table = records[i]
  <2> TAKE i \in 1..N
  <2>1. a \in At \cup {NIL} /\ records[i] \in Table \cup {NIL}
    BY <1>2, <1>5
  <2>2. calls[i] = Do("finalize", a, records[i], NIL)
    BY <1>5
  <2>3. PICK d, r : d = calls[i] /\ r = records[i]
    OBVIOUS
  <2> HIDE DEF calls, records
  <2>4. d = Do("finalize", a, r, NIL) /\ r \in Table \cup {NIL}
    BY <2>1, <2>2, <2>3
  <2>5. d \in Task /\ d.do = "finalize" /\ d.at = a /\ d.table = r
    BY <2>1, <2>4, DoTask
  <2> QED BY <2>3, <2>5
<1>8. calls \in Seq(Task) /\ Len(calls) = N
  <2>1. calls = [i \in 1..N |-> Do("finalize", a, records[i], NIL)]
    BY <1>5
  <2>2. \A i \in 1..N : Do("finalize", a, records[i], NIL) \in Task
    BY <1>5, <1>7, <2>1
  <2> HIDE DEF calls, records, N
  <2> QED BY <1>5, <2>1, <2>2, IsASeq
<1> HIDE DEF end, calls, records, N
<1>9. /\ new \in Seq(Task) /\ Len(new) = N + 1 /\ new[N + 1] = end
      /\ \A i \in 1..N : new[i] = calls[i]
  <2>1. PICK last : last = <<end>>
    OBVIOUS
  <2>2. last \in Seq(Task) /\ Len(last) = 1 /\ last[1] = end /\ new = calls \o last
    BY <1>6, <2>1
  <2>3. /\ calls \o last \in Seq(Task) /\ Len(calls \o last) = Len(calls) + Len(last)
        /\ \A i \in 1..(Len(calls) + Len(last)) :
             (calls \o last)[i] = IF i <= Len(calls) THEN calls[i] ELSE last[i - Len(calls)]
    BY <1>8, <2>2, ConcatProperties
  <2>4. \A i \in 1..N : i \in 1..(N + 1) /\ i <= N
    BY <1>5
  <2>5. N + 1 \in 1..(N + 1) /\ ~(N + 1 <= N) /\ (N + 1) - N = 1
    BY <1>5
  <2>6. new[N + 1] = last[(N + 1) - N]
    BY <1>8, <2>2, <2>3, <2>5
  <2> HIDE DEF new
  <2> QED BY <1>5, <1>8, <2>2, <2>3, <2>4, <2>5, <2>6
<1> HIDE DEF new
<1>10. /\ KeepsKeys /\ ContentsKnown' /\ RecordsKnown'
  <2>1. KeepsKeys
    BY <1>3 DEF KeepsKeys
  <2>2. \A t \in Table, k \in Plain : Contains(finalizers'[k], t) => Contains(finalizers[k], t)
    <3> TAKE t \in Table, k \in Plain
    <3>1. finalizers'[k] = finalizers[k] \/ finalizers'[k] = <<>>
      BY <1>3, <1>4
    <3>2. ~Contains(<<>>, t)
      BY DEF Contains
    <3> QED BY <3>1, <3>2
  <2>3. ContentsKnown' /\ RecordsKnown'
    BY <1>3, <2>2, KnownKept
  <2> QED BY <2>1, <2>3
<1>11. /\ task.do = "purge" /\ a \in Table => Len(todo) = 1
       /\ (\E i \in 2..Len(todo) : todo[i].do = "finalized") =>
            a \in Stored /\ task.do = "purge"
  <2>1. /\ Head(todo).do \in Drop3 /\ Head(todo).at \in Table => Len(todo) = 1
        /\ (\E i \in 2..Len(todo) : todo[i].do = "finalized") => Light(Head(todo))
    BY <1>1, HeadSteady
  <2> QED BY <1>2, <2>1 DEF Light, Drop3, a
<1>12. ASSUME NEW j \in 1..Len(new) PROVE SteadyNew(todo, new, j) /\ SafeTask(htable', new[j])
  <2>1. CASE j \in 1..N
    <3>1. /\ new[j].do = "finalize" /\ new[j].at = a /\ new[j].table = records[j]
      BY <1>7, <1>9, <2>1
    <3>2. a \in Keyed /\ htable[records[j]] # Gone
      <4>1. records[j] \in Table /\ a \in Plain /\ Contains(finalizers[a], records[j])
        BY <1>5, <2>1
      <4>2. a \in Keyed
        BY <4>1 DEF SafeInv, RecordsKnown
      <4>3. htable[records[j]] # Gone
        BY <4>1 DEF IInv, LockedTables
      <4> QED BY <4>2, <4>3
    <3>3. SteadyNew(todo, new, j)
      BY <1>11, <3>1 DEF SteadyNew, Light, Drop3
    <3> QED BY <1>3, <3>1, <3>2, <3>3 DEF SafeTask
  <2>2. CASE j = N + 1
    <3>1. new[j] = end /\ j = Len(new)
      BY <1>9, <2>2
    <3>2. SteadyNew(todo, new, j)
      BY <1>2, <1>6, <1>11, <3>1 DEF SteadyNew, Light, Drop3
    <3> QED BY <1>6, <3>1, <3>2 DEF SafeTask, Removals
  <2> QED BY <1>5, <1>9, <2>1, <2>2
<1>13. wild' = wild
  BY <1>3
<1> QED BY <1>1, <1>3, <1>9, <1>10, <1>12, <1>13, SafeStep

\* One table changes.
LEMMA KnownOnly ==
  ASSUME SafeInv, NEW t \in Table, NEW g, OnlyTable(t, g),
         \A e \in Associations(g) : e \in Associations(htable[t]) \/ NewKnown(e.key, e.value),
         \A u \in Table, k \in Plain : Contains(finalizers'[k], u) =>
           Contains(finalizers[k], u) \/ k \in Keyed
  PROVE  ContentsKnown' /\ RecordsKnown'
<1>1. \A u \in Table : \A e \in Associations(htable'[u]) :
        e \in Associations(htable[u]) \/ NewKnown(e.key, e.value)
  BY DEF OnlyTable, SameBut
<1> QED BY <1>1, KnownKept

LEMMA KeepsOnly ==
  ASSUME NEW t \in Table, NEW g, OnlyTable(t, g), g # Gone, KeysOf(g) = KeysOf(htable[t])
  PROVE  KeepsKeys
BY DEF KeepsKeys, OnlyTable, SameBut

\* While an element is being removed no other one is.
LEMMA NoneWaits ==
  ASSUME IInv, SafeInv, StoredApart, DeletedNotStored, todo # <<>>,
         Head(todo).do = "finalize", Head(todo).at \in KeysOf(htable[Head(todo).table])
  PROVE  \A i \in 2..Len(todo) : todo[i].do # "finalized"
<1> DEFINE k == Head(todo).at
           t == Head(todo).table
<1>1. /\ TaskShape(todo, 1) /\ Head(todo) = todo[1] /\ Head(todo) \in ToSet(todo)
      /\ Shape(todo) /\ Len(todo) \in Nat \ {0} /\ todo \in Seq(Task)
  BY HeadTask DEF IInv
<1>2. k \in Plain /\ t \in Table
  BY <1>1, TaskAts DEF Removals
<1>3. PICK e \in Associations(htable[t]) : e.key = k
  BY DEF KeysOf
<1>4. k \in Keyed /\ e.value \in Stored
  <2>1. SafeTask(htable, Head(todo))
    BY <1>1 DEF SafeInv
  <2>2. e.value \in Stored
    BY <1>2 DEF SafeInv, ContentsKnown
  <2> QED BY <2>1, <2>2 DEF SafeTask, Removals
<1>5. e = [key |-> k, value |-> e.value]
  <2>1. Sound(htable[t])
    BY <1>2 DEF IInv, TablesOK, TableOK
  <2>2. e \in Assoc
    BY <2>1, SoundProperties
  <2> QED BY <1>3, <2>2 DEF Assoc
<1>6. SUFFICES ASSUME NEW i \in 2..Len(todo), todo[i].do = "finalized" PROVE FALSE
  OBVIOUS
<1>7. k \in Stored
  BY <1>6, HeadSteady DEF Light
<1>8. /\ k = e.value /\ k \notin Mortal /\ k \in At
  BY <1>4, <1>7, StoredTypes
<1>9. ~DoomedIn(todo, k)
  <2>1. [key |-> k, value |-> k] \in Associations(htable[t])
    BY <1>5, <1>8
  <2> HIDE DEF k, t
  <2> QED BY <1>2, <1>8, <2>1, HeldIsCounted
<1>10. PICK j \in (1 + 1)..Len(todo) : todo[j].do \in Deaths /\ todo[j].at = k
  BY <1>1 DEF TaskShape, Removals
<1>11. todo[j] \in ToSet(todo)
  <2>1. j \in 1..Len(todo) /\ DOMAIN todo = 1..Len(todo)
    BY <1>1, LenProperties
  <2> QED BY <2>1 DEF ToSet
<1>12. CASE todo[j].do = "dispose"
  BY <1>9, <1>10, <1>11, <1>12 DEF DoomedIn, Dooms
<1>13. CASE todo[j].do = "zombify"
  BY <1>1, <1>8, <1>10, <1>11, <1>13, TaskAts
<1> QED BY <1>10, <1>12, <1>13 DEF Deaths

LEMMA SafeFinalize ==
  ASSUME IInv, SafeInv, StoredApart, DeletedNotStored, RunFinalize
  PROVE  SafeInv'
<1> DEFINE k == task.at
           t == task.table
           h == htable[t]
           b == Bucket(h, k)
           i == Place(h, k)
           v == h.table[b][i].value
           c == Before(h, b, i)
           g == Unlinked(h, b, i)
           d == Do("finalized", k, t, c)
           new == <<Unlock(v), d>>
<1>1. /\ todo # <<>> /\ Head(todo).do = "finalize" /\ task = Head(todo)
      /\ Shape(todo) /\ Head(todo) \in ToSet(todo)
  BY HeadTask DEF RunFinalize, Running, IInv, task
<1>2. /\ k \in Plain /\ t \in Table /\ Head(todo).at = k /\ Head(todo).table = t
      /\ k \in At /\ k \in Keyed /\ h # Gone
  <2>1. k \in Plain /\ t \in Table /\ Head(todo).at = k /\ Head(todo).table = t
    BY <1>1, TaskAts DEF Removals
  <2>2. SafeTask(htable, Head(todo))
    BY <1>1 DEF SafeInv
  <2>3. k \in Keyed /\ h # Gone
    BY <1>1, <2>2 DEF SafeTask, Removals
  <2>4. k \in At
    BY <2>1, NilNotAt
  <2> QED BY <2>1, <2>3, <2>4
<1>3. DOMAIN htable = Table /\ TableOK(h, Occurrences(todo, RemovalsOf(t))) /\ Sound(h)
  BY <1>2 DEF IInv, TablesOK, TableOK
<1>4. h.size \in Nat /\ h.size # 0
  BY <1>2, <1>3 DEF TableOK, Sound
<1>5. CASE Then(<<>>) /\ UNCHANGED <<objects, finalizers, htable, wild>>
  <2>1. todo' = <<>> \o Tail(todo) /\ UNCHANGED <<htable, finalizers, wild>>
    BY <1>5 DEF Then
  <2> QED BY <1>1, <2>1, SafeEnd
<1>6. CASE /\ i # 0
           /\ htable' = [htable EXCEPT ![t] = g]
           /\ Then(new)
           /\ UNCHANGED <<objects, finalizers, wild>>
  <2>1. PICK hh, bb, ii, vv, cc, gg :
           hh = h /\ bb = b /\ ii = i /\ vv = v /\ cc = c /\ gg = g
    OBVIOUS
  <2>2. /\ <<bb, ii>> \in Places(hh.table)
        /\ hh.table[bb][ii] = [key |-> k, value |-> vv]
        /\ [key |-> k, value |-> vv] \in Associations(hh)
        /\ vv \in At /\ k \in KeysOf(hh)
    <3>1. Sound(hh) /\ hh.size # 0 /\ k \in Plain /\ Place(hh, k) # 0
      BY <1>2, <1>3, <1>4, <1>6, <2>1
    <3>2. bb = Bucket(hh, k) /\ ii = Place(hh, k)
          /\ vv = hh.table[Bucket(hh, k)][Place(hh, k)].value
      BY <2>1
    <3> HIDE DEF h, k, b, i, v, c, g
    <3> QED BY <3>1, <3>2, FoundFacts
  <2>3. /\ Sound(gg) /\ gg.size = hh.size
        /\ Associations(gg) = Associations(hh) \ {[key |-> k, value |-> vv]}
        /\ cc \in KeysOf(gg) \cup {NIL}
    <3>1. gg = Unlinked(hh, bb, ii) /\ cc = Before(hh, bb, ii) /\ Sound(hh)
      BY <1>3, <2>1
    <3> HIDE DEF h, k, b, i, v, c, g
    <3>2. /\ Sound(Unlinked(hh, bb, ii)) /\ Unlinked(hh, bb, ii).size = hh.size
          /\ Associations(Unlinked(hh, bb, ii)) = Associations(hh) \ {hh.table[bb][ii]}
          /\ Before(hh, bb, ii) \in KeysOf(Unlinked(hh, bb, ii)) \cup {NIL}
      BY <2>2, <3>1, UnlinkedProperties
    <3> QED BY <2>2, <3>1, <3>2
  <2>4. gg # Gone
    <3>1. gg.size # 0
      BY <1>4, <2>1, <2>3
    <3> QED BY <3>1, NotGone
  <2>5. /\ hh = htable[t] /\ htable' = [htable EXCEPT ![t] = gg]
        /\ todo' = <<Unlock(vv), Do("finalized", k, t, cc)>> \o Tail(todo)
        /\ UNCHANGED <<finalizers, wild>>
    BY <1>6, <2>1 DEF Then
  <2>6. KeysOf(gg) \in SUBSET Plain /\ cc \in At \cup {NIL}
    <3>1. KeysOf(gg) \in SUBSET Plain
      BY <2>3, SoundProperties
    <3> QED BY <2>3, <3>1, NilNotAt
  <2>7. vv \in Stored /\ vv \notin Table
    <3>1. [key |-> k, value |-> vv].value = vv
      OBVIOUS
    <3>2. vv \in Stored
      BY <1>2, <2>2, <2>5, <3>1 DEF SafeInv, ContentsKnown
    <3> QED BY <3>2, StoredTypes
  <2> HIDE DEF h, k, b, i, v, c, g, d, new, t
  <2>8. PICK x, y : x = Unlock(vv) /\ y = Do("finalized", k, t, cc)
    OBVIOUS
  <2>9. /\ x \in Task /\ x.do = "unlock" /\ x.at = vv
        /\ y \in Task /\ y.do = "finalized" /\ y.at = k /\ y.table = t /\ y.other = cc
    BY <1>2, <2>2, <2>6, <2>8 DEF Unlock, Do, Task
  <2>10. PICK s : s = <<x, y>>
    OBVIOUS
  <2>11. /\ s \in Seq(Task) /\ Len(s) = 2 /\ s[1] = x /\ s[2] = y
         /\ \A j \in 1..Len(s) : j = 1 \/ j = 2
         /\ todo' = s \o Tail(todo)
    BY <2>5, <2>8, <2>9, <2>10
  <2>12. OnlyTable(t, gg)
    BY <1>2, <1>3, <2>5 DEF OnlyTable, SameBut
  <2>13. ContentsKnown' /\ RecordsKnown'
    <3>1. \A e \in Associations(gg) : e \in Associations(htable[t])
      BY <2>3, <2>5
    <3> QED BY <1>2, <2>5, <2>12, <3>1, KnownOnly
  <2>14. \A j \in 2..Len(todo) : todo[j].do # "finalized"
    BY <1>1, <1>2, <2>2, <2>5, NoneWaits
  <2>15. ASSUME NEW j \in 2..Len(todo) PROVE SafeTask(htable', todo[j])
    <3>1. /\ ToSet(todo) = {Head(todo)} \cup {todo[m] : m \in 2..Len(todo)}
      BY <1>1, ReplacedTasks DEF Shape
    <3>2. todo[j] \in ToSet(todo)
      BY <3>1
    <3>3. SafeTask(htable, todo[j]) /\ (todo[j].do \in Removals => todo[j].table \in Table)
      BY <1>1, <3>2, TaskAts DEF SafeInv
    <3>4. \A u \in Table : htable[u] # Gone => htable'[u] # Gone
      BY <2>4, <2>12 DEF OnlyTable, SameBut
    <3> QED BY <2>14, <3>3, <3>4 DEF SafeTask
  <2>16. SteadyNew(todo, s, 1) /\ SafeTask(htable', s[1])
    <3>1. SteadyNew(todo, s, 1)
      BY <2>7, <2>9, <2>11, <2>14 DEF SteadyNew
    <3> QED BY <2>9, <2>11, <3>1 DEF SafeTask, Removals
  <2>17. SteadyNew(todo, s, 2) /\ SafeTask(htable', s[2])
    <3>1. Light(x)
      BY <2>7, <2>9 DEF Light, Drop3
    <3>2. \A j \in 1..(2 - 1) : s[j] = x
      BY <2>11
    <3>3. SteadyNew(todo, s, 2)
      BY <2>9, <2>11, <2>14, <3>1, <3>2 DEF SteadyNew, Drop3
    <3>4. htable'[t] = gg
      BY <2>12 DEF OnlyTable
    <3>5. SafeTask(htable', s[2])
      BY <1>2, <2>3, <2>4, <2>9, <2>11, <3>4 DEF SafeTask
    <3> QED BY <3>3, <3>5
  <2>18. \A j \in 1..Len(s) : SteadyNew(todo, s, j) /\ SafeTask(htable', s[j])
    BY <2>11, <2>16, <2>17
  <2>19. AllSteady(todo') /\ \A z \in ToSet(todo') : SafeTask(htable', z)
    BY <1>1, <2>11, <2>15, <2>18, StackSafe
  <2>20. ~wild'
    BY <2>5 DEF SafeInv
  <2> QED BY <2>13, <2>19, <2>20 DEF SafeInv
<1>7. ~TouchesFreed(h = Gone)
  BY <1>2 DEF TouchesFreed
<1> QED BY <1>5, <1>6, <1>7 DEF RunFinalize

LEMMA SafeFinalized ==
  ASSUME IInv, SafeInv, RunFinalized
  PROVE  SafeInv'
<1> DEFINE k == task.at
           t == task.table
           h == htable[t]
           stale == h = Gone \/ (task.other # NIL /\ task.other \notin KeysOf(h))
           g == [h EXCEPT !.nelems = @ - 1]
<1>1. /\ todo # <<>> /\ Head(todo).do = "finalized" /\ task = Head(todo)
      /\ Shape(todo) /\ Head(todo) \in ToSet(todo)
  BY HeadTask DEF RunFinalized, Running, IInv, task
<1>2. k \in Plain /\ t \in Table /\ k \in At
  BY <1>1, TaskAts, NilNotAt DEF Removals
<1>3. ~stale /\ k \in Keyed
  <2>1. SafeTask(htable, Head(todo))
    BY <1>1 DEF SafeInv
  <2> QED BY <1>1, <2>1 DEF SafeTask, Removals
<1>4. /\ DOMAIN htable = Table /\ TableOK(h, Occurrences(todo, RemovalsOf(t)))
      /\ h \in Structures(h.size) /\ h.size \in Nat /\ h.size # 0
  BY <1>2, <1>3 DEF IInv, TablesOK, TableOK, Sound
<1>5. /\ htable' = [htable EXCEPT ![t] = g]
      /\ todo' = <<Do("finalize", k, t, NIL)>> \o Tail(todo)
      /\ UNCHANGED <<objects, finalizers, wild>>
  <2>1. ~TouchesFreed(stale)
    BY <1>3 DEF TouchesFreed
  <2>2. /\ htable' = [htable EXCEPT ![t].nelems = @ - 1]
        /\ Then(<<Do("finalize", k, t, NIL)>>)
        /\ UNCHANGED <<objects, finalizers, wild>>
    BY <2>1 DEF RunFinalized
  <2> QED BY <2>2 DEF Then
<1>6. g.table = h.table /\ g.size = h.size
  <2> HIDE DEF h
  <2> QED BY <1>4 DEF Structures
<1>7. g # Gone
  BY <1>4, <1>6, NotGone
<1>8. Associations(g) = Associations(h) /\ KeysOf(g) = KeysOf(h)
  <2> HIDE DEF g, h
  <2> QED BY <1>6 DEF Associations, KeysOf
<1>9. OnlyTable(t, g) /\ h = htable[t]
  <2> HIDE DEF g
  <2> QED BY <1>2, <1>4, <1>5 DEF OnlyTable, SameBut
<1> HIDE DEF g, h, k, t
<1>10. KeepsKeys
  BY <1>2, <1>7, <1>8, <1>9, KeepsOnly
<1>11. ContentsKnown' /\ RecordsKnown'
  BY <1>2, <1>5, <1>8, <1>9, KnownOnly
<1>12. PICK x : x = Do("finalize", k, t, NIL)
  OBVIOUS
<1>13. x \in Task /\ x.do = "finalize" /\ x.at = k /\ x.table = t
  BY <1>2, <1>12 DEF Do, Task
<1>14. /\ <<x>> \in Seq(Task) /\ todo' = <<x>> \o Tail(todo)
       /\ \A j \in 1..Len(<<x>>) : <<x>>[j] = x
  BY <1>5, <1>12, <1>13
<1>15. ~ \E i \in 2..Len(todo) : todo[i].do = "finalized"
  BY <1>1, HeadSteady DEF Light, Drop3
<1>16. SafeTask(htable', x)
  <2>1. htable'[t] # Gone
    BY <1>7, <1>9 DEF OnlyTable
  <2> QED BY <1>3, <1>13, <2>1 DEF SafeTask, k
<1>17. \A j \in 1..Len(<<x>>) : SteadyNew(todo, <<x>>, j) /\ SafeTask(htable', <<x>>[j])
  BY <1>13, <1>14, <1>15, <1>16 DEF SteadyNew, Drop3
<1>18. wild' = wild
  BY <1>5
<1> QED BY <1>1, <1>10, <1>11, <1>14, <1>17, <1>18, SafeStep

\* A table is no value nor key, and none holds it.
LEMMA NoTableHeld ==
  ASSUME IInv, SafeInv, StoredApart, DeletedNotStored, NEW t \in Table, NEW u \in Table
  PROVE  HeldBy(htable[t], u) = 0
<1>1. u \notin Stored /\ u \notin Keyed /\ u \notin Plain
  BY StoredTypes, NilNotAt
<1>2. \A e \in Associations(htable[t]) : e.key \in Keyed /\ e.value \in Stored
  BY DEF SafeInv, ContentsKnown
<1>3. u \notin KeysOf(htable[t])
  BY <1>1, <1>2 DEF KeysOf
<1>4. Under(htable[t], u) = {}
  <2>1. ASSUME NEW k \in Under(htable[t], u) PROVE FALSE
    <3>1. [key |-> k, value |-> u] \in Associations(htable[t])
      BY <2>1 DEF Under
    <3>2. [key |-> k, value |-> u].value = u
      OBVIOUS
    <3> QED BY <1>1, <1>2, <3>1, <3>2
  <2> QED BY <2>1
<1> QED BY <1>3, <1>4, FS_EmptySet DEF HeldBy

LEMMA SafeDispose ==
  ASSUME IInv, SafeInv, StoredApart, DeletedNotStored, RunDispose
  PROVE  SafeInv'
<1> DEFINE a == task.at
           h == htable[a]
           end == Do("dispose", a, NIL, NIL)
           drops == Drops(h)
           N == Len(drops)
<1>1. /\ todo # <<>> /\ Head(todo).do = "dispose" /\ task = Head(todo)
      /\ Shape(todo) /\ Head(todo) \in ToSet(todo)
      /\ UNCHANGED <<count, flagged, held, wild>>
  BY HeadTask DEF RunDispose, Running, IInv, task
<1>2. a \in At /\ Head(todo).at = a
  BY <1>1, TaskAts DEF Dooms
<1>3. CASE ~(a \in Table /\ h # Gone)
  <2>1. todo' = <<>> \o Tail(todo) /\ UNCHANGED <<finalizers, htable, wild>>
    BY <1>1, <1>3 DEF RunDispose, Then
  <2> QED BY <1>1, <2>1, SafeEnd
<1>4. CASE a \in Table /\ h # Gone
  <2>1. /\ finalizers' = [k \in Plain |-> Without(finalizers[k], a)]
        /\ htable' = [htable EXCEPT ![a] = Gone]
        /\ todo' = (drops \o <<end>>) \o Tail(todo)
    BY <1>4 DEF RunDispose, Then, del_finalizers
  <2>2. DOMAIN htable = Table /\ Sound(h) /\ finalizers \in [Plain -> Seq(Table)]
    BY <1>4 DEF IInv, TablesOK, TableOK, TypesOK
  <2>3. OnlyTable(a, Gone)
    BY <1>4, <2>1, <2>2 DEF OnlyTable, SameBut
  <2>4. /\ drops \in Seq(Unlocks(At))
        /\ \A b \in At : Occurrences(drops, {Unlock(b)}) = HeldBy(h, b)
    <3>1. /\ drops \in Seq({Unlock(x) : x \in At})
          /\ \A b \in At : Occurrences(drops, {Unlock(b)}) = HeldBy(h, b)
      BY <2>2, DropsProperties
    <3> QED BY <3>1 DEF Unlocks
  <2>5. end \in Task /\ end.do = "dispose" /\ end.at = a
    BY <1>2 DEF Do, Task
  <2> HIDE DEF drops, end, h, a
  <2>6. UnlocksAnd(drops \o <<end>>, drops, At, end)
    <3>1. At \in SUBSET At
      OBVIOUS
    <3> QED BY <2>4, <2>5, <3>1, UnlocksThen
  <2>7. PICK new : new = drops \o <<end>>
    OBVIOUS
  <2>8. /\ new \in Seq(Task) /\ N \in Nat /\ Len(new) = N + 1
        /\ \A i \in 1..N : new[i].do = "unlock" /\ new[i].at \in At /\ new[i] = Unlock(new[i].at)
        /\ new[N + 1] = end
        /\ \A X : Occurrences(new, X) = Occurrences(drops, X) + (IF end \in X THEN 1 ELSE 0)
        /\ \A i \in 1..(N + 1) : i \in 1..N \/ i = N + 1
        /\ \A i \in DOMAIN new : new[i] \in ToSet(new)
        /\ todo' = new \o Tail(todo)
    <3>1. UnlocksAnd(new, drops, At, end)
      BY <2>6, <2>7
    <3> HIDE DEF N
    <3> QED BY <2>1, <2>7, <3>1 DEF UnlocksAnd, N
  <2> HIDE DEF N
  <2>9. Len(todo) = 1
    BY <1>1, <1>2, <1>4, HeadSteady DEF Drop3
  <2>10. ASSUME NEW u \in Table, NEW i \in 1..N, new[i] = Unlock(u) PROVE FALSE
    <3>1. u \in At /\ HeldBy(htable[a], u) = 0
      BY <1>4, NilNotAt, NoTableHeld
    <3>2. Occurrences(new, {Unlock(u)}) = 0
      <4>1. Occurrences(drops, {Unlock(u)}) = 0
        BY <2>4, <3>1 DEF h
      <4>2. end \notin {Unlock(u)}
        BY <2>5, UnlockEqual
      <4>3. Occurrences(new, {Unlock(u)})
              = Occurrences(drops, {Unlock(u)}) + (IF end \in {Unlock(u)} THEN 1 ELSE 0)
        BY <2>8
      <4> QED BY <4>1, <4>2, <4>3
    <3>3. new[i] \in ToSet(new)
      <4>1. DOMAIN new = 1..(N + 1) /\ i \in 1..(N + 1)
        BY <2>8, LenProperties
      <4> QED BY <2>8, <4>1
    <3>4. Unlock(u) \in ToSet(new) /\ Unlock(u) \in {Unlock(u)}
      BY <2>10, <3>3
    <3> QED BY <2>8, <3>2, <3>4, OccurrencesSome
  <2>11. ASSUME NEW j \in 1..Len(new) PROVE SteadyNew(todo, new, j) /\ SafeTask(htable', new[j])
    <3>1. 2..Len(todo) = {}
      BY <2>9
    <3>2. j \in 1..N \/ j = N + 1
      BY <2>8
    <3>3. new[j].do \in Drop3 \ Removals /\ new[j].do # "finalized"
      BY <2>5, <2>8, <3>2 DEF Drop3, Removals
    <3>4. new[j].at \in Table => j = Len(new)
      <4>1. CASE j \in 1..N
        BY <2>8, <2>10, <4>1
      <4>2. CASE j = N + 1
        BY <2>8, <4>2
      <4> QED BY <3>2, <4>1, <4>2
    <3> QED BY <2>9, <3>1, <3>3, <3>4 DEF SteadyNew, SafeTask
  <2>12. ContentsKnown' /\ RecordsKnown'
    <3>1. \A e \in Associations(Gone) : e \in Associations(htable[a])
      BY NewAndGone
    <3>2. \A u \in Table, k \in Plain : Contains(finalizers'[k], u) => Contains(finalizers[k], u)
      <4> TAKE u \in Table, k \in Plain
      <4>1. finalizers'[k] = Without(finalizers[k], a) /\ finalizers[k] \in Seq(Table)
        BY <2>1, <2>2
      <4>2. \A w : Contains(Without(finalizers[k], a), w) <=> Contains(finalizers[k], w) /\ w # a
        BY <4>1, WithoutProperties
      <4> QED BY <4>1, <4>2
    <3> QED BY <1>4, <2>3, <3>1, <3>2, KnownOnly
  <2>13. \A i \in 2..Len(todo) : SafeTask(htable', todo[i])
    <3>1. 2..Len(todo) = {}
      BY <2>9
    <3> QED BY <3>1
  <2>14. AllSteady(todo') /\ \A x \in ToSet(todo') : SafeTask(htable', x)
    BY <1>1, <2>8, <2>11, <2>13, StackSafe
  <2> QED BY <1>1, <2>12, <2>14 DEF SafeInv
<1> QED BY <1>3, <1>4

LEMMA SafeZombify ==
  ASSUME IInv, SafeInv, RunZombify
  PROVE  SafeInv'
<1>1. /\ todo # <<>> /\ todo' = <<>> \o Tail(todo)
      /\ UNCHANGED <<htable, finalizers, wild>>
  BY DEF RunZombify, Running, Then
<1> QED BY <1>1, SafeEnd

\* The stack of a rehash, which is but the access that waits for it.
LEMMA RehashStack ==
  ASSUME IInv, todo # <<>>, Head(todo).do \in {"rehash", "recompute"}
  PROVE  /\ Len(todo) = 2 /\ todo[2] \in ToSet(todo)
         /\ todo[2].do \in Accesses /\ todo[2].table = Head(todo).table
         /\ Head(todo).table \in Table /\ htable[Head(todo).table] # Gone
         /\ Head(todo).other = NIL
         /\ ~ \E i \in 2..Len(todo) : todo[i].do = "finalized"
<1>1. /\ Shape(todo) /\ TaskShape(todo, 1) /\ Head(todo) = todo[1]
      /\ Len(todo) \in Nat \ {0} /\ todo \in Seq(Task)
  BY HeadTask DEF IInv
<1>2. /\ 1 = Len(todo) - 1 /\ Head(todo).other = NIL
      /\ todo[Len(todo)].do \in Accesses /\ todo[Len(todo)].table = Head(todo).table
  BY <1>1 DEF TaskShape
<1>3. Len(todo) = 2
  BY <1>1, <1>2
<1>4. todo[2].do \in Accesses /\ todo[2].table = Head(todo).table
  BY <1>2, <1>3
<1>5. DOMAIN todo = 1..2 /\ 2..2 = {2}
  BY <1>1, <1>3, LenProperties
<1>6. todo[2] \in ToSet(todo)
  BY <1>5 DEF ToSet
<1>7. Head(todo).table \in Table
  BY <1>1, <1>4, <1>6, TaskAts
<1>8. htable[Head(todo).table] # Gone
  BY <1>4, <1>6 DEF IInv, Needs
<1>9. ~ \E i \in 2..Len(todo) : todo[i].do = "finalized"
  BY <1>3, <1>4, <1>5 DEF Accesses
<1> QED BY <1>2, <1>3, <1>4, <1>6, <1>7, <1>8, <1>9

\* Keys whose references go, and other tasks that are none of a removal.
LEMMA DropsSteady ==
  ASSUME IInv, todo # <<>>, Head(todo).do \in {"rehash", "recompute"}, NEW new \in Seq(Task),
         \A j \in 1..Len(new) : /\ new[j].do \in {"unlock", "recompute"}
                                /\ new[j].do = "unlock" => new[j].at \in Plain,
         NEW ht
  PROVE  \A j \in 1..Len(new) : SteadyNew(todo, new, j) /\ SafeTask(ht, new[j])
<1> TAKE j \in 1..Len(new)
<1>1. /\ new[j].do \in {"unlock", "recompute"}
      /\ new[j].do = "unlock" => new[j].at \notin Table
  BY NilNotAt
<1>2. ~ \E i \in 2..Len(todo) : todo[i].do = "finalized"
  BY RehashStack
<1> QED BY <1>1, <1>2 DEF SteadyNew, SafeTask, Drop3, Removals

LEMMA SafeRehash ==
  ASSUME IInv, SafeInv, RunRehash
  PROVE  SafeInv'
<1> DEFINE t == task.table
           h == htable[t]
           end == Do("recompute", NIL, t, NIL)
           g == IF h.keylockp THEN [h EXCEPT !.keylockp = FALSE] ELSE h
           e == Elements(h)
           unlocks == [n \in 1..Len(e) |-> Unlock(Reverse(e)[n].key)]
           drops == IF h.keylockp THEN unlocks ELSE <<>>
           N == Len(drops)
<1>1. /\ todo # <<>> /\ Head(todo).do = "rehash" /\ task = Head(todo)
      /\ wild' = wild
  BY DEF RunRehash, Running, task
<1>2. t \in Table /\ h # Gone
  BY <1>1, RehashStack
<1>3. DOMAIN htable = Table /\ Sound(h) /\ TableOK(h, Occurrences(todo, RemovalsOf(t)))
  BY <1>2 DEF IInv, TablesOK, TableOK
<1>4. h.size \in Nat /\ h.size # 0 /\ h \in Structures(h.size) /\ KeysOf(h) \in SUBSET Plain
  <2>1. h.size \in Nat /\ h.size # 0 /\ h \in Structures(h.size)
    BY <1>2, <1>3 DEF TableOK, Sound
  <2> QED BY <1>3, <2>1, SoundProperties
<1>5. OnlyTable(t, g) /\ todo' = (drops \o <<end>>) \o Tail(todo)
  <2>1. CASE h.keylockp
    <3>1. htable' = [htable EXCEPT ![t].keylockp = FALSE] /\ todo' = (drops \o <<end>>) \o Tail(todo)
      BY <2>1 DEF RunRehash, Then
    <3>2. htable' = [htable EXCEPT ![t] = g]
      BY <1>2, <1>3, <2>1, <3>1
    <3> HIDE DEF g
    <3> QED BY <1>2, <1>3, <3>1, <3>2 DEF OnlyTable, SameBut
  <2>2. CASE ~h.keylockp
    <3>1. htable' = htable /\ todo' = <<end>> \o Tail(todo) /\ g = h
      BY <2>2 DEF RunRehash, Then
    <3>2. drops \o <<end>> = <<end>>
      <4>1. drops = <<>>
        BY <2>2
      <4> HIDE DEF drops, end
      <4> QED BY <4>1
    <3> HIDE DEF g, drops
    <3> QED BY <1>2, <1>3, <3>1, <3>2 DEF OnlyTable, SameBut
  <2> QED BY <2>1, <2>2
<1>6. g.table = h.table /\ g.size = h.size
  <2> HIDE DEF h
  <2> QED BY <1>4 DEF Structures
<1>7. Associations(g) = Associations(h) /\ KeysOf(g) = KeysOf(h)
  <2> HIDE DEF g, h
  <2> QED BY <1>6 DEF Associations, KeysOf
<1>8. g # Gone
  BY <1>4, <1>6, NotGone
<1>9. \A u \in Table, k \in Plain : Contains(finalizers'[k], u) =>
        Contains(finalizers[k], u) \/ k \in Keyed
  <2>1. \A k \in KeysOf(h) : k \in Keyed
    BY <1>2 DEF SafeInv, ContentsKnown, KeysOf
  <2>2. CASE h.keylockp
    <3>1. finalizers' = [k \in Plain |-> IF k \in KeysOf(h)
                                      THEN Registered(finalizers, k, t)[k] ELSE finalizers[k]]
      BY <2>2 DEF RunRehash
    <3> QED BY <2>1, <3>1
  <2>3. CASE ~h.keylockp
    <3>1. finalizers' = finalizers
      BY <2>3 DEF RunRehash
    <3> QED BY <3>1
  <2> QED BY <2>2, <2>3
<1>10. drops \in Seq(Unlocks(Plain))
  <2>1. CASE h.keylockp
    <3>1. unlocks \in Seq({Unlock(x) : x \in KeysOf(h)})
      <4>1. PICK s : s = unlocks
        OBVIOUS
      <4>2. PICK hh : hh = h
        OBVIOUS
      <4>3. s = [n \in 1..Len(Elements(hh)) |-> Unlock(Reverse(Elements(hh))[n].key)] /\ Sound(hh)
        BY <1>3, <4>1, <4>2
      <4>4. s \in Seq({Unlock(x) : x \in KeysOf(hh)})
        BY <4>3, KeyDropsProperties
      <4> QED BY <4>1, <4>2, <4>4
    <3>2. {Unlock(x) : x \in KeysOf(h)} \in SUBSET Unlocks(Plain)
      BY <1>4 DEF Unlocks
    <3>3. drops = unlocks
      BY <2>1
    <3> HIDE DEF unlocks, drops, h
    <3> QED BY <3>1, <3>2, <3>3
  <2>2. CASE ~h.keylockp
    <3>1. drops = <<>>
      BY <2>2
    <3> QED BY <3>1
  <2> QED BY <2>1, <2>2
<1>11. end \in Task /\ end.do = "recompute"
  BY <1>2 DEF Do, Task
<1>12. h = htable[t]
  OBVIOUS
<1> HIDE DEF g, h, t, drops, end, unlocks, e
<1>13. UnlocksAnd(drops \o <<end>>, drops, Plain, end)
  <2>1. Plain \in SUBSET At
    BY NilNotAt
  <2> QED BY <1>10, <1>11, <2>1, UnlocksThen
<1>14. PICK new : new = drops \o <<end>>
  OBVIOUS
<1>15. /\ new \in Seq(Task) /\ todo' = new \o Tail(todo)
       /\ \A j \in 1..Len(new) : /\ new[j].do \in {"unlock", "recompute"}
                                 /\ new[j].do = "unlock" => new[j].at \in Plain
  <2>1. UnlocksAnd(new, drops, Plain, end)
    BY <1>13, <1>14
  <2>2. /\ new \in Seq(Task) /\ Len(new) = N + 1
        /\ \A d \in ToSet(new) : d = end \/ (d.do = "unlock" /\ d.at \in Plain)
        /\ \A i \in DOMAIN new : new[i] \in ToSet(new)
    BY <2>1 DEF UnlocksAnd
  <2>3. DOMAIN new = 1..Len(new)
    BY <2>2, LenProperties
  <2> QED BY <1>5, <1>11, <1>14, <2>2, <2>3
<1>16. KeepsKeys
  BY <1>2, <1>5, <1>7, <1>8, <1>12, KeepsOnly
<1>17. ContentsKnown' /\ RecordsKnown'
  BY <1>2, <1>5, <1>7, <1>9, <1>12, KnownOnly
<1>18. PICK ht : ht = htable'
  OBVIOUS
<1>19. \A j \in 1..Len(new) : SteadyNew(todo, new, j) /\ SafeTask(ht, new[j])
  BY <1>1, <1>15, DropsSteady
<1>20. \A j \in 1..Len(new) : SteadyNew(todo, new, j) /\ SafeTask(htable', new[j])
  BY <1>18, <1>19
<1> QED BY <1>1, <1>15, <1>16, <1>17, <1>20, SafeStep

LEMMA SafeRecompute ==
  ASSUME IInv, SafeInv, RunRecompute
  PROVE  SafeInv'
<1> DEFINE t == task.table
           h == htable[t]
           stale == \/ task.other # NIL /\ task.other \notin KeysOf(h)
                    \/ \E e \in Associations(h) : "free" \in {status[e.key], status[e.value]}
           r == htable_resize(h, h.size)
           g == [r EXCEPT !.rehashp = FALSE]
<1>1. /\ todo # <<>> /\ Head(todo).do = "recompute" /\ task = Head(todo)
  BY DEF RunRecompute, Running, task
<1>2. t \in Table /\ h # Gone /\ task.other = NIL
  BY <1>1, RehashStack
<1>3. DOMAIN htable = Table /\ Sound(h) /\ TableOK(h, Occurrences(todo, RemovalsOf(t)))
  BY <1>2 DEF IInv, TablesOK, TableOK
<1>4. h.size \in Nat \ {0}
  BY <1>2, <1>3 DEF TableOK, Sound
<1>5. \A e \in Associations(h) :
        /\ status[e.key] # "free" /\ status[e.value] # "free" /\ ~Zombie(e)
  <2> TAKE e \in Associations(h)
  <2>1. e \in Assoc
    BY <1>3, SoundProperties
  <2>2. e.value \in At /\ e.key \in Plain
    BY <2>1 DEF Assoc
  <2>3. status[e.key] = "live" /\ e.value \notin Mortal
    BY <1>2 DEF IInv, ContentsLive
  <2>4. status[e.value] # "zombie"
    BY <2>2, <2>3 DEF IInv, ContentsLive
  <2>5. status[e.value] # "free"
    <3>1. e = [key |-> e.key, value |-> e.value]
      BY <2>1 DEF Assoc
    <3> QED BY <1>2, <2>2, <3>1, HeldIsCounted
  <2> QED BY <2>3, <2>4, <2>5 DEF Zombie
<1>6. ~stale
  BY <1>2, <1>5
<1>7. ~TouchesFreed(stale)
  BY <1>6 DEF TouchesFreed
<1>8. ASSUME NEW b \in DOMAIN h.table, NEW i \in DOMAIN h.table[b], Zombie(h.table[b][i])
      PROVE  FALSE
  <2>1. <<b, i>> \in Places(h.table) /\ <<b, i>>[1] = b /\ <<b, i>>[2] = i
    BY DEF Places
  <2>2. h.table[b][i] \in Associations(h)
    <3> HIDE DEF h
    <3> QED BY <2>1 DEF Associations
  <2> QED BY <1>5, <1>8, <2>2
<1>9. /\ htable' = [htable EXCEPT ![t] = g]
      /\ todo' = <<>> \o Tail(todo)
      /\ UNCHANGED <<objects, finalizers, wild>>
  BY <1>7, <1>8 DEF RunRecompute, Then
<1>10. h = htable[t]
  OBVIOUS
<1> HIDE DEF h
<1>11. /\ Associations(r) = Associations(h) /\ KeysOf(r) = KeysOf(h)
       /\ r.size = h.size /\ r \in Structures(h.size)
  BY <1>3, <1>4, ResizeProperties
<1> HIDE DEF r
<1>12. g.table = r.table /\ g.size = h.size
  BY <1>11 DEF Structures
<1> HIDE DEF g, t
<1>13. Associations(g) = Associations(h) /\ KeysOf(g) = KeysOf(h)
  BY <1>11, <1>12 DEF Associations, KeysOf
<1>14. g # Gone
  BY <1>4, <1>12, NotGone
<1>15. OnlyTable(t, g)
  BY <1>2, <1>3, <1>9 DEF OnlyTable, SameBut
<1>16. KeepsKeys
  BY <1>2, <1>10, <1>13, <1>14, <1>15, KeepsOnly
<1>17. ContentsKnown' /\ RecordsKnown'
  BY <1>2, <1>9, <1>10, <1>13, <1>15, KnownOnly
<1>18. PICK new : new = <<>>
  OBVIOUS
<1>19. new \in Seq(Task) /\ Len(new) = 0 /\ 1..0 = {} /\ todo' = new \o Tail(todo) /\ wild' = wild
  BY <1>9, <1>18
<1>20. \A j \in 1..Len(new) : SteadyNew(todo, new, j) /\ SafeTask(htable', new[j])
  BY <1>19
<1> QED BY <1>1, <1>16, <1>17, <1>19, <1>20, SafeStep

\* The end of an access, or of a lisp function that drops at most a reference.
LEMMA FewSafe ==
  ASSUME SafeInv, Few(todo'), ContentsKnown', RecordsKnown', wild' = wild
  PROVE  SafeInv'
<1>1. PICK s, ht : s = todo' /\ ht = htable'
  OBVIOUS
<1>2. Quiet(s) /\ s \in Seq(Task)
  BY <1>1, FewQuiet
<1>3. AllSteady(s) /\ \A d \in ToSet(s) : SafeTask(ht, d)
  BY <1>2, QuietSafe
<1> QED BY <1>1, <1>3 DEF SafeInv

\* An access that changes no table.
LEMMA SameSafe ==
  ASSUME SafeInv, todo' = <<>>, UNCHANGED <<htable, finalizers, wild>>
  PROVE  SafeInv'
<1>1. ContentsKnown' /\ RecordsKnown'
  BY SafeStays
<1>2. Few(todo')
  BY DEF Few
<1> QED BY <1>1, <1>2, FewSafe

LEMMA SafeChange ==
  ASSUME IInv, SafeInv, StoredApart, DeletedNotStored, NEW t \in Table, NEW k \in Key, Ready(t, k),
         NEW v \in Value, Place(htable[t], k) # 0, Change(t, k, v, <<>>), wild' = wild
  PROVE  SafeInv'
<1> DEFINE h == htable[t]
           g == [h EXCEPT !.table[Bucket(h, k)][Place(h, k)].value = v]
<1>1. /\ DOMAIN htable = Table /\ Sound(h) /\ h.size \in Nat /\ h.size >= 2 /\ k \in Plain
  BY ReadyFacts
<1>2. v \in At /\ v \in Stored /\ k \in Keyed
  BY NilNotAt, StoredTypes
<1>3. PICK w : w = h.table[Bucket(h, k)][Place(h, k)].value
  OBVIOUS
<1>4. /\ htable' = [htable EXCEPT ![t] = g]
      /\ todo' = <<Unlock(w)>> \o <<>> /\ finalizers' = finalizers
  BY <1>3 DEF Change
<1>5. h.size # 0 /\ Place(h, k) # 0 /\ h = htable[t]
  BY <1>1
<1> HIDE DEF h
<1>6. w \in At
  BY <1>1, <1>3, <1>5, FoundFacts
<1>7. \A e : e \in Associations(g) <=> \/ e \in Associations(h) /\ e.key # k
                                       \/ e = [key |-> k, value |-> v]
  BY <1>1, <1>2, <1>5, ChangedProperties
<1> HIDE DEF g
<1>8. OnlyTable(t, g)
  BY <1>1, <1>4 DEF OnlyTable, SameBut
<1>9. \A e \in Associations(g) : e \in Associations(htable[t]) \/ NewKnown(e.key, e.value)
  BY <1>2, <1>5, <1>7 DEF NewKnown
<1>10. ContentsKnown' /\ RecordsKnown'
  BY <1>4, <1>8, <1>9, KnownOnly
<1>11. Few(todo')
  <2>1. todo' = <<Unlock(w)>>
    BY <1>4
  <2> QED BY <1>6, <2>1 DEF Few
<1> QED BY <1>10, <1>11, FewSafe

LEMMA SafeInsert ==
  ASSUME IInv, SafeInv, StoredApart, DeletedNotStored, NEW t \in Table, NEW k \in Key, Ready(t, k),
         NEW v \in Value, Place(htable[t], k) = 0, Insert(t, k, v, <<>>), wild' = wild
  PROVE  SafeInv'
<1> DEFINE h == htable[t]
           r == Extended(h)
           g == [r EXCEPT !.nelems = @ + 1,
                          !.table[Bucket(r, k)] = <<[key |-> k, value |-> v]>> \o @]
<1>1. /\ TypesOK /\ DOMAIN htable = Table
      /\ Sound(h) /\ h.size \in Nat /\ h.size >= 2 /\ h.nelems \in Nat
      /\ 3 * (h.nelems - 1) <= 2 * h.size
      /\ k \in Plain /\ k \notin KeysOf(h)
  BY ReadyFacts
<1>2. v \in At /\ v \in Stored /\ k \in Keyed
  BY NilNotAt, StoredTypes
<1>3. /\ Sound(r) /\ Associations(r) = Associations(h) /\ KeysOf(r) = KeysOf(h)
      /\ r.keylockp = h.keylockp /\ r.size \in Nat /\ r.size >= 2
  <2> HIDE DEF h
  <2> QED BY <1>1, ExtendedProperties
<1>4. ~r.keylockp
  BY <1>3 DEF Ready
<1>5. /\ htable' = [htable EXCEPT ![t] = g]
      /\ finalizers' = Registered(finalizers, k, t)
      /\ todo' = <<>> /\ h = htable[t]
  BY <1>4 DEF Insert, add_finalizer
<1> HIDE DEF r, h
<1>6. Associations(g) = Associations(r) \cup {[key |-> k, value |-> v]}
  <2>1. r.size # 0 /\ k \notin KeysOf(r)
    BY <1>1, <1>3
  <2>2. PICK d : d = g
    OBVIOUS
  <2>3. d = WithElement(r, k, v)
    BY <2>2 DEF WithElement
  <2> HIDE DEF g
  <2>4. Associations(d) = Associations(r) \cup {[key |-> k, value |-> v]}
    BY <1>1, <1>2, <1>3, <2>1, <2>3, InsertedProperties
  <2> QED BY <2>2, <2>4
<1> HIDE DEF g
<1>7. OnlyTable(t, g)
  BY <1>1, <1>5 DEF OnlyTable, SameBut
<1>8. \A e \in Associations(g) : e \in Associations(htable[t]) \/ NewKnown(e.key, e.value)
  BY <1>2, <1>3, <1>5, <1>6 DEF NewKnown
<1>9. \A u \in Table, j \in Plain : Contains(finalizers'[j], u) =>
        Contains(finalizers[j], u) \/ j \in Keyed
  <2>1. \A j \in Plain : j # k => finalizers'[j] = finalizers[j]
    <3>1. PICK records : records = Registered(finalizers, k, t)
      OBVIOUS
    <3>2. \A j \in Plain : j # k => records[j] = finalizers[j]
      BY <1>1, <3>1, RegisteredProperties
    <3> QED BY <1>5, <3>1, <3>2
  <2> QED BY <1>2, <2>1
<1>10. ContentsKnown' /\ RecordsKnown'
  BY <1>7, <1>8, <1>9, KnownOnly
<1>11. Few(todo')
  BY <1>5 DEF Few
<1> QED BY <1>10, <1>11, FewSafe

LEMMA SafeWithdraw ==
  ASSUME IInv, SafeInv, NEW t \in Table, NEW k \in Key, Ready(t, k), Place(htable[t], k) # 0,
         Withdraw(t, k, <<>>), wild' = wild
  PROVE  SafeInv'
<1> DEFINE h == htable[t]
           b == Bucket(h, k)
           i == Place(h, k)
           w == h.table[b][i].value
           r == Unlinked(h, b, i)
           g == [r EXCEPT !.nelems = @ - 1]
<1>1. /\ DOMAIN htable = Table /\ Sound(h) /\ h.size \in Nat /\ h.size >= 2 /\ k \in Plain
  BY ReadyFacts
<1>2. h.size # 0 /\ Place(h, k) # 0 /\ ~h.keylockp
  BY <1>1 DEF Ready
<1>3. /\ <<b, i>> \in Places(h.table) /\ w \in At
  <2> HIDE DEF h
  <2> QED BY <1>1, <1>2, FoundFacts
<1>4. /\ htable' = [htable EXCEPT ![t] = g]
      /\ todo' = <<Unlock(w)>> /\ finalizers' = finalizers /\ h = htable[t]
  <2>1. todo' = (IF h.keylockp THEN <<Unlock(k)>> ELSE <<>>) \o <<Unlock(w)>> \o <<>>
    BY DEF Withdraw
  <2>2. htable' = [htable EXCEPT ![t] = g] /\ finalizers' = finalizers
    BY DEF Withdraw
  <2>3. (IF h.keylockp THEN <<Unlock(k)>> ELSE <<>>) = <<>>
    BY <1>2
  <2> HIDE DEF h, w
  <2>4. todo' = <<>> \o <<Unlock(w)>> \o <<>>
    BY <2>1, <2>3
  <2>5. PICK u : u = Unlock(w)
    OBVIOUS
  <2>6. <<>> \o <<u>> \o <<>> = <<u>>
    OBVIOUS
  <2> QED BY <2>2, <2>4, <2>5, <2>6 DEF h
<1> HIDE DEF h, b, i, w
<1>5. /\ Associations(r) = Associations(h) \ {h.table[b][i]} /\ Sound(r)
  BY <1>1, <1>3, UnlinkedProperties
<1> HIDE DEF r
<1>6. g.table = r.table
  <2>1. r \in Structures(r.size)
    BY <1>5 DEF Sound
  <2> QED BY <2>1 DEF Structures
<1> HIDE DEF g
<1>7. Associations(g) = Associations(r)
  BY <1>6 DEF Associations
<1>8. OnlyTable(t, g)
  BY <1>1, <1>4 DEF OnlyTable, SameBut
<1>9. \A e \in Associations(g) : e \in Associations(htable[t]) \/ NewKnown(e.key, e.value)
  BY <1>4, <1>5, <1>7
<1>10. ContentsKnown' /\ RecordsKnown'
  BY <1>4, <1>8, <1>9, KnownOnly
<1>11. Few(todo')
  BY <1>3, <1>4 DEF Few
<1> QED BY <1>10, <1>11, FewSafe

LEMMA SafeSet ==
  ASSUME IInv, SafeInv, StoredApart, DeletedNotStored, NEW t \in Table, NEW k \in Key, Ready(t, k),
         NEW v \in Value \cup {NIL}, htable_set(t, k, v, <<>>)
  PROVE  SafeInv'
<1>1. wild' = wild
  BY DEF htable_set
<1>2. CASE Place(htable[t], k) # 0 /\ v # NIL /\ Change(t, k, v, <<>>)
  BY <1>1, <1>2, SafeChange
<1>3. CASE Place(htable[t], k) = 0 /\ v # NIL /\ Insert(t, k, v, <<>>)
  BY <1>1, <1>3, SafeInsert
<1>4. CASE Place(htable[t], k) # 0 /\ v = NIL /\ Withdraw(t, k, <<>>)
  BY <1>1, <1>4, SafeWithdraw
<1>5. CASE /\ todo' = <<>>
           /\ UNCHANGED <<count, flagged, finalizers, htable>>
  BY <1>1, <1>5, SameSafe
<1> QED BY <1>2, <1>3, <1>4, <1>5 DEF htable_set

LEMMA SafeGet ==
  ASSUME SafeInv, NEW t, NEW k, htable_get(t, k, <<>>)
  PROVE  SafeInv'
<1>1. todo' = <<>> /\ UNCHANGED <<htable, finalizers, wild>>
  BY DEF htable_get
<1> QED BY <1>1, SameSafe

LEMMA SafeAccess ==
  ASSUME IInv, SafeInv, StoredApart, DeletedNotStored, RunSet \/ RunGet
  PROVE  SafeInv'
<1> DEFINE d == Head(todo)
<1>1. todo # <<>> /\ d.do \in Accesses
  BY DEF RunSet, RunGet, Running, Accesses
<1>2. Tail(todo) = <<>> /\ d \in ToSet(todo)
  BY <1>1, InvAtRest
<1>3. Shape(todo) /\ Needs
  BY DEF IInv
<1>4. d.table \in Table /\ d.at \in Key /\ d.other \in Value \cup {NIL}
  BY <1>1, <1>2, <1>3, TaskAts
<1>5. CASE RunSet
  <2>1. htable_set(d.table, d.at, d.other, <<>>)
    BY <1>2, <1>5 DEF RunSet, task
  <2>2. PICK t \in Table, k \in Key, v \in Value \cup {NIL} : t = d.table /\ k = d.at /\ v = d.other
    BY <1>4
  <2>3. d.do = "set"
    BY <1>5 DEF RunSet, Running
  <2>4. held[d.at] > 0 /\ htable[d.table] # Gone /\ ~htable[d.table].keylockp
    BY <1>1, <1>2, <1>3, <2>3 DEF Needs, Accesses
  <2>5. htable_set(t, k, v, <<>>) /\ Ready(t, k)
    BY <1>1, <2>1, <2>2, <2>4 DEF Ready
  <2> QED BY <2>5, SafeSet
<1>6. CASE RunGet
  <2>1. htable_get(d.table, d.at, <<>>)
    BY <1>2, <1>6 DEF RunGet, task
  <2> QED BY <2>1, SafeGet
<1> QED BY <1>5, <1>6

\* Lisp code begins something.
LEMMA BeginsSafe ==
  ASSUME SafeInv, NEW s \in Seq(Task), Quiet(s), todo' = s,
         UNCHANGED <<objects, finalizers, htable, wild>>
  PROVE  SafeInv'
<1>1. PICK ht : ht = htable'
  OBVIOUS
<1>2. AllSteady(s) /\ \A d \in ToSet(s) : SafeTask(ht, d)
  BY QuietSafe
<1>3. ContentsKnown' /\ RecordsKnown'
  BY SafeStays
<1> QED BY <1>1, <1>2, <1>3 DEF SafeInv

LEMMA SafeDelete ==
  ASSUME SafeInv, NEW a \in Mortal, Delete(a)
  PROVE  SafeInv'
<1>1. PICK d : d = Do("delete", a, NIL, NIL)
  OBVIOUS
<1>2. d \in Task /\ d.do = "delete"
  BY <1>1, NilNotAt DEF Do, Task
<1>3. PICK s : s = <<d>>
  OBVIOUS
<1>4. s \in Seq(Task) /\ Len(s) = 1 /\ s[1] = d /\ 1..1 = {1}
  BY <1>2, <1>3
<1>5. todo' = s /\ UNCHANGED <<objects, finalizers, htable, wild>>
  BY <1>1, <1>3 DEF Delete
<1>6. Quiet(s)
  BY <1>2, <1>4 DEF Quiet, Removals, Drop3
<1> QED BY <1>4, <1>5, <1>6, BeginsSafe

LEMMA SafeRehashing ==
  ASSUME SafeInv, NEW t \in Table, NEW k \in Key, NEW do \in Accesses, NEW v \in Value \cup {NIL},
         Rehashing(t, Do(do, k, t, v))
  PROVE  SafeInv'
<1>1. PICK d, e : d = Do("rehash", NIL, t, NIL) /\ e = Do(do, k, t, v)
  OBVIOUS
<1>2. d \in Task /\ d.do = "rehash" /\ e \in Task /\ e.do = do
  BY <1>1, NilNotAt DEF Do, Task, Accesses
<1>3. PICK s : s = <<d, e>>
  OBVIOUS
<1>4. s \in Seq(Task) /\ Len(s) = 2 /\ s[1] = d /\ s[2] = e /\ 1..2 = {1, 2}
  BY <1>2, <1>3
<1>5. todo' = s /\ UNCHANGED <<objects, finalizers, htable, wild>>
  BY <1>1, <1>3 DEF Rehashing
<1>6. Quiet(s)
  BY <1>2, <1>4 DEF Quiet, Removals, Drop3, Accesses
<1> QED BY <1>4, <1>5, <1>6, BeginsSafe

LEMMA SafeSetLisp ==
  ASSUME IInv, SafeInv, StoredApart, DeletedNotStored, NEW t \in Table, NEW k \in Key,
         NEW value \in Value \cup {NIL}, Set(t, k, value)
  PROVE  SafeInv'
<1> DEFINE v == IF value # NIL /\ status[value] = "zombie" THEN NIL ELSE value
<1>1. /\ InLisp /\ IsTable(t) /\ Has(k)
      /\ Rehashing(t, Do("set", k, t, v)) \/ (~htable[t].rehashp /\ htable_set(t, k, v, <<>>))
  BY DEF Set
<1>2. PICK x \in Value \cup {NIL} : x = v
  OBVIOUS
<1> HIDE DEF v
<1>3. CASE Rehashing(t, Do("set", k, t, v))
  <2>1. "set" \in Accesses /\ Rehashing(t, Do("set", k, t, x))
    BY <1>2, <1>3 DEF Accesses
  <2> QED BY <2>1, SafeRehashing
<1>4. CASE ~htable[t].rehashp /\ htable_set(t, k, v, <<>>)
  <2>1. todo = <<>> /\ AtRest
    BY <1>1, LispFacts
  <2>2. ~htable[t].keylockp
    BY <1>4, <2>1 DEF AtRest
  <2>3. Ready(t, k)
    BY <1>1, <2>1, <2>2 DEF Ready, IsTable, Has
  <2>4. htable_set(t, k, x, <<>>)
    BY <1>2, <1>4
  <2> QED BY <2>3, <2>4, SafeSet
<1> QED BY <1>1, <1>3, <1>4

LEMMA SafeGetLisp ==
  ASSUME SafeInv, NEW t \in Table, NEW k \in Key, Get(t, k)
  PROVE  SafeInv'
<1>1. CASE Rehashing(t, Do("get", k, t, NIL))
  <2>1. "get" \in Accesses /\ NIL \in Value \cup {NIL}
    BY DEF Accesses
  <2> QED BY <1>1, <2>1, SafeRehashing
<1>2. CASE htable_get(t, k, <<>>)
  BY <1>2, SafeGet
<1> QED BY <1>1, <1>2 DEF Get

LEMMA SafeDrop ==
  ASSUME SafeInv, NEW a \in At, Drop(a)
  PROVE  SafeInv'
<1>1. /\ todo' = (IF count[a] = 1 THEN <<Do("purge", a, NIL, NIL)>> ELSE <<>>)
      /\ UNCHANGED <<finalizers, htable, wild>>
  BY DEF Drop, UNLOCK
<1>2. Few(todo')
  BY <1>1 DEF Few
<1>3. ContentsKnown' /\ RecordsKnown'
  BY <1>1, SafeStays
<1> QED BY <1>1, <1>2, <1>3, FewSafe

\* Lisp code makes a table, or marks one, and its stack stays empty.
LEMMA NewTableSafe ==
  ASSUME SafeInv, InLisp, UNCHANGED <<finalizers, todo, wild>>, NEW t \in Table, NEW g, OnlyTable(t, g),
         \A e \in Associations(g) : e \in Associations(htable[t]) \/ NewKnown(e.key, e.value)
  PROVE  SafeInv'
<1>1. Few(todo')
  BY DEF InLisp, Few
<1>2. \A u \in Table, k \in Plain : Contains(finalizers'[k], u) =>
        Contains(finalizers[k], u) \/ k \in Keyed
  OBVIOUS
<1>3. ContentsKnown' /\ RecordsKnown'
  BY <1>2, KnownOnly
<1> QED BY <1>1, <1>3, FewSafe

LEMMA SafeNew ==
  ASSUME IInv, SafeInv, NEW a \in At, New(a)
  PROVE  SafeInv'
<1>1. /\ InLisp /\ UNCHANGED <<finalizers, todo, wild>>
      /\ htable' = IF a \in Table THEN [htable EXCEPT ![a] = NewTable] ELSE htable
  BY DEF New
<1>2. CASE a \in Table
  <2>1. DOMAIN htable = Table
    BY DEF IInv, TablesOK
  <2>2. OnlyTable(a, NewTable)
    BY <1>1, <1>2, <2>1 DEF OnlyTable, SameBut
  <2>3. Associations(NewTable) = {}
    BY NewAndGone
  <2> QED BY <1>1, <1>2, <2>2, <2>3, NewTableSafe
<1>3. CASE a \notin Table
  <2>1. todo' = <<>> /\ UNCHANGED <<htable, finalizers, wild>>
    BY <1>1, <1>3 DEF InLisp
  <2> QED BY <2>1, SameSafe
<1> QED BY <1>2, <1>3

LEMMA SafeRehashLisp ==
  ASSUME IInv, SafeInv, NEW t \in Table, Rehash(t)
  PROVE  SafeInv'
<1> DEFINE h == htable[t]
           g == [h EXCEPT !.rehashp = TRUE]
<1>1. /\ InLisp /\ htable' = [htable EXCEPT ![t] = g]
      /\ UNCHANGED <<finalizers, todo, wild>>
  BY DEF Rehash
<1>2. DOMAIN htable = Table /\ h \in Structures(h.size) /\ h = htable[t]
  BY DEF IInv, TablesOK, TableOK, Sound
<1> HIDE DEF h
<1>3. g.table = h.table
  BY <1>2 DEF Structures
<1> HIDE DEF g
<1>4. Associations(g) = Associations(h)
  BY <1>3 DEF Associations
<1>5. OnlyTable(t, g)
  BY <1>1, <1>2 DEF OnlyTable, SameBut
<1> QED BY <1>1, <1>2, <1>4, <1>5, NewTableSafe

LEMMA SafeBread ==
  ASSUME IInv, SafeInv, FilesInOrder, StoredApart, DeletedNotStored,
         NEW t \in Table, NEW file \in File, Bread(t, file)
  PROVE  SafeInv'
<1>1. PICK g : g = SavedTable(file)
  OBVIOUS
<1>2. /\ InLisp /\ htable' = [htable EXCEPT ![t] = g]
      /\ UNCHANGED <<finalizers, todo, wild>>
  BY <1>1, BreadProperties
<1>3. OnlyTable(t, g)
  <2>1. DOMAIN htable = Table
    BY DEF IInv, TablesOK
  <2> QED BY <1>2, <2>1 DEF OnlyTable, SameBut
<1>4. ASSUME NEW e \in Associations(g) PROVE NewKnown(e.key, e.value)
  <2>1. e \in ToSet(file)
    BY <1>1, SavedProperties
  <2>2. PICK i \in DOMAIN file : e = file[i]
    BY <2>1 DEF ToSet
  <2>3. file[i].key \in Keyed /\ file[i].value \in Stored
    BY StoredTypes
  <2> QED BY <2>2, <2>3 DEF NewKnown
<1> QED BY <1>2, <1>3, <1>4, NewTableSafe

LEMMA RunSafe ==
  ASSUME IInv, SafeInv, StoredApart, DeletedNotStored, Run
  PROVE  SafeInv'
<1>1. CASE RunUnlock
  BY <1>1, SafeUnlock
<1>2. CASE RunFinalizers
  BY <1>2, SafeFinalizers
<1>3. CASE RunFinalize
  BY <1>3, SafeFinalize
<1>4. CASE RunFinalized
  BY <1>4, SafeFinalized
<1>5. CASE RunDispose
  BY <1>5, SafeDispose
<1>6. CASE RunZombify
  BY <1>6, SafeZombify
<1>7. CASE RunRehash
  BY <1>7, SafeRehash
<1>8. CASE RunRecompute
  BY <1>8, SafeRecompute
<1>9. CASE RunSet \/ RunGet
  BY <1>9, SafeAccess
<1> QED BY <1>1, <1>2, <1>3, <1>4, <1>5, <1>6, <1>7, <1>8, <1>9 DEF Run

LEMMA LispSafe ==
  ASSUME IInv, SafeInv, FilesInOrder, StoredApart, DeletedNotStored, Lisp
  PROVE  SafeInv'
<1>1. ASSUME NEW a \in At, New(a) PROVE SafeInv'
  BY <1>1, SafeNew
<1>2. ASSUME NEW a \in At, Drop(a) PROVE SafeInv'
  BY <1>2, SafeDrop
<1>3. ASSUME NEW a \in Mortal, Delete(a) PROVE SafeInv'
  BY <1>3, SafeDelete
<1>4. ASSUME NEW t \in Table, Rehash(t) PROVE SafeInv'
  BY <1>4, SafeRehashLisp
<1>5. ASSUME NEW t \in Table, NEW f \in File, Bread(t, f) PROVE SafeInv'
  BY <1>5, SafeBread
<1>6. ASSUME NEW t \in Table, NEW k \in Key, Get(t, k) PROVE SafeInv'
  BY <1>6, SafeGetLisp
<1>7. ASSUME NEW t \in Table, NEW k \in Key, Keys(t, k) PROVE SafeInv'
  <2>1. todo' = <<>> /\ UNCHANGED <<htable, finalizers, wild>>
    BY <1>7 DEF Keys, InLisp
  <2> QED BY <2>1, SameSafe
<1>8. ASSUME NEW t \in Table, NEW k \in Key, NEW v \in Value \cup {NIL}, Set(t, k, v) PROVE SafeInv'
  BY <1>8, SafeSetLisp
<1> QED BY <1>1, <1>2, <1>3, <1>4, <1>5, <1>6, <1>7, <1>8 DEF Lisp

LEMMA InitSafe ==
  ASSUME Init
  PROVE  SafeInv
<1>1. /\ finalizers = [k \in Plain |-> <<>>] /\ htable = [t \in Table |-> Gone]
      /\ todo = <<>> /\ wild = FALSE
  BY DEF Init
<1>2. ContentsKnown
  BY <1>1, NewAndGone DEF ContentsKnown
<1>3. RecordsKnown
  <2>1. \A t : ~Contains(<<>>, t)
    BY DEF Contains
  <2> QED BY <1>1, <2>1 DEF RecordsKnown
<1>4. 1..Len(todo) = {} /\ ToSet(todo) = {}
  BY <1>1 DEF ToSet
<1> QED BY <1>1, <1>2, <1>3, <1>4 DEF SafeInv, AllSteady

LEMMA StutterSafe ==
  ASSUME SafeInv, UNCHANGED vars
  PROVE  SafeInv'
BY DEF vars, SafeInv, ContentsKnown, RecordsKnown

\* No function goes on with freed memory: when a finalizer comes back from the
\* drop of a value, the table it walks is there, and so is the element its
\* pointer lies in; given that no table is a value, and no value is a key while
\* there are others.
THEOREM NothingWildCorrect ==
  ASSUME FilesInOrder, DeletedNotStored, StoredApart
  PROVE  Spec => []NothingWild
<1> DEFINE I == IInv /\ SafeInv
<1>1. Init => I
  BY InitGivesIInv, InitSafe
<1>2. I /\ [Next]_vars => I'
  <2> SUFFICES ASSUME IInv, SafeInv, [Next]_vars PROVE IInv' /\ SafeInv'
    OBVIOUS
  <2>1. CASE Run
    BY <2>1, RunKeeps, RunSafe
  <2>2. CASE Lisp
    BY <2>2, LispKeeps, LispSafe
  <2>3. CASE UNCHANGED vars
    BY <2>3, StutterKeeps, StutterSafe
  <2> QED BY <2>1, <2>2, <2>3 DEF Next
<1>3. I => NothingWild
  BY DEF SafeInv, NothingWild
<1> QED BY <1>1, <1>2, <1>3, PTL DEF Spec
=============================================================================
