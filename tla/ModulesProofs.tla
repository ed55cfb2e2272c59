----------------------------- MODULE ModulesProofs -----------------------------
(***************************************************************************)
(* Proofs about Modules, for any files, symbols and references.            *)
(***************************************************************************)
EXTENDS Modules, SeqLemmas, FiniteSetTheorems, TLAPS

-----------------------------------------------------------------------------
(* Ranks.                                                                  *)

LEMMA SizeType == Cardinality(File) \in Nat
  BY ModulesAssumption, FS_CardinalityType

\* The equation that defines Rounds, ...
AreRounds(g, S, T) ==
  g = [n \in 0..Cardinality(File) |-> IF n = 0 THEN {} ELSE Resolved(S, T, g[n - 1])]

\* ... has a solution.
LEMMA RoundsExist ==
  ASSUME NEW S, NEW T
  PROVE  \E g : AreRounds(g, S, T)
<1> DEFINE IsRounds(g, m) == g = [n \in 0..m |-> IF n = 0 THEN {} ELSE Resolved(S, T, g[n - 1])]
           Bad == {m \in Nat : ~\E g : IsRounds(g, m)}
<1>1. Bad = {}
  <2> SUFFICES ASSUME Bad # {}
               PROVE  FALSE
    OBVIOUS
  <2>1. PICK m \in Bad : \A k \in Bad : m <= k
    <3>1. Bad \in SUBSET Nat
      OBVIOUS
    <3> HIDE DEF Bad
    <3> QED BY <3>1, LeastPosition
  <2>2. m \in Nat /\ ~\E g : IsRounds(g, m)
    BY <2>1
  <2>3. m # 0
    <3> DEFINE z == [n \in 0..0 |-> {}]
    <3>1. IsRounds(z, 0)
      OBVIOUS
    <3> QED BY <2>2, <3>1
  <2>4. m - 1 \in Nat /\ m - 1 \notin Bad
    <3>1. m - 1 \in Nat /\ ~(m <= m - 1)
      BY <2>2, <2>3
    <3> HIDE DEF Bad
    <3> QED BY <2>1, <3>1
  <2>5. PICK g : IsRounds(g, m - 1)
    BY <2>4
  <2>6. \A n \in 0..(m - 1) : g[n] = IF n = 0 THEN {} ELSE Resolved(S, T, g[n - 1])
    BY <2>5, Zenon
  <2> DEFINE h == [n \in 0..m |-> IF n = m THEN Resolved(S, T, g[m - 1]) ELSE g[n]]
  <2>7. \A n \in 0..m : h[n] = IF n = 0 THEN {} ELSE Resolved(S, T, h[n - 1])
    <3> SUFFICES ASSUME NEW n \in 0..m
                 PROVE  h[n] = IF n = 0 THEN {} ELSE Resolved(S, T, h[n - 1])
      OBVIOUS
    <3>1. CASE n = 0
      BY <2>2, <2>3, <2>6, <3>1
    <3>2. CASE n # 0
      <4>1. n - 1 \in 0..m /\ n - 1 # m /\ h[n - 1] = g[n - 1]
        BY <2>2, <3>2
      <4>2. h[n] = Resolved(S, T, g[n - 1])
        BY <2>2, <2>6, <3>2
      <4> QED BY <3>2, <4>1, <4>2
    <3> QED BY <3>1, <3>2
  <2>8. IsRounds(h, m)
    <3>1. h = [n \in 0..m |-> h[n]]
      OBVIOUS
    <3> HIDE DEF h
    <3> QED BY <2>7, <3>1
  <2> QED BY <2>2, <2>8
<1>2. \E g : IsRounds(g, Cardinality(File))
  BY <1>1, SizeType
<1> QED BY <1>2 DEF AreRounds

\* What Rounds computes.
LEMMA RoundsProperties ==
  ASSUME NEW S, NEW T
  PROVE  /\ Rounds(S, T)[0] = {}
         /\ \A n \in 1..Cardinality(File) :
              Rounds(S, T)[n] = Resolved(S, T, Rounds(S, T)[n - 1])
<1>1. PICK r : r = Rounds(S, T)
  OBVIOUS
<1>2. r = CHOOSE g : AreRounds(g, S, T)
  BY <1>1, Zenon DEF Rounds, AreRounds
<1>3. AreRounds(r, S, T)
  BY <1>2, RoundsExist, Zenon
<1>4. \A n \in 0..Cardinality(File) :
        r[n] = IF n = 0 THEN {} ELSE Resolved(S, T, r[n - 1])
  BY <1>3, Zenon DEF AreRounds
<1> QED BY <1>1, <1>4, SizeType

\* A bundle that is resolved stays so when more bundles are.
LEMMA ResolvedGrows ==
  ASSUME NEW S, NEW T, NEW D, NEW E, D \subseteq E
  PROVE  Resolved(S, T, D) \subseteq Resolved(S, T, E)
BY DEF Resolved, Among

LEMMA ResolvedWithin ==
  ASSUME NEW S, NEW T, NEW D
  PROVE  Resolved(S, T, D) \subseteq T
BY DEF Resolved

\* Round after round, bundles are added.
LEMMA RoundsGrow ==
  ASSUME NEW S, NEW T
  PROVE  /\ \A n \in 0..Cardinality(File) : Rounds(S, T)[n] \subseteq T
         /\ \A m, n \in 0..Cardinality(File) :
              m <= n => Rounds(S, T)[m] \subseteq Rounds(S, T)[n]
<1> DEFINE N == Cardinality(File)
<1>1. PICK L : L = Rounds(S, T)
  OBVIOUS
<1>2. N \in Nat /\ L[0] = {} /\ \A n \in 1..N : L[n] = Resolved(S, T, L[n - 1])
  BY <1>1, SizeType, RoundsProperties
<1> HIDE DEF N
<1>3. ASSUME NEW n \in 0..N PROVE L[n] \subseteq T
  <2>1. CASE n = 0
    BY <1>2, <2>1
  <2>2. CASE n # 0
    <3>1. n \in 1..N
      BY <1>2, <2>2
    <3>2. Resolved(S, T, L[n - 1]) \subseteq T
      BY ResolvedWithin, Zenon
    <3> QED BY <1>2, <3>1, <3>2
  <2> QED BY <2>1, <2>2
<1>4. \A n \in 1..N : L[n - 1] \subseteq L[n]
  <2> DEFINE Bad == {n \in 1..N : ~(L[n - 1] \subseteq L[n])}
  <2> SUFFICES ASSUME Bad # {}
               PROVE  FALSE
    OBVIOUS
  <2>1. Bad \in SUBSET Nat
    BY <1>2
  <2>2. PICK n \in Bad : \A k \in Bad : n <= k
    <3> HIDE DEF Bad
    <3> QED BY <2>1, LeastPosition
  <2>3. n \in 1..N /\ ~(L[n - 1] \subseteq L[n])
    BY <2>2
  <2>4. n # 1
    BY <1>2, <2>3
  <2>5. n - 1 \in 1..N /\ n - 1 \notin Bad
    <3>1. n - 1 \in 1..N /\ ~(n <= n - 1)
      BY <1>2, <2>3, <2>4
    <3> HIDE DEF Bad
    <3> QED BY <2>2, <3>1
  <2>6. L[n - 2] \subseteq L[n - 1]
    BY <2>5
  <2>7. L[n] = Resolved(S, T, L[n - 1]) /\ L[n - 1] = Resolved(S, T, L[n - 2])
    BY <1>2, <2>3, <2>5
  <2>8. Resolved(S, T, L[n - 2]) \subseteq Resolved(S, T, L[n - 1])
    <3>1. PICK d, e : d = L[n - 2] /\ e = L[n - 1]
      OBVIOUS
    <3>2. d \subseteq e
      BY <2>6, <3>1
    <3>3. Resolved(S, T, d) \subseteq Resolved(S, T, e)
      BY <3>2, ResolvedGrows
    <3> QED BY <3>1, <3>3
  <2> QED BY <2>3, <2>7, <2>8
<1>5. ASSUME NEW m \in 0..N, NEW n \in 0..N, m <= n PROVE L[m] \subseteq L[n]
  <2> DEFINE Bad == {k \in m..N : ~(L[m] \subseteq L[k])}
  <2> SUFFICES ASSUME Bad # {}
               PROVE  FALSE
    BY <1>2, <1>5
  <2>1. Bad \in SUBSET Nat
    BY <1>2
  <2>2. PICK k \in Bad : \A j \in Bad : k <= j
    <3> HIDE DEF Bad
    <3> QED BY <2>1, LeastPosition
  <2>3. k \in m..N /\ ~(L[m] \subseteq L[k]) /\ k # m
    BY <2>2
  <2>4. k - 1 \in m..N /\ k - 1 \notin Bad
    <3>1. k - 1 \in m..N /\ ~(k <= k - 1)
      BY <1>2, <2>3
    <3> HIDE DEF Bad
    <3> QED BY <2>2, <3>1
  <2>5. L[m] \subseteq L[k - 1] /\ k \in 1..N
    BY <1>2, <2>3, <2>4
  <2> QED BY <1>4, <2>3, <2>5
<1> QED BY <1>1, <1>3, <1>5 DEF N

\* In as many rounds as there are files everything that can be resolved is.
LEMMA RoundsSuffice ==
  ASSUME NEW S, NEW T \in SUBSET File
  PROVE  Resolved(S, T, Rounds(S, T)[Cardinality(File)]) = Rounds(S, T)[Cardinality(File)]
<1> DEFINE N == Cardinality(File)
<1>1. PICK L : L = Rounds(S, T)
  OBVIOUS
<1>2. N \in Nat /\ L[0] = {} /\ \A n \in 1..N : L[n] = Resolved(S, T, L[n - 1])
  BY <1>1, SizeType, RoundsProperties
<1>3. /\ \A n \in 0..N : L[n] \subseteq T
      /\ \A m, n \in 0..N : m <= n => L[m] \subseteq L[n]
  BY <1>1, RoundsGrow
<1>4. \A n \in 0..N : IsFiniteSet(L[n]) /\ Cardinality(L[n]) \in Nat
  <2> SUFFICES ASSUME NEW n \in 0..N
               PROVE  IsFiniteSet(L[n]) /\ Cardinality(L[n]) \in Nat
    OBVIOUS
  <2>1. L[n] \in SUBSET File
    BY <1>3
  <2>2. IsFiniteSet(L[n])
    BY <2>1, ModulesAssumption, FS_Subset
  <2> QED BY <2>2, FS_CardinalityType
<1> DEFINE Small == {n \in 0..N : Cardinality(L[n]) < n}
<1>5. CASE Small = {}
  <2>1. 0 \in 0..N /\ N \in 0..N
    BY <1>2
  <2>2. N <= Cardinality(L[N])
    BY <1>2, <1>4, <1>5, <2>1
  <2>3. L[N] \in SUBSET File
    BY <1>3, <2>1
  <2>4. Cardinality(L[N]) <= N /\ (N = Cardinality(L[N]) => File = L[N])
    BY <2>3, ModulesAssumption, FS_Subset
  <2>5. L[N] = File
    BY <1>2, <1>4, <2>1, <2>2, <2>4
  <2>6. Resolved(S, T, L[N]) \subseteq T
    BY ResolvedWithin, Zenon
  <2>7. L[N] \subseteq Resolved(S, T, L[N])
    <3>1. CASE N = 0
      BY <1>2, <3>1
    <3>2. CASE N # 0
      <4>1. N \in 1..N /\ N - 1 \in 0..N /\ N - 1 <= N
        BY <1>2, <3>2
      <4>2. L[N - 1] \subseteq L[N] /\ L[N] = Resolved(S, T, L[N - 1])
        BY <1>2, <1>3, <2>1, <4>1
      <4>3. Resolved(S, T, L[N - 1]) \subseteq Resolved(S, T, L[N])
        BY <4>2, ResolvedGrows, Zenon
      <4> QED BY <4>2, <4>3
    <3> QED BY <3>1, <3>2
  <2> QED BY <1>1, <2>5, <2>6, <2>7
<1>6. CASE Small # {}
  <2>1. Small \in SUBSET Nat
    BY <1>2
  <2>2. PICK n \in Small : \A k \in Small : n <= k
    <3> HIDE DEF Small
    <3> QED BY <1>6, <2>1, LeastPosition
  <2>3. n \in 0..N /\ Cardinality(L[n]) < n /\ n # 0
    BY <1>4, <2>2
  <2>4. n \in 1..N /\ n - 1 \in 0..N
    BY <1>2, <2>3
  <2>5. n - 1 \notin Small
    <3>1. ~(n <= n - 1)
      BY <2>3
    <3> HIDE DEF Small
    <3> QED BY <2>2, <3>1
  <2>6. n - 1 <= Cardinality(L[n - 1])
    BY <1>4, <2>4, <2>5
  <2>7. L[n - 1] \in SUBSET L[n]
    BY <1>3, <2>4
  <2>8. Cardinality(L[n - 1]) <= Cardinality(L[n])
        /\ (Cardinality(L[n]) = Cardinality(L[n - 1]) => L[n] = L[n - 1])
    <3>1. IsFiniteSet(L[n])
      BY <1>4, <2>3
    <3> QED BY <2>7, <3>1, FS_Subset
  <2>9. L[n] = L[n - 1]
    BY <1>4, <2>3, <2>4, <2>6, <2>8
  <2>10. \A k \in n..N : L[k] = L[n]
    <3> DEFINE Bad == {k \in n..N : L[k] # L[n]}
    <3> SUFFICES ASSUME Bad # {}
                 PROVE  FALSE
      OBVIOUS
    <3>1. Bad \in SUBSET Nat
      BY <1>2, <2>3
    <3>2. PICK k \in Bad : \A j \in Bad : k <= j
      <4> HIDE DEF Bad
      <4> QED BY <3>1, LeastPosition
    <3>3. k \in n..N /\ L[k] # L[n] /\ k # n
      BY <3>2
    <3>4. k - 1 \in n..N /\ k - 1 \notin Bad
      <4>1. k - 1 \in n..N /\ ~(k <= k - 1)
        BY <1>2, <2>3, <3>3
      <4> HIDE DEF Bad
      <4> QED BY <3>2, <4>1
    <3>5. L[k - 1] = L[n - 1] /\ k \in 1..N
      BY <1>2, <2>4, <2>9, <3>3, <3>4
    <3>6. L[k] = Resolved(S, T, L[k - 1]) /\ L[n] = Resolved(S, T, L[n - 1])
      BY <1>2, <2>4, <3>5
    <3> QED BY <3>3, <3>5, <3>6
  <2>11. L[N] = L[n - 1] /\ L[N] = L[n]
    BY <1>2, <2>4, <2>9, <2>10
  <2>12. L[n] = Resolved(S, T, L[n - 1])
    BY <1>2, <2>4
  <2> QED BY <1>1, <2>11, <2>12
<1> QED BY <1>5, <1>6

\* A ranked bundle finds its symbols at lower ranks, ...
Sound(r, S, T) ==
  \A f \in File : 0 <= r[f] =>
    /\ f \in T
    /\ \A s \in Refers[f] :
         IF Among(S, s)
         THEN s \in Defines[f] \/ \E g \in T : s \in Defines[g] /\ 0 <= r[g] /\ r[g] < r[f]
         ELSE isdef(s)

\* ... and one of them at the rank below its own; ...
Tight(r, T) ==
  \A f \in File : 0 < r[f] =>
    \E g \in T \ {f} : /\ \E s \in Refers[f] : s \in Defines[g]
                       /\ r[g] = r[f] - 1

\* ... a bundle that finds its symbols is ranked.
Complete(r, S, T) ==
  \A f \in T :
    (\A s \in Refers[f] :
       IF Among(S, s) THEN \E g \in T : s \in Defines[g] /\ (g = f \/ 0 <= r[g])
       ELSE isdef(s))
    => 0 <= r[f]

\* What nsbundle_exec_all_but computes.
LEMMA RanksProperties ==
  ASSUME NEW S, NEW T \in SUBSET File
  PROVE  /\ Ranks(S, T) \in [File -> -1..(Cardinality(File) - 1)]
         /\ Sound(Ranks(S, T), S, T)
         /\ Tight(Ranks(S, T), T)
         /\ Complete(Ranks(S, T), S, T)
<1> DEFINE N == Cardinality(File)
<1>1. PICK L : L = Rounds(S, T)
  OBVIOUS
<1>2. N \in Nat /\ L[0] = {} /\ \A n \in 1..N : L[n] = Resolved(S, T, L[n - 1])
  BY <1>1, SizeType, RoundsProperties
<1>3. /\ \A n \in 0..N : L[n] \subseteq T
      /\ \A m, n \in 0..N : m <= n => L[m] \subseteq L[n]
  BY <1>1, RoundsGrow
<1>4. Resolved(S, T, L[N]) = L[N]
  BY <1>1, RoundsSuffice
<1>5. PICK r : r = Ranks(S, T)
  OBVIOUS
<1>6. r = [f \in File |-> IF f \in L[N] THEN CHOOSE n \in 0..(N - 1) : f \in L[n + 1] \ L[n] ELSE -1]
  BY <1>1, <1>5 DEF Ranks
<1> HIDE DEF N
<1>7. ASSUME NEW f \in L[N]
      PROVE  \E n \in 0..(N - 1) : f \in L[n + 1] \ L[n]
  <2> DEFINE In == {n \in 0..N : f \in L[n]}
  <2>1. In \in SUBSET Nat /\ N \in In
    BY <1>2
  <2>2. PICK n \in In : \A k \in In : n <= k
    <3> HIDE DEF In
    <3> QED BY <2>1, LeastPosition
  <2>3. n \in 0..N /\ f \in L[n] /\ n # 0
    BY <1>2, <2>2
  <2>4. n - 1 \in 0..(N - 1) /\ (n - 1) + 1 = n
    BY <1>2, <2>3
  <2>5. n - 1 \notin In
    <3>1. ~(n <= n - 1)
      BY <2>3
    <3> HIDE DEF In
    <3> QED BY <2>2, <3>1
  <2>6. f \notin L[n - 1]
    BY <1>2, <2>4, <2>5
  <2> QED BY <2>3, <2>4, <2>6
<1>8. ASSUME NEW f \in File, f \in L[N]
      PROVE  r[f] \in 0..(N - 1) /\ f \in L[r[f] + 1] \ L[r[f]]
  <2>1. r[f] = CHOOSE n \in 0..(N - 1) : f \in L[n + 1] \ L[n]
    BY <1>6, <1>8
  <2> QED BY <1>7, <1>8, <2>1
<1>9. ASSUME NEW f \in File
      PROVE  /\ r[f] \in -1..(N - 1)
             /\ f \in L[N] <=> 0 <= r[f]
  <2>1. CASE f \in L[N]
    BY <1>2, <1>8, <2>1
  <2>2. CASE f \notin L[N]
    <3>1. r[f] = -1
      BY <1>6, <2>2
    <3> QED BY <1>2, <2>2, <3>1
  <2> QED BY <2>1, <2>2
<1>10. ASSUME NEW f \in File, NEW n \in 0..N
       PROVE  f \in L[n] <=> 0 <= r[f] /\ r[f] < n
  <2>1. CASE f \in L[N]
    <3>1. r[f] \in 0..(N - 1) /\ f \in L[r[f] + 1] /\ f \notin L[r[f]]
      BY <1>8, <2>1
    <3>2. CASE r[f] < n
      <4>1. r[f] + 1 \in 0..N /\ r[f] + 1 <= n
        BY <1>2, <3>1, <3>2
      <4> QED BY <1>3, <3>1, <3>2, <4>1
    <3>3. CASE ~(r[f] < n)
      <4>1. r[f] \in 0..N /\ n <= r[f]
        BY <1>2, <3>1, <3>3
      <4> QED BY <1>3, <3>1, <3>3, <4>1
    <3> QED BY <3>2, <3>3
  <2>2. CASE f \notin L[N]
    <3>1. N \in 0..N /\ n <= N
      BY <1>2
    <3>2. f \notin L[n]
      BY <1>3, <2>2, <3>1
    <3> QED BY <1>9, <2>2, <3>2
  <2> QED BY <2>1, <2>2
<1>11. r \in [File -> -1..(N - 1)]
  <2>1. r = [f \in File |-> r[f]]
    BY <1>6
  <2> QED BY <1>9, <2>1
<1>12. ASSUME NEW f \in File, 0 <= r[f]
       PROVE  /\ r[f] \in 0..(N - 1) /\ r[f] + 1 \in 1..N
              /\ f \in Resolved(S, T, L[r[f]])
  <2>1. f \in L[N] /\ r[f] \in 0..(N - 1)
    BY <1>2, <1>9, <1>12
  <2>2. f \in L[r[f] + 1] /\ r[f] + 1 \in 1..N /\ (r[f] + 1) - 1 = r[f]
    BY <1>2, <1>8, <2>1
  <2>3. L[r[f] + 1] = Resolved(S, T, L[r[f]])
    BY <1>2, <2>2
  <2> QED BY <2>1, <2>2, <2>3
<1>13. Sound(r, S, T)
  <2> SUFFICES ASSUME NEW f \in File, 0 <= r[f]
               PROVE  /\ f \in T
                      /\ \A s \in Refers[f] :
                           IF Among(S, s)
                           THEN \/ s \in Defines[f]
                                \/ \E g \in T : s \in Defines[g] /\ 0 <= r[g] /\ r[g] < r[f]
                           ELSE isdef(s)
    BY DEF Sound
  <2>1. r[f] \in 0..N /\ f \in Resolved(S, T, L[r[f]])
    BY <1>2, <1>12
  <2>2. f \in T
    BY <2>1 DEF Resolved
  <2>3. ASSUME NEW s \in Refers[f], Among(S, s), s \notin Defines[f]
        PROVE  \E g \in T : s \in Defines[g] /\ 0 <= r[g] /\ r[g] < r[f]
    <3>1. PICK g \in L[r[f]] : s \in Defines[g]
      BY <2>1, <2>3 DEF Resolved, Among
    <3>2. g \in T /\ g \in File
      BY <1>3, <2>1
    <3> QED BY <1>10, <2>1, <3>1, <3>2
  <2>4. ASSUME NEW s \in Refers[f], ~Among(S, s)
        PROVE  isdef(s)
    BY <2>1, <2>4 DEF Resolved
  <2> QED BY <2>2, <2>3, <2>4
<1>14. Tight(r, T)
  <2> SUFFICES ASSUME NEW f \in File, 0 < r[f]
               PROVE  \E g \in T \ {f} : /\ \E s \in Refers[f] : s \in Defines[g]
                                         /\ r[g] = r[f] - 1
    BY DEF Tight
  <2>1. r[f] \in 0..(N - 1) /\ f \in Resolved(S, T, L[r[f]]) /\ r[f] \in 1..N
    <3>1. 0 <= r[f]
      BY <1>9
    <3> QED BY <1>2, <1>12, <3>1
  <2>2. f \notin L[r[f]] /\ L[r[f]] = Resolved(S, T, L[r[f] - 1])
    BY <1>2, <1>10, <2>1
  <2>3. PICK s \in Refers[f] : Among(S, s) /\ ~Among(L[r[f] - 1] \cup {f}, s)
                              /\ Among(L[r[f]] \cup {f}, s)
    <3>1. f \in T /\ \A s \in Refers[f] :
            IF Among(S, s) THEN Among(L[r[f]] \cup {f}, s) ELSE isdef(s)
      BY <2>1 DEF Resolved
    <3>2. \E s \in Refers[f] :
            ~(IF Among(S, s) THEN Among(L[r[f] - 1] \cup {f}, s) ELSE isdef(s))
      BY <2>2, <3>1 DEF Resolved
    <3> QED BY <3>1, <3>2
  <2>4. PICK g \in L[r[f]] \cup {f} : s \in Defines[g]
    BY <2>3 DEF Among
  <2>5. g # f /\ g \in L[r[f]] /\ g \notin L[r[f] - 1]
    BY <2>3, <2>4 DEF Among
  <2>6. g \in T /\ g \in File
    BY <1>2, <1>3, <2>1, <2>5
  <2>7. 0 <= r[g] /\ r[g] < r[f] /\ ~(r[g] < r[f] - 1)
    <3>1. r[f] \in 0..N /\ r[f] - 1 \in 0..N
      BY <1>2, <2>1
    <3> QED BY <1>10, <2>5, <2>6, <3>1
  <2>8. r[g] = r[f] - 1
    BY <1>2, <1>9, <2>1, <2>6, <2>7
  <2> QED BY <2>4, <2>5, <2>6, <2>8
<1>15. Complete(r, S, T)
  <2> SUFFICES ASSUME NEW f \in T,
                      \A s \in Refers[f] :
                        IF Among(S, s) THEN \E g \in T : s \in Defines[g] /\ (g = f \/ 0 <= r[g])
                        ELSE isdef(s)
               PROVE  0 <= r[f]
    BY DEF Complete
  <2>1. \A s \in Refers[f] : IF Among(S, s) THEN Among(L[N] \cup {f}, s) ELSE isdef(s)
    <3> SUFFICES ASSUME NEW s \in Refers[f], Among(S, s)
                 PROVE  Among(L[N] \cup {f}, s)
      OBVIOUS
    <3>1. PICK g \in T : s \in Defines[g] /\ (g = f \/ 0 <= r[g])
      OBVIOUS
    <3>2. g = f \/ g \in L[N]
      BY <1>9, <3>1
    <3> QED BY <3>1, <3>2 DEF Among
  <2>2. f \in Resolved(S, T, L[N])
    BY <2>1 DEF Resolved
  <2> QED BY <1>4, <1>9, <2>2
<1> QED BY <1>5, <1>11, <1>13, <1>14, <1>15 DEF N

-----------------------------------------------------------------------------
(* What is left to do.                                                     *)

Steps == Hook \cup {"cleanup", "unload", "close", "open", "forget", "dlopen", "link",
                    "check", "exec", "init", "call"}

\* Which step comes after which, ...
Order ==
  { <<"on_unlink", "cleanup">>, <<"cleanup", "unload">>, <<"cleanup", "call">>,
    <<"unload", "close">>, <<"close", "open">>, <<"open", "forget">>, <<"open", "check">>,
    <<"forget", "check">>, <<"check", "link">>, <<"dlopen", "link">>,
    <<"exec", "on_exec">>, <<"on_exec", "exec">>, <<"on_exec", "init">>,
    <<"init", "init">>, <<"init", "link">>,
    <<"call", "on_init">>, <<"on_init", "init">>, <<"on_init", "link">> }

\* ... which are the last ones for a file, ...
Final == {"link", "check", "on_exec", "init", "on_init"}

\* ... and which do not need the file to be loaded.
Early == {"dlopen", "link", "check"}

Follows(t, u) == <<t.do, u.do>> \in Order /\ (t.do \notin Final => u.file = t.file)

Has(q, step) == \E i \in DOMAIN q : q[i].do = step

\* What can be left to do when the files in L are loaded: step by step, to the end;
\* libraries are opened once, and a bundle that is unloaded is forgotten.
Plan(q, L) ==
  /\ q \in Seq(Task)
  /\ \A i \in 1..(Len(q) - 1) : Follows(q[i], q[i + 1])
  /\ q # <<>> => q[Len(q)].do \in Final
  /\ \A i \in DOMAIN q : q[i].do \notin Early => q[i].file \in L
  /\ \A i \in DOMAIN q : q[i].do = "dlopen" => q[i].file \in Shared \ L
  /\ Has(q, "unload") => Has(q, "forget")

LEMMA TaskType == Task = [do : Steps, file : File]
BY DEF Task, Steps

\* The first step done, the rest is left.
LEMMA PlanTail ==
  ASSUME NEW L, NEW q, Plan(q, L), q # <<>>
  PROVE  /\ Plan(Tail(q), L)
         /\ Len(q) \in Nat \ {0} /\ Len(Tail(q)) = Len(q) - 1
         /\ \A i \in 1..(Len(q) - 1) : Tail(q)[i] = q[i + 1]
         /\ Tail(q) # <<>> => Follows(q[1], Tail(q)[1])
         /\ q[1].do \notin Final => Tail(q) # <<>>
<1>1. q \in Seq(Task) /\ Len(q) \in Nat \ {0} /\ DOMAIN q = 1..Len(q)
  BY DEF Plan
<1>2. PICK p : p = Tail(q)
  OBVIOUS
<1>3. p \in Seq(Task) /\ Len(p) = Len(q) - 1 /\ \A i \in 1..(Len(q) - 1) : p[i] = q[i + 1]
  BY <1>1, <1>2
<1>4. DOMAIN p = 1..(Len(q) - 1) /\ (p = <<>> <=> Len(q) = 1)
  <2>1. DOMAIN p = 1..Len(p)
    BY <1>3, LenProperties
  <2>2. p = <<>> <=> Len(p) = 0
    BY <1>3, EmptySeq
  <2> QED BY <1>1, <1>3, <2>1, <2>2
<1>5. \A i \in 1..(Len(p) - 1) : Follows(p[i], p[i + 1])
  BY <1>1, <1>3 DEF Plan
<1>6. p # <<>> => p[Len(p)].do \in Final
  BY <1>1, <1>3, <1>4 DEF Plan
<1>7. \A i \in DOMAIN p : /\ p[i].do \notin Early => p[i].file \in L
                          /\ p[i].do = "dlopen" => p[i].file \in Shared \ L
  BY <1>1, <1>3, <1>4 DEF Plan
<1>8. ASSUME Has(p, "unload") PROVE Has(p, "forget")
  <2>1. PICK i \in DOMAIN p : p[i].do = "unload"
    BY <1>8 DEF Has
  <2>2. i \in 1..(Len(q) - 1) /\ i + 1 \in DOMAIN q /\ q[i + 1].do = "unload"
    BY <1>1, <1>3, <1>4, <2>1
  <2>3. PICK j \in DOMAIN q : q[j].do = "forget"
    BY <2>2 DEF Plan, Has
  <2>4. CASE j = 1
    <3>1. i + 1 # 1 /\ i \in DOMAIN q /\ Follows(q[i], q[i + 1])
      BY <1>1, <2>2 DEF Plan
    <3>2. i # 1
      BY <2>2, <2>3, <2>4, <3>1 DEF Follows, Order
    <3>3. Follows(q[1], q[2]) /\ (i + 1 > 2)
      BY <1>1, <2>2, <3>2 DEF Plan
    <3>4. q[2].do = "check"
      BY <2>3, <2>4, <3>3 DEF Follows, Order
    <3>5. i # 2 /\ i + 1 > 3
      BY <1>1, <2>2, <3>1, <3>3, <3>4 DEF Follows, Order
    <3>6. Follows(q[2], q[3]) /\ Follows(q[3], q[4])
      BY <1>1, <2>2, <3>5 DEF Plan
    <3> QED BY <3>4, <3>6 DEF Follows, Order
  <2>5. CASE j # 1
    <3>1. j - 1 \in DOMAIN p /\ p[j - 1] = q[j]
      BY <1>1, <1>3, <1>4, <2>3, <2>5
    <3> QED BY <2>3, <3>1 DEF Has
  <2> QED BY <2>4, <2>5
<1>9. p # <<>> => Follows(q[1], p[1])
  <2> SUFFICES ASSUME p # <<>>
               PROVE  Follows(q[1], p[1])
    OBVIOUS
  <2>1. 1 \in 1..(Len(q) - 1) /\ p[1] = q[1 + 1]
    BY <1>1, <1>3, <1>4
  <2> QED BY <2>1 DEF Plan
<1>10. q[1].do \notin Final => p # <<>>
  BY <1>1, <1>4 DEF Plan
<1> QED BY <1>1, <1>2, <1>3, <1>5, <1>6, <1>7, <1>8, <1>9, <1>10 DEF Plan

\* What remains to be done may be put after a whole list of steps.
LEMMA PlanJoin ==
  ASSUME NEW L, NEW p, NEW q, Plan(p, L), Plan(q, L),
         p # <<>> /\ q # <<>> => Follows(p[Len(p)], q[1])
  PROVE  /\ Plan(p \o q, L)
         /\ Len(p) \in Nat /\ Len(q) \in Nat
         /\ Len(p \o q) = Len(p) + Len(q)
         /\ \A i \in 1..Len(p) : (p \o q)[i] = p[i]
         /\ \A i \in 1..Len(q) : (p \o q)[i + Len(p)] = q[i]
<1>1. p \in Seq(Task) /\ q \in Seq(Task) /\ Len(p) \in Nat /\ Len(q) \in Nat
      /\ DOMAIN p = 1..Len(p) /\ DOMAIN q = 1..Len(q)
  BY DEF Plan
<1>2. PICK r : r = p \o q
  OBVIOUS
<1>3. /\ r \in Seq(Task) /\ Len(r) = Len(p) + Len(q)
      /\ \A i \in 1..Len(p) : r[i] = p[i]
      /\ \A i \in 1..Len(q) : r[i + Len(p)] = q[i]
  BY <1>1, <1>2
<1>4. DOMAIN r = 1..(Len(p) + Len(q))
  BY <1>1, <1>3
<1>5. ASSUME NEW i \in 1..(Len(r) - 1)
      PROVE  Follows(r[i], r[i + 1])
  <2>1. CASE i < Len(p)
    <3>1. i \in 1..(Len(p) - 1) /\ r[i] = p[i] /\ r[i + 1] = p[i + 1]
      BY <1>1, <1>3, <2>1
    <3> QED BY <3>1 DEF Plan
  <2>2. CASE i = Len(p)
    <3>1. r[i] = p[Len(p)] /\ 1 \in 1..Len(q) /\ p # <<>> /\ q # <<>>
      BY <1>1, <1>3, <2>2
    <3>2. r[1 + Len(p)] = q[1]
      BY <1>3, <3>1
    <3> QED BY <1>1, <2>2, <3>1, <3>2
  <2>3. CASE Len(p) < i
    <3>1. PICK j : j = i - Len(p)
      OBVIOUS
    <3>2. j \in 1..(Len(q) - 1) /\ j + Len(p) = i /\ (j + 1) + Len(p) = i + 1
          /\ j \in 1..Len(q) /\ j + 1 \in 1..Len(q)
      BY <1>1, <1>3, <2>3, <3>1
    <3>3. r[j + Len(p)] = q[j] /\ r[(j + 1) + Len(p)] = q[j + 1]
      BY <1>3, <3>2, Zenon
    <3>4. r[i] = q[j] /\ r[i + 1] = q[j + 1]
      BY <3>2, <3>3, Zenon
    <3> QED BY <3>2, <3>4 DEF Plan
  <2>4. i \in Int /\ Len(p) \in Int
    BY <1>1, <1>3
  <2> QED BY <2>1, <2>2, <2>3, <2>4
<1>6. ASSUME NEW i \in DOMAIN r
      PROVE  (\E j \in DOMAIN p : r[i] = p[j]) \/ (\E j \in DOMAIN q : r[i] = q[j])
  <2>1. CASE i <= Len(p)
    BY <1>1, <1>3, <1>4, <2>1
  <2>2. CASE ~(i <= Len(p))
    <3>1. PICK j : j = i - Len(p)
      OBVIOUS
    <3>2. j \in DOMAIN q /\ j + Len(p) = i
      BY <1>1, <1>4, <2>2, <3>1
    <3>3. r[j + Len(p)] = q[j]
      BY <1>1, <1>3, <3>2, Zenon
    <3> QED BY <3>2, <3>3, Zenon
  <2>3. i \in Int /\ Len(p) \in Int
    BY <1>1, <1>4
  <2> QED BY <2>1, <2>2, <2>3
<1>7. /\ \A j \in DOMAIN p : \E i \in DOMAIN r : r[i] = p[j]
      /\ \A j \in DOMAIN q : \E i \in DOMAIN r : r[i] = q[j]
  <2>1. ASSUME NEW j \in DOMAIN p PROVE \E i \in DOMAIN r : r[i] = p[j]
    BY <1>1, <1>3, <1>4
  <2>2. ASSUME NEW j \in DOMAIN q PROVE \E i \in DOMAIN r : r[i] = q[j]
    <3>1. j + Len(p) \in DOMAIN r
      BY <1>1, <1>3, <1>4
    <3>2. r[j + Len(p)] = q[j]
      BY <1>1, <1>3, Zenon
    <3> QED BY <3>1, <3>2
  <2> QED BY <2>1, <2>2
<1>8. r # <<>> => r[Len(r)].do \in Final
  <2> SUFFICES ASSUME r # <<>>
               PROVE  r[Len(r)].do \in Final
    OBVIOUS
  <2>1. CASE q = <<>>
    <3>1. Len(q) = 0 /\ p # <<>> /\ r[Len(r)] = p[Len(p)]
      BY <1>1, <1>3, <1>4, <2>1
    <3> QED BY <3>1 DEF Plan
  <2>2. CASE q # <<>>
    <3>1. Len(q) \in 1..Len(q) /\ Len(q) + Len(p) = Len(r)
      BY <1>1, <1>3, <2>2
    <3>2. r[Len(q) + Len(p)] = q[Len(q)]
      BY <1>3, <3>1, Zenon
    <3> QED BY <2>2, <3>1, <3>2 DEF Plan
  <2> QED BY <2>1, <2>2
<1>9. \A i \in DOMAIN r : /\ r[i].do \notin Early => r[i].file \in L
                          /\ r[i].do = "dlopen" => r[i].file \in Shared \ L
  <2>1. /\ \A i \in DOMAIN p : /\ p[i].do \notin Early => p[i].file \in L
                               /\ p[i].do = "dlopen" => p[i].file \in Shared \ L
        /\ \A i \in DOMAIN q : /\ q[i].do \notin Early => q[i].file \in L
                               /\ q[i].do = "dlopen" => q[i].file \in Shared \ L
    BY DEF Plan
  <2> QED BY <1>6, <2>1
<1>10. Has(r, "unload") => Has(r, "forget")
  <2>1. Has(r, "unload") => Has(p, "unload") \/ Has(q, "unload")
    BY <1>6 DEF Has
  <2>2. Has(p, "forget") \/ Has(q, "forget") => Has(r, "forget")
    BY <1>7 DEF Has
  <2> QED BY <2>1, <2>2 DEF Plan
<1> QED BY <1>1, <1>2, <1>3, <1>5, <1>8, <1>9, <1>10 DEF Plan

\* Steps with one file.
LEMMA DoProperties ==
  ASSUME NEW f \in File, NEW steps \in Seq(Steps)
  PROVE  /\ Do(f, steps) \in Seq(Task) /\ Len(Do(f, steps)) = Len(steps)
         /\ \A i \in 1..Len(steps) : Do(f, steps)[i].do = steps[i] /\ Do(f, steps)[i].file = f
<1>1. PICK p : p = Do(f, steps)
  OBVIOUS
<1>2. p = [i \in 1..Len(steps) |-> [do |-> steps[i], file |-> f]] /\ Len(steps) \in Nat
  BY <1>1 DEF Do
<1>3. \A i \in 1..Len(steps) : p[i] = [do |-> steps[i], file |-> f] /\ p[i] \in Task
  BY <1>2, TaskType
<1>4. p \in [1..Len(steps) -> Task]
  BY <1>2, <1>3
<1>5. p \in Seq(Task) /\ Len(p) = Len(steps)
  BY <1>2, <1>4
<1>6. ASSUME NEW i \in 1..Len(steps)
      PROVE  p[i].do = steps[i] /\ p[i].file = f
  <2>1. PICK d : d = steps[i]
    OBVIOUS
  <2>2. p[i] = [do |-> d, file |-> f]
    BY <1>3, <2>1
  <2> QED BY <2>1, <2>2
<1> QED BY <1>1, <1>5, <1>6

LEMMA PlanDo ==
  ASSUME NEW L, NEW f \in File, NEW steps \in Seq(Steps), steps # <<>>,
         \A i \in 1..(Len(steps) - 1) : <<steps[i], steps[i + 1]>> \in Order,
         steps[Len(steps)] \in Final,
         f \in L \/ \A i \in 1..Len(steps) : steps[i] \in Early,
         f \in Shared \ L \/ \A i \in 1..Len(steps) : steps[i] # "dlopen",
         \A i \in 1..Len(steps) :
           steps[i] = "unload" => \E j \in 1..Len(steps) : steps[j] = "forget"
  PROVE  Plan(Do(f, steps), L)
<1>1. PICK p : p = Do(f, steps)
  OBVIOUS
<1>2. p \in Seq(Task) /\ Len(p) = Len(steps) /\ Len(steps) \in Nat \ {0}
      /\ \A i \in 1..Len(steps) : p[i].do = steps[i] /\ p[i].file = f
  BY <1>1, DoProperties
<1>3. DOMAIN p = 1..Len(steps)
  BY <1>2
<1>4. \A i \in 1..(Len(p) - 1) : Follows(p[i], p[i + 1])
  BY <1>2 DEF Follows
<1>5. p[Len(p)].do \in Final
  BY <1>2
<1>6. \A i \in DOMAIN p : /\ p[i].do \notin Early => p[i].file \in L
                          /\ p[i].do = "dlopen" => p[i].file \in Shared \ L
  BY <1>2, <1>3
<1>7. Has(p, "unload") => Has(p, "forget")
  BY <1>2, <1>3 DEF Has
<1> QED BY <1>1, <1>2, <1>4, <1>5, <1>6, <1>7 DEF Plan

\* What module_load, module_unload, nsbundle_load and update_init_flag set about.
LEMMA PlansMade ==
  ASSUME NEW L, NEW f \in File
  PROVE  /\ Plan(<<>>, L)
         /\ Plan(Do(f, <<"link">>), L)
         /\ f \in Shared \ L => Plan(Do(f, <<"dlopen", "link">>), L)
         /\ f \in L => /\ Plan(Unloading(f), L)
                       /\ Plan(Do(f, <<"close", "open", "check">>), L)
                       /\ Plan(Do(f, <<"call", "on_init">>), L)
                       /\ Plan(Do(f, <<"on_unlink", "cleanup", "call", "on_init">>), L)
<1>1. Plan(<<>>, L)
  BY DEF Plan, Has
<1>2. Plan(Do(f, <<"link">>), L)
  <2>1. PICK steps : steps = <<"link">>
    OBVIOUS
  <2>2. steps \in Seq(Steps) /\ Len(steps) = 1 /\ steps[1] = "link"
    BY <2>1 DEF Steps
  <2>3. /\ \A i \in 1..Len(steps) : i = 1
        /\ ~\E i \in 1..(Len(steps) - 1) : TRUE
        /\ steps # <<>>
    BY <2>2
  <2>4. /\ \A i \in 1..Len(steps) : steps[i] \notin {"unload", "dlopen"} /\ steps[i] \in Early
        /\ steps[Len(steps)] \in Final
    BY <2>2, <2>3 DEF Final, Early
  <2> QED BY <2>1, <2>2, <2>3, <2>4, PlanDo
<1>3. ASSUME f \in Shared \ L PROVE Plan(Do(f, <<"dlopen", "link">>), L)
  <2>1. PICK steps : steps = <<"dlopen", "link">>
    OBVIOUS
  <2>2. steps \in Seq(Steps) /\ Len(steps) = 2 /\ steps[1] = "dlopen" /\ steps[2] = "link"
    BY <2>1 DEF Steps
  <2>3. /\ \A i \in 1..Len(steps) : i = 1 \/ i = 2
        /\ \A i \in 1..(Len(steps) - 1) : i = 1
    BY <2>2
  <2>4. /\ \A i \in 1..(Len(steps) - 1) : <<steps[i], steps[i + 1]>> \in Order
        /\ \A i \in 1..Len(steps) : steps[i] # "unload" /\ steps[i] \in Early
        /\ steps # <<>> /\ steps[Len(steps)] \in Final
    BY <2>2, <2>3 DEF Order, Final, Early
  <2> QED BY <1>3, <2>1, <2>2, <2>4, PlanDo
<1>4. ASSUME f \in L PROVE Plan(Unloading(f), L)
  <2>1. PICK steps :
          steps = <<"on_unlink", "cleanup", "unload", "close", "open", "forget", "check">>
    OBVIOUS
  <2>2. steps \in Seq(Steps) /\ Len(steps) = 7
        /\ steps[1] = "on_unlink" /\ steps[2] = "cleanup" /\ steps[3] = "unload"
        /\ steps[4] = "close" /\ steps[5] = "open" /\ steps[6] = "forget" /\ steps[7] = "check"
    BY <2>1 DEF Steps, Hook
  <2>3. \A i \in 1..(Len(steps) - 1) : <<steps[i], steps[i + 1]>> \in Order
    BY <2>2 DEF Order
  <2>4. /\ \E j \in 1..Len(steps) : steps[j] = "forget"
        /\ \A j \in 1..Len(steps) : steps[j] # "dlopen"
    BY <2>2
  <2>5. steps # <<>> /\ steps[Len(steps)] \in Final
    BY <2>2 DEF Final
  <2>6. Plan(Do(f, steps), L)
    BY <1>4, <2>2, <2>3, <2>4, <2>5, PlanDo
  <2> QED BY <2>1, <2>6 DEF Unloading
<1>5. ASSUME f \in L PROVE Plan(Do(f, <<"close", "open", "check">>), L)
  <2>1. PICK steps : steps = <<"close", "open", "check">>
    OBVIOUS
  <2>2. steps \in Seq(Steps) /\ Len(steps) = 3
        /\ steps[1] = "close" /\ steps[2] = "open" /\ steps[3] = "check"
    BY <2>1 DEF Steps
  <2>3. /\ \A i \in 1..(Len(steps) - 1) : <<steps[i], steps[i + 1]>> \in Order
        /\ \A i \in 1..Len(steps) : steps[i] \notin {"unload", "dlopen"}
        /\ steps # <<>> /\ steps[Len(steps)] \in Final
    BY <2>2 DEF Order, Final
  <2> QED BY <1>5, <2>1, <2>2, <2>3, PlanDo
<1>6. ASSUME f \in L PROVE Plan(Do(f, <<"call", "on_init">>), L)
  <2>1. PICK steps : steps = <<"call", "on_init">>
    OBVIOUS
  <2>2. steps \in Seq(Steps) /\ Len(steps) = 2 /\ steps[1] = "call" /\ steps[2] = "on_init"
    BY <2>1 DEF Steps, Hook
  <2>3. /\ \A i \in 1..(Len(steps) - 1) : <<steps[i], steps[i + 1]>> \in Order
        /\ \A i \in 1..Len(steps) : steps[i] \notin {"unload", "dlopen"}
        /\ steps # <<>> /\ steps[Len(steps)] \in Final
    BY <2>2 DEF Order, Final
  <2> QED BY <1>6, <2>1, <2>2, <2>3, PlanDo
<1>7. ASSUME f \in L PROVE Plan(Do(f, <<"on_unlink", "cleanup", "call", "on_init">>), L)
  <2>1. PICK steps : steps = <<"on_unlink", "cleanup", "call", "on_init">>
    OBVIOUS
  <2>2. steps \in Seq(Steps) /\ Len(steps) = 4
        /\ steps[1] = "on_unlink" /\ steps[2] = "cleanup" /\ steps[3] = "call" /\ steps[4] = "on_init"
    BY <2>1 DEF Steps, Hook
  <2>3. /\ \A i \in 1..(Len(steps) - 1) : <<steps[i], steps[i + 1]>> \in Order
        /\ \A i \in 1..Len(steps) : steps[i] \notin {"unload", "dlopen"}
        /\ steps # <<>> /\ steps[Len(steps)] \in Final
    BY <2>2 DEF Order, Final
  <2> QED BY <1>7, <2>1, <2>2, <2>3, PlanDo
<1> QED BY <1>1, <1>2, <1>3, <1>4, <1>5, <1>6, <1>7

\* What check_exec sets about: every module has its flag updated.
LEMMA CheckPlan ==
  ASSUME NEW L, modules \in Seq(File), Loaded \subseteq L
  PROVE  /\ Plan(CheckExec, L) /\ Plan(CheckInit, L)
         /\ CheckExec # <<>> => CheckInit # <<>>
         /\ \A i \in 1..Len(CheckExec) : CheckExec[i].do \in {"exec", "on_exec"}
         /\ CheckExec # <<>> => CheckExec[1].do = "exec" /\ CheckExec[Len(CheckExec)].do = "on_exec"
         /\ \A i \in 1..Len(CheckInit) : CheckInit[i].do = "init"
         /\ \A f \in Loaded : \E i \in 1..Len(CheckExec) :
              CheckExec[i].do = "exec" /\ CheckExec[i].file = f
<1> DEFINE n == Len(modules)
<1>1. /\ n \in Nat /\ DOMAIN modules = 1..n
      /\ \A i \in 1..n : modules[i] \in File /\ modules[i] \in L
  BY DEF Loaded
<1>2. PICK p : p = CheckExec
  OBVIOUS
<1>3. PICK q : q = CheckInit
  OBVIOUS
<1> HIDE DEF n
<1>4. p = [i \in 1..(2 * n) |-> [do |-> IF i % 2 = 1 THEN "exec" ELSE "on_exec",
                                 file |-> modules[(i + 1) \div 2]]]
  BY <1>2 DEF CheckExec, n
<1>5. q = [i \in 1..n |-> [do |-> "init", file |-> modules[i]]]
  BY <1>1, <1>3 DEF CheckInit, n
<1>6. \A i \in 1..(2 * n) :
        /\ p[i] = [do |-> IF i % 2 = 1 THEN "exec" ELSE "on_exec", file |-> modules[(i + 1) \div 2]]
        /\ (i + 1) \div 2 \in 1..n
  BY <1>1, <1>4
<1>7. \A i \in 1..(2 * n) :
        /\ p[i].do = IF i % 2 = 1 THEN "exec" ELSE "on_exec"
        /\ p[i].file = modules[(i + 1) \div 2]
        /\ p[i].file \in L /\ p[i] \in Task
  <2> SUFFICES ASSUME NEW i \in 1..(2 * n)
               PROVE  /\ p[i].do = IF i % 2 = 1 THEN "exec" ELSE "on_exec"
                      /\ p[i].file = modules[(i + 1) \div 2]
                      /\ p[i].file \in L /\ p[i] \in Task
    OBVIOUS
  <2>1. PICK g, d : g = modules[(i + 1) \div 2] /\ d = IF i % 2 = 1 THEN "exec" ELSE "on_exec"
    OBVIOUS
  <2>2. g \in File /\ g \in L
    BY <1>1, <1>6, <2>1
  <2>3. d \in Steps
    BY <2>1 DEF Steps, Hook
  <2>4. p[i] = [do |-> d, file |-> g]
    BY <1>6, <2>1
  <2> QED BY <2>1, <2>2, <2>3, <2>4, TaskType
<1>8. p \in Seq(Task) /\ Len(p) = 2 * n /\ DOMAIN p = 1..(2 * n)
  <2>1. 2 * n \in Nat
    BY <1>1
  <2>2. p \in [1..(2 * n) -> Task]
    BY <1>4, <1>7
  <2> QED BY <2>1, <2>2
<1>9. \A i \in 1..n : q[i] = [do |-> "init", file |-> modules[i]] /\ q[i] \in Task /\ q[i].file \in L
  BY <1>1, <1>5, TaskType DEF Steps
<1>10. q \in Seq(Task) /\ Len(q) = n /\ DOMAIN q = 1..n
  <2>1. q \in [1..n -> Task]
    BY <1>5, <1>9
  <2> QED BY <1>1, <2>1
<1>11. ASSUME NEW i \in 1..(2 * n - 1)
       PROVE  Follows(p[i], p[i + 1])
  <2>1. i \in 1..(2 * n) /\ i + 1 \in 1..(2 * n)
    BY <1>1
  <2>2. CASE i % 2 = 1
    <3>1. (i + 1) % 2 # 1 /\ ((i + 1) + 1) \div 2 = (i + 1) \div 2
      BY <1>1, <2>1, <2>2
    <3>2. p[i].do = "exec" /\ p[i + 1].do = "on_exec" /\ p[i + 1].file = p[i].file
      BY <1>7, <2>1, <2>2, <3>1
    <3> QED BY <3>2 DEF Follows, Order
  <2>3. CASE i % 2 # 1
    <3>1. (i + 1) % 2 = 1
      BY <1>1, <2>1, <2>3
    <3>2. p[i].do = "on_exec" /\ p[i + 1].do = "exec"
      BY <1>7, <2>1, <2>3, <3>1
    <3> QED BY <3>2 DEF Follows, Order, Final
  <2> QED BY <2>2, <2>3
<1>12. p # <<>> => p[1].do = "exec" /\ p[Len(p)].do = "on_exec"
  <2> SUFFICES ASSUME p # <<>>
               PROVE  p[1].do = "exec" /\ p[Len(p)].do = "on_exec"
    OBVIOUS
  <2>1. 1 \in 1..(2 * n) /\ 2 * n \in 1..(2 * n) /\ 1 % 2 = 1 /\ (2 * n) % 2 # 1
    BY <1>1, <1>8
  <2> QED BY <1>7, <1>8, <2>1
<1>13. Plan(p, L)
  <2>1. p # <<>> => p[Len(p)].do \in Final
    BY <1>12 DEF Final
  <2>2. ~Has(p, "unload") /\ \A i \in DOMAIN p : p[i].do # "dlopen"
    BY <1>7, <1>8 DEF Has
  <2> QED BY <1>7, <1>8, <1>11, <2>1, <2>2 DEF Plan
<1>14. Plan(q, L)
  <2>1. ASSUME NEW i \in 1..n PROVE q[i].do = "init"
    <3>1. PICK g : g = modules[i]
      OBVIOUS
    <3>2. q[i] = [do |-> "init", file |-> g]
      BY <1>9, <3>1
    <3> QED BY <3>2
  <2>2. \A i \in 1..(n - 1) : i \in 1..n /\ i + 1 \in 1..n
    BY <1>1
  <2>3. \A i \in 1..(n - 1) : Follows(q[i], q[i + 1])
    BY <2>1, <2>2 DEF Follows, Order, Final
  <2>4. q # <<>> => q[Len(q)].do \in Final
    BY <1>1, <1>10, <2>1 DEF Final
  <2>5. ~Has(q, "unload")
    BY <1>10, <2>1 DEF Has
  <2> QED BY <1>9, <1>10, <2>3, <2>4, <2>5 DEF Plan
<1>15. ASSUME NEW f \in Loaded
       PROVE  \E i \in 1..Len(p) : p[i].do = "exec" /\ p[i].file = f
  <2>1. PICK k \in 1..n : modules[k] = f
    BY <1>1 DEF Loaded
  <2>2. PICK i : i = 2 * k - 1
    OBVIOUS
  <2>3. i \in 1..(2 * n) /\ i % 2 = 1 /\ (i + 1) \div 2 = k
    BY <1>1, <2>2
  <2> QED BY <1>7, <1>8, <2>1, <2>3
<1>16. \A i \in 1..Len(p) : p[i].do \in {"exec", "on_exec"}
  BY <1>7, <1>8
<1>17. \A i \in 1..Len(q) : q[i].do = "init"
  BY <1>9, <1>10
<1>18. p # <<>> => q # <<>>
  BY <1>1, <1>8, <1>10
<1> QED BY <1>2, <1>3, <1>12, <1>13, <1>14, <1>15, <1>16, <1>17, <1>18

-----------------------------------------------------------------------------
(* Types, and what is left to do.                                          *)

TodoInv == Plan(todo, Loaded)

\* A pointer into a module is one of a primitive or class.
PointersDefined == \A f \in File : info[f] # "none" => f \in defs

LEMMA TaskInProgress ==
  ASSUME TodoInv, todo # <<>>
  PROVE  /\ This \in File /\ todo[1].do \in Steps
         /\ todo[1].do \notin Early => This \in Loaded
         /\ todo[1].do = "dlopen" => This \in Shared \ Loaded
         /\ Len(todo) \in Nat \ {0} /\ DOMAIN todo = 1..Len(todo)
         /\ todo[1] \in Task
<1>1. todo \in Seq(Task) /\ Len(todo) \in Nat \ {0} /\ DOMAIN todo = 1..Len(todo)
  BY DEF TodoInv, Plan
<1>2. todo[1] \in Task /\ 1 \in DOMAIN todo
  BY <1>1
<1> QED BY <1>1, <1>2, TaskType DEF TodoInv, Plan, This

LEMMA StepDone ==
  ASSUME TodoInv, todo # <<>>, todo' = Tail(todo), modules' = modules
  PROVE  TodoInv'
<1>1. Loaded' = Loaded
  BY DEF Loaded
<1>2. Plan(Tail(todo), Loaded)
  BY PlanTail DEF TodoInv
<1> QED BY <1>1, <1>2 DEF TodoInv

LEMMA ModuleForgotten ==
  ASSUME modules \in Seq(File), Forget
  PROVE  modules' \in Seq(File) /\ Loaded' \subseteq Loaded /\ Loaded \ {This} \subseteq Loaded'
<1>1. PICK i \in DOMAIN modules : modules[i] = This /\ modules' = RemoveAt(modules, i)
  BY DEF Forget
<1>2. PICK m : m = modules'
  OBVIOUS
<1>3. /\ m \in Seq(File) /\ Len(m) = Len(modules) - 1
      /\ \A j \in 1..(Len(modules) - 1) : m[j] = IF j < i THEN modules[j] ELSE modules[j + 1]
  BY <1>1, <1>2, RemoveAtProperties
<1>4. Len(modules) \in Nat /\ DOMAIN modules = 1..Len(modules) /\ DOMAIN m = 1..(Len(modules) - 1)
  BY <1>3
<1>5. \A j \in DOMAIN m : m[j] \in Loaded
  BY <1>1, <1>3, <1>4 DEF Loaded
<1>6. ASSUME NEW k \in DOMAIN modules, modules[k] # This
      PROVE  \E j \in DOMAIN m : m[j] = modules[k]
  <2>1. CASE k < i
    <3>1. k \in DOMAIN m /\ m[k] = modules[k]
      BY <1>1, <1>3, <1>4, <2>1
    <3> QED BY <3>1
  <2>2. CASE ~(k < i)
    <3>1. k # i
      BY <1>1, <1>6
    <3>2. k - 1 \in DOMAIN m /\ ~(k - 1 < i) /\ (k - 1) + 1 = k
      BY <1>1, <1>4, <2>2, <3>1
    <3>3. m[k - 1] = modules[k]
      BY <1>3, <1>4, <3>2
    <3> QED BY <3>2, <3>3
  <2> QED BY <2>1, <2>2
<1>7. Loaded' = {m[j] : j \in DOMAIN m}
  BY <1>2 DEF Loaded
<1> QED BY <1>2, <1>3, <1>5, <1>6, <1>7 DEF Loaded

LEMMA ModuleLinked ==
  ASSUME modules \in Seq(File), This \in File, modules' = Append(modules, This)
  PROVE  modules' \in Seq(File) /\ Loaded' = Loaded \cup {This}
<1>1. PICK m : m = modules'
  OBVIOUS
<1>2. /\ m \in Seq(File) /\ Len(m) = Len(modules) + 1 /\ Len(modules) \in Nat
      /\ \A i \in 1..Len(modules) : m[i] = modules[i]
      /\ m[Len(modules) + 1] = This
  BY <1>1
<1>3. DOMAIN modules = 1..Len(modules) /\ DOMAIN m = 1..(Len(modules) + 1)
  BY <1>2
<1>4. Loaded' = {m[j] : j \in DOMAIN m}
  BY <1>1 DEF Loaded
<1>5. \A j \in DOMAIN m : m[j] \in Loaded \cup {This}
  <2> SUFFICES ASSUME NEW j \in DOMAIN m, j # Len(modules) + 1
               PROVE  m[j] \in Loaded
    BY <1>2
  <2>1. j \in DOMAIN modules /\ m[j] = modules[j]
    BY <1>2, <1>3
  <2> QED BY <2>1 DEF Loaded
<1>6. \A j \in DOMAIN modules : j \in DOMAIN m /\ m[j] = modules[j]
  BY <1>2, <1>3
<1>7. Len(modules) + 1 \in DOMAIN m
  BY <1>2, <1>3
<1> QED BY <1>1, <1>2, <1>4, <1>5, <1>6, <1>7 DEF Loaded

LEMMA NothingLeft ==
  ASSUME todo' = <<>>
  PROVE  TodoInv'
BY PlansMade, ModulesAssumption DEF TodoInv, Plan, Has

LEMMA TodoKept ==
  ASSUME TypeOK, TodoInv, [Next]_vars
  PROVE  TodoInv'
<1>1. ASSUME NEW f \in File, module_load(f) PROVE TodoInv'
  <2>1. Loaded' = Loaded
    BY <1>1 DEF module_load, Loaded
  <2>2. CASE f \in Shared
    BY <1>1, <2>1, <2>2, PlansMade DEF module_load, TodoInv
  <2>3. CASE f \notin Shared /\ f \notin Loaded
    <3>1. PICK p : p = Do(f, <<"link">>)
      OBVIOUS
    <3>2. todo' = <<>> \o p
      BY <1>1, <2>3, <3>1 DEF module_load
    <3>3. Plan(p, Loaded) /\ Plan(<<>>, Loaded)
      BY <3>1, PlansMade
    <3>4. Plan(<<>> \o p, Loaded)
      BY <3>3, PlanJoin
    <3> QED BY <2>1, <3>2, <3>4 DEF TodoInv
  <2>4. CASE f \notin Shared /\ f \in Loaded
    <3>1. PICK p, q : p = Unloading(f) /\ q = Do(f, <<"link">>)
      OBVIOUS
    <3>2. todo' = p \o q
      BY <1>1, <2>4, <3>1 DEF module_load
    <3>3. Plan(p, Loaded) /\ Plan(q, Loaded)
      BY <2>4, <3>1, PlansMade
    <3>4. Len(p) = 7 /\ p[7].do = "check"
      <4>1. PICK steps :
              steps = <<"on_unlink", "cleanup", "unload", "close", "open", "forget", "check">>
        OBVIOUS
      <4>2. steps \in Seq(Steps) /\ Len(steps) = 7 /\ steps[7] = "check"
        BY <4>1 DEF Steps, Hook
      <4>3. Len(Do(f, steps)) = 7 /\ Do(f, steps)[7].do = "check"
        BY <4>2, DoProperties
      <4> QED BY <3>1, <4>1, <4>3 DEF Unloading
    <3>5. q[1].do = "link"
      <4>1. PICK steps : steps = <<"link">>
        OBVIOUS
      <4>2. steps \in Seq(Steps) /\ Len(steps) = 1 /\ steps[1] = "link"
        BY <4>1 DEF Steps
      <4>3. Do(f, steps)[1].do = "link"
        BY <4>2, DoProperties
      <4> QED BY <3>1, <4>1, <4>3
    <3>6. Follows(p[Len(p)], q[1])
      BY <3>4, <3>5 DEF Follows, Order, Final
    <3>7. Plan(p \o q, Loaded)
      BY <3>3, <3>6, PlanJoin
    <3> QED BY <2>1, <3>2, <3>7 DEF TodoInv
  <2> QED BY <2>2, <2>3, <2>4
<1>2. ASSUME NEW f \in File, module_unload(f) PROVE TodoInv'
  <2>1. Loaded' = Loaded /\ f \in Loaded /\ todo' = Unloading(f)
    BY <1>2 DEF module_unload, Loaded, Bundles
  <2> QED BY <2>1, PlansMade DEF TodoInv
<1>3. ASSUME todo' = todo, modules' = modules PROVE TodoInv'
  BY <1>3 DEF TodoInv, Loaded
<1>4. ASSUME NEW f \in File, New(f) \/ Drop(f) \/ CloseOne(f) \/ OpenOne(f) PROVE TodoInv'
  BY <1>3, <1>4 DEF New, Drop, CloseOne, OpenOne
<1>5. ASSUME Link PROVE TodoInv'
  <2>1. This \in File
    BY <1>5, TaskInProgress DEF Link, Doing
  <2>2. This \in Loaded'
    BY <1>5, <2>1, ModuleLinked DEF Link, TypeOK
  <2>3. Plan(Do(This, <<"close", "open", "check">>), Loaded')
    BY <2>1, <2>2, PlansMade
  <2> QED BY <1>5, <2>3 DEF Link, TodoInv
<1>6. ASSUME LinkLibrary PROVE TodoInv'
  <2>1. This \in File
    BY <1>6, TaskInProgress DEF LinkLibrary, Doing
  <2>2. CASE todo' = <<>>
    BY <2>2, NothingLeft
  <2>3. CASE modules' = Append(modules, This) /\ todo' = Do(This, <<"close", "open", "check">>)
    <3>1. This \in Loaded'
      BY <2>1, <2>3, ModuleLinked DEF TypeOK
    <3>2. Plan(Do(This, <<"close", "open", "check">>), Loaded')
      BY <2>1, <3>1, PlansMade
    <3> QED BY <2>3, <3>2 DEF TodoInv
  <2> QED BY <1>6, <2>2, <2>3 DEF LinkLibrary, Abandon
<1>7. ASSUME LinkDuplicate \/ LinkCircular \/ HookFails PROVE TodoInv'
  BY <1>7, NothingLeft DEF LinkDuplicate, LinkCircular, HookFails, Abandon
<1>8. ASSUME OpenLibrary \/ Cleanup \/ Updated \/ UpdateExec \/ CallInit \/ HookReturns
      PROVE  TodoInv'
  <2>1. todo # <<>> /\ todo' = Tail(todo) /\ modules' = modules
    BY <1>8 DEF OpenLibrary, Cleanup, Updated, UpdateExec, CallInit, HookReturns, Doing
  <2> QED BY <2>1, StepDone
<1>9. ASSUME Unload PROVE TodoInv'
  <2>1. CASE todo' = <<>>
    BY <2>1, NothingLeft
  <2>2. CASE todo' = Tail(todo)
    BY <1>9, <2>2, StepDone DEF Unload, Doing
  <2> QED BY <1>9, <2>1, <2>2 DEF Unload, Abandon
<1>10. ASSUME Forget PROVE TodoInv'
  <2>1. todo # <<>> /\ todo[1].do = "forget" /\ todo' = Tail(todo)
    BY <1>10 DEF Forget, Doing
  <2>2. PICK q : q = Tail(todo)
    OBVIOUS
  <2>3. /\ Plan(q, Loaded) /\ Len(todo) \in Nat \ {0} /\ Len(q) = Len(todo) - 1
        /\ q # <<>> => Follows(todo[1], q[1])
    BY <2>1, <2>2, PlanTail DEF TodoInv
  <2>4. q \in Seq(Task) /\ DOMAIN q = 1..Len(q)
    BY <2>3 DEF Plan
  <2>5. \A i \in 1..Len(q) : q[i].do \in {"check", "link"}
    <3>1. 1 \in 1..Len(q) => q[1].do = "check"
      BY <2>1, <2>3, <2>4 DEF Follows, Order
    <3>2. 2 \in 1..Len(q) => q[2].do = "link"
      <4> SUFFICES ASSUME 2 \in 1..Len(q)
                   PROVE  q[2].do = "link"
        OBVIOUS
      <4>1. Follows(q[1], q[1 + 1]) /\ 1 \in 1..Len(q)
        BY <2>3 DEF Plan
      <4> QED BY <3>1, <4>1 DEF Follows, Order
    <3>3. 3 \notin 1..Len(q)
      <4> SUFFICES ASSUME 3 \in 1..Len(q)
                   PROVE  FALSE
        OBVIOUS
      <4>1. Follows(q[2], q[2 + 1]) /\ 2 \in 1..Len(q)
        BY <2>3 DEF Plan
      <4> QED BY <3>2, <4>1 DEF Follows, Order
    <3> QED BY <2>3, <3>1, <3>2, <3>3
  <2>6. Plan(q, Loaded')
    BY <2>3, <2>4, <2>5 DEF Plan, Early
  <2> QED BY <2>1, <2>2, <2>6 DEF TodoInv
<1>11. ASSUME Check PROVE TodoInv'
  <2>1. PICK p, q, r : p = CheckExec /\ q = CheckInit /\ r = Tail(todo)
    OBVIOUS
  <2>2. todo # <<>> /\ todo[1].do = "check" /\ todo' = p \o q \o r /\ Loaded' = Loaded
    BY <1>11, <2>1 DEF Check, Doing, Loaded
  <2>3. /\ Plan(p, Loaded) /\ Plan(q, Loaded) /\ (p # <<>> => q # <<>>)
        /\ p # <<>> => p[Len(p)].do = "on_exec"
        /\ \A i \in 1..Len(q) : q[i].do = "init"
    BY <2>1, CheckPlan DEF TypeOK
  <2>4. Plan(r, Loaded) /\ (r # <<>> => r[1].do = "link")
    BY <2>1, <2>2, PlanTail DEF TodoInv, Follows, Order
  <2>5. q # <<>> => 1 \in 1..Len(q) /\ Len(q) \in 1..Len(q) /\ q[1].do = "init" /\ q[Len(q)].do = "init"
    BY <2>3 DEF Plan
  <2>6. p # <<>> /\ q # <<>> => Follows(p[Len(p)], q[1])
    BY <2>3, <2>5 DEF Follows, Order, Final
  <2>7. PICK s : s = p \o q
    OBVIOUS
  <2>8. /\ Plan(s, Loaded) /\ Len(s) = Len(p) + Len(q) /\ Len(p) \in Nat /\ Len(q) \in Nat
        /\ \A i \in 1..Len(q) : s[i + Len(p)] = q[i]
    <3>1. /\ Plan(p \o q, Loaded) /\ Len(p \o q) = Len(p) + Len(q)
          /\ Len(p) \in Nat /\ Len(q) \in Nat
      BY <2>3, <2>6, PlanJoin
    <3>2. \A i \in 1..Len(q) : (p \o q)[i + Len(p)] = q[i]
      BY <2>3, <2>6, PlanJoin
    <3> QED BY <2>7, <3>1, <3>2
  <2>9. s # <<>> => q # <<>> /\ s[Len(s)].do = "init"
    <3> SUFFICES ASSUME s # <<>>
                 PROVE  q # <<>> /\ s[Len(s)].do = "init"
      OBVIOUS
    <3>1. q # <<>>
      <4>1. p \in Seq(Task)
        BY <2>3 DEF Plan
      <4> QED BY <2>3, <2>7, <4>1
    <3>2. Len(s) = Len(q) + Len(p) /\ Len(q) \in 1..Len(q)
      BY <2>5, <2>8, <3>1
    <3> QED BY <2>5, <2>8, <3>1, <3>2
  <2>10. s # <<>> /\ r # <<>> => Follows(s[Len(s)], r[1])
    BY <2>4, <2>9 DEF Follows, Order, Final
  <2>11. Plan(s \o r, Loaded)
    BY <2>4, <2>8, <2>10, PlanJoin
  <2> QED BY <2>2, <2>7, <2>11 DEF TodoInv
<1>12. ASSUME UpdateInit PROVE TodoInv'
  <2>1. PICK r : r = Tail(todo)
    OBVIOUS
  <2>2. todo # <<>> /\ todo[1].do = "init" /\ Loaded' = Loaded
    BY <1>12 DEF UpdateInit, Doing, Loaded
  <2>3. Plan(r, Loaded) /\ (r # <<>> => r[1].do \in {"init", "link"})
    BY <2>1, <2>2, PlanTail DEF TodoInv, Follows, Order
  <2>4. This \in File /\ This \in Loaded
    BY <2>2, TaskInProgress DEF Early
  <2>5. PICK p :
          /\ todo' = p \o r
          /\ \/ p = <<>>
             \/ p = Do(This, <<"on_unlink", "cleanup", "call", "on_init">>)
             \/ p = Do(This, <<"call", "on_init">>)
    BY <1>12, <2>1 DEF UpdateInit
  <2>6. Plan(p, Loaded)
    BY <2>4, <2>5, PlansMade
  <2>7. p = <<>> \/ p[Len(p)].do = "on_init"
    <3>1. PICK s2, s4 : /\ s4 = <<"on_unlink", "cleanup", "call", "on_init">>
                        /\ s2 = <<"call", "on_init">>
      OBVIOUS
    <3>2. /\ s4 \in Seq(Steps) /\ Len(s4) = 4 /\ s4[4] = "on_init"
          /\ s2 \in Seq(Steps) /\ Len(s2) = 2 /\ s2[2] = "on_init"
      BY <3>1 DEF Steps, Hook
    <3>3. /\ Len(Do(This, s4)) = 4 /\ Do(This, s4)[4].do = "on_init"
          /\ Len(Do(This, s2)) = 2 /\ Do(This, s2)[2].do = "on_init"
      BY <2>4, <3>2, DoProperties
    <3> QED BY <2>5, <3>1, <3>3
  <2>8. p # <<>> /\ r # <<>> => Follows(p[Len(p)], r[1])
    BY <2>3, <2>7 DEF Follows, Order, Final
  <2>9. Plan(p \o r, Loaded)
    BY <2>3, <2>6, <2>8, PlanJoin
  <2> QED BY <2>2, <2>5, <2>9 DEF TodoInv
<1> QED BY <1>1, <1>2, <1>3, <1>4, <1>5, <1>6, <1>7, <1>8, <1>9, <1>10, <1>11, <1>12
        DEF Next, vars

LEMMA RankType ==
  ASSUME NEW S, NEW T \in SUBSET File
  PROVE  Ranks(S, T) \in [File -> -1..(Cardinality(File) - 1)]
BY RanksProperties

LEMMA BundlesType ==
  ASSUME TypeOK
  PROVE  Loaded \in SUBSET File /\ Bundles \in SUBSET File
BY DEF TypeOK, Loaded, Bundles

LEMMA TypesKept ==
  ASSUME TypeOK, PointersDefined, TodoInv, [Next]_vars
  PROVE  TypeOK' /\ PointersDefined'
<1>1. todo' \in Seq(Task)
  BY TodoKept DEF TodoInv, Plan
<1>2. Loaded \in SUBSET File /\ Bundles \in SUBSET File
  BY BundlesType
<1>3. todo # <<>> => This \in File /\ (todo[1].do \notin Early => This \in Loaded)
  BY TaskInProgress
<1>4. ASSUME modules' = modules
      PROVE  Loaded' = Loaded
  BY <1>4 DEF Loaded
<1>5. ASSUME NEW f \in File, module_load(f) \/ module_unload(f)
      PROVE  TypeOK' /\ PointersDefined'
  BY <1>1, <1>4, <1>5 DEF module_load, module_unload, TypeOK, PointersDefined, bundles, flags
<1>6. ASSUME NEW f \in File, New(f)
      PROVE  TypeOK' /\ PointersDefined'
  <2>1. f \in defs
    BY <1>6 DEF New, check_primitive, PointersDefined
  <2> QED BY <1>1, <1>4, <1>6, <2>1 DEF New, TypeOK, PointersDefined, bundles
<1>7. ASSUME NEW f \in File, Drop(f)
      PROVE  TypeOK' /\ PointersDefined'
  BY <1>1, <1>4, <1>7 DEF Drop, TypeOK, PointersDefined, bundles
<1>8. ASSUME NEW f \in File, CloseOne(f)
      PROVE  TypeOK' /\ PointersDefined'
  <2>1. info' \in [File -> {"none", "code", "dangling"}]
        /\ \A g \in File : info'[g] # "none" => info[g] # "none"
    BY <1>8 DEF CloseOne, TypeOK
  <2> QED BY <1>1, <1>4, <1>8, <2>1 DEF CloseOne, TypeOK, PointersDefined, flags
<1>9. ASSUME NEW f \in File, OpenOne(f)
      PROVE  TypeOK' /\ PointersDefined'
  <2>1. f \in Bundles /\ 0 <= executable[f]
    BY <1>9 DEF OpenOne, Opens, ToOpen
  <2>2. executable[f] \in 0..(Cardinality(File) - 1)
    BY <2>1, SizeType DEF TypeOK
  <2>3. loadrank' \in [File -> 0..(Cardinality(File) - 1)]
    BY <1>9, <2>2 DEF OpenOne, TypeOK
  <2>4. dlmodule' \subseteq File \ Shared
    BY <1>2, <1>9, <2>1 DEF OpenOne, TypeOK, Bundles
  <2> QED BY <1>1, <1>4, <1>9, <2>3, <2>4 DEF OpenOne, TypeOK, PointersDefined, flags
<1>10. ASSUME Link
       PROVE  TypeOK' /\ PointersDefined'
  <2>1. This \in File
    BY <1>3, <1>10 DEF Link, Doing
  <2>2. modules' \in Seq(File) /\ Loaded' = Loaded \cup {This}
    BY <1>10, <2>1, ModuleLinked DEF Link, TypeOK
  <2>3. Bundles \cup {This} \in SUBSET File
    BY <1>2, <2>1
  <2>4. executable' \in [File -> -1..(Cardinality(File) - 1)]
    BY <1>10, <2>3, RankType DEF Link
  <2> QED BY <1>1, <1>10, <2>2, <2>4 DEF Link, TypeOK, PointersDefined, flags
<1>11. ASSUME LinkDuplicate \/ HookReturns \/ HookFails \/ Updated \/ Check \/ UpdateInit
       PROVE  TypeOK' /\ PointersDefined'
  <2>1. CASE Check
    <3>1. named' \subseteq Loaded \cap Initial
      BY <2>1 DEF Check, FindsInit, TypeOK
    <3> QED BY <1>1, <1>4, <2>1, <3>1 DEF Check, TypeOK, PointersDefined, bundles
  <2>2. CASE LinkDuplicate \/ HookReturns \/ HookFails \/ Updated \/ UpdateInit
    BY <1>1, <1>4, <2>2 DEF LinkDuplicate, HookReturns, HookFails, Updated, UpdateInit,
       TypeOK, PointersDefined, bundles, flags
  <2> QED BY <1>11, <2>1, <2>2
<1>12. ASSUME LinkCircular
       PROVE  TypeOK' /\ PointersDefined'
  <2>1. This \in File
    BY <1>3, <1>12 DEF LinkCircular, Doing
  <2>2. Bundles \cup {This} \in SUBSET File
    BY <1>2, <2>1
  <2>3. PICK r : r = Ranks(Bundles \cup {This}, Bundles \cup {This})
    OBVIOUS
  <2>4. r \in [File -> -1..(Cardinality(File) - 1)] /\ executable' = [r EXCEPT ![This] = -1]
    BY <1>12, <2>2, <2>3, RankType DEF LinkCircular
  <2>5. executable' \in [File -> -1..(Cardinality(File) - 1)]
    <3>1. -1 \in -1..(Cardinality(File) - 1)
      BY SizeType
    <3> QED BY <2>4, <3>1
  <2> QED BY <1>1, <1>4, <1>12, <2>5 DEF LinkCircular, TypeOK, PointersDefined, flags
<1>13. ASSUME OpenLibrary
       PROVE  TypeOK' /\ PointersDefined'
  <2>1. This \in Shared
    BY <1>13, TaskInProgress DEF OpenLibrary, Doing
  <2> QED BY <1>1, <1>4, <1>13, <2>1 DEF OpenLibrary, TypeOK, PointersDefined, bundles, flags
<1>14. ASSUME LinkLibrary
       PROVE  TypeOK' /\ PointersDefined'
  <2>1. This \in File
    BY <1>3, <1>14 DEF LinkLibrary, Doing
  <2>2. executable' \in [File -> -1..(Cardinality(File) - 1)]
    BY <1>2, <1>14, RankType DEF LinkLibrary
  <2>3. modules' \in Seq(File) /\ Loaded \subseteq Loaded'
    BY <1>4, <1>14, <2>1, ModuleLinked DEF LinkLibrary, TypeOK
  <2> QED BY <1>1, <1>14, <2>2, <2>3 DEF LinkLibrary, TypeOK, PointersDefined, flags
<1>15. ASSUME Cleanup
       PROVE  TypeOK' /\ PointersDefined'
  <2>1. executable' \in [File -> -1..(Cardinality(File) - 1)]
    BY <1>2, <1>15, RankType DEF Cleanup
  <2>2. info' \in [File -> {"none", "code", "dangling"}]
        /\ \A g \in File : info'[g] # "none" => g # This /\ info[g] # "none"
    BY <1>15 DEF Cleanup, TypeOK
  <2>3. instances' \subseteq defs'
    <3>1. This \in defs => This \in Dependents(This)
      BY DEF Dependents
    <3> QED BY <1>15, <3>1 DEF Cleanup, TypeOK
  <2> QED BY <1>1, <1>4, <1>15, <2>1, <2>2, <2>3 DEF Cleanup, TypeOK, PointersDefined
<1>16. ASSUME Unload
       PROVE  TypeOK' /\ PointersDefined'
  <2>1. Bundles \ {This} \in SUBSET File
    BY <1>2
  <2>2. executable' \in [File -> -1..(Cardinality(File) - 1)]
    BY <1>16, <2>1, RankType DEF Unload
  <2> QED BY <1>1, <1>4, <1>16, <2>2 DEF Unload, TypeOK, PointersDefined, flags
<1>17. ASSUME Forget
       PROVE  TypeOK' /\ PointersDefined'
  <2>1. modules' \in Seq(File) /\ Loaded' \subseteq Loaded /\ Loaded \ {This} \subseteq Loaded'
    BY <1>17, ModuleForgotten DEF TypeOK
  <2>2. executable' \in [File -> -1..(Cardinality(File) - 1)]
    <3>1. executable \in [File -> -1..(Cardinality(File) - 1)]
      BY DEF TypeOK
    <3>2. executable' = [executable EXCEPT ![This] = -1]
      BY <1>17 DEF Forget
    <3>3. -1 \in -1..(Cardinality(File) - 1)
      BY SizeType
    <3> QED BY <3>1, <3>2, <3>3
  <2> QED BY <1>1, <1>17, <2>1, <2>2 DEF Forget, TypeOK, PointersDefined
<1>18. ASSUME UpdateExec
       PROVE  TypeOK' /\ PointersDefined'
  <2>1. This \in File /\ This \in Loaded
    BY <1>3, <1>18 DEF UpdateExec, Doing, Early
  <2>2. EXEC' \subseteq Loaded /\ INIT' \subseteq Loaded
    BY <1>18, <2>1 DEF UpdateExec, TypeOK
  <2>3. PICK linked : info' = [info EXCEPT ![This] = Refreshed(This, linked)]
    BY <1>18 DEF UpdateExec
  <2>4. Refreshed(This, linked) \in {"none", "code", "dangling"}
        /\ (Refreshed(This, linked) # "none" => This \in defs)
    BY <2>1 DEF Refreshed, TypeOK, PointersDefined
  <2>5. info' \in [File -> {"none", "code", "dangling"}]
        /\ \A g \in File : info'[g] # "none" => g \in defs
    BY <2>3, <2>4 DEF TypeOK, PointersDefined
  <2> QED BY <1>1, <1>4, <1>18, <2>2, <2>5 DEF UpdateExec, TypeOK, PointersDefined, bundles
<1>19. ASSUME CallInit
       PROVE  TypeOK' /\ PointersDefined'
  <2>1. This \in File /\ This \in Loaded
    BY <1>3, <1>19 DEF CallInit, Doing, Early
  <2> QED BY <1>1, <1>4, <1>19, <2>1 DEF CallInit, TypeOK, PointersDefined, bundles
<1>20. ASSUME UNCHANGED vars
       PROVE  TypeOK' /\ PointersDefined'
  BY <1>4, <1>20 DEF vars, TypeOK, PointersDefined
<1> QED BY <1>5, <1>6, <1>7, <1>8, <1>9, <1>10, <1>11, <1>12, <1>13, <1>14, <1>15, <1>16,
           <1>17, <1>18, <1>19, <1>20 DEF Next

-----------------------------------------------------------------------------
(* Which bundles are open.                                                 *)

During(steps) == todo # <<>> /\ todo[1].do \in steps

\* No two bundles define the same symbol.
Distinct == \A f, g \in Bundles : f # g => Defines[f] \cap Defines[g] = {}

OpenAreLoaded == dlmodule \subseteq Bundles

\* f refers to a symbol that g defines.
Depends(f, g) == f # g /\ \E s \in Refers[f] : s \in Defines[g]

\* An open bundle finds its symbols in those that were opened before it.
OpenInOrder ==
  \A f \in dlmodule : \A s \in Refers[f] :
    \/ isdef(s) \/ s \in Defines[f]
    \/ \E g \in dlmodule : s \in Defines[g] /\ loadrank[g] < loadrank[f]

\* e numbers D, with all those of O they depend on, in an order to open them.
Numbering(e, D, O) ==
  /\ \A f \in D : \A g \in O : Depends(f, g) => g \in D
  /\ \A f, g \in D : Depends(f, g) => e[g] < e[f]

\* A bundle is opened with a rank as low as can be in any such order, whatever was
\* opened and closed since: this is why a rank that is computed later is not below
\* the one that a bundle was opened with. While bundles are closed it is known only
\* of those that stay.
LowestRanks ==
  \A D \in SUBSET dlmodule : \A e \in [File -> Nat] :
    /\ Doing("close") => \A f \in D : 0 <= executable[f]
    /\ Numbering(e, D, dlmodule)
    => \A f \in D : loadrank[f] <= e[f]

\* The bundle in hand is unloaded, so that it can not be executable.
Going == Has(todo, "forget")
Staying == IF Going THEN Bundles \ {This} ELSE Bundles

Ranked ==
  During({"close", "open"}) =>
    /\ Sound(executable, Bundles, Staying)
    /\ Tight(executable, Staying)
    /\ Complete(executable, Bundles, Staying)

NoneToClose == During({"open", "forget", "check", "exec", "on_exec"}) => ToClose = {}
NoneToOpen == During({"forget", "check", "exec", "on_exec"}) => ToOpen = {}
ForgottenClosed == Doing("forget") => This \notin dlmodule

OpenInv ==
  /\ Distinct /\ OpenAreLoaded /\ OpenInOrder /\ LowestRanks
  /\ Ranked /\ NoneToClose /\ NoneToOpen /\ ForgottenClosed

\* A ranked bundle depends on bundles of lower ranks.
LEMMA DependsOnLower ==
  ASSUME TypeOK, Distinct, NEW T \in SUBSET Bundles, NEW r, Sound(r, Bundles, T),
         NEW f \in Bundles, NEW g \in Bundles, Depends(f, g), 0 <= r[f]
  PROVE  g \in T /\ 0 <= r[g] /\ r[g] < r[f]
<1>1. PICK s \in Refers[f] : s \in Defines[g] /\ f # g
  BY DEF Depends
<1>2. f \in File /\ Among(Bundles, s)
  BY <1>1, BundlesType DEF Among
<1>3. s \notin Defines[f]
  BY <1>1 DEF Distinct
<1>4. PICK h \in T : s \in Defines[h] /\ 0 <= r[h] /\ r[h] < r[f]
  BY <1>1, <1>2, <1>3 DEF Sound
<1>5. h = g
  BY <1>1, <1>4 DEF Distinct
<1> QED BY <1>4, <1>5

\* The new ranks are not below the old ones.
LEMMA RanksGoUp ==
  ASSUME TypeOK, Distinct, OpenAreLoaded, LowestRanks, ~Doing("close"),
         Sound(executable, Bundles, Staying), ToClose = {}, NEW g \in dlmodule
  PROVE  loadrank[g] <= executable[g]
<1> DEFINE e == [f \in File |-> IF executable[f] < 0 THEN 0 ELSE executable[f]]
<1>1. \A f \in File : executable[f] \in Int
  BY SizeType DEF TypeOK
<1>2. dlmodule \subseteq File /\ \A f \in dlmodule : 0 <= executable[f]
  <2>1. ASSUME NEW f \in dlmodule PROVE f \in File /\ 0 <= executable[f]
    <3>1. f \in File /\ ~(executable[f] < 0)
      BY DEF TypeOK, ToClose
    <3> QED BY <1>1, <3>1
  <2> QED BY <2>1
<1>3. e \in [File -> Nat]
  BY <1>1
<1>4. \A f \in dlmodule : e[f] = executable[f]
  BY <1>1, <1>2
<1> HIDE DEF e
<1>5. ASSUME NEW f \in dlmodule, NEW h \in dlmodule, Depends(f, h)
      PROVE  e[h] < e[f]
  <2>1. Staying \in SUBSET Bundles
    BY DEF Staying
  <2>2. executable[h] < executable[f]
    BY <1>2, <1>5, <2>1, DependsOnLower DEF OpenAreLoaded
  <2> QED BY <1>4, <2>2
<1>6. Numbering(e, dlmodule, dlmodule)
  BY <1>5 DEF Numbering
<1>7. loadrank[g] <= e[g]
  BY <1>3, <1>6 DEF LowestRanks
<1> QED BY <1>4, <1>7

\* The rank of a bundle that is opened is as low as can be.
LEMMA OpenedLowest ==
  ASSUME TypeOK, Distinct, OpenAreLoaded, Sound(executable, Bundles, Staying),
         Tight(executable, Staying), NEW f \in File, Opens(f),
         NEW D \in SUBSET (dlmodule \cup {f}), NEW e \in [File -> Nat],
         Numbering(e, D, dlmodule \cup {f}), f \in D
  PROVE  executable[f] <= e[f]
<1>1. \A g \in File : executable[g] \in Int /\ e[g] \in Nat
  BY SizeType DEF TypeOK
<1>2. f \in Bundles \ dlmodule /\ 0 <= executable[f]
      /\ \A g \in Bundles \ dlmodule : 0 <= executable[g] => executable[f] <= executable[g]
  BY DEF Opens, ToOpen
<1>3. Staying \subseteq Bundles /\ Bundles \subseteq File /\ D \subseteq File
  BY BundlesType DEF Staying, TypeOK
<1> DEFINE Bad == {n \in Nat : \E g \in D : /\ executable[g] = n /\ n <= executable[f]
                                           /\ e[g] < executable[g]}
<1> SUFFICES ASSUME Bad # {}
             PROVE  FALSE
  <2>1. executable[f] \in Nat
    BY <1>1, <1>2
  <2>2. Bad = {} => ~(e[f] < executable[f])
    BY <1>1, <2>1
  <2> QED BY <1>1, <2>2
<1>4. PICK n \in Bad : \A m \in Bad : n <= m
  <2>1. Bad \in SUBSET Nat
    OBVIOUS
  <2> HIDE DEF Bad
  <2> QED BY <2>1, LeastPosition
<1>5. PICK g \in D : executable[g] = n /\ n <= executable[f] /\ e[g] < executable[g]
  BY <1>4
<1>6. g \in File /\ n \in Nat /\ 0 < executable[g] /\ e[g] \in Nat
  BY <1>1, <1>3, <1>4, <1>5
<1>7. PICK h \in Staying \ {g} : /\ \E s \in Refers[g] : s \in Defines[h]
                                 /\ executable[h] = executable[g] - 1
  BY <1>6 DEF Tight
<1>8. h \in Bundles /\ h \in File /\ 0 <= executable[h] /\ executable[h] < executable[f]
  BY <1>1, <1>2, <1>3, <1>5, <1>6, <1>7
<1>9. h \in dlmodule
  BY <1>1, <1>2, <1>8
<1>10. Depends(g, h)
  BY <1>7 DEF Depends
<1>11. h \in D /\ e[h] < e[g]
  BY <1>5, <1>9, <1>10 DEF Numbering
<1>12. e[h] < executable[h] /\ executable[h] \in Nat /\ executable[h] <= executable[f]
       /\ ~(n <= executable[h])
  BY <1>1, <1>5, <1>6, <1>7, <1>8, <1>11
<1>13. executable[h] \in Bad
  BY <1>11, <1>12
<1> HIDE DEF Bad
<1> QED BY <1>4, <1>12, <1>13

\* Opening a bundle.
LEMMA OpenKept ==
  ASSUME TypeOK, OpenInv, NEW f \in File, OpenOne(f)
  PROVE  OpenInOrder' /\ LowestRanks'
<1>1. /\ Doing("open") /\ Opens(f)
      /\ dlmodule' = dlmodule \cup {f}
      /\ loadrank' = [loadrank EXCEPT ![f] = executable[f]]
      /\ executable' = executable /\ libraries' = libraries /\ todo' = todo
  BY DEF OpenOne
<1>2. /\ Distinct /\ OpenAreLoaded /\ LowestRanks /\ ~Doing("close") /\ ToClose = {}
      /\ Sound(executable, Bundles, Staying) /\ Tight(executable, Staying)
  BY <1>1 DEF OpenInv, Ranked, NoneToClose, During, Doing
<1>3. f \in Bundles \ dlmodule /\ 0 <= executable[f]
      /\ \A g \in Bundles \ dlmodule : 0 <= executable[g] => executable[f] <= executable[g]
  BY <1>1 DEF Opens, ToOpen
<1>4. /\ \A g \in File : executable[g] \in Int /\ loadrank[g] \in Nat
      /\ dlmodule \subseteq File /\ Bundles \subseteq File /\ Staying \subseteq Bundles
  BY SizeType, BundlesType DEF TypeOK, Staying
<1>5. /\ loadrank'[f] = executable[f]
      /\ \A g \in File \ {f} : loadrank'[g] = loadrank[g]
  BY <1>1 DEF TypeOK
<1>6. ASSUME NEW g \in dlmodule
      PROVE  loadrank[g] <= executable[g] /\ loadrank'[g] = loadrank[g]
  BY <1>2, <1>3, <1>4, <1>5, RanksGoUp
<1>7. OpenInOrder'
  <2>1. ASSUME NEW x \in dlmodule', NEW s \in Refers[x]
        PROVE  \/ isdef(s) \/ s \in Defines[x]
               \/ \E g \in dlmodule' : s \in Defines[g] /\ loadrank'[g] < loadrank'[x]
    <3>1. CASE x \in dlmodule
      <4>1. \/ isdef(s) \/ s \in Defines[x]
            \/ \E g \in dlmodule : s \in Defines[g] /\ loadrank[g] < loadrank[x]
        BY <1>2, <2>1, <3>1 DEF OpenInv, OpenInOrder
      <4> QED BY <1>1, <1>6, <3>1, <4>1
    <3>2. CASE x = f
      <4>1. CASE ~Among(Bundles, s)
        BY <1>2, <1>3, <2>1, <3>2, <4>1 DEF Sound
      <4>2. CASE Among(Bundles, s)
        <5> SUFFICES ASSUME s \notin Defines[f]
                     PROVE  \E g \in dlmodule' : s \in Defines[g] /\ loadrank'[g] < loadrank'[f]
          BY <3>2
        <5>1. PICK g \in Staying : s \in Defines[g] /\ 0 <= executable[g] /\ executable[g] < executable[f]
          BY <1>2, <1>3, <2>1, <3>2, <4>2 DEF Sound
        <5>2. g \in dlmodule
          BY <1>3, <1>4, <5>1
        <5>3. loadrank'[g] <= executable[g] /\ loadrank'[g] \in Nat
          BY <1>4, <1>6, <5>2
        <5> QED BY <1>1, <1>3, <1>4, <1>5, <5>1, <5>2, <5>3
      <4> QED BY <4>1, <4>2
    <3> QED BY <1>1, <3>1, <3>2
  <2> QED BY <1>1, <2>1 DEF OpenInOrder, isdef
<1>8. LowestRanks'
  <2>1. ASSUME NEW D \in SUBSET (dlmodule \cup {f}), NEW e \in [File -> Nat],
               Numbering(e, D, dlmodule \cup {f}), NEW g \in D
        PROVE  loadrank'[g] <= e[g]
    <3>1. CASE g = f
      BY <1>1, <1>2, <1>5, <2>1, <3>1, OpenedLowest
    <3>2. CASE g # f
      <4>1. D \ {f} \in SUBSET dlmodule /\ g \in D \ {f}
        BY <3>2
      <4>2. Numbering(e, D \ {f}, dlmodule)
        BY <1>3, <2>1 DEF Numbering
      <4>3. loadrank[g] <= e[g]
        BY <1>2, <4>1, <4>2 DEF LowestRanks
      <4> QED BY <1>6, <4>1, <4>3
    <3> QED BY <3>1, <3>2
  <2> QED BY <1>1, <2>1 DEF LowestRanks
<1> QED BY <1>7, <1>8

\* Closing the bundle that was opened with the highest rank.
LEMMA CloseKept ==
  ASSUME TypeOK, OpenInv, NEW f \in File, CloseOne(f)
  PROVE  OpenInOrder' /\ LowestRanks'
<1>1. /\ Doing("close") /\ Closes(f)
      /\ dlmodule' = dlmodule \ {f} /\ loadrank' = loadrank
      /\ executable' = executable /\ libraries' = libraries /\ todo' = todo
  BY DEF CloseOne
<1>2. /\ Distinct /\ OpenAreLoaded /\ LowestRanks /\ OpenInOrder
      /\ Sound(executable, Bundles, Staying)
  BY <1>1 DEF OpenInv, Ranked, During, Doing
<1>3. /\ f \in dlmodule /\ executable[f] < 0
      /\ \A g \in dlmodule : executable[g] < 0 => loadrank[g] <= loadrank[f]
  BY <1>1 DEF Closes, ToClose
<1>4. /\ \A g \in File : executable[g] \in Int /\ loadrank[g] \in Nat
      /\ dlmodule \subseteq Bundles /\ Bundles \subseteq File /\ Staying \in SUBSET Bundles
  BY <1>2, SizeType, BundlesType DEF TypeOK, Staying, OpenAreLoaded
<1>5. ASSUME NEW g \in dlmodule, 0 <= executable[g]
      PROVE  ~Depends(g, f)
  <2> SUFFICES ASSUME Depends(g, f)
               PROVE  FALSE
    OBVIOUS
  <2>1. 0 <= executable[f]
    BY <1>2, <1>3, <1>4, <1>5, DependsOnLower
  <2> QED BY <1>3, <1>4, <2>1
<1>6. OpenInOrder'
  <2>1. ASSUME NEW x \in dlmodule \ {f}, NEW s \in Refers[x], ~isdef(s), s \notin Defines[x]
        PROVE  \E g \in dlmodule \ {f} : s \in Defines[g] /\ loadrank[g] < loadrank[x]
    <3>1. PICK g \in dlmodule : s \in Defines[g] /\ loadrank[g] < loadrank[x]
      BY <1>2, <2>1 DEF OpenInOrder
    <3>2. CASE g = f
      <4>1. ~(executable[x] < 0)
        BY <1>3, <1>4, <3>1, <3>2
      <4>2. 0 <= executable[x] /\ Depends(x, f)
        BY <1>4, <3>1, <3>2, <4>1 DEF Depends
      <4> QED BY <1>5, <4>2
    <3>3. CASE g # f
      BY <3>1, <3>3
    <3> QED BY <3>2, <3>3
  <2> QED BY <1>1, <2>1 DEF OpenInOrder, isdef
<1>7. LowestRanks'
  <2>1. ASSUME NEW D \in SUBSET (dlmodule \ {f}), NEW e \in [File -> Nat],
               \A x \in D : 0 <= executable[x],
               Numbering(e, D, dlmodule \ {f}), NEW g \in D
        PROVE  loadrank[g] <= e[g]
    <3>1. Numbering(e, D, dlmodule)
      <4>1. ASSUME NEW x \in D, NEW y \in dlmodule, Depends(x, y)
            PROVE  y \in D
        BY <1>5, <2>1, <4>1 DEF Numbering
      <4> QED BY <2>1, <4>1 DEF Numbering
    <3> QED BY <1>2, <2>1, <3>1 DEF LowestRanks
  <2> QED BY <1>1, <2>1 DEF LowestRanks, Doing
<1> QED BY <1>6, <1>7

\* Neither.
LEMMA OpenUnchanged ==
  ASSUME OpenInOrder, LowestRanks, dlmodule' = dlmodule, loadrank' = loadrank,
         libraries \subseteq libraries',
         Doing("close") => ToClose = {} \/ (Doing("close")' /\ executable' = executable),
         \A f \in dlmodule : executable[f] \in Int
  PROVE  OpenInOrder' /\ LowestRanks'
<1>1. \A s : isdef(s) => isdef(s)'
  BY DEF isdef
<1>2. OpenInOrder'
  BY <1>1 DEF OpenInOrder
<1>3. ASSUME NEW D \in SUBSET dlmodule, NEW e \in [File -> Nat],
             Doing("close")' => \A f \in D : 0 <= executable'[f],
             Numbering(e, D, dlmodule), NEW f \in D
      PROVE  loadrank[f] <= e[f]
  <2>1. Doing("close") => \A g \in D : 0 <= executable[g]
    BY <1>3 DEF ToClose
  <2> QED BY <1>3, <2>1 DEF LowestRanks
<1>4. LowestRanks'
  BY <1>3 DEF LowestRanks
<1> QED BY <1>2, <1>4

\* The next step.
LEMMA NextStep ==
  ASSUME TodoInv, todo # <<>>, todo' = Tail(todo)
  PROVE  /\ todo' # <<>> => Follows(todo[1], todo'[1])
         /\ todo[1].do \notin Final => todo' # <<>> /\ This' = This
         /\ \A step \in Steps : todo[1].do # step => (Has(todo', step) <=> Has(todo, step))
<1>1. PICK q : q = Tail(todo)
  OBVIOUS
<1>2. /\ Len(todo) \in Nat \ {0} /\ Len(q) = Len(todo) - 1
      /\ \A i \in 1..(Len(todo) - 1) : q[i] = todo[i + 1]
      /\ q # <<>> => Follows(todo[1], q[1])
      /\ todo[1].do \notin Final => q # <<>>
  BY <1>1, PlanTail DEF TodoInv
<1>3. DOMAIN todo = 1..Len(todo) /\ DOMAIN q = 1..(Len(todo) - 1)
  <2>1. todo \in Seq(Task) /\ q \in Seq(Task)
    BY <1>1, PlanTail DEF TodoInv, Plan
  <2> QED BY <1>2, <2>1
<1>4. ASSUME NEW step \in Steps, todo[1].do # step
      PROVE  Has(q, step) <=> Has(todo, step)
  <2>1. ASSUME NEW i \in DOMAIN q, q[i].do = step
        PROVE  Has(todo, step)
    <3>1. i + 1 \in DOMAIN todo /\ todo[i + 1].do = step
      BY <1>2, <1>3, <2>1
    <3> QED BY <3>1 DEF Has
  <2>2. ASSUME NEW i \in DOMAIN todo, todo[i].do = step
        PROVE  Has(q, step)
    <3>1. PICK j : j = i - 1
      OBVIOUS
    <3>2. j \in 1..(Len(todo) - 1) /\ i = j + 1
      BY <1>2, <1>3, <1>4, <2>2, <3>1
    <3>3. j \in DOMAIN q /\ q[j].do = step
      BY <1>2, <1>3, <2>2, <3>2
    <3> QED BY <3>3 DEF Has
  <2> QED BY <2>1, <2>2 DEF Has
<1>5. todo[1].do \notin Final => This' = This
  BY <1>1, <1>2 DEF Follows, This
<1> QED BY <1>1, <1>2, <1>4, <1>5

LEMMA FirstOfDo ==
  ASSUME NEW f \in File, NEW steps \in Seq(Steps), steps # <<>>, NEW q \in Seq(Task)
  PROVE  /\ Do(f, steps)[1].do = steps[1] /\ Do(f, steps)[1].file = f
         /\ (Do(f, steps) \o q)[1].do = steps[1]
         /\ Do(f, steps) # <<>> /\ Do(f, steps) \o q # <<>>
<1>1. PICK p : p = Do(f, steps)
  OBVIOUS
<1>2. p \in Seq(Task) /\ Len(p) = Len(steps) /\ Len(steps) \in Nat \ {0}
  BY <1>1, DoProperties
<1>3. p[1].do = steps[1] /\ p[1].file = f
  BY <1>1, <1>2, DoProperties
<1>4. (p \o q)[1] = p[1] /\ p # <<>> /\ p \o q # <<>>
  BY <1>2
<1> QED BY <1>1, <1>3, <1>4

\* The steps that module_load, module_unload, nsbundle_load and update_init_flag set
\* about first.
LEMMA FirstSteps ==
  ASSUME NEW f \in File, NEW q \in Seq(Task)
  PROVE  /\ (Unloading(f) \o q)[1].do = "on_unlink"
         /\ Unloading(f)[1].do = "on_unlink"
         /\ Do(f, <<"link">>)[1].do = "link"
         /\ Do(f, <<"dlopen", "link">>)[1].do = "dlopen"
         /\ Do(f, <<"close", "open", "check">>)[1].do = "close"
         /\ Do(f, <<"close", "open", "check">>) # <<>>
         /\ ~Has(Do(f, <<"close", "open", "check">>), "forget")
         /\ (Do(f, <<"call", "on_init">>) \o q)[1].do = "call"
         /\ (Do(f, <<"on_unlink", "cleanup", "call", "on_init">>) \o q)[1].do = "on_unlink"
<1>1. PICK s :
        s = <<"on_unlink", "cleanup", "unload", "close", "open", "forget", "check">>
  OBVIOUS
<1>2. s \in Seq(Steps) /\ s # <<>> /\ s[1] = "on_unlink"
  BY <1>1 DEF Steps, Hook
<1>3. Unloading(f) = Do(f, s)
  BY <1>1 DEF Unloading
<1>4. (Unloading(f) \o q)[1].do = "on_unlink" /\ Unloading(f)[1].do = "on_unlink"
  BY <1>2, <1>3, FirstOfDo
<1>5. Do(f, <<"link">>)[1].do = "link"
  <2>1. PICK t : t = <<"link">>
    OBVIOUS
  <2>2. t \in Seq(Steps) /\ t # <<>> /\ t[1] = "link"
    BY <2>1 DEF Steps
  <2>3. Do(f, t)[1].do = "link"
    BY <2>2, FirstOfDo
  <2> QED BY <2>1, <2>3
<1>6. Do(f, <<"dlopen", "link">>)[1].do = "dlopen"
  <2>1. PICK t : t = <<"dlopen", "link">>
    OBVIOUS
  <2>2. t \in Seq(Steps) /\ t # <<>> /\ t[1] = "dlopen"
    BY <2>1 DEF Steps
  <2>3. Do(f, t)[1].do = "dlopen"
    BY <2>2, FirstOfDo
  <2> QED BY <2>1, <2>3
<1>7. /\ Do(f, <<"close", "open", "check">>)[1].do = "close"
      /\ Do(f, <<"close", "open", "check">>) # <<>>
      /\ ~Has(Do(f, <<"close", "open", "check">>), "forget")
  <2>1. PICK t : t = <<"close", "open", "check">>
    OBVIOUS
  <2>2. /\ t \in Seq(Steps) /\ t # <<>> /\ Len(t) = 3
        /\ t[1] = "close" /\ t[2] = "open" /\ t[3] = "check"
    BY <2>1 DEF Steps
  <2>3. Do(f, t)[1].do = "close" /\ Do(f, t) # <<>>
    BY <2>2, FirstOfDo
  <2>4. ~Has(Do(f, t), "forget")
    <3>1. \A i \in 1..3 : t[i] # "forget"
      BY <2>2
    <3>2. PICK p : p = Do(f, t)
      OBVIOUS
    <3>3. p \in Seq(Task) /\ Len(p) = 3 /\ \A i \in 1..3 : p[i].do = t[i]
      BY <2>2, <3>2, DoProperties
    <3>4. DOMAIN p = 1..3
      BY <3>3
    <3> QED BY <3>1, <3>2, <3>3, <3>4 DEF Has
  <2> QED BY <2>1, <2>3, <2>4
<1>8. (Do(f, <<"call", "on_init">>) \o q)[1].do = "call"
  <2>1. PICK t : t = <<"call", "on_init">>
    OBVIOUS
  <2>2. t \in Seq(Steps) /\ t # <<>> /\ t[1] = "call"
    BY <2>1 DEF Steps, Hook
  <2>3. (Do(f, t) \o q)[1].do = "call"
    BY <2>2, FirstOfDo
  <2> QED BY <2>1, <2>3
<1>9. (Do(f, <<"on_unlink", "cleanup", "call", "on_init">>) \o q)[1].do = "on_unlink"
  <2>1. PICK t : t = <<"on_unlink", "cleanup", "call", "on_init">>
    OBVIOUS
  <2>2. t \in Seq(Steps) /\ t # <<>> /\ t[1] = "on_unlink"
    BY <2>1 DEF Steps, Hook
  <2>3. (Do(f, t) \o q)[1].do = "on_unlink"
    BY <2>2, FirstOfDo
  <2> QED BY <2>1, <2>3
<1> QED BY <1>4, <1>5, <1>6, <1>7, <1>8, <1>9

LEMMA SameLibraries ==
  ASSUME libraries' = libraries, NEW CONSTANT r, NEW CONSTANT S, NEW CONSTANT T
  PROVE  /\ Sound(r, S, T)' <=> Sound(r, S, T)
         /\ Complete(r, S, T)' <=> Complete(r, S, T)
<1>1. \A s : isdef(s)' <=> isdef(s)
  BY DEF isdef
<1> QED BY <1>1 DEF Sound, Complete

\* What nsbundle_exec_all_but computes is what the updates need.
LEMMA RankedAnew ==
  ASSUME libraries' = libraries, NEW CONSTANT S, NEW CONSTANT T \in SUBSET File,
         Bundles' = S, Staying' = T, executable' = Ranks(S, T)
  PROVE  Ranked'
<1>1. PICK r : r = executable'
  OBVIOUS
<1>2. Sound(r, S, T) /\ Tight(r, T) /\ Complete(r, S, T)
  BY <1>1, RanksProperties
<1>3. Sound(r, S, T)' /\ Complete(r, S, T)'
  BY <1>2, SameLibraries
<1>4. Sound(executable, Bundles, Staying)' /\ Complete(executable, Bundles, Staying)'
  BY <1>1, <1>3 DEF Sound, Complete
<1>5. Tight(executable, Staying)'
  BY <1>1, <1>2 DEF Tight
<1> QED BY <1>4, <1>5 DEF Ranked

\* A step that opens and closes nothing and computes no rank.
LEMMA BundlesUnchanged ==
  ASSUME TypeOK, OpenInv, modules' = modules, UNCHANGED bundles, libraries \subseteq libraries',
         Doing("close") => ToClose = {} \/ Doing("close")',
         During({"close", "open"})' =>
           During({"close", "open"}) /\ Staying' = Staying /\ libraries' = libraries,
         During({"open", "forget", "check", "exec", "on_exec"})' => ToClose = {},
         During({"forget", "check", "exec", "on_exec"})' => ToOpen = {},
         Doing("forget")' => This' \notin dlmodule
  PROVE  OpenInv'
<1>1. executable' = executable /\ loadrank' = loadrank /\ dlmodule' = dlmodule
  BY DEF bundles
<1>2. Bundles' = Bundles
  BY DEF Bundles, Loaded
<1>3. Distinct' /\ OpenAreLoaded'
  BY <1>1, <1>2 DEF OpenInv, Distinct, OpenAreLoaded
<1>4. \A f \in dlmodule : executable[f] \in Int
  BY SizeType DEF TypeOK
<1>5. OpenInOrder' /\ LowestRanks'
  BY <1>1, <1>4, OpenUnchanged DEF OpenInv
<1>6. Ranked'
  <2> SUFFICES ASSUME During({"close", "open"})'
               PROVE  /\ Sound(executable, Bundles, Staying)'
                      /\ Tight(executable, Staying)'
                      /\ Complete(executable, Bundles, Staying)'
    BY DEF Ranked
  <2>1. PICK r, S, T : r = executable /\ S = Bundles /\ T = Staying
    OBVIOUS
  <2>2. Sound(r, S, T) /\ Tight(r, T) /\ Complete(r, S, T)
    BY <2>1 DEF OpenInv, Ranked
  <2>3. Sound(r, S, T)' /\ Complete(r, S, T)'
    BY <2>2, SameLibraries
  <2>4. r = executable' /\ S = Bundles' /\ T = Staying'
    BY <1>1, <1>2, <2>1
  <2>5. Sound(executable, Bundles, Staying)' /\ Complete(executable, Bundles, Staying)'
    BY <2>3, <2>4 DEF Sound, Complete
  <2>6. Tight(executable, Staying)'
    BY <2>2, <2>4 DEF Tight
  <2> QED BY <2>5, <2>6
<1>7. ToClose' = ToClose /\ ToOpen' = ToOpen
  BY <1>1, <1>2 DEF ToClose, ToOpen
<1>8. NoneToClose' /\ NoneToOpen' /\ ForgottenClosed'
  BY <1>1, <1>7 DEF NoneToClose, NoneToOpen, ForgottenClosed
<1> QED BY <1>3, <1>5, <1>6, <1>8 DEF OpenInv

LEMMA OpenInvKept ==
  ASSUME TypeOK, TodoInv, OpenInv, [Next]_vars
  PROVE  OpenInv'
<1>1. /\ todo # <<>> => /\ This \in File /\ todo[1].do \in Steps
                        /\ todo[1].do \notin Early => This \in Loaded
                        /\ todo[1].do = "dlopen" => This \in Shared \ Loaded
      /\ Tail(todo) \in Seq(Task) \/ todo = <<>>
  BY TaskInProgress, PlanTail DEF TodoInv, Plan
<1>2. /\ \A f \in File : executable[f] \in Int
      /\ Loaded \in SUBSET File /\ Bundles \in SUBSET File
  BY SizeType, BundlesType DEF TypeOK
<1>3. ASSUME modules' = modules PROVE Bundles' = Bundles
  BY <1>3 DEF Bundles, Loaded
<1>4. ASSUME NEW f \in File, module_load(f) PROVE OpenInv'
  <2>1. todo = <<>> /\ modules' = modules /\ UNCHANGED bundles /\ libraries' = libraries
    BY <1>4 DEF module_load
  <2>2. todo'[1].do \in {"dlopen", "on_unlink", "link"}
    <3>1. PICK p : p = Do(f, <<"link">>)
      OBVIOUS
    <3>2. p \in Seq(Task) /\ p[1].do = "link"
      <4>1. Plan(p, Loaded)
        BY <3>1, PlansMade
      <4> QED BY <3>1, <4>1, FirstSteps DEF Plan
    <3>3. CASE f \in Shared
      <4>1. todo' = Do(f, <<"dlopen", "link">>)
        BY <1>4, <3>3 DEF module_load
      <4> QED BY <3>2, <4>1, FirstSteps
    <3>4. CASE f \notin Shared /\ f \in Loaded
      <4>1. todo' = Unloading(f) \o p
        BY <1>4, <3>1, <3>4 DEF module_load
      <4> QED BY <3>2, <4>1, FirstSteps
    <3>5. CASE f \notin Shared /\ f \notin Loaded
      <4>1. todo' = <<>> \o p
        BY <1>4, <3>1, <3>5 DEF module_load
      <4> QED BY <3>2, <4>1
    <3> QED BY <3>3, <3>4, <3>5
  <2> QED BY <2>1, <2>2, BundlesUnchanged DEF During, Doing
<1>5. ASSUME NEW f \in File, module_unload(f) PROVE OpenInv'
  <2>1. todo = <<>> /\ modules' = modules /\ UNCHANGED bundles /\ libraries' = libraries
    BY <1>5 DEF module_unload
  <2>2. todo'[1].do = "on_unlink"
    <3>1. <<>> \in Seq(Task) /\ todo' = Unloading(f)
      BY <1>5 DEF module_unload
    <3> QED BY <3>1, FirstSteps
  <2> QED BY <2>1, <2>2, BundlesUnchanged DEF During, Doing
<1>6. ASSUME UNCHANGED <<modules, libraries, bundles, todo>> PROVE OpenInv'
  <2>1. During({"close", "open"})' => During({"close", "open"}) /\ Staying' = Staying
    BY <1>3, <1>6 DEF During, Staying, Going, This
  <2> QED BY <1>6, <2>1, BundlesUnchanged
          DEF During, Doing, This, OpenInv, NoneToClose, NoneToOpen, ForgottenClosed
<1>7. ASSUME NEW f \in File, New(f) \/ Drop(f) PROVE OpenInv'
  BY <1>6, <1>7 DEF New, Drop
<1>8. ASSUME NEW f \in File, CloseOne(f) PROVE OpenInv'
  <2>1. /\ Doing("close") /\ dlmodule' = dlmodule \ {f} /\ executable' = executable
        /\ libraries' = libraries /\ todo' = todo /\ modules' = modules
    BY <1>8 DEF CloseOne
  <2>2. OpenInOrder' /\ LowestRanks'
    BY <1>8, CloseKept
  <2>3. Bundles' = Bundles /\ Staying' = Staying
    BY <1>3, <2>1 DEF Staying, Going, This
  <2>4. Distinct' /\ OpenAreLoaded'
    BY <2>1, <2>3 DEF OpenInv, Distinct, OpenAreLoaded
  <2>5. Ranked'
    <3>1. PICK r, S, T : r = executable /\ S = Bundles /\ T = Staying
      OBVIOUS
    <3>2. Sound(r, S, T) /\ Tight(r, T) /\ Complete(r, S, T)
      BY <2>1, <3>1 DEF OpenInv, Ranked, During, Doing
    <3>3. Sound(r, S, T)' /\ Complete(r, S, T)'
      BY <2>1, <3>2, SameLibraries
    <3>4. Sound(executable, Bundles, Staying)' /\ Complete(executable, Bundles, Staying)'
      BY <2>1, <2>3, <3>1, <3>3 DEF Sound, Complete
    <3>5. Tight(executable, Staying)'
      BY <2>1, <2>3, <3>1, <3>2 DEF Tight
    <3> QED BY <3>4, <3>5 DEF Ranked
  <2>6. NoneToClose' /\ NoneToOpen' /\ ForgottenClosed'
    BY <2>1 DEF Doing, During, NoneToClose, NoneToOpen, ForgottenClosed
  <2> QED BY <2>2, <2>4, <2>5, <2>6 DEF OpenInv
<1>9. ASSUME NEW f \in File, OpenOne(f) PROVE OpenInv'
  <2>1. /\ Doing("open") /\ Opens(f) /\ dlmodule' = dlmodule \cup {f}
        /\ executable' = executable
        /\ libraries' = libraries /\ todo' = todo /\ modules' = modules
    BY <1>9 DEF OpenOne
  <2>2. OpenInOrder' /\ LowestRanks'
    BY <1>9, OpenKept
  <2>3. Bundles' = Bundles /\ Staying' = Staying
    BY <1>3, <2>1 DEF Staying, Going, This
  <2>4. Distinct' /\ OpenAreLoaded'
    BY <2>1, <2>3 DEF OpenInv, Distinct, OpenAreLoaded, Opens, ToOpen
  <2>5. Ranked'
    <3>1. PICK r, S, T : r = executable /\ S = Bundles /\ T = Staying
      OBVIOUS
    <3>2. Sound(r, S, T) /\ Tight(r, T) /\ Complete(r, S, T)
      BY <2>1, <3>1 DEF OpenInv, Ranked, During, Doing
    <3>3. Sound(r, S, T)' /\ Complete(r, S, T)'
      BY <2>1, <3>2, SameLibraries
    <3>4. Sound(executable, Bundles, Staying)' /\ Complete(executable, Bundles, Staying)'
      BY <2>1, <2>3, <3>1, <3>3 DEF Sound, Complete
    <3>5. Tight(executable, Staying)'
      BY <2>1, <2>3, <3>1, <3>2 DEF Tight
    <3> QED BY <3>4, <3>5 DEF Ranked
  <2>6. ToClose = {}
    BY <2>1 DEF OpenInv, NoneToClose, During, Doing
  <2>7. ToClose' = {}
    BY <1>2, <2>1, <2>6 DEF ToClose, Opens, ToOpen
  <2>8. NoneToClose' /\ NoneToOpen' /\ ForgottenClosed'
    BY <2>1, <2>7 DEF Doing, During, NoneToClose, NoneToOpen, ForgottenClosed
  <2> QED BY <2>2, <2>4, <2>5, <2>8 DEF OpenInv
<1>10. ASSUME todo' = <<>>, UNCHANGED <<modules, libraries, bundles>>,
              ~Doing("close")
       PROVE  OpenInv'
  BY <1>10, BundlesUnchanged DEF During, Doing
<1>11. ASSUME LinkDuplicate \/ HookFails PROVE OpenInv'
  <2>1. /\ todo' = <<>> /\ UNCHANGED <<modules, libraries, bundles>>
        /\ Doing("link") \/ todo[1].do \in Failing
    BY <1>11 DEF LinkDuplicate, HookFails, Abandon
  <2>2. ~Doing("close")
    BY <2>1, ModulesAssumption DEF Doing
  <2> QED BY <1>10, <2>1, <2>2
<1>12. ASSUME OpenLibrary PROVE OpenInv'
  <2>1. /\ Doing("dlopen") /\ libraries \subseteq libraries' /\ todo' = Tail(todo)
        /\ modules' = modules /\ UNCHANGED bundles
    BY <1>12 DEF OpenLibrary
  <2>2. todo' # <<>> => todo'[1].do = "link"
    BY <2>1, NextStep DEF Doing, Follows, Order
  <2> QED BY <2>1, <2>2, BundlesUnchanged DEF During, Doing
<1>13. ASSUME HookReturns \/ CallInit PROVE OpenInv'
  <2>1. /\ todo # <<>> /\ todo[1].do \in {"on_unlink", "on_exec", "on_init", "call"}
        /\ todo' = Tail(todo) /\ UNCHANGED <<modules, libraries, bundles>>
    BY <1>13 DEF HookReturns, CallInit, LispRuns, Hook, Doing
  <2>2. todo' # <<>> => /\ todo'[1].do \in {"cleanup", "exec", "init", "link", "on_init"}
                        /\ todo'[1].do = "exec" => todo[1].do = "on_exec"
    BY <2>1, NextStep DEF Follows, Order
  <2>3. todo[1].do = "on_exec" => ToClose = {} /\ ToOpen = {}
    BY <2>1 DEF OpenInv, NoneToClose, NoneToOpen, During
  <2> QED BY <2>1, <2>2, <2>3, BundlesUnchanged DEF During, Doing
<1>14. ASSUME Check PROVE OpenInv'
  <2>1. PICK p, q, r : p = CheckExec /\ q = CheckInit /\ r = Tail(todo)
    OBVIOUS
  <2>2. /\ Doing("check") /\ todo' = p \o q \o r
        /\ UNCHANGED <<modules, libraries, bundles>>
    BY <1>14, <2>1 DEF Check
  <2>3. /\ p \in Seq(Task) /\ q \in Seq(Task) /\ r \in Seq(Task)
        /\ p # <<>> => p[1].do = "exec"
        /\ (p # <<>> => q # <<>>) /\ (q # <<>> => q[1].do = "init")
        /\ r # <<>> => r[1].do = "link"
    <3>1. /\ Plan(p, Loaded) /\ Plan(q, Loaded)
          /\ p # <<>> => p[1].do = "exec"
          /\ p # <<>> => q # <<>>
          /\ \A i \in 1..Len(q) : q[i].do = "init"
      BY <2>1, CheckPlan DEF TypeOK
    <3>2. q # <<>> => 1 \in 1..Len(q)
      BY <3>1 DEF Plan
    <3>3. Plan(r, Loaded) /\ (r # <<>> => r[1].do = "link")
      BY <2>1, <2>2, PlanTail DEF TodoInv, Doing, Follows, Order
    <3> QED BY <3>1, <3>2, <3>3 DEF Plan
  <2>4. todo' # <<>> => todo'[1].do \in {"exec", "init", "link"}
    <3>1. CASE p # <<>>
      <4>1. (p \o q \o r)[1] = p[1]
        BY <2>3, <3>1
      <4> QED BY <2>2, <2>3, <3>1, <4>1
    <3>2. CASE p = <<>> /\ q # <<>>
      <4>1. (p \o q \o r)[1] = q[1]
        BY <2>3, <3>2
      <4> QED BY <2>2, <2>3, <3>2, <4>1
    <3>3. CASE p = <<>> /\ q = <<>>
      <4>1. p \o q \o r = r
        BY <2>3, <3>3
      <4> QED BY <2>2, <2>3, <4>1
    <3> QED BY <3>1, <3>2, <3>3
  <2>5. ToClose = {} /\ ToOpen = {}
    BY <2>2 DEF OpenInv, NoneToClose, NoneToOpen, During, Doing
  <2> QED BY <2>2, <2>4, <2>5, BundlesUnchanged DEF During, Doing
<1>15. ASSUME UpdateExec PROVE OpenInv'
  <2>1. /\ Doing("exec") /\ todo' = Tail(todo) /\ UNCHANGED <<modules, libraries, bundles>>
    BY <1>15 DEF UpdateExec
  <2>2. todo' # <<>> => todo'[1].do = "on_exec"
    BY <2>1, NextStep DEF Doing, Follows, Order
  <2>3. ToClose = {} /\ ToOpen = {}
    BY <2>1 DEF OpenInv, NoneToClose, NoneToOpen, During, Doing
  <2> QED BY <2>1, <2>2, <2>3, BundlesUnchanged DEF During, Doing
<1>16. ASSUME UpdateInit PROVE OpenInv'
  <2>1. PICK r : r = Tail(todo)
    OBVIOUS
  <2>2. /\ Doing("init") /\ UNCHANGED <<modules, libraries, bundles>>
        /\ \/ todo' = <<>> \o r
           \/ todo' = Do(This, <<"on_unlink", "cleanup", "call", "on_init">>) \o r
           \/ todo' = Do(This, <<"call", "on_init">>) \o r
    BY <1>16, <2>1 DEF UpdateInit
  <2>3. r \in Seq(Task) /\ This \in File /\ (r # <<>> => r[1].do \in {"init", "link"})
    BY <1>1, <2>1, <2>2, PlanTail DEF TodoInv, Doing, Follows, Order
  <2>4. <<>> \o r = r
    BY <2>3
  <2>5. todo' # <<>> => todo'[1].do \in {"init", "link", "on_unlink", "call"}
    <3>1. CASE todo' = r
      BY <2>3, <3>1
    <3>2. CASE todo' = Do(This, <<"on_unlink", "cleanup", "call", "on_init">>) \o r
      <4>1. todo'[1].do = "on_unlink"
        BY <2>3, <3>2, FirstSteps
      <4> QED BY <4>1
    <3>3. CASE todo' = Do(This, <<"call", "on_init">>) \o r
      <4>1. todo'[1].do = "call"
        BY <2>3, <3>3, FirstSteps
      <4> QED BY <4>1
    <3> QED BY <2>2, <2>4, <3>1, <3>2, <3>3
  <2> QED BY <2>2, <2>5, BundlesUnchanged DEF During, Doing
<1>17. ASSUME Updated PROVE OpenInv'
  <2>1. /\ \/ Doing("close") /\ ToClose = {}
           \/ Doing("open") /\ ToOpen = {}
        /\ todo' = Tail(todo) /\ UNCHANGED <<modules, libraries, bundles>>
    BY <1>17 DEF Updated
  <2>2. todo # <<>> /\ todo[1].do \in {"close", "open"}
    BY <2>1 DEF Doing
  <2>3. /\ todo' # <<>> /\ This' = This
        /\ todo[1].do = "close" => todo'[1].do = "open"
        /\ todo[1].do = "open" => todo'[1].do \in {"forget", "check"}
        /\ Has(todo', "forget") <=> Has(todo, "forget")
    BY <2>1, <2>2, NextStep DEF Follows, Order, Final, Steps
  <2>4. Staying' = Staying
    BY <1>3, <2>1, <2>3 DEF Staying, Going
  <2>5. ToClose = {}
    BY <2>1 DEF OpenInv, NoneToClose, During, Doing
  <2>6. Doing("forget")' => This \notin dlmodule
    <3> SUFFICES ASSUME Doing("forget")', This \in dlmodule
                 PROVE  FALSE
      OBVIOUS
    <3>1. todo'[1] = todo'[1] /\ 1 \in DOMAIN todo'
      <4>1. todo' \in Seq(Task)
        BY <1>1, <2>1, <2>2
      <4> QED BY <2>3, <4>1
    <3>2. Going
      BY <2>3, <3>1 DEF Doing, Has, Going
    <3>3. Sound(executable, Bundles, Staying) /\ This \notin Staying
      BY <2>2, <3>2 DEF OpenInv, Ranked, During, Staying
    <3>4. This \in File /\ ~(0 <= executable[This])
      BY <1>1, <2>2, <3>3 DEF Sound
    <3> QED BY <1>2, <2>5, <3>4 DEF ToClose
  <2> QED BY <2>1, <2>2, <2>3, <2>4, <2>5, <2>6, BundlesUnchanged DEF During, Doing
<1>18. ASSUME UNCHANGED <<modules, libraries, loadrank, dlmodule>>, ~Doing("close"),
              ~During({"close", "open", "forget", "check", "exec", "on_exec"})'
       PROVE  OpenInv'
  <2>1. Bundles' = Bundles /\ libraries \subseteq libraries' /\ dlmodule \subseteq File
    BY <1>3, <1>18 DEF TypeOK
  <2>2. OpenInOrder' /\ LowestRanks'
    BY <1>2, <1>18, <2>1, OpenUnchanged DEF OpenInv
  <2>3. Distinct' /\ OpenAreLoaded'
    BY <1>18, <2>1 DEF OpenInv, Distinct, OpenAreLoaded
  <2>4. Ranked' /\ NoneToClose' /\ NoneToOpen' /\ ForgottenClosed'
    BY <1>18 DEF During, Doing, Ranked, NoneToClose, NoneToOpen, ForgottenClosed
  <2> QED BY <2>2, <2>3, <2>4 DEF OpenInv
<1>19. ASSUME Cleanup PROVE OpenInv'
  <2>1. /\ Doing("cleanup") /\ todo' = Tail(todo)
        /\ UNCHANGED <<modules, libraries, loadrank, dlmodule>>
    BY <1>19 DEF Cleanup
  <2>2. todo' # <<>> => todo'[1].do \in {"unload", "call"}
    BY <2>1, NextStep DEF Doing, Follows, Order
  <2> QED BY <1>18, <2>1, <2>2 DEF During, Doing
<1>20. ASSUME LinkCircular PROVE OpenInv'
  <2>1. /\ Doing("link") /\ todo' = <<>>
        /\ UNCHANGED <<modules, libraries, loadrank, dlmodule>>
    BY <1>20 DEF LinkCircular, Abandon
  <2> QED BY <1>18, <2>1 DEF During, Doing
<1>21. ASSUME NEW CONSTANT S, NEW CONSTANT T \in SUBSET File,
              libraries' = libraries, dlmodule' = dlmodule, loadrank' = loadrank,
              ~Doing("close"), Doing("close")',
              Bundles' = S, Staying' = T, executable' = Ranks(S, T), Bundles \subseteq S,
              Distinct'
       PROVE  OpenInv'
  <2>1. OpenAreLoaded'
    BY <1>21 DEF OpenInv, OpenAreLoaded
  <2>2. \A f \in dlmodule : executable[f] \in Int
    BY <1>2 DEF TypeOK
  <2>3. OpenInOrder' /\ LowestRanks'
    BY <1>21, <2>2, OpenUnchanged DEF OpenInv
  <2>4. Ranked'
    BY <1>21, RankedAnew
  <2>5. NoneToClose' /\ NoneToOpen' /\ ForgottenClosed'
    BY <1>21 DEF During, Doing, NoneToClose, NoneToOpen, ForgottenClosed
  <2> QED BY <1>21, <2>1, <2>3, <2>4, <2>5 DEF OpenInv
<1>22. ASSUME Link PROVE OpenInv'
  <2>1. PICK S, this : S = Bundles \cup {This} /\ this = This
    OBVIOUS
  <2>2. /\ Doing("link") /\ this \in File \ Shared /\ Unmarked(this)
        /\ executable' = Ranks(S, S)
        /\ modules' = Append(modules, This)
        /\ todo' = Do(this, <<"close", "open", "check">>)
        /\ UNCHANGED <<libraries, loadrank, dlmodule>>
    BY <1>1, <1>22, <2>1 DEF Link, Doing
  <2>3. Loaded' = Loaded \cup {this}
    BY <2>1, <2>2, ModuleLinked DEF TypeOK
  <2>4. Bundles' = S
    BY <2>1, <2>2, <2>3 DEF Bundles
  <2>5. Doing("close")' /\ ~Has(todo', "forget")
    <3>1. <<>> \in Seq(Task)
      OBVIOUS
    <3> QED BY <2>2, <3>1, FirstSteps DEF Doing
  <2>6. Staying' = S
    BY <2>4, <2>5 DEF Staying, Going
  <2>7. Distinct'
    <3>1. \A f, g \in S : f # g => Defines[f] \cap Defines[g] = {}
      BY <2>1, <2>2 DEF OpenInv, Distinct, Unmarked, Among
    <3> QED BY <2>4, <3>1 DEF Distinct
  <2>8. S \in SUBSET File /\ Bundles \subseteq S /\ ~Doing("close")
    BY <1>2, <2>1, <2>2 DEF Doing
  <2> QED BY <1>21, <2>2, <2>4, <2>5, <2>6, <2>7, <2>8
<1>23. ASSUME LinkLibrary PROVE OpenInv'
  <2>1. PICK S, this : S = Bundles /\ this = This
    OBVIOUS
  <2>2. /\ Doing("link") /\ this \in File /\ this \in Shared
        /\ executable' = Ranks(S, S)
        /\ UNCHANGED <<libraries, loadrank, dlmodule>>
    BY <1>1, <1>23, <2>1 DEF LinkLibrary, Doing
  <2>3. CASE todo' = <<>> /\ modules' = modules
    BY <1>18, <2>2, <2>3 DEF During, Doing
  <2>4. CASE /\ modules' = Append(modules, This)
             /\ todo' = Do(This, <<"close", "open", "check">>)
    <3>1. Loaded' = Loaded \cup {this}
      BY <2>1, <2>2, <2>4, ModuleLinked DEF TypeOK
    <3>2. Bundles' = S
      BY <2>1, <2>2, <3>1 DEF Bundles
    <3>3. Doing("close")' /\ ~Has(todo', "forget")
      <4>1. <<>> \in Seq(Task) /\ todo' = Do(this, <<"close", "open", "check">>)
        BY <2>1, <2>4
      <4> QED BY <2>2, <4>1, FirstSteps DEF Doing
    <3>4. Staying' = S
      BY <3>2, <3>3 DEF Staying, Going
    <3>5. Distinct'
      BY <2>1, <3>2 DEF OpenInv, Distinct
    <3>6. S \in SUBSET File /\ Bundles \subseteq S /\ ~Doing("close")
      BY <1>2, <2>1, <2>2 DEF Doing
    <3> QED BY <1>21, <2>2, <3>2, <3>3, <3>4, <3>5, <3>6
  <2> QED BY <1>23, <2>3, <2>4 DEF LinkLibrary, Abandon
<1>24. ASSUME Unload PROVE OpenInv'
  <2>1. PICK S, T : S = Bundles /\ T = Bundles \ {This}
    OBVIOUS
  <2>2. /\ Doing("unload") /\ executable' = Ranks(S, T)
        /\ UNCHANGED <<modules, libraries, loadrank, dlmodule>>
    BY <1>24, <2>1 DEF Unload
  <2>3. CASE todo' = <<>>
    BY <1>18, <2>2, <2>3 DEF During, Doing
  <2>4. CASE todo' = Tail(todo)
    <3>1. /\ todo' # <<>> /\ This' = This /\ todo'[1].do = "close"
          /\ Has(todo', "forget") <=> Has(todo, "forget")
      BY <2>2, <2>4, NextStep DEF Doing, Follows, Order, Final, Steps
    <3>2. Has(todo, "unload")
      BY <2>2, TaskInProgress DEF Doing, Has
    <3>3. Has(todo', "forget")
      BY <3>1, <3>2 DEF TodoInv, Plan
    <3>4. Bundles' = S /\ Staying' = T
      BY <1>3, <2>1, <2>2, <3>1, <3>3 DEF Staying, Going
    <3>5. Distinct' /\ Doing("close")'
      BY <2>1, <3>1, <3>4 DEF OpenInv, Distinct, Doing
    <3>6. T \in SUBSET File /\ Bundles \subseteq S /\ ~Doing("close")
      BY <1>2, <2>1, <2>2 DEF Doing
    <3> QED BY <1>21, <2>2, <3>4, <3>5, <3>6
  <2> QED BY <1>24, <2>3, <2>4 DEF Unload, Abandon
<1>25. ASSUME Forget PROVE OpenInv'
  <2>1. /\ Doing("forget") /\ todo' = Tail(todo)
        /\ executable' = [executable EXCEPT ![This] = -1]
        /\ UNCHANGED <<libraries, loadrank, dlmodule>>
    BY <1>25 DEF Forget
  <2>2. Loaded' \subseteq Loaded /\ Loaded \ {This} \subseteq Loaded'
    BY <1>25, ModuleForgotten DEF TypeOK
  <2>3. This \notin dlmodule /\ ToClose = {} /\ ToOpen = {}
    BY <2>1 DEF OpenInv, ForgottenClosed, NoneToClose, NoneToOpen, During, Doing
  <2>4. Distinct' /\ OpenAreLoaded'
    BY <2>1, <2>2, <2>3 DEF OpenInv, Distinct, OpenAreLoaded, Bundles
  <2>5. dlmodule \subseteq File
    BY DEF TypeOK
  <2>6. OpenInOrder' /\ LowestRanks'
    BY <1>2, <2>1, <2>5, OpenUnchanged DEF OpenInv, Doing
  <2>7. todo'[1].do = "check"
    BY <2>1, NextStep DEF Doing, Follows, Order, Final
  <2>8. Ranked' /\ ForgottenClosed'
    BY <2>7 DEF Ranked, ForgottenClosed, During, Doing
  <2>9. \A f \in File : executable'[f] = IF f = This THEN -1 ELSE executable[f]
    BY <2>1 DEF TypeOK
  <2>10. ToClose' = {}
    BY <2>1, <2>3, <2>5, <2>9 DEF ToClose
  <2>11. ToOpen' = {}
    <3>1. \A f \in ToOpen' : f \in Bundles \ dlmodule /\ f # This /\ 0 <= executable[f]
      BY <1>2, <2>1, <2>2, <2>9 DEF ToOpen, Bundles
    <3> QED BY <2>3, <3>1 DEF ToOpen
  <2> QED BY <2>4, <2>6, <2>8, <2>10, <2>11 DEF OpenInv, NoneToClose, NoneToOpen
<1>26. ASSUME UNCHANGED vars PROVE OpenInv'
  BY <1>6, <1>26 DEF vars, bundles
<1> QED BY <1>4, <1>5, <1>7, <1>8, <1>9, <1>11, <1>12, <1>13, <1>14, <1>15, <1>16,
           <1>17, <1>19, <1>20, <1>22, <1>23, <1>24, <1>25, <1>26 DEF Next

Inv == TypeOK /\ PointersDefined /\ TodoInv /\ OpenInv

LEMMA InvInitially ==
  ASSUME Init
  PROVE  Inv
<1>1. Loaded = {} /\ Bundles = {}
  BY DEF Init, Loaded, Bundles
<1>2. TypeOK
  <2>1. \A f \in File : Cardinality(File) \in Nat \ {0}
    <3>1. ASSUME NEW f \in File PROVE Cardinality(File) # 0
      BY ModulesAssumption, FS_EmptySet
    <3> QED BY <3>1, SizeType
  <2>2. executable \in [File -> -1..(Cardinality(File) - 1)]
    BY SizeType DEF Init
  <2>3. loadrank \in [File -> 0..(Cardinality(File) - 1)]
    BY <2>1 DEF Init
  <2> QED BY <1>1, <2>2, <2>3 DEF Init, TypeOK
<1>3. PointersDefined
  BY DEF Init, PointersDefined
<1>4. TodoInv
  BY DEF Init, TodoInv, Plan, Has
<1>5. OpenInv
  BY <1>1 DEF Init, OpenInv, Distinct, OpenAreLoaded, OpenInOrder, LowestRanks, During, Doing,
       Ranked, NoneToClose, NoneToOpen, ForgottenClosed
<1> QED BY <1>2, <1>3, <1>4, <1>5 DEF Inv

THEOREM InvariantHolds == Spec => []Inv
<1>1. Init => Inv
  BY InvInitially
<1>2. Inv /\ [Next]_vars => Inv'
  BY TypesKept, TodoKept, OpenInvKept DEF Inv
<1> QED BY <1>1, <1>2, PTL DEF Spec

\* The variables keep their types whatever is loaded and unloaded: only loaded
\* modules have flags, there are objects of defined classes only, and no bundle is
\* ever opened with a rank that nsbundle_exec does not give.
THEOREM TypeCorrect == Spec => []TypeOK
<1>1. Inv => TypeOK
  BY DEF Inv
<1> QED BY <1>1, InvariantHolds, PTL

\* For any files, whatever the symbols they define and refer to, in any order of
\* loading and unloading: an open bundle finds every symbol it refers to in lush, in
\* a library or in an open bundle, also between the steps of nsbundle_update.
THEOREM OpenLinkedCorrect == Spec => []OpenBundlesLinked
<1>1. Inv => OpenBundlesLinked
  <2> SUFFICES ASSUME Inv, NEW f \in dlmodule, NEW s \in Refers[f], ~isdef(s)
               PROVE  Among(dlmodule, s)
    BY DEF OpenBundlesLinked
  <2>1. OpenInOrder
    BY DEF Inv, OpenInv
  <2> QED BY <2>1 DEF OpenInOrder, Among
<1> QED BY <1>1, InvariantHolds, PTL

-----------------------------------------------------------------------------
(* What is accessible.                                                     *)

\* No hook ends in an error when it is told that executability changed.
HooksReturn == "on_exec" \notin Failing

\* No object file defines a symbol that lush or a library defines too.
OverridesNothing ==
  \A f \in File \ Shared : \A s \in Defines[f] :
    s \notin Known /\ \A l \in Shared : s \notin Defines[l]

Pending(step, f) == \E i \in DOMAIN todo : todo[i].do = step /\ todo[i].file = f

\* The flag of f is yet to be updated.
Stale(f) == During({"close", "open", "forget", "check"}) \/ Pending("exec", f)

\* Init functions are called of executable modules, ...
CallsExecutable == \A f \in File : Pending("call", f) => f \in EXEC

\* ... the module that is unloaded defines no primitive any more, ...
GoingUndefined == Going /\ During({"unload", "close", "open", "forget"}) => This \notin defs

\* ... primitives are those of executable modules, ...
PointersExecutable == \A f \in File : info[f] # "none" => f \in EXEC

\* ... and point into the module if it is open; ...
PointersOpen == \A f \in File : info[f] = "code" => f \in dlmodule \cup Shared

\* ... if it was closed, it will not be opened before update_exec_flag gets there.
DanglingStale ==
  \A f \in File : info[f] = "dangling" =>
    /\ f \notin dlmodule \cup Shared
    /\ During({"close", "open"}) => executable[f] < 0
    /\ Stale(f)

ExecOpen == \A f \in EXEC \ Shared : f \in dlmodule \/ Stale(f)

AccessInv ==
  /\ CallsExecutable /\ GoingUndefined /\ PointersExecutable /\ PointersOpen
  /\ DanglingStale /\ ExecOpen

\* Flags are updated first, and init functions called after something with the module.
LEMMA PlanHeads ==
  ASSUME TodoInv
  PROVE  /\ Has(todo, "exec") => During({"exec", "on_exec"})
         /\ Has(todo, "call") => During({"on_unlink", "cleanup", "call"})
<1>1. todo \in Seq(Task) /\ Len(todo) \in Nat /\ DOMAIN todo = 1..Len(todo)
  BY DEF TodoInv, Plan
<1>2. \A i \in 1..(Len(todo) - 1) : Follows(todo[i], todo[i + 1])
  BY DEF TodoInv, Plan
<1>3. ASSUME NEW i \in DOMAIN todo, i # 1
      PROVE  /\ i - 1 \in DOMAIN todo /\ <<todo[i - 1].do, todo[i].do>> \in Order
             /\ todo # <<>>
  <2>1. PICK j : j = i - 1
    OBVIOUS
  <2>2. j \in 1..(Len(todo) - 1) /\ i = j + 1
    BY <1>1, <1>3, <2>1
  <2>3. Follows(todo[j], todo[j + 1])
    BY <1>2, <2>2
  <2> QED BY <1>1, <2>1, <2>2, <2>3 DEF Follows
<1>4. ASSUME Has(todo, "exec") PROVE During({"exec", "on_exec"})
  <2> DEFINE I == {i \in DOMAIN todo : todo[i].do \in {"exec", "on_exec"}}
  <2>1. I \in SUBSET Nat /\ I # {}
    BY <1>1, <1>4 DEF Has
  <2>2. PICK i \in I : \A j \in I : i <= j
    <3> HIDE DEF I
    <3> QED BY <2>1, LeastPosition
  <2>3. CASE i = 1
    BY <1>1, <2>2, <2>3 DEF During
  <2>4. CASE i # 1
    <3>1. i - 1 \in DOMAIN todo /\ <<todo[i - 1].do, todo[i].do>> \in Order
      BY <1>3, <2>2, <2>4
    <3>2. todo[i - 1].do \in {"exec", "on_exec"}
      BY <2>2, <3>1 DEF Order
    <3>3. i - 1 \in I /\ ~(i <= i - 1)
      BY <1>1, <2>2, <3>1, <3>2
    <3> QED BY <2>2, <3>3
  <2> QED BY <2>3, <2>4
<1>5. ASSUME Has(todo, "call") PROVE During({"on_unlink", "cleanup", "call"})
  <2> DEFINE I == {i \in DOMAIN todo : todo[i].do \in {"on_unlink", "cleanup", "call"}}
  <2>1. I \in SUBSET Nat /\ I # {}
    BY <1>1, <1>5 DEF Has
  <2>2. PICK i \in I : \A j \in I : i <= j
    <3> HIDE DEF I
    <3> QED BY <2>1, LeastPosition
  <2>3. CASE i = 1
    BY <1>1, <2>2, <2>3 DEF During
  <2>4. CASE i # 1
    <3>1. i - 1 \in DOMAIN todo /\ <<todo[i - 1].do, todo[i].do>> \in Order
      BY <1>3, <2>2, <2>4
    <3>2. todo[i - 1].do \in {"on_unlink", "cleanup", "call"}
      BY <2>2, <3>1 DEF Order
    <3>3. i - 1 \in I /\ ~(i <= i - 1)
      BY <1>1, <2>2, <3>1, <3>2
    <3> QED BY <2>2, <3>3
  <2> QED BY <2>3, <2>4
<1> QED BY <1>4, <1>5

\* Nothing is stale but while bundles are updated, ...
LEMMA NothingStale ==
  ASSUME TodoInv, ~During({"close", "open", "forget", "check", "exec", "on_exec"}), NEW f
  PROVE  ~Stale(f)
<1>1. ~Has(todo, "exec")
  BY PlanHeads DEF During
<1> QED BY <1>1 DEF Stale, During, Pending, Has

\* ... and what was pending is so until it is done.
LEMMA StillPending ==
  ASSUME TodoInv, todo # <<>>, todo' = Tail(todo), NEW step, NEW f
  PROVE  /\ Pending(step, f)' => Pending(step, f)
         /\ (todo[1].do # step \/ todo[1].file # f) => (Pending(step, f) => Pending(step, f)')
<1>1. PICK q : q = Tail(todo)
  OBVIOUS
<1>2. /\ Len(todo) \in Nat \ {0} /\ Len(q) = Len(todo) - 1
      /\ \A i \in 1..(Len(todo) - 1) : q[i] = todo[i + 1]
  BY <1>1, PlanTail DEF TodoInv
<1>3. DOMAIN todo = 1..Len(todo) /\ DOMAIN q = 1..(Len(todo) - 1)
  <2>1. todo \in Seq(Task) /\ q \in Seq(Task)
    BY <1>1, PlanTail DEF TodoInv, Plan
  <2> QED BY <1>2, <2>1
<1>4. ASSUME NEW i \in DOMAIN q, q[i].do = step, q[i].file = f
      PROVE  Pending(step, f)
  <2>1. i + 1 \in DOMAIN todo /\ todo[i + 1] = q[i]
    BY <1>2, <1>3
  <2> QED BY <1>4, <2>1 DEF Pending
<1>5. ASSUME NEW i \in DOMAIN todo, todo[i].do = step, todo[i].file = f, i # 1
      PROVE  \E j \in DOMAIN q : q[j].do = step /\ q[j].file = f
  <2>1. PICK j : j = i - 1
    OBVIOUS
  <2>2. j \in 1..(Len(todo) - 1) /\ i = j + 1
    BY <1>2, <1>3, <1>5, <2>1
  <2>3. j \in DOMAIN q /\ q[j] = todo[i]
    BY <1>2, <1>3, <2>2
  <2> QED BY <1>5, <2>3
<1> QED BY <1>1, <1>4, <1>5 DEF Pending

LEMMA InJoin ==
  ASSUME NEW p \in Seq(Task), NEW q \in Seq(Task), NEW i \in DOMAIN (p \o q)
  PROVE  (\E j \in DOMAIN p : (p \o q)[i] = p[j]) \/ (\E j \in DOMAIN q : (p \o q)[i] = q[j])
<1>1. /\ Len(p) \in Nat /\ Len(q) \in Nat /\ DOMAIN p = 1..Len(p) /\ DOMAIN q = 1..Len(q)
      /\ i \in 1..(Len(p) + Len(q))
  OBVIOUS
<1>2. CASE i <= Len(p)
  BY <1>1, <1>2
<1>3. CASE ~(i <= Len(p))
  <2>1. PICK j : j = i - Len(p)
    OBVIOUS
  <2>2. j \in DOMAIN q /\ (p \o q)[i] = q[j]
    BY <1>1, <1>3, <2>1
  <2> QED BY <2>2
<1> QED BY <1>2, <1>3

LEMMA JoinStarts ==
  ASSUME NEW p \in Seq(Task), NEW q \in Seq(Task), NEW i \in DOMAIN p
  PROVE  i \in DOMAIN (p \o q) /\ (p \o q)[i] = p[i]
OBVIOUS

LEMMA InDo ==
  ASSUME NEW f \in File, NEW steps \in Seq(Steps), NEW i \in DOMAIN Do(f, steps)
  PROVE  /\ Do(f, steps)[i].file = f
         /\ \E k \in 1..Len(steps) : Do(f, steps)[i].do = steps[k]
<1>1. PICK p : p = Do(f, steps)
  OBVIOUS
<1>2. p \in Seq(Task) /\ Len(p) = Len(steps) /\ Len(steps) \in Nat
  BY <1>1, DoProperties
<1>3. i \in 1..Len(steps)
  BY <1>1, <1>2
<1> QED BY <1>3, DoProperties

\* The plans of module_load, module_unload and nsbundle_load call no init function.
LEMMA NoCallsYet ==
  ASSUME NEW f \in File
  PROVE  /\ module_load(f) \/ module_unload(f) =>
              ~Has(todo', "call") /\ todo'[1].do \in {"dlopen", "on_unlink", "link"}
         /\ ~Has(Do(f, <<"close", "open", "check">>), "call")
<1>1. PICK s :
        s = <<"on_unlink", "cleanup", "unload", "close", "open", "forget", "check">>
  OBVIOUS
<1>2. /\ s \in Seq(Steps) /\ Len(s) = 7
      /\ s[1] = "on_unlink" /\ s[2] = "cleanup" /\ s[3] = "unload"
      /\ s[4] = "close" /\ s[5] = "open" /\ s[6] = "forget" /\ s[7] = "check"
  BY <1>1 DEF Steps, Hook
<1>3. /\ Unloading(f) \in Seq(Task)
      /\ \A i \in DOMAIN Unloading(f) : Unloading(f)[i].do # "call"
  <2>1. Unloading(f) = Do(f, s)
    BY <1>1 DEF Unloading
  <2>2. \A k \in 1..Len(s) : s[k] # "call"
    BY <1>2
  <2>3. \A i \in DOMAIN Do(f, s) : \E k \in 1..Len(s) : Do(f, s)[i].do = s[k]
    BY <1>2, InDo
  <2>4. Do(f, s) \in Seq(Task)
    BY <1>2, DoProperties
  <2> QED BY <2>1, <2>2, <2>3, <2>4
<1>4. PICK t : t = <<"link">>
  OBVIOUS
<1>5. /\ t \in Seq(Steps) /\ Len(t) = 1 /\ t[1] = "link"
  BY <1>4 DEF Steps
<1>6. PICK p : p = Do(f, t)
  OBVIOUS
<1>7. /\ p \in Seq(Task) /\ p[1].do = "link" /\ p # <<>>
      /\ \A i \in DOMAIN p : p[i].do # "call"
  <2>1. \A k \in 1..Len(t) : t[k] # "call"
    BY <1>5
  <2>2. \A i \in DOMAIN p : \E k \in 1..Len(t) : p[i].do = t[k]
    BY <1>5, <1>6, InDo
  <2>3. p \in Seq(Task) /\ p[1].do = t[1] /\ p # <<>>
    <3>1. <<>> \in Seq(Task) /\ t # <<>>
      BY <1>5
    <3> QED BY <1>5, <1>6, <3>1, DoProperties, FirstOfDo
  <2> QED BY <1>5, <2>1, <2>2, <2>3
<1>8. PICK u : u = <<"dlopen", "link">>
  OBVIOUS
<1>9. /\ u \in Seq(Steps) /\ Len(u) = 2 /\ u[1] = "dlopen" /\ u[2] = "link"
  BY <1>8 DEF Steps
<1>10. \A i \in DOMAIN Do(f, u) : Do(f, u)[i].do # "call"
  <2>1. \A k \in 1..Len(u) : u[k] # "call"
    BY <1>9
  <2>2. \A i \in DOMAIN Do(f, u) : \E k \in 1..Len(u) : Do(f, u)[i].do = u[k]
    BY <1>9, InDo
  <2> QED BY <2>1, <2>2
<1>11. ASSUME module_unload(f)
       PROVE  ~Has(todo', "call") /\ todo'[1].do \in {"dlopen", "on_unlink", "link"}
  <2>1. todo' = Unloading(f)
    BY <1>11 DEF module_unload
  <2>2. Unloading(f)[1].do = "on_unlink"
    BY <1>7, FirstSteps
  <2> QED BY <1>3, <2>1, <2>2 DEF Has
<1>12. ASSUME module_load(f)
       PROVE  ~Has(todo', "call") /\ todo'[1].do \in {"dlopen", "on_unlink", "link"}
  <2>1. CASE f \in Shared
    <3>1. todo' = Do(f, u)
      BY <1>8, <1>12, <2>1 DEF module_load
    <3>2. Do(f, u)[1].do = "dlopen"
      BY <1>7, <1>8, FirstSteps
    <3> QED BY <1>10, <3>1, <3>2 DEF Has
  <2>2. CASE f \notin Shared /\ f \notin Loaded
    <3>1. todo' = <<>> \o p
      BY <1>4, <1>6, <1>12, <2>2 DEF module_load
    <3>2. todo' = p
      BY <1>7, <3>1
    <3> QED BY <1>7, <3>2 DEF Has
  <2>3. CASE f \notin Shared /\ f \in Loaded
    <3>1. PICK q : q = Unloading(f)
      OBVIOUS
    <3>2. todo' = q \o p
      BY <1>4, <1>6, <1>12, <2>3, <3>1 DEF module_load
    <3>3. (q \o p)[1].do = "on_unlink"
      BY <1>7, <3>1, FirstSteps
    <3>4. q \in Seq(Task) /\ \A i \in DOMAIN q : q[i].do # "call"
      BY <1>3, <3>1
    <3>5. \A i \in DOMAIN (q \o p) : (q \o p)[i].do # "call"
      <4> SUFFICES ASSUME NEW i \in DOMAIN (q \o p)
                   PROVE  (q \o p)[i].do # "call"
        OBVIOUS
      <4>1. \/ \E j \in DOMAIN q : (q \o p)[i] = q[j]
            \/ \E j \in DOMAIN p : (q \o p)[i] = p[j]
        BY <1>7, <3>4, InJoin
      <4> QED BY <1>7, <3>4, <4>1
    <3> QED BY <3>2, <3>3, <3>5 DEF Has
  <2> QED BY <2>1, <2>2, <2>3
<1>13. ~Has(Do(f, <<"close", "open", "check">>), "call")
  <2>1. PICK v : v = <<"close", "open", "check">>
    OBVIOUS
  <2>2. v \in Seq(Steps) /\ Len(v) = 3 /\ v[1] = "close" /\ v[2] = "open" /\ v[3] = "check"
    BY <2>1 DEF Steps
  <2>3. \A k \in 1..Len(v) : v[k] # "call"
    BY <2>2
  <2>4. \A i \in DOMAIN Do(f, v) : \E k \in 1..Len(v) : Do(f, v)[i].do = v[k]
    BY <2>2, InDo
  <2>5. \A i \in DOMAIN Do(f, v) : Do(f, v)[i].do # "call"
    BY <2>3, <2>4
  <2> QED BY <2>1, <2>5 DEF Has
<1> QED BY <1>11, <1>12, <1>13

\* update_init_flag calls at most the init function of the module in hand, ...
LEMMA CallsMade ==
  ASSUME TodoInv, UpdateInit, NEW g \in File, Pending("call", g)'
  PROVE  g = This /\ This \in EXEC /\ This \notin INIT
<1>1. PICK r : r = Tail(todo)
  OBVIOUS
<1>2. todo # <<>> /\ todo[1].do = "init"
  BY DEF UpdateInit, Doing
<1>3. r \in Seq(Task) /\ This \in File
  BY <1>1, <1>2, PlanTail, TaskInProgress DEF TodoInv, Plan
<1>4. \A i \in DOMAIN r : r[i].do # "call"
  <2>1. ~Has(todo, "call")
    BY <1>2, PlanHeads DEF During
  <2>2. /\ Len(todo) \in Nat \ {0} /\ Len(r) = Len(todo) - 1
        /\ \A i \in 1..(Len(todo) - 1) : r[i] = todo[i + 1]
    BY <1>1, <1>2, PlanTail DEF TodoInv
  <2>3. DOMAIN r = 1..(Len(todo) - 1) /\ DOMAIN todo = 1..Len(todo)
    BY <1>2, <1>3, <2>2, TaskInProgress
  <2>4. \A i \in DOMAIN r : i + 1 \in DOMAIN todo /\ r[i] = todo[i + 1]
    BY <2>2, <2>3
  <2> QED BY <2>1, <2>4 DEF Has
<1>5. PICK i \in DOMAIN todo' : todo'[i].do = "call" /\ todo'[i].file = g
  BY DEF Pending
<1>6. CASE This \in INIT \/ This \notin EXEC \cap named
  <2>1. todo' = <<>> \o r
    BY <1>1, <1>6 DEF UpdateInit
  <2>2. todo' = r
    BY <1>3, <2>1
  <2> QED BY <1>4, <1>5, <2>2
<1>7. CASE ~(This \in INIT \/ This \notin EXEC \cap named)
  <2>1. PICK s : /\ s \in Seq(Steps)
                 /\ todo' = Do(This, s) \o r
    <3>1. /\ <<"on_unlink", "cleanup", "call", "on_init">> \in Seq(Steps)
          /\ <<"call", "on_init">> \in Seq(Steps)
      BY DEF Steps, Hook
    <3> QED BY <1>1, <1>7, <3>1 DEF UpdateInit
  <2>2. PICK p : p = Do(This, s)
    OBVIOUS
  <2>3. p \in Seq(Task) /\ \A j \in DOMAIN p : p[j].file = This
    BY <1>3, <2>1, <2>2, DoProperties, InDo
  <2>4. \/ \E j \in DOMAIN p : (p \o r)[i] = p[j]
        \/ \E j \in DOMAIN r : (p \o r)[i] = r[j]
    BY <1>3, <1>5, <2>1, <2>2, <2>3, InJoin
  <2> QED BY <1>4, <1>5, <1>7, <2>1, <2>2, <2>3, <2>4
<1> QED BY <1>6, <1>7

\* ... and unloads nothing.
LEMMA InitMade ==
  ASSUME TodoInv, UpdateInit
  PROVE  ~During({"unload", "close", "open", "forget"})'
<1>1. PICK r : r = Tail(todo)
  OBVIOUS
<1>2. todo # <<>> /\ todo[1].do = "init"
  BY DEF UpdateInit, Doing
<1>3. /\ r \in Seq(Task)
      /\ r # <<>> => r[1].do \in {"init", "link"}
  BY <1>1, <1>2, PlanTail DEF TodoInv, Plan, Follows, Order
<1>4. This \in File
  BY <1>2, TaskInProgress
<1>5. CASE todo' = <<>> \o r
  <2>1. todo' = r
    BY <1>3, <1>5
  <2> QED BY <1>3, <2>1 DEF During
<1>6. CASE todo' = Do(This, <<"call", "on_init">>) \o r
  <2>1. todo'[1].do = "call"
    BY <1>3, <1>4, <1>6, FirstSteps
  <2> QED BY <2>1 DEF During
<1>7. CASE todo' = Do(This, <<"on_unlink", "cleanup", "call", "on_init">>) \o r
  <2>1. todo'[1].do = "on_unlink"
    BY <1>3, <1>4, <1>7, FirstSteps
  <2> QED BY <2>1 DEF During
<1> QED BY <1>1, <1>5, <1>6, <1>7 DEF UpdateInit

\* check_exec calls those of none before it has updated the flags.
LEMMA CheckMade ==
  ASSUME TypeOK, TodoInv, Check
  PROVE  /\ \A f \in Loaded : Pending("exec", f)'
         /\ ~Has(todo', "call")
         /\ ~During({"close", "open", "forget", "unload"})'
<1>1. PICK p, q, r, s : p = CheckExec /\ q = CheckInit /\ r = Tail(todo) /\ s = p \o q
  OBVIOUS
<1>2. todo # <<>> /\ todo[1].do = "check" /\ todo' = s \o r
  BY <1>1 DEF Check, Doing
<1>3. /\ p \in Seq(Task) /\ q \in Seq(Task)
      /\ \A i \in DOMAIN p : p[i].do \in {"exec", "on_exec"}
      /\ \A i \in DOMAIN q : q[i].do = "init"
      /\ \A f \in Loaded : \E i \in DOMAIN p : p[i].do = "exec" /\ p[i].file = f
  <2>1. /\ Plan(p, Loaded) /\ Plan(q, Loaded)
        /\ \A i \in 1..Len(p) : p[i].do \in {"exec", "on_exec"}
        /\ \A i \in 1..Len(q) : q[i].do = "init"
        /\ \A f \in Loaded : \E i \in 1..Len(p) : p[i].do = "exec" /\ p[i].file = f
    BY <1>1, CheckPlan DEF TypeOK
  <2>2. p \in Seq(Task) /\ q \in Seq(Task)
    BY <2>1 DEF Plan
  <2>3. DOMAIN p = 1..Len(p) /\ DOMAIN q = 1..Len(q)
    BY <2>2
  <2> QED BY <2>1, <2>2, <2>3
<1>4. /\ r \in Seq(Task)
      /\ \A i \in DOMAIN r : r[i].do = "link"
  <2>1. /\ Plan(r, Loaded) /\ (r # <<>> => r[1].do = "link")
    BY <1>1, <1>2, PlanTail DEF TodoInv, Follows, Order
  <2>2. r \in Seq(Task) /\ DOMAIN r = 1..Len(r) /\ Len(r) \in Nat
    BY <2>1 DEF Plan
  <2>3. ~(Len(r) > 1)
    <3> SUFFICES ASSUME Len(r) > 1
                 PROVE  FALSE
      OBVIOUS
    <3>1. 1 \in 1..(Len(r) - 1) /\ r # <<>>
      BY <2>2
    <3>2. Follows(r[1], r[1 + 1])
      BY <2>1, <3>1 DEF Plan
    <3> QED BY <2>1, <3>1, <3>2 DEF Follows, Order
  <2>4. \A i \in DOMAIN r : i = 1 /\ r # <<>>
    BY <2>2, <2>3
  <2> QED BY <2>1, <2>2, <2>4
<1>5. s \in Seq(Task) /\ \A i \in DOMAIN s : s[i].do \in {"exec", "on_exec", "init"}
  <2>1. s \in Seq(Task)
    BY <1>1, <1>3
  <2>2. ASSUME NEW i \in DOMAIN s
        PROVE  (\E j \in DOMAIN p : s[i] = p[j]) \/ (\E j \in DOMAIN q : s[i] = q[j])
    BY <1>1, <1>3, InJoin
  <2> QED BY <1>3, <2>1, <2>2
<1>6. \A i \in DOMAIN todo' : todo'[i].do \in {"exec", "on_exec", "init", "link"}
  <2> SUFFICES ASSUME NEW i \in DOMAIN todo'
               PROVE  todo'[i].do \in {"exec", "on_exec", "init", "link"}
    OBVIOUS
  <2>1. (\E j \in DOMAIN s : (s \o r)[i] = s[j]) \/ (\E j \in DOMAIN r : (s \o r)[i] = r[j])
    BY <1>2, <1>4, <1>5, InJoin
  <2> QED BY <1>2, <1>4, <1>5, <2>1
<1>7. todo' # <<>> => 1 \in DOMAIN todo'
  BY <1>2, <1>4, <1>5
<1>8. ASSUME NEW f \in Loaded
      PROVE  Pending("exec", f)'
  <2>1. PICK i \in DOMAIN p : p[i].do = "exec" /\ p[i].file = f
    BY <1>3
  <2>2. i \in DOMAIN (s \o r) /\ (s \o r)[i] = p[i]
    BY <1>1, <1>3, <1>4, <1>5, <2>1
  <2> QED BY <1>2, <2>1, <2>2 DEF Pending
<1> QED BY <1>6, <1>7, <1>8 DEF Has, During

\* Between steps that leave files, pointers and flags alone.
LEMMA AccessUnchanged ==
  ASSUME AccessInv, UNCHANGED <<info, EXEC, dlmodule>>,
         \A f \in File : Pending("call", f)' => Pending("call", f),
         ~During({"unload", "close", "open", "forget"})',
         \A f \in File : info[f] = "dangling" => Stale(f)',
         \A f \in EXEC \ Shared : f \in dlmodule \/ Stale(f)'
  PROVE  AccessInv'
<1>1. CallsExecutable' /\ PointersExecutable' /\ PointersOpen'
  BY DEF AccessInv, CallsExecutable, PointersExecutable, PointersOpen
<1>2. GoingUndefined'
  BY DEF GoingUndefined
<1>3. DanglingStale'
  BY DEF AccessInv, DanglingStale, During
<1>4. ExecOpen'
  BY DEF ExecOpen
<1> QED BY <1>1, <1>2, <1>3, <1>4 DEF AccessInv

LEMMA AccessKept ==
  ASSUME HooksReturn, Inv, AccessInv, [Next]_vars
  PROVE  AccessInv'
<1>1. /\ TypeOK /\ PointersDefined /\ TodoInv /\ OpenInv
      /\ CallsExecutable /\ GoingUndefined /\ PointersExecutable /\ PointersOpen
      /\ DanglingStale /\ ExecOpen
  BY DEF Inv, AccessInv
<1>2. todo # <<>> => /\ This \in File /\ todo[1].do \in Steps
                     /\ todo[1].do \notin Early => This \in Loaded
                     /\ 1 \in DOMAIN todo
  BY <1>1, TaskInProgress
<1>3. /\ EXEC \subseteq Loaded /\ Loaded \in SUBSET File /\ dlmodule \subseteq File \ Shared
      /\ info \in [File -> {"none", "code", "dangling"}]
  BY <1>1, BundlesType DEF TypeOK
<1>4. ASSUME ~During({"close", "open", "forget", "check", "exec", "on_exec"})
      PROVE  /\ \A f \in File : info[f] # "dangling"
             /\ EXEC \ Shared \subseteq dlmodule
  <2>1. \A f : ~Stale(f)
    BY <1>1, <1>4, NothingStale
  <2> QED BY <1>1, <1>3, <2>1 DEF DanglingStale, ExecOpen
<1>5. ASSUME ~Has(todo', "call")
      PROVE  \A f \in File : ~Pending("call", f)'
  BY <1>5 DEF Has, Pending
<1>6. ASSUME UNCHANGED <<info, EXEC, dlmodule, defs>>, todo' = todo,
             During({"close", "open"}) => executable' = executable
      PROVE  AccessInv'
  BY <1>1, <1>6 DEF AccessInv, CallsExecutable, GoingUndefined, PointersExecutable, PointersOpen,
     DanglingStale, ExecOpen, Stale, Pending, During, Going, This
<1>7. ASSUME NEW f \in File, module_load(f) \/ module_unload(f)
      PROVE  AccessInv'
  <2>1. todo = <<>> /\ UNCHANGED <<info, EXEC, dlmodule>>
    BY <1>7 DEF module_load, module_unload, bundles, flags
  <2>2. ~Has(todo', "call") /\ todo'[1].do \in {"dlopen", "on_unlink", "link"}
    BY <1>7, NoCallsYet
  <2>3. (\A g \in File : info[g] # "dangling") /\ EXEC \ Shared \subseteq dlmodule
    BY <1>4, <2>1 DEF During
  <2> QED BY <1>1, <1>3, <1>5, <2>1, <2>2, <2>3, AccessUnchanged DEF AccessInv, During
<1>8. ASSUME NEW f \in File, New(f) \/ Drop(f)
      PROVE  AccessInv'
  BY <1>6, <1>8 DEF New, Drop, bundles
<1>9. ASSUME NEW f \in File, CloseOne(f)
      PROVE  AccessInv'
  <2>1. /\ Doing("close") /\ f \in dlmodule /\ executable[f] < 0
        /\ dlmodule' = dlmodule \ {f}
        /\ info' = [info EXCEPT ![f] = IF @ = "code" THEN "dangling" ELSE @]
        /\ todo' = todo /\ executable' = executable /\ EXEC' = EXEC /\ defs' = defs
    BY <1>9 DEF CloseOne, Closes, ToClose, flags
  <2>2. /\ \A g \in File \ {f} : info'[g] = info[g]
        /\ info'[f] = IF info[f] = "code" THEN "dangling" ELSE info[f]
    BY <1>3, <2>1
  <2>3. \A g : Stale(g)'
    BY <2>1 DEF Stale, During, Doing
  <2>4. CallsExecutable' /\ GoingUndefined' /\ ExecOpen'
    BY <1>1, <2>1, <2>3 DEF CallsExecutable, GoingUndefined, ExecOpen, Pending, Going, During, This
  <2>5. PointersExecutable' /\ PointersOpen'
    BY <1>1, <2>1, <2>2 DEF PointersExecutable, PointersOpen
  <2>6. DanglingStale'
    BY <1>1, <1>3, <2>1, <2>2, <2>3 DEF DanglingStale, During
  <2> QED BY <2>4, <2>5, <2>6 DEF AccessInv
<1>10. ASSUME NEW f \in File, OpenOne(f)
       PROVE  AccessInv'
  <2>1. /\ Doing("open") /\ 0 <= executable[f] /\ executable[f] \in Int
        /\ dlmodule' = dlmodule \cup {f}
        /\ UNCHANGED <<info, EXEC, defs, executable, todo>>
    BY <1>1, <1>10, SizeType DEF OpenOne, Opens, ToOpen, flags, TypeOK
  <2>2. f \notin Shared
    BY <1>10 DEF OpenOne, Opens, ToOpen, Bundles
  <2>3. \A g : Stale(g)'
    BY <2>1 DEF Stale, During, Doing
  <2>4. CallsExecutable' /\ GoingUndefined' /\ ExecOpen' /\ PointersExecutable' /\ PointersOpen'
    BY <1>1, <2>1, <2>3 DEF CallsExecutable, GoingUndefined, ExecOpen, Pending, Going, During, This,
         PointersExecutable, PointersOpen
  <2>5. DanglingStale'
    <3>1. \A g \in File : info[g] = "dangling" => g # f
      BY <1>1, <2>1 DEF DanglingStale, During, Doing
    <3> QED BY <1>1, <2>1, <2>3, <3>1 DEF DanglingStale, During
  <2> QED BY <2>4, <2>5 DEF AccessInv
<1>11. ASSUME todo' = <<>>, UNCHANGED <<info, EXEC, dlmodule>>,
              ~During({"close", "open", "forget", "check", "exec", "on_exec"})
       PROVE  AccessInv'
  <2>1. ~During({"unload", "close", "open", "forget"})' /\ \A f \in File : ~Pending("call", f)'
    BY <1>11 DEF During, Pending
  <2> QED BY <1>1, <1>3, <1>4, <1>11, <2>1, AccessUnchanged DEF AccessInv
<1>12. ASSUME LinkDuplicate \/ LinkCircular \/ HookFails
       PROVE  AccessInv'
  <2>1. /\ todo' = <<>> /\ UNCHANGED <<info, EXEC, dlmodule>>
        /\ todo # <<>> /\ (todo[1].do = "link" \/ todo[1].do \in Failing)
    BY <1>12 DEF LinkDuplicate, LinkCircular, HookFails, Abandon, Doing, bundles, flags
  <2>2. ~During({"close", "open", "forget", "check", "exec", "on_exec"})
    BY <2>1, ModulesAssumption DEF HooksReturn, During
  <2> QED BY <1>11, <2>1, <2>2
<1>13. ASSUME UNCHANGED <<info, EXEC, dlmodule>>,
              todo' = Do(This, <<"close", "open", "check">>), Doing("link")
       PROVE  AccessInv'
  <2>1. /\ todo' # <<>> /\ todo'[1].do = "close" /\ ~Has(todo', "forget") /\ ~Has(todo', "call")
    <3>1. <<>> \in Seq(Task) /\ This \in File
      BY <1>2, <1>13 DEF Doing
    <3> QED BY <1>13, <3>1, FirstSteps, NoCallsYet
  <2>2. \A f \in File : info[f] # "dangling"
    BY <1>4, <1>13 DEF During, Doing
  <2>3. \A g : Stale(g)'
    BY <2>1 DEF Stale, During
  <2>4. CallsExecutable' /\ GoingUndefined'
    BY <1>5, <2>1 DEF CallsExecutable, GoingUndefined, Going
  <2>5. PointersExecutable' /\ PointersOpen' /\ DanglingStale' /\ ExecOpen'
    BY <1>1, <1>13, <2>2, <2>3 DEF PointersExecutable, PointersOpen, DanglingStale, ExecOpen
  <2> QED BY <2>4, <2>5 DEF AccessInv
<1>14. ASSUME Link PROVE AccessInv'
  BY <1>13, <1>14 DEF Link, flags
<1>15. ASSUME LinkLibrary PROVE AccessInv'
  <2>1. Doing("link") /\ UNCHANGED <<info, EXEC, dlmodule>>
    BY <1>15 DEF LinkLibrary, flags
  <2>2. ~During({"close", "open", "forget", "check", "exec", "on_exec"})
    BY <2>1 DEF During, Doing
  <2>3. CASE todo' = <<>>
    BY <1>11, <2>1, <2>2, <2>3
  <2>4. CASE todo' = Do(This, <<"close", "open", "check">>)
    BY <1>13, <2>1, <2>4
  <2> QED BY <1>15, <2>3, <2>4 DEF LinkLibrary, Abandon
<1>16. ASSUME OpenLibrary PROVE AccessInv'
  <2>1. /\ Doing("dlopen") /\ todo' = Tail(todo) /\ UNCHANGED <<info, EXEC, dlmodule>>
    BY <1>16 DEF OpenLibrary, bundles, flags
  <2>2. todo' # <<>> => todo'[1].do = "link"
    BY <1>1, <2>1, NextStep DEF Doing, Follows, Order
  <2>3. \A f \in File : Pending("call", f)' => Pending("call", f)
    BY <1>1, <2>1, StillPending DEF Doing
  <2>4. (\A f \in File : info[f] # "dangling") /\ EXEC \ Shared \subseteq dlmodule
    BY <1>4, <2>1 DEF During, Doing
  <2>5. ~During({"unload", "close", "open", "forget"})'
    BY <2>2 DEF During
  <2> QED BY <1>1, <1>3, <2>1, <2>3, <2>4, <2>5, AccessUnchanged DEF AccessInv
<1>17. ASSUME HookReturns PROVE AccessInv'
  <2>1. /\ todo # <<>> /\ todo[1].do \in {"on_unlink", "on_exec", "on_init"}
        /\ todo' = Tail(todo) /\ UNCHANGED <<info, EXEC, dlmodule>>
    BY <1>17 DEF HookReturns, LispRuns, Hook, bundles, flags
  <2>2. \A f \in File : /\ Pending("call", f)' => Pending("call", f)
                        /\ Pending("exec", f) => Pending("exec", f)'
    BY <1>1, <2>1, StillPending
  <2>3. ~During({"unload", "close", "open", "forget"})'
    BY <1>1, <2>1, NextStep DEF Follows, Order, During
  <2>4. \A f \in File : Stale(f) => Stale(f)'
    BY <2>1, <2>2 DEF Stale, During
  <2> QED BY <1>1, <1>3, <2>1, <2>2, <2>3, <2>4, AccessUnchanged
          DEF AccessInv, DanglingStale, ExecOpen
<1>18. ASSUME Check PROVE AccessInv'
  <2>1. UNCHANGED <<info, EXEC, dlmodule>>
    BY <1>18 DEF Check, bundles, flags
  <2>2. /\ \A f \in Loaded : Pending("exec", f)'
        /\ ~Has(todo', "call")
        /\ ~During({"close", "open", "forget", "unload"})'
    BY <1>1, <1>18, CheckMade
  <2>3. \A f \in EXEC : Stale(f)'
    BY <1>3, <2>2 DEF Stale
  <2>4. \A f \in File : info[f] = "dangling" => Stale(f)'
    BY <1>1, <2>3 DEF PointersExecutable
  <2>5. ~During({"unload", "close", "open", "forget"})'
    BY <2>2 DEF During
  <2>6. \A f \in File : Pending("call", f)' => Pending("call", f)
    BY <1>5, <2>2
  <2> QED BY <1>1, <2>1, <2>3, <2>4, <2>5, <2>6, AccessUnchanged DEF AccessInv
<1>19. ASSUME UpdateInit PROVE AccessInv'
  <2>1. /\ Doing("init") /\ UNCHANGED <<info, EXEC, dlmodule>>
    BY <1>19 DEF UpdateInit, bundles, flags
  <2>2. CallsExecutable'
    BY <1>1, <1>19, <2>1, CallsMade DEF CallsExecutable
  <2>3. (\A f \in File : info[f] # "dangling") /\ EXEC \ Shared \subseteq dlmodule
    BY <1>4, <2>1 DEF During, Doing
  <2>4. ~During({"unload", "close", "open", "forget"})'
    BY <1>1, <1>19, InitMade
  <2>5. GoingUndefined'
    BY <2>4 DEF GoingUndefined
  <2>6. PointersExecutable' /\ PointersOpen' /\ DanglingStale' /\ ExecOpen'
    BY <1>1, <2>1, <2>3 DEF PointersExecutable, PointersOpen, DanglingStale, ExecOpen
  <2> QED BY <2>2, <2>5, <2>6 DEF AccessInv
<1>20. ASSUME CallInit PROVE AccessInv'
  <2>1. /\ Doing("call") /\ todo' = Tail(todo) /\ UNCHANGED <<EXEC, dlmodule>>
        /\ info' = [info EXCEPT ![This] = "code"]
    BY <1>20 DEF CallInit, bundles
  <2>2. todo' # <<>> => todo'[1].do = "on_init"
    BY <1>1, <2>1, NextStep DEF Doing, Follows, Order
  <2>3. Pending("call", This)
    BY <1>2, <2>1 DEF Pending, Doing, This
  <2>4. This \in EXEC
    BY <1>1, <1>2, <2>1, <2>3 DEF CallsExecutable, Doing
  <2>5. (\A f \in File : info[f] # "dangling") /\ EXEC \ Shared \subseteq dlmodule
    BY <1>4, <2>1 DEF During, Doing
  <2>6. \A f \in File : info'[f] = IF f = This THEN "code" ELSE info[f]
    BY <1>3, <2>1
  <2>7. CallsExecutable'
    <3>1. \A f \in File : Pending("call", f)' => Pending("call", f)
      BY <1>1, <2>1, StillPending DEF Doing
    <3> QED BY <1>1, <2>1, <3>1 DEF CallsExecutable
  <2>8. GoingUndefined'
    BY <2>2 DEF GoingUndefined, During
  <2>9. PointersExecutable' /\ PointersOpen' /\ DanglingStale' /\ ExecOpen'
    BY <1>1, <2>1, <2>4, <2>5, <2>6 DEF PointersExecutable, PointersOpen, DanglingStale, ExecOpen
  <2> QED BY <2>7, <2>8, <2>9 DEF AccessInv
<1>21. ASSUME Cleanup PROVE AccessInv'
  <2>1. /\ Doing("cleanup") /\ todo' = Tail(todo) /\ UNCHANGED <<EXEC, dlmodule>>
        /\ info' = [info EXCEPT ![This] = "none"] /\ defs' = defs \ {This}
    BY <1>21 DEF Cleanup
  <2>2. todo' # <<>> /\ This' = This /\ todo'[1].do \in {"unload", "call"}
    BY <1>1, <2>1, NextStep DEF Doing, Follows, Order, Final
  <2>3. (\A f \in File : info[f] # "dangling") /\ EXEC \ Shared \subseteq dlmodule
    BY <1>4, <2>1 DEF During, Doing
  <2>4. \A f \in File : info'[f] = IF f = This THEN "none" ELSE info[f]
    BY <1>3, <2>1
  <2>5. CallsExecutable'
    <3>1. \A f \in File : Pending("call", f)' => Pending("call", f)
      BY <1>1, <2>1, StillPending DEF Doing
    <3> QED BY <1>1, <2>1, <3>1 DEF CallsExecutable
  <2>6. GoingUndefined'
    BY <2>1, <2>2 DEF GoingUndefined
  <2>7. PointersExecutable' /\ PointersOpen' /\ DanglingStale' /\ ExecOpen'
    BY <1>1, <2>1, <2>3, <2>4 DEF PointersExecutable, PointersOpen, DanglingStale, ExecOpen
  <2> QED BY <2>5, <2>6, <2>7 DEF AccessInv
<1>22. ASSUME Unload PROVE AccessInv'
  <2>1. /\ Doing("unload") /\ UNCHANGED <<info, EXEC, dlmodule, defs>>
        /\ todo' = <<>> \/ todo' = Tail(todo)
    BY <1>22 DEF Unload, Abandon, flags
  <2>2. CASE todo' = <<>>
    BY <1>11, <2>1, <2>2 DEF During, Doing
  <2>3. CASE todo' = Tail(todo)
    <3>1. /\ todo # <<>> /\ todo' # <<>> /\ This' = This /\ todo'[1].do = "close"
          /\ Has(todo', "forget") <=> Has(todo, "forget")
      BY <1>1, <2>1, <2>3, NextStep DEF Doing, Follows, Order, Final, Steps
    <3>2. \A f \in File : info[f] # "dangling"
      BY <1>4, <2>1 DEF During, Doing
    <3>3. \A g : Stale(g)'
      BY <3>1 DEF Stale, During
    <3>4. CallsExecutable'
      <4>1. \A f \in File : Pending("call", f)' => Pending("call", f)
        BY <1>1, <2>3, <3>1, StillPending
      <4> QED BY <1>1, <2>1, <4>1 DEF CallsExecutable
    <3>5. GoingUndefined'
      BY <1>1, <2>1, <3>1 DEF GoingUndefined, Going, During, Doing
    <3>6. PointersExecutable' /\ PointersOpen' /\ DanglingStale' /\ ExecOpen'
      BY <1>1, <2>1, <3>2, <3>3 DEF PointersExecutable, PointersOpen, DanglingStale, ExecOpen
    <3> QED BY <3>4, <3>5, <3>6 DEF AccessInv
  <2> QED BY <2>1, <2>2, <2>3
<1>23. ASSUME Updated PROVE AccessInv'
  <2>1. /\ todo # <<>> /\ todo[1].do \in {"close", "open"} /\ todo' = Tail(todo)
        /\ UNCHANGED <<info, EXEC, dlmodule, defs, executable>>
    BY <1>23 DEF Updated, Doing, bundles, flags
  <2>2. /\ todo' # <<>> /\ This' = This /\ todo'[1].do \in {"open", "forget", "check"}
        /\ Has(todo', "forget") <=> Has(todo, "forget")
    BY <1>1, <2>1, NextStep DEF Follows, Order, Final, Steps
  <2>3. \A g : Stale(g)'
    BY <2>2 DEF Stale, During
  <2>4. CallsExecutable'
    <3>1. \A f \in File : Pending("call", f)' => Pending("call", f)
      BY <1>1, <2>1, StillPending
    <3> QED BY <1>1, <2>1, <3>1 DEF CallsExecutable
  <2>5. GoingUndefined'
    BY <1>1, <2>1, <2>2 DEF GoingUndefined, Going, During
  <2>6. PointersExecutable' /\ PointersOpen' /\ DanglingStale' /\ ExecOpen'
    BY <1>1, <2>1, <2>3 DEF PointersExecutable, PointersOpen, DanglingStale, ExecOpen, During
  <2> QED BY <2>4, <2>5, <2>6 DEF AccessInv
<1>24. ASSUME Forget PROVE AccessInv'
  <2>1. /\ Doing("forget") /\ todo' = Tail(todo) /\ EXEC' = EXEC \ {This}
        /\ UNCHANGED <<info, dlmodule, defs>>
    BY <1>24 DEF Forget
  <2>2. todo' # <<>> /\ todo'[1].do = "check"
    BY <1>1, <2>1, NextStep DEF Doing, Follows, Order, Final
  <2>3. Going
    BY <1>2, <2>1 DEF Going, Has, Doing
  <2>4. This \in File /\ info[This] = "none"
    <3>1. This \notin defs
      BY <1>1, <2>1, <2>3 DEF GoingUndefined, During, Doing
    <3> QED BY <1>1, <1>2, <2>1, <3>1 DEF PointersDefined, Doing
  <2>5. \A g : Stale(g)'
    BY <2>2 DEF Stale, During
  <2>6. CallsExecutable'
    <3>1. ~Has(todo, "call")
      BY <1>1, <2>1, PlanHeads DEF During, Doing
    <3>2. \A f \in File : ~Pending("call", f)
      BY <3>1 DEF Has, Pending
    <3>3. \A f \in File : ~Pending("call", f)'
      BY <1>1, <2>1, <3>2, StillPending DEF Doing
    <3> QED BY <3>3 DEF CallsExecutable
  <2>7. GoingUndefined'
    BY <2>2 DEF GoingUndefined, During
  <2>8. PointersExecutable' /\ PointersOpen' /\ DanglingStale' /\ ExecOpen'
    BY <1>1, <2>1, <2>2, <2>4, <2>5 DEF PointersExecutable, PointersOpen, DanglingStale, ExecOpen,
       During
  <2> QED BY <2>6, <2>7, <2>8 DEF AccessInv
<1>25. ASSUME UpdateExec PROVE AccessInv'
  <2> DEFINE linked == This \in Shared \/ (This \in named /\ executable[This] >= 0)
  <2>1. /\ Doing("exec") /\ todo' = Tail(todo) /\ UNCHANGED <<dlmodule, defs>>
        /\ EXEC' = IF linked THEN EXEC \cup {This} ELSE EXEC \ {This}
        /\ info' = [info EXCEPT ![This] = Refreshed(This, linked)]
    BY <1>25 DEF UpdateExec, bundles
  <2>2. This \in File /\ This \in Loaded
    BY <1>2, <2>1 DEF Doing, Early
  <2>3. todo' # <<>> /\ todo'[1].do = "on_exec"
    BY <1>1, <2>1, NextStep DEF Doing, Follows, Order, Final
  <2>4. linked => This \in dlmodule \cup Shared
    <3>1. ToOpen = {}
      BY <1>1, <2>1 DEF OpenInv, NoneToOpen, During, Doing
    <3> QED BY <2>2, <3>1 DEF ToOpen, Bundles
  <2>5. /\ \A g \in File \ {This} : info'[g] = info[g]
        /\ info'[This] = IF This \notin defs \/ linked = (This \in EXEC) THEN info[This]
                         ELSE IF linked THEN "code" ELSE "none"
    BY <1>3, <2>1, <2>2 DEF Refreshed
  <2>6. \A g \in File \ {This} : Stale(g) => Stale(g)'
    <3>1. \A g \in File \ {This} : Pending("exec", g) => Pending("exec", g)'
      BY <1>1, <2>1, StillPending DEF Doing, This
    <3> QED BY <2>1, <3>1 DEF Stale, During, Doing
  <2>7. CallsExecutable'
    <3>1. ~Has(todo, "call")
      BY <1>1, <2>1, PlanHeads DEF During, Doing
    <3>2. \A f \in File : ~Pending("call", f)
      BY <3>1 DEF Has, Pending
    <3>3. \A f \in File : ~Pending("call", f)'
      BY <1>1, <2>1, <3>2, StillPending DEF Doing
    <3> QED BY <3>3 DEF CallsExecutable
  <2>8. GoingUndefined'
    BY <2>3 DEF GoingUndefined, During
  <2>9. info[This] # "none" => This \in defs /\ This \in EXEC
    BY <1>1, <2>2 DEF PointersDefined, PointersExecutable
  <2>10. linked \in BOOLEAN /\ (This \in EXEC) \in BOOLEAN
    OBVIOUS
  <2> HIDE DEF linked
  <2>11. info'[This] = IF linked /\ This \in defs THEN (IF This \in EXEC THEN info[This] ELSE "code")
                       ELSE "none"
    BY <2>5, <2>9, <2>10, <1>3, <2>2
  <2>12. PointersExecutable'
    BY <1>1, <2>1, <2>5, <2>11 DEF PointersExecutable
  <2>13. linked => info[This] # "dangling"
    BY <1>1, <2>2, <2>4 DEF DanglingStale
  <2>14. PointersOpen'
    BY <1>1, <2>1, <2>4, <2>5, <2>11 DEF PointersOpen
  <2>15. DanglingStale'
    <3>1. info'[This] # "dangling"
      BY <2>11, <2>13
    <3>2. ~During({"close", "open"})'
      BY <2>3 DEF During
    <3> QED BY <1>1, <2>1, <2>5, <2>6, <3>1, <3>2 DEF DanglingStale
  <2>16. ExecOpen'
    <3>1. EXEC \subseteq File
      BY <1>3
    <3> QED BY <1>1, <2>1, <2>4, <2>6, <3>1 DEF ExecOpen
  <2> QED BY <2>7, <2>8, <2>12, <2>14, <2>15, <2>16 DEF AccessInv
<1>26. ASSUME UNCHANGED vars PROVE AccessInv'
  BY <1>6, <1>26 DEF vars
<1> QED BY <1>7, <1>8, <1>9, <1>10, <1>12, <1>14, <1>15, <1>16, <1>17, <1>18, <1>19, <1>20,
           <1>21, <1>22, <1>23, <1>24, <1>25, <1>26 DEF Next
-----------------------------------------------------------------------------
(* Objects.                                                                *)

\* An object is of a class in an open module: none is closed by an update.
InstancesOpen == \A f \in instances \ Shared : f \in dlmodule
InstancesStay ==
  /\ Doing("unload") =>
       \E r \in [File -> Int] : /\ Sound(r, Bundles, Bundles \ {This})
                                /\ \A f \in instances \ Shared : 0 <= r[f]
  /\ Doing("close") => \A f \in instances \ Shared : 0 <= executable[f]

InstancesInv == InstancesOpen /\ InstancesStay

\* Bundles that can be numbered so that each finds its symbols below are ranked.
LEMMA NumberedAreRanked ==
  ASSUME NEW S, NEW T, NEW D \in SUBSET T, NEW m, \A f \in D : m[f] \in Nat,
         \A f \in D : \A s \in Refers[f] :
           IF Among(S, s) THEN \E g \in D : s \in Defines[g] /\ (g = f \/ m[g] < m[f])
           ELSE isdef(s),
         NEW r, Complete(r, S, T)
  PROVE  \A f \in D : 0 <= r[f]
<1> DEFINE Bad == {m[f] : f \in {g \in D : ~(0 <= r[g])}}
<1> SUFFICES ASSUME Bad # {}
             PROVE  FALSE
  OBVIOUS
<1>1. PICK n \in Bad : \A k \in Bad : n <= k
  <2>1. Bad \in SUBSET Nat
    OBVIOUS
  <2> HIDE DEF Bad
  <2> QED BY <2>1, LeastPosition
<1>2. PICK f \in D : m[f] = n /\ ~(0 <= r[f])
  BY <1>1
<1>3. \A g \in D : m[g] < m[f] => 0 <= r[g]
  <2> SUFFICES ASSUME NEW g \in D, m[g] < m[f], ~(0 <= r[g])
               PROVE  FALSE
    OBVIOUS
  <2>1. m[g] \in Bad /\ m[g] \in Nat /\ m[f] \in Nat
    BY <1>2
  <2>2. n <= m[g]
    BY <1>1, <2>1
  <2> QED BY <1>2, <2>1, <2>2
<1>4. ASSUME NEW s \in Refers[f], Among(S, s)
      PROVE  \E g \in T : s \in Defines[g] /\ (g = f \/ 0 <= r[g])
  <2>1. PICK g \in D : s \in Defines[g] /\ (g = f \/ m[g] < m[f])
    BY <1>4
  <2> QED BY <1>3, <2>1
<1>5. \A s \in Refers[f] : ~Among(S, s) => isdef(s)
  OBVIOUS
<1>6. 0 <= r[f]
  BY <1>2, <1>4, <1>5 DEF Complete
<1> QED BY <1>2, <1>6

\* Any two rankings agree on what is executable.
LEMMA SoundAreRanked ==
  ASSUME NEW S, NEW T \in SUBSET File, NEW r \in [File -> Int], Sound(r, S, T),
         NEW t, Complete(t, S, T), NEW f \in File, 0 <= r[f]
  PROVE  0 <= t[f]
<1> DEFINE D == {g \in File : 0 <= r[g]}
<1>1. D \in SUBSET T
  BY DEF Sound
<1>2. \A g \in D : r[g] \in Nat
  OBVIOUS
<1>3. ASSUME NEW h \in D, NEW s \in Refers[h]
      PROVE  IF Among(S, s) THEN \E g \in D : s \in Defines[g] /\ (g = h \/ r[g] < r[h])
             ELSE isdef(s)
  <2>1. CASE Among(S, s)
    <3>1. s \in Defines[h] \/ \E g \in T : s \in Defines[g] /\ 0 <= r[g] /\ r[g] < r[h]
      BY <1>3, <2>1 DEF Sound
    <3>2. \A g \in T : g \in File
      OBVIOUS
    <3> QED BY <1>3, <2>1, <3>1, <3>2
  <2>2. CASE ~Among(S, s)
    BY <1>3, <2>2 DEF Sound
  <2> QED BY <2>1, <2>2
<1>4. f \in D
  OBVIOUS
<1> HIDE DEF D
<1> QED BY <1>1, <1>2, <1>3, <1>4, NumberedAreRanked

LEMMA NotOverridden ==
  ASSUME OverridesNothing, libraries \subseteq Shared, NEW S \in SUBSET (File \ Shared),
         NEW s, Among(S, s)
  PROVE  ~isdef(s)
BY DEF OverridesNothing, Among, isdef

\* Loading a file does not make an open bundle lose its symbols.
LEMMA OpenStayRanked ==
  ASSUME OverridesNothing, TypeOK, OpenInOrder, NEW S \in SUBSET (File \ Shared),
         dlmodule \subseteq S, NEW r, Complete(r, S, S)
  PROVE  \A f \in dlmodule : 0 <= r[f]
<1>1. libraries \subseteq Shared /\ \A f \in dlmodule : loadrank[f] \in Nat
  BY SizeType DEF TypeOK
<1>2. ASSUME NEW f \in dlmodule, NEW s \in Refers[f]
      PROVE  IF Among(S, s)
             THEN \E g \in dlmodule : s \in Defines[g] /\ (g = f \/ loadrank[g] < loadrank[f])
             ELSE isdef(s)
  <2>1. \/ isdef(s) \/ s \in Defines[f]
        \/ \E g \in dlmodule : s \in Defines[g] /\ loadrank[g] < loadrank[f]
    BY <1>2 DEF OpenInOrder
  <2>2. CASE Among(S, s)
    BY <1>1, <1>2, <2>1, <2>2, NotOverridden
  <2>3. CASE ~Among(S, s)
    BY <1>2, <2>1, <2>3 DEF Among
  <2> QED BY <2>2, <2>3
<1> QED BY <1>1, <1>2, NumberedAreRanked

\* What is left to do is unloaded or closed only after it was linked or cleaned up.
LEMMA NothingClosed ==
  ASSUME TodoInv, todo # <<>>, todo' = Tail(todo), todo[1].do \notin {"cleanup", "unload"}
  PROVE  ~During({"unload", "close"})'
BY NextStep DEF During, Follows, Order

LEMMA InstancesKept ==
  ASSUME OverridesNothing, Inv, AccessInv, InstancesInv, [Next]_vars
  PROVE  InstancesInv'
<1>1. /\ TypeOK /\ TodoInv /\ OpenInv /\ PointersOpen
      /\ InstancesOpen /\ InstancesStay
  BY DEF Inv, AccessInv, InstancesInv
<1>2. /\ dlmodule \subseteq Bundles /\ Bundles \in SUBSET (File \ Shared)
      /\ libraries \subseteq Shared /\ instances \subseteq defs
      /\ \A f \in File : executable[f] \in Int
  BY <1>1, BundlesType, SizeType DEF TypeOK, OpenInv, OpenAreLoaded, Bundles
<1>3. ASSUME UNCHANGED <<instances, dlmodule>>, ~During({"unload", "close"})'
      PROVE  InstancesInv'
  BY <1>1, <1>3 DEF InstancesInv, InstancesOpen, InstancesStay, During, Doing
<1>4. ASSUME UNCHANGED <<instances, dlmodule>>, todo' = <<>>
      PROVE  InstancesInv'
  BY <1>3, <1>4 DEF During
<1>5. ASSUME UNCHANGED <<instances, dlmodule>>, todo # <<>>, todo' = Tail(todo),
             todo[1].do \notin {"cleanup", "unload"}
      PROVE  InstancesInv'
  BY <1>1, <1>3, <1>5, NothingClosed
<1>6. ASSUME NEW f \in File, module_load(f) \/ module_unload(f) PROVE InstancesInv'
  <2>1. UNCHANGED <<instances, dlmodule>>
    BY <1>6 DEF module_load, module_unload, bundles, flags
  <2>2. todo'[1].do \in {"dlopen", "on_unlink", "link"}
    BY <1>6, NoCallsYet
  <2> QED BY <1>3, <2>1, <2>2 DEF During
<1>7. ASSUME NEW f \in File, New(f) \/ Drop(f) PROVE InstancesInv'
  <2>1. /\ todo' = todo /\ dlmodule' = dlmodule
        /\ todo # <<>> => todo[1].do \in Hook
        /\ instances' \subseteq instances \cup {f}
        /\ f \in instances \/ info[f] = "code" \/ instances' \subseteq instances
    BY <1>7 DEF New, Drop, LispRuns, bundles
  <2>2. \A g \in instances' \ Shared : g \in dlmodule
    BY <1>1, <1>7, <2>1 DEF InstancesOpen, PointersOpen
  <2>3. ~Doing("unload")' /\ ~Doing("close")'
    BY <2>1 DEF Doing, Hook
  <2> QED BY <2>1, <2>2, <2>3 DEF InstancesInv, InstancesOpen, InstancesStay
<1>8. ASSUME NEW f \in File, CloseOne(f) PROVE InstancesInv'
  <2>1. /\ Doing("close") /\ f \in dlmodule /\ executable[f] < 0
        /\ dlmodule' = dlmodule \ {f}
        /\ UNCHANGED <<executable, instances, todo>>
    BY <1>8 DEF CloseOne, Closes, ToClose, flags
  <2>2. f \notin instances \ Shared
    BY <1>1, <1>2, <2>1 DEF InstancesStay
  <2>3. InstancesOpen'
    BY <1>1, <2>1, <2>2 DEF InstancesOpen
  <2>4. InstancesStay'
    BY <1>1, <2>1 DEF InstancesStay, Doing
  <2> QED BY <2>3, <2>4 DEF InstancesInv
<1>9. ASSUME NEW f \in File, OpenOne(f) PROVE InstancesInv'
  <2>1. /\ Doing("open") /\ dlmodule' = dlmodule \cup {f} /\ UNCHANGED <<instances, todo>>
    BY <1>9 DEF OpenOne, flags
  <2> QED BY <1>1, <2>1 DEF InstancesInv, InstancesOpen, InstancesStay, Doing
<1>10. ASSUME LinkDuplicate \/ LinkCircular \/ HookFails PROVE InstancesInv'
  BY <1>4, <1>10 DEF LinkDuplicate, LinkCircular, HookFails, Abandon, bundles, flags
<1>11. ASSUME NEW CONSTANT S \in SUBSET (File \ Shared), dlmodule \subseteq S,
              executable' = Ranks(S, S), UNCHANGED <<instances, dlmodule>>, ~Doing("unload")'
       PROVE  InstancesInv'
  <2>1. PICK r : r = Ranks(S, S)
    OBVIOUS
  <2>2. Complete(r, S, S)
    BY <2>1, RanksProperties
  <2>3. \A f \in dlmodule : 0 <= r[f]
    BY <1>1, <1>11, <2>2, OpenStayRanked DEF OpenInv
  <2>4. \A f \in instances \ Shared : 0 <= executable'[f]
    BY <1>1, <1>11, <2>1, <2>3 DEF InstancesOpen
  <2> QED BY <1>1, <1>11, <2>4 DEF InstancesInv, InstancesOpen, InstancesStay
<1>12. ASSUME Doing("link"), todo' = Do(This, <<"close", "open", "check">>)
       PROVE  ~Doing("unload")'
  <2>1. <<>> \in Seq(Task) /\ This \in File
    BY <1>1, <1>12, TaskInProgress DEF Doing
  <2>2. todo'[1].do = "close"
    BY <1>12, <2>1, FirstSteps
  <2> QED BY <2>2 DEF Doing
<1>13. ASSUME Link PROVE InstancesInv'
  <2>1. PICK S : S = Bundles \cup {This}
    OBVIOUS
  <2>2. /\ Doing("link") /\ This \notin Shared /\ executable' = Ranks(S, S)
        /\ UNCHANGED <<instances, dlmodule>>
        /\ todo' = Do(This, <<"close", "open", "check">>)
    BY <1>13, <2>1 DEF Link, flags
  <2>3. This \in File
    BY <1>1, <2>2, TaskInProgress DEF Doing
  <2>4. S \in SUBSET (File \ Shared) /\ dlmodule \subseteq S
    BY <1>2, <2>1, <2>2, <2>3
  <2>5. ~Doing("unload")'
    BY <1>12, <2>2
  <2> QED BY <1>11, <2>2, <2>4, <2>5
<1>14. ASSUME LinkLibrary PROVE InstancesInv'
  <2>1. PICK S : S = Bundles
    OBVIOUS
  <2>2. Doing("link") /\ executable' = Ranks(S, S) /\ UNCHANGED <<instances, dlmodule>>
    BY <1>14, <2>1 DEF LinkLibrary, flags
  <2>3. CASE todo' = <<>>
    BY <1>4, <2>2, <2>3
  <2>4. CASE todo' = Do(This, <<"close", "open", "check">>)
    <3>1. ~Doing("unload")'
      BY <1>12, <2>2, <2>4
    <3> QED BY <1>2, <1>11, <2>1, <2>2, <3>1
  <2> QED BY <1>14, <2>3, <2>4 DEF LinkLibrary, Abandon
<1>15. ASSUME Cleanup PROVE InstancesInv'
  <2>1. PICK S, this, r : S = Bundles /\ this = This /\ r = Ranks(S, S \ {this})
    OBVIOUS
  <2>2. /\ Doing("cleanup") /\ instances' = instances \ Dependents(this)
        /\ UNCHANGED <<dlmodule, libraries, modules>> /\ todo' = Tail(todo)
    BY <1>15, <2>1 DEF Cleanup
  <2>3. InstancesOpen'
    BY <1>1, <2>2 DEF InstancesOpen
  <2>4. S \ {this} \in SUBSET File
    BY <1>2, <2>1
  <2>5. r \in [File -> -1..(Cardinality(File) - 1)] /\ Sound(r, S, S \ {this})
    BY <2>1, <2>4, RanksProperties
  <2>6. r \in [File -> Int]
    BY <2>5, SizeType
  <2>7. Sound(r, S, S \ {this})'
    BY <2>2, <2>5, SameLibraries
  <2>8. todo' # <<>> /\ This' = this /\ todo'[1].do \in {"unload", "call"}
    BY <1>1, <2>1, <2>2, NextStep DEF Doing, Follows, Order, Final
  <2>9. Bundles' = S
    BY <2>1, <2>2 DEF Bundles, Loaded
  <2>10. \A f \in instances' \ Shared : 0 <= r[f]
    <3> SUFFICES ASSUME NEW f \in instances' \ Shared
                 PROVE  0 <= r[f]
      OBVIOUS
    <3>1. f \in instances /\ f \in defs /\ f \in Bundles /\ f \in File
      BY <1>1, <1>2, <2>2 DEF InstancesOpen
    <3>2. ~(r[f] < 0)
      BY <2>1, <2>2, <3>1 DEF Dependents
    <3> QED BY <2>6, <3>1, <3>2
  <2>11. InstancesStay'
    <3>1. Sound(r, Bundles, Bundles \ {This})'
      BY <2>7, <2>8, <2>9 DEF Sound
    <3>2. ~Doing("close")'
      BY <2>8 DEF Doing
    <3> QED BY <2>6, <2>10, <3>1, <3>2 DEF InstancesStay
  <2> QED BY <2>3, <2>11 DEF InstancesInv
<1>16. ASSUME Unload PROVE InstancesInv'
  <2>1. PICK S, T, t : S = Bundles /\ T = Bundles \ {This} /\ t = Ranks(S, T)
    OBVIOUS
  <2>2. Doing("unload") /\ executable' = t /\ UNCHANGED <<instances, dlmodule>>
    BY <1>16, <2>1 DEF Unload, flags
  <2>3. CASE todo' = <<>>
    BY <1>4, <2>2, <2>3
  <2>4. CASE todo' = Tail(todo)
    <3>1. PICK r \in [File -> Int] : Sound(r, S, T) /\ \A f \in instances \ Shared : 0 <= r[f]
      BY <1>1, <2>1, <2>2 DEF InstancesStay
    <3>2. Complete(t, S, T) /\ T \in SUBSET File
      BY <1>2, <2>1, RanksProperties
    <3>3. \A f \in instances \ Shared : f \in File
      BY <1>1, <1>2 DEF InstancesOpen
    <3>4. \A f \in instances \ Shared : 0 <= t[f]
      BY <3>1, <3>2, <3>3, SoundAreRanked
    <3>5. todo'[1].do = "close"
      BY <1>1, <2>2, <2>4, NextStep DEF Doing, Follows, Order, Final
    <3>6. InstancesStay'
      BY <2>2, <3>4, <3>5 DEF InstancesStay, Doing
    <3> QED BY <1>1, <2>2, <3>6 DEF InstancesInv, InstancesOpen
  <2> QED BY <1>16, <2>3, <2>4 DEF Unload, Abandon
<1>17. ASSUME OpenLibrary \/ Updated \/ Forget \/ UpdateExec \/ CallInit \/ HookReturns
       PROVE  InstancesInv'
  <2>1. /\ UNCHANGED <<instances, dlmodule>> /\ todo # <<>> /\ todo' = Tail(todo)
        /\ todo[1].do \in Hook \cup {"dlopen", "close", "open", "forget", "exec", "call"}
    BY <1>17 DEF OpenLibrary, Updated, Forget, UpdateExec, CallInit, HookReturns, LispRuns, Doing,
       bundles, flags
  <2> QED BY <1>5, <2>1 DEF Hook
<1>18. ASSUME Check \/ UpdateInit PROVE InstancesInv'
  <2>1. UNCHANGED <<instances, dlmodule>>
    BY <1>18 DEF Check, UpdateInit, bundles, flags
  <2>2. ~During({"unload", "close"})'
    BY <1>1, <1>18, CheckMade, InitMade DEF During
  <2> QED BY <1>3, <2>1, <2>2
<1>19. ASSUME UNCHANGED vars PROVE InstancesInv'
  <2>1. UNCHANGED <<instances, dlmodule, executable, todo, libraries, modules>>
    BY <1>19 DEF vars
  <2>2. InstancesOpen'
    BY <1>1, <2>1 DEF InstancesOpen
  <2>3. ASSUME Doing("unload")
        PROVE  \E r \in [File -> Int] : /\ Sound(r, Bundles, Bundles \ {This})'
                                        /\ \A f \in instances \ Shared : 0 <= r[f]
    <3>1. PICK S, T : S = Bundles /\ T = Bundles \ {This}
      OBVIOUS
    <3>2. PICK r \in [File -> Int] : Sound(r, S, T) /\ \A f \in instances \ Shared : 0 <= r[f]
      BY <1>1, <2>3, <3>1 DEF InstancesStay
    <3>3. Sound(r, S, T)'
      BY <2>1, <3>2, SameLibraries
    <3>4. S = Bundles' /\ T = (Bundles \ {This})'
      BY <2>1, <3>1 DEF Bundles, Loaded, This
    <3>5. Sound(r, Bundles, Bundles \ {This})'
      BY <3>3, <3>4 DEF Sound
    <3> QED BY <3>2, <3>5
  <2>4. InstancesStay'
    BY <1>1, <2>1, <2>3 DEF InstancesStay, Doing
  <2> QED BY <2>2, <2>4 DEF InstancesInv
<1> QED BY <1>6, <1>7, <1>8, <1>9, <1>10, <1>13, <1>14, <1>15, <1>16, <1>17, <1>18, <1>19 DEF Next

\* Whatever is loaded and unloaded, with hooks that fail or not while a module is
\* unlinked or initialized: between calls a primitive that check_primitive lets
\* through points into its module as it is loaded now, and the code of the class of
\* every object is loaded; if files define no symbol that lush or a library defines.
THEOREM AccessibleCorrect ==
  ASSUME HooksReturn, OverridesNothing
  PROVE  Spec => []AccessibleIsLinked
<1>1. Init => AccessInv /\ InstancesInv
  BY DEF Init, AccessInv, InstancesInv, CallsExecutable, GoingUndefined, PointersExecutable,
     PointersOpen, DanglingStale, ExecOpen, InstancesOpen, InstancesStay, Pending, Going, Has,
     During, Doing
<1>2. Inv /\ AccessInv /\ InstancesInv /\ [Next]_vars => AccessInv' /\ InstancesInv'
  BY AccessKept, InstancesKept
<1>3. Inv /\ AccessInv /\ InstancesInv => AccessibleIsLinked
  <2> SUFFICES ASSUME Inv, AccessInv, InstancesInv, todo = <<>>
               PROVE  /\ \A f \in File : check_primitive(f) => info[f] = "code"
                      /\ \A f \in instances \ Shared : f \in dlmodule
    BY DEF AccessibleIsLinked
  <2>1. \A f : ~Stale(f)
    BY NothingStale DEF Inv, During
  <2>2. \A f \in File : info[f] # "dangling" /\ info[f] \in {"none", "code", "dangling"}
    BY <2>1 DEF AccessInv, DanglingStale, Inv, TypeOK
  <2> QED BY <2>2 DEF check_primitive, InstancesInv, InstancesOpen
<1>4. Spec => []Inv
  BY InvariantHolds
<1>5. Spec => [](AccessInv /\ InstancesInv)
  BY <1>1, <1>2, <1>4, PTL DEF Spec
<1> QED BY <1>3, <1>4, <1>5, PTL

-----------------------------------------------------------------------------
(* What is executable.                                                     *)

\* No files refer to each other.
NoCycles == \A C \in SUBSET (File \ Shared) : ~Cycle(C)

NoDuplicates == \A i, j \in DOMAIN modules : modules[i] = modules[j] => i = j

\* A module is loaded again only after it is unloaded.
LinkedOnce == \A f \in File : Pending("link", f) /\ f \in Loaded => Pending("forget", f)

ChainInv == NoDuplicates /\ LinkedOnce

\* The bundles in C find all their symbols.
Supported(C) == \A g \in C : \A s \in Refers[g] : isdef(s) \/ Among(C, s)

\* While bundles are updated those that find their symbols are executable, ...
SupportedRanked ==
  During({"close", "open"}) =>
    \A C \in SUBSET Staying : Supported(C) => \A f \in C : 0 <= executable[f]

\* ... then they are open, until a library is opened that was not linked.
SupportedOpen ==
  ~During({"close", "open"}) /\ libraries \subseteq Loaded =>
    \A C \in SUBSET (IF Doing("forget") THEN Bundles \ {This} ELSE Bundles) :
      Supported(C) => C \subseteq dlmodule

\* What is open is executable for update_exec_flag.
OpenExecutable == \A f \in dlmodule \cap named : f \in EXEC \/ Stale(f)

FoundInv == SupportedRanked /\ SupportedOpen /\ OpenExecutable

\* A module is unloaded or forgotten after it was unlinked.
LEMMA GoingHeads ==
  ASSUME TodoInv, Has(todo, "forget")
  PROVE  During({"on_unlink", "cleanup", "unload", "close", "open", "forget"})
<1> DEFINE I == {i \in DOMAIN todo : todo[i].do \in {"on_unlink", "cleanup", "unload",
                                                     "close", "open", "forget"}}
<1>1. todo \in Seq(Task) /\ Len(todo) \in Nat /\ DOMAIN todo = 1..Len(todo)
  BY DEF TodoInv, Plan
<1>2. \A i \in 1..(Len(todo) - 1) : Follows(todo[i], todo[i + 1])
  BY DEF TodoInv, Plan
<1>3. I \in SUBSET Nat /\ I # {}
  BY <1>1 DEF Has
<1>4. PICK i \in I : \A j \in I : i <= j
  <2> HIDE DEF I
  <2> QED BY <1>3, LeastPosition
<1>5. CASE i = 1
  BY <1>1, <1>4, <1>5 DEF During
<1>6. CASE i # 1
  <2>1. PICK j : j = i - 1
    OBVIOUS
  <2>2. j \in 1..(Len(todo) - 1) /\ i = j + 1 /\ j \in DOMAIN todo /\ ~(i <= j)
    BY <1>1, <1>4, <1>6, <2>1
  <2>3. <<todo[j].do, todo[i].do>> \in Order
    BY <1>2, <2>2 DEF Follows
  <2>4. todo[j].do \in {"on_unlink", "cleanup", "unload", "close", "open", "forget"}
    BY <1>4, <2>3 DEF Order
  <2>5. j \in I
    BY <2>2, <2>4
  <2> QED BY <1>4, <2>2, <2>5
<1> QED BY <1>5, <1>6

\* With Ranks, unless nsbundle_exec meets a cycle, all that find their symbols are
\* executable.
LEMMA SupportedAreRanked ==
  ASSUME OverridesNothing, libraries \subseteq Shared, NEW S \in SUBSET (File \ Shared),
         NEW T \in SUBSET S, ~Circular(S, T), NEW C \in SUBSET T, Supported(C),
         NEW f \in C
  PROVE  0 <= Ranks(S, T)[f]
<1>1. PICK r : r = Ranks(S, T)
  OBVIOUS
<1>2. Complete(r, S, T)
  BY <1>1, RanksProperties
<1> DEFINE U == {g \in C : ~(0 <= r[g])}
           R == {g \in T : r[g] >= 0}
<1>3. \A g \in T : 0 <= r[g] => g \in R
  OBVIOUS
<1>4. ASSUME NEW g \in U, NEW s \in Refers[g]
      PROVE  IF Among(S, s) THEN Among(C, s) ELSE isdef(s)
  <2>1. isdef(s) \/ Among(C, s)
    BY DEF Supported
  <2>2. Among(S, s) => ~isdef(s)
    BY NotOverridden
  <2>3. Among(C, s) => Among(S, s)
    BY DEF Among
  <2> QED BY <2>1, <2>2, <2>3
<1>5. ASSUME NEW g \in U
      PROVE  \E s \in Refers[g] : Among(U \ {g}, s)
  <2> SUFFICES ASSUME \A s \in Refers[g] : ~Among(U \ {g}, s)
               PROVE  FALSE
    OBVIOUS
  <2>1. ASSUME NEW s \in Refers[g], Among(S, s)
        PROVE  \E h \in T : s \in Defines[h] /\ (h = g \/ 0 <= r[h])
    <3>1. PICK h \in C : s \in Defines[h]
      BY <1>4, <2>1 DEF Among
    <3>2. h \notin U \ {g}
      BY <2>1, <3>1 DEF Among
    <3> QED BY <3>1, <3>2
  <2>2. \A s \in Refers[g] : ~Among(S, s) => isdef(s)
    BY <1>4
  <2>3. 0 <= r[g]
    BY <1>2, <2>1, <2>2 DEF Complete
  <2> QED BY <2>3
<1>6. U \subseteq Resolved(S, T, U \cup R)
  <2> SUFFICES ASSUME NEW g \in U
               PROVE  g \in Resolved(S, T, U \cup R)
    OBVIOUS
  <2>1. C \subseteq U \cup R
    BY <1>3
  <2>2. \A s : Among(C, s) => Among(U \cup R \cup {g}, s)
    BY <2>1 DEF Among
  <2> QED BY <1>4, <2>2 DEF Resolved
<1>7. U \in SUBSET T /\ R = {g \in T : Ranks(S, T)[g] >= 0}
  BY <1>1
<1>8. U # {} => Cycle(U)
  BY <1>5 DEF Cycle
<1>9. U = {}
  <2> HIDE DEF U
  <2> QED BY <1>6, <1>7, <1>8 DEF Circular
<1> QED BY <1>1, <1>9

LEMMA ModuleLeft ==
  ASSUME modules \in Seq(File), NoDuplicates, Forget
  PROVE  NoDuplicates' /\ Loaded' = Loaded \ {This}
<1>1. PICK i \in DOMAIN modules : modules[i] = This /\ modules' = RemoveAt(modules, i)
  BY DEF Forget
<1>2. PICK m : m = modules'
  OBVIOUS
<1>3. /\ m \in Seq(File) /\ Len(m) = Len(modules) - 1
      /\ \A j \in 1..(Len(modules) - 1) : m[j] = IF j < i THEN modules[j] ELSE modules[j + 1]
  BY <1>1, <1>2, RemoveAtProperties
<1>4. Len(modules) \in Nat /\ DOMAIN modules = 1..Len(modules) /\ DOMAIN m = 1..(Len(modules) - 1)
  BY <1>3
<1>5. ASSUME NEW j \in DOMAIN m
      PROVE  \E k \in DOMAIN modules : /\ m[j] = modules[k] /\ k # i
                                       /\ k = IF j < i THEN j ELSE j + 1
  <2>1. PICK k : k = IF j < i THEN j ELSE j + 1
    OBVIOUS
  <2>2. k \in DOMAIN modules /\ k # i
    BY <1>1, <1>4, <2>1
  <2> QED BY <1>3, <1>4, <2>1, <2>2
<1>6. \A j, k \in DOMAIN m : m[j] = m[k] => j = k
  <2> SUFFICES ASSUME NEW j \in DOMAIN m, NEW k \in DOMAIN m, m[j] = m[k]
               PROVE  j = k
    OBVIOUS
  <2>1. PICK x \in DOMAIN modules : m[j] = modules[x] /\ x = IF j < i THEN j ELSE j + 1
    BY <1>5
  <2>2. PICK y \in DOMAIN modules : m[k] = modules[y] /\ y = IF k < i THEN k ELSE k + 1
    BY <1>5
  <2>3. x = y
    BY <2>1, <2>2 DEF NoDuplicates
  <2> QED BY <1>1, <1>4, <2>1, <2>2, <2>3
<1>7. \A j \in DOMAIN m : m[j] # This
  BY <1>1, <1>5 DEF NoDuplicates
<1>8. This \notin Loaded'
  BY <1>2, <1>7 DEF Loaded
<1>9. Loaded' \subseteq Loaded /\ Loaded \ {This} \subseteq Loaded'
  BY ModuleForgotten
<1> QED BY <1>2, <1>6, <1>8, <1>9 DEF NoDuplicates

\* The steps that module_load, check_exec and nsbundle_load set about load a file only
\* in module_load.
LEMMA LinksMade ==
  ASSUME NEW f \in File, NEW g \in File, Pending("link", g)'
  PROVE  /\ ~module_unload(f)
         /\ module_load(f) => g = f /\ (f \in Loaded => Pending("forget", f)')
         /\ todo' # Do(f, <<"close", "open", "check">>)
<1>1. PICK s :
        s = <<"on_unlink", "cleanup", "unload", "close", "open", "forget", "check">>
  OBVIOUS
<1>2. /\ s \in Seq(Steps) /\ Len(s) = 7
      /\ s[1] = "on_unlink" /\ s[2] = "cleanup" /\ s[3] = "unload"
      /\ s[4] = "close" /\ s[5] = "open" /\ s[6] = "forget" /\ s[7] = "check"
  BY <1>1 DEF Steps, Hook
<1>3. PICK u : u = Unloading(f)
  OBVIOUS
<1>4. /\ u \in Seq(Task) /\ Len(u) = 7
      /\ \A i \in DOMAIN u : u[i].do # "link" /\ u[i].file = f
      /\ 6 \in DOMAIN u /\ u[6].do = "forget" /\ u[6].file = f
  <2>1. u = Do(f, s)
    BY <1>1, <1>3 DEF Unloading
  <2>2. \A k \in 1..Len(s) : s[k] # "link"
    BY <1>2
  <2>3. \A i \in DOMAIN u : u[i].file = f /\ \E k \in 1..Len(s) : u[i].do = s[k]
    BY <1>2, <2>1, InDo
  <2>4. u \in Seq(Task) /\ Len(u) = Len(s)
    BY <1>2, <2>1, DoProperties
  <2>5. u[6].do = s[6]
    <3>1. 6 \in 1..Len(s)
      BY <1>2
    <3> QED BY <1>2, <2>1, <3>1, DoProperties
  <2>6. 6 \in DOMAIN u
    BY <1>2, <2>4
  <2> QED BY <1>2, <2>2, <2>3, <2>4, <2>5, <2>6
<1>5. ASSUME NEW t \in Seq(Steps)
      PROVE  Do(f, t) \in Seq(Task) /\ \A i \in DOMAIN Do(f, t) : Do(f, t)[i].file = f
  BY <1>5, DoProperties, InDo
<1>6. <<"link">> \in Seq(Steps) /\ <<"dlopen", "link">> \in Seq(Steps)
  BY DEF Steps
<1>7. PICK p, v : p = Do(f, <<"link">>) /\ v = Do(f, <<"dlopen", "link">>)
  OBVIOUS
<1>8. /\ p \in Seq(Task) /\ \A i \in DOMAIN p : p[i].file = f
      /\ v \in Seq(Task) /\ \A i \in DOMAIN v : v[i].file = f
  BY <1>5, <1>6, <1>7
<1>9. PICK k \in DOMAIN todo' : todo'[k].do = "link" /\ todo'[k].file = g
  BY DEF Pending
<1>10. ASSUME module_unload(f) PROVE FALSE
  <2>1. todo' = u
    BY <1>3, <1>10 DEF module_unload
  <2> QED BY <1>4, <1>9, <2>1
<1>11. ASSUME module_load(f)
       PROVE  g = f /\ (f \in Loaded => Pending("forget", f)')
  <2>1. CASE f \in Shared
    <3>1. todo' = v /\ f \notin Loaded
      BY <1>7, <1>11, <2>1 DEF module_load
    <3> QED BY <1>8, <1>9, <3>1
  <2>2. CASE f \notin Shared /\ f \notin Loaded
    <3>1. todo' = <<>> \o p
      BY <1>7, <1>11, <2>2 DEF module_load
    <3>2. todo' = p
      BY <1>8, <3>1
    <3> QED BY <1>8, <1>9, <2>2, <3>2
  <2>3. CASE f \notin Shared /\ f \in Loaded
    <3>1. todo' = u \o p
      BY <1>3, <1>7, <1>11, <2>3 DEF module_load
    <3>2. g = f
      <4>1. (\E j \in DOMAIN u : (u \o p)[k] = u[j]) \/ (\E j \in DOMAIN p : (u \o p)[k] = p[j])
        BY <1>4, <1>8, <1>9, <3>1, InJoin
      <4> QED BY <1>4, <1>8, <1>9, <3>1, <4>1
    <3>3. 6 \in DOMAIN (u \o p) /\ (u \o p)[6] = u[6]
      <4>1. \A j \in DOMAIN u : j \in DOMAIN (u \o p) /\ (u \o p)[j] = u[j]
        BY <1>4, <1>8, JoinStarts
      <4> QED BY <1>4, <4>1
    <3>4. Pending("forget", f)'
      BY <1>4, <3>1, <3>3 DEF Pending
    <3> QED BY <3>2, <3>4
  <2> QED BY <2>1, <2>2, <2>3
<1>12. ASSUME todo' = Do(f, <<"close", "open", "check">>) PROVE FALSE
  <2>1. PICK t : t = <<"close", "open", "check">>
    OBVIOUS
  <2>2. /\ t \in Seq(Steps) /\ Len(t) = 3 /\ t[1] = "close" /\ t[2] = "open" /\ t[3] = "check"
    BY <2>1 DEF Steps
  <2>3. \A i \in 1..Len(t) : t[i] # "link"
    BY <2>2
  <2>4. \A i \in DOMAIN Do(f, t) : \E j \in 1..Len(t) : Do(f, t)[i].do = t[j]
    BY <2>2, InDo
  <2>5. \A i \in DOMAIN Do(f, t) : Do(f, t)[i].do # "link"
    BY <2>3, <2>4
  <2> QED BY <1>9, <1>12, <2>1, <2>5
<1> QED BY <1>10, <1>11, <1>12

LEMMA LinksLeft ==
  ASSUME TodoInv, todo # <<>>, NEW CONSTANT p \in Seq(Task), todo' = p \o Tail(todo),
         \A i \in DOMAIN p : p[i].do # "link", NEW f, Pending("link", f)'
  PROVE  Pending("link", f)
<1>1. PICK r : r = Tail(todo)
  OBVIOUS
<1>2. /\ r \in Seq(Task) /\ todo \in Seq(Task) /\ Len(todo) \in Nat \ {0}
      /\ Len(r) = Len(todo) - 1
      /\ \A i \in 1..(Len(todo) - 1) : r[i] = todo[i + 1]
  BY <1>1, PlanTail DEF TodoInv, Plan
<1>3. PICK k \in DOMAIN (p \o r) : (p \o r)[k].do = "link" /\ (p \o r)[k].file = f
  BY <1>1 DEF Pending
<1>4. PICK j \in DOMAIN r : (p \o r)[k] = r[j]
  <2>1. (\E j \in DOMAIN p : (p \o r)[k] = p[j]) \/ (\E j \in DOMAIN r : (p \o r)[k] = r[j])
    BY <1>2, InJoin
  <2> QED BY <1>3, <2>1
<1>5. j + 1 \in DOMAIN todo /\ todo[j + 1] = r[j]
  <2>1. DOMAIN r = 1..(Len(todo) - 1) /\ DOMAIN todo = 1..Len(todo)
    BY <1>2
  <2>2. j \in 1..(Len(todo) - 1)
    BY <2>1
  <2>3. j + 1 \in 1..Len(todo)
    BY <1>2, <2>2
  <2> QED BY <1>2, <2>1, <2>2, <2>3
<1> QED BY <1>3, <1>4, <1>5 DEF Pending

LEMMA ChainKept ==
  ASSUME TypeOK, TodoInv, ChainInv, [Next]_vars
  PROVE  ChainInv'
<1>1. NoDuplicates /\ LinkedOnce /\ modules \in Seq(File)
  BY DEF ChainInv, TypeOK
<1>2. ASSUME modules' = modules,
             \A f \in File : /\ Pending("link", f)' => Pending("link", f)
                             /\ Pending("forget", f) => Pending("forget", f)'
      PROVE  ChainInv'
  BY <1>1, <1>2 DEF ChainInv, NoDuplicates, LinkedOnce, Loaded
<1>3. ASSUME modules' = modules, todo # <<>>, todo' = Tail(todo), todo[1].do # "forget"
      PROVE  ChainInv'
  BY <1>2, <1>3, StillPending
<1>4. ASSUME modules' = modules, todo' = <<>>
      PROVE  ChainInv'
  BY <1>1, <1>4 DEF ChainInv, NoDuplicates, LinkedOnce, Pending
<1>5. ASSUME modules' = modules, todo' = todo
      PROVE  ChainInv'
  BY <1>2, <1>5 DEF Pending
<1>6. ASSUME todo # <<>>, todo[1].do \in {"link", "check", "init"}, NEW f \in File,
             Pending("link", f)
      PROVE  f \notin Loaded
  <2>1. ~Has(todo, "forget")
    BY <1>6, GoingHeads DEF During
  <2> QED BY <1>1, <1>6, <2>1 DEF LinkedOnce, Pending, Has
<1>7. ASSUME NEW f \in File, module_load(f) \/ module_unload(f) PROVE ChainInv'
  <2>1. modules' = modules
    BY <1>7 DEF module_load, module_unload
  <2>2. NoDuplicates'
    BY <1>1, <2>1 DEF NoDuplicates
  <2>3. ASSUME NEW g \in File, Pending("link", g)', g \in Loaded PROVE Pending("forget", g)'
    BY <1>7, <2>3, LinksMade
  <2> QED BY <2>1, <2>2, <2>3 DEF ChainInv, LinkedOnce, Loaded
<1>8. ASSUME NEW f \in File, New(f) \/ Drop(f) \/ CloseOne(f) \/ OpenOne(f) PROVE ChainInv'
  BY <1>5, <1>8 DEF New, Drop, CloseOne, OpenOne
<1>9. ASSUME LinkDuplicate \/ LinkCircular \/ HookFails PROVE ChainInv'
  BY <1>4, <1>9 DEF LinkDuplicate, LinkCircular, HookFails, Abandon
<1>10. ASSUME Doing("link"), modules' = Append(modules, This),
              todo' = Do(This, <<"close", "open", "check">>)
       PROVE  ChainInv'
  <2>1. PICK this, m : this = This /\ m = Append(modules, this)
    OBVIOUS
  <2>2. this \in File /\ 1 \in DOMAIN todo /\ todo # <<>>
    BY <1>10, <2>1, TaskInProgress DEF Doing
  <2>3. this \notin Loaded
    BY <1>6, <1>10, <2>1, <2>2 DEF Doing, Pending, This
  <2>4. \A i, j \in DOMAIN m : m[i] = m[j] => i = j
    <3>1. \A i \in DOMAIN modules : modules[i] # this
      BY <2>3 DEF Loaded
    <3>2. DOMAIN modules = 1..Len(modules) /\ Len(modules) \in Nat
      BY <1>1
    <3>3. DOMAIN m = 1..(Len(modules) + 1)
          /\ \A i \in 1..(Len(modules) + 1) :
               m[i] = IF i <= Len(modules) THEN modules[i] ELSE this
      BY <1>1, <2>1, <2>2
    <3> QED BY <1>1, <3>1, <3>2, <3>3 DEF NoDuplicates
  <2>5. NoDuplicates'
    BY <1>10, <2>1, <2>4 DEF NoDuplicates
  <2>6. \A g \in File : ~Pending("link", g)'
    BY <1>10, <2>1, <2>2, LinksMade
  <2> QED BY <2>5, <2>6 DEF ChainInv, LinkedOnce
<1>11. ASSUME Link \/ LinkLibrary PROVE ChainInv'
  <2>1. CASE todo' = <<>> /\ modules' = modules
    BY <1>4, <2>1
  <2>2. CASE /\ Doing("link") /\ modules' = Append(modules, This)
             /\ todo' = Do(This, <<"close", "open", "check">>)
    BY <1>10, <2>2
  <2> QED BY <1>11, <2>1, <2>2 DEF Link, LinkLibrary, Abandon
<1>12. ASSUME Forget PROVE ChainInv'
  <2>1. NoDuplicates' /\ Loaded' = Loaded \ {This}
    BY <1>1, <1>12, ModuleLeft
  <2>2. todo # <<>> /\ todo' = Tail(todo)
    BY <1>12 DEF Forget, Doing
  <2>3. ASSUME NEW f \in File, Pending("link", f)', f \in Loaded'
        PROVE  Pending("forget", f)'
    <3>1. f \in Loaded /\ todo[1].file # f /\ Pending("link", f)
      BY <2>1, <2>2, <2>3, StillPending DEF This
    <3>2. Pending("forget", f)
      BY <1>1, <3>1 DEF LinkedOnce
    <3> QED BY <2>2, <3>1, <3>2, StillPending
  <2> QED BY <2>1, <2>3 DEF ChainInv, LinkedOnce
<1>13. ASSUME OpenLibrary \/ Cleanup \/ Updated \/ UpdateExec \/ CallInit \/ HookReturns
       PROVE  ChainInv'
  <2>1. /\ modules' = modules /\ todo # <<>> /\ todo' = Tail(todo)
        /\ todo[1].do \in Hook \cup {"dlopen", "cleanup", "close", "open", "exec", "call"}
    BY <1>13 DEF OpenLibrary, Cleanup, Updated, UpdateExec, CallInit, HookReturns, LispRuns, Doing
  <2> QED BY <1>3, <2>1 DEF Hook
<1>14. ASSUME Unload PROVE ChainInv'
  <2>1. /\ modules' = modules /\ todo # <<>> /\ todo[1].do = "unload"
        /\ todo' = <<>> \/ todo' = Tail(todo)
    BY <1>14 DEF Unload, Abandon, Doing
  <2> QED BY <1>3, <1>4, <2>1
<1>15. ASSUME modules' = modules, todo # <<>>, todo[1].do \in {"check", "init"},
              NEW CONSTANT p \in Seq(Task), todo' = p \o Tail(todo),
              \A i \in DOMAIN p : p[i].do # "link"
       PROVE  ChainInv'
  <2>1. \A f \in File : Pending("link", f)' => Pending("link", f)
    BY <1>15, LinksLeft
  <2>2. \A f \in File : Pending("link", f)' => f \notin Loaded
    BY <1>6, <1>15, <2>1
  <2> QED BY <1>1, <1>15, <2>2 DEF ChainInv, NoDuplicates, LinkedOnce, Loaded
<1>16. ASSUME Check PROVE ChainInv'
  <2>1. PICK p, q, s : p = CheckExec /\ q = CheckInit /\ s = p \o q
    OBVIOUS
  <2>2. /\ todo # <<>> /\ todo[1].do = "check" /\ todo' = s \o Tail(todo) /\ modules' = modules
    BY <1>16, <2>1 DEF Check, Doing
  <2>3. /\ p \in Seq(Task) /\ q \in Seq(Task)
        /\ \A i \in DOMAIN p : p[i].do \in {"exec", "on_exec"}
        /\ \A i \in DOMAIN q : q[i].do = "init"
    <3>1. /\ Plan(p, Loaded) /\ Plan(q, Loaded)
          /\ \A i \in 1..Len(p) : p[i].do \in {"exec", "on_exec"}
          /\ \A i \in 1..Len(q) : q[i].do = "init"
      BY <1>1, <2>1, CheckPlan
    <3>2. p \in Seq(Task) /\ q \in Seq(Task)
      BY <3>1 DEF Plan
    <3>3. DOMAIN p = 1..Len(p) /\ DOMAIN q = 1..Len(q)
      BY <3>2
    <3> QED BY <3>1, <3>2, <3>3
  <2>4. s \in Seq(Task)
    BY <2>1, <2>3
  <2>5. ASSUME NEW i \in DOMAIN s PROVE s[i].do # "link"
    <3>1. (\E j \in DOMAIN p : s[i] = p[j]) \/ (\E j \in DOMAIN q : s[i] = q[j])
      BY <2>1, <2>3, <2>5, InJoin
    <3> QED BY <2>3, <3>1
  <2> QED BY <1>15, <2>2, <2>4, <2>5
<1>17. ASSUME UpdateInit PROVE ChainInv'
  <2>1. /\ todo # <<>> /\ todo[1].do = "init" /\ modules' = modules
    BY <1>17 DEF UpdateInit, Doing
  <2>2. PICK this : this = This
    OBVIOUS
  <2>3. this \in File
    BY <2>1, <2>2, TaskInProgress
  <2>4. ASSUME NEW CONSTANT t \in Seq(Steps), \A i \in 1..Len(t) : t[i] # "link",
               todo' = Do(this, t) \o Tail(todo)
        PROVE  ChainInv'
    <3>1. PICK p : p = Do(this, t)
      OBVIOUS
    <3>2. p \in Seq(Task) /\ \A i \in DOMAIN p : p[i].do # "link"
      BY <2>3, <2>4, <3>1, DoProperties, InDo
    <3> QED BY <1>15, <2>1, <2>4, <3>1, <3>2
  <2>5. CASE todo' = <<>> \o Tail(todo)
    <3>1. <<>> \in Seq(Task) /\ \A i \in DOMAIN <<>> : <<>>[i].do # "link"
      OBVIOUS
    <3> QED BY <1>15, <2>1, <2>5, <3>1
  <2>6. CASE todo' = Do(this, <<"call", "on_init">>) \o Tail(todo)
    <3>1. PICK t : t = <<"call", "on_init">>
      OBVIOUS
    <3>2. t \in Seq(Steps) /\ Len(t) = 2 /\ t[1] = "call" /\ t[2] = "on_init"
      BY <3>1 DEF Steps, Hook
    <3>3. \A i \in 1..Len(t) : t[i] # "link"
      BY <3>2
    <3> QED BY <2>4, <2>6, <3>1, <3>2, <3>3
  <2>7. CASE todo' = Do(this, <<"on_unlink", "cleanup", "call", "on_init">>) \o Tail(todo)
    <3>1. PICK t : t = <<"on_unlink", "cleanup", "call", "on_init">>
      OBVIOUS
    <3>2. /\ t \in Seq(Steps) /\ Len(t) = 4
          /\ t[1] = "on_unlink" /\ t[2] = "cleanup" /\ t[3] = "call" /\ t[4] = "on_init"
      BY <3>1 DEF Steps, Hook
    <3>3. \A i \in 1..Len(t) : t[i] # "link"
      BY <3>2
    <3> QED BY <2>4, <2>7, <3>1, <3>2, <3>3
  <2> QED BY <1>17, <2>2, <2>5, <2>6, <2>7 DEF UpdateInit
<1>18. ASSUME UNCHANGED vars PROVE ChainInv'
  BY <1>5, <1>18 DEF vars
<1> QED BY <1>7, <1>8, <1>9, <1>11, <1>12, <1>13, <1>14, <1>16, <1>17, <1>18 DEF Next

FilesFound == SupportedRanked /\ SupportedOpen

LEMMA SameSupport ==
  ASSUME libraries' = libraries, NEW CONSTANT C
  PROVE  Supported(C)' <=> Supported(C)
<1>1. \A s : isdef(s)' <=> isdef(s)
  BY DEF isdef
<1> QED BY <1>1 DEF Supported

LEMMA FilesFoundKept ==
  ASSUME OverridesNothing, Inv, ChainInv, FilesFound, [Next]_vars
  PROVE  FilesFound'
<1>1. /\ TypeOK /\ TodoInv /\ OpenInv /\ NoDuplicates
      /\ SupportedRanked /\ SupportedOpen
  BY DEF Inv, FilesFound, ChainInv
<1>2. /\ Bundles \in SUBSET (File \ Shared) /\ Loaded \in SUBSET File
      /\ libraries \subseteq Shared /\ modules \in Seq(File)
      /\ todo # <<>> => This \in File
  BY <1>1, BundlesType, TaskInProgress DEF TypeOK, Bundles
<1>3. ASSUME UNCHANGED <<modules, libraries, dlmodule>>,
             ~During({"close", "open", "forget"}), ~During({"close", "open", "forget"})'
      PROVE  FilesFound'
  <2>1. ~During({"close", "open"}) /\ ~Doing("forget") /\ ~During({"close", "open"})'
        /\ ~Doing("forget")'
    BY <1>3 DEF During, Doing
  <2>2. Loaded' = Loaded /\ Bundles' = Bundles
    BY <1>3 DEF Loaded, Bundles
  <2>3. SupportedRanked'
    BY <2>1 DEF SupportedRanked
  <2>4. ASSUME libraries \subseteq Loaded, NEW C \in SUBSET Bundles, Supported(C)'
        PROVE  C \subseteq dlmodule
    <3>1. Supported(C)
      BY <1>3, <2>4, SameSupport
    <3> QED BY <1>1, <2>1, <2>4, <3>1 DEF SupportedOpen
  <2>5. SupportedOpen'
    BY <1>3, <2>1, <2>2, <2>4 DEF SupportedOpen
  <2> QED BY <2>3, <2>5 DEF FilesFound
<1>4. ASSUME UNCHANGED <<modules, libraries, dlmodule>>, todo' = <<>>,
             ~During({"close", "open", "forget"})
      PROVE  FilesFound'
  BY <1>3, <1>4 DEF During
<1>5. ASSUME NEW f \in File, module_load(f) \/ module_unload(f) PROVE FilesFound'
  <2>1. todo = <<>> /\ UNCHANGED <<modules, libraries, dlmodule>>
    BY <1>5 DEF module_load, module_unload, bundles
  <2>2. todo'[1].do \in {"dlopen", "on_unlink", "link"}
    BY <1>5, NoCallsYet
  <2> QED BY <1>3, <2>1, <2>2 DEF During
<1>6. ASSUME UNCHANGED <<modules, libraries, executable, todo>>, During({"close", "open"})
      PROVE  FilesFound'
  <2>1. During({"close", "open"})' /\ Staying' = Staying
    BY <1>6 DEF During, Staying, Going, This, Bundles, Loaded
  <2>2. ASSUME NEW C \in SUBSET Staying, Supported(C)', NEW f \in C
        PROVE  0 <= executable[f]
    <3>1. Supported(C)
      BY <1>6, <2>2, SameSupport
    <3> QED BY <1>1, <1>6, <2>2, <3>1 DEF SupportedRanked
  <2>3. SupportedRanked'
    BY <1>6, <2>1, <2>2 DEF SupportedRanked
  <2> QED BY <2>1, <2>3 DEF FilesFound, SupportedOpen
<1>7. ASSUME NEW f \in File, CloseOne(f) \/ OpenOne(f) PROVE FilesFound'
  BY <1>6, <1>7 DEF CloseOne, OpenOne, During, Doing
<1>8. ASSUME NEW f \in File, New(f) \/ Drop(f) PROVE FilesFound'
  <2>1. /\ UNCHANGED <<modules, libraries, dlmodule, todo>>
        /\ todo # <<>> => todo[1].do \in Hook
    BY <1>8 DEF New, Drop, LispRuns, bundles
  <2> QED BY <1>3, <2>1 DEF During, Hook
<1>9. ASSUME LinkDuplicate \/ LinkCircular \/ HookFails PROVE FilesFound'
  <2>1. /\ UNCHANGED <<modules, libraries, dlmodule>> /\ todo' = <<>>
        /\ todo[1].do = "link" \/ todo[1].do \in Failing
    BY <1>9 DEF LinkDuplicate, LinkCircular, HookFails, Abandon, Doing, bundles
  <2> QED BY <1>4, <2>1, ModulesAssumption DEF During
<1>10. ASSUME NEW CONSTANT S \in SUBSET (File \ Shared), NEW CONSTANT T \in SUBSET S,
              ~Circular(S, T), executable' = Ranks(S, T), Staying' = T,
              libraries' = libraries, Doing("close")'
       PROVE  FilesFound'
  <2>1. ASSUME NEW C \in SUBSET T, Supported(C)', NEW f \in C
        PROVE  0 <= executable'[f]
    <3>1. Supported(C)
      BY <1>10, <2>1, SameSupport
    <3>2. 0 <= Ranks(S, T)[f]
      BY <1>2, <1>10, <3>1, SupportedAreRanked
    <3> QED BY <1>10, <3>2
  <2>2. SupportedRanked'
    BY <1>10, <2>1 DEF SupportedRanked
  <2>3. SupportedOpen'
    BY <1>10 DEF SupportedOpen, During, Doing
  <2> QED BY <2>2, <2>3 DEF FilesFound
<1>11. ASSUME NEW CONSTANT this \in File, todo' = Do(this, <<"close", "open", "check">>)
       PROVE  Doing("close")' /\ Staying' = Bundles'
  <2>1. <<>> \in Seq(Task)
    OBVIOUS
  <2> QED BY <1>11, <2>1, FirstSteps DEF Doing, Staying, Going
<1>12. ASSUME Link PROVE FilesFound'
  <2>1. PICK S, this : S = Bundles \cup {This} /\ this = This
    OBVIOUS
  <2>2. /\ Doing("link") /\ This \notin Shared /\ executable' = Ranks(S, S)
        /\ ~Circular(S, S) /\ libraries' = libraries
        /\ modules' = Append(modules, This)
        /\ todo' = Do(this, <<"close", "open", "check">>)
    BY <1>12, <2>1 DEF Link
  <2>3. this \in File /\ This \in File
    BY <1>2, <2>1, <2>2 DEF Doing
  <2>4. Loaded' = Loaded \cup {this}
    BY <1>2, <2>1, <2>2, <2>3, ModuleLinked
  <2>5. Bundles' = S /\ S \in SUBSET (File \ Shared)
    BY <1>2, <2>1, <2>2, <2>3, <2>4 DEF Bundles
  <2>6. Doing("close")' /\ Staying' = S
    BY <1>11, <2>2, <2>3, <2>5
  <2> QED BY <1>10, <2>2, <2>5, <2>6
<1>13. ASSUME LinkLibrary PROVE FilesFound'
  <2>1. PICK S, this : S = Bundles /\ this = This
    OBVIOUS
  <2>2. /\ Doing("link") /\ This \in Shared /\ executable' = Ranks(S, S)
        /\ UNCHANGED <<libraries, dlmodule>>
    BY <1>13, <2>1 DEF LinkLibrary
  <2>3. this \in File /\ This \in File
    BY <1>2, <2>1, <2>2 DEF Doing
  <2>4. CASE todo' = <<>> /\ modules' = modules
    BY <1>4, <2>2, <2>4 DEF During, Doing
  <2>5. CASE /\ modules' = Append(modules, This) /\ ~Circular(S, S)
             /\ todo' = Do(this, <<"close", "open", "check">>)
    <3>1. Loaded' = Loaded \cup {this}
      BY <1>2, <2>1, <2>3, <2>5, ModuleLinked
    <3>2. Bundles' = S /\ S \in SUBSET (File \ Shared)
      BY <1>2, <2>1, <2>2, <3>1 DEF Bundles
    <3>3. Doing("close")' /\ Staying' = S
      BY <1>11, <2>3, <2>5, <3>2
    <3> QED BY <1>10, <2>2, <2>5, <3>2, <3>3
  <2> QED BY <1>13, <2>1, <2>4, <2>5 DEF LinkLibrary, Abandon
<1>14. ASSUME OpenLibrary PROVE FilesFound'
  <2>1. /\ Doing("dlopen") /\ libraries' = libraries \cup {This} /\ modules' = modules
        /\ todo' = Tail(todo)
    BY <1>14 DEF OpenLibrary
  <2>2. This \notin Loaded
    BY <1>1, <2>1, TaskInProgress DEF Doing
  <2>3. ~(libraries' \subseteq Loaded')
    BY <2>1, <2>2 DEF Loaded
  <2>4. ~During({"close", "open"})'
    BY <1>1, <2>1, NextStep DEF Doing, Follows, Order, During
  <2> QED BY <2>3, <2>4 DEF FilesFound, SupportedRanked, SupportedOpen
<1>15. ASSUME Unload PROVE FilesFound'
  <2>1. PICK S, T : S = Bundles /\ T = Bundles \ {This}
    OBVIOUS
  <2>2. /\ Doing("unload") /\ executable' = Ranks(S, T)
        /\ UNCHANGED <<modules, libraries, dlmodule>>
    BY <1>15, <2>1 DEF Unload
  <2>3. CASE todo' = <<>>
    BY <1>4, <2>2, <2>3 DEF During, Doing
  <2>4. CASE todo' = Tail(todo) /\ ~Circular(S, T)
    <3>1. /\ todo' # <<>> /\ This' = This /\ todo'[1].do = "close"
          /\ Has(todo', "forget") <=> Has(todo, "forget")
      BY <1>1, <2>2, <2>4, NextStep DEF Doing, Follows, Order, Final, Steps
    <3>2. Has(todo', "forget")
      BY <1>1, <2>2, <3>1, TaskInProgress DEF Doing, Has, TodoInv, Plan
    <3>3. Staying' = T /\ Doing("close")'
      BY <2>1, <2>2, <3>1, <3>2 DEF Staying, Going, Bundles, Loaded, Doing
    <3> QED BY <1>2, <1>10, <2>1, <2>2, <2>4, <3>3
  <2> QED BY <1>15, <2>1, <2>3, <2>4 DEF Unload, Abandon
<1>16. ASSUME Updated PROVE FilesFound'
  <2>1. /\ todo # <<>> /\ todo[1].do \in {"close", "open"} /\ todo' = Tail(todo)
        /\ todo[1].do = "open" => ToOpen = {}
        /\ UNCHANGED <<modules, libraries, executable, dlmodule>>
    BY <1>16 DEF Updated, Doing, bundles
  <2>2. /\ todo' # <<>> /\ This' = This
        /\ todo[1].do = "close" => todo'[1].do = "open"
        /\ todo[1].do = "open" => todo'[1].do \in {"forget", "check"}
        /\ Has(todo', "forget") <=> Has(todo, "forget")
    BY <1>1, <2>1, NextStep DEF Follows, Order, Final, Steps
  <2>3. Bundles' = Bundles /\ Staying' = Staying
    BY <2>1, <2>2 DEF Bundles, Loaded, Staying, Going
  <2>4. ASSUME NEW C \in SUBSET Staying, Supported(C)', NEW f \in C
        PROVE  0 <= executable[f]
    <3>1. Supported(C)
      BY <2>1, <2>4, SameSupport
    <3> QED BY <1>1, <2>1, <2>4, <3>1 DEF SupportedRanked, During
  <2>5. SupportedRanked'
    BY <2>1, <2>3, <2>4 DEF SupportedRanked
  <2>6. SupportedOpen'
    <3> SUFFICES ASSUME ~During({"close", "open"})',
                        NEW C, C \subseteq (IF Doing("forget") THEN Bundles \ {This} ELSE Bundles)',
                        Supported(C)'
                 PROVE  C \subseteq dlmodule'
      BY DEF SupportedOpen
    <3>1. todo[1].do = "open" /\ todo'[1].do \in {"forget", "check"} /\ ToOpen = {}
      BY <2>1, <2>2 DEF During
    <3>2. C \subseteq Staying
      <4>1. CASE todo'[1].do = "forget"
        BY <2>2, <2>3, <4>1 DEF Doing, Staying
      <4>2. CASE todo'[1].do = "check"
        <5>1. modules' = modules /\ TodoInv'
          BY <1>1, <2>1, StepDone
        <5>2. ~Has(todo', "forget")
          <6>1. TodoInv' => (Has(todo, "forget") => During({"on_unlink", "cleanup", "unload", "close",
                                                          "open", "forget"}))'
            BY GoingHeads, PTL
          <6> QED BY <4>2, <5>1, <6>1 DEF During, Has
        <5> QED BY <2>2, <2>3, <4>2, <5>2 DEF Doing, Staying, Going
      <4> QED BY <3>1, <4>1, <4>2
    <3>3. \A f \in C : f \in Bundles /\ 0 <= executable[f]
      BY <2>4, <3>2 DEF Staying
    <3>4. \A f \in C : f \in dlmodule
      BY <3>1, <3>3 DEF ToOpen
    <3> QED BY <2>1, <3>4
  <2> QED BY <2>5, <2>6 DEF FilesFound
<1>17. ASSUME Forget PROVE FilesFound'
  <2>1. /\ Doing("forget") /\ todo' = Tail(todo) /\ UNCHANGED <<libraries, dlmodule>>
    BY <1>17 DEF Forget
  <2>2. Loaded' = Loaded \ {This}
    BY <1>1, <1>2, <1>17, ModuleLeft
  <2>3. todo' # <<>> /\ todo'[1].do = "check"
    BY <1>1, <2>1, NextStep DEF Doing, Follows, Order, Final
  <2>4. Bundles' = Bundles \ {This} /\ ~During({"close", "open"})' /\ ~Doing("forget")'
    BY <2>2, <2>3 DEF Bundles, During, Doing
  <2>5. ASSUME libraries \subseteq Loaded', NEW C \in SUBSET (Bundles \ {This}), Supported(C)'
        PROVE  C \subseteq dlmodule
    <3>1. Supported(C) /\ libraries \subseteq Loaded
      BY <2>1, <2>2, <2>5, SameSupport
    <3> QED BY <1>1, <2>1, <2>5, <3>1 DEF SupportedOpen, During, Doing
  <2> QED BY <2>1, <2>4, <2>5 DEF FilesFound, SupportedRanked, SupportedOpen
<1>18. ASSUME Cleanup \/ UpdateExec \/ CallInit \/ HookReturns PROVE FilesFound'
  <2>1. /\ UNCHANGED <<modules, libraries, dlmodule>> /\ todo # <<>> /\ todo' = Tail(todo)
        /\ todo[1].do \in Hook \cup {"cleanup", "exec", "call"}
    BY <1>18 DEF Cleanup, UpdateExec, CallInit, HookReturns, LispRuns, Doing, bundles
  <2>2. ~During({"close", "open", "forget"})'
    BY <1>1, <2>1, NextStep DEF During, Follows, Order, Hook
  <2> QED BY <1>3, <2>1, <2>2 DEF During, Hook
<1>19. ASSUME Check \/ UpdateInit PROVE FilesFound'
  <2>1. /\ UNCHANGED <<modules, libraries, dlmodule>> /\ todo[1].do \in {"check", "init"}
    BY <1>19 DEF Check, UpdateInit, Doing, bundles
  <2>2. ~During({"close", "open", "forget"})'
    BY <1>1, <1>19, CheckMade, InitMade DEF During
  <2> QED BY <1>3, <2>1, <2>2 DEF During
<1>20. ASSUME UNCHANGED vars PROVE FilesFound'
  <2>1. UNCHANGED <<modules, libraries, executable, dlmodule, todo>>
    BY <1>20 DEF vars
  <2>2. CASE During({"close", "open"})
    BY <1>6, <2>1, <2>2
  <2>3. CASE ~During({"close", "open"})
    <3>1. ~During({"close", "open"})' /\ (Doing("forget")' <=> Doing("forget"))
      BY <2>1, <2>3 DEF During, Doing
    <3>2. Loaded' = Loaded /\ Bundles' = Bundles /\ This' = This
      BY <2>1 DEF Loaded, Bundles, This
    <3>3. ASSUME libraries \subseteq Loaded,
                 NEW C \in SUBSET (IF Doing("forget") THEN Bundles \ {This} ELSE Bundles),
                 Supported(C)'
          PROVE  C \subseteq dlmodule
      <4>1. Supported(C)
        BY <2>1, <3>3, SameSupport
      <4> QED BY <1>1, <2>3, <3>3, <4>1 DEF SupportedOpen
    <3> QED BY <2>1, <3>1, <3>2, <3>3 DEF FilesFound, SupportedRanked, SupportedOpen
  <2> QED BY <2>2, <2>3
<1> QED BY <1>5, <1>7, <1>8, <1>9, <1>12, <1>13, <1>14, <1>15, <1>16, <1>17, <1>18, <1>19,
           <1>20 DEF Next

LEMMA OpenExecutableKept ==
  ASSUME HooksReturn, Inv, OpenExecutable, [Next]_vars
  PROVE  OpenExecutable'
<1>1. TypeOK /\ TodoInv /\ OpenInv
  BY DEF Inv
<1>2. /\ dlmodule \subseteq File \ Shared /\ dlmodule \subseteq Loaded
      /\ \A f \in File : executable[f] \in Int
  BY <1>1, SizeType DEF TypeOK, OpenInv, OpenAreLoaded, Bundles
<1>3. ASSUME UNCHANGED <<EXEC, dlmodule, named>>, \A f \in dlmodule : Stale(f) => Stale(f)'
      PROVE  OpenExecutable'
  BY <1>3 DEF OpenExecutable
<1>4. ASSUME UNCHANGED <<EXEC, dlmodule, named>>,
             ~During({"close", "open", "forget", "check", "exec", "on_exec"})
      PROVE  OpenExecutable'
  BY <1>1, <1>3, <1>4, NothingStale
<1>5. ASSUME NEW f \in File, module_load(f) \/ module_unload(f) PROVE OpenExecutable'
  BY <1>4, <1>5 DEF module_load, module_unload, During, bundles, flags
<1>6. ASSUME UNCHANGED <<EXEC, dlmodule, named, todo>> PROVE OpenExecutable'
  BY <1>3, <1>6 DEF Stale, Pending, During
<1>7. ASSUME NEW f \in File, New(f) \/ Drop(f) PROVE OpenExecutable'
  BY <1>6, <1>7 DEF New, Drop, bundles
<1>8. ASSUME During({"close", "open", "forget", "check"})' PROVE OpenExecutable'
  BY <1>8 DEF OpenExecutable, Stale
<1>9. ASSUME NEW f \in File, CloseOne(f) \/ OpenOne(f) PROVE OpenExecutable'
  BY <1>8, <1>9 DEF CloseOne, OpenOne, During, Doing
<1>10. ASSUME LinkDuplicate \/ LinkCircular \/ HookFails \/ Link \/ LinkLibrary \/ OpenLibrary
              \/ Cleanup \/ Unload \/ CallInit \/ UpdateInit
       PROVE  OpenExecutable'
  <2>1. /\ UNCHANGED <<EXEC, dlmodule, named>> /\ todo # <<>>
        /\ \/ todo[1].do \in {"link", "dlopen", "cleanup", "unload", "call", "init"}
           \/ todo[1].do \in Failing
    BY <1>10 DEF LinkDuplicate, LinkCircular, HookFails, Link, LinkLibrary, OpenLibrary, Cleanup,
       Unload, CallInit, UpdateInit, Doing, bundles, flags
  <2>2. ~During({"close", "open", "forget", "check", "exec", "on_exec"})
    BY <2>1, ModulesAssumption DEF HooksReturn, During
  <2> QED BY <1>4, <2>1, <2>2
<1>11. ASSUME HookReturns PROVE OpenExecutable'
  <2>1. /\ todo # <<>> /\ todo[1].do \in Hook /\ todo' = Tail(todo) /\ UNCHANGED <<EXEC, dlmodule, named>>
    BY <1>11 DEF HookReturns, LispRuns, bundles, flags
  <2>2. \A f \in File : Pending("exec", f) => Pending("exec", f)'
    BY <1>1, <2>1, StillPending DEF Hook
  <2>3. ~During({"close", "open", "forget", "check"})
    BY <2>1 DEF During, Hook
  <2> QED BY <1>2, <1>3, <2>1, <2>2, <2>3 DEF Stale
<1>12. ASSUME Updated PROVE OpenExecutable'
  <2>1. todo # <<>> /\ todo[1].do \in {"close", "open"} /\ todo' = Tail(todo)
    BY <1>12 DEF Updated, Doing
  <2>2. todo' # <<>> /\ todo'[1].do \in {"open", "forget", "check"}
    BY <1>1, <2>1, NextStep DEF Follows, Order, Final
  <2> QED BY <1>8, <2>2 DEF During
<1>13. ASSUME Forget PROVE OpenExecutable'
  <2>1. Doing("forget") /\ todo' = Tail(todo)
    BY <1>13 DEF Forget
  <2>2. todo' # <<>> /\ todo'[1].do = "check"
    BY <1>1, <2>1, NextStep DEF Doing, Follows, Order, Final
  <2> QED BY <1>8, <2>2 DEF During
<1>14. ASSUME Check PROVE OpenExecutable'
  <2>1. UNCHANGED <<EXEC, dlmodule>>
    BY <1>14 DEF Check, bundles
  <2>2. \A f \in Loaded : Pending("exec", f)'
    BY <1>1, <1>14, CheckMade
  <2> QED BY <1>2, <2>1, <2>2 DEF OpenExecutable, Stale
<1>15. ASSUME UpdateExec PROVE OpenExecutable'
  <2> DEFINE linked == This \in Shared \/ (This \in named /\ executable[This] >= 0)
  <2>1. /\ Doing("exec") /\ todo' = Tail(todo) /\ UNCHANGED <<dlmodule, named>>
        /\ EXEC' = IF linked THEN EXEC \cup {This} ELSE EXEC \ {This}
    BY <1>15 DEF UpdateExec, bundles
  <2>2. This \in dlmodule /\ This \in named => linked
    <3>1. ToClose = {}
      BY <1>1, <2>1 DEF OpenInv, NoneToClose, During, Doing
    <3> QED BY <1>2, <3>1 DEF ToClose
  <2> HIDE DEF linked
  <2>3. \A g \in File \ {This} : Stale(g) => Stale(g)'
    <3>1. \A g \in File \ {This} : Pending("exec", g) => Pending("exec", g)'
      BY <1>1, <2>1, StillPending DEF Doing, This
    <3> QED BY <2>1, <3>1 DEF Stale, During, Doing
  <2>4. \A g \in dlmodule \cap named : g = This => g \in EXEC'
    BY <2>1, <2>2
  <2>5. \A g \in dlmodule \cap named : g # This => g \in EXEC' \/ Stale(g)'
    BY <1>2, <2>1, <2>3 DEF OpenExecutable
  <2> QED BY <2>1, <2>4, <2>5 DEF OpenExecutable
<1>16. ASSUME UNCHANGED vars PROVE OpenExecutable'
  BY <1>6, <1>16 DEF vars
<1> QED BY <1>5, <1>7, <1>9, <1>10, <1>11, <1>12, <1>13, <1>14, <1>15, <1>16 DEF Next

-----------------------------------------------------------------------------
(* What is initialized.                                                    *)

\* An init function is called of a module that is not initialized, ...
CallsUninitialized == \A f \in File : Pending("call", f) => f \notin INIT

\* ... initialized modules are executable, ...
InitExecutable == INIT \subseteq EXEC

\* ... and have their definitions, but one that is being unloaded.
InitDefined ==
  \A f \in INIT :
    f \in defs \/ (f = This /\ Going /\ During({"unload", "close", "open", "forget"}))

InitInv == CallsUninitialized /\ InitExecutable /\ InitDefined

LEMMA InitKept ==
  ASSUME NoCycles, Inv, AccessInv, InitInv, [Next]_vars
  PROVE  InitInv'
<1>1. /\ TypeOK /\ TodoInv /\ CallsExecutable
      /\ CallsUninitialized /\ InitExecutable /\ InitDefined
  BY DEF Inv, AccessInv, InitInv
<1>2. /\ INIT \subseteq File /\ EXEC \subseteq File
      /\ todo # <<>> => This \in File /\ 1 \in DOMAIN todo
      /\ Bundles \in SUBSET (File \ Shared)
  BY <1>1, BundlesType, TaskInProgress DEF TypeOK, Bundles
<1>3. ~During({"unload", "close", "open", "forget"}) => INIT \subseteq defs
  BY <1>1 DEF InitDefined
<1>4. ASSUME UNCHANGED <<INIT, EXEC, defs>>,
             \A f \in File : Pending("call", f)' => Pending("call", f),
             ~During({"unload", "close", "open", "forget"})
      PROVE  InitInv'
  <2>1. CallsUninitialized' /\ InitExecutable'
    BY <1>1, <1>4 DEF CallsUninitialized, InitExecutable
  <2>2. InitDefined'
    BY <1>3, <1>4 DEF InitDefined
  <2> QED BY <2>1, <2>2 DEF InitInv
<1>5. ASSUME ~Has(todo', "call")
      PROVE  \A f \in File : Pending("call", f)' => Pending("call", f)
  BY <1>5 DEF Has, Pending
<1>6. ASSUME UNCHANGED <<INIT, EXEC, defs, todo>> PROVE InitInv'
  <2>1. CallsUninitialized' /\ InitExecutable'
    BY <1>1, <1>6 DEF CallsUninitialized, InitExecutable, Pending
  <2>2. InitDefined'
    BY <1>1, <1>6 DEF InitDefined, Going, During, This
  <2> QED BY <2>1, <2>2 DEF InitInv
<1>7. ASSUME NEW f \in File, module_load(f) \/ module_unload(f) PROVE InitInv'
  <2>1. UNCHANGED <<INIT, EXEC, defs>> /\ todo = <<>>
    BY <1>7 DEF module_load, module_unload, flags
  <2>2. ~Has(todo', "call")
    BY <1>7, NoCallsYet
  <2> QED BY <1>4, <1>5, <2>1, <2>2 DEF During
<1>8. ASSUME NEW f \in File, New(f) \/ Drop(f) \/ CloseOne(f) \/ OpenOne(f) PROVE InitInv'
  BY <1>6, <1>8 DEF New, Drop, CloseOne, OpenOne, flags
<1>9. ASSUME LinkDuplicate \/ LinkCircular \/ HookFails PROVE InitInv'
  <2>1. /\ UNCHANGED <<INIT, EXEC, defs>> /\ todo' = <<>>
        /\ todo[1].do = "link" \/ todo[1].do \in Failing
    BY <1>9 DEF LinkDuplicate, LinkCircular, HookFails, Abandon, Doing, flags
  <2>2. ~Has(todo', "call") /\ ~During({"unload", "close", "open", "forget"})
    BY <2>1, ModulesAssumption DEF Has, During
  <2> QED BY <1>4, <1>5, <2>1, <2>2
<1>10. ASSUME Link \/ LinkLibrary PROVE InitInv'
  <2>1. /\ UNCHANGED <<INIT, EXEC, defs>> /\ todo # <<>> /\ todo[1].do = "link"
        /\ todo' = <<>> \/ todo' = Do(This, <<"close", "open", "check">>)
    BY <1>10 DEF Link, LinkLibrary, Abandon, Doing, flags
  <2>2. ~Has(todo', "call")
    <3>1. ~Has(<<>>, "call")
      BY DEF Has
    <3> QED BY <1>2, <2>1, <3>1, NoCallsYet
  <2> QED BY <1>4, <1>5, <2>1, <2>2 DEF During
<1>11. ASSUME OpenLibrary \/ HookReturns PROVE InitInv'
  <2>1. /\ UNCHANGED <<INIT, EXEC, defs>> /\ todo # <<>> /\ todo' = Tail(todo)
        /\ todo[1].do \in Hook \cup {"dlopen"}
    BY <1>11 DEF OpenLibrary, HookReturns, LispRuns, Doing, flags
  <2>2. \A f \in File : Pending("call", f)' => Pending("call", f)
    BY <1>1, <2>1, StillPending
  <2> QED BY <1>4, <2>1, <2>2 DEF During, Hook
<1>12. ASSUME Check PROVE InitInv'
  <2>1. /\ UNCHANGED <<INIT, EXEC, defs>> /\ Doing("check")
    BY <1>12 DEF Check, flags
  <2>2. ~Has(todo', "call")
    BY <1>1, <1>12, CheckMade
  <2> QED BY <1>4, <1>5, <2>1, <2>2 DEF During, Doing
<1>13. ASSUME UpdateInit PROVE InitInv'
  <2>1. /\ UNCHANGED <<INIT, EXEC, defs>> /\ Doing("init")
    BY <1>13 DEF UpdateInit, flags
  <2>2. CallsUninitialized'
    BY <1>1, <1>13, <2>1, CallsMade DEF CallsUninitialized
  <2>3. INIT \subseteq defs
    BY <1>3, <2>1 DEF During, Doing
  <2> QED BY <1>1, <2>1, <2>2, <2>3 DEF InitInv, InitExecutable, InitDefined
<1>14. ASSUME todo # <<>>, todo' = Tail(todo), INIT' \subseteq INIT PROVE CallsUninitialized'
  <2>1. \A f \in File : Pending("call", f)' => Pending("call", f)
    BY <1>1, <1>14, StillPending
  <2> QED BY <1>1, <1>14, <2>1 DEF CallsUninitialized
<1>15. ASSUME Cleanup PROVE InitInv'
  <2>1. /\ todo # <<>> /\ todo[1].do = "cleanup" /\ todo' = Tail(todo)
        /\ UNCHANGED <<INIT, EXEC, modules>> /\ defs' = defs \ {This}
    BY <1>15 DEF Cleanup, Doing
  <2>2. todo' # <<>> /\ This' = This /\ todo'[1].do \in {"unload", "call"}
    BY <1>1, <2>1, NextStep DEF Follows, Order, Final
  <2>3. INIT \subseteq defs
    BY <1>3, <2>1 DEF During
  <2>4. TodoInv'
    BY <1>1, <2>1, StepDone
  <2>5. 1 \in DOMAIN todo'
    <3>1. PICK q : q = todo'
      OBVIOUS
    <3>2. q \in Seq(Task) /\ q # <<>>
      BY <2>2, <2>4, <3>1 DEF TodoInv, Plan
    <3>3. 1 \in DOMAIN q
      BY <3>2
    <3> QED BY <3>1, <3>3
  <2>6. CASE todo'[1].do = "call"
    <3>1. Pending("call", This)
      <4>1. PICK this : this = This
        OBVIOUS
      <4>2. Pending("call", this)'
        BY <2>2, <2>5, <2>6, <4>1 DEF Pending, This
      <4>3. Pending("call", this)
        BY <1>1, <2>1, <4>2, StillPending
      <4> QED BY <4>1, <4>3
    <3>2. This \notin INIT
      BY <1>1, <1>2, <2>1, <3>1 DEF CallsUninitialized
    <3>3. InitDefined'
      BY <2>1, <2>3, <3>2 DEF InitDefined
    <3> QED BY <1>1, <1>14, <2>1, <3>3 DEF InitInv, InitExecutable
  <2>7. CASE todo'[1].do = "unload"
    <3>1. Has(todo', "unload")
      BY <2>5, <2>7 DEF Has
    <3>2. Has(todo', "forget")
      BY <2>4, <3>1 DEF TodoInv, Plan
    <3>3. InitDefined'
      BY <2>1, <2>2, <2>3, <2>7, <3>2 DEF InitDefined, Going, During
    <3> QED BY <1>1, <1>14, <2>1, <3>3 DEF InitInv, InitExecutable
  <2> QED BY <2>2, <2>6, <2>7
<1>16. ASSUME UNCHANGED <<INIT, EXEC, defs, modules>>, todo # <<>>, todo' = Tail(todo),
              todo[1].do \in {"unload", "close", "open"}
       PROVE  InitInv'
  <2>1. /\ todo' # <<>> /\ This' = This
        /\ todo'[1].do \in {"close", "open", "forget", "check"}
        /\ Has(todo', "forget") <=> Has(todo, "forget")
    BY <1>1, <1>16, NextStep DEF Follows, Order, Final, Steps
  <2>2. TodoInv'
    BY <1>1, <1>16, StepDone
  <2>3. Has(todo', "forget") => todo'[1].do # "check"
    <3>1. TodoInv' => (Has(todo, "forget") => During({"on_unlink", "cleanup", "unload", "close",
                                                      "open", "forget"}))'
      BY GoingHeads, PTL
    <3> QED BY <2>2, <3>1 DEF During, Has
  <2>4. InitDefined'
    BY <1>1, <1>16, <2>1, <2>3 DEF InitDefined, Going, During
  <2> QED BY <1>1, <1>14, <1>16, <2>4 DEF InitInv, InitExecutable
<1>17. ASSUME Unload PROVE InitInv'
  <2>1. PICK S, T : S = Bundles /\ T = Bundles \ {This}
    OBVIOUS
  <2>2. ~MayBeCircular(T)
    BY <1>2, <2>1 DEF NoCycles, MayBeCircular
  <2> QED BY <1>16, <1>17, <2>1, <2>2 DEF Unload, Doing, flags
<1>18. ASSUME Updated PROVE InitInv'
  BY <1>16, <1>18 DEF Updated, Doing, flags
<1>19. ASSUME Forget PROVE InitInv'
  <2>1. /\ Doing("forget") /\ todo' = Tail(todo) /\ defs' = defs
        /\ EXEC' = EXEC \ {This} /\ INIT' = INIT \ {This}
    BY <1>19 DEF Forget
  <2>2. InitDefined' /\ InitExecutable'
    BY <1>1, <2>1 DEF InitDefined, InitExecutable
  <2> QED BY <1>14, <2>1, <2>2 DEF InitInv, Doing
<1>20. ASSUME UpdateExec PROVE InitInv'
  <2> DEFINE linked == This \in Shared \/ (This \in named /\ executable[This] >= 0)
  <2>1. /\ Doing("exec") /\ todo' = Tail(todo) /\ defs' = defs
        /\ EXEC' = IF linked THEN EXEC \cup {This} ELSE EXEC \ {This}
        /\ INIT' = IF This \in defs /\ ~linked THEN INIT \ {This} ELSE INIT
    BY <1>20 DEF UpdateExec
  <2> HIDE DEF linked
  <2>2. INIT \subseteq defs
    BY <1>3, <2>1 DEF During, Doing
  <2>3. InitExecutable' /\ InitDefined' /\ INIT' \subseteq INIT
    BY <1>1, <2>1, <2>2 DEF InitExecutable, InitDefined
  <2> QED BY <1>14, <2>1, <2>3 DEF InitInv, Doing
<1>21. ASSUME CallInit PROVE InitInv'
  <2>1. /\ todo # <<>> /\ todo[1].do = "call" /\ todo' = Tail(todo)
        /\ defs' = defs \cup {This} /\ INIT' = INIT \cup {This} /\ EXEC' = EXEC
        /\ modules' = modules
    BY <1>21 DEF CallInit, Doing
  <2>2. This \in EXEC
    BY <1>1, <1>2, <2>1 DEF CallsExecutable, Pending, This
  <2>3. InitExecutable' /\ InitDefined'
    <3>1. INIT \subseteq defs
      BY <1>3, <2>1 DEF During
    <3> QED BY <1>1, <2>1, <2>2, <3>1 DEF InitExecutable, InitDefined
  <2>4. CallsUninitialized'
    <3>1. TodoInv' /\ (todo' # <<>> => todo'[1].do = "on_init")
      BY <1>1, <2>1, NextStep, StepDone DEF Follows, Order
    <3>2. TodoInv' => (Has(todo, "call") => During({"on_unlink", "cleanup", "call"}))'
      BY PlanHeads, PTL
    <3>3. ~Has(todo', "call")
      BY <3>1, <3>2 DEF During, Has
    <3> QED BY <3>3 DEF CallsUninitialized, Pending, Has
  <2> QED BY <2>3, <2>4 DEF InitInv
<1>22. ASSUME UNCHANGED vars PROVE InitInv'
  BY <1>6, <1>22 DEF vars
<1> QED BY <1>7, <1>8, <1>9, <1>10, <1>11, <1>12, <1>13, <1>15, <1>17, <1>18, <1>19, <1>20,
           <1>21, <1>22 DEF Next

-----------------------------------------------------------------------------
(* The names of init functions.                                            *)

\* Only a module with a name is executable.
ExecNamed == \A f \in EXEC \ Shared : f \in named

Unnamed == {f \in Loaded \cap Initial : f \notin named}

\* Where symbols have an underscore, the name of a module is set before lisp code runs.
NamedSoon ==
  \A f \in Unnamed : During({"close", "open", "check"}) /\ ~Going /\ f = This

NamedInv == ExecNamed /\ (Underscore => NamedSoon)

LEMMA NamedKept ==
  ASSUME Inv, ChainInv, NamedInv, [Next]_vars
  PROVE  NamedInv'
<1>1. TypeOK /\ TodoInv /\ ExecNamed /\ (Underscore => NamedSoon)
  BY DEF Inv, NamedInv
<1>2. todo # <<>> => /\ This \in File /\ todo[1].do \in Steps
                     /\ todo[1].do \notin Early => This \in Loaded
  BY <1>1, TaskInProgress
<1>3. ASSUME modules' = modules
      PROVE  Loaded' = Loaded
  BY <1>3 DEF Loaded
<1>4. ASSUME Underscore, ~During({"close", "open", "check"})
      PROVE  Unnamed = {}
  BY <1>1, <1>4 DEF NamedSoon
\* Before and after close, open and check all have their names.
<1>5. ASSUME UNCHANGED <<modules, EXEC, named>>, ~During({"close", "open", "check"})
      PROVE  NamedInv'
  <2>1. Underscore => Unnamed' = {}
    BY <1>3, <1>4, <1>5 DEF Unnamed
  <2> QED BY <1>1, <1>5, <2>1 DEF NamedInv, ExecNamed, NamedSoon
<1>6. ASSUME UNCHANGED <<modules, EXEC, named, todo>>
      PROVE  NamedInv'
  <2>1. Underscore => NamedSoon'
    BY <1>1, <1>3, <1>6 DEF NamedSoon, Unnamed, During, Going, This
  <2> QED BY <1>1, <1>6, <2>1 DEF NamedInv, ExecNamed
<1>7. ASSUME NEW f \in File, module_load(f) \/ module_unload(f) PROVE NamedInv'
  BY <1>5, <1>7 DEF module_load, module_unload, During, flags
<1>8. ASSUME NEW f \in File, New(f) \/ Drop(f) \/ CloseOne(f) \/ OpenOne(f) PROVE NamedInv'
  BY <1>6, <1>8 DEF New, Drop, CloseOne, OpenOne, flags
<1>9. ASSUME LinkDuplicate \/ LinkCircular \/ OpenLibrary \/ Cleanup \/ Unload \/ UpdateInit \/ CallInit
      PROVE  NamedInv'
  <2>1. UNCHANGED <<modules, EXEC, named>> /\ todo # <<>>
        /\ todo[1].do \in {"link", "dlopen", "cleanup", "unload", "init", "call"}
    BY <1>9 DEF LinkDuplicate, LinkCircular, OpenLibrary, Cleanup, Unload, UpdateInit, CallInit,
       Doing, flags
  <2> QED BY <1>5, <2>1 DEF During
<1>10. ASSUME HookReturns \/ HookFails PROVE NamedInv'
  <2>1. UNCHANGED <<modules, EXEC, named>> /\ todo # <<>> /\ todo[1].do \in Hook
    BY <1>10, ModulesAssumption DEF HookReturns, HookFails, LispRuns, Hook, flags
  <2> QED BY <1>5, <2>1 DEF During, Hook
<1>11. ASSUME modules' = Append(modules, This), UNCHANGED <<EXEC, named>>, Doing("link"),
              todo' = Do(This, <<"close", "open", "check">>)
       PROVE  NamedInv'
  <2>1. This \in File
    BY <1>2, <1>11 DEF Doing
  <2>2. Loaded' = Loaded \cup {This}
    BY <1>1, <1>11, <2>1, ModuleLinked DEF TypeOK
  <2>3. Underscore => Unnamed' \subseteq {This}
    <3>1. Underscore => Unnamed = {}
      BY <1>4, <1>11 DEF During, Doing
    <3> QED BY <1>11, <2>2, <3>1 DEF Unnamed
  <2>4. todo' # <<>> /\ todo'[1].do = "close" /\ ~Has(todo', "forget")
    BY <1>11, <2>1, FirstSteps, EmptySeq
  <2>5. This' = This
    <3>1. <<"close", "open", "check">> \in Seq(Steps) /\ <<"close", "open", "check">> # <<>>
      BY DEF Steps
    <3>2. PICK u : u = <<"close", "open", "check">>
      OBVIOUS
    <3>3. u \in Seq(Steps) /\ u # <<>> /\ todo' = Do(This, u)
      BY <1>11, <3>1, <3>2
    <3>4. todo'[1].file = This
      <4>1. 1 \in DOMAIN u
        BY <3>3, EmptySeq
      <4> QED BY <3>3, <4>1 DEF Do
    <3> QED BY <3>4 DEF This
  <2>6. Underscore => NamedSoon'
    BY <2>3, <2>4, <2>5 DEF NamedSoon, During, Going
  <2> QED BY <1>1, <1>11, <2>6 DEF NamedInv, ExecNamed
<1>12. ASSUME Link PROVE NamedInv'
  BY <1>11, <1>12 DEF Link, flags
<1>13. ASSUME LinkLibrary PROVE NamedInv'
  <2>1. Doing("link") /\ UNCHANGED <<EXEC, named>>
    BY <1>13 DEF LinkLibrary, flags
  <2>2. CASE modules' = modules
    BY <1>5, <2>1, <2>2 DEF During, Doing
  <2>3. CASE modules' = Append(modules, This) /\ todo' = Do(This, <<"close", "open", "check">>)
    BY <1>11, <2>1, <2>3
  <2> QED BY <1>13, <2>2, <2>3 DEF LinkLibrary
<1>14. ASSUME Updated PROVE NamedInv'
  <2>1. /\ todo # <<>> /\ todo[1].do \in {"close", "open"} /\ todo' = Tail(todo)
        /\ UNCHANGED <<modules, EXEC, named>>
    BY <1>14 DEF Updated, Doing, flags
  <2>2. /\ todo' # <<>> /\ This' = This /\ todo'[1].do \in {"open", "forget", "check"}
        /\ Has(todo', "forget") <=> Has(todo, "forget")
    BY <1>1, <2>1, NextStep DEF Follows, Order, Final, Steps
  <2>3. TodoInv'
    BY <1>1, <2>1, StepDone
  <2>4. ~Going => todo'[1].do # "forget"
    <3>1. 1 \in DOMAIN todo'
      BY <2>2, <2>3, EmptySeq DEF TodoInv, Plan
    <3> QED BY <2>2, <3>1 DEF Going, Has
  <2>5. Underscore => NamedSoon'
    BY <1>1, <1>3, <2>1, <2>2, <2>4 DEF NamedSoon, Unnamed, During, Going
  <2> QED BY <1>1, <2>1, <2>5 DEF NamedInv, ExecNamed
<1>15. ASSUME Forget PROVE NamedInv'
  <2>1. /\ Doing("forget") /\ named' = named \ {This} /\ EXEC' = EXEC \ {This}
    BY <1>15 DEF Forget
  <2>2. Loaded' = Loaded \ {This}
    BY <1>1, <1>15, ModuleLeft DEF ChainInv, TypeOK
  <2>3. Underscore => Unnamed' = {}
    BY <1>4, <2>1, <2>2 DEF Unnamed, During, Doing
  <2> QED BY <1>1, <2>1, <2>3 DEF NamedInv, ExecNamed, NamedSoon
<1>16. ASSUME Check PROVE NamedInv'
  <2>1. /\ Doing("check") /\ UNCHANGED <<modules, EXEC>> /\ named \subseteq named'
        /\ This \in Loaded /\ FindsInit(This) => This \in named'
    BY <1>16 DEF Check
  <2>2. Underscore => Unnamed' = {}
    <3> SUFFICES ASSUME Underscore, NEW f \in Unnamed' PROVE FALSE
      OBVIOUS
    <3>1. f \in Unnamed /\ f \notin named' /\ f \in Loaded \cap Initial
      BY <1>3, <2>1 DEF Unnamed
    <3> QED BY <1>1, <2>1, <3>1 DEF NamedSoon, FindsInit
  <2> QED BY <1>1, <2>1, <2>2 DEF NamedInv, ExecNamed, NamedSoon
<1>17. ASSUME UpdateExec PROVE NamedInv'
  <2> DEFINE linked == This \in Shared \/ (This \in named /\ executable[This] >= 0)
  <2>1. /\ Doing("exec") /\ UNCHANGED <<modules, named>>
        /\ EXEC' = IF linked THEN EXEC \cup {This} ELSE EXEC \ {This}
    BY <1>17 DEF UpdateExec
  <2>2. linked => This \in Shared \/ This \in named
    OBVIOUS
  <2> HIDE DEF linked
  <2>3. ExecNamed'
    BY <1>1, <2>1, <2>2 DEF ExecNamed
  <2>4. Underscore => Unnamed' = {}
    BY <1>3, <1>4, <2>1 DEF Unnamed, During, Doing
  <2> QED BY <2>3, <2>4 DEF NamedInv, NamedSoon
<1>18. ASSUME UNCHANGED vars PROVE NamedInv'
  BY <1>6, <1>18 DEF vars, flags
<1> QED BY <1>7, <1>8, <1>9, <1>10, <1>12, <1>13, <1>14, <1>15, <1>16, <1>17, <1>18 DEF Next

\* Bundles are open if and only if their symbols are all found, and those that have a
\* name are executable then: what ExecutableIsFound says of dlmodule, EXEC and named.
ExecutableAreFound ==
  todo = <<>> /\ libraries \subseteq Loaded =>
    \A f \in Bundles :
      /\ f \in dlmodule <=> Found(f)
      /\ f \in EXEC <=> f \in named \cap dlmodule
      /\ Underscore /\ f \in Initial => f \in named

\* Between calls a bundle is open if and only if all its symbols and those of the bundles
\* that define them are found, even if files refer to each other; a module is executable
\* if and only if it is open then and has the name of its init function, which all have
\* where symbols have an underscore.  No file may define a symbol that lush or a library
\* defines, and no hook end in an error.
THEOREM ExecutableAreFoundCorrect ==
  ASSUME HooksReturn, OverridesNothing
  PROVE  Spec => []ExecutableAreFound
<1> DEFINE J == AccessInv /\ ChainInv /\ FilesFound /\ OpenExecutable /\ NamedInv
<1>1. Init => J
  <2>1. ASSUME Init PROVE AccessInv
    BY <2>1 DEF Init, AccessInv, CallsExecutable, GoingUndefined, PointersExecutable,
       PointersOpen, DanglingStale, ExecOpen, Pending, Going, Has
  <2>2. ASSUME Init PROVE Bundles = {} /\ ~During({"close", "open"}) /\ ~Doing("forget")
    BY <2>2 DEF Init, Bundles, Loaded, During, Doing
  <2>3. ASSUME Init PROVE ChainInv /\ FilesFound /\ OpenExecutable
    BY <2>2, <2>3 DEF Init, ChainInv, NoDuplicates, LinkedOnce, Pending, FilesFound,
       SupportedRanked, SupportedOpen, OpenExecutable
  <2>4. ASSUME Init PROVE NamedInv
    BY <2>4 DEF Init, NamedInv, ExecNamed, NamedSoon, Unnamed, Loaded
  <2> QED BY <2>1, <2>3, <2>4
<1>2. Inv /\ J /\ [Next]_vars => J'
  BY AccessKept, ChainKept, FilesFoundKept, OpenExecutableKept, NamedKept DEF Inv
<1>3. Inv /\ J => ExecutableAreFound
  <2> SUFFICES ASSUME Inv, J, todo = <<>>, libraries \subseteq Loaded, NEW f \in Bundles
               PROVE  /\ f \in dlmodule <=> Found(f)
                      /\ f \in EXEC <=> f \in named \cap dlmodule
                      /\ Underscore /\ f \in Initial => f \in named
    BY DEF ExecutableAreFound
  <2>1. ~During({"close", "open", "check"}) /\ ~Doing("forget") /\ ~Stale(f)
        /\ f \in Loaded \ Shared
    BY NothingStale DEF Inv, During, Doing, Bundles
  <2>2. f \in EXEC <=> f \in named \cap dlmodule
    BY <2>1 DEF AccessInv, ExecOpen, OpenExecutable, NamedInv, ExecNamed
  <2>3. ASSUME Found(f) PROVE f \in dlmodule
    <3>1. PICK C \in SUBSET Bundles : f \in C /\ Supported(C)
      BY <2>3 DEF Found, Supported
    <3>2. ~During({"close", "open"})
      BY <2>1 DEF During
    <3> QED BY <2>1, <3>1, <3>2 DEF FilesFound, SupportedOpen
  <2>4. ASSUME f \in dlmodule PROVE Found(f)
    <3>1. dlmodule \in SUBSET Bundles /\ OpenInOrder
      BY DEF Inv, OpenInv, OpenAreLoaded
    <3>2. \A g \in dlmodule : \A s \in Refers[g] : isdef(s) \/ Among(dlmodule, s)
      BY <3>1 DEF OpenInOrder, Among
    <3> QED BY <2>4, <3>1, <3>2 DEF Found
  <2>5. Underscore /\ f \in Initial => f \in named
    BY <2>1 DEF NamedInv, NamedSoon, Unnamed
  <2> QED BY <2>2, <2>3, <2>4, <2>5
<1>4. Spec => []Inv
  BY InvariantHolds
<1> HIDE DEF J
<1>5. Spec => []J
  BY <1>1, <1>2, <1>4, PTL DEF Spec
<1> QED BY <1>3, <1>4, <1>5, PTL

\* If besides no files refer to each other, an initialized module is executable and has
\* its primitives and classes.
THEOREM ExecutableCorrect ==
  ASSUME HooksReturn, OverridesNothing, NoCycles
  PROVE  Spec => []ExecutableIsFound
<1>1. Init => AccessInv /\ InitInv
  BY DEF Init, AccessInv, CallsExecutable, GoingUndefined, PointersExecutable, PointersOpen,
     DanglingStale, ExecOpen, Pending, Going, Has, InitInv, CallsUninitialized, InitExecutable,
     InitDefined
<1>2. Inv /\ AccessInv /\ InitInv /\ [Next]_vars => AccessInv' /\ InitInv'
  BY AccessKept, InitKept
<1>3. Spec => []Inv
  BY InvariantHolds
<1>4. Spec => [](AccessInv /\ InitInv)
  BY <1>1, <1>2, <1>3, PTL DEF Spec
<1>5. InitInv /\ ExecutableAreFound => ExecutableIsFound
  <2> SUFFICES ASSUME InitInv, ExecutableAreFound, todo = <<>>, libraries \subseteq Loaded,
                      NEW f \in Bundles
               PROVE  /\ f \in dlmodule <=> Found(f)
                      /\ f \in EXEC <=> f \in named \cap dlmodule
                      /\ f \in INIT => f \in EXEC \cap defs
                      /\ Underscore /\ f \in Initial => f \in named
    BY DEF ExecutableIsFound
  <2>1. f \in INIT => f \in EXEC \cap defs
    BY DEF InitInv, InitExecutable, InitDefined, During
  <2> QED BY <2>1 DEF ExecutableAreFound
<1> QED BY <1>4, <1>5, ExecutableAreFoundCorrect, PTL
=============================================================================
