---------------------------- MODULE TimersProofs -----------------------------
(***************************************************************************)
(* Proofs about the arithmetic of evtime_t and about Timers, for every     *)
(* length of a second, every set of handlers, blocks, delays, intervals    *)
(* and dates, and a clock that never stops.                                *)
(***************************************************************************)
EXTENDS Timers, SeqLemmas, SequenceTheorems, TLAPS

-----------------------------------------------------------------------------
(* The arithmetic.                                                         *)

\* Splitting a number of milliseconds into seconds and milliseconds.
LEMMA SplitProperties ==
  ASSUME NEW n \in Nat
  PROVE  /\ n \div Second \in Int /\ n % Second \in 0..(Second - 1)
         /\ (n \div Second) * Second + (n % Second) = n
  BY SecondAssumption, Z3

\* The order of the fields is the order of the dates, weakly ...
LEMMA CmpInstant ==
  ASSUME NEW t1 \in evtime_t, NEW t2 \in evtime_t, evtime_cmp(t1, t2) <= 0
  PROVE  Instant(t1) <= Instant(t2)
<1>1. /\ t1.sec \in Int /\ t2.sec \in Int /\ Second \in Nat \ {0}
      /\ t1.msec \in 0..Second /\ t2.msec \in 0..Second
  BY SecondAssumption DEF evtime_t
<1>2. CASE t1.sec < t2.sec
  <2>1. t1.sec + 1 <= t2.sec
    BY <1>1, <1>2
  <2>2. (t1.sec + 1) * Second <= t2.sec * Second
    BY <1>1, <2>1, Z3
  <2>3. t1.sec * Second + Second = (t1.sec + 1) * Second
    BY <1>1, Z3
  <2> DEFINE x == t1.sec * Second
             y == t2.sec * Second
             z == (t1.sec + 1) * Second
  <2>4. x \in Int /\ y \in Int /\ z \in Int
    BY <1>1
  <2>5. z <= y /\ x + Second = z
    BY <2>2, <2>3
  <2>6. Instant(t1) = x + t1.msec /\ Instant(t2) = y + t2.msec
    BY DEF Instant
  <2> HIDE DEF x, y, z
  <2> QED BY <1>1, <2>4, <2>5, <2>6
<1>3. CASE t1.sec = t2.sec
  <2>1. t1.msec <= t2.msec
    BY <1>1, <1>3 DEF evtime_cmp
  <2> DEFINE x == t1.sec * Second
  <2>2. x \in Int /\ Instant(t1) = x + t1.msec /\ Instant(t2) = x + t2.msec
    BY <1>1, <1>3 DEF Instant
  <2> HIDE DEF x
  <2> QED BY <1>1, <2>1, <2>2
<1>4. ~(t1.sec > t2.sec)
  BY <1>1 DEF evtime_cmp
<1> QED BY <1>1, <1>2, <1>3, <1>4

\* ... and strictly when the first date is a proper one.
LEMMA CmpProper ==
  ASSUME NEW t1 \in Proper, NEW t2 \in evtime_t, evtime_cmp(t1, t2) < 0
  PROVE  Instant(t1) < Instant(t2)
<1>1. /\ t1.sec \in Int /\ t2.sec \in Int /\ Second \in Nat \ {0}
      /\ t1.msec \in 0..(Second - 1) /\ t2.msec \in 0..Second
  BY SecondAssumption DEF evtime_t, Proper
<1>2. CASE t1.sec < t2.sec
  <2> DEFINE x == t1.sec * Second
             y == t2.sec * Second
             z == (t1.sec + 1) * Second
  <2>4. x \in Int /\ y \in Int /\ z \in Int
    BY <1>1
  <2>1. t1.sec + 1 <= t2.sec
    BY <1>1, <1>2
  <2>2. z <= y
    BY <1>1, <2>1, Z3
  <2>3. x + Second = z
    BY <1>1, Z3
  <2>6. Instant(t1) = x + t1.msec /\ Instant(t2) = y + t2.msec
    BY DEF Instant
  <2> HIDE DEF x, y, z
  <2> QED BY <1>1, <2>4, <2>2, <2>3, <2>6
<1>3. CASE t1.sec = t2.sec
  <2>1. t1.msec < t2.msec
    BY <1>1, <1>3 DEF evtime_cmp
  <2> DEFINE x == t1.sec * Second
  <2>2. x \in Int /\ Instant(t1) = x + t1.msec /\ Instant(t2) = x + t2.msec
    BY <1>1, <1>3 DEF Instant
  <2> HIDE DEF x
  <2> QED BY <1>1, <2>1, <2>2
<1>4. ~(t1.sec > t2.sec)
  BY <1>1 DEF evtime_cmp
<1> QED BY <1>1, <1>2, <1>3, <1>4

\* evtime_cmp is a total preorder on dates.
LEMMA CmpOrder ==
  ASSUME NEW t1 \in evtime_t, NEW t2 \in evtime_t, NEW t3 \in evtime_t
  PROVE  /\ evtime_cmp(t1, t2) \in {-1, 0, 1}
         /\ ~(evtime_cmp(t1, t2) < 0) => evtime_cmp(t2, t1) <= 0
         /\ evtime_cmp(t1, t2) <= 0 /\ evtime_cmp(t2, t3) <= 0 => evtime_cmp(t1, t3) <= 0
<1>1. /\ t1.sec \in Int /\ t2.sec \in Int /\ t3.sec \in Int
      /\ t1.msec \in Int /\ t2.msec \in Int /\ t3.msec \in Int
  BY SecondAssumption DEF evtime_t
<1> QED BY <1>1 DEF evtime_cmp

\* The carry normalises a number of milliseconds below two seconds.
LEMMA CarryProperties ==
  ASSUME NEW sec \in Int, NEW msec \in 0..(2 * Second)
  PROVE  /\ Carry(sec, msec) \in evtime_t
         /\ Instant(Carry(sec, msec)) = sec * Second + msec
<1> USE SecondAssumption
<1>1. CASE msec <= Second
  BY <1>1 DEF Carry, Instant, evtime_t
<1>2. CASE msec > Second
  <2>1. (msec - 1) \div Second = 1
    BY <1>2, Z3
  <2>2. Carry(sec, msec) = [sec |-> sec + 1, msec |-> msec - Second]
    BY <1>2, <2>1 DEF Carry
  <2>3. Instant(Carry(sec, msec)) = (sec + 1) * Second + (msec - Second)
    BY <2>2 DEF Instant
  <2> QED BY <1>2, <2>2, <2>3, Z3 DEF evtime_t
<1> QED BY <1>1, <1>2

\* Adding a proper delay to a date, or to a proper one.
LEMMA AddProperties ==
  ASSUME NEW t1 \in evtime_t, NEW t2 \in Proper
  PROVE  /\ evtime_add(t1, t2) \in evtime_t
         /\ Instant(evtime_add(t1, t2)) = Instant(t1) + Instant(t2)
<1>1. /\ t1.sec \in Int /\ t2.sec \in Int /\ Second \in Nat \ {0}
      /\ t1.msec \in 0..Second /\ t2.msec \in 0..(Second - 1)
  BY SecondAssumption DEF evtime_t, Proper
<1>2. t1.sec + t2.sec \in Int /\ t1.msec + t2.msec \in 0..(2 * Second)
  BY <1>1
<1>3. /\ evtime_add(t1, t2) \in evtime_t
      /\ Instant(evtime_add(t1, t2)) = (t1.sec + t2.sec) * Second + (t1.msec + t2.msec)
  BY <1>2, CarryProperties DEF evtime_add
<1> QED BY <1>1, <1>3, Z3 DEF Instant

\* The time from a proper date to another date.
LEMMA SubProperties ==
  ASSUME NEW t1 \in evtime_t, NEW t2 \in Proper
  PROVE  /\ evtime_sub(t1, t2) \in evtime_t
         /\ Instant(evtime_sub(t1, t2)) = Instant(t1) - Instant(t2)
<1>1. /\ t1.sec \in Int /\ t2.sec \in Int /\ Second \in Nat \ {0}
      /\ t1.msec \in 0..Second /\ t2.msec \in 0..(Second - 1)
  BY SecondAssumption DEF evtime_t, Proper
<1>2. t1.sec - t2.sec - 1 \in Int /\ t1.msec + Second - t2.msec \in 0..(2 * Second)
  BY <1>1
<1>3. /\ evtime_sub(t1, t2) \in evtime_t
      /\ Instant(evtime_sub(t1, t2))
           = (t1.sec - t2.sec - 1) * Second + (t1.msec + Second - t2.msec)
  BY <1>2, CarryProperties DEF evtime_sub
<1> QED BY <1>1, <1>3, Z3 DEF Instant
-----------------------------------------------------------------------------
(* Types.                                                                  *)

\* What ti_insert returns: b is at some place p, after nothing that is later
\* and before everything that is.
LEMMA InsertProperties ==
  ASSUME NEW ts \in Seq(Block), NEW b \in Block, NEW tm
  PROVE  \E p \in 1..(Len(ts) + 1) :
           /\ ti_insert(ts, b, tm) = InsertAt(ts, p, b)
           /\ \A i \in 1..(p - 1) : ~(evtime_cmp(tm[b].date, tm[ts[i]].date) < 0)
           /\ p \in DOMAIN ts => evtime_cmp(tm[b].date, tm[ts[p]].date) < 0
<1> DEFINE later == {i \in DOMAIN ts : evtime_cmp(tm[b].date, tm[ts[i]].date) < 0}
<1>1. Len(ts) \in Nat /\ DOMAIN ts = 1..Len(ts)
  BY LenProperties
<1>2. CASE later = {}
  <2>1. ti_insert(ts, b, tm) = InsertAt(ts, Len(ts) + 1, b)
    BY <1>2 DEF ti_insert
  <2>2. /\ \A i \in 1..Len(ts) : ~(evtime_cmp(tm[b].date, tm[ts[i]].date) < 0)
        /\ Len(ts) + 1 \notin DOMAIN ts
    BY <1>1, <1>2
  <2> DEFINE n == Len(ts) + 1
  <2>3. n \in 1..(Len(ts) + 1) /\ 1..(n - 1) = 1..Len(ts)
    BY <1>1
  <2> HIDE DEF later
  <2> QED BY <2>1, <2>2, <2>3
<1>3. CASE later # {}
  <2>1. \E i \in later : \A j \in later : i <= j
    <3>1. later \in SUBSET Nat
      BY <1>1
    <3> HIDE DEF later
    <3> QED BY <1>3, <3>1, LeastPosition
  <2>2. PICK p \in later : /\ \A j \in later : p <= j
                           /\ ti_insert(ts, b, tm) = InsertAt(ts, p, b)
    BY <1>3, <2>1 DEF ti_insert
  <2>3. \A i \in 1..(p - 1) : i \in DOMAIN ts /\ i \notin later
    BY <1>1, <2>2
  <2> QED BY <1>1, <2>2, <2>3
<1> QED BY <1>2, <1>3

\* Every element of r is one of ts, in the order of ts.
Sub(r, ts) ==
  \E f \in [DOMAIN r -> DOMAIN ts] :
    /\ \A j \in DOMAIN r : r[j] = ts[f[j]]
    /\ \A j, k \in DOMAIN r : j < k => f[j] < f[k]

Elements(ts) == {ts[i] : i \in DOMAIN ts}

\* In the order of the fields of the dates, no block twice.
Ordered(ts, tm) ==
  \A i, j \in DOMAIN ts :
    i < j => evtime_cmp(tm[ts[i]].date, tm[ts[j]].date) <= 0 /\ ts[i] # ts[j]

\* A part of an ordered list is ordered, whatever happens to other blocks.
LEMMA SubOrdered ==
  ASSUME NEW ts \in Seq(Block), NEW r \in Seq(Block), Sub(r, ts),
         NEW tm, NEW tn, Ordered(ts, tm),
         \A i \in DOMAIN r : tn[r[i]] = tm[r[i]]
  PROVE  Ordered(r, tn) /\ Elements(r) \subseteq Elements(ts)
<1>1. PICK f \in [DOMAIN r -> DOMAIN ts] :
        /\ \A j \in DOMAIN r : r[j] = ts[f[j]]
        /\ \A j, k \in DOMAIN r : j < k => f[j] < f[k]
  BY DEF Sub
<1>2. ASSUME NEW i \in DOMAIN r, NEW j \in DOMAIN r, i < j
      PROVE  evtime_cmp(tn[r[i]].date, tn[r[j]].date) <= 0 /\ r[i] # r[j]
  <2>1. f[i] \in DOMAIN ts /\ f[j] \in DOMAIN ts /\ f[i] < f[j]
    BY <1>1, <1>2
  <2>2. evtime_cmp(tm[ts[f[i]]].date, tm[ts[f[j]]].date) <= 0 /\ ts[f[i]] # ts[f[j]]
    BY <2>1 DEF Ordered
  <2> QED BY <1>1, <2>2
<1> QED BY <1>1, <1>2 DEF Ordered, Elements

\* Any sequence is a part of itself.
LEMMA SubRefl ==
  ASSUME NEW s PROVE Sub(s, s)
<1> DEFINE f == [j \in DOMAIN s |-> j]
<1>1. f \in [DOMAIN s -> DOMAIN s]
  OBVIOUS
<1> QED BY <1>1 DEF Sub

\* timer_del leaves a part of the list, without the handle.
LEMMA DelProperties ==
  ASSUME NEW ts \in Seq(Block), NEW handle, NEW tm, Ordered(ts, tm)
  PROVE  /\ timer_del(ts, handle) \in Seq(Block) /\ Sub(timer_del(ts, handle), ts)
         /\ handle \notin Elements(timer_del(ts, handle))
<1>1. Len(ts) \in Nat /\ DOMAIN ts = 1..Len(ts) /\ \A i \in DOMAIN ts : ts[i] \in Block
  BY LenProperties, ElementOfSeq
<1>2. CASE handle \notin Elements(ts)
  <2>1. timer_del(ts, handle) = ts
    BY <1>1, <1>2 DEF timer_del, RemoveFirst, Elements
  <2>2. Sub(ts, ts)
    BY SubRefl
  <2> QED BY <1>2, <2>1, <2>2
<1>3. CASE handle \in Elements(ts)
  <2> DEFINE P(v) == v = handle
             I == {i \in DOMAIN ts : ts[i] = handle}
  <2>1. I \in SUBSET Nat /\ I # {}
    BY <1>1, <1>3 DEF Elements
  <2>2. PICK m \in I : \A k \in I : m <= k
    BY <2>1, LeastPosition
  <2>3. \A k \in DOMAIN ts : ts[k] = handle => k = m
    <3> SUFFICES ASSUME NEW k \in DOMAIN ts, ts[k] = handle, k # m PROVE FALSE
      OBVIOUS
    <3>1. m < k
      BY <1>1, <2>2
    <3> QED BY <2>2, <3>1 DEF Ordered
  <2>4. SelectInSeq(ts, LAMBDA v : v = handle) = m
    BY <1>1, <2>2, <2>3 DEF SelectInSeq, Min
  <2>5. timer_del(ts, handle) = RemoveAt(ts, m)
    BY <1>1, <2>2, <2>4 DEF timer_del, RemoveFirst
  <2> DEFINE r == RemoveAt(ts, m)
             f == [j \in 1..(Len(ts) - 1) |-> IF j < m THEN j ELSE j + 1]
  <2>6. m \in DOMAIN ts
    BY <2>2
  <2>7. /\ r \in Seq(Block) /\ Len(r) = Len(ts) - 1
        /\ \A j \in 1..(Len(ts) - 1) : r[j] = IF j < m THEN ts[j] ELSE ts[j + 1]
    BY <2>6, RemoveAtProperties
  <2>8. DOMAIN r = 1..(Len(ts) - 1)
    BY <2>7, LenProperties
  <2> HIDE DEF r
  <2>9. f \in [DOMAIN r -> DOMAIN ts]
    BY <1>1, <2>6, <2>8
  <2>10. \A j \in DOMAIN r : r[j] = ts[f[j]] /\ f[j] # m
    BY <1>1, <2>6, <2>7, <2>8
  <2>11. \A j, k \in DOMAIN r : j < k => f[j] < f[k]
    BY <1>1, <2>6, <2>8
  <2> HIDE DEF f
  <2>12. Sub(r, ts)
    BY <2>9, <2>10, <2>11 DEF Sub
  <2>13. handle \notin Elements(r)
    BY <2>3, <2>9, <2>10 DEF Elements
  <2> QED BY <2>5, <2>7, <2>12, <2>13 DEF r
<1> QED BY <1>2, <1>3

\* ti_insert keeps the list ordered and adds its block.
LEMMA InsertOrdered ==
  ASSUME NEW ts \in Seq(Block), NEW b \in Block, b \notin Elements(ts),
         NEW tm \in [Block -> Struct], Ordered(ts, tm)
  PROVE  /\ ti_insert(ts, b, tm) \in Seq(Block)
         /\ Ordered(ti_insert(ts, b, tm), tm)
         /\ Elements(ti_insert(ts, b, tm)) = Elements(ts) \cup {b}
<1>1. Len(ts) \in Nat /\ DOMAIN ts = 1..Len(ts) /\ \A i \in DOMAIN ts : ts[i] \in Block
  BY LenProperties, ElementOfSeq
<1>2. PICK p \in 1..(Len(ts) + 1) :
        /\ ti_insert(ts, b, tm) = InsertAt(ts, p, b)
        /\ \A i \in 1..(p - 1) : ~(evtime_cmp(tm[b].date, tm[ts[i]].date) < 0)
        /\ p \in DOMAIN ts => evtime_cmp(tm[b].date, tm[ts[p]].date) < 0
  BY InsertProperties
<1>14. InsertAt(ts, p, b) \in Seq(Block) /\ IsInsertion(InsertAt(ts, p, b), ts, p, b)
  BY InsertAtProperties, Zenon
<1> DEFINE r == InsertAt(ts, p, b)
<1>3. /\ r \in Seq(Block) /\ Len(r) = Len(ts) + 1
      /\ \A j \in 1..(Len(ts) + 1) :
           r[j] = IF j < p THEN ts[j] ELSE IF j = p THEN b ELSE ts[j - 1]
  BY <1>14 DEF IsInsertion
<1>4. DOMAIN r = 1..(Len(ts) + 1)
  BY <1>3, LenProperties
<1> HIDE DEF r
<1>5. \A c \in Block : tm[c].date \in evtime_t
  BY DEF Struct
<1> DEFINE L(c, d) == evtime_cmp(tm[c].date, tm[d].date) <= 0
<1>6. \A c, d \in Block : ~(evtime_cmp(tm[c].date, tm[d].date) < 0) => L(d, c)
  BY <1>5, CmpOrder
<1>7. \A c, d, e \in Block : L(c, d) /\ L(d, e) => L(c, e)
  BY <1>5, CmpOrder
<1>8. \A c, d \in Block : evtime_cmp(tm[c].date, tm[d].date) < 0 => L(c, d)
  <2> SUFFICES ASSUME NEW c \in Block, NEW d \in Block,
                      evtime_cmp(tm[c].date, tm[d].date) < 0
               PROVE  L(c, d)
    OBVIOUS
  <2>1. evtime_cmp(tm[c].date, tm[d].date) \in {-1, 0, 1}
    BY <1>5, CmpOrder
  <2> QED BY <2>1
<1>9. \A i, j \in DOMAIN ts : i < j => L(ts[i], ts[j]) /\ ts[i] # ts[j]
  BY DEF Ordered
<1>10. \A i \in DOMAIN ts : (i < p => L(ts[i], b)) /\ (i >= p => L(b, ts[i])) /\ ts[i] # b
  <2> SUFFICES ASSUME NEW i \in DOMAIN ts
               PROVE  (i < p => L(ts[i], b)) /\ (i >= p => L(b, ts[i])) /\ ts[i] # b
    OBVIOUS
  <2>1. ts[i] \in Block /\ ts[i] # b
    BY <1>1 DEF Elements
  <2>2. CASE i < p
    <3>1. i \in 1..(p - 1)
      BY <1>1, <2>2
    <3>2. ~(evtime_cmp(tm[b].date, tm[ts[i]].date) < 0)
      BY <1>2, <3>1
    <3> QED BY <1>1, <1>6, <2>1, <2>2, <3>2
  <2>3. CASE i >= p
    <3>1. p \in DOMAIN ts /\ ts[p] \in Block
      BY <1>1, <2>3
    <3>2. L(b, ts[p])
      BY <1>2, <1>8, <3>1
    <3>3. i = p \/ L(ts[p], ts[i])
      BY <1>1, <1>9, <2>3, <3>1
    <3>4. L(b, ts[i])
      BY <1>7, <2>1, <3>1, <3>2, <3>3
    <3> QED BY <1>1, <2>1, <2>3, <3>4
  <2> QED BY <1>1, <2>2, <2>3
<1> HIDE DEF L
<1>11. ASSUME NEW i \in DOMAIN r, NEW j \in DOMAIN r, i < j
       PROVE  L(r[i], r[j]) /\ r[i] # r[j]
  <2>1. CASE j < p
    <3>1. i \in DOMAIN ts /\ j \in DOMAIN ts /\ r[i] = ts[i] /\ r[j] = ts[j]
      BY <1>1, <1>3, <1>4, <1>11, <2>1
    <3> QED BY <1>9, <1>11, <3>1
  <2>2. CASE j = p
    <3>1. i \in DOMAIN ts /\ i < p /\ r[i] = ts[i] /\ r[j] = b
      BY <1>1, <1>3, <1>4, <1>11, <2>2
    <3> QED BY <1>10, <3>1
  <2>3. CASE j > p /\ i < p
    <3>1. /\ i \in DOMAIN ts /\ j - 1 \in DOMAIN ts /\ i < j - 1
          /\ r[i] = ts[i] /\ r[j] = ts[j - 1]
      BY <1>1, <1>3, <1>4, <2>3
    <3> QED BY <1>9, <3>1
  <2>4. CASE j > p /\ i = p
    <3>1. j - 1 \in DOMAIN ts /\ j - 1 >= p /\ r[i] = b /\ r[j] = ts[j - 1]
      BY <1>1, <1>3, <1>4, <2>4
    <3> QED BY <1>10, <3>1
  <2>5. CASE j > p /\ i > p
    <3>1. /\ i - 1 \in DOMAIN ts /\ j - 1 \in DOMAIN ts /\ i - 1 < j - 1
          /\ r[i] = ts[i - 1] /\ r[j] = ts[j - 1]
      BY <1>1, <1>3, <1>4, <1>11, <2>5
    <3> QED BY <1>9, <3>1
  <2> QED BY <1>1, <1>4, <2>1, <2>2, <2>3, <2>4, <2>5
<1>12. Elements(r) = Elements(ts) \cup {b}
  <2>1. ASSUME NEW i \in DOMAIN r PROVE r[i] \in Elements(ts) \cup {b}
    BY <1>1, <1>3, <1>4 DEF Elements
  <2>2. b \in Elements(r)
    BY <1>1, <1>3, <1>4 DEF Elements
  <2>3. ASSUME NEW i \in DOMAIN ts PROVE ts[i] \in Elements(r)
    <3>1. CASE i < p
      BY <1>1, <1>3, <1>4, <3>1 DEF Elements
    <3>2. CASE i >= p
      <4>1. i + 1 \in DOMAIN r /\ r[i + 1] = ts[i]
        <5>1. i + 1 \in 1..(Len(ts) + 1) /\ ~(i + 1 < p) /\ i + 1 # p /\ (i + 1) - 1 = i
          BY <1>1, <3>2
        <5> QED BY <1>3, <1>4, <5>1
      <4> QED BY <4>1 DEF Elements
    <3> QED BY <1>1, <3>1, <3>2
  <2> QED BY <2>1, <2>2, <2>3 DEF Elements
<1>13. Ordered(r, tm)
  BY <1>11 DEF Ordered, L
<1> QED BY <1>2, <1>3, <1>12, <1>13 DEF r

-----------------------------------------------------------------------------
(* Types.                                                                  *)

\* Lisp gives timer_add proper periods and dates, and evtime_add gives dates.
LEMMA ArmTypes ==
  ASSUME TypeOK, NEW delay \in Delay, NEW interval \in Interval
  PROVE  /\ FiringAt(delay) \in evtime_t
         /\ Rounded(interval) \in Nat
         /\ [sec |-> Rounded(interval) \div Second,
             msec |-> Rounded(interval) % Second] \in Proper
<1>1. clock \in Nat /\ delay \in Nat /\ Rounded(interval) \in Nat
  BY TimersAssumption DEF TypeOK, Rounded
<1>2. \A n \in Nat : [sec |-> n \div Second, msec |-> n % Second] \in Proper
  BY SplitProperties DEF Proper
<1>3. Proper \subseteq evtime_t
  BY SecondAssumption DEF Proper, evtime_t
<1>4. FiringAt(delay) \in evtime_t
  BY <1>1, <1>2, <1>3, AddProperties DEF FiringAt, evtime_now
<1> QED BY <1>1, <1>2, <1>4

\* Freed blocks hold nothing, the others what they held.
LEMMA WithoutTypes ==
  ASSUME TypeOK, NEW S
  PROVE  /\ Without(S) \in [Block -> Struct]
         /\ \A b \in Block : b \notin S => Without(S)[b] = timer[b]
<1>1. NoTimer \in Struct
  BY SecondAssumption DEF NoTimer, Struct, evtime_t, Proper
<1> QED BY <1>1 DEF TypeOK, Without

\* What arming a timer does, when the list left is ordered.
LEMMA ArmProperties ==
  ASSUME TypeOK, NEW ts \in Seq(Block), NEW S, NEW b \in Block, NEW h \in Handler,
         NEW date \in evtime_t, NEW period \in Nat,
         [sec |-> period \div Second, msec |-> period % Second] \in Proper,
         Ordered(ts, timer), Elements(ts) \cap S = {},
         Arm(ts, S, b, h, date, period)
  PROVE  /\ timer' \in [Block -> Struct]
         /\ timers' \in Seq(Block) /\ Ordered(timers', timer')
         /\ Elements(timers') = Elements(ts) \cup {b}
         /\ timer'[b].handler = h
         /\ \A c \in Elements(ts) : timer'[c] = timer[c]
<1> DEFINE new == [date |-> date, handler |-> h,
                   period |-> [sec |-> period \div Second, msec |-> period % Second]]
<1>1. b \notin Elements(ts) /\ timer' = [Without(S) EXCEPT ![b] = new]
      /\ timers' = ti_insert(ts, b, timer')
  BY DEF Arm, Elements
<1>2. new \in Struct /\ new.handler = h
  BY DEF Struct
<1> HIDE DEF new
<1>3. timer' \in [Block -> Struct] /\ timer'[b] = new
  BY <1>1, <1>2, WithoutTypes
<1>4. \A i \in DOMAIN ts : ts[i] \in Block /\ ts[i] \in Elements(ts)
  BY ElementOfSeq DEF Elements
<1>5. \A c \in Elements(ts) : timer'[c] = timer[c]
  <2> SUFFICES ASSUME NEW c \in Elements(ts) PROVE timer'[c] = timer[c]
    OBVIOUS
  <2>1. c \in Block /\ c # b /\ c \notin S
    BY <1>1, <1>4 DEF Elements
  <2> QED BY <1>1, <2>1, WithoutTypes
<1>6. Ordered(ts, timer')
  BY <1>4, <1>5 DEF Ordered
<1> DEFINE tm == timer'
<1>7. tm \in [Block -> Struct] /\ Ordered(ts, tm) /\ timers' = ti_insert(ts, b, tm)
  BY <1>1, <1>3, <1>6
<1> HIDE DEF tm
<1>8. timers' \in Seq(Block) /\ Ordered(timers', tm) /\ Elements(timers') = Elements(ts) \cup {b}
  <2>1. /\ ti_insert(ts, b, tm) \in Seq(Block)
        /\ Ordered(ti_insert(ts, b, tm), tm)
        /\ Elements(ti_insert(ts, b, tm)) = Elements(ts) \cup {b}
    BY <1>1, <1>7, InsertOrdered, Zenon
  <2> QED BY <1>7, <2>1, Zenon
<1> QED BY <1>2, <1>3, <1>5, <1>8 DEF tm

-----------------------------------------------------------------------------
(* The inductive invariant.                                                *)

\* Inside timer_fire, the events posted so far are those of timers that are
\* not due any more: each timer is posted once per call.
PostedOnce ==
  snap # NIL =>
    \A i \in DOMAIN pending :
      LET b == pending[i].carries
      IN  b = ti \/ b \notin Armed \/ ~Due(b, snap)

TimersInv ==
  /\ TypeOK
  /\ Ordered(timers, timer)
  /\ ti # NIL => snap # NIL /\ ti \notin Armed
  /\ snap # NIL => Instant(snap) <= clock
  /\ TimerHandlersAlive
  /\ OneEventPerTimer
  /\ PostedOnce

\* The parts of the invariant about the queue when lisp code takes events
\* from it and timer_fire does not run.
LEMMA LispQueue ==
  ASSUME TimersInv, NEW p, p \in Seq(Queue!Event), Sub(p, pending), pending' = p, snap' = NIL
  PROVE  OneEventPerTimer' /\ PostedOnce'
<1>1. PICK f \in [DOMAIN p -> DOMAIN pending] :
        /\ \A j \in DOMAIN p : p[j] = pending[f[j]]
        /\ \A j, k \in DOMAIN p : j < k => f[j] < f[k]
  BY DEF Sub
<1>2. /\ DOMAIN p = 1..Len(p) /\ Len(p) \in Nat
      /\ DOMAIN pending = 1..Len(pending) /\ Len(pending) \in Nat
  BY LenProperties DEF TimersInv, TypeOK, Queue!TypeOK
<1>3. ASSUME NEW i \in DOMAIN p, NEW j \in DOMAIN p, p[i].carries = p[j].carries
      PROVE  i = j
  <2>1. f[i] \in DOMAIN pending /\ f[j] \in DOMAIN pending
    BY <1>1
  <2>2. f[i] = f[j]
    BY <1>1, <1>3, <2>1 DEF TimersInv, OneEventPerTimer
  <2> QED BY <1>1, <1>2, <2>1, <2>2
<1> QED BY <1>3 DEF OneEventPerTimer, PostedOnce

LEMMA InitTimers == Init => TimersInv
<1> SUFFICES ASSUME Init PROVE TimersInv
  OBVIOUS
<1>1. /\ timers = <<>> /\ pending = <<>> /\ alive = {} /\ snap = NIL /\ ti = NIL
      /\ clock = 0 /\ timer = [b \in Block |-> NoTimer]
      /\ timerid = [h \in Handler |-> NIL]
  BY DEF Init, Queue!Init
<1>2. NoTimer \in Struct
  BY SecondAssumption DEF NoTimer, Struct, evtime_t, Proper
<1>3. DOMAIN timers = {} /\ DOMAIN pending = {}
  BY <1>1
<1>4. TypeOK
  BY <1>1, <1>2 DEF TypeOK, Queue!TypeOK
<1> QED BY <1>1, <1>3, <1>4 DEF TimersInv, Ordered, TimerHandlersAlive, OneEventPerTimer,
                                PostedOnce, Armed

\* The armed timers of an ordered list, and what the invariant says of them.
LEMMA InvFacts ==
  ASSUME TimersInv
  PROVE  /\ timers \in Seq(Block) /\ Armed = Elements(timers) /\ Armed \subseteq Block
         /\ pending \in Seq(Queue!Event) /\ alive \subseteq Handler
         /\ \A b \in Block : timer[b] \in Struct
         /\ Len(pending) \in Nat /\ DOMAIN pending = 1..Len(pending)
         /\ Len(timers) \in Nat /\ DOMAIN timers = 1..Len(timers)
<1>1. timers \in Seq(Block) /\ pending \in Seq(Queue!Event)
  BY DEF TimersInv, TypeOK, Queue!TypeOK
<1>2. Armed = Elements(timers)
  BY DEF Armed, Elements
<1>3. Armed \subseteq Block
  BY <1>1, <1>2, ElementOfSeq DEF Elements
<1>4. /\ Len(pending) \in Nat /\ DOMAIN pending = 1..Len(pending)
      /\ Len(timers) \in Nat /\ DOMAIN timers = 1..Len(timers)
  BY <1>1, LenProperties
<1> QED BY <1>1, <1>2, <1>3, <1>4 DEF TimersInv, TypeOK, Queue!TypeOK

\* A timer is armed by lisp code for a live handler, after the timers of S
\* were freed and left out of the list.
LEMMA ArmStep ==
  ASSUME TimersInv, LispRuns, NEW ts \in Seq(Block), Sub(ts, timers),
         NEW S, Elements(ts) \cap S = {}, NEW b \in Block, NEW h \in alive,
         NEW date \in evtime_t, NEW period \in Nat,
         [sec |-> period \div Second, msec |-> period % Second] \in Proper,
         Arm(ts, S, b, h, date, period),
         timerid' \in [Handler -> Block \cup {NIL}],
         UNCHANGED <<clock, alive, pending, snap, ti>>
  PROVE  TimersInv'
<1>1. Ordered(ts, timer) /\ Elements(ts) \subseteq Armed
  BY InvFacts, SubOrdered DEF TimersInv
<1>2. h \in Handler
  BY InvFacts
<1>3. /\ timer' \in [Block -> Struct]
      /\ timers' \in Seq(Block) /\ Ordered(timers', timer')
      /\ Elements(timers') = Elements(ts) \cup {b}
      /\ timer'[b].handler = h
      /\ \A c \in Elements(ts) : timer'[c] = timer[c]
  BY <1>1, <1>2, ArmProperties DEF TimersInv
<1>4. Armed' = Elements(ts) \cup {b}
  BY <1>3 DEF Armed, Elements
<1>5. snap = NIL /\ ti = NIL
  BY DEF LispRuns, TimersInv
<1>6. TypeOK'
  BY <1>3 DEF TimersInv, TypeOK, Queue!TypeOK
<1>7. TimerHandlersAlive'
  BY <1>1, <1>3, <1>4, <1>5 DEF TimersInv, TimerHandlersAlive
<1>8. OneEventPerTimer' /\ PostedOnce'
  BY <1>5 DEF TimersInv, OneEventPerTimer, PostedOnce
<1> QED BY <1>3, <1>5, <1>6, <1>7, <1>8 DEF TimersInv

LEMMA SetStep ==
  ASSUME TimersInv, NEW h \in Handler, NEW delay \in Delay, NEW interval \in Interval,
         Set(h, delay, interval)
  PROVE  TimersInv'
<1> DEFINE ts == timer_del(timers, timerid[h])
<1>1. ts \in Seq(Block) /\ Sub(ts, timers) /\ Elements(ts) \cap {timerid[h]} = {}
  BY InvFacts, DelProperties DEF TimersInv
<1>2. PICK b \in Block :
        /\ Arm(ts, {timerid[h]}, b, h, FiringAt(delay), Rounded(interval))
        /\ timerid' = [timerid EXCEPT ![h] = b]
  BY DEF Set
<1>3. LispRuns /\ h \in alive /\ UNCHANGED <<clock, alive, pending, snap, ti>>
  BY DEF Set
<1>4. timerid' \in [Handler -> Block \cup {NIL}]
  BY <1>2 DEF TimersInv, TypeOK
<1> HIDE DEF ts
<1>5. /\ FiringAt(delay) \in evtime_t /\ Rounded(interval) \in Nat
      /\ [sec |-> Rounded(interval) \div Second,
          msec |-> Rounded(interval) % Second] \in Proper
  BY ArmTypes DEF TimersInv
<1> QED BY <1>1, <1>2, <1>3, <1>4, <1>5, ArmStep

LEMMA CreateAbsoluteStep ==
  ASSUME TimersInv, NEW h \in Handler, NEW date \in Date, CreateAbsolute(h, date)
  PROVE  TimersInv'
<1>1. Sub(timers, timers)
  BY SubRefl
<1>2. PICK b \in Block : Arm(timers, {}, b, h, date, 0)
  BY DEF CreateAbsolute
<1>3. LispRuns /\ h \in alive /\ UNCHANGED <<clock, alive, pending, timerid, snap, ti>>
  BY DEF CreateAbsolute
<1>4. date \in evtime_t
  BY TimersAssumption, SecondAssumption DEF Proper, evtime_t
<1>5. [sec |-> 0 \div Second, msec |-> 0 % Second] \in Proper
  BY SplitProperties DEF Proper
<1>6. Elements(timers) \cap {} = {}
  OBVIOUS
<1>7. timerid' \in [Handler -> Block \cup {NIL}]
  BY <1>3 DEF TimersInv, TypeOK
<1>8. timers \in Seq(Block)
  BY InvFacts
<1>9. 0 \in Nat
  OBVIOUS
<1> QED BY <1>1, <1>2, <1>3, <1>4, <1>5, <1>6, <1>7, <1>8, <1>9, ArmStep

\* Lisp code takes timers out of the list, and events from the queue.
LEMMA RemoveStep ==
  ASSUME TimersInv, LispRuns, NEW S, timer' = Without(S),
         timers' \in Seq(Block), Sub(timers', timers), Elements(timers') \cap S = {},
         pending' \in Seq(Queue!Event), Sub(pending', pending),
         alive' \subseteq Handler,
         \A b \in Elements(timers') : timer[b].handler \in alive',
         timerid' \in [Handler -> Block \cup {NIL}],
         UNCHANGED <<clock, snap, ti>>
  PROVE  TimersInv'
<1>1. timer' \in [Block -> Struct] /\ \A b \in Block : b \notin S => timer'[b] = timer[b]
  BY WithoutTypes DEF TimersInv
<1>2. \A i \in DOMAIN timers' :
        timers'[i] \in Block /\ timers'[i] \in Elements(timers')
  BY ElementOfSeq DEF Elements
<1>3. \A i \in DOMAIN timers' : timer'[timers'[i]] = timer[timers'[i]]
  BY <1>1, <1>2
<1> DEFINE r == timers'
           tn == timer'
<1>4. Ordered(r, tn)
  <2>1. /\ r \in Seq(Block) /\ Sub(r, timers)
        /\ \A i \in DOMAIN r : tn[r[i]] = timer[r[i]]
    BY <1>3
  <2> HIDE DEF r, tn
  <2> QED BY <2>1, InvFacts, SubOrdered DEF TimersInv
<1>5. snap = NIL /\ ti = NIL
  BY DEF LispRuns, TimersInv
<1>6. Armed' = Elements(timers')
  BY DEF Armed, Elements
<1>7. TimerHandlersAlive'
  <2>1. \A b \in Elements(timers') : timer'[b] = timer[b]
    BY <1>3 DEF Elements
  <2> QED BY <1>5, <1>6, <2>1 DEF TimerHandlersAlive
<1>8. OneEventPerTimer' /\ PostedOnce'
  <2> DEFINE p == pending'
  <2>1. p \in Seq(Queue!Event) /\ Sub(p, pending) /\ pending' = p /\ snap' = NIL
    BY <1>5
  <2> HIDE DEF p
  <2> QED BY <2>1, LispQueue
<1>9. TypeOK'
  BY <1>1 DEF TimersInv, TypeOK, Queue!TypeOK
<1> QED BY <1>4, <1>5, <1>7, <1>8, <1>9 DEF TimersInv

LEMMA CancelStep ==
  ASSUME TimersInv, NEW h \in Handler, Cancel(h)
  PROVE  TimersInv'
<1>1. /\ LispRuns /\ timers' = timer_del(timers, timerid[h])
      /\ timer' = Without({timerid[h]}) /\ timerid' = [timerid EXCEPT ![h] = NIL]
      /\ UNCHANGED <<clock, alive, pending, snap, ti>>
  BY DEF Cancel
<1>2. /\ timers' \in Seq(Block) /\ Sub(timers', timers)
      /\ Elements(timers') \cap {timerid[h]} = {}
  BY <1>1, InvFacts, DelProperties DEF TimersInv
<1>3. pending' \in Seq(Queue!Event) /\ Sub(pending', pending) /\ alive' \subseteq Handler
  BY <1>1, InvFacts, SubRefl
<1>4. \A b \in Elements(timers') : timer[b].handler \in alive'
  <2>1. Elements(timers') \subseteq Armed
    BY <1>2, InvFacts DEF Sub, Elements
  <2> QED BY <1>1, <2>1 DEF TimersInv, TimerHandlersAlive
<1>5. timerid' \in [Handler -> Block \cup {NIL}]
  BY <1>1 DEF TimersInv, TypeOK
<1> QED BY <1>1, <1>2, <1>3, <1>4, <1>5, RemoveStep

LEMMA DieStep ==
  ASSUME TimersInv, NEW h \in Handler, Die(h)
  PROVE  TimersInv'
<1> DEFINE I == {i \in DOMAIN timers : timer[timers[i]].handler # h}
           J == {i \in DOMAIN pending : pending[i].to # h}
           S == {b \in Armed : timer[b].handler = h}
<1>1. /\ LispRuns /\ timers' \in Selection(timers, I) /\ timer' = Without(S)
      /\ alive' = alive \ {h} /\ pending' \in Selection(pending, J)
      /\ UNCHANGED <<clock, timerid, snap, ti>>
  BY DEF Die, ti_finalize, Queue!Die, Queue!Selection, Queue!Increasing, Queue!Onto,
         Selection, Increasing, Onto
<1>2. /\ timers' \in Seq(Block)
      /\ \E f \in [DOMAIN timers' -> I] :
           /\ \A j \in DOMAIN timers' : timers'[j] = timers[f[j]]
           /\ \A j, k \in DOMAIN timers' : j < k => f[j] < f[k]
  <2>1. I \in SUBSET (DOMAIN timers) /\ timers \in Seq(Block)
    BY InvFacts
  <2> HIDE DEF I
  <2>2. PICK q, r : q = timers /\ r = timers'
    OBVIOUS
  <2>3. q \in Seq(Block) /\ I \in SUBSET (DOMAIN q) /\ r \in Selection(q, I)
    BY <1>1, <2>1, <2>2
  <2>4. /\ r \in Seq(Block)
        /\ \E f \in [DOMAIN r -> I] :
             /\ \A j \in DOMAIN r : r[j] = q[f[j]]
             /\ \A j, k \in DOMAIN r : j < k => f[j] < f[k]
    BY <2>3, SelectionProperties
  <2> QED BY <2>2, <2>4
<1>3. PICK f \in [DOMAIN timers' -> I] :
           /\ \A j \in DOMAIN timers' : timers'[j] = timers[f[j]]
           /\ \A j, k \in DOMAIN timers' : j < k => f[j] < f[k]
  BY <1>2
<1>4. Sub(timers', timers)
  <2>1. f \in [DOMAIN timers' -> DOMAIN timers]
    BY <1>3
  <2> QED BY <1>3, <2>1 DEF Sub
<1>5. \A b \in Elements(timers') : b \in Armed /\ timer[b].handler # h
  BY <1>3 DEF Elements, Armed
<1>6. /\ pending' \in Seq(Queue!Event)
      /\ \E g \in [DOMAIN pending' -> J] :
           /\ \A j \in DOMAIN pending' : pending'[j] = pending[g[j]]
           /\ \A j, k \in DOMAIN pending' : j < k => g[j] < g[k]
  <2>1. J \in SUBSET (DOMAIN pending) /\ pending \in Seq(Queue!Event)
    BY InvFacts
  <2> HIDE DEF J
  <2> QED BY <1>1, <2>1, SelectionProperties
<1>7. Sub(pending', pending)
  <2>1. PICK g \in [DOMAIN pending' -> J] :
           /\ \A j \in DOMAIN pending' : pending'[j] = pending[g[j]]
           /\ \A j, k \in DOMAIN pending' : j < k => g[j] < g[k]
    BY <1>6
  <2>2. g \in [DOMAIN pending' -> DOMAIN pending]
    BY <2>1
  <2> QED BY <2>1, <2>2 DEF Sub
<1>8. alive' \subseteq Handler
  BY <1>1, InvFacts
<1>9. \A b \in Elements(timers') : timer[b].handler \in alive'
  BY <1>1, <1>5 DEF TimersInv, TimerHandlersAlive
<1>10. Elements(timers') \cap S = {}
  BY <1>5
<1>11. timerid' \in [Handler -> Block \cup {NIL}]
  BY <1>1 DEF TimersInv, TypeOK
<1> HIDE DEF S, I, J
<1> QED BY <1>1, <1>2, <1>4, <1>6, <1>7, <1>8, <1>9, <1>10, <1>11, RemoveStep

\* A sequence without one element is a part of it.
LEMMA SubRemove ==
  ASSUME NEW T, NEW q \in Seq(T), NEW m \in DOMAIN q
  PROVE  RemoveAt(q, m) \in Seq(T) /\ Sub(RemoveAt(q, m), q)
<1> DEFINE r == RemoveAt(q, m)
           f == [j \in 1..(Len(q) - 1) |-> IF j < m THEN j ELSE j + 1]
<1>1. Len(q) \in Nat /\ DOMAIN q = 1..Len(q) /\ m \in 1..Len(q)
  BY LenProperties
<1>2. /\ r \in Seq(T) /\ Len(r) = Len(q) - 1
      /\ \A j \in 1..(Len(q) - 1) : r[j] = IF j < m THEN q[j] ELSE q[j + 1]
  BY RemoveAtProperties
<1> HIDE DEF r
<1>3. DOMAIN r = 1..(Len(q) - 1)
  BY <1>2, LenProperties
<1>4. f \in [DOMAIN r -> DOMAIN q]
  BY <1>1, <1>3
<1>5. \A j \in DOMAIN r : r[j] = q[f[j]]
  BY <1>1, <1>2, <1>3
<1>6. \A j, k \in DOMAIN r : j < k => f[j] < f[k]
  BY <1>1, <1>3
<1> HIDE DEF f
<1>7. Sub(r, q)
  BY <1>4, <1>5, <1>6 DEF Sub
<1> QED BY <1>2, <1>7 DEF r

LEMMA DispatchStep ==
  ASSUME TimersInv, NEW h \in Handler, Dispatch(h)
  PROVE  TimersInv'
<1>1. LispRuns /\ UNCHANGED <<clock, timers, timer, alive, timerid, snap, ti>>
  BY DEF Dispatch, Queue!Take
<1>2. PICK i \in DOMAIN pending : pending' = RemoveAt(pending, i)
  BY DEF Dispatch, Queue!Take, Queue!RemoveAt, RemoveAt
<1> DEFINE p == RemoveAt(pending, i)
<1>3. p \in Seq(Queue!Event) /\ Sub(p, pending)
  BY InvFacts, SubRemove
<1>4. snap' = NIL /\ pending' = p
  BY <1>1, <1>2 DEF LispRuns
<1> HIDE DEF p
<1>5. OneEventPerTimer' /\ PostedOnce'
  BY <1>3, <1>4, LispQueue
<1>6. TypeOK'
  BY <1>1, <1>3, <1>4 DEF TimersInv, TypeOK, Queue!TypeOK
<1> QED BY <1>1, <1>5, <1>6 DEF TimersInv, TimerHandlersAlive, Armed, Ordered

LEMMA FireStartStep ==
  ASSUME TimersInv, FireStart
  PROVE  TimersInv'
<1>1. /\ LispRuns /\ pending = <<>> /\ snap' = evtime_now(clock)
      /\ UNCHANGED <<clock, timers, timer, alive, pending, timerid, ti>>
  BY DEF FireStart
<1>2. snap' \in Proper /\ Instant(snap') = clock
  <2>1. clock \in Nat
    BY DEF TimersInv, TypeOK
  <2> QED BY <1>1, <2>1, SplitProperties DEF evtime_now, Proper, Instant
<1>3. TypeOK'
  BY <1>1, <1>2 DEF TimersInv, TypeOK, Queue!TypeOK
<1>4. DOMAIN pending' = {}
  BY <1>1
<1>5. PostedOnce'
  BY <1>4 DEF PostedOnce
<1>6. ti = NIL
  BY <1>1 DEF LispRuns, TimersInv
<1>7. (snap # NIL => Instant(snap) <= clock)'
  <2>1. clock \in Nat
    BY DEF TimersInv, TypeOK
  <2> QED BY <1>1, <1>2, <2>1
<1> QED BY <1>1, <1>3, <1>5, <1>6, <1>7
        DEF TimersInv, TimerHandlersAlive, OneEventPerTimer, Armed, Ordered

LEMMA FirePostStep ==
  ASSUME TimersInv, FirePost
  PROVE  TimersInv'
<1> DEFINE b == Head(timers)
<1>1. /\ snap # NIL /\ ti = NIL /\ timers # <<>> /\ Due(b, snap)
      /\ timer[b].handler \in alive
      /\ pending' = Append(pending, [to |-> timer[b].handler, carries |-> b])
      /\ timers' = Tail(timers) /\ ti' \in {b, NIL}
      /\ timer' = Without({b} \ {ti'})
      /\ UNCHANGED <<clock, alive, timerid, snap>>
  BY DEF FirePost, FirstIsDue, Queue!Post
<1>2. /\ b = timers[1] /\ 1 \in DOMAIN timers /\ b \in Block /\ b \in Armed
  BY <1>1, InvFacts, EmptySeq, HeadTailProperties DEF Armed
<1>3. /\ timers' \in Seq(Block) /\ Len(timers') = Len(timers) - 1
      /\ \A i \in 1..Len(timers') : timers'[i] = timers[i + 1]
  BY <1>1, InvFacts, HeadTailProperties
<1>4. DOMAIN timers' = 1..(Len(timers) - 1)
  BY <1>3, LenProperties
<1>5. Sub(timers', timers)
  <2> DEFINE r == timers'
             f == [j \in 1..(Len(timers) - 1) |-> j + 1]
  <2>1. f \in [DOMAIN r -> DOMAIN timers]
    BY <1>4, InvFacts
  <2>2. \A j \in DOMAIN r : r[j] = timers[f[j]]
    BY <1>3, <1>4
  <2>3. \A j, k \in DOMAIN r : j < k => f[j] < f[k]
    BY <1>4
  <2> HIDE DEF f
  <2> QED BY <2>1, <2>2, <2>3 DEF Sub
<1> HIDE DEF b
<1>6. b \notin Elements(timers') /\ Elements(timers') \subseteq Armed
  <2>1. ASSUME NEW i \in DOMAIN timers' PROVE timers'[i] # b /\ timers'[i] \in Armed
    <3>1. i + 1 \in DOMAIN timers /\ timers'[i] = timers[i + 1] /\ 1 < i + 1
      BY <1>3, <1>4, InvFacts
    <3> QED BY <1>2, <3>1 DEF TimersInv, Ordered, Armed
  <2> QED BY <2>1 DEF Elements
<1>7. timer' \in [Block -> Struct] /\ \A c \in Block : c # b \/ c = ti' => timer'[c] = timer[c]
  BY <1>1, WithoutTypes DEF TimersInv
<1>8. Ordered(timers', timer')
  <2> DEFINE r == timers'
             tn == timer'
  <2>1. \A i \in DOMAIN r : r[i] \in Block /\ r[i] \in Elements(r)
    BY <1>3, ElementOfSeq DEF Elements
  <2>2. \A i \in DOMAIN r : tn[r[i]] = timer[r[i]]
    BY <1>6, <1>7, <2>1
  <2>3. r \in Seq(Block) /\ Sub(r, timers)
    BY <1>3, <1>5
  <2> HIDE DEF r, tn
  <2>4. Ordered(r, tn)
    BY <2>2, <2>3, InvFacts, SubOrdered DEF TimersInv
  <2> QED BY <2>4 DEF r, tn
<1>9. Armed' = Elements(timers')
  BY DEF Armed, Elements
<1>10. NIL \notin Block
  BY TimersAssumption
<1>11. TimerHandlersAlive'
  <2>1. ASSUME NEW c \in Armed' \cup ({ti'} \ {NIL})
        PROVE  c \in Armed /\ timer'[c] = timer[c]
    <3>1. CASE c \in Armed'
      BY <1>6, <1>7, <1>9, <3>1, InvFacts
    <3>2. CASE c = ti' /\ c # NIL
      BY <1>1, <1>2, <1>7, <3>2
    <3> QED BY <3>1, <3>2
  <2> QED BY <1>1, <2>1 DEF TimersInv, TimerHandlersAlive
<1>12. /\ DOMAIN pending' = 1..(Len(pending) + 1) /\ Len(pending) \in Nat
       /\ \A i \in 1..Len(pending) : pending'[i] = pending[i]
       /\ pending'[Len(pending) + 1].carries = b
       /\ pending' \in Seq(Queue!Event)
  <2> DEFINE e == [to |-> timer[b].handler, carries |-> b]
  <2>1. e \in Queue!Event /\ e.carries = b
    BY <1>1, <1>2, InvFacts DEF Queue!Event
  <2>2. pending' = Append(pending, e)
    BY <1>1
  <2> HIDE DEF e
  <2>3. /\ pending' \in Seq(Queue!Event) /\ Len(pending') = Len(pending) + 1
        /\ \A i \in 1..Len(pending) : pending'[i] = pending[i]
        /\ pending'[Len(pending) + 1] = e
    BY <2>1, <2>2, InvFacts, AppendProperties
  <2>4. DOMAIN pending' = 1..Len(pending')
    BY <2>3, LenProperties
  <2> QED BY <2>1, <2>3, <2>4, InvFacts
<1>13. \A i \in 1..Len(pending) : pending[i].carries # b
  BY <1>1, <1>2, <1>10, InvFacts DEF TimersInv, PostedOnce
<1>14. OneEventPerTimer'
  <2>1. ASSUME NEW i \in DOMAIN pending', NEW j \in DOMAIN pending',
               pending'[i].carries = pending'[j].carries
        PROVE  i = j
    <3>1. CASE i \in 1..Len(pending) /\ j \in 1..Len(pending)
      BY <1>12, <2>1, <3>1, InvFacts DEF TimersInv, OneEventPerTimer
    <3>2. CASE i = Len(pending) + 1 \/ j = Len(pending) + 1
      BY <1>12, <1>13, <2>1, <3>2
    <3> QED BY <1>12, <3>1, <3>2
  <2> QED BY <2>1 DEF OneEventPerTimer
<1>15. PostedOnce'
  <2>1. ASSUME NEW i \in DOMAIN pending', NEW c, c = pending'[i].carries
        PROVE  c = ti' \/ c \notin Armed' \/ ~Due(c, snap)'
    <3>1. CASE i = Len(pending) + 1
      BY <1>6, <1>9, <1>12, <2>1, <3>1
    <3>2. CASE i \in 1..Len(pending)
      <4>1. pending[i] \in Queue!Event
        BY <3>2, InvFacts, ElementOfSeq
      <4>2. c = pending[i].carries /\ c # b /\ c \in Block
        BY <1>12, <1>13, <2>1, <3>2, <4>1 DEF Queue!Event
      <4>3. c = ti \/ c \notin Armed \/ ~Due(c, snap)
        BY <1>1, <3>2, <4>2, InvFacts DEF TimersInv, PostedOnce
      <4>4. c \notin Armed \/ ~Due(c, snap)
        BY <1>1, <1>10, <4>2, <4>3
      <4>5. timer'[c] = timer[c] /\ snap' = snap
        BY <1>1, <1>7, <4>2
      <4> QED BY <1>6, <1>9, <4>4, <4>5 DEF Due
    <3> QED BY <1>12, <3>1, <3>2
  <2>2. \A i \in DOMAIN pending' : (LET c == pending[i].carries
                                    IN  c = ti \/ c \notin Armed \/ ~Due(c, snap))'
    BY <2>1 DEF Due
  <2> QED BY <2>2 DEF PostedOnce
<1>16. TypeOK'
  BY <1>1, <1>2, <1>3, <1>7, <1>12 DEF TimersInv, TypeOK, Queue!TypeOK
<1>17. (ti # NIL => snap # NIL /\ ti \notin Armed)'
  BY <1>1, <1>6, <1>9
<1>18. (snap # NIL => Instant(snap) <= clock)'
  BY <1>1 DEF TimersInv
<1> QED BY <1>8, <1>11, <1>14, <1>15, <1>16, <1>17, <1>18 DEF TimersInv

\* The date of the timer that timer_fire holds, which is in no list, moves.
LEMMA FireAdvanceStep ==
  ASSUME TimersInv, FireAdvance
  PROVE  TimersInv'
<1>1. /\ snap # NIL /\ ti # NIL /\ ti \notin Armed
      /\ timer' = [timer EXCEPT ![ti].date = evtime_add(@, timer[ti].period)]
      /\ UNCHANGED <<clock, timers, alive, pending, timerid, snap, ti>>
  BY DEF FireAdvance, TimersInv
<1>2. ti \in Block /\ timer[ti] \in Struct
  BY <1>1, InvFacts DEF TimersInv, TypeOK
<1>3. evtime_add(timer[ti].date, timer[ti].period) \in evtime_t
  BY <1>2, AddProperties DEF Struct
<1> DEFINE new == [timer[ti] EXCEPT !.date = evtime_add(@, timer[ti].period)]
<1>4. new \in Struct /\ new.handler = timer[ti].handler
  BY <1>2, <1>3 DEF Struct
<1>5. timer' = [timer EXCEPT ![ti] = new]
  BY <1>1
<1> HIDE DEF new
<1>6. /\ timer' \in [Block -> Struct]
      /\ \A c \in Block : c # ti => timer'[c] = timer[c]
      /\ \A c \in Block : timer'[c].handler = timer[c].handler
  BY <1>2, <1>4, <1>5 DEF TimersInv, TypeOK
<1>7. \A c \in Armed : timer'[c] = timer[c]
  BY <1>1, <1>6, InvFacts
<1>8. Armed' = Armed
  BY <1>1 DEF Armed
<1>9. Ordered(timers', timer')
  BY <1>1, <1>7 DEF TimersInv, Ordered, Armed
<1>10. TimerHandlersAlive'
  BY <1>1, <1>2, <1>6, <1>8, InvFacts DEF TimersInv, TimerHandlersAlive
<1>11. PostedOnce'
  <2>1. ASSUME NEW i \in DOMAIN pending', NEW c, c = pending'[i].carries
        PROVE  c = ti' \/ c \notin Armed' \/ ~Due(c, snap)'
    <3>1. c = ti \/ c \notin Armed \/ ~Due(c, snap)
      BY <1>1, <2>1 DEF TimersInv, PostedOnce
    <3> QED BY <1>1, <1>7, <1>8, <3>1 DEF Due
  <2>2. \A i \in DOMAIN pending' : (LET c == pending[i].carries
                                    IN  c = ti \/ c \notin Armed \/ ~Due(c, snap))'
    BY <2>1 DEF Due
  <2> QED BY <2>2 DEF PostedOnce
<1>12. TypeOK'
  BY <1>1, <1>6 DEF TimersInv, TypeOK, Queue!TypeOK
<1>13. OneEventPerTimer'
  BY <1>1 DEF TimersInv, OneEventPerTimer
<1> QED BY <1>1, <1>8, <1>9, <1>10, <1>11, <1>12, <1>13 DEF TimersInv

\* The timer goes back at its place; it is not due any more.
LEMMA FireInsertStep ==
  ASSUME TimersInv, FireInsert
  PROVE  TimersInv'
<1>1. /\ snap # NIL /\ ti # NIL /\ ti \notin Armed /\ ~Due(ti, snap)
      /\ timers' = ti_insert(timers, ti, timer) /\ ti' = NIL
      /\ UNCHANGED <<clock, timer, alive, pending, timerid, snap>>
  BY DEF FireInsert, TimersInv
<1>2. ti \in Block /\ ti \notin Elements(timers) /\ timer \in [Block -> Struct]
  BY <1>1, InvFacts DEF TimersInv, TypeOK
<1>3. /\ ti_insert(timers, ti, timer) \in Seq(Block)
      /\ Ordered(ti_insert(timers, ti, timer), timer)
      /\ Elements(ti_insert(timers, ti, timer)) = Elements(timers) \cup {ti}
  BY <1>2, InvFacts, InsertOrdered DEF TimersInv
<1>4. /\ timers' \in Seq(Block) /\ Ordered(timers', timer')
      /\ Elements(timers') = Elements(timers) \cup {ti}
  <2>1. timer' = timer
    BY <1>1
  <2> QED BY <1>1, <1>3, <2>1
<1>5. Armed' = Armed \cup {ti}
  BY <1>4, InvFacts DEF Armed, Elements
<1>6. TimerHandlersAlive'
  BY <1>1, <1>5 DEF TimersInv, TimerHandlersAlive
<1>7. PostedOnce'
  <2>1. ASSUME NEW i \in DOMAIN pending', NEW c, c = pending'[i].carries
        PROVE  c = ti' \/ c \notin Armed' \/ ~Due(c, snap)'
    <3>1. c = ti \/ c \notin Armed \/ ~Due(c, snap)
      BY <1>1, <2>1 DEF TimersInv, PostedOnce
    <3> QED BY <1>1, <1>5, <3>1 DEF Due
  <2>2. \A i \in DOMAIN pending' : (LET c == pending[i].carries
                                    IN  c = ti \/ c \notin Armed \/ ~Due(c, snap))'
    BY <2>1 DEF Due
  <2> QED BY <2>2 DEF PostedOnce
<1>8. TypeOK'
  BY <1>1, <1>4 DEF TimersInv, TypeOK, Queue!TypeOK
<1>9. OneEventPerTimer'
  BY <1>1 DEF TimersInv, OneEventPerTimer
<1> QED BY <1>1, <1>4, <1>6, <1>7, <1>8, <1>9 DEF TimersInv

LEMMA FireEndStep ==
  ASSUME TimersInv, FireEnd
  PROVE  TimersInv'
<1>1. /\ ti = NIL /\ snap' = NIL
      /\ UNCHANGED <<clock, timers, timer, alive, pending, timerid, ti>>
  BY DEF FireEnd
<1>2. TypeOK'
  BY <1>1 DEF TimersInv, TypeOK, Queue!TypeOK
<1>3. PostedOnce'
  BY <1>1 DEF PostedOnce
<1> QED BY <1>1, <1>2, <1>3
        DEF TimersInv, TimerHandlersAlive, OneEventPerTimer, Armed, Ordered

\* A Timer is born, the clock goes on, or nothing happens.
LEMMA IdleStep ==
  ASSUME TimersInv, alive' \subseteq Handler, alive \subseteq alive',
         timerid' \in [Handler -> Block \cup {NIL}],
         clock' \in Nat, clock <= clock',
         UNCHANGED <<timers, timer, pending, snap, ti>>
  PROVE  TimersInv'
<1>1. TypeOK'
  BY DEF TimersInv, TypeOK, Queue!TypeOK
<1>2. Armed' = Armed
  BY DEF Armed
<1>3. TimerHandlersAlive'
  BY <1>2 DEF TimersInv, TimerHandlersAlive
<1>4. PostedOnce'
  BY <1>2 DEF TimersInv, PostedOnce, Due
<1>5. (snap # NIL => Instant(snap) <= clock)'
  <2> SUFFICES ASSUME snap' # NIL PROVE Instant(snap') <= clock'
    OBVIOUS
  <2>1. Instant(snap) \in Int
    BY SecondAssumption DEF TimersInv, TypeOK, Proper, Instant
  <2>2. clock \in Nat /\ Instant(snap) <= clock
    BY DEF TimersInv, TypeOK
  <2> QED BY <2>1, <2>2
<1> QED BY <1>1, <1>2, <1>3, <1>4, <1>5 DEF TimersInv, Ordered, OneEventPerTimer

LEMMA NextTimers == TimersInv /\ [Next]_vars => TimersInv'
<1> SUFFICES ASSUME TimersInv, [Next]_vars PROVE TimersInv'
  OBVIOUS
<1>0. clock \in Nat /\ timerid \in [Handler -> Block \cup {NIL}] /\ alive \subseteq Handler
  BY InvFacts DEF TimersInv, TypeOK
<1>1. ASSUME NEW h \in Handler, New(h) PROVE TimersInv'
  BY <1>0, <1>1, IdleStep DEF New, Queue!Born
<1>2. ASSUME NEW h \in Handler, Cancel(h) PROVE TimersInv'
  BY <1>2, CancelStep
<1>3. ASSUME NEW h \in Handler, Die(h) PROVE TimersInv'
  BY <1>3, DieStep
<1>4. ASSUME NEW h \in Handler, Dispatch(h) PROVE TimersInv'
  BY <1>4, DispatchStep
<1>5. ASSUME NEW h \in Handler, NEW delay \in Delay, NEW interval \in Interval,
             Set(h, delay, interval)
      PROVE  TimersInv'
  BY <1>5, SetStep
<1>6. ASSUME NEW h \in Handler, NEW date \in Date, CreateAbsolute(h, date)
      PROVE  TimersInv'
  BY <1>6, CreateAbsoluteStep
<1>7. CASE FireStart
  BY <1>7, FireStartStep
<1>8. CASE FirePost
  BY <1>8, FirePostStep
<1>9. CASE FireAdvance
  BY <1>9, FireAdvanceStep
<1>10. CASE FireInsert
  BY <1>10, FireInsertStep
<1>11. CASE FireEnd
  BY <1>11, FireEndStep
<1>12. CASE Tick
  BY <1>0, <1>12, IdleStep DEF Tick
<1>13. CASE UNCHANGED vars
  BY <1>0, <1>13, IdleStep DEF vars
<1> QED BY <1>1, <1>2, <1>3, <1>4, <1>5, <1>6, <1>7, <1>8, <1>9, <1>10, <1>11, <1>12,
           <1>13
        DEF Next, Lisp, Fire

-----------------------------------------------------------------------------
(* The theorems.                                                           *)

LEMMA TimersInvariant == Spec => []TimersInv
  BY InitTimers, NextTimers, PTL DEF Spec

\* The timer structures, the list and the queue keep their types; dates keep
\* at most 1000 milliseconds (evtime_add).
THEOREM TypeCorrect == Spec => []TypeOK
<1>1. TimersInv => TypeOK
  BY DEF TimersInv
<1> QED BY <1>1, TimersInvariant, PTL

\* The first timer of the list is the earliest, though equal dates have
\* several forms and evtime_cmp tells them apart (ti_insert, timer_fire).
THEOREM OrderCorrect == Spec => []TimersInOrder
<1>1. TimersInv => TimersInOrder
  <2> SUFFICES ASSUME TimersInv, NEW i \in DOMAIN timers, NEW j \in DOMAIN timers, i < j
               PROVE  /\ Instant(timer[timers[i]].date) <= Instant(timer[timers[j]].date)
                      /\ timers[i] # timers[j]
    BY DEF TimersInOrder
  <2>1. timers[i] \in Block /\ timers[j] \in Block
    BY InvFacts, ElementOfSeq
  <2>2. timer[timers[i]].date \in evtime_t /\ timer[timers[j]].date \in evtime_t
    BY <2>1, InvFacts DEF Struct
  <2>3. /\ evtime_cmp(timer[timers[i]].date, timer[timers[j]].date) <= 0
        /\ timers[i] # timers[j]
    BY DEF TimersInv, Ordered
  <2> QED BY <2>2, <2>3, CmpInstant
<1> QED BY <1>1, TimersInvariant, PTL

\* No armed timer has a dead handler (ti_finalize).
THEOREM HandlersCorrect == Spec => []TimerHandlersAlive
<1>1. TimersInv => TimerHandlersAlive
  BY DEF TimersInv
<1> QED BY <1>1, TimersInvariant, PTL

\* The queue never holds two events of one timer, because event_wait and
\* process_pending_events call timer_fire when the queue is empty and
\* timer_fire moves a periodic timer past the date it read.
THEOREM OneEventCorrect == Spec => []OneEventPerTimer
<1>1. TimersInv => OneEventPerTimer
  BY DEF TimersInv
<1> QED BY <1>1, TimersInvariant, PTL

\* No timer fires before its date, for every second and every clock.
THEOREM NeverEarlyCorrect == Spec => NeverEarly
<1> DEFINE Early(b) ==
      pending' = Append(pending, [to |-> timer[b].handler, carries |-> b])
        => Instant(timer[b].date) <= clock
<1>1. ASSUME TimersInv, Next, NEW b \in Block,
             pending' = Append(pending, [to |-> timer[b].handler, carries |-> b])
      PROVE  Instant(timer[b].date) <= clock
  <2>1. Len(pending') = Len(pending) + 1 /\ Len(pending) \in Nat
    BY <1>1, InvFacts
  <2>2. pending' # pending
    BY <2>1
  <2>3. FirePost
    <3>1. ASSUME NEW h \in Handler, Die(h) PROVE FALSE
      <4> DEFINE J == {i \in DOMAIN pending : pending[i].to # h}
      <4>1. pending' \in Selection(pending, J)
        BY <3>1 DEF Die, Queue!Die, Queue!Selection, Queue!Increasing, Queue!Onto,
                    Selection, Increasing, Onto
      <4>2. J \in SUBSET (DOMAIN pending) /\ pending \in Seq(Queue!Event)
        BY <1>1, InvFacts
      <4> HIDE DEF J
      <4>3. Len(pending') <= Len(pending)
        BY <4>1, <4>2, SelectionProperties
      <4> QED BY <2>1, <4>3
    <3>2. ASSUME NEW h \in Handler, Dispatch(h) PROVE FALSE
      <4>1. PICK i \in DOMAIN pending : pending' = RemoveAt(pending, i)
        BY <3>2 DEF Dispatch, Queue!Take, Queue!RemoveAt, RemoveAt
      <4>2. Len(pending') = Len(pending) - 1
        BY <1>1, <4>1, InvFacts, RemoveAtProperties
      <4> QED BY <2>1, <4>2
    <3> QED BY <1>1, <2>2, <3>1, <3>2
            DEF Next, Lisp, Fire, New, Cancel, Set, CreateAbsolute, Queue!Born,
                FireStart, FireAdvance, FireInsert, FireEnd, Tick
  <2> DEFINE c == Head(timers)
  <2>4. /\ snap # NIL /\ timers # <<>> /\ Due(c, snap)
        /\ pending' = Append(pending, [to |-> timer[c].handler, carries |-> c])
    BY <2>3 DEF FirePost, FirstIsDue, Queue!Post
  <2>5. c \in Block
    BY <1>1, <2>4, InvFacts, EmptySeq, HeadTailProperties
  <2> HIDE DEF c
  <2>6. b = c
    BY <1>1, <2>1, <2>4, InvFacts
  <2>7. timer[b].date \in evtime_t /\ snap \in Proper /\ snap \in evtime_t
    <3>1. timer[b].date \in evtime_t
      BY <1>1, InvFacts DEF Struct
    <3>2. snap \in Proper
      BY <1>1, <2>4 DEF TimersInv, TypeOK
    <3>3. snap \in evtime_t
      BY <3>2, SecondAssumption DEF Proper, evtime_t
    <3> QED BY <3>1, <3>2, <3>3
  <2>8. evtime_cmp(timer[b].date, snap) <= 0
    BY <2>4, <2>6, <2>7, CmpOrder DEF Due
  <2>9. Instant(timer[b].date) <= Instant(snap)
    BY <2>7, <2>8, CmpInstant
  <2>10. Instant(snap) <= clock /\ clock \in Nat
    BY <1>1, <2>4 DEF TimersInv, TypeOK
  <2>11. Instant(timer[b].date) \in Int /\ Instant(snap) \in Int
    BY <2>7, SecondAssumption DEF evtime_t, Instant
  <2> QED BY <2>9, <2>10, <2>11
<1>2. TimersInv /\ [Next]_vars
        => [\A b \in Block : Early(b)]_vars
  BY <1>1
<1> QED BY <1>2, TimersInvariant, PTL DEF Spec, NeverEarly
-----------------------------------------------------------------------------
(* How far a periodic timer is moved on.                                   *)

\* Periods are not negative; the timer that timer_fire moves has a date at most
\* a period after the one timer_fire read.
Periods ==
  /\ \A b \in Block : timer[b].period.sec \in Nat
  /\ ti # NIL => Instant(timer[ti].date) <= Instant(snap) + Instant(timer[ti].period)

\* Dates and periods as numbers.
LEMMA InstantTypes ==
  ASSUME TimersInv, NEW b \in Block
  PROVE  /\ timer[b].date \in evtime_t /\ Instant(timer[b].date) \in Int
         /\ timer[b].period \in Proper /\ Instant(timer[b].period) \in Int
         /\ timer[b].period.sec \in Nat => Instant(timer[b].period) >= 0
         /\ snap # NIL => snap \in Proper /\ snap \in evtime_t /\ Instant(snap) \in Int
<1>1. timer[b].date \in evtime_t /\ timer[b].period \in Proper
  BY InvFacts DEF Struct
<1>2. snap # NIL => snap \in Proper /\ snap \in evtime_t
  BY SecondAssumption DEF TimersInv, TypeOK, Proper, evtime_t
<1>3. \A t \in evtime_t : Instant(t) \in Int
  BY SecondAssumption DEF evtime_t, Instant
<1>4. Proper \subseteq evtime_t
  BY SecondAssumption DEF Proper, evtime_t
<1>5. ASSUME timer[b].period.sec \in Nat PROVE Instant(timer[b].period) >= 0
  <2>1. timer[b].period.msec \in Nat /\ Second \in Nat
    BY <1>1, SecondAssumption DEF Proper
  <2>2. timer[b].period.sec * Second \in Nat
    BY <1>5, <2>1
  <2> QED BY <2>1, <2>2 DEF Instant
<1> QED BY <1>1, <1>2, <1>3, <1>4, <1>5

\* A date that is due is not after the date timer_fire read, and one that is
\* not due is after it.
LEMMA DueInstant ==
  ASSUME TimersInv, NEW b \in Block, snap # NIL
  PROVE  /\ Due(b, snap) => Instant(timer[b].date) <= Instant(snap)
         /\ ~Due(b, snap) => Instant(snap) < Instant(timer[b].date)
<1>1. timer[b].date \in evtime_t /\ snap \in Proper /\ snap \in evtime_t
  BY InstantTypes
<1>2. ASSUME Due(b, snap) PROVE Instant(timer[b].date) <= Instant(snap)
  <2>1. evtime_cmp(timer[b].date, snap) <= 0
    BY <1>1, <1>2, CmpOrder DEF Due
  <2> QED BY <1>1, <2>1, CmpInstant
<1>3. ASSUME ~Due(b, snap) PROVE Instant(snap) < Instant(timer[b].date)
  <2>1. evtime_cmp(snap, timer[b].date) \in {-1, 0, 1}
    BY <1>1, CmpOrder
  <2>2. evtime_cmp(snap, timer[b].date) < 0
    BY <1>3, <2>1 DEF Due
  <2> QED BY <1>1, <2>2, CmpProper
<1> QED BY <1>2, <1>3

\* Freed blocks have no period.
LEMMA WithoutPeriods ==
  ASSUME Periods, NEW S
  PROVE  \A b \in Block : Without(S)[b].period.sec \in Nat
  BY DEF Periods, Without, NoTimer

\* A timer that is armed has a period that is not negative.
LEMMA ArmPeriods ==
  ASSUME Periods, NEW ts, NEW S, NEW b \in Block, NEW h, NEW date, NEW period \in Nat,
         Arm(ts, S, b, h, date, period)
  PROVE  \A c \in Block : timer'[c].period.sec \in Nat
<1> DEFINE new == [date |-> date, handler |-> h,
                   period |-> [sec |-> period \div Second, msec |-> period % Second]]
<1>1. timer' = [Without(S) EXCEPT ![b] = new]
  BY DEF Arm
<1>2. new.period.sec \in Nat
  <2>1. period \div Second \in Nat
    BY SecondAssumption
  <2> QED BY <2>1
<1> HIDE DEF new
<1>3. DOMAIN Without(S) = Block
  BY DEF Without
<1> QED BY <1>1, <1>2, <1>3, WithoutPeriods

LEMMA PeriodsStep ==
  ASSUME TimersInv, Periods, [Next]_vars
  PROVE  Periods'
<1>1. ASSUME \A b \in Block : timer'[b].period.sec \in Nat, ti' = NIL PROVE Periods'
  BY <1>1 DEF Periods
<1>2. LispRuns => ti = NIL
  BY DEF LispRuns, TimersInv
<1>3. ASSUME NEW h \in Handler,
             New(h) \/ Cancel(h) \/ Die(h) \/ Dispatch(h)
      PROVE  Periods'
  <2>1. ti' = NIL
    BY <1>2, <1>3 DEF New, Cancel, Die, Dispatch
  <2>2. timer' = timer \/ \E S : timer' = Without(S)
    BY <1>3 DEF New, Cancel, Die, Dispatch
  <2>3. \A b \in Block : timer'[b].period.sec \in Nat
    BY <2>2, WithoutPeriods DEF Periods
  <2> QED BY <1>1, <2>1, <2>3
<1>4. ASSUME NEW h \in Handler, NEW delay \in Delay, NEW interval \in Interval,
             Set(h, delay, interval)
      PROVE  Periods'
  <2>1. Rounded(interval) \in Nat
    BY ArmTypes DEF TimersInv
  <2>2. ti' = NIL
    BY <1>2, <1>4 DEF Set
  <2>3. PICK b \in Block :
          Arm(timer_del(timers, timerid[h]), {timerid[h]}, b, h, FiringAt(delay),
              Rounded(interval))
    BY <1>4 DEF Set
  <2>4. \A c \in Block : timer'[c].period.sec \in Nat
    BY <2>1, <2>3, ArmPeriods
  <2> QED BY <1>1, <2>2, <2>4
<1>5. ASSUME NEW h \in Handler, NEW date \in Date, CreateAbsolute(h, date)
      PROVE  Periods'
  <2>1. ti' = NIL
    BY <1>2, <1>5 DEF CreateAbsolute
  <2>2. PICK b \in Block : Arm(timers, {}, b, h, date, 0)
    BY <1>5 DEF CreateAbsolute
  <2>3. 0 \in Nat
    OBVIOUS
  <2>4. \A c \in Block : timer'[c].period.sec \in Nat
    BY <2>2, <2>3, ArmPeriods
  <2> QED BY <1>1, <2>1, <2>4
<1>6. CASE FireStart
  BY <1>2, <1>6 DEF FireStart, Periods
<1>7. CASE FirePost
  <2> DEFINE b == Head(timers)
  <2>1. /\ snap # NIL /\ timers # <<>> /\ Due(b, snap)
        /\ ti' \in {b, NIL} /\ timer' = Without({b} \ {ti'}) /\ snap' = snap
    BY <1>7 DEF FirePost, FirstIsDue
  <2>2. b \in Block
    BY <2>1, InvFacts, EmptySeq, HeadTailProperties
  <2> HIDE DEF b
  <2>3. \A c \in Block : timer'[c].period.sec \in Nat
    BY <2>1, WithoutPeriods
  <2>4. CASE ti' = b
    <3>1. timer'[b] = timer[b]
      BY <2>1, <2>2, <2>4 DEF Without
    <3>2. Instant(timer[b].date) <= Instant(snap)
      BY <2>1, <2>2, DueInstant
    <3>3. /\ Instant(timer[b].date) \in Int /\ Instant(snap) \in Int
          /\ Instant(timer[b].period) \in Int /\ Instant(timer[b].period) >= 0
      BY <2>1, <2>2, InstantTypes DEF Periods
    <3>4. Instant(timer[b].date) <= Instant(snap) + Instant(timer[b].period)
      BY <3>2, <3>3
    <3> QED BY <2>1, <2>3, <2>4, <3>1, <3>4 DEF Periods
  <2>5. CASE ti' = NIL
    BY <1>1, <2>3, <2>5
  <2> QED BY <2>1, <2>4, <2>5
<1>8. CASE FireAdvance
  <2>1. /\ snap # NIL /\ ti # NIL /\ Due(ti, snap) /\ snap' = snap /\ ti' = ti
        /\ timer' = [timer EXCEPT ![ti].date = evtime_add(@, timer[ti].period)]
    BY <1>8 DEF FireAdvance
  <2>2. ti \in Block /\ timer \in [Block -> Struct]
    BY <2>1 DEF TimersInv, TypeOK
  <2>3. /\ timer[ti].date \in evtime_t /\ Instant(timer[ti].date) \in Int
        /\ timer[ti].period \in Proper /\ Instant(timer[ti].period) \in Int
        /\ Instant(snap) \in Int
    BY <2>1, <2>2, InstantTypes
  <2>4. Instant(timer[ti].date) <= Instant(snap)
    BY <2>1, <2>2, DueInstant
  <2>5. Instant(evtime_add(timer[ti].date, timer[ti].period))
          = Instant(timer[ti].date) + Instant(timer[ti].period)
    BY <2>3, AddProperties
  <2> DEFINE new == [timer[ti] EXCEPT !.date = evtime_add(@, timer[ti].period)]
  <2>6. /\ new.date = evtime_add(timer[ti].date, timer[ti].period)
        /\ new.period = timer[ti].period
    BY <2>2 DEF Struct
  <2>7. timer' = [timer EXCEPT ![ti] = new]
    BY <2>1
  <2> HIDE DEF new
  <2>8. timer'[ti] = new /\ \A c \in Block : timer'[c].period = timer[c].period
    BY <2>2, <2>6, <2>7
  <2>9. Instant(timer'[ti].date) <= Instant(snap) + Instant(timer'[ti].period)
    BY <2>3, <2>4, <2>5, <2>6, <2>8
  <2> QED BY <2>1, <2>8, <2>9 DEF Periods
<1>9. CASE FireInsert
  BY <1>1, <1>9 DEF FireInsert, Periods
<1>10. CASE FireEnd
  BY <1>1, <1>10 DEF FireEnd, Periods
<1>11. CASE Tick \/ UNCHANGED vars
  BY <1>11 DEF Tick, vars, Periods
<1> QED BY <1>3, <1>4, <1>5, <1>6, <1>7, <1>8, <1>9, <1>10, <1>11 DEF Next, Lisp, Fire

LEMMA PeriodsInvariant == Spec => [](TimersInv /\ Periods)
<1>1. Init => Periods
  BY DEF Init, NoTimer, Periods
<1>2. TimersInv /\ Periods /\ [Next]_vars => Periods'
  BY PeriodsStep
<1> QED BY <1>1, <1>2, TimersInvariant, PTL DEF Spec

\* A periodic timer goes back into the list with a date after the one timer_fire
\* read and within a period of it, however many periods were missed.
THEOREM SkipsCorrect == Spec => SkipsMissedPeriods
<1> DEFINE Moved(b) ==
      ti = b /\ ti' = NIL =>
        LET next == Instant(timer'[b].date) - Instant(snap)
        IN  0 < next /\ next <= Instant(timer[b].period)
<1>1. ASSUME TimersInv, Periods, Next, NEW b \in Block, ti = b, ti' = NIL
      PROVE  LET next == Instant(timer'[b].date) - Instant(snap)
             IN  0 < next /\ next <= Instant(timer[b].period)
  <2>1. ti # NIL /\ ti # ti' /\ snap # NIL
    BY <1>1, TimersAssumption DEF TimersInv
  <2>2. FireInsert
    BY <1>1, <2>1 DEF Next, Lisp, Fire, New, Cancel, Die, Dispatch, Set, CreateAbsolute,
                      FireStart, FirePost, FireAdvance, FireEnd, Tick
  <2>3. ~Due(b, snap) /\ timer' = timer
    BY <1>1, <2>2 DEF FireInsert
  <2>4. Instant(snap) < Instant(timer[b].date)
    BY <1>1, <2>1, <2>3, DueInstant
  <2>5. Instant(timer[b].date) <= Instant(snap) + Instant(timer[b].period)
    BY <1>1, <2>1 DEF Periods
  <2>6. /\ Instant(timer[b].date) \in Int /\ Instant(snap) \in Int
        /\ Instant(timer[b].period) \in Int
    BY <1>1, <2>1, InstantTypes
  <2>7. Instant(timer'[b].date) = Instant(timer[b].date)
    BY <2>3
  <2> QED BY <2>4, <2>5, <2>6, <2>7
<1>2. TimersInv /\ Periods /\ [Next]_vars => [\A b \in Block : Moved(b)]_vars
  BY <1>1
<1> QED BY <1>2, PeriodsInvariant, PTL DEF Spec, SkipsMissedPeriods

-----------------------------------------------------------------------------
(* What timer_fire returns.                                                *)

\* The time left is positive, at most a day, no more than the time to any timer
\* and, unless it is a day, the time to one of them.
LEMMA TimeLeftProperties ==
  ASSUME TimersInv, snap # NIL, ~FirstIsDue
  PROVE  /\ 0 < TimeLeft /\ TimeLeft <= Day * Second
         /\ \A b \in Armed : TimeLeft <= Instant(timer[b].date) - Instant(snap)
         /\ TimeLeft < Day * Second =>
              \E b \in Armed : TimeLeft = Instant(timer[b].date) - Instant(snap)
<1>1. Day * Second \in Nat /\ 0 < Day * Second /\ Day \in Nat /\ Second \in Nat \ {0}
  BY TimersAssumption, SecondAssumption
<1>2. CASE timers = <<>>
  <2>1. TimeLeft = Day * Second
    BY <1>2 DEF TimeLeft
  <2>2. Armed = {}
    BY <1>2 DEF Armed
  <2> QED BY <1>1, <2>1, <2>2
<1>3. CASE timers # <<>>
  <2> DEFINE b == Head(timers)
             diff == evtime_sub(timer[b].date, snap)
  <2>1. b = timers[1] /\ 1 \in DOMAIN timers /\ b \in Block /\ b \in Armed
    BY <1>3, InvFacts, EmptySeq, HeadTailProperties DEF Armed
  <2>2. ~Due(b, snap)
    BY <1>3 DEF FirstIsDue
  <2> HIDE DEF b
  <2>3. /\ timer[b].date \in evtime_t /\ Instant(timer[b].date) \in Int
        /\ snap \in Proper /\ Instant(snap) \in Int
    BY <2>1, InstantTypes
  <2>4. Instant(snap) < Instant(timer[b].date)
    BY <2>1, <2>2, DueInstant
  <2>5. diff \in evtime_t /\ Instant(diff) = Instant(timer[b].date) - Instant(snap)
    BY <2>3, SubProperties
  <2>6. TimeLeft = IF diff.sec < Day THEN Instant(diff) ELSE Day * Second
    BY <1>3 DEF TimeLeft, b
  <2> HIDE DEF diff
  <2>7. ASSUME NEW c \in Armed
        PROVE  /\ Instant(timer[c].date) \in Int
               /\ Instant(timer[b].date) <= Instant(timer[c].date)
    <3>1. c \in Block /\ timer[c].date \in evtime_t /\ Instant(timer[c].date) \in Int
      BY <2>7, InvFacts, InstantTypes
    <3>2. PICK i \in DOMAIN timers : c = timers[i]
      BY DEF Armed
    <3>3. CASE i = 1
      BY <2>1, <2>3, <3>2, <3>3
    <3>4. CASE i # 1
      <4>1. 1 < i
        BY <3>2, <3>4, InvFacts
      <4>2. evtime_cmp(timer[b].date, timer[c].date) <= 0
        BY <2>1, <3>2, <4>1 DEF TimersInv, Ordered
      <4> QED BY <2>3, <3>1, <4>2, CmpInstant
    <3> QED BY <3>3, <3>4
  <2>8. CASE diff.sec < Day
    <3>1. diff.sec \in Int /\ diff.msec \in 0..Second
      BY <2>5 DEF evtime_t
    <3>2. diff.sec <= Day - 1
      BY <1>1, <2>8, <3>1
    <3>3. diff.sec * Second <= (Day - 1) * Second
      BY <1>1, <3>1, <3>2, Z3
    <3>4. (Day - 1) * Second + Second = Day * Second
      BY <1>1, Z3
    <3> DEFINE x == diff.sec * Second
               y == (Day - 1) * Second
               z == Day * Second
    <3>5. x \in Int /\ y \in Int /\ z \in Int /\ Instant(diff) = x + diff.msec
      BY <1>1, <3>1 DEF Instant
    <3>6. x <= y /\ y + Second = z
      BY <3>3, <3>4
    <3> HIDE DEF x, y, z
    <3>7. Instant(diff) <= z
      BY <1>1, <3>1, <3>5, <3>6
    <3>8. TimeLeft = Instant(diff) /\ Instant(diff) \in Int
      BY <2>3, <2>5, <2>6, <2>8
    <3>9. 0 < TimeLeft /\ TimeLeft <= Day * Second
      BY <2>3, <2>4, <2>5, <3>7, <3>8 DEF z
    <3>10. \A c \in Armed : TimeLeft <= Instant(timer[c].date) - Instant(snap)
      BY <2>3, <2>5, <2>7, <3>8
    <3> QED BY <2>1, <2>5, <3>8, <3>9, <3>10
  <2>9. CASE ~(diff.sec < Day)
    <3>1. diff.sec \in Int /\ diff.msec \in 0..Second
      BY <2>5 DEF evtime_t
    <3>2. Day * Second <= diff.sec * Second
      BY <1>1, <2>9, <3>1, Z3
    <3> DEFINE x == diff.sec * Second
    <3>3. x \in Int /\ Instant(diff) = x + diff.msec /\ Day * Second <= x
      BY <1>1, <3>1, <3>2 DEF Instant
    <3> HIDE DEF x
    <3>4. Day * Second <= Instant(diff)
      BY <1>1, <3>1, <3>3
    <3>5. TimeLeft = Day * Second
      BY <2>6, <2>9
    <3>6. \A c \in Armed : TimeLeft <= Instant(timer[c].date) - Instant(snap)
      BY <1>1, <2>3, <2>5, <2>7, <3>4, <3>5
    <3> QED BY <1>1, <3>5, <3>6
  <2> QED BY <2>8, <2>9
<1> QED BY <1>2, <1>3

\* event_wait sleeps at most to the first date, and not at all only when a timer
\* is due, which timer_fire has seen to (evtime_sub, timer_fire).
THEOREM SleepCorrect == Spec => SleepsToNextTimer
<1> DEFINE Left ==
      snap # NIL /\ snap' = NIL =>
        /\ 0 < TimeLeft /\ TimeLeft <= Day * Second
        /\ \A b \in Armed : TimeLeft <= Instant(timer[b].date) - Instant(snap)
        /\ TimeLeft < Day * Second =>
             \E b \in Armed : TimeLeft = Instant(timer[b].date) - Instant(snap)
<1>1. ASSUME TimersInv, Next, snap # NIL, snap' = NIL PROVE Left
  <2>1. ~LispRuns
    BY <1>1 DEF LispRuns
  <2>2. ~Lisp
    BY <2>1 DEF Lisp, New, Cancel, Die, Dispatch, Set, CreateAbsolute
  <2>3. snap' # snap
    BY <1>1
  <2>4. FireEnd
    BY <1>1, <2>1, <2>2, <2>3 DEF Next, Fire, FireStart, FirePost, FireAdvance, FireInsert, Tick
  <2>5. ~FirstIsDue
    BY <2>4 DEF FireEnd
  <2> QED BY <1>1, <2>5, TimeLeftProperties
<1>2. TimersInv /\ [Next]_vars => [Left]_vars
  BY <1>1
<1> QED BY <1>2, TimersInvariant, PTL DEF Spec, SleepsToNextTimer
-----------------------------------------------------------------------------
(* Timer objects that set periodic timers only.                            *)

\* The slot of a live Timer object names its own timer, which is periodic.
OwnTimers ==
  \A h \in alive :
    LET b == timerid[h]
    IN  b # NIL => /\ b \in Armed \cup {ti}
                   /\ timer[b].handler = h
                   /\ Periodic(b)

\* timer_del takes no other timer from the list.
LEMMA DelKeeps ==
  ASSUME TimersInv, NEW handle
  PROVE  Armed \ {handle} \subseteq Elements(timer_del(timers, handle))
<1>1. /\ timers \in Seq(Block) /\ Len(timers) \in Nat /\ DOMAIN timers = 1..Len(timers)
      /\ Armed = Elements(timers)
  BY InvFacts
<1>2. CASE ~\E i \in DOMAIN timers : timers[i] = handle
  <2>1. timer_del(timers, handle) = timers
    BY <1>1, <1>2 DEF timer_del, RemoveFirst
  <2> QED BY <1>1, <2>1
<1>3. CASE \E i \in DOMAIN timers : timers[i] = handle
  <2>1. PICK n \in DOMAIN timers : timers[n] = handle
    BY <1>3
  <2>2. \A k \in DOMAIN timers : timers[k] = handle => k = n
    <3> SUFFICES ASSUME NEW k \in DOMAIN timers, timers[k] = handle, k # n PROVE FALSE
      OBVIOUS
    <3>1. k < n \/ n < k
      BY <1>1
    <3> QED BY <2>1, <3>1 DEF TimersInv, Ordered
  <2>3. SelectInSeq(timers, LAMBDA v : v = handle) = n
    <3> DEFINE I == {i \in 1..Len(timers) : timers[i] = handle}
    <3>1. I = {n} /\ n \in Nat
      BY <1>1, <2>1, <2>2
    <3>2. SelectInSeq(timers, LAMBDA v : v = handle) = Min(I)
      BY <3>1 DEF SelectInSeq
    <3> HIDE DEF I
    <3>3. Min(I) = n
      BY <3>1 DEF Min
    <3> QED BY <3>2, <3>3
  <2>4. timer_del(timers, handle) = RemoveAt(timers, n)
    BY <1>1, <2>1, <2>3 DEF timer_del, RemoveFirst
  <2> DEFINE r == RemoveAt(timers, n)
  <2>5. /\ r \in Seq(Block) /\ Len(r) = Len(timers) - 1
        /\ \A j \in 1..(Len(timers) - 1) : r[j] = IF j < n THEN timers[j] ELSE timers[j + 1]
    BY <1>1, <2>1, RemoveAtProperties
  <2> HIDE DEF r
  <2>6. DOMAIN r = 1..(Len(timers) - 1)
    BY <2>5, LenProperties
  <2>7. ASSUME NEW i \in DOMAIN timers, timers[i] # handle PROVE timers[i] \in Elements(r)
    <3>1. i # n
      BY <2>1, <2>7
    <3>2. CASE i < n
      <4>1. i \in 1..(Len(timers) - 1) /\ r[i] = timers[i]
        BY <1>1, <2>1, <2>5, <3>2
      <4> QED BY <2>6, <4>1 DEF Elements
    <3>3. CASE n < i
      <4>1. i - 1 \in 1..(Len(timers) - 1) /\ ~(i - 1 < n) /\ (i - 1) + 1 = i
        BY <1>1, <2>1, <3>3
      <4>2. r[i - 1] = timers[i]
        BY <2>5, <4>1
      <4> QED BY <2>6, <4>1, <4>2 DEF Elements
    <3> QED BY <1>1, <2>1, <3>1, <3>2, <3>3
  <2> QED BY <1>1, <2>4, <2>7 DEF Elements, r
<1> QED BY <1>2, <1>3

\* ti_finalize takes the timers of one handler only.
LEMMA FinalizeKeeps ==
  ASSUME TimersInv, NEW h, NEW ts \in ti_finalize(timers, h)
  PROVE  {b \in Armed : timer[b].handler # h} \subseteq Elements(ts)
<1> DEFINE I == {i \in DOMAIN timers : timer[timers[i]].handler # h}
<1>1. ts \in Selection(timers, I)
  BY DEF ti_finalize
<1>2. ASSUME NEW i \in I PROVE timers[i] \in Elements(ts)
  <2>1. PICK n \in 0..Len(timers) :
          \E f \in [1..n -> I] : Onto(f, I) /\ ts = [j \in DOMAIN f |-> timers[f[j]]]
    BY <1>1 DEF Selection
  <2>2. PICK f \in [1..n -> I] : Onto(f, I) /\ ts = [j \in DOMAIN f |-> timers[f[j]]]
    BY <2>1
  <2>3. PICK j \in DOMAIN f : f[j] = i
    BY <2>2 DEF Onto
  <2>4. j \in DOMAIN ts /\ ts[j] = timers[i]
    BY <2>2, <2>3
  <2> QED BY <2>4 DEF Elements
<1> QED BY <1>2 DEF Armed

\* Setting a timer: what becomes of the others.
LEMMA SetProperties ==
  ASSUME TimersInv, OwnTimers, 0 \notin Interval,
         NEW h \in Handler, NEW delay \in Delay, NEW interval \in Interval,
         Set(h, delay, interval)
  PROVE  /\ \A c \in Armed \ {timerid[h]} : c \in Armed' /\ timer'[c] = timer[c]
         /\ timerid'[h] \in Armed' /\ timer'[timerid'[h]].handler = h
         /\ Periodic(timerid[h])'
         /\ \A g \in Handler \ {h} : timerid'[g] = timerid[g]
<1> DEFINE ts == timer_del(timers, timerid[h])
<1>1. /\ ts \in Seq(Block) /\ Sub(ts, timers) /\ Elements(ts) \cap {timerid[h]} = {}
      /\ Armed \ {timerid[h]} \subseteq Elements(ts)
  BY InvFacts, DelProperties, DelKeeps DEF TimersInv
<1>2. PICK b \in Block :
        /\ Arm(ts, {timerid[h]}, b, h, FiringAt(delay), Rounded(interval))
        /\ timerid' = [timerid EXCEPT ![h] = b]
  BY DEF Set
<1>3. timerid \in [Handler -> Block \cup {NIL}] /\ TypeOK
  BY DEF TimersInv, TypeOK
<1>4. /\ FiringAt(delay) \in evtime_t /\ Rounded(interval) \in Nat
      /\ [sec |-> Rounded(interval) \div Second,
          msec |-> Rounded(interval) % Second] \in Proper
  BY <1>3, ArmTypes
<1>5. Ordered(ts, timer)
  BY <1>1, InvFacts, SubOrdered DEF TimersInv
<1> HIDE DEF ts
<1>6. /\ timers' \in Seq(Block)
      /\ Elements(timers') = Elements(ts) \cup {b}
      /\ timer'[b].handler = h
      /\ \A c \in Elements(ts) : timer'[c] = timer[c]
  <2>1. PICK S, date, period :
          S = {timerid[h]} /\ date = FiringAt(delay) /\ period = Rounded(interval)
    OBVIOUS
  <2>2. /\ TypeOK /\ ts \in Seq(Block) /\ date \in evtime_t /\ period \in Nat
        /\ [sec |-> period \div Second, msec |-> period % Second] \in Proper
        /\ Ordered(ts, timer) /\ Elements(ts) \cap S = {}
        /\ Arm(ts, S, b, h, date, period)
    BY <1>1, <1>2, <1>3, <1>4, <1>5, <2>1, Zenon
  <2>3. /\ timer' \in [Block -> Struct]
        /\ timers' \in Seq(Block) /\ Ordered(timers', timer')
        /\ Elements(timers') = Elements(ts) \cup {b}
        /\ timer'[b].handler = h
        /\ \A c \in Elements(ts) : timer'[c] = timer[c]
    BY <2>2, ArmProperties, Zenon
  <2> QED BY <2>3
<1>7. Armed' = Elements(ts) \cup {b}
  BY <1>6 DEF Armed, Elements
<1>8. Rounded(interval) > 0
  <2>1. interval \in Nat /\ interval # 0 /\ Shortest \in Nat \ {0}
    BY TimersAssumption
  <2> QED BY <2>1 DEF Rounded
<1>9. timer'[b].period = [sec |-> Rounded(interval) \div Second,
                          msec |-> Rounded(interval) % Second]
  <2> DEFINE new == [date |-> FiringAt(delay), handler |-> h,
                     period |-> [sec |-> Rounded(interval) \div Second,
                                 msec |-> Rounded(interval) % Second]]
  <2>1. timer' = [Without({timerid[h]}) EXCEPT ![b] = new]
    BY <1>2 DEF Arm
  <2>2. new.period = [sec |-> Rounded(interval) \div Second,
                      msec |-> Rounded(interval) % Second]
    OBVIOUS
  <2> HIDE DEF new
  <2>3. DOMAIN Without({timerid[h]}) = Block
    BY DEF Without
  <2> QED BY <2>1, <2>2, <2>3
<1>10. timer'[b].period.sec > 0 \/ timer'[b].period.msec > 0
  <2> DEFINE n == Rounded(interval)
             s == n \div Second
             u == n % Second
  <2>5. n \in Nat /\ n > 0
    BY <1>4, <1>8
  <2>6. s * Second + u = n /\ s \in Int /\ u \in 0..(Second - 1)
    <3> HIDE DEF n
    <3> QED BY <2>5, SplitProperties
  <2>1. s * Second + u = n /\ s \in Int /\ u \in Nat /\ n \in Nat /\ n > 0
    <3> HIDE DEF n, s, u
    <3> QED BY <2>5, <2>6, SecondAssumption
  <2>2. s \in Nat
    BY <1>4, SecondAssumption
  <2>3. timer'[b].period.sec = s /\ timer'[b].period.msec = u
    BY <1>9
  <2> HIDE DEF n, s, u
  <2>4. s = 0 => u = n
    BY <2>1, SecondAssumption
  <2> QED BY <2>1, <2>2, <2>3, <2>4
<1>11. Periodic(timerid[h])'
  <2>1. timerid'[h] = b
    BY <1>2, <1>3
  <2> QED BY <1>10, <2>1 DEF Periodic
<1>12. timerid'[h] = b /\ \A g \in Handler \ {h} : timerid'[g] = timerid[g]
  BY <1>2, <1>3
<1> QED BY <1>1, <1>6, <1>7, <1>11, <1>12

\* A timer that is armed for h, whoever asks: the others stay.
LEMMA CreateProperties ==
  ASSUME TimersInv, NEW h \in Handler, NEW date \in Date, CreateAbsolute(h, date)
  PROVE  \A c \in Armed : c \in Armed' /\ timer'[c] = timer[c]
<1>1. PICK b \in Block : Arm(timers, {}, b, h, date, 0)
  BY DEF CreateAbsolute
<1>2. /\ timers \in Seq(Block) /\ Ordered(timers, timer) /\ TypeOK /\ 0 \in Nat
      /\ Elements(timers) \cap {} = {} /\ Armed = Elements(timers)
  BY InvFacts DEF TimersInv
<1>3. date \in evtime_t
  BY TimersAssumption, SecondAssumption DEF Proper, evtime_t
<1>4. [sec |-> 0 \div Second, msec |-> 0 % Second] \in Proper
  BY SplitProperties DEF Proper
<1>5. /\ Elements(timers') = Elements(timers) \cup {b}
      /\ \A c \in Elements(timers) : timer'[c] = timer[c]
  BY <1>1, <1>2, <1>3, <1>4, ArmProperties
<1>6. Armed' = Elements(timers')
  BY DEF Armed, Elements
<1> QED BY <1>2, <1>5, <1>6

\* Each step of lisp code keeps the timers of every handler but one, which dies
\* or sets its own.
LEMMA LispKeeps ==
  ASSUME TimersInv, OwnTimers, 0 \notin Interval, [Next]_vars, LispRuns, NEW b \in Armed
  PROVE  \/ b \in Armed' /\ timer'[b] = timer[b]
         \/ timer[b].handler \notin alive'
         \/ timerid[timer[b].handler] = b /\ timerid'[timer[b].handler] # b
         \/ b \in Armed' /\ timer'[b].handler = timer[b].handler
<1>1. /\ b \in Block /\ timer[b].handler \in alive /\ alive \subseteq Handler
      /\ timerid \in [Handler -> Block \cup {NIL}] /\ NIL \notin Block /\ ti = NIL
  BY InvFacts, TimersAssumption DEF TimersInv, TypeOK, TimerHandlersAlive, LispRuns
<1>2. ASSUME NEW h \in Handler, Cancel(h)
      PROVE  \/ b \in Armed' /\ timer'[b] = timer[b]
             \/ timerid[timer[b].handler] = b /\ timerid'[timer[b].handler] # b
  <2>1. /\ timers' = timer_del(timers, timerid[h]) /\ timer' = Without({timerid[h]})
        /\ timerid' = [timerid EXCEPT ![h] = NIL] /\ h \in alive /\ timerid[h] # NIL
    BY <1>2 DEF Cancel
  <2>2. CASE b = timerid[h]
    <3>1. timer[b].handler = h
      BY <1>1, <2>1, <2>2 DEF OwnTimers
    <3> QED BY <1>1, <2>1, <2>2, <3>1
  <2>3. CASE b # timerid[h]
    <3>1. b \in Elements(timers') /\ timer'[b] = timer[b]
      BY <1>1, <2>1, <2>3, DelKeeps, WithoutTypes DEF TimersInv
    <3> QED BY <3>1 DEF Armed, Elements
  <2> QED BY <2>2, <2>3
<1>3. ASSUME NEW h \in Handler, Die(h)
      PROVE  \/ b \in Armed' /\ timer'[b] = timer[b]
             \/ timer[b].handler \notin alive'
  <2>1. /\ timers' \in ti_finalize(timers, h) /\ alive' = alive \ {h}
        /\ timer' = Without({c \in Armed : timer[c].handler = h})
    BY <1>3 DEF Die, Queue!Die
  <2>2. CASE timer[b].handler # h
    <3>1. b \in Elements(timers')
      BY <2>1, <2>2, FinalizeKeeps
    <3>2. timer'[b] = timer[b]
      BY <1>1, <2>1, <2>2, WithoutTypes DEF TimersInv
    <3> QED BY <3>1, <3>2 DEF Armed, Elements
  <2> QED BY <2>1, <2>2
<1>4. ASSUME NEW h \in Handler, NEW delay \in Delay, NEW interval \in Interval,
             Set(h, delay, interval)
      PROVE  \/ b \in Armed' /\ timer'[b].handler = timer[b].handler
             \/ timerid[timer[b].handler] = b /\ timerid'[timer[b].handler] # b
  <2>1. h \in alive
    BY <1>4 DEF Set
  <2>2. CASE b = timerid[h]
    <3>1. timer[b].handler = h
      BY <1>1, <2>1, <2>2 DEF OwnTimers
    <3>2. timerid'[h] = b => b \in Armed' /\ timer'[b].handler = h
      BY <1>4, SetProperties
    <3> QED BY <2>2, <3>1, <3>2
  <2>3. CASE b # timerid[h]
    BY <1>4, <2>3, SetProperties
  <2> QED BY <2>2, <2>3
<1>5. ASSUME NEW h \in Handler, NEW date \in Date, CreateAbsolute(h, date)
      PROVE  b \in Armed' /\ timer'[b] = timer[b]
  BY <1>5, CreateProperties
<1>6. ASSUME timers' = timers, timer' = timer PROVE b \in Armed' /\ timer'[b] = timer[b]
  BY <1>6 DEF Armed
<1>7. ASSUME NEW h \in Handler, New(h) \/ Dispatch(h) PROVE timers' = timers /\ timer' = timer
  BY <1>7 DEF New, Dispatch
<1>8. FireStart \/ Tick \/ UNCHANGED vars => timers' = timers /\ timer' = timer
  BY DEF FireStart, Tick, vars
<1>9. ~Fire
  BY DEF LispRuns, Fire, FirePost, FireAdvance, FireInsert, FireEnd
<1> QED BY <1>2, <1>3, <1>4, <1>5, <1>6, <1>7, <1>8, <1>9 DEF Next, Lisp

LEMMA OwnStep ==
  ASSUME TimersInv, OwnTimers, 0 \notin Interval, [Next]_vars
  PROVE  OwnTimers'
<1>1. /\ alive \subseteq Handler /\ Armed \subseteq Block
      /\ timerid \in [Handler -> Block \cup {NIL}] /\ NIL \notin Block
      /\ timer \in [Block -> Struct] /\ (LispRuns => ti = NIL)
  BY InvFacts, TimersAssumption DEF TimersInv, TypeOK, LispRuns
<1>2. ASSUME NEW h \in alive, timerid[h] # NIL
      PROVE  /\ timerid[h] \in Block /\ timerid[h] \in Armed \cup {ti}
             /\ timer[timerid[h]].handler = h /\ Periodic(timerid[h])
             /\ LispRuns => timerid[h] \in Armed
  <2>1. /\ timerid[h] \in Armed \cup {ti} /\ timer[timerid[h]].handler = h
        /\ Periodic(timerid[h])
    BY <1>2 DEF OwnTimers
  <2>2. timerid[h] \in Block
    BY <1>1, <1>2
  <2>3. LispRuns => timerid[h] \in Armed
    BY <1>1, <1>2, <2>1
  <2> QED BY <2>1, <2>2, <2>3
\* It is enough that those that had an own timer, and still live, keep it.
<1>3. ASSUME NEW g \in alive', g \in alive, timerid'[g] = timerid[g],
             timerid[g] # NIL => /\ timerid[g] \in Armed' \cup {ti'}
                                 /\ timer'[timerid[g]].handler = g
                                 /\ timer'[timerid[g]].period = timer[timerid[g]].period
      PROVE  timerid'[g] # NIL => /\ timerid'[g] \in Armed' \cup {ti'}
                                  /\ timer'[timerid'[g]].handler = g
                                  /\ Periodic(timerid[g])'
  BY <1>2, <1>3 DEF Periodic
<1>4. ASSUME \A g \in alive' :
               timerid'[g] # NIL => /\ timerid'[g] \in Armed' \cup {ti'}
                                    /\ timer'[timerid'[g]].handler = g
                                    /\ Periodic(timerid[g])'
      PROVE  OwnTimers'
  BY <1>4 DEF OwnTimers
<1>5. ASSUME NEW h \in Handler, New(h) PROVE OwnTimers'
  <2>1. /\ alive' = alive \cup {h} /\ timerid' = [timerid EXCEPT ![h] = NIL]
        /\ UNCHANGED <<timers, timer, ti>>
    BY <1>5 DEF New, Queue!Born
  <2>2. Armed' = Armed
    BY <2>1 DEF Armed
  <2> QED BY <1>1, <2>1, <2>2 DEF OwnTimers, Periodic
<1>6. ASSUME NEW h \in Handler, Cancel(h) PROVE OwnTimers'
  <2>1. /\ LispRuns /\ timerid' = [timerid EXCEPT ![h] = NIL] /\ alive' = alive
        /\ timers' = timer_del(timers, timerid[h]) /\ timer' = Without({timerid[h]})
        /\ h \in alive /\ timerid[h] # NIL
    BY <1>6 DEF Cancel
  <2>2. ASSUME NEW g \in alive', timerid'[g] # NIL
        PROVE  /\ g \in alive /\ timerid'[g] = timerid[g] /\ timerid[g] \in Armed'
               /\ timer'[timerid[g]] = timer[timerid[g]]
    <3>1. g # h /\ g \in alive /\ timerid'[g] = timerid[g] /\ timerid[g] # NIL
      BY <1>1, <2>1, <2>2
    <3>2. timerid[g] # timerid[h]
      BY <1>2, <2>1, <3>1
    <3>3. timerid[g] \in Armed /\ timerid[g] \in Block
      BY <1>2, <2>1, <3>1
    <3>4. timerid[g] \in Elements(timers')
      BY <2>1, <3>2, <3>3, DelKeeps
    <3>5. timer'[timerid[g]] = timer[timerid[g]]
      BY <2>1, <3>2, <3>3, WithoutTypes DEF TimersInv
    <3> QED BY <3>1, <3>4, <3>5 DEF Armed, Elements
  <2>3. ASSUME NEW g \in alive', timerid'[g] # NIL
        PROVE  /\ timerid'[g] \in Armed' \cup {ti'}
               /\ timer'[timerid'[g]].handler = g
               /\ Periodic(timerid[g])'
    BY <1>2, <2>2, <2>3 DEF Periodic
  <2> QED BY <1>4, <2>3
<1>7. ASSUME NEW h \in Handler, Die(h) PROVE OwnTimers'
  <2>1. /\ LispRuns /\ timerid' = timerid /\ alive' = alive \ {h}
        /\ timers' \in ti_finalize(timers, h)
        /\ timer' = Without({c \in Armed : timer[c].handler = h})
    BY <1>7 DEF Die, Queue!Die
  <2>2. ASSUME NEW g \in alive', timerid'[g] # NIL
        PROVE  /\ g \in alive /\ timerid'[g] = timerid[g] /\ timerid[g] \in Armed'
               /\ timer'[timerid[g]] = timer[timerid[g]]
    <3>1. g # h /\ g \in alive /\ timerid'[g] = timerid[g] /\ timerid[g] # NIL
      BY <2>1, <2>2
    <3>2. timerid[g] \in Armed /\ timerid[g] \in Block /\ timer[timerid[g]].handler # h
      BY <1>2, <2>1, <3>1
    <3>3. timerid[g] \in Elements(timers')
      BY <2>1, <3>2, FinalizeKeeps
    <3>4. timer'[timerid[g]] = timer[timerid[g]]
      BY <2>1, <3>2, WithoutTypes DEF TimersInv
    <3> QED BY <3>1, <3>3, <3>4 DEF Armed, Elements
  <2>3. ASSUME NEW g \in alive', timerid'[g] # NIL
        PROVE  /\ timerid'[g] \in Armed' \cup {ti'}
               /\ timer'[timerid'[g]].handler = g
               /\ Periodic(timerid[g])'
    BY <1>2, <2>2, <2>3 DEF Periodic
  <2> QED BY <1>4, <2>3
<1>8. ASSUME NEW h \in Handler, NEW delay \in Delay, NEW interval \in Interval,
             Set(h, delay, interval)
      PROVE  OwnTimers'
  <2>1. LispRuns /\ alive' = alive /\ h \in alive
    BY <1>8 DEF Set
  <2>2. /\ \A c \in Armed \ {timerid[h]} : c \in Armed' /\ timer'[c] = timer[c]
        /\ timerid'[h] \in Armed' /\ timer'[timerid'[h]].handler = h
        /\ Periodic(timerid[h])'
        /\ \A g \in Handler \ {h} : timerid'[g] = timerid[g]
    BY <1>8, SetProperties
  <2>3. ASSUME NEW g \in alive', timerid'[g] # NIL
        PROVE  /\ timerid'[g] \in Armed' \cup {ti'}
               /\ timer'[timerid'[g]].handler = g
               /\ Periodic(timerid[g])'
    <3>1. CASE g = h
      BY <2>2, <3>1
    <3>2. CASE g # h
      <4>1. g \in alive /\ timerid'[g] = timerid[g] /\ timerid[g] # NIL
        BY <1>1, <2>1, <2>2, <2>3, <3>2
      <4>2. timerid[g] # timerid[h]
        BY <1>2, <2>1, <3>2, <4>1
      <4>3. timerid[g] \in Armed
        BY <1>2, <2>1, <4>1
      <4>4. timerid[g] \in Armed' /\ timer'[timerid[g]] = timer[timerid[g]]
        BY <2>2, <4>2, <4>3
      <4>5. timer[timerid[g]].handler = g /\ Periodic(timerid[g])
        BY <1>2, <4>1
      <4> QED BY <4>1, <4>4, <4>5 DEF Periodic
    <3> QED BY <3>1, <3>2
  <2> QED BY <1>4, <2>3
<1>9. ASSUME NEW h \in Handler, NEW date \in Date, CreateAbsolute(h, date)
      PROVE  OwnTimers'
  <2>1. LispRuns /\ alive' = alive /\ timerid' = timerid
    BY <1>9 DEF CreateAbsolute
  <2>2. ASSUME NEW g \in alive', timerid'[g] # NIL
        PROVE  /\ timerid'[g] \in Armed' \cup {ti'}
               /\ timer'[timerid'[g]].handler = g
               /\ Periodic(timerid[g])'
    <3>1. timerid[g] \in Armed /\ timer[timerid[g]].handler = g /\ Periodic(timerid[g])
      BY <1>2, <2>1, <2>2
    <3>2. timerid[g] \in Armed' /\ timer'[timerid[g]] = timer[timerid[g]]
      BY <1>9, <3>1, CreateProperties
    <3> QED BY <2>1, <3>1, <3>2 DEF Periodic
  <2> QED BY <1>4, <2>2
<1>10. ASSUME UNCHANGED <<timers, timer, alive, timerid, ti>> PROVE OwnTimers'
  BY <1>10 DEF OwnTimers, Armed, Periodic
<1>11. ASSUME NEW h \in Handler, Dispatch(h) PROVE OwnTimers'
  BY <1>10, <1>11 DEF Dispatch, Queue!Take
<1>12. CASE FireStart \/ FireEnd \/ Tick \/ UNCHANGED vars
  BY <1>10, <1>12 DEF FireStart, FireEnd, Tick, vars
<1>13. CASE FirePost
  <2> DEFINE b == Head(timers)
  <2>1. /\ snap # NIL /\ ti = NIL /\ timers # <<>>
        /\ ti' = IF Periodic(b) THEN b ELSE NIL
        /\ timers' = Tail(timers) /\ timer' = Without({b} \ {ti'})
        /\ alive' = alive /\ timerid' = timerid
    BY <1>13 DEF FirePost, FirstIsDue, Queue!Post
  <2>2. b = timers[1] /\ b \in Block
    BY <2>1, InvFacts, EmptySeq, HeadTailProperties
  <2>3. /\ Len(timers') = Len(timers) - 1
        /\ \A i \in 1..Len(timers') : timers'[i] = timers[i + 1]
        /\ timers' \in Seq(Block)
    BY <2>1, InvFacts, HeadTailProperties
  <2>4. DOMAIN timers' = 1..(Len(timers) - 1)
    BY <2>3, LenProperties
  <2> HIDE DEF b
  <2>5. ASSUME NEW c \in Armed, c # b PROVE c \in Armed'
    <3>1. PICK i \in DOMAIN timers : timers[i] = c
      BY DEF Armed
    <3>2. i # 1 /\ i \in 1..Len(timers) /\ Len(timers) \in Nat
      BY <2>2, <2>5, <3>1, InvFacts
    <3>3. i - 1 \in DOMAIN timers' /\ (i - 1) + 1 = i
      BY <2>4, <3>2
    <3>4. timers'[i - 1] = c
      BY <2>3, <2>4, <3>1, <3>2, <3>3
    <3> QED BY <3>3, <3>4 DEF Armed
  <2>6. ASSUME NEW g \in alive', timerid'[g] # NIL
        PROVE  /\ timerid'[g] \in Armed' \cup {ti'}
               /\ timer'[timerid'[g]].handler = g
               /\ Periodic(timerid[g])'
    <3>1. /\ timerid[g] \in Armed /\ timerid[g] \in Block
          /\ timer[timerid[g]].handler = g /\ Periodic(timerid[g])
      BY <1>1, <1>2, <2>1, <2>6
    <3>2. timerid[g] = b => ti' = b
      BY <2>1, <3>1
    <3>3. timerid[g] \in Armed' \cup {ti'}
      BY <2>5, <3>1, <3>2
    <3>4. timer'[timerid[g]] = timer[timerid[g]]
      BY <2>1, <3>1, <3>2, WithoutTypes DEF TimersInv
    <3> QED BY <2>1, <3>1, <3>3, <3>4 DEF Periodic
  <2> QED BY <1>4, <2>6
<1>14. CASE FireAdvance
  <2>1. /\ ti # NIL /\ timer' = [timer EXCEPT ![ti].date = evtime_add(@, timer[ti].period)]
        /\ UNCHANGED <<timers, alive, timerid, ti>>
    BY <1>14 DEF FireAdvance
  <2>2. ti \in Block
    BY <2>1 DEF TimersInv, TypeOK
  <2> DEFINE new == [timer[ti] EXCEPT !.date = evtime_add(@, timer[ti].period)]
  <2>3. new.handler = timer[ti].handler /\ new.period = timer[ti].period
    BY <1>1, <2>2 DEF Struct
  <2>4. timer' = [timer EXCEPT ![ti] = new]
    BY <2>1
  <2> HIDE DEF new
  <2>5. \A c \in Block : timer'[c].handler = timer[c].handler /\ timer'[c].period = timer[c].period
    BY <1>1, <2>2, <2>3, <2>4
  <2>6. Armed' = Armed
    BY <2>1 DEF Armed
  <2>7. ASSUME NEW g \in alive', timerid'[g] # NIL
        PROVE  /\ timerid'[g] \in Armed' \cup {ti'}
               /\ timer'[timerid'[g]].handler = g
               /\ Periodic(timerid[g])'
    <3>1. /\ timerid[g] \in Armed \cup {ti} /\ timerid[g] \in Block
          /\ timer[timerid[g]].handler = g /\ Periodic(timerid[g])
      BY <1>2, <2>1, <2>7
    <3> QED BY <2>1, <2>5, <2>6, <3>1 DEF Periodic
  <2> QED BY <1>4, <2>7
<1>15. CASE FireInsert
  <2>1. /\ ti # NIL /\ ti \notin Armed /\ timers' = ti_insert(timers, ti, timer) /\ ti' = NIL
        /\ UNCHANGED <<timer, alive, timerid>>
    BY <1>15 DEF FireInsert, TimersInv
  <2>2. ti \in Block /\ ti \notin Elements(timers)
    BY <2>1, InvFacts DEF TimersInv, TypeOK
  <2>3. Elements(timers') = Elements(timers) \cup {ti}
    BY <1>1, <2>1, <2>2, InvFacts, InsertOrdered DEF TimersInv
  <2>4. Armed' = Armed \cup {ti}
    BY <2>3, InvFacts DEF Armed, Elements
  <2> QED BY <2>1, <2>4 DEF OwnTimers, Periodic
<1> QED BY <1>5, <1>6, <1>7, <1>8, <1>9, <1>11, <1>12, <1>13, <1>14, <1>15
        DEF Next, Lisp, Fire

\* As long as no Timer object sets a one shot timer, no object disturbs the
\* timers of another, for timers others create at a date too (Timer set,
\* timer_del, ti_finalize).
THEOREM OthersCorrect == ASSUME 0 \notin Interval PROVE Spec => OthersKeepTheirTimers
<1> DEFINE Kept(b) ==
      LET h == timer[b].handler
      IN  \/ b \in Armed' \cup {ti'} /\ timer'[b].handler = h
          \/ snap # NIL
          \/ h \notin alive'
          \/ timerid[h] = b /\ timerid'[h] # b
<1>1. Init => OwnTimers
  BY DEF Init, Queue!Init, OwnTimers
<1>2. TimersInv /\ OwnTimers /\ [Next]_vars => OwnTimers'
  BY OwnStep
<1>3. ASSUME TimersInv, OwnTimers, Next, NEW b \in Armed PROVE Kept(b)
  BY <1>3, LispKeeps DEF LispRuns
<1>4. TimersInv /\ OwnTimers /\ [Next]_vars => [\A b \in Armed : Kept(b)]_vars
  BY <1>3
<1> QED BY <1>1, <1>2, <1>4, TimersInvariant, PTL DEF Spec, OthersKeepTheirTimers
=============================================================================
