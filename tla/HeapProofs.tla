-------------------- MODULE HeapProofs --------------------
(***************************************************************************)
(* The heap, for any number of cells, slots and symbols.                   *)
(*                                                                         *)
(* TypeCorrect: whatever deaths nest and errors unwind, the C stack, the   *)
(* counts and the loops of the collector stay in range, and C_FINALIZER is *)
(* set only on cells that have finalizers in the table.                    *)
(*                                                                         *)
(* CountsTrue: nothing in use refers to a freed cell, and counts are those *)
(* of the references.  Its invariant is CoreInv, of HeapInvariant.         *)
(*                                                                         *)
(* OnceTrue, LivingTrue, DisposedTrue: a destructor runs once, what can be *)
(* reached is not freed, and what is freed has had its destructor and its  *)
(* finalizers.  Their invariant is DeathInv: Fate says what a step may do  *)
(* to a cell and its death.                                                *)
(***************************************************************************)
EXTENDS HeapInvariant, FiniteSetTheorems, TLAPS

--------------------
(* Counts.                                                                 *)

\* Counts are unsigned: reduced modulo Width, an integer is a count.
LEMMA Modulo == \A i \in Int : i % Width \in 0..(Width - 1)
<1>1. Width \in Nat \ {0}
  BY HeapAssumption DEF Width
<1> QED BY <1>1

\* Adding to a count, or taking from it, gives a count.
LEMMA PlusType ==
  ASSUME NEW cnt \in Counts, NEW c \in Cell, NEW n \in Nat
  PROVE  Plus(cnt, c, n) \in Counts /\ Minus(cnt, c, n) \in Counts
<1>1. Width \in Nat \ {0}
  BY HeapAssumption DEF Width
<1>2. cnt[c] \in Nat
  BY <1>1 DEF Counts
<1>3. (cnt[c] + n) % Width \in 0..(Width - 1) /\ (cnt[c] + Width - n) % Width \in 0..(Width - 1)
  BY <1>1, <1>2, Modulo
<1> QED BY <1>3 DEF Plus, Minus, Counts

\* LOCK and UNLOCK of a reference, NIL included.
LEMMA LockedType ==
  ASSUME NEW cnt \in Counts, NEW c \in Ref
  PROVE  Locked(cnt, c) \in Counts /\ Unlocked(cnt, c) \in Counts
<1> QED BY PlusType DEF Locked, Unlocked, Ref

\* A cell that is made has one reference.
LEMMA WidthTwo == 0 \in 0..(Width - 1) /\ 1 \in 0..(Width - 1)
<1>1. High \in Nat \ {0, 1} /\ Starts \in Nat \ {0}
  BY HeapAssumption
<1>2. Starts * High >= High /\ Starts * High \in Nat
  BY <1>1
<1> QED BY <1>1, <1>2 DEF Width

\* The places.
LEMMA PlacesFinite == IsFiniteSet(Cell) /\ IsFiniteSet(Slot) /\ IsFiniteSet(Cell \X Slot)
<1>1. IsFiniteSet(Cell) /\ IsFiniteSet(Slot)
  BY HeapAssumption, FS_Interval DEF Cell, Slot
<1> QED BY <1>1, FS_Product

\* References are counted: only finitely many places can refer to a cell.
LEMMA ReferencesType ==
  ASSUME TypeOK, NEW c, NEW P \in SUBSET (Cell \X Slot)
  PROVE  References(c, P) \in Nat
<1>1. IsFiniteSet({n \in Name : base[n] = c})
  BY HeapAssumption, FS_Subset
<1>2. IsFiniteSet({i \in DOMAIN bound : bound[i] = c})
  <2>1. bound \in Seq(Cell)
    BY DEF TypeOK
  <2>2. DOMAIN bound = 1..Len(bound) /\ Len(bound) \in Nat
    BY <2>1
  <2>3. IsFiniteSet(1..Len(bound))
    BY <2>2, FS_Interval
  <2> QED BY <2>2, <2>3, FS_Subset
<1>3. IsFiniteSet({p \in P : slot[p[1]][p[2]] = c})
  <2>2. IsFiniteSet(Cell \X Slot)
    BY PlacesFinite
  <2> QED BY <2>2, FS_Subset
<1> QED BY <1>1, <1>2, <1>3, FS_CardinalityType DEF References

--------------------
(* Deaths.                                                                 *)

\* A death that begins is one.
LEMMA DeathType ==
  ASSUME NEW op \in Ops, NEW c \in Cell, NEW phase \in {"lisp", "slots"},
         NEW fin \in BOOLEAN, NEW h \in Nat
  PROVE  Death(op, c, phase, fin, h) \in Frame /\ Death(op, c, phase, fin, h).height = h
<1>1. 1 \in 1..(Slots + 1) /\ 0 \in 0..MaxOps
  BY HeapAssumption
<1> QED BY <1>1 DEF Death, Frame, Ops

\* The deaths on a stack, one by one.
LEMMA FramesType ==
  ASSUME NEW frs \in Seq(Frame)
  PROVE  /\ DOMAIN frs = 1..Len(frs) /\ Len(frs) \in Nat
         /\ \A i \in DOMAIN frs : frs[i] \in Frame /\ frs[i].height \in Nat /\ frs[i].cell \in Cell
<1>1. DOMAIN frs = 1..Len(frs) /\ Len(frs) \in Nat
  OBVIOUS
<1>2. \A i \in DOMAIN frs : frs[i] \in Frame
  BY <1>1
<1>3. \A f \in Frame : f.height \in Nat /\ f.cell \in Cell
  BY DEF Frame
<1> QED BY <1>1, <1>2, <1>3

\* A death within the others keeps them nested.
LEMMA NestedAppend ==
  ASSUME NEW frs \in Seq(Frame), NEW h \in Nat, NestedIn(frs, h),
         NEW d \in Frame, d.height = h
  PROVE  NestedIn(Append(frs, d), h)
<1>1. \A i \in DOMAIN frs : frs[i].height \in Nat
  BY FramesType
<1>2. \A i \in DOMAIN Append(frs, d) :
        \/ i \in DOMAIN frs /\ Append(frs, d)[i] = frs[i]
        \/ i = Len(frs) + 1 /\ Append(frs, d)[i] = d
  OBVIOUS
<1> QED BY <1>1, <1>2 DEF NestedIn

\* So does the end of some of them.
LEMMA NestedPrefix ==
  ASSUME NEW frs \in Seq(Frame), NEW h \in Nat, NestedIn(frs, h), NEW n \in 0..Len(frs)
  PROVE  SubSeq(frs, 1, n) \in Seq(Frame) /\ NestedIn(SubSeq(frs, 1, n), h)
<1>1. /\ SubSeq(frs, 1, n) \in Seq(Frame) /\ DOMAIN SubSeq(frs, 1, n) = 1..n
      /\ \A i \in 1..n : SubSeq(frs, 1, n)[i] = frs[i]
  OBVIOUS
<1> QED BY <1>1 DEF NestedIn

\* And a step of one, which keeps its height.
LEMMA NestedStep ==
  ASSUME NEW frs \in Seq(Frame), NEW h \in Nat, NestedIn(frs, h), NEW n \in 1..Len(frs),
         NEW d \in Frame, d.height = frs[n].height
  PROVE  [frs EXCEPT ![n] = d] \in Seq(Frame) /\ NestedIn([frs EXCEPT ![n] = d], h)
<1>1. /\ [frs EXCEPT ![n] = d] \in Seq(Frame) /\ DOMAIN [frs EXCEPT ![n] = d] = DOMAIN frs
      /\ \A i \in DOMAIN frs : [frs EXCEPT ![n] = d][i].height = frs[i].height
  OBVIOUS
<1> QED BY <1>1 DEF NestedIn

\* With more pushed they nest as well.
LEMMA NestedMore ==
  ASSUME NEW frs \in Seq(Frame), NEW h \in Nat, NestedIn(frs, h), NEW k \in Nat, h <= k
  PROVE  NestedIn(frs, k)
<1>1. \A i \in DOMAIN frs : frs[i].height \in Nat
  BY FramesType
<1> QED BY <1>1 DEF NestedIn

\* The innermost death, and the stack without it.
LEMMA TopType ==
  ASSUME frames \in Seq(Frame), frames # <<>>
  PROVE  /\ Len(frames) \in 1..Len(frames) /\ Len(frames) - 1 \in 0..Len(frames)
         /\ Top \in Frame /\ Below \in Seq(Frame)
<1> QED BY DEF Top, Below

\* An operation of a destructor keeps the stack one.
LEMMA TickType ==
  ASSUME HeapInv, CanRun
  PROVE  Tick \in Seq(Frame) /\ NestedIn(Tick, Len(bound))
<1>0. frames \in Seq(Frame) /\ bound \in Seq(Cell) /\ Len(bound) \in Nat
  BY DEF HeapInv, TypeOK
<1>1. CASE frames = <<>>
  BY <1>0, <1>1 DEF Tick, HeapInv
<1>2. CASE frames # <<>>
  <2>1. Top \in Frame /\ Len(frames) \in 1..Len(frames) /\ Top.ops < MaxOps
    BY <1>0, <1>2, TopType DEF CanRun
  <2>2. PICK d : d = [Top EXCEPT !.ops = @ + 1]
    OBVIOUS
  <2>3. d \in Frame /\ d.height = Top.height
    <3>1. Top.ops + 1 \in 0..MaxOps
      BY <2>1, HeapAssumption DEF Frame
    <3> QED BY <2>1, <2>2, <3>1 DEF Frame
  <2>4. Tick = [frames EXCEPT ![Len(frames)] = d]
    BY <1>2, <2>1, <2>2 DEF Tick, Top
  <2>5. d.height = frames[Len(frames)].height /\ NestedIn(frames, Len(bound))
    BY <2>3 DEF Top, HeapInv
  <2> QED BY <1>0, <2>1, <2>3, <2>4, <2>5, NestedStep
<1> QED BY <1>1, <1>2

\* What UNLOCK leaves.
Ranged ==
  /\ count' \in Counts /\ garbage' \subseteq Cell
  /\ finalizers' \subseteq Cell /\ flagged' \subseteq finalizers'
  /\ bound' \in Seq(Cell) /\ frames' \in Seq(Frame) /\ NestedIn(frames', Len(bound'))

\* UNLOCK keeps the types, whatever it starts.
LEMMA ReleaseType ==
  ASSUME TypeOK, NEW c \in Ref, NEW cnt \in Counts, NEW frs \in Seq(Frame),
         NEW bnd \in Seq(Cell), NestedIn(frs, Len(bnd)), Release(c, cnt, frs, bnd)
  PROVE  Ranged
<1> DEFINE low == Unlocked(cnt, c)
           dies == c # NIL /\ low[c] = 0
           object == dies /\ kind[c] = "object"
<1>1. low \in Counts /\ (c # NIL => c \in Cell) /\ Len(bnd) \in Nat
  BY LockedType DEF Ref
<1>2. count' \in Counts
  BY <1>1, PlusType DEF Release
<1>3. garbage' \subseteq Cell /\ bound' \in Seq(Cell)
      /\ Len(bound') \in Nat /\ Len(bnd) <= Len(bound')
  <2>1. CASE object
    BY <1>1, <2>1 DEF Release, TypeOK
  <2>2. CASE ~object
    BY <1>1, <2>2 DEF Release, TypeOK
  <2> QED BY <2>1, <2>2
<1>4. finalizers' \subseteq Cell /\ flagged' \subseteq finalizers'
  BY DEF Release, RunFinalizers, registered, TypeOK
<1>5. frames' \in Seq(Frame) /\ NestedIn(frames', Len(bnd))
  <2>1. CASE dies
    <3>1. PICK d : d = Death("purge", c, IF object THEN "lisp" ELSE "slots", FALSE, Len(bnd))
      OBVIOUS
    <3>2. d \in Frame /\ d.height = Len(bnd)
      <4>1. (IF object THEN "lisp" ELSE "slots") \in {"lisp", "slots"}
        OBVIOUS
      <4>2. c \in Cell /\ "purge" \in Ops
        BY <1>1, <2>1 DEF Ops
      <4> HIDE DEF low, dies, object
      <4> QED BY <1>1, <3>1, <4>1, <4>2, DeathType
    <3>3. frames' = Append(frs, d)
      BY <2>1, <3>1 DEF Release
    <3> QED BY <1>1, <2>1, <3>2, <3>3, NestedAppend
  <2>2. CASE ~dies
    BY <2>2 DEF Release
  <2> QED BY <2>1, <2>2
<1>6. NestedIn(frames', Len(bound'))
  BY <1>1, <1>3, <1>5, NestedMore
<1> QED BY <1>2, <1>3, <1>4, <1>5, <1>6 DEF Ranged

\* A jump out of deaths lands in one of them, or in start_lisp.
LEMMA UnwindType ==
  ASSUME TypeOK, NEW frs \in Seq(Frame), NestedIn(frs, Len(bound)), Unwind(frs)
  PROVE  /\ NestedIn(frames', Len(bound)) /\ (collector' = "due" => frames' = <<>> \/ collector = "due")
         /\ exact' \in BOOLEAN /\ frames' \in Seq(Frame) /\ count' \in Counts
         /\ collector' \in {"idle", "due", "objects", "others"}
         /\ destroyed' \subseteq Cell /\ cut' \subseteq destroyed'
<1>1. count \in Counts /\ bound \in Seq(Cell) /\ Len(bound) \in Nat
  BY DEF TypeOK, Counts
<1>2. CASE Handlers(frs) = {}
  <2>1. /\ exact' = FALSE /\ frames' = <<>> /\ collector' = "due"
        /\ UNCHANGED <<count, destroyed, cut>>
    BY <1>2 DEF Unwind
  <2>2. <<>> \in Seq(Frame) /\ NestedIn(<<>>, Len(bound))
    BY DEF NestedIn
  <2> QED BY <1>1, <2>1, <2>2 DEF TypeOK
<1>3. CASE Handlers(frs) # {}
  <2>1. PICK i \in Handlers(frs) :
          /\ frames' = [SubSeq(frs, 1, i) EXCEPT ![i].phase = "slots", ![i].erred = TRUE,
                                                 ![i].ops = 0]
          /\ count' = Minus(count, frs[i].cell, 1)
          /\ destroyed' = destroyed \cup {frs[i].cell} /\ cut' = cut \cup {frs[i].cell}
          /\ UNCHANGED collector
    BY <1>3 DEF Unwind
  <2>2. i \in 1..Len(frs) /\ frs[i] \in Frame /\ frs[i].cell \in Cell
    BY FramesType DEF Handlers
  <2>3. PICK upto : upto = SubSeq(frs, 1, i)
    OBVIOUS
  <2>4. /\ upto \in Seq(Frame) /\ i \in 1..Len(upto) /\ upto[i] = frs[i]
        /\ NestedIn(upto, Len(bound))
    BY <1>1, <2>2, <2>3, NestedPrefix
  <2>5. PICK d : d = [frs[i] EXCEPT !.phase = "slots", !.erred = TRUE, !.ops = 0]
    OBVIOUS
  <2>6. d \in Frame /\ d.height = upto[i].height
    <3>1. 0 \in 0..MaxOps
      BY HeapAssumption
    <3>2. \A f \in Frame : LET g == [f EXCEPT !.phase = "slots", !.erred = TRUE, !.ops = 0]
                          IN  g \in Frame /\ g.height = f.height
      BY <3>1 DEF Frame
    <3> QED BY <2>2, <2>4, <2>5, <3>2
  <2>7. frames' = [upto EXCEPT ![i] = d]
    BY <2>1, <2>3, <2>4, <2>5
  <2>8. frames' \in Seq(Frame) /\ NestedIn(frames', Len(bound))
    BY <1>1, <2>4, <2>6, <2>7, NestedStep
  <2>9. count' \in Counts
    BY <1>1, <2>1, <2>2, PlusType
  <2> QED BY <2>1, <2>2, <2>8, <2>9 DEF Unwind, TypeOK
<1> QED BY <1>2, <1>3

--------------------
(* Every step keeps the invariant.                                         *)

Kinds == {"free", "object", "cons", "zombie"}

\* The parts of the invariant that steps change, one by one.
LEMMA Parts ==
  ASSUME HeapInv
  PROVE  /\ kind \in [Cell -> Kinds] /\ slot \in [Cell -> [Slot -> Ref]]
         /\ count \in Counts /\ base \in [Name -> Ref]
         /\ bound \in Seq(Cell) /\ Len(bound) \in Nat /\ frames \in Seq(Frame)
         /\ NestedIn(frames, Len(bound))
         /\ Cell \subseteq Ref /\ NIL \in Ref /\ None \in [Slot -> Ref]
<1> QED BY DEF HeapInv, TypeOK, Kinds, Counts, Ref, None

\* Operations of lisp code: a read that clears a symbol is one that stores NIL.
Deeds ==
  \/ \E n \in Name : \/ \E c \in Ref : Setq(n, c)
                     \/ \E c \in Cell, k \in {"object", "cons"} : Make(n, c, k)
  \/ \E c \in Cell : \/ \E s \in Slot, d \in Ref : Setslot(c, s, d)
                     \/ Let(c) \/ Watch(c) \/ Delete(c)
  \/ EndLet \/ Fail

LEMMA LispDeeds == Lisp => Deeds
<1>1. ASSUME NEW n \in Name, ReadZombie(n)
      PROVE  \E c \in Ref : Setq(n, c)
  BY <1>1 DEF ReadZombie, Ref
<1> QED BY <1>1 DEF Lisp, Deeds

LEMMA LispKeeps ==
  ASSUME HeapInv, Lisp
  PROVE  HeapInv'
<1>0. /\ count \in Counts /\ base \in [Name -> Ref] /\ slot \in [Cell -> [Slot -> Ref]]
      /\ frames \in Seq(Frame) /\ bound \in Seq(Cell) /\ Len(bound) \in Nat
      /\ NestedIn(frames, Len(bound)) /\ Cell \subseteq Ref /\ NIL \in Ref /\ TypeOK
  BY Parts DEF HeapInv
<1>1. ASSUME NEW n \in Name, NEW c \in Ref, Setq(n, c)
      PROVE  HeapInv'
  <2>1. Release(base[n], Locked(count, c), Tick, bound) /\ collector # "due"
    BY <1>1 DEF Setq, CanRun, LispRuns, InLisp, HeapInv
  <2>2. base[n] \in Ref /\ Locked(count, c) \in Counts
        /\ Tick \in Seq(Frame) /\ NestedIn(Tick, Len(bound))
    BY <1>0, <1>1, LockedType, TickType DEF Setq
  <2>3. Ranged
    BY <1>0, <2>1, <2>2, ReleaseType
  <2>4. base' \in [Name -> Ref]
    BY <1>0, <1>1 DEF Setq
  <2>5. UNCHANGED <<kind, slot, collector, scan, spared, exact, destroyed, cut>>
    BY <1>1 DEF Setq, passes, history
  <2> QED BY <1>0, <2>1, <2>3, <2>4, <2>5 DEF HeapInv, TypeOK, Counts, Ranged
<1>2. ASSUME NEW n \in Name, NEW c \in Cell, NEW k \in {"object", "cons"}, Make(n, c, k)
      PROVE  HeapInv'
  <2>1. Release(base[n], [count EXCEPT ![c] = 1], Tick, bound) /\ collector # "due"
    BY <1>2 DEF Make, CanRun, LispRuns, InLisp, HeapInv
  <2>2. base[n] \in Ref /\ [count EXCEPT ![c] = 1] \in Counts
        /\ Tick \in Seq(Frame) /\ NestedIn(Tick, Len(bound))
    BY <1>0, <1>2, WidthTwo, TickType DEF Make, Counts
  <2>3. Ranged
    BY <1>0, <2>1, <2>2, ReleaseType
  <2>4. base' \in [Name -> Ref] /\ kind' \in [Cell -> {"free", "object", "cons", "zombie"}]
    BY <1>0, <1>2 DEF Make, TypeOK
  <2>5. UNCHANGED <<slot, collector, scan, spared, exact, destroyed, cut>>
    BY <1>2 DEF Make, passes, history
  <2> QED BY <1>0, <2>1, <2>3, <2>4, <2>5 DEF HeapInv, TypeOK, Counts, Ranged
<1>3. ASSUME NEW c \in Cell, NEW s \in Slot, NEW d \in Ref, Setslot(c, s, d)
      PROVE  HeapInv'
  <2>1. Release(slot[c][s], Locked(count, d), Tick, bound) /\ collector # "due"
    BY <1>3 DEF Setslot, CanRun, LispRuns, InLisp, HeapInv
  <2>2. slot[c][s] \in Ref /\ Locked(count, d) \in Counts
        /\ Tick \in Seq(Frame) /\ NestedIn(Tick, Len(bound))
    BY <1>0, <1>3, LockedType, TickType DEF Setslot
  <2>3. Ranged
    BY <1>0, <2>1, <2>2, ReleaseType
  <2>4. slot' \in [Cell -> [Slot -> Ref]]
    BY <1>0, <1>3 DEF Setslot
  <2>5. UNCHANGED <<kind, base, collector, scan, spared, exact, destroyed, cut>>
    BY <1>3 DEF Setslot, passes, history
  <2> QED BY <1>0, <2>1, <2>3, <2>4, <2>5 DEF HeapInv, TypeOK, Counts, Ranged
<1>4. ASSUME NEW c \in Cell, Let(c)
      PROVE  HeapInv'
  <2>1. count' \in Counts /\ bound' \in Seq(Cell) /\ frames' = <<>>
    BY <1>0, <1>4, LockedType DEF Let
  <2>2. NestedIn(frames', Len(bound'))
    BY <2>1 DEF NestedIn
  <2>3. UNCHANGED <<kind, slot, garbage, flagged, finalizers, base, frames, collector, scan,
                    spared, exact, destroyed, cut>>
    BY <1>4 DEF Let, registered, passes, history
  <2> QED BY <1>0, <2>1, <2>2, <2>3 DEF HeapInv, TypeOK, Counts
<1>5. ASSUME NEW c \in Cell, Watch(c)
      PROVE  HeapInv'
  <2>1. frames' \in Seq(Frame) /\ NestedIn(frames', Len(bound)) /\ collector # "due"
    BY <1>0, <1>5, TickType DEF Watch, CanRun, LispRuns, InLisp, HeapInv
  <2>2. UNCHANGED <<kind, slot, count, garbage, base, bound, collector, scan, spared, exact,
                    destroyed, cut>>
    BY <1>5 DEF Watch, passes, history
  <2>3. finalizers' \subseteq Cell /\ flagged' \subseteq finalizers'
    BY <1>0, <1>5 DEF Watch, TypeOK
  <2> QED BY <1>0, <2>1, <2>2, <2>3 DEF HeapInv, TypeOK
<1>6. ASSUME NEW c \in Cell, Delete(c)
      PROVE  HeapInv'
  <2>1. /\ count' \in Counts /\ bound' \in Seq(Cell)
        /\ Len(bound') \in Nat /\ Len(bound) <= Len(bound')
    BY <1>0, <1>6, PlusType DEF Delete
  <2>2. PICK d : d = Death("delete", c, "lisp", FALSE, Len(bound))
    OBVIOUS
  <2>3. d \in Frame /\ d.height = Len(bound)
    <3>1. "delete" \in Ops /\ "lisp" \in {"lisp", "slots"}
      BY DEF Ops
    <3> QED BY <1>0, <2>2, <3>1, DeathType
  <2>4. Tick \in Seq(Frame) /\ NestedIn(Tick, Len(bound)) /\ collector # "due"
    BY <1>0, <1>6, TickType DEF Delete, CanRun, LispRuns, InLisp, HeapInv
  <2>5. frames' = Append(Tick, d)
    BY <1>6, <2>2 DEF Delete
  <2>6. frames' \in Seq(Frame) /\ NestedIn(frames', Len(bound))
    BY <1>0, <2>3, <2>4, <2>5, NestedAppend
  <2>7. NestedIn(frames', Len(bound'))
    BY <1>0, <2>1, <2>6, NestedMore
  <2>8. finalizers' \subseteq Cell /\ flagged' \subseteq finalizers' /\ garbage' \subseteq Cell
    BY <1>0, <1>6 DEF Delete, RunFinalizers, TypeOK
  <2>9. UNCHANGED <<kind, slot, base, collector, scan, spared, exact, destroyed, cut>>
    BY <1>6 DEF Delete, passes, history
  <2> QED BY <1>0, <2>1, <2>4, <2>6, <2>7, <2>8, <2>9 DEF HeapInv, TypeOK, Counts
<1>7. CASE EndLet
  <2>1. Release(bound[1], count, frames, <<>>) /\ bound[1] \in Ref /\ <<>> \in Seq(Cell)
        /\ NestedIn(frames, Len(<<>>)) /\ collector # "due"
    BY <1>0, <1>7 DEF EndLet, NestedIn
  <2>2. Ranged
    BY <1>0, <2>1, ReleaseType
  <2>3. UNCHANGED <<kind, slot, base, collector, scan, spared, exact, destroyed, cut>>
    BY <1>7 DEF EndLet, passes, history
  <2> QED BY <1>0, <2>1, <2>2, <2>3 DEF HeapInv, TypeOK, Counts, Ranged
<1>8. CASE Fail
  <2>1. Unwind(frames) /\ collector # "due"
    BY <1>8 DEF Fail, LispRuns, InLisp, HeapInv
  <2>2. /\ NestedIn(frames', Len(bound)) /\ (collector' = "due" => frames' = <<>>)
        /\ exact' \in BOOLEAN /\ frames' \in Seq(Frame) /\ count' \in Counts
        /\ collector' \in {"idle", "due", "objects", "others"}
        /\ destroyed' \subseteq Cell /\ cut' \subseteq destroyed'
    BY <1>0, <2>1, UnwindType
  <2>3. UNCHANGED <<kind, slot, garbage, flagged, finalizers, base, bound, scan, spared>>
    BY <1>8 DEF Fail, registered
  <2> QED BY <1>0, <2>2, <2>3 DEF HeapInv, TypeOK, Counts
<1> QED BY <1>1, <1>2, <1>3, <1>4, <1>5, <1>6, <1>7, <1>8, LispDeeds DEF Deeds

\* Steps of deaths.
LEMMA DyingKeeps ==
  ASSUME HeapInv, Dying
  PROVE  HeapInv'
<1>0. /\ count \in Counts /\ slot \in [Cell -> [Slot -> Ref]] /\ kind \in [Cell -> Kinds]
      /\ frames \in Seq(Frame) /\ bound \in Seq(Cell) /\ Len(bound) \in Nat
      /\ NestedIn(frames, Len(bound)) /\ None \in [Slot -> Ref] /\ TypeOK
  BY Parts DEF HeapInv
<1>1. frames # <<>> /\ collector # "due"
  BY DEF Dying, Return, InLisp, LetSlotGo, Died, HeapInv
<1>2. /\ Top \in Frame /\ Below \in Seq(Frame) /\ Len(frames) \in 1..Len(frames)
      /\ Len(frames) - 1 \in 0..Len(frames) /\ Top = frames[Len(frames)]
  BY <1>0, <1>1, TopType DEF Top
<1>3. /\ Top.cell \in Cell /\ Top.height \in Nat /\ Top.todo \in 1..(Slots + 1)
      /\ Top.finalize \in BOOLEAN
  BY <1>2 DEF Frame
<1>4. /\ Top.height <= Len(bound)
      /\ \A j \in 1..Len(frames) : frames[j].height <= Top.height
  BY <1>0, <1>2 DEF NestedIn
<1>5. NestedIn(frames, Top.height)
  BY <1>0, <1>2, <1>4, FramesType DEF NestedIn
<1>6. NestedIn(Below, Top.height) /\ NestedIn(Below, Len(bound))
  BY <1>0, <1>2, <1>3, <1>5, NestedPrefix DEF Below
<1>7. CASE Return
  <2> DEFINE c == Top.cell
             own == Minus(count, c, 2)
  <2>1. own \in Counts /\ Minus(own, c, 1) \in Counts
    BY <1>0, <1>3, PlusType
  <2>2. bound' \in Seq(Cell) /\ Len(bound') = Top.height
    <3>1. bound' = SubSeq(bound, 1, Top.height)
      BY <1>7 DEF Return
    <3> QED BY <1>0, <1>3, <1>4, <3>1
  <2>3. destroyed' = destroyed \cup {c} /\ UNCHANGED <<slot, finalizers, base, collector,
          scan, spared, exact, cut>>
    BY <1>7 DEF Return, passes
  <2>4. CASE Top.op = "delete"
    <3>1. /\ kind' = [kind EXCEPT ![c] = "zombie"]
          /\ garbage' = garbage \ {c} /\ flagged' = flagged \ {c}
          /\ count' = Minus(own, c, 1)
          /\ frames' = IF count'[c] # 0 THEN Below
                       ELSE Append(Below, Death("purge", c, "slots", FALSE, Top.height))
      BY <1>7, <2>4 DEF Return
    <3>2. PICK d : d = Death("purge", c, "slots", FALSE, Top.height)
      OBVIOUS
    <3>3. d \in Frame /\ d.height = Top.height
      <4>1. "purge" \in Ops /\ "slots" \in {"lisp", "slots"}
        BY DEF Ops
      <4> QED BY <1>3, <3>2, <4>1, DeathType
    <3>4. Append(Below, d) \in Seq(Frame) /\ NestedIn(Append(Below, d), Top.height)
      BY <1>2, <1>3, <1>6, <3>3, NestedAppend
    <3>5. frames' \in Seq(Frame) /\ NestedIn(frames', Len(bound'))
      BY <1>2, <1>6, <2>2, <3>1, <3>2, <3>4
    <3> QED BY <1>0, <1>1, <1>3, <2>1, <2>2, <2>3, <3>1, <3>5 DEF HeapInv, TypeOK, Counts, Kinds
  <2>5. CASE Top.op # "delete"
    <3>1. /\ count' = own
          /\ frames' = [frames EXCEPT ![Len(frames)].phase = "slots", ![Len(frames)].ops = 0]
          /\ UNCHANGED <<kind, garbage, flagged>>
      BY <1>7, <2>5 DEF Return
    <3>2. PICK d : d = [Top EXCEPT !.phase = "slots", !.ops = 0]
      OBVIOUS
    <3>3. d \in Frame /\ d.height = Top.height
      <4>1. 0 \in 0..MaxOps
        BY HeapAssumption
      <4> QED BY <1>2, <3>2, <4>1 DEF Frame
    <3>4. frames' = [frames EXCEPT ![Len(frames)] = d]
      BY <1>0, <1>2, <3>1, <3>2
    <3>5. frames' \in Seq(Frame) /\ NestedIn(frames', Top.height)
      BY <1>0, <1>2, <1>3, <1>5, <3>3, <3>4, NestedStep
    <3> QED BY <1>0, <1>1, <1>3, <2>1, <2>2, <2>3, <3>1, <3>5 DEF HeapInv, TypeOK, Counts
  <2> QED BY <2>4, <2>5
<1>8. CASE LetSlotGo
  <2> DEFINE c == Top.cell
             last == kind[c] = "cons" /\ Top.todo = Slots
             rest == IF last THEN Below ELSE [frames EXCEPT ![Len(frames)].todo = @ + 1]
  <2>1. /\ Release(slot[c][Top.todo], count, rest, bound) /\ Top.todo \in Slot
        /\ slot' = IF last THEN [slot EXCEPT ![c] = None] ELSE slot
        /\ kind' = IF last THEN [kind EXCEPT ![c] = "free"] ELSE kind
    BY <1>3, <1>8, HeapAssumption DEF LetSlotGo, Slot
  <2>2. rest \in Seq(Frame) /\ NestedIn(rest, Len(bound))
    <3>1. PICK d : d = [Top EXCEPT !.todo = @ + 1]
      OBVIOUS
    <3>2. d \in Frame /\ d.height = Top.height
      <4>1. Top.todo + 1 \in 1..(Slots + 1)
        BY <1>3, <2>1, HeapAssumption DEF Slot
      <4> QED BY <1>2, <3>1, <4>1 DEF Frame
    <3>3. rest = IF last THEN Below ELSE [frames EXCEPT ![Len(frames)] = d]
      BY <1>0, <1>2, <3>1
    <3>4. [frames EXCEPT ![Len(frames)] = d] \in Seq(Frame)
          /\ NestedIn([frames EXCEPT ![Len(frames)] = d], Len(bound))
      BY <1>0, <1>2, <3>2, NestedStep
    <3> QED BY <1>2, <1>6, <3>3, <3>4
  <2>3. slot[c][Top.todo] \in Ref
    BY <1>0, <1>3, <2>1
  <2>4. Ranged
    <3> HIDE DEF rest
    <3> QED BY <1>0, <2>1, <2>2, <2>3, ReleaseType
  <2>5. slot' \in [Cell -> [Slot -> Ref]] /\ kind' \in [Cell -> Kinds]
    BY <1>0, <1>3, <2>1 DEF Kinds
  <2>6. UNCHANGED <<base, collector, scan, spared, exact, destroyed, cut>>
    BY <1>8 DEF LetSlotGo, passes, history
  <2> QED BY <1>0, <1>1, <2>4, <2>5, <2>6 DEF HeapInv, TypeOK, Counts, Ranged, Kinds
<1>9. CASE Died
  <2> DEFINE c == Top.cell
  <2>1. slot' \in [Cell -> [Slot -> Ref]] /\ kind' \in [Cell -> Kinds]
    BY <1>0, <1>3, <1>9 DEF Died, Remains, Kinds
  <2>2. garbage' \subseteq Cell /\ finalizers' \subseteq Cell /\ flagged' \subseteq finalizers'
    BY <1>0, <1>3, <1>9 DEF Died, TypeOK
  <2>3. UNCHANGED <<base, bound, scan, spared>>
    BY <1>9 DEF Died
  <2>4. /\ frames' \in Seq(Frame) /\ NestedIn(frames', Len(bound))
        /\ (collector' = "due" => frames' = <<>>)
        /\ collector' \in {"idle", "due", "objects", "others"}
        /\ exact' \in BOOLEAN /\ count' \in Counts
        /\ destroyed' \subseteq Cell /\ cut' \subseteq destroyed'
    <3>1. CASE Top.erred
      <4>1. Unwind(Below)
        BY <1>9, <3>1 DEF Died
      <4> QED BY <1>0, <1>1, <1>2, <1>6, <4>1, UnwindType
    <3>2. CASE ~Top.erred
      <4>1. /\ frames' = Below /\ UNCHANGED <<count, exact, collector>>
            /\ \/ destroyed' = destroyed /\ cut' = cut
               \/ destroyed' = destroyed \ {c} /\ cut' = cut \ {c}
        BY <1>9, <3>2 DEF Died
      <4> QED BY <1>0, <1>1, <1>2, <1>6, <4>1 DEF TypeOK
    <3> QED BY <3>1, <3>2
  <2> QED BY <1>0, <2>1, <2>2, <2>3, <2>4 DEF HeapInv, TypeOK, Counts, Kinds
<1> QED BY <1>7, <1>8, <1>9 DEF Dying

\* Steps of the collector.
LEMMA CollectingKeeps ==
  ASSUME HeapInv, Collecting
  PROVE  HeapInv'
<1>0. /\ count \in Counts /\ slot \in [Cell -> [Slot -> Ref]] /\ kind \in [Cell -> Kinds]
      /\ bound \in Seq(Cell) /\ Len(bound) \in Nat /\ None \in [Slot -> Ref] /\ TypeOK
      /\ frames \in Seq(Frame) /\ NestedIn(frames, Len(bound))
  BY Parts DEF HeapInv
<1>1. 1 \in 1..(Cells + 1) /\ <<>> \in Seq(Cell) /\ <<>> \in Seq(Frame)
      /\ \A h : NestedIn(<<>>, h)
  BY HeapAssumption DEF NestedIn
<1>2. CASE Mark
  <2>1. count' \in Counts
    <3>1. \A c \in Cell : (count[c] + High) % Width \in 0..(Width - 1)
      <4>1. \A c \in Cell : count[c] + High \in Int
        BY <1>0, HeapAssumption DEF Counts
      <4> QED BY <4>1, Modulo
    <3>2. 0 \in 0..(Width - 1)
      BY WidthTwo
    <3>3. count' = [c \in Cell |-> IF c \in Used THEN (count[c] + High) % Width ELSE 0]
      BY <1>2 DEF Mark
    <3> QED BY <3>1, <3>2, <3>3 DEF Counts
  <2>2. /\ bound' = <<>> /\ collector' = "objects" /\ scan' = 1
        /\ UNCHANGED <<kind, slot, flagged, finalizers, base, frames, exact, destroyed, cut>>
    BY <1>2 DEF Mark, Popped, registered, history
  <2>3. garbage' \subseteq Cell /\ spared' \subseteq Cell
    BY <1>2, <1>0 DEF Mark, Flag, Used, Reach, TypeOK
  <2>4. frames' = <<>>
    BY <1>2, <2>2 DEF Mark, HeapInv
  <2> QED BY <1>0, <1>1, <2>1, <2>2, <2>3, <2>4 DEF HeapInv, TypeOK, Counts
<1>3. ASSUME NEW c \in Cell, CollectObject(c)
      PROVE  HeapInv'
  <2>1. count' \in Counts
    BY <1>0, <1>3, PlusType DEF CollectObject
  <2>2. bound' \in Seq(Cell) /\ Len(bound') = Len(bound) + 1
    BY <1>0, <1>3 DEF CollectObject
  <2>3. PICK d : d = Death("collect", c, "lisp", Finalize(c), Len(bound))
    OBVIOUS
  <2>4. d \in Frame /\ d.height = Len(bound)
    <3>1. "collect" \in Ops /\ "lisp" \in {"lisp", "slots"} /\ Finalize(c) \in BOOLEAN
      BY DEF Ops, Finalize
    <3> QED BY <1>0, <2>3, <3>1, DeathType
  <2>5. frames' = <<d>>
    BY <1>3, <2>3 DEF CollectObject
  <2>6. frames' \in Seq(Frame) /\ NestedIn(frames', Len(bound'))
    BY <1>0, <2>2, <2>4, <2>5 DEF NestedIn
  <2>7. scan' \in 1..(Cells + 1)
    BY <1>3, HeapAssumption DEF CollectObject, Comes, Cell
  <2>8. UNCHANGED <<kind, slot, garbage, flagged, finalizers, base, collector, spared, exact,
                    destroyed, cut>> /\ collector # "due"
    BY <1>3 DEF CollectObject, registered, history
  <2> QED BY <1>0, <2>1, <2>2, <2>6, <2>7, <2>8 DEF HeapInv, TypeOK, Counts
<1>4. CASE ObjectsDone
  <2>1. /\ scan' = 1 /\ collector' = "others"
        /\ UNCHANGED <<kind, slot, count, garbage, flagged, finalizers, base, bound, frames,
                       spared, exact, destroyed, cut>>
    BY <1>4 DEF ObjectsDone, registered, history
  <2> QED BY <1>0, <1>1, <2>1 DEF HeapInv, TypeOK
<1>5. ASSUME NEW c \in Cell, CollectOther(c)
      PROVE  HeapInv'
  <2>1. scan' \in 1..(Cells + 1) /\ frames = <<>> /\ collector # "due"
    BY <1>5, HeapAssumption DEF CollectOther, Comes, Cell
  <2>2. UNCHANGED <<kind, slot, count, garbage, base, bound, collector, spared, exact,
                    destroyed, cut>>
    BY <1>5 DEF CollectOther, history
  <2>3. finalizers' \subseteq Cell /\ flagged' \subseteq finalizers'
    BY <1>0, <1>5 DEF CollectOther, RunFinalizers, registered, TypeOK
  <2>4. frames' \in Seq(Frame) /\ NestedIn(frames', Len(bound))
    <3>1. CASE kind[c] = "zombie"
      <4>1. PICK d : d = Death("sweep", c, "slots", Finalize(c), Len(bound))
        OBVIOUS
      <4>2. d \in Frame /\ d.height = Len(bound)
        <5>1. "sweep" \in Ops /\ "slots" \in {"lisp", "slots"} /\ Finalize(c) \in BOOLEAN
          BY DEF Ops, Finalize
        <5> QED BY <1>0, <4>1, <5>1, DeathType
      <4>3. frames' = <<d>>
        BY <1>5, <3>1, <4>1 DEF CollectOther
      <4> QED BY <1>0, <4>2, <4>3 DEF NestedIn
    <3>2. CASE kind[c] # "zombie"
      BY <1>0, <1>5, <3>2 DEF CollectOther
    <3> QED BY <3>1, <3>2
  <2> QED BY <1>0, <2>1, <2>2, <2>3, <2>4 DEF HeapInv, TypeOK
<1>6. CASE Rebuild
  <2> DEFINE found == Reach(Image(base))
  <2>1. count' \in Counts
    <3>1. found \X Slot \in SUBSET (Cell \X Slot)
      BY DEF Reach
    <3>2. \A c \in Cell : References(c, found \X Slot) % Width \in 0..(Width - 1)
      <4> SUFFICES ASSUME NEW c \in Cell
                   PROVE  References(c, found \X Slot) % Width \in 0..(Width - 1)
        OBVIOUS
      <4>1. References(c, found \X Slot) \in Nat
        BY <1>0, <3>1, ReferencesType
      <4> HIDE DEF found
      <4> QED BY <4>1, Modulo
    <3>3. count' = [c \in Cell |-> References(c, found \X Slot) % Width]
      BY <1>6 DEF Rebuild
    <3> QED BY <3>2, <3>3 DEF Counts
  <2>2. kind' \in [Cell -> Kinds] /\ slot' \in [Cell -> [Slot -> Ref]]
    BY <1>0, <1>6 DEF Rebuild, Kinds
  <2>3. finalizers' \subseteq Cell /\ flagged' \subseteq finalizers'
        /\ destroyed' \subseteq Cell /\ cut' \subseteq destroyed'
    BY <1>0, <1>6 DEF Rebuild, TypeOK
  <2>4. /\ garbage' = {} /\ spared' = {} /\ collector' = "idle" /\ scan' = 1 /\ exact' = TRUE
        /\ UNCHANGED <<base, bound, frames>>
    BY <1>6 DEF Rebuild
  <2> QED BY <1>0, <1>1, <2>1, <2>2, <2>3, <2>4 DEF HeapInv, TypeOK, Counts, Kinds
<1> QED BY <1>2, <1>3, <1>4, <1>5, <1>6 DEF Collecting

\* The empty heap.
LEMMA StartsWell ==
  ASSUME Init
  PROVE  HeapInv
<1>1. NIL \in Ref /\ 0 \in 0..(Width - 1) /\ 1 \in 1..(Cells + 1) /\ None \in [Slot -> Ref]
  BY WidthTwo, HeapAssumption DEF Ref, None
<1>2. <<>> \in Seq(Frame) /\ <<>> \in Seq(Cell) /\ NestedIn(<<>>, Len(<<>>))
  BY DEF NestedIn
<1> QED BY <1>1, <1>2 DEF Init, HeapInv, TypeOK

\* The types of the heap, and the nesting of deaths, in every state: however
\* destructors, deletions and collections interrupt one another, an end of one
\* finds at least the pushed values it pops down to.
THEOREM TypeCorrect == Spec => []TypeOK
<1>1. Init => HeapInv
  BY StartsWell
<1>2. HeapInv /\ [Next]_vars => HeapInv'
  <2>1. ASSUME HeapInv, UNCHANGED vars
        PROVE  HeapInv'
    BY <2>1 DEF vars, registered, passes, history, HeapInv, TypeOK
  <2> QED BY <2>1, LispKeeps, DyingKeeps, CollectingKeeps DEF Next
<1>3. HeapInv => TypeOK
  BY DEF HeapInv
<1> QED BY <1>1, <1>2, <1>3, PTL DEF Spec

--------------------
(* Arithmetic of counts.  A count is what garbage() added to it, a         *)
(* multiple of High, and the rest, which is what LOCK did.                 *)

\* The rest is less than High, and all of a count that was not raised.
LEMMA RestType ==
  ASSUME NEW v \in Nat
  PROVE  /\ v % High \in Nat /\ v % High < High /\ v % High <= v
         /\ (v < High => v % High = v)
<1> QED BY HeapAssumption

\* What is raised has the rest it had.
LEMMA RestIs ==
  ASSUME NEW q \in Nat, NEW r \in 0..(High - 1)
  PROVE  (q * High + r) % High = r
<1>1. High \in Nat \ {0}
  BY HeapAssumption
<1> QED BY <1>1

\* A count is so many times High, and the rest.
LEMMA RestDiv ==
  ASSUME NEW v \in Nat
  PROVE  \E q \in Nat : v = q * High + (v % High)
<1>1. High \in Nat \ {0}
  BY HeapAssumption
<1>2. v = (v \div High) * High + (v % High) /\ v \div High \in Nat
  BY <1>1
<1> QED BY <1>2, Zenon

\* LOCK while there is room.
LEMMA RestPlus ==
  ASSUME NEW v \in 0..(Width - 1), NEW n \in Nat, (v % High) + n < High
  PROVE  /\ (v + n) % High = (v % High) + n /\ (v + n < High <=> v < High)
         /\ v + n \in 0..(Width - 1) /\ (v + n) % Width = v + n
<1>1. High \in Nat \ {0} /\ Starts \in Nat /\ v \in Nat /\ v < Starts * High
      /\ Starts * High \in Nat /\ Width = Starts * High
  BY HeapAssumption DEF Width
<1>2. PICK q \in Nat : v = q * High + (v % High)
  BY <1>1, RestDiv
<1>3. PICK r : r = v % High
  OBVIOUS
<1>4. r \in Nat /\ r + n \in 0..(High - 1) /\ v = q * High + r
  BY <1>1, <1>2, <1>3
<1>5. q * High \in Nat /\ (q = 0 => q * High = 0) /\ (q # 0 => q * High >= High)
  BY <1>1
<1>6. v + n = q * High + (r + n)
  BY <1>4, <1>5
<1>7. (v + n) % High = r + n
  BY <1>4, <1>6, RestIs
<1>8. q * High + High <= Starts * High
  <2>1. q < Starts
    BY <1>1, <1>4, <1>5
  <2>2. (q + 1) * High <= Starts * High
    BY <1>1, <2>1
  <2> QED BY <1>1, <2>2
<1>9. v + n \in Nat /\ v + n < Starts * High
  BY <1>1, <1>4, <1>5, <1>6, <1>8
<1>10. (v + n) % Width = v + n
  BY <1>1, <1>9
<1>11. v + n < High <=> v < High
  BY <1>1, <1>4, <1>5, <1>6
<1> QED BY <1>1, <1>3, <1>7, <1>9, <1>10, <1>11

\* UNLOCK of what was locked.
LEMMA RestMinus ==
  ASSUME NEW v \in 0..(Width - 1), NEW n \in Nat, n <= v % High
  PROVE  /\ (v - n) % High = (v % High) - n /\ (v - n < High <=> v < High)
         /\ v - n \in 0..(Width - 1) /\ (v + Width - n) % Width = v - n
<1>1. High \in Nat \ {0} /\ v \in Nat /\ v < Width /\ Width \in Nat \ {0}
  BY HeapAssumption DEF Width
<1>2. PICK q \in Nat : v = q * High + (v % High)
  BY <1>1, RestDiv
<1>3. PICK r : r = v % High
  OBVIOUS
<1>4. r \in Nat /\ r < High /\ n <= r /\ r - n \in 0..(High - 1) /\ v = q * High + r
  BY <1>1, <1>2, <1>3, RestType
<1>5. q * High \in Nat /\ (q = 0 => q * High = 0) /\ (q # 0 => q * High >= High)
  BY <1>1
<1>6. v - n = q * High + (r - n) /\ v - n \in Nat
  BY <1>4, <1>5
<1>7. (v - n) % High = r - n
  BY <1>4, <1>6, RestIs
<1>8. (v - n) % Width = v - n /\ v + Width - n = (v - n) + Width
  BY <1>1, <1>6
<1>9. ((v - n) + Width) % Width = (v - n) % Width
  BY <1>1, <1>6
<1>10. v - n < High <=> v < High
  BY <1>1, <1>4, <1>5, <1>6
<1> QED BY <1>1, <1>3, <1>6, <1>7, <1>8, <1>9, <1>10

\* What garbage() adds.
LEMMA RestRaised ==
  ASSUME NEW v \in 0..(Width - 1), v + High < Width
  PROVE  /\ (v + High) % High = v % High /\ v + High >= High
         /\ v + High \in 0..(Width - 1) /\ (v + High) % Width = v + High
<1>1. High \in Nat \ {0} /\ v \in Nat /\ Width \in Nat \ {0}
  BY HeapAssumption DEF Width
<1>2. (v + High) % High = v % High
  <2>1. PICK q \in Nat : v = q * High + (v % High)
    BY <1>1, RestDiv
  <2>2. PICK r : r = v % High
    OBVIOUS
  <2>3. r \in 0..(High - 1) /\ v + High = (q + 1) * High + r /\ q + 1 \in Nat
    BY <1>1, <2>1, <2>2
  <2>4. (v + High) % High = r
    BY <2>3, RestIs
  <2> QED BY <2>2, <2>4
<1>3. (v + High) % Width = v + High
  BY <1>1
<1> QED BY <1>1, <1>2, <1>3

--------------------
(* The books.                                                              *)

--------------------

\* The numbers that make up a total.
LEMMA TotalType ==
  ASSUME NEW sl \in [Cell -> [Slot -> Ref]], NEW cnt \in Counts, NEW bs \in [Name -> Ref],
         NEW bn \in Seq(Cell), NEW fr, NEW x
  PROVE  /\ Times(bs, x) \in Nat /\ Times(bn, x) \in Nat /\ Times(Standing(sl, cnt, fr), x) \in Nat
         /\ In(x, Destroying(fr)) \in {0, 1} /\ In(x, Deleting(fr)) \in {0, 1}
         /\ Total(x, sl, cnt, bs, bn, fr) \in Nat
         /\ \A n \in Name : bs[n] = x => Times(bs, x) >= 1
         /\ \A k \in DOMAIN bn : bn[k] = x => Times(bn, x) >= 1
         /\ \A p \in Cell \X Slot : Standing(sl, cnt, fr)[p] = x => Times(Standing(sl, cnt, fr), x) >= 1
<1>1. IsFiniteSet(Name) /\ IsFiniteSet(Cell \X Slot) /\ IsFiniteSet(1..Len(bn))
  <2>2. IsFiniteSet(Cell \X Slot)
    BY PlacesFinite
  <2>3. Len(bn) \in Int /\ 1 \in Int
    OBVIOUS
  <2>4. IsFiniteSet(1..Len(bn))
    BY <2>3, FS_Interval
  <2> QED BY <2>2, <2>4, HeapAssumption
<1>2. Standing(sl, cnt, fr) \in [Cell \X Slot -> Ref]
  BY DEF Standing, Ref
<1>3. bn \in [1..Len(bn) -> Cell] /\ DOMAIN bn = 1..Len(bn)
  OBVIOUS
<1>4. Times(bs, x) \in Nat /\ \A n \in Name : bs[n] = x => Times(bs, x) >= 1
  BY <1>1, TimesType
<1>5. Times(bn, x) \in Nat /\ \A k \in DOMAIN bn : bn[k] = x => Times(bn, x) >= 1
  BY <1>1, <1>3, TimesType
<1>6. /\ Times(Standing(sl, cnt, fr), x) \in Nat
      /\ \A p \in Cell \X Slot : Standing(sl, cnt, fr)[p] = x => Times(Standing(sl, cnt, fr), x) >= 1
  BY <1>1, <1>2, TimesType
<1>7. In(x, Destroying(fr)) \in {0, 1} /\ In(x, Deleting(fr)) \in {0, 1}
  BY DEF In
<1>8. Total(x, sl, cnt, bs, bn, fr) \in Nat
  BY <1>4, <1>5, <1>6, <1>7 DEF Total
<1> QED BY <1>4, <1>5, <1>6, <1>7, <1>8

\* Which deaths a stack has after one more.
LEMMA DeadAppend ==
  ASSUME NEW frs \in Seq(Frame), NEW d \in Frame
  PROVE  /\ Dead(Append(frs, d)) = Dead(frs) \cup {d.cell}
         /\ Destroying(Append(frs, d)) = Destroying(frs) \cup (IF d.phase = "lisp" THEN {d.cell} ELSE {})
         /\ Deleting(Append(frs, d)) = Deleting(frs) \cup (IF d.op = "delete" THEN {d.cell} ELSE {})
         /\ \A i \in DOMAIN Append(frs, d) : \/ i \in DOMAIN frs /\ Append(frs, d)[i] = frs[i]
                                             \/ i = Len(frs) + 1 /\ Append(frs, d)[i] = d
         /\ \A i \in DOMAIN frs : i \in DOMAIN Append(frs, d) /\ Append(frs, d)[i] = frs[i]
         /\ Len(frs) + 1 \in DOMAIN Append(frs, d) /\ Append(frs, d)[Len(frs) + 1] = d
<1>1. /\ \A i \in DOMAIN Append(frs, d) : \/ i \in DOMAIN frs /\ Append(frs, d)[i] = frs[i]
                                          \/ i = Len(frs) + 1 /\ Append(frs, d)[i] = d
      /\ \A i \in DOMAIN frs : i \in DOMAIN Append(frs, d) /\ Append(frs, d)[i] = frs[i]
      /\ Len(frs) + 1 \in DOMAIN Append(frs, d) /\ Append(frs, d)[Len(frs) + 1] = d
  OBVIOUS
<1>2. Dead(Append(frs, d)) = Dead(frs) \cup {d.cell}
  BY <1>1 DEF Dead
<1>3. Destroying(Append(frs, d)) = Destroying(frs) \cup (IF d.phase = "lisp" THEN {d.cell} ELSE {})
  BY <1>1 DEF Destroying
<1>4. Deleting(Append(frs, d)) = Deleting(frs) \cup (IF d.op = "delete" THEN {d.cell} ELSE {})
  BY <1>1 DEF Deleting
<1> QED BY <1>1, <1>2, <1>3, <1>4, Zenon

\* Places stand as they did when the same cells count.
LEMMA StandingSame ==
  ASSUME NEW sl, NEW cnt, NEW fr, NEW cnt2, NEW fr2,
         \A c \in Cell, s \in Slot : Counting(c, s, cnt, fr) <=> Counting(c, s, cnt2, fr2)
  PROVE  Standing(sl, cnt2, fr2) = Standing(sl, cnt, fr)
<1>1. \A p \in Cell \X Slot : Counting(p[1], p[2], cnt, fr) <=> Counting(p[1], p[2], cnt2, fr2)
  OBVIOUS
<1> QED BY <1>1, Zenon DEF Standing

\* Nothing refers to c, which does not die.
Forgotten(c, sl, cnt, bs, bn, fr) ==
  /\ c \notin Dead(fr) /\ c \notin Destroying(fr) /\ c \notin Deleting(fr)
  /\ Times(bs, c) = 0 /\ Times(bn, c) = 0 /\ Times(Standing(sl, cnt, fr), c) = 0

\* A cell that has one reference left, which is to be released, does not die
\* yet, and nothing else refers to it.
LEMMA LastReference ==
  ASSUME NEW kd \in [Cell -> Kinds], NEW sl \in [Cell -> [Slot -> Ref]],
         NEW gb \in SUBSET Cell, NEW bs \in [Name -> Ref],
         NEW c \in Cell, NEW cnt \in Counts, NEW frs \in Seq(Frame), NEW bnd \in Seq(Cell),
         Books(kd, sl, cnt, gb, bs, bnd, frs, c), cnt[c] = 1
  PROVE  Forgotten(c, sl, cnt, bs, bnd, frs)
<1>1. Total(c, sl, cnt, bs, bnd, frs) + 1 <= 1
  <2>1. cnt[c] % High <= cnt[c]
    BY RestType DEF Counts
  <2>2. cnt[c] % High \in Nat
    BY RestType DEF Counts
  <2>3. Total(c, sl, cnt, bs, bnd, frs) \in Nat
    BY TotalType
  <2>4. Total(c, sl, cnt, bs, bnd, frs) + 1 <= cnt[c] % High
    BY DEF Books, Covered, Eq
  <2> QED BY <2>1, <2>2, <2>3, <2>4
<1>2. /\ Times(bs, c) = 0 /\ Times(bnd, c) = 0 /\ Times(Standing(sl, cnt, frs), c) = 0
      /\ In(c, Destroying(frs)) = 0 /\ In(c, Deleting(frs)) = 0
  <2>1. /\ Times(bs, c) \in Nat /\ Times(bnd, c) \in Nat /\ Times(Standing(sl, cnt, frs), c) \in Nat
        /\ In(c, Destroying(frs)) \in {0, 1} /\ In(c, Deleting(frs)) \in {0, 1}
    BY TotalType
  <2> QED BY <1>1, <2>1 DEF Total
<1>3. c \notin Destroying(frs) /\ c \notin Deleting(frs)
  BY <1>2 DEF In
<1>4. \A k \in DOMAIN bnd : bnd[k] # c
  <2>1. \A k \in DOMAIN bnd : bnd[k] = c => Times(bnd, c) >= 1
    BY TotalType
  <2> QED BY <1>2, <2>1
<1>5. ASSUME NEW i \in DOMAIN frs, frs[i].cell = c
      PROVE  FALSE
  <2>1. frs[i] \in Frame /\ frs[i].height \in Nat
    BY FramesType
  <2>2. frs[i].op \in Ops /\ frs[i].phase \in {"lisp", "slots"}
    BY <2>1 DEF Frame, Ops
  <2>3. frs[i].phase # "lisp"
    BY <1>3, <1>5 DEF Destroying
  <2>4. Number(frs[i], cnt) /\ Shape(frs[i], kd, gb)
    BY DEF Books, Stacked, Numbered, Shaped
  <2>5. ~frs[i].erred
    <3>1. frs[i].erred => bnd[frs[i].height + 1] = c /\ frs[i].height + 1 \in DOMAIN bnd
      <4>1. frs[i].erred => frs[i].height < Len(bnd) /\ bnd[frs[i].height + 1] = c
        BY <1>5 DEF Books, Stacked, Binds, Pending
      <4> QED BY <2>1, <4>1
    <3> QED BY <1>4, <3>1
  <2>6. High > 1
    BY HeapAssumption
  <2>7. frs[i].op = "purge" => cnt[c] = 0
    BY <1>5, <2>3, <2>4, <2>5 DEF Number
  <2>8. frs[i].op \in {"collect", "sweep"} => ~(cnt[c] < High)
    BY <1>5, <2>4 DEF Number
  <2>9. frs[i].op # "delete"
    BY <2>3, <2>4 DEF Shape
  <2> QED BY <2>2, <2>6, <2>7, <2>8, <2>9, HeapAssumption DEF Ops
<1>6. c \notin Dead(frs)
  BY <1>5 DEF Dead
<1> QED BY <1>2, <1>3, <1>6 DEF Forgotten

\* UNLOCK takes one from a count, and it was not that of a cell that purge
\* is at.
Lowers(cnt, c, frs) ==
  /\ Unlocked(cnt, c) \in Counts /\ cnt[c] # 0 /\ Unlocked(cnt, c)[c] = cnt[c] - 1
  /\ \A x \in Cell : x # c => Unlocked(cnt, c)[x] = cnt[x]
  /\ Unlocked(cnt, c)[c] % High = (cnt[c] % High) - 1
  /\ (Unlocked(cnt, c)[c] < High <=> cnt[c] < High)
  /\ \A i \in DOMAIN frs : frs[i].op = "purge" => frs[i].cell # c

\* UNLOCK of a reference that others outlast.
LEMMA ReleaseOne ==
  ASSUME NEW kd \in [Cell -> Kinds], NEW sl \in [Cell -> [Slot -> Ref]],
         NEW gb \in SUBSET Cell, NEW bs \in [Name -> Ref],
         NEW c \in Cell, NEW cnt \in Counts, NEW frs \in Seq(Frame), NEW bnd \in Seq(Cell),
         Books(kd, sl, cnt, gb, bs, bnd, frs, c)
  PROVE  Lowers(cnt, c, frs)
<1>0. PICK low : low = Unlocked(cnt, c)
  OBVIOUS
<1>1. cnt[c] \in 0..(Width - 1)
  BY DEF Counts
<1>2. /\ cnt[c] % High \in Nat /\ cnt[c] % High <= cnt[c] /\ cnt[c] \in Nat
      /\ Total(c, sl, cnt, bs, bnd, frs) + 1 <= cnt[c] % High
      /\ Total(c, sl, cnt, bs, bnd, frs) \in Nat
  <2>1. cnt[c] % High \in Nat /\ cnt[c] % High <= cnt[c] /\ cnt[c] \in Nat
    BY <1>1, RestType
  <2>2. Total(c, sl, cnt, bs, bnd, frs) + 1 <= cnt[c] % High
    BY DEF Books, Covered, Eq
  <2>3. Total(c, sl, cnt, bs, bnd, frs) \in Nat
    BY TotalType
  <2> QED BY <2>1, <2>2, <2>3
<1>3. /\ (cnt[c] - 1) % High = (cnt[c] % High) - 1 /\ (cnt[c] - 1 < High <=> cnt[c] < High)
      /\ cnt[c] - 1 \in 0..(Width - 1) /\ (cnt[c] + Width - 1) % Width = cnt[c] - 1
  BY <1>1, <1>2, RestMinus
<1>4. low = [cnt EXCEPT ![c] = cnt[c] - 1]
  <2>1. c # NIL
    BY HeapAssumption DEF Cell
  <2> QED BY <1>0, <1>3, <2>1 DEF Unlocked, Minus
<1>5. low \in Counts /\ low[c] = cnt[c] - 1
  BY <1>3, <1>4 DEF Counts
<1>6. ASSUME NEW i \in DOMAIN frs, frs[i].op = "purge", frs[i].cell = c
      PROVE  FALSE
  <2>1. frs[i] \in Frame /\ frs[i].height \in Nat
    BY FramesType
  <2>2. cnt[c] = IF frs[i].phase = "lisp" THEN 2 ELSE IF frs[i].erred THEN 1 ELSE 0
    BY <1>6 DEF Books, Numbered, Number
  <2>3. Pending(frs[i]) => Times(bnd, c) >= 1
    <3>1. Pending(frs[i]) => frs[i].height < Len(bnd) /\ bnd[frs[i].height + 1] = c
      BY <1>6 DEF Books, Stacked, Binds
    <3>2. \A k \in DOMAIN bnd : bnd[k] = c => Times(bnd, c) >= 1
      BY TotalType
    <3> QED BY <2>1, <3>1, <3>2
  <2>4. frs[i].phase = "lisp" => In(c, Destroying(frs)) = 1
    BY <1>6 DEF In, Destroying
  <2>5. /\ Times(bs, c) \in Nat /\ Times(bnd, c) \in Nat /\ Times(Standing(sl, cnt, frs), c) \in Nat
        /\ In(c, Destroying(frs)) \in {0, 1} /\ In(c, Deleting(frs)) \in {0, 1}
    BY TotalType
  <2>6. CASE frs[i].phase = "lisp"
    BY <1>2, <2>2, <2>3, <2>4, <2>5, <2>6 DEF Total, Pending
  <2>7. CASE frs[i].phase # "lisp" /\ frs[i].erred
    BY <1>2, <2>2, <2>3, <2>5, <2>7 DEF Total, Pending
  <2>8. CASE frs[i].phase # "lisp" /\ ~frs[i].erred
    BY <1>2, <2>2, <2>8
  <2> QED BY <2>6, <2>7, <2>8
<1>7. low[c] % High = (cnt[c] % High) - 1 /\ (low[c] < High <=> cnt[c] < High)
  BY <1>3, <1>5, Zenon
<1>8. cnt[c] # 0
  BY <1>2
<1>9. \A x \in Cell : x # c => low[x] = cnt[x]
  BY <1>4 DEF Counts
<1> QED BY <1>0, <1>5, <1>6, <1>7, <1>8, <1>9 DEF Lowers

\* UNLOCK of a cell that keeps other references.
LEMMA ReleaseKeeps1 ==
  ASSUME NEW kd \in [Cell -> Kinds], NEW sl \in [Cell -> [Slot -> Ref]],
         NEW gb \in SUBSET Cell, NEW bs \in [Name -> Ref],
         NEW c \in Cell, NEW cnt \in Counts, NEW frs \in Seq(Frame), NEW bnd \in Seq(Cell),
         Books(kd, sl, cnt, gb, bs, bnd, frs, c), NEW low, low = Unlocked(cnt, c), low[c] # 0
  PROVE  /\ Books(kd, sl, low, gb, bs, bnd, frs, NIL)
         /\ Balanced(sl, cnt, bs, bnd, frs, c) => Balanced(sl, low, bs, bnd, frs, NIL)
<1>0. Lowers(cnt, c, frs)
  BY ReleaseOne
<1>1. /\ low \in Counts /\ cnt[c] # 0 /\ low[c] = cnt[c] - 1
      /\ low[c] % High = (cnt[c] % High) - 1 /\ (low[c] < High <=> cnt[c] < High)
      /\ \A i \in DOMAIN frs : frs[i].op = "purge" => frs[i].cell # c
  BY <1>0 DEF Lowers
<1>2. \A x \in Cell : x # c => low[x] = cnt[x]
  BY <1>0 DEF Lowers
<1>3. Standing(sl, low, frs) = Standing(sl, cnt, frs)
  <2>1. \A x \in Cell : low[x] # 0 <=> cnt[x] # 0
    BY <1>1, <1>2
  <2>2. \A x \in Cell, s \in Slot : Counting(x, s, cnt, frs) <=> Counting(x, s, low, frs)
    BY <2>1 DEF Counting
  <2> QED BY <2>2, StandingSame
<1>4. \A x : Total(x, sl, low, bs, bnd, frs) = Total(x, sl, cnt, bs, bnd, frs)
  BY <1>3, Zenon DEF Total
<1>5. ASSUME NEW x \in Cell
      PROVE  /\ Total(x, sl, low, bs, bnd, frs) + Eq(x, NIL) <= low[x] % High
             /\ Balanced(sl, cnt, bs, bnd, frs, c) => Total(x, sl, low, bs, bnd, frs) + Eq(x, NIL) = low[x]
  <2>1. Eq(x, NIL) = 0
    BY HeapAssumption DEF Eq, Cell
  <2>2. /\ Total(x, sl, cnt, bs, bnd, frs) + Eq(x, c) <= cnt[x] % High
        /\ Balanced(sl, cnt, bs, bnd, frs, c) => Total(x, sl, cnt, bs, bnd, frs) + Eq(x, c) = cnt[x]
    BY DEF Books, Covered, Balanced
  <2>3. Total(x, sl, cnt, bs, bnd, frs) \in Nat /\ cnt[x] % High \in Nat /\ cnt[x] \in Nat
    <3>1. cnt[x] \in Nat
      BY DEF Counts
    <3> QED BY <3>1, TotalType, RestType
  <2>4. CASE x = c
    <3>1. low[x] = cnt[x] - 1 /\ low[x] % High = (cnt[x] % High) - 1 /\ Eq(x, c) = 1
      BY <1>1, <2>4 DEF Eq
    <3> QED BY <1>4, <2>1, <2>2, <2>3, <3>1
  <2>5. CASE x # c
    <3>1. low[x] = cnt[x] /\ Eq(x, c) = 0
      BY <1>2, <2>5 DEF Eq
    <3> QED BY <1>4, <2>1, <2>2, <2>3, <3>1
  <2> QED BY <2>4, <2>5
<1>6. Numbered(low, frs)
  <2>1. ASSUME NEW i \in DOMAIN frs
        PROVE  Number(frs[i], low)
    <3>1. Number(frs[i], cnt) /\ frs[i].cell \in Cell
      BY FramesType DEF Books, Numbered
    <3>2. frs[i].op = "purge" => low[frs[i].cell] = cnt[frs[i].cell]
      BY <1>1, <1>2, <3>1
    <3>3. low[frs[i].cell] < High <=> cnt[frs[i].cell] < High
      BY <1>1, <1>2, <3>1
    <3> QED BY <3>1, <3>2, <3>3 DEF Number
  <2> QED BY <2>1 DEF Numbered
<1>7. Unused(kd, sl, low, gb, frs) /\ ConsHigh(kd, low, gb)
  <2>1. Unused(kd, sl, cnt, gb, frs) /\ ConsHigh(kd, cnt, gb)
    BY DEF Books
  <2>2. \A x : x \in gb /\ kd[x] = "cons" => x \in Cell
    OBVIOUS
  <2>3. \A x \in Cell : cnt[x] = 0 => low[x] = 0
    BY <1>1, <1>2
  <2>4. \A x \in Cell : low[x] < High <=> cnt[x] < High
    BY <1>1, <1>2
  <2> QED BY <2>1, <2>2, <2>3, <2>4 DEF Unused, ConsHigh
<1> QED BY <1>5, <1>6, <1>7 DEF Books, Covered, Balanced

\* A death that begins, of a cell that does not die.
Begins(kd, gb, gb2, bn, bn2, fr, d) ==
  /\ d.cell \notin Dead(fr) /\ Shape(d, kd, gb2) /\ ~d.erred /\ gb \subseteq gb2
  /\ d.phase = "lisp" => d.height = Len(bn) /\ bn2 = Append(bn, d.cell)
  /\ d.phase # "lisp" => bn2 = bn

\* A death that begins keeps the stack in order.
LEMMA PushKeeps ==
  ASSUME NEW kd, NEW gb, NEW bn \in Seq(Cell), NEW fr \in Seq(Frame), Stacked(kd, gb, bn, fr),
         NEW d \in Frame, NEW gb2, NEW bn2, Begins(kd, gb, gb2, bn, bn2, fr, d)
  PROVE  Stacked(kd, gb2, bn2, Append(fr, d))
<1> DEFINE fr2 == Append(fr, d)
           n == Len(fr) + 1
<1>1. /\ DOMAIN fr = 1..Len(fr) /\ Len(fr) \in Nat /\ DOMAIN fr2 = 1..n
      /\ \A i \in 1..Len(fr) : fr2[i] = fr[i]
      /\ fr2[n] = d
  OBVIOUS
<1>2. \A i \in 1..n : i # n => i \in DOMAIN fr /\ fr2[i] = fr[i]
  BY <1>1
<1>3. /\ d.cell \notin Dead(fr) /\ Shape(d, kd, gb2) /\ ~d.erred /\ gb \subseteq gb2
      /\ d.cell \in Cell /\ d.height \in Nat
  BY DEF Begins, Frame
<1> HIDE DEF fr2, n
<1>4. \A i \in 1..n : i # n => fr2[i].cell # d.cell
  BY <1>2, <1>3 DEF Dead
<1>5. Apart(fr2)
  <2>1. ASSUME NEW i \in 1..n, NEW j \in 1..n, fr2[i].cell = fr2[j].cell
        PROVE  i = j
    <3>1. CASE i = n \/ j = n
      BY <1>1, <1>4, <2>1, <3>1
    <3>2. CASE i # n /\ j # n
      BY <1>2, <2>1, <3>2 DEF Stacked, Apart
    <3> QED BY <3>1, <3>2
  <2> QED BY <1>1, <2>1 DEF Apart
<1>6. Shaped(kd, gb2, fr2)
  <2>1. ASSUME NEW i \in 1..n
        PROVE  Shape(fr2[i], kd, gb2)
    <3>1. CASE i = n
      BY <1>1, <1>3, <3>1
    <3>2. CASE i # n
      <4>1. Shape(fr[i], kd, gb) /\ fr2[i] = fr[i]
        BY <1>2, <3>2 DEF Stacked, Shaped
      <4> QED BY <1>3, <4>1 DEF Shape
    <3> QED BY <3>1, <3>2
  <2> QED BY <1>1, <2>1 DEF Shaped
<1>7. Binds(bn2, fr2)
  <2>1. /\ Len(bn) \in Nat
        /\ \A k \in 1..Len(bn) : bn2[k] = bn[k]
        /\ Len(bn) <= Len(bn2) /\ Len(bn2) \in Nat
        /\ d.phase = "lisp" => Len(bn) < Len(bn2) /\ bn2[Len(bn) + 1] = d.cell
    <3>1. CASE d.phase = "lisp"
      BY <1>3, <3>1 DEF Begins
    <3>2. CASE d.phase # "lisp"
      BY <1>3, <3>2 DEF Begins
    <3> QED BY <3>1, <3>2
  <2>2. ASSUME NEW i \in 1..n, Pending(fr2[i])
        PROVE  /\ fr2[i].height < Len(bn2) /\ bn2[fr2[i].height + 1] = fr2[i].cell
               /\ \A j \in 1..(i - 1) : Pending(fr2[j]) => fr2[j].height < fr2[i].height
    <3>0. \A j \in 1..(i - 1) : j \in 1..n /\ j # n /\ j \in DOMAIN fr
      BY <1>1 DEF n
    <3>1. CASE i = n
      <4>1. d.phase = "lisp" /\ d.height = Len(bn)
        BY <1>1, <1>3, <2>2, <3>1 DEF Pending, Begins
      <4>2. \A j \in 1..(i - 1) : Pending(fr2[j]) => fr2[j].height < Len(bn)
        BY <1>2, <3>0 DEF Stacked, Binds
      <4> QED BY <1>1, <2>1, <3>1, <4>1, <4>2
    <3>2. CASE i # n
      <4>1. i \in DOMAIN fr /\ fr2[i] = fr[i] /\ Pending(fr[i]) /\ fr[i].height \in Nat
        BY <1>2, <2>2, <3>2, FramesType
      <4>2. /\ fr[i].height < Len(bn) /\ bn[fr[i].height + 1] = fr[i].cell
            /\ \A j \in 1..(i - 1) : Pending(fr[j]) => fr[j].height < fr[i].height
        BY <4>1 DEF Stacked, Binds
      <4>3. fr[i].height + 1 \in 1..Len(bn) /\ fr[i].height < Len(bn2)
        BY <2>1, <4>1, <4>2
      <4> QED BY <1>2, <2>1, <3>0, <4>1, <4>2, <4>3
    <3> QED BY <3>1, <3>2
  <2> QED BY <1>1, <2>2 DEF Binds
<1>8. ErrorsApart(fr2)
  <2>1. ASSUME NEW i \in 1..n, fr2[i].erred, NEW j \in 1..(i - 1)
        PROVE  Stoppable(fr2[j])
    <3>1. i # n /\ j \in 1..n /\ j # n
      BY <1>1, <1>3, <2>1 DEF n
    <3> QED BY <1>2, <2>1, <3>1 DEF Stacked, ErrorsApart
  <2> QED BY <1>1, <2>1 DEF ErrorsApart
<1> QED BY <1>5, <1>6, <1>7, <1>8 DEF Stacked, fr2

\* What a death becomes when the innermost ones are over: the same, or, if it
\* is now the innermost, the same at another place.
Goes(kd, gb, bn, fr, kd2, gb2, bn2, fr2, i) ==
  /\ fr2[i].cell = fr[i].cell /\ fr2[i].height = fr[i].height
  /\ Pending(fr2[i]) => Pending(fr[i]) /\ fr[i].height < Len(bn2)
                        /\ bn2[fr[i].height + 1] = bn[fr[i].height + 1]
  /\ \/ fr2[i] = fr[i] /\ kd2[fr[i].cell] = kd[fr[i].cell] /\ (fr[i].cell \in gb => fr[i].cell \in gb2)
     \/ /\ i = Len(fr2) /\ Shape(fr2[i], kd2, gb2)
        /\ fr2[i].erred => fr[i].erred \/ \A j \in 1..(i - 1) : Stoppable(fr[j]) /\ fr2[j] = fr[j]

\* So does what removes deaths from its end, or changes those it keeps
\* without moving them.
LEMMA CutKeeps ==
  ASSUME NEW kd, NEW gb, NEW bn \in Seq(Cell), NEW fr \in Seq(Frame), Stacked(kd, gb, bn, fr),
         NEW kd2, NEW gb2, NEW bn2, NEW fr2 \in Seq(Frame), Len(fr2) <= Len(fr),
         \A i \in 1..Len(fr2) : Goes(kd, gb, bn, fr, kd2, gb2, bn2, fr2, i)
  PROVE  Stacked(kd2, gb2, bn2, fr2)
<1>1. /\ DOMAIN fr = 1..Len(fr) /\ Len(fr) \in Nat /\ DOMAIN fr2 = 1..Len(fr2) /\ Len(fr2) \in Nat
      /\ \A i \in 1..Len(fr2) : i \in DOMAIN fr /\ fr[i] \in Frame /\ fr2[i] \in Frame
  OBVIOUS
<1>2. \A i \in 1..Len(fr2) : fr2[i].cell = fr[i].cell /\ fr2[i].height = fr[i].height
  BY DEF Goes
<1>3. Apart(fr2)
  BY <1>1, <1>2 DEF Stacked, Apart
<1>4. Shaped(kd2, gb2, fr2)
  <2>1. ASSUME NEW i \in 1..Len(fr2)
        PROVE  Shape(fr2[i], kd2, gb2)
    <3>1. CASE Shape(fr2[i], kd2, gb2)
      BY <3>1
    <3>2. CASE fr2[i] = fr[i] /\ kd2[fr[i].cell] = kd[fr[i].cell] /\ (fr[i].cell \in gb => fr[i].cell \in gb2)
      <4>1. Shape(fr[i], kd, gb)
        BY <1>1 DEF Stacked, Shaped
      <4> QED BY <3>2, <4>1 DEF Shape
    <3> QED BY <3>1, <3>2 DEF Goes
  <2> QED BY <1>1, <2>1 DEF Shaped
<1>5. Binds(bn2, fr2)
  <2>1. ASSUME NEW i \in 1..Len(fr2), Pending(fr2[i])
        PROVE  /\ fr2[i].height < Len(bn2) /\ bn2[fr2[i].height + 1] = fr2[i].cell
               /\ \A j \in 1..(i - 1) : Pending(fr2[j]) => fr2[j].height < fr2[i].height
    <3>1. Pending(fr[i]) /\ fr[i].height < Len(bn2) /\ bn2[fr[i].height + 1] = bn[fr[i].height + 1]
      BY <2>1 DEF Goes
    <3>2. bn[fr[i].height + 1] = fr[i].cell
          /\ \A j \in 1..(i - 1) : Pending(fr[j]) => fr[j].height < fr[i].height
      BY <1>1, <3>1 DEF Stacked, Binds
    <3>3. \A j \in 1..(i - 1) : j \in 1..Len(fr2) /\ (Pending(fr2[j]) => Pending(fr[j]))
      <4>1. ASSUME NEW j \in 1..(i - 1)
            PROVE  j \in 1..Len(fr2)
        BY <1>1
      <4> QED BY <4>1 DEF Goes
    <3> QED BY <1>2, <3>1, <3>2, <3>3
  <2> QED BY <1>1, <2>1 DEF Binds
<1>6. ErrorsApart(fr2)
  <2>1. ASSUME NEW i \in 1..Len(fr2), fr2[i].erred, NEW j \in 1..(i - 1)
        PROVE  Stoppable(fr2[j])
    <3>1. j \in 1..Len(fr2) /\ j # Len(fr2)
      <4>1. Len(fr2) \in Nat
        BY <1>1
      <4> QED BY <4>1
    <3>2. fr2[j] = fr[j]
      BY <3>1 DEF Goes
    <3>3. CASE fr[i].erred
      BY <1>1, <2>1, <3>2, <3>3 DEF Stacked, ErrorsApart
    <3>4. CASE ~fr[i].erred
      BY <2>1, <3>2, <3>4 DEF Goes
    <3> QED BY <3>3, <3>4
  <2> QED BY <1>1, <2>1 DEF ErrorsApart
<1> QED BY <1>3, <1>4, <1>5, <1>6 DEF Stacked

\* The places of a cell that begins to die stand as before.
LEMMA StandingPush ==
  ASSUME NEW sl, NEW cnt, NEW fr \in Seq(Frame), NEW d \in Frame, d.todo = 1, cnt[d.cell] # 0,
         NEW cnt2, \A x \in Cell : x # d.cell => (cnt2[x] # 0 <=> cnt[x] # 0)
  PROVE  Standing(sl, cnt2, Append(fr, d)) = Standing(sl, cnt, fr)
<1> DEFINE fr2 == Append(fr, d)
<1>1. /\ Dead(fr2) = Dead(fr) \cup {d.cell}
      /\ \A i \in DOMAIN fr2 : (i \in DOMAIN fr /\ fr2[i] = fr[i]) \/ fr2[i] = d
      /\ \A i \in DOMAIN fr : i \in DOMAIN fr2 /\ fr2[i] = fr[i]
  BY DeadAppend
<1> HIDE DEF fr2
<1>2. ASSUME NEW x \in Cell, NEW s \in Slot
      PROVE  LetGo(x, s, fr2) <=> LetGo(x, s, fr)
  <2>1. ~(s < 1)
    BY HeapAssumption DEF Slot
  <2> QED BY <1>1, <2>1 DEF LetGo
<1>3. ASSUME NEW x \in Cell, NEW s \in Slot
      PROVE  Counting(x, s, cnt, fr) <=> Counting(x, s, cnt2, fr2)
  <2>1. CASE x = d.cell
    BY <1>1, <1>2, <2>1 DEF Counting
  <2>2. CASE x # d.cell
    BY <1>1, <1>2, <2>2 DEF Counting
  <2> QED BY <2>1, <2>2
<1>4. Standing(sl, cnt2, fr2) = Standing(sl, cnt, fr)
  BY <1>3, StandingSame
<1> QED BY <1>4 DEF fr2

\* Counts that change for cells that no purge is at, and stay on their side
\* of High.
LEMMA NumberedKeeps ==
  ASSUME NEW cnt, NEW fr \in Seq(Frame), Numbered(cnt, fr), NEW cnt2,
         \A x \in Cell : cnt2[x] < High <=> cnt[x] < High,
         \A i \in DOMAIN fr : fr[i].op = "purge" => cnt2[fr[i].cell] = cnt[fr[i].cell]
  PROVE  Numbered(cnt2, fr)
<1>1. ASSUME NEW i \in DOMAIN fr
      PROVE  Number(fr[i], cnt2)
  <2>1. Number(fr[i], cnt) /\ fr[i].cell \in Cell
    BY FramesType DEF Numbered
  <2> QED BY <2>1 DEF Number
<1> QED BY <1>1 DEF Numbered

\* The counts of dying cells are right with the death that begins.
LEMMA NumberedPush ==
  ASSUME NEW cnt, NEW fr \in Seq(Frame), Numbered(cnt, fr), NEW d \in Frame, Number(d, cnt)
  PROVE  Numbered(cnt, Append(fr, d))
<1>1. \A i \in DOMAIN Append(fr, d) : (i \in DOMAIN fr /\ Append(fr, d)[i] = fr[i]) \/ Append(fr, d)[i] = d
  OBVIOUS
<1> QED BY <1>1 DEF Numbered

\* The counts change as what counts for the cells does.
Follows(sl, cnt, bs, bn, fr, o, sl2, cnt2, bs2, bn2, fr2, o2) ==
  \A x \in Cell : \E k \in Int :
    /\ Total(x, sl2, cnt2, bs2, bn2, fr2) + Eq(x, o2) = Total(x, sl, cnt, bs, bn, fr) + Eq(x, o) + k
    /\ cnt2[x] = cnt[x] + k /\ cnt2[x] % High = (cnt[x] % High) + k

\* Counts that follow their references stay no less than they, or equal.
LEMMA FollowsKeeps ==
  ASSUME NEW sl \in [Cell -> [Slot -> Ref]], NEW cnt \in Counts, NEW bs \in [Name -> Ref],
         NEW bn \in Seq(Cell), NEW fr, NEW o,
         NEW sl2 \in [Cell -> [Slot -> Ref]], NEW cnt2 \in Counts, NEW bs2 \in [Name -> Ref],
         NEW bn2 \in Seq(Cell), NEW fr2, NEW o2,
         Follows(sl, cnt, bs, bn, fr, o, sl2, cnt2, bs2, bn2, fr2, o2)
  PROVE  /\ Covered(sl, cnt, bs, bn, fr, o) => Covered(sl2, cnt2, bs2, bn2, fr2, o2)
         /\ Balanced(sl, cnt, bs, bn, fr, o) => Balanced(sl2, cnt2, bs2, bn2, fr2, o2)
<1>1. ASSUME NEW x \in Cell
      PROVE  /\ Total(x, sl, cnt, bs, bn, fr) \in Nat /\ Total(x, sl2, cnt2, bs2, bn2, fr2) \in Nat
             /\ cnt[x] \in Nat /\ cnt2[x] \in Nat /\ cnt[x] % High \in Nat /\ cnt2[x] % High \in Nat
             /\ Eq(x, o) \in Nat /\ Eq(x, o2) \in Nat
  <2>1. cnt[x] \in Nat /\ cnt2[x] \in Nat
    BY DEF Counts
  <2>2. Eq(x, o) \in Nat /\ Eq(x, o2) \in Nat
    BY DEF Eq
  <2>3. Total(x, sl, cnt, bs, bn, fr) \in Nat
    BY TotalType
  <2>4. Total(x, sl2, cnt2, bs2, bn2, fr2) \in Nat
    BY TotalType
  <2> QED BY <2>1, <2>2, <2>3, <2>4, RestType
<1>2. ASSUME NEW x \in Cell
      PROVE  \E k \in Int :
               /\ Total(x, sl2, cnt2, bs2, bn2, fr2) + Eq(x, o2) = Total(x, sl, cnt, bs, bn, fr) + Eq(x, o) + k
               /\ cnt2[x] = cnt[x] + k /\ cnt2[x] % High = (cnt[x] % High) + k
  BY DEF Follows
<1>3. ASSUME Covered(sl, cnt, bs, bn, fr, o), NEW x \in Cell
      PROVE  Total(x, sl2, cnt2, bs2, bn2, fr2) + Eq(x, o2) <= cnt2[x] % High
  <2>1. Total(x, sl, cnt, bs, bn, fr) + Eq(x, o) <= cnt[x] % High
    BY <1>3 DEF Covered
  <2> QED BY <1>1, <1>2, <2>1
<1>4. ASSUME Balanced(sl, cnt, bs, bn, fr, o), NEW x \in Cell
      PROVE  Total(x, sl2, cnt2, bs2, bn2, fr2) + Eq(x, o2) = cnt2[x]
  <2>1. Total(x, sl, cnt, bs, bn, fr) + Eq(x, o) = cnt[x]
    BY <1>4 DEF Balanced
  <2> QED BY <1>1, <1>2, <2>1
<1> QED BY <1>3, <1>4 DEF Covered, Balanced

\* The death of a cell with one reference left begins; d is what purge does
\* of it, cnt2 the counts, gb2 the flags and bn2 what is pushed then.
Purges(c, d, kd, gb, gb2, bn, bn2, cnt2) ==
  /\ d.op = "purge" /\ d.cell = c /\ d.todo = 1 /\ ~d.erred /\ d.height = Len(bn)
  /\ IF d.phase = "lisp"
     THEN /\ kd[c] = "object" /\ cnt2[c] = 2
          /\ gb2 = gb \cup {c} /\ bn2 = Append(bn, c)
     ELSE /\ cnt2[c] = 0 /\ gb2 = gb /\ bn2 = bn

\* The last UNLOCK of a cell, which purge() takes up, keeps the books.
LEMMA PurgeKeeps ==
  ASSUME NEW kd \in [Cell -> Kinds], NEW sl \in [Cell -> [Slot -> Ref]],
         NEW gb \in SUBSET Cell, NEW bs \in [Name -> Ref],
         NEW c \in Cell, NEW cnt \in Counts, NEW fr \in Seq(Frame), NEW bn \in Seq(Cell),
         Books(kd, sl, cnt, gb, bs, bn, fr, c), cnt[c] = 1,
         NEW d \in Frame, NEW gb2, NEW bn2 \in Seq(Cell), NEW cnt2 \in Counts,
         Purges(c, d, kd, gb, gb2, bn, bn2, cnt2),
         \A x \in Cell : x # c => cnt2[x] = cnt[x], High >= 4
  PROVE  /\ Books(kd, sl, cnt2, gb2, bs, bn2, Append(fr, d), NIL)
         /\ Balanced(sl, cnt, bs, bn, fr, c) => Balanced(sl, cnt2, bs, bn2, Append(fr, d), NIL)
<1> DEFINE fr2 == Append(fr, d)
<1>1. /\ c \notin Dead(fr) /\ c \notin Destroying(fr) /\ c \notin Deleting(fr)
      /\ Times(bs, c) = 0 /\ Times(bn, c) = 0 /\ Times(Standing(sl, cnt, fr), c) = 0
  <2>1. Forgotten(c, sl, cnt, bs, bn, fr)
    BY LastReference
  <2> QED BY <2>1 DEF Forgotten
<1>2. /\ Stacked(kd, gb, bn, fr) /\ Numbered(cnt, fr) /\ Unused(kd, sl, cnt, gb, fr)
      /\ ConsHigh(kd, cnt, gb) /\ Covered(sl, cnt, bs, bn, fr, c)
  BY DEF Books
<1>3. kd[c] # "free"
  BY <1>2 DEF Unused
<1>4. /\ d.op = "purge" /\ d.cell = c /\ d.todo = 1 /\ ~d.erred /\ d.height = Len(bn)
      /\ d.phase = "lisp" => kd[c] = "object" /\ cnt2[c] = 2
                             /\ gb2 = gb \cup {c} /\ bn2 = Append(bn, c)
      /\ d.phase # "lisp" => cnt2[c] = 0 /\ gb2 = gb /\ bn2 = bn
  BY DEF Purges
<1>5. High \in Nat /\ cnt2[c] < High /\ cnt[c] < High
  BY <1>4, HeapAssumption
<1>6. Stacked(kd, gb2, bn2, fr2)
  <2>1. d.cell \notin Dead(fr) /\ ~d.erred /\ gb \subseteq gb2
    BY <1>1, <1>4
  <2>2. Shape(d, kd, gb2)
    BY <1>3, <1>4 DEF Shape
  <2>3. Begins(kd, gb, gb2, bn, bn2, fr, d)
    BY <1>4, <2>1, <2>2 DEF Begins
  <2> QED BY <1>2, <2>3, PushKeeps
<1>7. Numbered(cnt2, fr2)
  <2>1. \A x \in Cell : cnt2[x] < High <=> cnt[x] < High
    BY <1>5
  <2>2. \A i \in DOMAIN fr : fr[i].op = "purge" => cnt2[fr[i].cell] = cnt[fr[i].cell]
    <3>1. \A i \in DOMAIN fr : fr[i].cell \in Cell /\ fr[i].cell # c
      BY <1>1, FramesType DEF Dead
    <3> QED BY <3>1
  <2>3. Numbered(cnt2, fr)
    BY <1>2, <2>1, <2>2, NumberedKeeps
  <2>4. Number(d, cnt2)
    BY <1>4 DEF Number
  <2> QED BY <2>3, <2>4, NumberedPush
<1>8. Unused(kd, sl, cnt2, gb2, fr2)
  <2>1. Dead(fr2) = Dead(fr) \cup {c} /\ (gb2 = gb \/ gb2 = gb \cup {c})
    BY <1>4, DeadAppend
  <2> HIDE DEF fr2
  <2> QED BY <1>2, <1>3, <2>1 DEF Unused
<1>9. ConsHigh(kd, cnt2, gb2)
  <2>1. ASSUME NEW x \in gb2, kd[x] = "cons"
        PROVE  ~(cnt2[x] < High)
    <3>1. x \in gb
      BY <1>4, <2>1
    <3>2. ~(cnt[x] < High) /\ x # c
      BY <1>2, <1>5, <2>1, <3>1 DEF ConsHigh
    <3> QED BY <3>1, <3>2
  <2> QED BY <2>1 DEF ConsHigh
<1>10. Follows(sl, cnt, bs, bn, fr, c, sl, cnt2, bs, bn2, fr2, NIL)
  <2>1. Standing(sl, cnt2, fr2) = Standing(sl, cnt, fr)
    <3>1. cnt[d.cell] # 0 /\ \A x \in Cell : x # d.cell => (cnt2[x] # 0 <=> cnt[x] # 0)
      BY <1>4
    <3> QED BY <1>4, <3>1, StandingPush
  <2>2. /\ Destroying(fr2) = Destroying(fr) \cup (IF d.phase = "lisp" THEN {c} ELSE {})
        /\ Deleting(fr2) = Deleting(fr)
    <3>1. /\ Destroying(fr2) = Destroying(fr) \cup (IF d.phase = "lisp" THEN {d.cell} ELSE {})
          /\ Deleting(fr2) = Deleting(fr) \cup (IF d.op = "delete" THEN {d.cell} ELSE {})
      BY DeadAppend
    <3> QED BY <1>4, <3>1
  <2> HIDE DEF fr2
  <2>3. ASSUME NEW x \in Cell
        PROVE  /\ Times(bs, x) \in Nat /\ Times(bn, x) \in Nat
               /\ Times(Standing(sl, cnt, fr), x) \in Nat
               /\ In(x, Destroying(fr)) \in Nat /\ In(x, Deleting(fr)) \in Nat
               /\ Eq(x, NIL) = 0 /\ cnt[x] \in Nat /\ cnt2[x] \in Nat
    <3>1. /\ Times(bs, x) \in Nat /\ Times(bn, x) \in Nat
          /\ Times(Standing(sl, cnt, fr), x) \in Nat
      BY TotalType
    <3>2. Eq(x, NIL) = 0
      BY HeapAssumption DEF Eq, Cell
    <3> QED BY <3>1, <3>2 DEF In, Counts
  <2>4. /\ Times(bn2, c) = IF d.phase = "lisp" THEN 1 ELSE 0
        /\ \A x \in Cell : x # c => Times(bn2, x) = Times(bn, x)
    <3>1. CASE d.phase = "lisp"
      <4>1. bn2 = Append(bn, c)
        BY <1>4, <3>1
      <4>2. \A x : Times(bn2, x) = Times(bn, x) + Eq(x, c)
        BY <4>1, TimesAppend
      <4>3. Times(bn2, c) = 1
        BY <1>1, <4>2 DEF Eq
      <4>4. \A x \in Cell : x # c => Times(bn2, x) = Times(bn, x)
        BY <2>3, <4>2 DEF Eq
      <4> QED BY <3>1, <4>3, <4>4
    <3>2. CASE d.phase # "lisp"
      BY <1>1, <1>4, <3>2
    <3> QED BY <3>1, <3>2
  <2>5. ASSUME NEW x \in Cell, x # c
        PROVE  /\ Total(x, sl, cnt2, bs, bn2, fr2) = Total(x, sl, cnt, bs, bn, fr)
               /\ Eq(x, c) = 0 /\ cnt2[x] = cnt[x]
    <3>1. In(x, Destroying(fr2)) = In(x, Destroying(fr)) /\ In(x, Deleting(fr2)) = In(x, Deleting(fr))
      BY <2>2, <2>5 DEF In
    <3>2. Eq(x, c) = 0 /\ cnt2[x] = cnt[x] /\ Times(bn2, x) = Times(bn, x)
      BY <2>4, <2>5 DEF Eq
    <3> QED BY <2>1, <3>1, <3>2, Zenon DEF Total
  <2>6. Total(c, sl, cnt2, bs, bn2, fr2) = cnt2[c] /\ Total(c, sl, cnt, bs, bn, fr) = 0 /\ Eq(c, c) = 1
    <3>1. /\ In(c, Destroying(fr2)) = IF d.phase = "lisp" THEN 1 ELSE 0
          /\ In(c, Deleting(fr2)) = 0 /\ In(c, Destroying(fr)) = 0 /\ In(c, Deleting(fr)) = 0
      BY <1>1, <2>2 DEF In
    <3>2. Total(c, sl, cnt, bs, bn, fr) = 0
      BY <1>1, <3>1 DEF Total
    <3>3. Total(c, sl, cnt2, bs, bn2, fr2) = IF d.phase = "lisp" THEN 2 ELSE 0
      BY <1>1, <2>1, <2>4, <3>1 DEF Total
    <3> QED BY <1>4, <3>2, <3>3 DEF Eq
  <2>7. cnt[c] % High = 1 /\ cnt2[c] % High = cnt2[c]
    BY <1>5, <2>3, RestType
  <2>8. ASSUME NEW x \in Cell
        PROVE  \E k \in Int :
                 /\ Total(x, sl, cnt2, bs, bn2, fr2) + Eq(x, NIL) = Total(x, sl, cnt, bs, bn, fr) + Eq(x, c) + k
                 /\ cnt2[x] = cnt[x] + k /\ cnt2[x] % High = (cnt[x] % High) + k
    <3>1. CASE x = c
      <4>0. cnt2[c] \in Nat
        BY <2>3
      <4>1. cnt2[c] - 1 \in Int /\ cnt2[c] = 1 + (cnt2[c] - 1)
        BY <4>0
      <4>2. Total(x, sl, cnt2, bs, bn2, fr2) + Eq(x, NIL) = cnt2[c]
            /\ Total(x, sl, cnt, bs, bn, fr) + Eq(x, c) = 1
        BY <2>3, <2>6, <3>1
      <4> QED BY <2>7, <3>1, <4>1, <4>2
    <3>2. CASE x # c
      <4>1. Total(x, sl, cnt, bs, bn, fr) \in Nat /\ cnt[x] % High \in Nat
        <5>1. Total(x, sl, cnt, bs, bn, fr) \in Nat
          BY TotalType
        <5> QED BY <2>3, <5>1, RestType
      <4>2. Total(x, sl, cnt2, bs, bn2, fr2) = Total(x, sl, cnt, bs, bn, fr)
            /\ Eq(x, c) = 0 /\ cnt2[x] = cnt[x] /\ Eq(x, NIL) = 0 /\ cnt[x] \in Nat
        BY <2>3, <2>5, <3>2
      <4>3. WITNESS 0 \in Int
      <4> QED BY <4>1, <4>2
    <3> QED BY <3>1, <3>2
  <2> QED BY <2>8 DEF Follows
<1>11. /\ Covered(sl, cnt2, bs, bn2, fr2, NIL)
       /\ Balanced(sl, cnt, bs, bn, fr, c) => Balanced(sl, cnt2, bs, bn2, fr2, NIL)
  BY <1>2, <1>10, FollowsKeeps
<1> QED BY <1>6, <1>7, <1>8, <1>9, <1>11 DEF Books

\* What UNLOCK may do: nothing but count, or begin the death of c.
Counts1(c, cnt, frs, bnd) ==
  /\ c \in Cell => Unlocked(cnt, c)[c] # 0
  /\ count' = Unlocked(cnt, c) /\ garbage' = garbage /\ bound' = bnd /\ frames' = frs

\* UNLOCK begins the death d of c.
Begun(c, cnt, frs, bnd, d) ==
  /\ c \in Cell /\ Unlocked(cnt, c)[c] = 0
  /\ d \in Frame /\ d.op = "purge" /\ d.cell = c /\ d.todo = 1 /\ ~d.erred /\ d.height = Len(bnd)
  /\ d.phase \in {"lisp", "slots"} /\ d.ops = 0
  /\ frames' = Append(frs, d)
  /\ IF d.phase = "lisp"
     THEN /\ kind[c] = "object" /\ count' = Plus(Unlocked(cnt, c), c, 2)
          /\ garbage' = garbage \cup {c} /\ bound' = Append(bnd, c)
     ELSE /\ kind[c] # "object" /\ count' = Unlocked(cnt, c)
          /\ garbage' = garbage /\ bound' = bnd

\* UNLOCK counts down, or it begins a death.
LEMMA ReleaseCases ==
  ASSUME NEW c \in Ref, NEW cnt, NEW frs, NEW bnd \in Seq(Cell), Release(c, cnt, frs, bnd)
  PROVE  Counts1(c, cnt, frs, bnd) \/ \E d : Begun(c, cnt, frs, bnd, d)
<1>1. NIL \notin Cell /\ (c \in Cell <=> c # NIL) /\ Len(bnd) \in Nat
  BY HeapAssumption DEF Cell, Ref
<1>2. CASE ~(c # NIL /\ Unlocked(cnt, c)[c] = 0)
  BY <1>1, <1>2 DEF Release, Counts1
<1>3. CASE c # NIL /\ Unlocked(cnt, c)[c] = 0 /\ kind[c] = "object"
  <2>1. PICK d : d = Death("purge", c, "lisp", FALSE, Len(bnd))
    OBVIOUS
  <2>2. d \in Frame
    BY <1>1, <1>3, <2>1, DeathType DEF Ops
  <2>3. /\ d.op = "purge" /\ d.cell = c /\ d.phase = "lisp" /\ d.todo = 1 /\ d.erred = FALSE
        /\ d.height = Len(bnd) /\ d.ops = 0
    BY <2>1 DEF Death
  <2>4. /\ frames' = Append(frs, d) /\ count' = Plus(Unlocked(cnt, c), c, 2)
        /\ garbage' = garbage \cup {c} /\ bound' = Append(bnd, c)
    BY <1>3, <2>1 DEF Release
  <2>5. Begun(c, cnt, frs, bnd, d)
    BY <1>1, <1>3, <2>2, <2>3, <2>4 DEF Begun
  <2> QED BY <2>5
<1>4. CASE c # NIL /\ Unlocked(cnt, c)[c] = 0 /\ kind[c] # "object"
  <2>1. PICK d : d = Death("purge", c, "slots", FALSE, Len(bnd))
    OBVIOUS
  <2>2. d \in Frame
    BY <1>1, <1>4, <2>1, DeathType DEF Ops
  <2>3. /\ d.op = "purge" /\ d.cell = c /\ d.phase = "slots" /\ d.todo = 1 /\ d.erred = FALSE
        /\ d.height = Len(bnd) /\ d.ops = 0
    BY <2>1 DEF Death
  <2>4. /\ frames' = Append(frs, d) /\ count' = Unlocked(cnt, c)
        /\ garbage' = garbage /\ bound' = bnd
    BY <1>4, <2>1 DEF Release
  <2>5. Begun(c, cnt, frs, bnd, d)
    BY <1>1, <1>4, <2>2, <2>3, <2>4 DEF Begun
  <2> QED BY <2>5
<1> QED BY <1>2, <1>3, <1>4

\* The count of an object whose destructor runs for its last reference.
LEMMA TwoFits ==
  ASSUME High >= 4
  PROVE  2 \in 0..(Width - 1) /\ (0 + 2) % Width = 2
<1>1. High \in Nat /\ Starts \in Nat \ {0}
  BY HeapAssumption
<1>2. Width \in Nat /\ Width >= High
  BY <1>1 DEF Width
<1> QED BY <1>1, <1>2

\* UNLOCK keeps the books.
LEMMA ReleaseKeeps ==
  ASSUME NEW kd \in [Cell -> Kinds], NEW sl \in [Cell -> [Slot -> Ref]], NEW bs \in [Name -> Ref],
         NEW c \in Ref, NEW cnt \in Counts, NEW frs \in Seq(Frame), NEW bnd \in Seq(Cell),
         garbage \subseteq Cell, Books(kd, sl, cnt, garbage, bs, bnd, frs, c),
         c # NIL => kd[c] = kind[c], High >= 4, Release(c, cnt, frs, bnd)
  PROVE  /\ Books(kd, sl, count', garbage', bs, bound', frames', NIL)
         /\ Balanced(sl, cnt, bs, bnd, frs, c) => Balanced(sl, count', bs, bound', frames', NIL)
<1>1. NIL \notin Cell /\ (c \in Cell <=> c # NIL)
  BY HeapAssumption DEF Cell, Ref
<1>2. CASE Counts1(c, cnt, frs, bnd)
  <2>1. /\ count' = Unlocked(cnt, c) /\ garbage' = garbage /\ bound' = bnd /\ frames' = frs
        /\ c \in Cell => Unlocked(cnt, c)[c] # 0
    BY <1>2 DEF Counts1
  <2>2. CASE c = NIL
    <3>1. count' = cnt
      BY <2>1, <2>2 DEF Unlocked
    <3> QED BY <2>1, <2>2, <3>1
  <2>3. CASE c # NIL
    <3>1. PICK low : low = Unlocked(cnt, c)
      OBVIOUS
    <3>2. c \in Cell /\ low[c] # 0
      BY <1>1, <2>1, <2>3, <3>1
    <3>3. /\ Books(kd, sl, low, garbage, bs, bnd, frs, NIL)
          /\ Balanced(sl, cnt, bs, bnd, frs, c) => Balanced(sl, low, bs, bnd, frs, NIL)
      BY <3>1, <3>2, ReleaseKeeps1
    <3> QED BY <2>1, <3>1, <3>3
  <2> QED BY <2>2, <2>3
<1>3. ASSUME NEW d, Begun(c, cnt, frs, bnd, d)
      PROVE  /\ Books(kd, sl, count', garbage', bs, bound', frames', NIL)
             /\ Balanced(sl, cnt, bs, bnd, frs, c) => Balanced(sl, count', bs, bound', frames', NIL)
  <2>1. PICK low : low = Unlocked(cnt, c)
    OBVIOUS
  <2>2. /\ c \in Cell /\ d \in Frame /\ low[c] = 0 /\ frames' = Append(frs, d)
        /\ d.op = "purge" /\ d.cell = c /\ d.todo = 1 /\ ~d.erred /\ d.height = Len(bnd)
        /\ d.phase = "lisp" => /\ kind[c] = "object" /\ count' = Plus(low, c, 2)
                               /\ garbage' = garbage \cup {c} /\ bound' = Append(bnd, c)
        /\ d.phase # "lisp" => count' = low /\ garbage' = garbage /\ bound' = bnd
    BY <1>3, <2>1 DEF Begun
  <2>3. Lowers(cnt, c, frs)
    BY <2>2, ReleaseOne
  <2>4. /\ low \in Counts /\ cnt[c] # 0 /\ low[c] = cnt[c] - 1
        /\ \A x \in Cell : x # c => low[x] = cnt[x]
    BY <2>1, <2>3 DEF Lowers
  <2>5. cnt[c] = 1
    BY <2>2, <2>4 DEF Counts
  <2>6. Plus(low, c, 2) \in Counts /\ Plus(low, c, 2)[c] = 2
        /\ \A x \in Cell : x # c => Plus(low, c, 2)[x] = low[x]
    <3>1. 2 \in 0..(Width - 1) /\ (0 + 2) % Width = 2
      BY TwoFits
    <3>3. Plus(low, c, 2) = [low EXCEPT ![c] = 2]
      BY <2>2, <3>1 DEF Plus
    <3> QED BY <2>2, <2>4, <3>1, <3>3 DEF Counts
  <2>7. bound' \in Seq(Cell) /\ count' \in Counts
    <3>1. Append(bnd, c) \in Seq(Cell)
      BY <2>2
    <3>2. (bound' = bnd \/ bound' = Append(bnd, c)) /\ (count' = low \/ count' = Plus(low, c, 2))
      BY <2>2
    <3>3. bound' \in Seq(Cell)
      BY <3>1, <3>2
    <3>4. count' \in Counts
      BY <2>4, <2>6, <3>2
    <3> QED BY <3>3, <3>4
  <2>8. \A x \in Cell : x # c => count'[x] = cnt[x]
    <3>1. count' = low \/ count' = Plus(low, c, 2)
      BY <2>2
    <3>2. CASE count' = low
      BY <2>4, <3>2
    <3>3. CASE count' = Plus(low, c, 2)
      BY <2>4, <2>6, <3>3
    <3> QED BY <3>1, <3>2, <3>3
  <2>9. d.phase = "lisp" => kd[c] = "object"
    BY <1>1, <2>2
  <2>10. Purges(c, d, kd, garbage, garbage', bnd, bound', count')
    BY <2>2, <2>6, <2>9 DEF Purges
  <2>11. PICK gb2, bn2, cnt2 : gb2 = garbage' /\ bn2 = bound' /\ cnt2 = count'
    OBVIOUS
  <2>12. /\ Books(kd, sl, cnt2, gb2, bs, bn2, Append(frs, d), NIL)
         /\ Balanced(sl, cnt, bs, bnd, frs, c) => Balanced(sl, cnt2, bs, bn2, Append(frs, d), NIL)
    <3>1. Purges(c, d, kd, garbage, gb2, bnd, bn2, cnt2)
      BY <2>10, <2>11
    <3>2. bn2 \in Seq(Cell) /\ cnt2 \in Counts /\ \A x \in Cell : x # c => cnt2[x] = cnt[x]
      BY <2>7, <2>8, <2>11
    <3>3. c \in Cell /\ d \in Frame
      BY <2>2
    <3> QED BY <2>5, <3>1, <3>2, <3>3, PurgeKeeps
  <2> QED BY <2>2, <2>11, <2>12
<1> QED BY <1>2, <1>3, ReleaseCases

--------------------
(* The books and the rest of the state.                                    *)

\* What a death that begins does to the rest.
LEMMA PushRest ==
  ASSUME NEW bn \in Seq(Cell), NEW fr \in Seq(Frame), NEW d \in Frame, ~d.erred, NEW bn2,
         d.phase = "lisp" => d.height = Len(bn) /\ bn2 = Append(bn, d.cell),
         d.phase # "lisp" => bn2 = bn
  PROVE  /\ Calm(Append(fr, d)) <=> Calm(fr)
         /\ Pushes(bn, fr) => Pushes(bn2, Append(fr, d))
<1> DEFINE fr2 == Append(fr, d)
           n == Len(fr) + 1
<1>1. /\ \A i \in DOMAIN fr2 : (i \in DOMAIN fr /\ fr2[i] = fr[i]) \/ fr2[i] = d
      /\ \A i \in DOMAIN fr : i \in DOMAIN fr2 /\ fr2[i] = fr[i]
      /\ n \in DOMAIN fr2 /\ fr2[n] = d
  OBVIOUS
<1> HIDE DEF fr2, n
<1>2. Calm(fr2) <=> Calm(fr)
  BY <1>1 DEF Calm
<1>3. ASSUME Pushes(bn, fr), NEW k \in DOMAIN bn2
      PROVE  \/ k = 1 /\ collector = "idle"
             \/ \E i \in DOMAIN fr2 : fr2[i].phase = "lisp" /\ fr2[i].height + 1 = k
  <2>1. CASE k \in DOMAIN bn
    BY <1>1, <1>3, <2>1 DEF Pushes
  <2>2. CASE k \notin DOMAIN bn
    <3>1. d.phase = "lisp" /\ k = Len(bn) + 1
      BY <1>3, <2>2
    <3> QED BY <1>1, <3>1
  <2> QED BY <2>1, <2>2
<1> QED BY <1>2, <1>3 DEF Pushes, fr2

\* UNLOCK keeps the ledger.
LEMMA ReleaseLedger ==
  ASSUME NEW kd \in [Cell -> Kinds], NEW sl \in [Cell -> [Slot -> Ref]], NEW bs \in [Name -> Ref],
         NEW c \in Ref, NEW cnt \in Counts, NEW frs \in Seq(Frame), NEW bnd \in Seq(Cell),
         garbage \subseteq Cell, Ledger(kd, sl, cnt, garbage, bs, bnd, frs, c),
         c # NIL => kd[c] = kind[c], High >= 4, Release(c, cnt, frs, bnd)
  PROVE  Ledger(kd, sl, count', garbage', bs, bound', frames', NIL)
<1>1. Books(kd, sl, cnt, garbage, bs, bnd, frs, c)
  BY DEF InOrder, Ledger
<1>2. /\ Books(kd, sl, count', garbage', bs, bound', frames', NIL)
      /\ Balanced(sl, cnt, bs, bnd, frs, c) => Balanced(sl, count', bs, bound', frames', NIL)
  BY <1>1, ReleaseKeeps
<1>3. NIL \notin Cell /\ (c \in Cell <=> c # NIL)
  BY HeapAssumption DEF Cell, Ref
<1>4. c \in Cell => Lowers(cnt, c, frs)
  BY <1>1, ReleaseOne
<1>5. CASE Counts1(c, cnt, frs, bnd)
  <2>1. count' = Unlocked(cnt, c) /\ garbage' = garbage /\ bound' = bnd /\ frames' = frs
    BY <1>5 DEF Counts1
  <2>2. \A x \in Cell : (count'[x] < High <=> cnt[x] < High) /\ (count'[x] # 0 => cnt[x] # 0)
    <3>1. CASE c = NIL
      BY <2>1, <3>1 DEF Unlocked
    <3>2. CASE c # NIL
      BY <1>3, <1>4, <2>1, <3>2 DEF Lowers
    <3> QED BY <3>1, <3>2
  <2>3. Low(cnt) => Low(count')
    BY <2>2 DEF Low
  <2>4. Flags(garbage, cnt, frs) => Flags(garbage', count', frames')
    BY <2>1, <2>2 DEF Flags
  <2> QED BY <1>2, <2>1, <2>3, <2>4 DEF InOrder, Ledger
<1>6. ASSUME NEW d, Begun(c, cnt, frs, bnd, d)
      PROVE  Ledger(kd, sl, count', garbage', bs, bound', frames', NIL)
  <2>1. PICK low : low = Unlocked(cnt, c)
    OBVIOUS
  <2>2. /\ c \in Cell /\ d \in Frame /\ low[c] = 0 /\ frames' = Append(frs, d)
        /\ d.cell = c /\ ~d.erred
        /\ d.phase = "lisp" => d.height = Len(bnd) /\ count' = Plus(low, c, 2)
                               /\ garbage' = garbage \cup {c} /\ bound' = Append(bnd, d.cell)
        /\ d.phase # "lisp" => count' = low /\ garbage' = garbage /\ bound' = bnd
    BY <1>6, <2>1 DEF Begun
  <2>3. /\ low \in Counts /\ cnt[c] # 0 /\ low[c] = cnt[c] - 1
        /\ \A x \in Cell : x # c => low[x] = cnt[x]
    BY <1>4, <2>1, <2>2 DEF Lowers
  <2>4. /\ Calm(frames') <=> Calm(frs)
        /\ Pushes(bnd, frs) => Pushes(bound', frames')
    <3>1. PICK bn2 : bn2 = bound'
      OBVIOUS
    <3>2. /\ Calm(Append(frs, d)) <=> Calm(frs)
          /\ Pushes(bnd, frs) => Pushes(bn2, Append(frs, d))
      BY <2>2, <3>1, PushRest
    <3> QED BY <2>2, <3>1, <3>2
  <2>5. \A x \in Cell : x # c => count'[x] = cnt[x]
    <3>1. \A x \in Cell : x # c => Plus(low, c, 2)[x] = low[x]
      BY <2>3 DEF Plus, Counts
    <3> QED BY <2>2, <2>3, <3>1
  <2>6. count'[c] < High
    <3>1. Plus(low, c, 2)[c] = 2
      BY <2>2, <2>3, TwoFits DEF Plus, Counts
    <3>2. 2 < High /\ 0 < High
      BY HeapAssumption
    <3> QED BY <2>2, <3>1, <3>2
  <2>7. Low(cnt) => Low(count')
    BY <2>5, <2>6 DEF Low
  <2>8. c \in Dead(frames') /\ Dead(frs) \subseteq Dead(frames')
    BY <2>2, DeadAppend
  <2>9. Flags(garbage, cnt, frs) => Flags(garbage', count', frames')
    <3>1. garbage' \subseteq garbage \cup {c}
      BY <2>2
    <3> QED BY <2>5, <2>8, <3>1 DEF Flags
  <2> QED BY <1>2, <2>4, <2>7, <2>9 DEF InOrder, Ledger
<1> QED BY <1>5, <1>6, ReleaseCases

\* Stacks that differ in nothing but how much the deaths have done.
Alike(fr, fr2) ==
  /\ DOMAIN fr2 = DOMAIN fr
  /\ \A i \in DOMAIN fr :
       /\ fr2[i].cell = fr[i].cell /\ fr2[i].op = fr[i].op /\ fr2[i].phase = fr[i].phase
       /\ fr2[i].todo = fr[i].todo /\ fr2[i].erred = fr[i].erred /\ fr2[i].height = fr[i].height

\* The same cells die, in the same places.
LEMMA AlikeDeaths ==
  ASSUME NEW fr, NEW fr2, Alike(fr, fr2)
  PROVE  /\ Dead(fr2) = Dead(fr) /\ Destroying(fr2) = Destroying(fr) /\ Deleting(fr2) = Deleting(fr)
         /\ \A sl, cnt : Standing(sl, cnt, fr2) = Standing(sl, cnt, fr)
<1>1. Dead(fr2) = Dead(fr)
  BY DEF Alike, Dead
<1>2. Destroying(fr2) = Destroying(fr)
  BY DEF Alike, Destroying
<1>3. Deleting(fr2) = Deleting(fr)
  BY DEF Alike, Deleting
<1>4. ASSUME NEW sl, NEW cnt
      PROVE  Standing(sl, cnt, fr2) = Standing(sl, cnt, fr)
  <2>1. \A c \in Cell, s \in Slot : LetGo(c, s, fr2) <=> LetGo(c, s, fr)
    BY DEF Alike, LetGo
  <2>2. \A c \in Cell, s \in Slot : Counting(c, s, cnt, fr) <=> Counting(c, s, cnt, fr2)
    BY <1>1, <2>1 DEF Counting
  <2> QED BY <2>2, StandingSame
<1> QED BY <1>1, <1>2, <1>3, <1>4

\* The ledger does not tell such stacks apart.
LEMMA AlikeLedger ==
  ASSUME NEW kd, NEW sl, NEW cnt, NEW gb, NEW bs, NEW bn, NEW fr \in Seq(Frame), NEW o,
         Ledger(kd, sl, cnt, gb, bs, bn, fr, o), NEW fr2, Alike(fr, fr2)
  PROVE  Ledger(kd, sl, cnt, gb, bs, bn, fr2, o)
<1>1. /\ Dead(fr2) = Dead(fr) /\ Destroying(fr2) = Destroying(fr) /\ Deleting(fr2) = Deleting(fr)
      /\ Standing(sl, cnt, fr2) = Standing(sl, cnt, fr)
  BY AlikeDeaths
<1>2. \A x : Total(x, sl, cnt, bs, bn, fr2) = Total(x, sl, cnt, bs, bn, fr)
  BY <1>1, Zenon DEF Total
<1>3. Books(kd, sl, cnt, gb, bs, bn, fr, o)
  BY DEF InOrder, Ledger
<1>4. Apart(fr2)
  BY <1>3 DEF Books, Stacked, Apart, Alike
<1>5. Shaped(kd, gb, fr2)
  <2>1. \A i \in DOMAIN fr : Shape(fr[i], kd, gb) => Shape(fr2[i], kd, gb)
    BY DEF Shape, Alike
  <2> QED BY <1>3, <2>1 DEF Books, Stacked, Shaped, Alike
<1>6. \A i \in DOMAIN fr : (Pending(fr2[i]) <=> Pending(fr[i])) /\ (Stoppable(fr2[i]) <=> Stoppable(fr[i]))
  BY DEF Alike, Pending, Stoppable
<1>7. Binds(bn, fr2)
  <2>1. ASSUME NEW i \in DOMAIN fr2, Pending(fr2[i])
        PROVE  /\ fr2[i].height < Len(bn) /\ bn[fr2[i].height + 1] = fr2[i].cell
               /\ \A j \in 1..(i - 1) : Pending(fr2[j]) => fr2[j].height < fr2[i].height
    <3>1. i \in DOMAIN fr /\ Pending(fr[i]) /\ fr2[i].height = fr[i].height /\ fr2[i].cell = fr[i].cell
      BY <1>6, <2>1 DEF Alike
    <3>2. /\ fr[i].height < Len(bn) /\ bn[fr[i].height + 1] = fr[i].cell
          /\ \A j \in 1..(i - 1) : Pending(fr[j]) => fr[j].height < fr[i].height
      BY <1>3, <3>1 DEF Books, Stacked, Binds
    <3>3. \A j \in 1..(i - 1) : j \in DOMAIN fr
      BY <3>1
    <3>4. \A j \in 1..(i - 1) : Pending(fr2[j]) => fr2[j].height < fr2[i].height
      BY <1>6, <3>1, <3>2, <3>3 DEF Alike
    <3> QED BY <3>1, <3>2, <3>4
  <2> QED BY <2>1 DEF Binds
<1>8. ErrorsApart(fr2)
  <2>1. ASSUME NEW i \in DOMAIN fr2, fr2[i].erred, NEW j \in 1..(i - 1)
        PROVE  Stoppable(fr2[j])
    <3>1. i \in DOMAIN fr /\ fr[i].erred
      BY <2>1 DEF Alike
    <3>2. j \in DOMAIN fr
      BY <3>1
    <3> QED BY <1>3, <1>6, <3>1, <3>2 DEF Books, Stacked, ErrorsApart
  <2> QED BY <2>1 DEF ErrorsApart
<1>9. Numbered(cnt, fr2)
  <2>1. \A i \in DOMAIN fr : Number(fr[i], cnt) => Number(fr2[i], cnt)
    BY DEF Number, Alike
  <2> QED BY <1>3, <2>1 DEF Books, Numbered, Alike
<1>10. Unused(kd, sl, cnt, gb, fr2) /\ ConsHigh(kd, cnt, gb)
  BY <1>1, <1>3 DEF Books, Unused
<1>11. Covered(sl, cnt, bs, bn, fr2, o)
       /\ (Balanced(sl, cnt, bs, bn, fr, o) => Balanced(sl, cnt, bs, bn, fr2, o))
  BY <1>2, <1>3 DEF Books, Covered, Balanced
<1>12. (Calm(fr2) <=> Calm(fr)) /\ (Pushes(bn, fr) => Pushes(bn, fr2))
       /\ (Flags(gb, cnt, fr) => Flags(gb, cnt, fr2))
  <2>1. Calm(fr2) <=> Calm(fr)
    BY DEF Calm, Alike
  <2>2. Pushes(bn, fr) => Pushes(bn, fr2)
    BY DEF Pushes, Alike
  <2> QED BY <1>1, <2>1, <2>2 DEF Flags
<1>13. Books(kd, sl, cnt, gb, bs, bn, fr2, o)
  BY <1>4, <1>5, <1>7, <1>8, <1>9, <1>10, <1>11 DEF Books, Stacked
<1> QED BY <1>11, <1>12, <1>13 DEF InOrder, Ledger

\* One more operation of a destructor.
LEMMA TickAlike ==
  ASSUME frames \in Seq(Frame)
  PROVE  Alike(frames, Tick)
<1>1. CASE frames = <<>>
  BY <1>1 DEF Tick, Alike
<1>2. CASE frames # <<>>
  <2>1. Len(frames) \in DOMAIN frames /\ \A i \in DOMAIN frames : frames[i] \in Frame
    BY <1>2
  <2>2. PICK d : d = [frames[Len(frames)] EXCEPT !.ops = @ + 1]
    OBVIOUS
  <2>3. Tick = [frames EXCEPT ![Len(frames)] = d]
    BY <1>2, <2>2 DEF Tick
  <2>4. LET f == frames[Len(frames)] IN
          /\ d.cell = f.cell /\ d.op = f.op /\ d.phase = f.phase
          /\ d.todo = f.todo /\ d.erred = f.erred /\ d.height = f.height
    BY <2>1, <2>2 DEF Frame
  <2> QED BY <2>1, <2>3, <2>4 DEF Alike
<1> QED BY <1>1, <1>2

\* The rest of the ledger, at another moment.
Rests(cnt, gb, bn, fr, cnt2, gb2, bn2, fr2) ==
  /\ \A x \in Cell : cnt2[x] < High <=> cnt[x] < High
  /\ Calm(fr2) <=> Calm(fr)
  /\ Pushes(bn, fr) => Pushes(bn2, fr2)
  /\ Flags(gb, cnt, fr) => Flags(gb2, cnt2, fr2)

\* The books at another moment.
LEMMA LedgerMoves ==
  ASSUME NEW kd, NEW gb, NEW o,
         NEW sl \in [Cell -> [Slot -> Ref]], NEW cnt \in Counts, NEW bs \in [Name -> Ref],
         NEW bn \in Seq(Cell), NEW fr, Ledger(kd, sl, cnt, gb, bs, bn, fr, o),
         NEW kd2, NEW gb2, NEW o2,
         NEW sl2 \in [Cell -> [Slot -> Ref]], NEW cnt2 \in Counts, NEW bs2 \in [Name -> Ref],
         NEW bn2 \in Seq(Cell), NEW fr2,
         Stacked(kd2, gb2, bn2, fr2), Numbered(cnt2, fr2), Unused(kd2, sl2, cnt2, gb2, fr2),
         ConsHigh(kd2, cnt2, gb2), Follows(sl, cnt, bs, bn, fr, o, sl2, cnt2, bs2, bn2, fr2, o2),
         Rests(cnt, gb, bn, fr, cnt2, gb2, bn2, fr2)
  PROVE  Ledger(kd2, sl2, cnt2, gb2, bs2, bn2, fr2, o2)
<1>1. /\ Covered(sl, cnt, bs, bn, fr, o) => Covered(sl2, cnt2, bs2, bn2, fr2, o2)
      /\ Balanced(sl, cnt, bs, bn, fr, o) => Balanced(sl2, cnt2, bs2, bn2, fr2, o2)
  BY FollowsKeeps
<1>2. Books(kd2, sl2, cnt2, gb2, bs2, bn2, fr2, o2)
  BY <1>1 DEF InOrder, Ledger, Books
<1>3. Low(cnt) => Low(cnt2)
  BY DEF Low, Rests
<1> QED BY <1>1, <1>2, <1>3 DEF InOrder, Ledger, Rests

\* LOCK while there is room.
Locks(cnt, c, cnt2) ==
  /\ cnt2 \in Counts
  /\ \A x \in Cell : /\ cnt2[x] = cnt[x] + Eq(x, c) /\ cnt2[x] % High = (cnt[x] % High) + Eq(x, c)
                     /\ cnt2[x] < High <=> cnt[x] < High

\* LOCK adds one to a count that has room.
LEMMA LockedIs ==
  ASSUME NEW c \in Ref, NEW cnt \in Counts, c # NIL => (cnt[c] % High) + 1 < High
  PROVE  Locks(cnt, c, Locked(cnt, c))
<1>1. NIL \notin Cell /\ (c \in Cell <=> c # NIL)
  BY HeapAssumption DEF Cell, Ref
<1>2. \A x \in Cell : cnt[x] \in 0..(Width - 1) /\ cnt[x] \in Nat /\ cnt[x] % High \in Nat
  <2>1. \A x \in Cell : cnt[x] \in 0..(Width - 1)
    BY DEF Counts
  <2> QED BY <2>1, RestType
<1>3. CASE c = NIL
  <2>1. Locked(cnt, c) = cnt /\ \A x \in Cell : Eq(x, c) = 0
    BY <1>1, <1>3 DEF Locked, Eq
  <2> QED BY <1>2, <2>1 DEF Locks
<1>4. CASE c # NIL
  <2>1. c \in Cell
    BY <1>1, <1>4
  <2>2. /\ (cnt[c] + 1) % High = (cnt[c] % High) + 1 /\ (cnt[c] + 1 < High <=> cnt[c] < High)
        /\ cnt[c] + 1 \in 0..(Width - 1) /\ (cnt[c] + 1) % Width = cnt[c] + 1
    BY <1>2, <1>4, <2>1, RestPlus
  <2>3. PICK v : v = cnt[c] + 1
    OBVIOUS
  <2>4. Locked(cnt, c) = [cnt EXCEPT ![c] = v]
    BY <1>4, <2>2, <2>3 DEF Locked, Plus
  <2>5. v \in 0..(Width - 1) /\ v = cnt[c] + 1 /\ v % High = (cnt[c] % High) + 1 /\ (v < High <=> cnt[c] < High)
    BY <2>2, <2>3
  <2>6. [cnt EXCEPT ![c] = v] \in Counts
    BY <2>5 DEF Counts
  <2>7. \A x \in Cell : [cnt EXCEPT ![c] = v][x] = IF x = c THEN v ELSE cnt[x]
    BY DEF Counts
  <2>8. ASSUME NEW x \in Cell
        PROVE  LET w == [cnt EXCEPT ![c] = v][x] IN
               /\ w = cnt[x] + Eq(x, c) /\ w % High = (cnt[x] % High) + Eq(x, c)
               /\ w < High <=> cnt[x] < High
    <3>1. CASE x = c
      <4>1. Eq(x, c) = 1
        BY <3>1 DEF Eq
      <4>2. [cnt EXCEPT ![c] = v][x] = v
        BY <2>7, <3>1
      <4> QED BY <2>5, <3>1, <4>1, <4>2
    <3>2. CASE x # c
      <4>1. Eq(x, c) = 0
        BY <3>2 DEF Eq
      <4>2. [cnt EXCEPT ![c] = v][x] = cnt[x]
        BY <2>7, <3>2
      <4> QED BY <1>2, <4>1, <4>2
    <3> QED BY <3>1, <3>2
  <2> QED BY <2>4, <2>6, <2>8 DEF Locks
<1> QED BY <1>3, <1>4

\* A reference to c comes where one to o was, or where none was.
Replaces(sl, cnt, bs, bn, fr, c, sl2, cnt2, bs2, bn2, o) ==
  \A x \in Cell :
    Times(bs2, x) + Times(bn2, x) + Times(Standing(sl2, cnt2, fr), x) + Eq(x, o)
    = Times(bs, x) + Times(bn, x) + Times(Standing(sl, cnt, fr), x) + Eq(x, c)

\* A reference that replaces another, with LOCK of the new: the old is to be
\* released.
LEMMA ReplacesFollows ==
  ASSUME NEW c, NEW o,
         NEW sl \in [Cell -> [Slot -> Ref]], NEW cnt \in Counts, NEW bs \in [Name -> Ref],
         NEW bn \in Seq(Cell), NEW fr,
         NEW sl2 \in [Cell -> [Slot -> Ref]], NEW cnt2 \in Counts, NEW bs2 \in [Name -> Ref],
         NEW bn2 \in Seq(Cell),
         Replaces(sl, cnt, bs, bn, fr, c, sl2, cnt2, bs2, bn2, o), Locks(cnt, c, cnt2)
  PROVE  Follows(sl, cnt, bs, bn, fr, NIL, sl2, cnt2, bs2, bn2, fr, o)
<1>1. ASSUME NEW x \in Cell
      PROVE  \E k \in Int :
               /\ Total(x, sl2, cnt2, bs2, bn2, fr) + Eq(x, o) = Total(x, sl, cnt, bs, bn, fr) + Eq(x, NIL) + k
               /\ cnt2[x] = cnt[x] + k /\ cnt2[x] % High = (cnt[x] % High) + k
  <2>1. /\ Times(bs, x) \in Nat /\ Times(bn, x) \in Nat /\ Times(Standing(sl, cnt, fr), x) \in Nat
        /\ In(x, Destroying(fr)) \in {0, 1} /\ In(x, Deleting(fr)) \in {0, 1}
    BY TotalType
  <2>2. /\ Times(bs2, x) \in Nat /\ Times(bn2, x) \in Nat /\ Times(Standing(sl2, cnt2, fr), x) \in Nat
    BY TotalType
  <2>3. Eq(x, NIL) = 0 /\ Eq(x, c) \in {0, 1} /\ Eq(x, o) \in {0, 1}
    BY HeapAssumption DEF Eq, Cell
  <2>4. Times(bs2, x) + Times(bn2, x) + Times(Standing(sl2, cnt2, fr), x) + Eq(x, o)
        = Times(bs, x) + Times(bn, x) + Times(Standing(sl, cnt, fr), x) + Eq(x, c)
    BY DEF Replaces
  <2>5. Total(x, sl2, cnt2, bs2, bn2, fr) + Eq(x, o) = Total(x, sl, cnt, bs, bn, fr) + Eq(x, NIL) + Eq(x, c)
    <3>1. PICK a, b, d, i, j, a2, b2, d2 :
            /\ a = Times(bs, x) /\ b = Times(bn, x) /\ d = Times(Standing(sl, cnt, fr), x)
            /\ i = In(x, Destroying(fr)) /\ j = In(x, Deleting(fr))
            /\ a2 = Times(bs2, x) /\ b2 = Times(bn2, x) /\ d2 = Times(Standing(sl2, cnt2, fr), x)
      OBVIOUS
    <3>2. PICK u, v : u = Eq(x, o) /\ v = Eq(x, c)
      OBVIOUS
    <3>3. /\ a \in Nat /\ b \in Nat /\ d \in Nat /\ a2 \in Nat /\ b2 \in Nat /\ d2 \in Nat
          /\ i \in Nat /\ j \in Nat /\ u \in Nat /\ v \in Nat /\ a2 + b2 + d2 + u = a + b + d + v
      <4>1. a2 + b2 + d2 + u = a + b + d + v
        BY <2>4, <3>1, <3>2, Zenon
      <4>2. a \in Nat /\ b \in Nat /\ d \in Nat /\ a2 \in Nat /\ b2 \in Nat /\ d2 \in Nat
        BY <2>1, <2>2, <3>1, Zenon
      <4>3. i \in {0, 1} /\ j \in {0, 1} /\ u \in {0, 1} /\ v \in {0, 1}
        BY <2>1, <2>3, <3>1, <3>2, Zenon
      <4>4. i \in Nat /\ j \in Nat /\ u \in Nat /\ v \in Nat
        BY <4>3
      <4> QED BY <4>1, <4>2, <4>4, Zenon
    <3>4. a2 + b2 + d2 + i + j + u = a + b + d + i + j + 0 + v
      BY <3>3
    <3>5. /\ Total(x, sl2, cnt2, bs2, bn2, fr) = a2 + b2 + d2 + i + j
          /\ Total(x, sl, cnt, bs, bn, fr) = a + b + d + i + j
      BY <3>1, Zenon DEF Total
    <3> QED BY <2>3, <3>2, <3>4, <3>5
  <2>6. cnt2[x] = cnt[x] + Eq(x, c) /\ cnt2[x] % High = (cnt[x] % High) + Eq(x, c)
    BY DEF Locks
  <2>7. Eq(x, c) \in Int
    BY <2>3
  <2> QED BY <2>5, <2>6, <2>7
<1> QED BY <1>1 DEF Follows

\* A cell that something counts for is in use.
LEMMA InUse ==
  ASSUME CoreInv, NEW x \in Cell,
         \/ \E n \in Name : base[n] = x
         \/ \E k \in DOMAIN bound : bound[k] = x
         \/ \E p \in Cell \X Slot : Standing(slot, count, frames)[p] = x
         \/ x \in Destroying(frames)
  PROVE  count[x] # 0 /\ kind[x] # "free" /\ count[x] % High >= 1
<1>0. /\ count \in Counts /\ slot \in [Cell -> [Slot -> Ref]] /\ base \in [Name -> Ref]
      /\ bound \in Seq(Cell) /\ kind \in [Cell -> Kinds]
  BY Parts DEF CoreInv, HeapInv, TypeOK
<1>1. /\ Times(base, x) \in Nat /\ Times(bound, x) \in Nat /\ Times(Standing(slot, count, frames), x) \in Nat
      /\ In(x, Destroying(frames)) \in {0, 1} /\ In(x, Deleting(frames)) \in {0, 1}
      /\ \A n \in Name : base[n] = x => Times(base, x) >= 1
      /\ \A k \in DOMAIN bound : bound[k] = x => Times(bound, x) >= 1
      /\ \A p \in Cell \X Slot : Standing(slot, count, frames)[p] = x => Times(Standing(slot, count, frames), x) >= 1
  BY <1>0, TotalType
<1>2. Total(x, slot, count, base, bound, frames) >= 1 /\ Total(x, slot, count, base, bound, frames) \in Nat
  <2>1. x \in Destroying(frames) => In(x, Destroying(frames)) = 1
    BY DEF In
  <2> QED BY <1>1, <2>1 DEF Total
<1>3. Total(x, slot, count, base, bound, frames) + Eq(x, NIL) <= count[x] % High
  BY DEF CoreInv, InOrder, Ledger, Books, Covered
<1>4. Eq(x, NIL) = 0 /\ count[x] \in Nat
  BY <1>0, HeapAssumption DEF Eq, Cell, Counts
<1>5. count[x] % High <= count[x] /\ count[x] % High \in Nat
  BY <1>4, RestType
<1>6. count[x] # 0 /\ count[x] % High >= 1
  BY <1>2, <1>3, <1>4, <1>5
<1> QED BY <1>6 DEF CoreInv, InOrder, Ledger, Books, Unused

\* What lisp gets at is in use, and does not let its slots go.
LEMMA VisibleInUse ==
  ASSUME CoreInv, NEW c \in Visible
  PROVE  /\ c \in Cell /\ count[c] # 0 /\ kind[c] # "free" /\ kind[c] \in {"object", "cons"}
         /\ \A i \in DOMAIN frames : frames[i].cell = c => frames[i].phase = "lisp"
<1>1. ASSUME NEW S, NEW x \in Live(S)
      PROVE  /\ x \in S /\ x \in Cell /\ kind[x] \in {"object", "cons"}
             /\ \A i \in DOMAIN frames : frames[i].cell = x => frames[i].phase = "lisp"
  BY DEF Live
<1>2. ASSUME NEW x \in Variables
      PROVE  count[x] # 0 /\ kind[x] # "free"
  <2>1. x \in Image(base) \cup Image(bound) /\ x \in Cell
    BY <1>1 DEF Variables
  <2>2. DOMAIN base = Name
    BY DEF CoreInv, HeapInv, TypeOK
  <2>3. (\E n \in Name : base[n] = x) \/ (\E k \in DOMAIN bound : bound[k] = x)
    BY <2>1, <2>2 DEF Image
  <2> QED BY <2>1, <2>3, InUse
<1>3. CASE c \in Variables
  BY <1>1, <1>2, <1>3 DEF Variables
<1>4. CASE c \notin Variables
  <2>1. c \in Live(UNION {Image(slot[x]) : x \in Variables})
    BY <1>4 DEF Visible
  <2>2. PICK x \in Variables : c \in Image(slot[x])
    BY <1>1, <2>1
  <2>3. x \in Cell /\ c \in Cell
    BY <1>1, <2>1, <2>2 DEF Variables
  <2>4. PICK s \in Slot : slot[x][s] = c
    BY <2>2, <2>3 DEF Image, CoreInv, HeapInv, TypeOK
  <2>5. Counting(x, s, count, frames)
    <3>1. \A i \in DOMAIN frames : frames[i].cell = x => frames[i].phase = "lisp"
      BY <1>1, <2>2 DEF Variables
    <3> QED BY <1>2, <3>1 DEF Counting, LetGo
  <2>6. <<x, s>> \in Cell \X Slot /\ Standing(slot, count, frames)[<<x, s>>] = c
    BY <2>3, <2>4, <2>5 DEF Standing
  <2>7. count[c] # 0 /\ kind[c] # "free"
    BY <2>3, <2>6, InUse
  <2> QED BY <1>1, <2>1, <2>7
<1> QED BY <1>3, <1>4

\* The places of variables count.
LEMMA VariablesCount ==
  ASSUME CoreInv, NEW c \in Variables, NEW s \in Slot
  PROVE  c \in Cell /\ Counting(c, s, count, frames)
<1>1. c \in Visible
  BY DEF Visible
<1>2. /\ c \in Cell /\ count[c] # 0
      /\ \A i \in DOMAIN frames : frames[i].cell = c => frames[i].phase = "lisp"
  BY <1>1, VisibleInUse
<1> QED BY <1>2 DEF Counting, LetGo

\* LOCK of a cell in use that no purge is at.
LEMMA LockLedger ==
  ASSUME NEW kd, NEW gb \in SUBSET Cell, NEW c \in Ref, NEW o,
         NEW sl \in [Cell -> [Slot -> Ref]], NEW cnt \in Counts, NEW bs \in [Name -> Ref],
         NEW bn \in Seq(Cell), NEW fr \in Seq(Frame), Ledger(kd, sl, cnt, gb, bs, bn, fr, NIL),
         NEW sl2 \in [Cell -> [Slot -> Ref]], NEW cnt2, NEW bs2 \in [Name -> Ref],
         NEW bn2 \in Seq(Cell), Locks(cnt, c, cnt2),
         c # NIL => cnt[c] # 0 /\ \A i \in DOMAIN fr : fr[i].op = "purge" => fr[i].cell # c,
         bn2 = bn \/ fr = <<>>, Pushes(bn, fr) => Pushes(bn2, fr),
         \A x \in Cell : kd[x] = "free" => sl2[x] = None,
         Replaces(sl, cnt, bs, bn, fr, c, sl2, cnt2, bs2, bn2, o)
  PROVE  Ledger(kd, sl2, cnt2, gb, bs2, bn2, fr, o)
<1>0. NIL \notin Cell
  BY HeapAssumption DEF Cell
<1>1. /\ Stacked(kd, gb, bn, fr) /\ Numbered(cnt, fr) /\ Unused(kd, sl, cnt, gb, fr) /\ ConsHigh(kd, cnt, gb)
  BY DEF InOrder, Ledger, Books
<1>2. /\ cnt2 \in Counts
      /\ \A x \in Cell : /\ cnt2[x] = cnt[x] + Eq(x, c)
                         /\ cnt2[x] < High <=> cnt[x] < High
  BY DEF Locks
<1>3. \A x \in Cell : x # c => cnt2[x] = cnt[x]
  <2>1. \A x \in Cell : cnt[x] \in Nat
    BY DEF Counts
  <2> QED BY <1>2, <2>1 DEF Eq
<1>4. Stacked(kd, gb, bn2, fr)
  <2>1. CASE bn2 = bn
    BY <1>1, <2>1
  <2>2. CASE fr = <<>>
    BY <2>2 DEF Stacked, Apart, Shaped, Binds, ErrorsApart
  <2> QED BY <2>1, <2>2
<1>5. Numbered(cnt2, fr)
  <2>1. \A i \in DOMAIN fr : fr[i].op = "purge" => cnt2[fr[i].cell] = cnt[fr[i].cell]
    <3>1. \A i \in DOMAIN fr : fr[i].cell \in Cell
      BY FramesType
    <3> QED BY <1>0, <1>3, <3>1
  <2> QED BY <1>1, <1>2, <2>1, NumberedKeeps
<1>6. Unused(kd, sl2, cnt2, gb, fr)
  <2>1. ASSUME NEW x \in Cell, kd[x] = "free"
        PROVE  cnt2[x] = 0 /\ sl2[x] = None /\ x \notin Dead(fr) /\ x \notin gb
    <3>1. cnt[x] = 0 /\ x \notin Dead(fr) /\ x \notin gb
      BY <1>1, <2>1 DEF Unused
    <3>2. x # c
      BY <1>0, <3>1
    <3> QED BY <1>3, <2>1, <3>1, <3>2
  <2> QED BY <2>1 DEF Unused
<1>7. ConsHigh(kd, cnt2, gb)
  BY <1>1, <1>2 DEF ConsHigh
<1>8. Follows(sl, cnt, bs, bn, fr, NIL, sl2, cnt2, bs2, bn2, fr, o)
  BY <1>2, ReplacesFollows
<1>9. Flags(gb, cnt, fr) => Flags(gb, cnt2, fr)
  <2>1. ASSUME NEW x \in gb, cnt2[x] # 0
        PROVE  cnt[x] # 0
    <3>1. CASE x = c
      BY <1>0, <3>1
    <3>2. CASE x # c
      BY <1>3, <2>1, <3>2
    <3> QED BY <3>1, <3>2
  <2> QED BY <1>2, <2>1 DEF Flags
<1>10. Rests(cnt, gb, bn, fr, cnt2, gb, bn2, fr)
  BY <1>2, <1>9 DEF Rests
<1> QED BY <1>2, <1>4, <1>5, <1>6, <1>7, <1>8, <1>10, LedgerMoves

\* LOCK of a cell in use changes no place.
Counted(c, cnt) == c \in Cell => cnt[c] # 0

\* LOCK of a cell in use brings no place into use.
LEMMA LockStanding ==
  ASSUME NEW c, NEW cnt \in Counts, NEW cnt2, Locks(cnt, c, cnt2), Counted(c, cnt), NEW sl, NEW fr
  PROVE  Standing(sl, cnt2, fr) = Standing(sl, cnt, fr)
<1>1. \A x \in Cell : cnt2[x] # 0 <=> cnt[x] # 0
  <2>1. \A x \in Cell : cnt2[x] = cnt[x] + Eq(x, c) /\ cnt[x] \in Nat
    BY DEF Locks, Counts
  <2> QED BY <2>1 DEF Eq, Counted
<1>2. \A x \in Cell, s \in Slot : Counting(x, s, cnt, fr) <=> Counting(x, s, cnt2, fr)
  BY <1>1 DEF Counting
<1> QED BY <1>2, StandingSame

\* The room that RoomLeft leaves in a count.
LEMMA Room ==
  ASSUME RoomLeft, count \in Counts, NEW c \in Cell
  PROVE  High >= 4 /\ (count[c] % High) + 4 <= High
<1>1. (count[c] % High) + 4 <= High /\ High \in Nat \ {0, 1}
  BY HeapAssumption DEF RoomLeft
<1>2. count[c] \in Nat
  BY DEF Counts
<1>3. count[c] % High \in Nat
  BY <1>2, RestType
<1> QED BY <1>1, <1>3

\* What is stored is NIL or in use, and no purge is at it.
LEMMA StorableIs ==
  ASSUME CoreInv, NEW S \in SUBSET Visible, NEW c \in Storable(S)
  PROVE  /\ c \in Ref
         /\ c # NIL => /\ c \in Cell /\ count[c] # 0
                       /\ \A i \in DOMAIN Tick : Tick[i].op = "purge" => Tick[i].cell # c
<1>1. CASE c = NIL
  BY <1>1 DEF Ref
<1>2. CASE c # NIL
  <2>1. c \in S /\ c \notin Dies({"purge"})
    BY <1>2 DEF Storable
  <2>2. c \in Visible
    BY <2>1
  <2>3. c \in Cell /\ count[c] # 0
    BY <2>2, VisibleInUse
  <2>4. \A i \in DOMAIN frames : frames[i].op = "purge" => frames[i].cell # c
    BY <2>1 DEF Dies
  <2>5. Alike(frames, Tick)
    BY TickAlike, Parts DEF CoreInv
  <2>6. \A i \in DOMAIN Tick : Tick[i].op = "purge" => Tick[i].cell # c
    BY <2>4, <2>5 DEF Alike
  <2> QED BY <2>3, <2>6 DEF Ref
<1> QED BY <1>1, <1>2

\* The state, with one more operation counted.
LEMMA TickLedger ==
  ASSUME CoreInv
  PROVE  /\ Ledger(kind, slot, count, garbage, base, bound, Tick, NIL)
         /\ CanRun => Tick \in Seq(Frame)
         /\ kind \in [Cell -> Kinds] /\ slot \in [Cell -> [Slot -> Ref]]
         /\ count \in Counts /\ base \in [Name -> Ref] /\ bound \in Seq(Cell) /\ Len(bound) \in Nat
         /\ garbage \subseteq Cell /\ frames \in Seq(Frame)
<1>1. /\ kind \in [Cell -> Kinds] /\ slot \in [Cell -> [Slot -> Ref]]
      /\ count \in Counts /\ base \in [Name -> Ref] /\ bound \in Seq(Cell) /\ Len(bound) \in Nat
      /\ garbage \subseteq Cell /\ frames \in Seq(Frame) /\ NestedIn(frames, Len(bound))
  BY Parts DEF CoreInv, HeapInv, TypeOK
<1>2. Alike(frames, Tick)
  BY <1>1, TickAlike
<1>3. InOrder
  BY DEF CoreInv
<1>4. Ledger(kind, slot, count, garbage, base, bound, Tick, NIL)
  BY <1>1, <1>2, <1>3, AlikeLedger DEF InOrder
<1>5. ASSUME CanRun
      PROVE  Tick \in Seq(Frame)
  <2>1. HeapInv
    BY DEF CoreInv
  <2> QED BY <1>5, <2>1, TickType
<1> QED BY <1>1, <1>4, <1>5

\* (setq n c) keeps the ledger.
LEMMA SetqLedger ==
  ASSUME CoreInv, RoomLeft, NEW n \in Name, NEW c \in Ref, Setq(n, c)
  PROVE  InOrder'
<1>0. /\ Ledger(kind, slot, count, garbage, base, bound, Tick, NIL)
      /\ kind \in [Cell -> Kinds] /\ slot \in [Cell -> [Slot -> Ref]]
      /\ count \in Counts /\ base \in [Name -> Ref] /\ bound \in Seq(Cell)
      /\ garbage \subseteq Cell /\ Tick \in Seq(Frame)
  BY TickLedger DEF Setq
<1>1. /\ c \in Storable(Visible) /\ c # base[n] /\ base' = [base EXCEPT ![n] = c]
      /\ Release(base[n], Locked(count, c), Tick, bound)
      /\ UNCHANGED <<kind, slot, collector, exact>>
  BY DEF Setq, passes, history
<1>2. /\ c # NIL => c \in Cell /\ count[c] # 0
                    /\ \A i \in DOMAIN Tick : Tick[i].op = "purge" => Tick[i].cell # c
  BY <1>1, StorableIs
<1>3. base[n] \in Ref /\ High >= 4 /\ (c # NIL => (count[c] % High) + 1 < High)
  <2>1. base[n] \in Ref
    BY <1>0
  <2>2. \A x \in Cell : High >= 4 /\ (count[x] % High) + 4 <= High
    BY <1>0, Room
  <2>3. c \in Cell \/ base[n] \in Cell
    BY <1>1, <2>1 DEF Ref
  <2>4. \A x \in Cell : count[x] % High \in Nat
    <3>1. \A x \in Cell : count[x] \in Nat
      BY <1>0 DEF Counts
    <3> QED BY <3>1, RestType
  <2> QED BY <1>2, <2>1, <2>2, <2>3, <2>4, HeapAssumption
<1>4. PICK cnt, bs, old : cnt = Locked(count, c) /\ bs = [base EXCEPT ![n] = c] /\ old = base[n]
  OBVIOUS
<1>5. Locks(count, c, cnt) /\ bs \in [Name -> Ref] /\ old \in Ref /\ cnt \in Counts
  <2>1. Locks(count, c, Locked(count, c))
    BY <1>0, <1>3, LockedIs
  <2> QED BY <1>0, <1>3, <1>4, <2>1 DEF Locks
<1>6. Replaces(slot, count, base, bound, Tick, c, slot, cnt, bs, bound, old)
  <2>1. Standing(slot, cnt, Tick) = Standing(slot, count, Tick)
    <3>1. Counted(c, count)
      BY <1>2, HeapAssumption DEF Cell, Counted
    <3> QED BY <1>0, <1>5, <3>1, LockStanding
  <2>2. ASSUME NEW x \in Cell
        PROVE  Times(bs, x) + Eq(x, old) = Times(base, x) + Eq(x, c)
    <3>1. Swaps(base, base[n], bs, c, x)
      BY <1>0, <1>4, HeapAssumption, TimesChange
    <3> QED BY <1>4, <3>1 DEF Swaps
  <2>3. ASSUME NEW x \in Cell
        PROVE  /\ Times(bs, x) \in Nat /\ Times(base, x) \in Nat /\ Times(bound, x) \in Nat
               /\ Times(Standing(slot, count, Tick), x) \in Nat /\ Eq(x, old) \in Nat /\ Eq(x, c) \in Nat
    <3>1. Times(base, x) \in Nat /\ Times(bound, x) \in Nat /\ Times(Standing(slot, count, Tick), x) \in Nat
      BY <1>0, TotalType
    <3>2. Times(bs, x) \in Nat
      BY <1>5, HeapAssumption, TimesType
    <3> QED BY <3>1, <3>2 DEF Eq
  <2>4. ASSUME NEW x \in Cell
        PROVE  Times(bs, x) + Times(bound, x) + Times(Standing(slot, cnt, Tick), x) + Eq(x, old)
               = Times(base, x) + Times(bound, x) + Times(Standing(slot, count, Tick), x) + Eq(x, c)
    BY <2>1, <2>2, <2>3
  <2> QED BY <2>4 DEF Replaces
<1>7. Ledger(kind, slot, cnt, garbage, bs, bound, Tick, old)
  <2>1. \A x \in Cell : kind[x] = "free" => slot[x] = None
    BY <1>0 DEF InOrder, Ledger, Books, Unused
  <2> QED BY <1>0, <1>2, <1>5, <1>6, <2>1, LockLedger
<1>8. Ledger(kind, slot, count', garbage', bs, bound', frames', NIL)
  <2>1. Release(old, cnt, Tick, bound)
    BY <1>1, <1>4
  <2> QED BY <1>0, <1>3, <1>5, <1>7, <2>1, ReleaseLedger
<1>9. kind' = kind /\ slot' = slot /\ base' = bs /\ collector' = collector /\ exact' = exact
  BY <1>1, <1>4
<1> QED BY <1>8, <1>9 DEF InOrder, Ledger, Pushes

\* A place that counts gets another value.
LEMMA PlaceChanges ==
  ASSUME NEW sl \in [Cell -> [Slot -> Ref]], NEW cnt, NEW fr, NEW c \in Cell, NEW s \in Slot,
         Counting(c, s, cnt, fr), NEW d \in Ref, NEW sl2, sl2 = [sl EXCEPT ![c][s] = d], NEW x
  PROVE  Swaps(Standing(sl, cnt, fr), sl[c][s], Standing(sl2, cnt, fr), d, x)
<1>1. PICK p, f, g : p = <<c, s>> /\ f = Standing(sl, cnt, fr) /\ g = Standing(sl2, cnt, fr)
  OBVIOUS
<1>2. f \in [Cell \X Slot -> Ref] /\ p \in Cell \X Slot /\ f[p] = sl[c][s]
  BY <1>1 DEF Standing, Ref
<1>3. sl2[c][s] = d /\ \A a \in Cell, b \in Slot : <<a, b>> # <<c, s>> => sl2[a][b] = sl[a][b]
  OBVIOUS
<1>4. \A q \in Cell \X Slot : q[1] \in Cell /\ q[2] \in Slot /\ q = <<q[1], q[2]>>
  OBVIOUS
<1>5. \A q \in Cell \X Slot : g[q] = IF q = p THEN d ELSE f[q]
  <2>1. \A q \in Cell \X Slot : q # p => sl2[q[1]][q[2]] = sl[q[1]][q[2]]
    BY <1>1, <1>3, <1>4
  <2>2. g[p] = d
    BY <1>1, <1>2, <1>3 DEF Standing
  <2>3. \A q \in Cell \X Slot : q # p => g[q] = f[q]
    BY <1>1, <2>1 DEF Standing
  <2> QED BY <2>2, <2>3
<1>6. g = [f EXCEPT ![p] = d]
  <2>1. DOMAIN g = Cell \X Slot /\ g = [q \in Cell \X Slot |-> g[q]]
    BY <1>1 DEF Standing
  <2> QED BY <1>2, <1>5, <2>1
<1>7. IsFiniteSet(Cell \X Slot)
  BY PlacesFinite
<1>8. Swaps(f, f[p], g, d, x)
  BY <1>2, <1>6, <1>7, TimesChange
<1> QED BY <1>1, <1>2, <1>8

\* (setq :c:s d) does.
LEMMA SetslotLedger ==
  ASSUME CoreInv, RoomLeft, NEW c \in Cell, NEW s \in Slot, NEW d \in Ref, Setslot(c, s, d)
  PROVE  InOrder'
<1>0. /\ Ledger(kind, slot, count, garbage, base, bound, Tick, NIL)
      /\ kind \in [Cell -> Kinds] /\ slot \in [Cell -> [Slot -> Ref]]
      /\ count \in Counts /\ base \in [Name -> Ref] /\ bound \in Seq(Cell)
      /\ garbage \subseteq Cell /\ Tick \in Seq(Frame) /\ frames \in Seq(Frame)
  BY TickLedger DEF Setslot
<1>1. /\ c \in Variables /\ d \in Storable(Variables) /\ slot' = [slot EXCEPT ![c][s] = d]
      /\ Release(slot[c][s], Locked(count, d), Tick, bound)
      /\ UNCHANGED <<kind, base, collector, exact>>
  BY DEF Setslot, passes, history
<1>2. /\ d # NIL => d \in Cell /\ count[d] # 0
                    /\ \A i \in DOMAIN Tick : Tick[i].op = "purge" => Tick[i].cell # d
      /\ kind[c] # "free" /\ Counting(c, s, count, frames)
  <2>1. Variables \in SUBSET Visible
    BY DEF Visible
  <2>2. c \in Visible
    BY <1>1, <2>1
  <2> QED BY <1>1, <2>1, <2>2, StorableIs, VisibleInUse, VariablesCount
<1>3. High >= 4 /\ (d # NIL => (count[d] % High) + 1 < High)
  <2>1. \A x \in Cell : High >= 4 /\ (count[x] % High) + 4 <= High
    BY <1>0, Room
  <2>2. \A x \in Cell : count[x] % High \in Nat
    <3>1. \A x \in Cell : count[x] \in Nat
      BY <1>0 DEF Counts
    <3> QED BY <3>1, RestType
  <2> QED BY <1>2, <2>1, <2>2, HeapAssumption
<1>4. PICK cnt, sl, old : cnt = Locked(count, d) /\ sl = [slot EXCEPT ![c][s] = d] /\ old = slot[c][s]
  OBVIOUS
<1>5. Locks(count, d, cnt) /\ sl \in [Cell -> [Slot -> Ref]] /\ old \in Ref /\ cnt \in Counts
  <2>1. Locks(count, d, Locked(count, d))
    BY <1>0, <1>3, LockedIs
  <2> QED BY <1>0, <1>3, <1>4, <2>1 DEF Locks
<1>6. Replaces(slot, count, base, bound, Tick, d, sl, cnt, base, bound, old)
  <2>1. Standing(sl, cnt, Tick) = Standing(sl, count, Tick)
    <3>1. Counted(d, count)
      BY <1>2, HeapAssumption DEF Cell, Counted
    <3> QED BY <1>0, <1>5, <3>1, LockStanding
  <2>2. Standing(sl, count, Tick) = Standing(sl, count, frames)
        /\ Standing(slot, count, Tick) = Standing(slot, count, frames)
    <3>1. Alike(frames, Tick)
      BY <1>0, TickAlike
    <3> QED BY <3>1, AlikeDeaths
  <2>3. ASSUME NEW x \in Cell
        PROVE  Swaps(Standing(slot, count, frames), old, Standing(sl, count, frames), d, x)
    <3>1. Swaps(Standing(slot, count, frames), slot[c][s], Standing(sl, count, frames), d, x)
      BY <1>0, <1>2, <1>4, PlaceChanges
    <3> QED BY <1>4, <3>1
  <2>4. ASSUME NEW x \in Cell
        PROVE  /\ Times(base, x) \in Nat /\ Times(bound, x) \in Nat
               /\ Times(Standing(slot, count, frames), x) \in Nat
               /\ Times(Standing(sl, count, frames), x) \in Nat /\ Eq(x, old) \in Nat /\ Eq(x, d) \in Nat
    <3>1. Times(base, x) \in Nat /\ Times(bound, x) \in Nat /\ Times(Standing(slot, count, frames), x) \in Nat
      BY <1>0, TotalType
    <3>2. Times(Standing(sl, count, frames), x) \in Nat
      BY <1>0, <1>5, TotalType
    <3> QED BY <3>1, <3>2 DEF Eq
  <2>5. ASSUME NEW x \in Cell
        PROVE  Times(base, x) + Times(bound, x) + Times(Standing(sl, cnt, Tick), x) + Eq(x, old)
               = Times(base, x) + Times(bound, x) + Times(Standing(slot, count, Tick), x) + Eq(x, d)
    BY <2>1, <2>2, <2>3, <2>4 DEF Swaps
  <2> QED BY <2>5 DEF Replaces
<1>7. Ledger(kind, sl, cnt, garbage, base, bound, Tick, old)
  <2>1. \A x \in Cell : kind[x] = "free" => slot[x] = None
    BY <1>0 DEF InOrder, Ledger, Books, Unused
  <2>2. \A x \in Cell : kind[x] = "free" => sl[x] = None
    BY <1>0, <1>2, <1>4, <2>1
  <2> QED BY <1>0, <1>2, <1>5, <1>6, <2>2, LockLedger
<1>8. Ledger(kind, sl, count', garbage', base, bound', frames', NIL)
  <2>1. Release(old, cnt, Tick, bound)
    BY <1>1, <1>4
  <2> QED BY <1>0, <1>3, <1>5, <1>7, <2>1, ReleaseLedger
<1>9. kind' = kind /\ slot' = sl /\ base' = base /\ collector' = collector /\ exact' = exact
  BY <1>1, <1>4
<1> QED BY <1>8, <1>9 DEF InOrder, Ledger, Pushes

\* A cell of the free list becomes something, with one reference.
LEMMA MakeLocks ==
  ASSUME NEW cnt \in Counts, NEW c \in Cell, cnt[c] = 0, High >= 4
  PROVE  Locks(cnt, c, [cnt EXCEPT ![c] = 1])
<1>1. PICK low : low = [cnt EXCEPT ![c] = 1]
  OBVIOUS
<1>2. 1 \in 0..(Width - 1)
  BY WidthTwo
<1>3. low \in Counts /\ low[c] = 1 /\ \A x \in Cell : x # c => low[x] = cnt[x]
  BY <1>1, <1>2 DEF Counts
<1>4. \A x \in Cell : cnt[x] \in Nat /\ cnt[x] % High \in Nat
  <2>1. \A x \in Cell : cnt[x] \in Nat
    BY DEF Counts
  <2> QED BY <2>1, RestType
<1>5. High \in Nat /\ 1 % High = 1 /\ 0 % High = 0
  <2>1. High \in Nat
    BY HeapAssumption
  <2> QED BY <2>1, RestType
<1>6. ASSUME NEW x \in Cell
      PROVE  /\ low[x] = cnt[x] + Eq(x, c) /\ low[x] % High = (cnt[x] % High) + Eq(x, c)
             /\ low[x] < High <=> cnt[x] < High
  <2>1. CASE x = c
    <3>1. Eq(x, c) = 1 /\ low[x] = 1 /\ cnt[x] = 0
      BY <1>3, <2>1 DEF Eq
    <3>2. low[x] % High = 1 /\ cnt[x] % High = 0
      BY <1>5, <3>1
    <3> QED BY <1>5, <3>1, <3>2
  <2>2. CASE x # c
    <3>1. Eq(x, c) = 0 /\ low[x] = cnt[x]
      BY <1>3, <2>2 DEF Eq
    <3> QED BY <1>4, <3>1
  <2> QED BY <2>1, <2>2
<1> QED BY <1>1, <1>3, <1>6 DEF Locks

\* A cell that does not die is something else.
LEMMA OthersStacked ==
  ASSUME NEW kd, NEW gb, NEW bn \in Seq(Cell), NEW fr \in Seq(Frame), Stacked(kd, gb, bn, fr),
         NEW kd2, NEW gb2, \A x \in Dead(fr) : kd2[x] = kd[x] /\ (x \in gb => x \in gb2)
  PROVE  Stacked(kd2, gb2, bn, fr)
<1>1. \A i \in DOMAIN fr : fr[i].cell \in Dead(fr)
  BY DEF Dead
<1>2. Shaped(kd2, gb2, fr)
  <2>1. ASSUME NEW i \in DOMAIN fr
        PROVE  Shape(fr[i], kd2, gb2)
    <3>1. Shape(fr[i], kd, gb) /\ fr[i].cell \in Dead(fr)
      BY <1>1 DEF Stacked, Shaped
    <3> QED BY <3>1 DEF Shape
  <2> QED BY <2>1 DEF Shaped
<1> QED BY <1>2 DEF Stacked

\* A new object or cons does, in a cell that nothing refers to.
LEMMA MakeLedger ==
  ASSUME CoreInv, RoomLeft, NEW n \in Name, NEW c \in Cell, NEW k \in {"object", "cons"}, Make(n, c, k)
  PROVE  InOrder'
<1>0. /\ Ledger(kind, slot, count, garbage, base, bound, Tick, NIL)
      /\ kind \in [Cell -> Kinds] /\ slot \in [Cell -> [Slot -> Ref]]
      /\ count \in Counts /\ base \in [Name -> Ref] /\ bound \in Seq(Cell)
      /\ garbage \subseteq Cell /\ Tick \in Seq(Frame)
  BY TickLedger DEF Make
<1>1. /\ kind[c] = "free" /\ kind' = [kind EXCEPT ![c] = k] /\ base' = [base EXCEPT ![n] = c]
      /\ Release(base[n], [count EXCEPT ![c] = 1], Tick, bound)
      /\ UNCHANGED <<slot, collector, exact>>
  BY DEF Make, passes, history
<1>2. PICK kd, cnt, bs, old : /\ kd = [kind EXCEPT ![c] = k] /\ cnt = [count EXCEPT ![c] = 1]
                              /\ bs = [base EXCEPT ![n] = c] /\ old = base[n]
  OBVIOUS
<1>3. /\ Stacked(kind, garbage, bound, Tick) /\ Numbered(count, Tick)
      /\ Unused(kind, slot, count, garbage, Tick) /\ ConsHigh(kind, count, garbage)
  BY <1>0 DEF InOrder, Ledger, Books
<1>4. count[c] = 0 /\ slot[c] = None /\ c \notin Dead(Tick) /\ c \notin garbage /\ NIL \notin Cell
  BY <1>1, <1>3, HeapAssumption DEF Unused, Cell
<1>5. High >= 4
  BY <1>0, Room
<1>6. old \in Ref /\ old # c
  <2>1. base[n] \in Ref
    BY <1>0
  <2>2. base[n] # c
    BY <1>1, InUse
  <2> QED BY <1>2, <2>1, <2>2
<1>7. /\ Locks(count, c, cnt) /\ bs \in [Name -> Ref] /\ cnt \in Counts /\ kd \in [Cell -> Kinds]
      /\ kd[c] # "free" /\ (\A x \in Cell : x # c => kd[x] = kind[x])
  <2>1. Locks(count, c, cnt)
    BY <1>0, <1>2, <1>4, <1>5, MakeLocks
  <2>2. k \in Kinds /\ k # "free"
    BY DEF Kinds
  <2> QED BY <1>0, <1>2, <2>1, <2>2 DEF Locks, Ref
<1>8. \A x \in Cell : x # c => cnt[x] = count[x]
  BY <1>0, <1>2 DEF Counts
<1>9. Standing(slot, cnt, Tick) = Standing(slot, count, Tick)
  <2>1. ASSUME NEW x \in Cell, NEW s \in Slot, x # c
        PROVE  Counting(x, s, cnt, Tick) <=> Counting(x, s, count, Tick)
    BY <1>8, <2>1 DEF Counting
  <2>2. \A s \in Slot : slot[c][s] = NIL
    BY <1>4 DEF None
  <2>3. \A p \in Cell \X Slot : p[1] \in Cell /\ p[2] \in Slot
    OBVIOUS
  <2>4. \A p \in Cell \X Slot :
          (IF Counting(p[1], p[2], cnt, Tick) THEN slot[p[1]][p[2]] ELSE NIL)
          = (IF Counting(p[1], p[2], count, Tick) THEN slot[p[1]][p[2]] ELSE NIL)
    BY <2>1, <2>2, <2>3
  <2> QED BY <2>4, Zenon DEF Standing
<1>10. Replaces(slot, count, base, bound, Tick, c, slot, cnt, bs, bound, old)
  <2>1. ASSUME NEW x \in Cell
        PROVE  Swaps(base, old, bs, c, x)
    <3>1. Swaps(base, base[n], bs, c, x)
      BY <1>0, <1>2, HeapAssumption, TimesChange
    <3> QED BY <1>2, <3>1
  <2>2. ASSUME NEW x \in Cell
        PROVE  /\ Times(bs, x) \in Nat /\ Times(base, x) \in Nat /\ Times(bound, x) \in Nat
               /\ Times(Standing(slot, count, Tick), x) \in Nat /\ Eq(x, old) \in Nat /\ Eq(x, c) \in Nat
    <3>1. Times(base, x) \in Nat /\ Times(bound, x) \in Nat /\ Times(Standing(slot, count, Tick), x) \in Nat
      BY <1>0, TotalType
    <3>2. Times(bs, x) \in Nat
      BY <1>7, HeapAssumption, TimesType
    <3> QED BY <3>1, <3>2 DEF Eq
  <2>3. ASSUME NEW x \in Cell
        PROVE  Times(bs, x) + Times(bound, x) + Times(Standing(slot, cnt, Tick), x) + Eq(x, old)
               = Times(base, x) + Times(bound, x) + Times(Standing(slot, count, Tick), x) + Eq(x, c)
    BY <1>9, <2>1, <2>2 DEF Swaps
  <2> QED BY <2>3 DEF Replaces
<1>11. Follows(slot, count, base, bound, Tick, NIL, slot, cnt, bs, bound, Tick, old)
  BY <1>0, <1>7, <1>10, ReplacesFollows
<1>12. Stacked(kd, garbage, bound, Tick)
  <2>1. \A x \in Dead(Tick) : kd[x] = kind[x] /\ (x \in garbage => x \in garbage)
    <3>1. \A i \in DOMAIN Tick : Tick[i].cell \in Cell
      BY <1>0, FramesType
    <3> QED BY <1>4, <1>7, <3>1 DEF Dead
  <2> QED BY <1>0, <1>3, <2>1, OthersStacked
<1>13. \A x \in Cell : cnt[x] < High <=> count[x] < High
  BY <1>7 DEF Locks
<1>14. Numbered(cnt, Tick)
  <2>1. \A i \in DOMAIN Tick : Tick[i].op = "purge" => cnt[Tick[i].cell] = count[Tick[i].cell]
    <3>1. \A i \in DOMAIN Tick : Tick[i].cell \in Cell
      BY <1>0, FramesType
    <3> QED BY <1>4, <1>8, <3>1 DEF Dead
  <2> QED BY <1>0, <1>3, <1>13, <2>1, NumberedKeeps
<1>15. Unused(kd, slot, cnt, garbage, Tick)
  BY <1>3, <1>7, <1>8 DEF Unused
<1>16. ConsHigh(kd, cnt, garbage)
  <2>1. \A x \in garbage : x \in Cell /\ x # c
    BY <1>0, <1>4
  <2> QED BY <1>3, <1>7, <1>8, <2>1 DEF ConsHigh
<1>17. Flags(garbage, count, Tick) => Flags(garbage, cnt, Tick)
  <2>1. \A x \in garbage : x \in Cell /\ x # c
    BY <1>0, <1>4
  <2> QED BY <1>8, <2>1 DEF Flags
<1>18. Ledger(kd, slot, cnt, garbage, bs, bound, Tick, old)
  <2>1. Rests(count, garbage, bound, Tick, cnt, garbage, bound, Tick)
    BY <1>13, <1>17 DEF Rests
  <2> QED BY <1>0, <1>7, <1>11, <1>12, <1>14, <1>15, <1>16, <2>1, LedgerMoves
<1>19. Ledger(kd, slot, count', garbage', bs, bound', frames', NIL)
  <2>1. Release(old, cnt, Tick, bound)
    BY <1>1, <1>2
  <2>2. old # NIL => kd[old] = kind[old]
    BY <1>6, <1>7 DEF Ref
  <2> QED BY <1>0, <1>5, <1>6, <1>7, <1>18, <2>1, <2>2, ReleaseLedger
<1>20. kind' = kd /\ slot' = slot /\ base' = bs /\ collector' = collector /\ exact' = exact
  BY <1>1, <1>2
<1> QED BY <1>19, <1>20 DEF InOrder, Ledger, Pushes

\* What (delete c) and the collector add to the count of an object when its
\* destructor begins.
Own(d) == IF d.op = "delete" THEN 3 ELSE 2
Starting(d, kd, cnt, bn, fr) ==
  /\ d.cell \notin Dead(fr) /\ cnt[d.cell] # 0 /\ kd[d.cell] = "object"
  /\ d.op \in {"delete", "collect"} /\ d.phase = "lisp" /\ d.todo = 1 /\ ~d.erred /\ d.height = Len(bn)
  /\ (cnt[d.cell] % High) + 3 < High
  /\ d.op = "collect" => ~(cnt[d.cell] < High)

\* Counts of which one is raised by m.
Raises(cnt, c, m, cnt2) ==
  /\ cnt2 \in Counts /\ cnt2[c] = cnt[c] + m /\ cnt2[c] % High = (cnt[c] % High) + m
  /\ cnt2[c] < High <=> cnt[c] < High
  /\ \A x \in Cell : x # c => cnt2[x] = cnt[x]

\* What a destructor that begins adds to a count, while there is room.
LEMMA PlusRaises ==
  ASSUME NEW cnt \in Counts, NEW c \in Cell, NEW m \in Nat, (cnt[c] % High) + m < High
  PROVE  Raises(cnt, c, m, Plus(cnt, c, m))
<1>1. cnt[c] \in 0..(Width - 1)
  BY DEF Counts
<1>2. /\ (cnt[c] + m) % High = (cnt[c] % High) + m /\ (cnt[c] + m < High <=> cnt[c] < High)
      /\ cnt[c] + m \in 0..(Width - 1) /\ (cnt[c] + m) % Width = cnt[c] + m
  BY <1>1, RestPlus
<1>3. PICK v : v = cnt[c] + m
  OBVIOUS
<1>4. Plus(cnt, c, m) = [cnt EXCEPT ![c] = v]
  BY <1>2, <1>3 DEF Plus
<1>5. v \in 0..(Width - 1) /\ v % High = (cnt[c] % High) + m /\ (v < High <=> cnt[c] < High)
  BY <1>2, <1>3
<1>6. /\ [cnt EXCEPT ![c] = v] \in Counts /\ [cnt EXCEPT ![c] = v][c] = v
      /\ \A x \in Cell : x # c => [cnt EXCEPT ![c] = v][x] = cnt[x]
  BY <1>5 DEF Counts
<1> QED BY <1>3, <1>4, <1>5, <1>6 DEF Raises

\* What d adds to the state.
Grows(d, gb, bn, fr, gb2, bn2, fr2) ==
  gb2 = gb \cup {d.cell} /\ bn2 = Append(bn, d.cell) /\ fr2 = Append(fr, d)

\* A destructor that begins otherwise than by a last UNLOCK.
LEMMA StartLedger ==
  ASSUME NEW kd \in [Cell -> Kinds], NEW sl \in [Cell -> [Slot -> Ref]], NEW gb \in SUBSET Cell,
         NEW cnt \in Counts, NEW bs \in [Name -> Ref], NEW bn \in Seq(Cell), NEW fr \in Seq(Frame),
         Ledger(kd, sl, cnt, gb, bs, bn, fr, NIL),
         NEW d \in Frame, Starting(d, kd, cnt, bn, fr),
         NEW cnt2, Raises(cnt, d.cell, Own(d), cnt2), NEW gb2, NEW bn2, NEW fr2,
         Grows(d, gb, bn, fr, gb2, bn2, fr2)
  PROVE  Ledger(kd, sl, cnt2, gb2, bs, bn2, fr2, NIL)
<1>0. gb2 = gb \cup {d.cell} /\ bn2 = Append(bn, d.cell) /\ fr2 = Append(fr, d)
  BY DEF Grows
<1>1. PICK c, m : c = d.cell /\ m = Own(d)
  OBVIOUS
<1>2. c \in Cell /\ NIL \notin Cell /\ bn2 \in Seq(Cell) /\ cnt2 \in Counts
  <2>1. d.cell \in Cell
    BY DEF Frame
  <2>2. bn2 \in Seq(Cell)
    BY <1>0, <2>1
  <2> QED BY <1>1, <2>1, <2>2, HeapAssumption DEF Cell, Raises
<1>3. /\ c \notin Dead(fr) /\ cnt[c] # 0 /\ kd[c] = "object"
      /\ d.op \in {"delete", "collect"} /\ d.phase = "lisp" /\ d.todo = 1 /\ ~d.erred /\ d.height = Len(bn)
      /\ d.op = "collect" => ~(cnt[c] < High)
  BY <1>1 DEF Starting
<1>4. /\ Stacked(kd, gb, bn, fr) /\ Numbered(cnt, fr)
      /\ Unused(kd, sl, cnt, gb, fr) /\ ConsHigh(kd, cnt, gb)
  BY DEF InOrder, Ledger, Books
<1>5. /\ cnt2 \in Counts /\ cnt2[c] = cnt[c] + m /\ cnt2[c] % High = (cnt[c] % High) + m
      /\ cnt2[c] < High <=> cnt[c] < High
      /\ \A x \in Cell : x # c => cnt2[x] = cnt[x]
  BY <1>1 DEF Raises
<1>6. \A x \in Cell : cnt2[x] < High <=> cnt[x] < High
  BY <1>5
<1>7. /\ Dead(fr2) = Dead(fr) \cup {c} /\ Destroying(fr2) = Destroying(fr) \cup {c}
      /\ Deleting(fr2) = Deleting(fr) \cup (IF d.op = "delete" THEN {c} ELSE {})
  <2>1. /\ Dead(fr2) = Dead(fr) \cup {d.cell}
        /\ Destroying(fr2) = Destroying(fr) \cup (IF d.phase = "lisp" THEN {d.cell} ELSE {})
        /\ Deleting(fr2) = Deleting(fr) \cup (IF d.op = "delete" THEN {d.cell} ELSE {})
    BY <1>0, DeadAppend
  <2> QED BY <1>1, <1>3, <2>1
<1>8. Stacked(kd, gb2, bn2, fr2)
  <2>1. Shape(d, kd, gb2)
    BY <1>0, <1>1, <1>3 DEF Shape
  <2>2. Begins(kd, gb, gb2, bn, bn2, fr, d)
    BY <1>0, <1>1, <1>3, <2>1 DEF Begins
  <2> QED BY <1>0, <1>4, <2>2, PushKeeps
<1>9. Numbered(cnt2, fr2)
  <2>1. \A i \in DOMAIN fr : fr[i].op = "purge" => cnt2[fr[i].cell] = cnt[fr[i].cell]
    <3>1. \A i \in DOMAIN fr : fr[i].cell \in Cell
      BY FramesType
    <3> QED BY <1>3, <1>5, <3>1 DEF Dead
  <2>2. Numbered(cnt2, fr)
    BY <1>4, <1>6, <2>1, NumberedKeeps
  <2>3. Number(d, cnt2)
    BY <1>1, <1>3, <1>5 DEF Number
  <2> QED BY <1>0, <2>2, <2>3, NumberedPush
<1>10. Unused(kd, sl, cnt2, gb2, fr2)
  <2>1. ASSUME NEW x \in Cell, kd[x] = "free"
        PROVE  cnt2[x] = 0 /\ sl[x] = None /\ x \notin Dead(fr2) /\ x \notin gb2
    <3>1. x # c /\ cnt[x] = 0 /\ sl[x] = None /\ x \notin Dead(fr) /\ x \notin gb
      BY <1>3, <1>4, <2>1 DEF Unused
    <3> QED BY <1>0, <1>1, <1>5, <1>7, <3>1
  <2> QED BY <2>1 DEF Unused
<1>11. ConsHigh(kd, cnt2, gb2)
  <2>1. ASSUME NEW x \in gb2, kd[x] = "cons"
        PROVE  ~(cnt2[x] < High)
    <3>1. x \in gb /\ x \in Cell
      BY <1>0, <1>1, <1>3, <2>1
    <3> QED BY <1>4, <1>6, <2>1, <3>1 DEF ConsHigh
  <2> QED BY <2>1 DEF ConsHigh
<1>12. Follows(sl, cnt, bs, bn, fr, NIL, sl, cnt2, bs, bn2, fr2, NIL)
  <2>1. Standing(sl, cnt2, fr2) = Standing(sl, cnt, fr)
    <3>1. cnt[d.cell] # 0 /\ \A x \in Cell : x # d.cell => (cnt2[x] # 0 <=> cnt[x] # 0)
      BY <1>1, <1>3, <1>5
    <3> QED BY <1>0, <1>3, <3>1, StandingPush
  <2>2. ASSUME NEW x \in Cell
        PROVE  /\ Times(bs, x) \in Nat /\ Times(bn, x) \in Nat /\ Times(bn2, x) \in Nat
               /\ Times(Standing(sl, cnt, fr), x) \in Nat
               /\ In(x, Destroying(fr)) \in Nat /\ In(x, Deleting(fr)) \in Nat
               /\ Eq(x, NIL) = 0 /\ cnt[x] \in Nat /\ cnt[x] % High \in Nat
    <3>1. /\ Times(bs, x) \in Nat /\ Times(bn, x) \in Nat
          /\ Times(Standing(sl, cnt, fr), x) \in Nat
      BY TotalType
    <3>2. Times(bn2, x) \in Nat
      BY <1>2, TotalType
    <3>3. cnt[x] \in Nat /\ Eq(x, NIL) = 0
      BY <1>2 DEF Eq, Counts
    <3> QED BY <3>1, <3>2, <3>3, RestType DEF In
  <2>3. ASSUME NEW x \in Cell
        PROVE  Times(bn2, x) = Times(bn, x) + Eq(x, c)
    BY <1>0, <1>1, <1>2, TimesAppend
  <2>4. ASSUME NEW x \in Cell, x # c
        PROVE  Total(x, sl, cnt2, bs, bn2, fr2) = Total(x, sl, cnt, bs, bn, fr)
    <3>1. In(x, Destroying(fr2)) = In(x, Destroying(fr)) /\ In(x, Deleting(fr2)) = In(x, Deleting(fr))
      BY <1>7, <2>4 DEF In
    <3>2. Times(bn2, x) = Times(bn, x)
      BY <2>2, <2>3, <2>4 DEF Eq
    <3> QED BY <2>1, <3>1, <3>2, Zenon DEF Total
  <2>5. Total(c, sl, cnt2, bs, bn2, fr2) = Total(c, sl, cnt, bs, bn, fr) + m
    <3>1. c \notin Destroying(fr) /\ c \notin Deleting(fr)
      BY <1>3 DEF Dead, Destroying, Deleting
    <3>2. /\ In(c, Destroying(fr)) = 0 /\ In(c, Deleting(fr)) = 0 /\ In(c, Destroying(fr2)) = 1
          /\ In(c, Deleting(fr2)) \in Nat /\ m = In(c, Deleting(fr2)) + 2
      BY <1>1, <1>7, <3>1 DEF In, Own
    <3>3. Times(bn2, c) = Times(bn, c) + 1
      BY <1>2, <2>3 DEF Eq
    <3>4. /\ Total(c, sl, cnt, bs, bn, fr) = Times(bs, c) + Times(bn, c) + Times(Standing(sl, cnt, fr), c)
          /\ Total(c, sl, cnt2, bs, bn2, fr2)
             = Times(bs, c) + Times(bn2, c) + Times(Standing(sl, cnt, fr), c) + 1 + In(c, Deleting(fr2))
      BY <1>2, <2>1, <2>2, <3>2 DEF Total
    <3>5. Times(bs, c) \in Nat /\ Times(bn, c) \in Nat /\ Times(Standing(sl, cnt, fr), c) \in Nat
      BY <1>2, <2>2
    <3> QED BY <3>2, <3>3, <3>4, <3>5
  <2>6. ASSUME NEW x \in Cell
        PROVE  \E k \in Int :
                 /\ Total(x, sl, cnt2, bs, bn2, fr2) + Eq(x, NIL) = Total(x, sl, cnt, bs, bn, fr) + Eq(x, NIL) + k
                 /\ cnt2[x] = cnt[x] + k /\ cnt2[x] % High = (cnt[x] % High) + k
    <3>1. Total(x, sl, cnt, bs, bn, fr) \in Nat
      BY TotalType
    <3>2. CASE x = c
      <4>1. m \in Int
        BY <1>1 DEF Own
      <4> QED BY <1>2, <1>5, <2>2, <2>5, <3>1, <3>2, <4>1
    <3>3. CASE x # c
      <4>1. Total(x, sl, cnt2, bs, bn2, fr2) = Total(x, sl, cnt, bs, bn, fr)
            /\ cnt2[x] = cnt[x] /\ Eq(x, NIL) = 0 /\ cnt[x] \in Nat /\ cnt[x] % High \in Nat
        BY <1>5, <2>2, <2>4, <3>3
      <4>2. WITNESS 0 \in Int
      <4> QED BY <3>1, <4>1
    <3> QED BY <3>2, <3>3
  <2> QED BY <2>6 DEF Follows
<1>13. (Calm(fr2) <=> Calm(fr)) /\ (Pushes(bn, fr) => Pushes(bn2, fr2))
  BY <1>0, <1>3, PushRest
<1>14. Flags(gb, cnt, fr) => Flags(gb2, cnt2, fr2)
  <2>1. ASSUME Flags(gb, cnt, fr), NEW x \in gb2, cnt2[x] # 0, x # c
        PROVE  ~(cnt2[x] < High) \/ x \in Dead(fr2)
    <3>1. x \in gb /\ x \in Cell
      BY <1>0, <1>1, <2>1
    <3> QED BY <1>5, <1>6, <1>7, <2>1, <3>1 DEF Flags
  <2> QED BY <1>7, <2>1 DEF Flags
<1>15. Rests(cnt, gb, bn, fr, cnt2, gb2, bn2, fr2)
  BY <1>6, <1>13, <1>14 DEF Rests
<1> QED BY <1>2, <1>8, <1>9, <1>10, <1>11, <1>12, <1>15, LedgerMoves

\* The parts of a state that keeps the books.
LEMMA CoreParts ==
  ASSUME CoreInv
  PROVE  /\ InOrder
         /\ kind \in [Cell -> Kinds] /\ slot \in [Cell -> [Slot -> Ref]]
         /\ count \in Counts /\ base \in [Name -> Ref] /\ bound \in Seq(Cell) /\ Len(bound) \in Nat
         /\ garbage \in SUBSET Cell /\ frames \in Seq(Frame)
         /\ collector \in {"idle", "due", "objects", "others"} /\ exact \in BOOLEAN
         /\ collector = "due" => frames = <<>>
<1>1. /\ kind \in [Cell -> Kinds] /\ slot \in [Cell -> [Slot -> Ref]]
      /\ count \in Counts /\ base \in [Name -> Ref] /\ bound \in Seq(Cell) /\ Len(bound) \in Nat
      /\ garbage \subseteq Cell /\ frames \in Seq(Frame)
  BY Parts DEF CoreInv, HeapInv, TypeOK
<1> QED BY <1>1 DEF CoreInv, HeapInv, TypeOK

\* Nothing dies.
LEMMA Quiet ==
  ASSUME NEW kd, NEW sl, NEW cnt, NEW gb, NEW bs, NEW bn, NEW o,
         Ledger(kd, sl, cnt, gb, bs, bn, <<>>, o)
  PROVE  /\ Calm(<<>>) /\ collector # "due" => Pushes(bn, <<>>)
         /\ \A k \in DOMAIN bn : collector # "due" => k = 1 /\ collector = "idle"
<1>1. Calm(<<>>)
  BY DEF Calm
<1>2. collector # "due" => Pushes(bn, <<>>)
  BY <1>1 DEF InOrder, Ledger
<1> QED BY <1>1, <1>2 DEF Pushes

\* (let ((v c)) ...) keeps the ledger: v refers to c, and LOCK counts it.
LEMMA LetLedger ==
  ASSUME CoreInv, RoomLeft, NEW c \in Cell, Let(c)
  PROVE  InOrder'
<1>0. /\ InOrder
      /\ kind \in [Cell -> Kinds] /\ slot \in [Cell -> [Slot -> Ref]]
      /\ count \in Counts /\ base \in [Name -> Ref] /\ bound \in Seq(Cell)
      /\ garbage \in SUBSET Cell /\ frames \in Seq(Frame)
  BY CoreParts
<1>1. /\ frames = <<>> /\ bound = <<>> /\ collector = "idle"
      /\ c \in Live(Image(base)) /\ bound' = <<c>> /\ count' = Locked(count, c)
      /\ UNCHANGED <<kind, slot, garbage, base, frames, collector, exact>>
  BY DEF Let, CanRun, LispRuns, InLisp, passes, history
<1>2. c \in Ref /\ count[c] # 0
  <2>1. c \in Visible
    BY <1>1 DEF Visible, Variables, Live
  <2> QED BY <2>1, VisibleInUse DEF Ref
<1>3. (count[c] % High) + 1 < High
  <2>1. High >= 4 /\ (count[c] % High) + 4 <= High
    BY <1>0, Room
  <2>2. count[c] % High \in Nat
    <3>1. count[c] \in Nat
      BY <1>0 DEF Counts
    <3> QED BY <3>1, RestType
  <2> QED BY <2>1, <2>2, HeapAssumption
<1>4. PICK cnt, bn, fr : cnt = Locked(count, c) /\ bn = <<c>> /\ fr = frames
  OBVIOUS
<1>5. Locks(count, c, cnt) /\ bn \in Seq(Cell) /\ cnt \in Counts
  <2>1. Locks(count, c, Locked(count, c))
    BY <1>0, <1>2, <1>3, LockedIs
  <2>2. <<c>> \in Seq(Cell)
    OBVIOUS
  <2> QED BY <1>4, <2>1, <2>2 DEF Locks
<1>6. Replaces(slot, count, base, bound, fr, c, slot, cnt, base, bn, NIL)
  <2>1. Standing(slot, cnt, fr) = Standing(slot, count, fr)
    <3>1. Counted(c, count)
      BY <1>2 DEF Counted
    <3> QED BY <1>0, <1>5, <3>1, LockStanding
  <2>2. ASSUME NEW x \in Cell
        PROVE  Times(bn, x) = Times(bound, x) + Eq(x, c)
    <3>1. bn = Append(bound, c)
      BY <1>1, <1>4
    <3> QED BY <1>0, <3>1, TimesAppend
  <2>3. ASSUME NEW x \in Cell
        PROVE  /\ Times(base, x) \in Nat /\ Times(bound, x) \in Nat
               /\ Times(Standing(slot, count, fr), x) \in Nat /\ Eq(x, NIL) = 0 /\ Eq(x, c) \in Nat
    <3>1. Times(base, x) \in Nat /\ Times(bound, x) \in Nat /\ Times(Standing(slot, count, fr), x) \in Nat
      BY <1>0, TotalType
    <3>2. Eq(x, NIL) = 0
      BY HeapAssumption DEF Eq, Cell
    <3> QED BY <3>1, <3>2 DEF Eq
  <2>4. ASSUME NEW x \in Cell
        PROVE  Times(base, x) + Times(bn, x) + Times(Standing(slot, cnt, fr), x) + Eq(x, NIL)
               = Times(base, x) + Times(bound, x) + Times(Standing(slot, count, fr), x) + Eq(x, c)
    BY <2>1, <2>2, <2>3
  <2> QED BY <2>4 DEF Replaces
<1>7. Ledger(kind, slot, cnt, garbage, base, bn, fr, NIL)
  <2>1. \A x \in Cell : kind[x] = "free" => slot[x] = None
    BY <1>0 DEF InOrder, Ledger, Books, Unused
  <2>2. fr = <<>> /\ fr \in Seq(Frame) /\ Ledger(kind, slot, count, garbage, base, bound, fr, NIL)
    BY <1>0, <1>1, <1>4 DEF InOrder
  <2>3. \A i \in DOMAIN fr : fr[i].op = "purge" => fr[i].cell # c
    BY <2>2
  <2>4. Pushes(bn, fr)
    BY <1>1, <1>4 DEF Pushes
  <2> QED BY <1>0, <1>2, <1>5, <1>6, <2>1, <2>2, <2>3, <2>4, LockLedger
<1>8. /\ kind' = kind /\ slot' = slot /\ base' = base /\ collector' = collector /\ exact' = exact
      /\ garbage' = garbage /\ count' = cnt /\ bound' = bn /\ frames' = fr
  BY <1>1, <1>4
<1> QED BY <1>7, <1>8 DEF InOrder, Ledger, Pushes

\* Its end does.
LEMMA EndLetLedger ==
  ASSUME CoreInv, RoomLeft, EndLet
  PROVE  InOrder'
<1>0. /\ InOrder
      /\ kind \in [Cell -> Kinds] /\ slot \in [Cell -> [Slot -> Ref]]
      /\ count \in Counts /\ base \in [Name -> Ref] /\ bound \in Seq(Cell) /\ Len(bound) \in Nat
      /\ garbage \in SUBSET Cell /\ frames \in Seq(Frame)
  BY CoreParts
<1>1. /\ frames = <<>> /\ collector = "idle" /\ bound # <<>>
      /\ Release(bound[1], count, frames, <<>>)
      /\ UNCHANGED <<kind, slot, base, collector, exact>>
  BY DEF EndLet, passes, history
<1>2. \A k \in DOMAIN bound : k = 1
  BY <1>0, <1>1, Quiet DEF InOrder
<1>3. Len(bound) = 1 /\ bound[1] \in Cell
  <2>1. Len(bound) \in DOMAIN bound
    BY <1>0, <1>1
  <2>2. Len(bound) = 1
    BY <1>2, <2>1
  <2>3. bound[Len(bound)] \in Cell
    BY <1>0, <2>1
  <2> QED BY <2>2, <2>3
<1>4. PICK bn, fr, old : bn = <<>> /\ fr = frames /\ old = bound[1]
  OBVIOUS
<1>5. /\ old \in Ref /\ old \in Cell /\ fr \in Seq(Frame) /\ fr = <<>>
      /\ Ledger(kind, slot, count, garbage, base, bound, fr, NIL)
  BY <1>0, <1>1, <1>3, <1>4 DEF InOrder, Ref
<1>6. bn \in Seq(Cell) /\ NIL \in Ref /\ NIL \notin Cell
  <2>1. <<>> \in Seq(Cell)
    OBVIOUS
  <2> QED BY <1>4, <2>1, HeapAssumption DEF Ref, Cell
<1>7. Locks(count, NIL, count)
  <2>1. Locked(count, NIL) = count
    BY DEF Locked
  <2>2. Locks(count, NIL, Locked(count, NIL))
    BY <1>0, <1>6, LockedIs
  <2> QED BY <2>1, <2>2
<1>8. Replaces(slot, count, base, bound, fr, NIL, slot, count, base, bn, old)
  <2>1. ASSUME NEW x \in Cell
        PROVE  Times(bound, x) = Times(bn, x) + Eq(x, old) /\ Times(bn, x) \in Nat
    <3>1. bound = Append(bn, old)
      BY <1>0, <1>3, <1>4
    <3>2. Times(Append(bn, old), x) = Times(bn, x) + Eq(x, old)
      BY <1>5, <1>6, TimesAppend
    <3>3. Times(bn, x) \in Nat
      BY <1>0, <1>6, TotalType
    <3> QED BY <3>1, <3>2, <3>3
  <2>2. ASSUME NEW x \in Cell
        PROVE  /\ Times(base, x) \in Nat /\ Times(Standing(slot, count, fr), x) \in Nat
               /\ Eq(x, NIL) = 0 /\ Eq(x, old) \in Nat
    <3>1. Times(base, x) \in Nat /\ Times(Standing(slot, count, fr), x) \in Nat
      BY <1>0, TotalType
    <3>2. Eq(x, NIL) = 0
      BY <1>6 DEF Eq
    <3> QED BY <3>1, <3>2 DEF Eq
  <2>3. ASSUME NEW x \in Cell
        PROVE  Times(base, x) + Times(bn, x) + Times(Standing(slot, count, fr), x) + Eq(x, old)
               = Times(base, x) + Times(bound, x) + Times(Standing(slot, count, fr), x) + Eq(x, NIL)
    BY <2>1, <2>2
  <2> QED BY <2>3 DEF Replaces
<1>9. Ledger(kind, slot, count, garbage, base, bn, fr, old)
  <2>1. \A x \in Cell : kind[x] = "free" => slot[x] = None
    BY <1>0 DEF InOrder, Ledger, Books, Unused
  <2>2. Pushes(bn, fr)
    BY <1>4 DEF Pushes
  <2> QED BY <1>0, <1>5, <1>6, <1>7, <1>8, <2>1, <2>2, LockLedger
<1>10. High >= 4
  BY <1>0, <1>5, Room
<1>11. Ledger(kind, slot, count', garbage', base, bound', frames', NIL)
  <2>1. Release(old, count, fr, bn)
    BY <1>1, <1>4
  <2> QED BY <1>0, <1>5, <1>6, <1>9, <1>10, <2>1, ReleaseLedger
<1>12. kind' = kind /\ slot' = slot /\ base' = base /\ collector' = collector /\ exact' = exact
  BY <1>1
<1> QED BY <1>11, <1>12 DEF InOrder, Ledger, Pushes

\* What add_finalizer changes is not in the books.
LEMMA WatchLedger ==
  ASSUME CoreInv, NEW c \in Cell, Watch(c)
  PROVE  InOrder'
<1>1. Ledger(kind, slot, count, garbage, base, bound, Tick, NIL)
  BY TickLedger
<1>2. /\ frames' = Tick
      /\ UNCHANGED <<kind, slot, count, garbage, base, bound, collector, exact>>
  BY DEF Watch, passes, history
<1> QED BY <1>1, <1>2 DEF InOrder, Ledger, Pushes

\* (delete c) does: the argument, delete_at_special and the binding of `this'
\* are three, of which the binding is a reference.
LEMMA DeleteLedger ==
  ASSUME CoreInv, RoomLeft, NEW c \in Cell, Delete(c)
  PROVE  InOrder'
<1>0. /\ Ledger(kind, slot, count, garbage, base, bound, Tick, NIL)
      /\ kind \in [Cell -> Kinds] /\ slot \in [Cell -> [Slot -> Ref]]
      /\ count \in Counts /\ base \in [Name -> Ref] /\ bound \in Seq(Cell) /\ Len(bound) \in Nat
      /\ garbage \in SUBSET Cell /\ Tick \in Seq(Frame)
  BY TickLedger DEF Delete
<1>1. /\ c \in Visible /\ kind[c] = "object" /\ c \notin garbage
      /\ count' = Plus(count, c, 3) /\ garbage' = garbage \cup {c} /\ bound' = Append(bound, c)
      /\ frames' = Append(Tick, Death("delete", c, "lisp", FALSE, Len(bound)))
      /\ UNCHANGED <<kind, slot, base, collector, exact>>
  BY DEF Delete, passes, history
<1>2. PICK d : d = Death("delete", c, "lisp", FALSE, Len(bound))
  OBVIOUS
<1>3. d \in Frame
  BY <1>0, <1>2, DeathType DEF Ops
<1>4. /\ d.op = "delete" /\ d.cell = c /\ d.phase = "lisp" /\ d.todo = 1 /\ d.erred = FALSE
      /\ d.height = Len(bound)
  BY <1>2 DEF Death
<1>5. count[c] # 0 /\ \A i \in DOMAIN frames : frames[i].cell = c => frames[i].phase = "lisp"
  BY <1>1, VisibleInUse
<1>6. c \notin Dead(Tick)
  <2>1. Alike(frames, Tick)
    BY CoreParts, TickAlike
  <2>2. \A i \in DOMAIN Tick : Tick[i].cell = c => Tick[i].phase = "lisp"
    BY <1>5, <2>1 DEF Alike
  <2>3. \A i \in DOMAIN Tick : Shape(Tick[i], kind, garbage)
    BY <1>0 DEF InOrder, Ledger, Books, Stacked, Shaped
  <2>4. \A i \in DOMAIN Tick : Tick[i].cell # c
    BY <1>1, <2>2, <2>3 DEF Shape
  <2> QED BY <2>4 DEF Dead
<1>7. (count[c] % High) + 3 < High
  <2>1. High >= 4 /\ (count[c] % High) + 4 <= High
    BY <1>0, Room
  <2>2. count[c] % High \in Nat
    <3>1. count[c] \in Nat
      BY <1>0 DEF Counts
    <3> QED BY <3>1, RestType
  <2> QED BY <2>1, <2>2, HeapAssumption
<1>8. Starting(d, kind, count, bound, Tick)
  BY <1>1, <1>4, <1>5, <1>6, <1>7 DEF Starting
<1>9. PICK cnt, gb, bn, fr : cnt = Plus(count, c, 3) /\ gb = garbage \cup {c} /\ bn = Append(bound, c)
                             /\ fr = Append(Tick, d)
  OBVIOUS
<1>10. Raises(count, d.cell, Own(d), cnt)
  <2>1. Raises(count, c, 3, Plus(count, c, 3))
    BY <1>0, <1>7, PlusRaises
  <2>2. Own(d) = 3
    BY <1>4 DEF Own
  <2> QED BY <1>4, <1>9, <2>1, <2>2
<1>11. Grows(d, garbage, bound, Tick, gb, bn, fr)
  BY <1>4, <1>9 DEF Grows
<1>12. Ledger(kind, slot, cnt, gb, base, bn, fr, NIL)
  BY <1>0, <1>3, <1>8, <1>10, <1>11, StartLedger
<1>13. /\ kind' = kind /\ slot' = slot /\ base' = base /\ collector' = collector /\ exact' = exact
       /\ garbage' = gb /\ count' = cnt /\ bound' = bn /\ frames' = fr
  BY <1>1, <1>2, <1>9
<1> QED BY <1>12, <1>13 DEF InOrder, Ledger, Pushes

\* A destructor that the collector begins does.
LEMMA CollectObjectLedger ==
  ASSUME CoreInv, RoomLeft, NEW c \in Cell, CollectObject(c)
  PROVE  InOrder'
<1>0. /\ InOrder
      /\ kind \in [Cell -> Kinds] /\ slot \in [Cell -> [Slot -> Ref]]
      /\ count \in Counts /\ base \in [Name -> Ref] /\ bound \in Seq(Cell) /\ Len(bound) \in Nat
      /\ garbage \in SUBSET Cell /\ frames \in Seq(Frame)
  BY CoreParts
<1>1. /\ collector = "objects" /\ frames = <<>>
      /\ c \in garbage /\ count[c] # 0 /\ kind[c] = "object"
      /\ count' = Plus(count, c, 2) /\ bound' = Append(bound, c)
      /\ frames' = <<Death("collect", c, "lisp", Finalize(c), Len(bound))>>
      /\ UNCHANGED <<kind, slot, garbage, base, collector, exact>>
  <2>1. c \in {d \in scan..c : d \in garbage \cap Used \cap Objects}
    BY DEF CollectObject, Comes
  <2>2. c \in garbage /\ c \in Used /\ c \in Objects
    BY <2>1
  <2> QED BY <2>2 DEF CollectObject, Comes, Used, Objects, history
<1>2. PICK d : d = Death("collect", c, "lisp", Finalize(c), Len(bound))
  OBVIOUS
<1>3. d \in Frame
  <2>1. Finalize(c) \in BOOLEAN
    BY DEF Finalize
  <2> QED BY <1>0, <1>2, <2>1, DeathType DEF Ops
<1>4. /\ d.op = "collect" /\ d.cell = c /\ d.phase = "lisp" /\ d.todo = 1 /\ d.erred = FALSE
      /\ d.height = Len(bound)
  BY <1>2 DEF Death
<1>5. ~(count[c] < High)
  <2>1. Calm(frames)
    BY <1>1 DEF Calm
  <2>2. Flags(garbage, count, frames)
    BY <1>0, <1>1, <2>1 DEF InOrder, Ledger
  <2>3. Dead(frames) = {}
    BY <1>1 DEF Dead
  <2> QED BY <1>1, <2>2, <2>3 DEF Flags
<1>6. c \notin Dead(frames)
  BY <1>1 DEF Dead
<1>7. (count[c] % High) + 3 < High
  <2>1. High >= 4 /\ (count[c] % High) + 4 <= High
    BY <1>0, Room
  <2>2. count[c] % High \in Nat
    <3>1. count[c] \in Nat
      BY <1>0 DEF Counts
    <3> QED BY <3>1, RestType
  <2> QED BY <2>1, <2>2, HeapAssumption
<1>8. Starting(d, kind, count, bound, frames)
  BY <1>1, <1>4, <1>5, <1>6, <1>7 DEF Starting
<1>9. PICK cnt, bn, fr : cnt = Plus(count, c, 2) /\ bn = Append(bound, c) /\ fr = Append(frames, d)
  OBVIOUS
<1>10. Raises(count, d.cell, Own(d), cnt)
  <2>1. (count[c] % High) + 2 < High
    <3>1. count[c] \in Nat
      BY <1>0 DEF Counts
    <3>2. count[c] % High \in Nat
      BY <3>1, RestType
    <3> QED BY <1>7, <3>2, HeapAssumption
  <2>2. Raises(count, c, 2, Plus(count, c, 2))
    BY <1>0, <2>1, PlusRaises
  <2>3. Own(d) = 2
    BY <1>4 DEF Own
  <2> QED BY <1>4, <1>9, <2>2, <2>3
<1>11. Grows(d, garbage, bound, frames, garbage, bn, fr)
  <2>1. garbage = garbage \cup {c}
    BY <1>1
  <2> QED BY <1>4, <1>9, <2>1 DEF Grows
<1>12. Ledger(kind, slot, cnt, garbage, base, bn, fr, NIL)
  BY <1>0, <1>3, <1>8, <1>10, <1>11, StartLedger DEF InOrder
<1>13. /\ kind' = kind /\ slot' = slot /\ base' = base /\ collector' = collector /\ exact' = exact
       /\ garbage' = garbage /\ count' = cnt /\ bound' = bn /\ frames' = fr
  BY <1>1, <1>2, <1>9
<1> QED BY <1>12, <1>13 DEF InOrder, Ledger, Pushes

\* The books at a moment when less counts, or the same.
LEMMA LedgerGoes ==
  ASSUME NEW kd, NEW gb, NEW o, NEW sl, NEW cnt, NEW bs, NEW bn, NEW fr,
         Ledger(kd, sl, cnt, gb, bs, bn, fr, o),
         NEW kd2, NEW gb2, NEW o2, NEW sl2, NEW cnt2, NEW bs2, NEW bn2, NEW fr2,
         Stacked(kd2, gb2, bn2, fr2), Numbered(cnt2, fr2), Unused(kd2, sl2, cnt2, gb2, fr2),
         ConsHigh(kd2, cnt2, gb2), Covered(sl2, cnt2, bs2, bn2, fr2, o2),
         exact => Balanced(sl2, cnt2, bs2, bn2, fr2, o2),
         Rests(cnt, gb, bn, fr, cnt2, gb2, bn2, fr2)
  PROVE  Ledger(kd2, sl2, cnt2, gb2, bs2, bn2, fr2, o2)
<1>1. Books(kd2, sl2, cnt2, gb2, bs2, bn2, fr2, o2)
  BY DEF Books
<1>2. Low(cnt) => Low(cnt2)
  BY DEF Low, Rests
<1> QED BY <1>1, <1>2 DEF InOrder, Ledger, Rests

\* Counts of which one is lowered by m.
Lowered(cnt, c, m, cnt2) ==
  /\ cnt2 \in Counts /\ cnt2[c] = cnt[c] - m /\ cnt2[c] % High = (cnt[c] % High) - m
  /\ cnt2[c] < High <=> cnt[c] < High
  /\ \A x \in Cell : x # c => cnt2[x] = cnt[x]

\* What is no more than the rest can be taken from a count.
LEMMA MinusLowers ==
  ASSUME NEW cnt \in Counts, NEW c \in Cell, NEW m \in Nat, m <= cnt[c] % High
  PROVE  Lowered(cnt, c, m, Minus(cnt, c, m))
<1>1. cnt[c] \in 0..(Width - 1)
  BY DEF Counts
<1>2. /\ (cnt[c] - m) % High = (cnt[c] % High) - m /\ (cnt[c] - m < High <=> cnt[c] < High)
      /\ cnt[c] - m \in 0..(Width - 1) /\ (cnt[c] + Width - m) % Width = cnt[c] - m
  BY <1>1, RestMinus
<1>3. PICK v : v = cnt[c] - m
  OBVIOUS
<1>4. Minus(cnt, c, m) = [cnt EXCEPT ![c] = v]
  BY <1>2, <1>3 DEF Minus
<1>5. v \in 0..(Width - 1) /\ v % High = (cnt[c] % High) - m /\ (v < High <=> cnt[c] < High)
  BY <1>2, <1>3
<1>6. /\ [cnt EXCEPT ![c] = v] \in Counts /\ [cnt EXCEPT ![c] = v][c] = v
      /\ \A x \in Cell : x # c => [cnt EXCEPT ![c] = v][x] = cnt[x]
  BY <1>5 DEF Counts
<1> QED BY <1>3, <1>4, <1>5, <1>6 DEF Lowered

\* (delete c) takes two, then one.
LEMMA LoweredTwice ==
  ASSUME NEW cnt \in Counts, NEW c \in Cell, 3 <= cnt[c] % High
  PROVE  Lowered(cnt, c, 3, Minus(Minus(cnt, c, 2), c, 1))
<1>1. PICK own : own = Minus(cnt, c, 2)
  OBVIOUS
<1>2. cnt[c] \in Nat /\ cnt[c] % High \in Nat
  <2>1. cnt[c] \in Nat
    BY DEF Counts
  <2> QED BY <2>1, RestType
<1>3. Lowered(cnt, c, 2, own)
  <2>1. 2 <= cnt[c] % High /\ 2 \in Nat
    BY <1>2
  <2>2. Lowered(cnt, c, 2, Minus(cnt, c, 2))
    BY <2>1, MinusLowers
  <2> QED BY <1>1, <2>2
<1>4. own \in Counts /\ own[c] = cnt[c] - 2 /\ own[c] % High = (cnt[c] % High) - 2
  BY <1>3 DEF Lowered
<1>5. Lowered(own, c, 1, Minus(own, c, 1))
  <2>1. 1 <= own[c] % High /\ 1 \in Nat
    BY <1>2, <1>4
  <2> QED BY <1>4, <2>1, MinusLowers
<1>6. PICK low : low = Minus(own, c, 1)
  OBVIOUS
<1>7. Lowered(own, c, 1, low)
  BY <1>5, <1>6
<1>8. /\ low[c] = own[c] - 1 /\ low[c] % High = (own[c] % High) - 1 /\ low \in Counts
  BY <1>7 DEF Lowered
<1>9. low[c] = cnt[c] - 3 /\ low[c] % High = (cnt[c] % High) - 3
  BY <1>2, <1>4, <1>8
<1>10. (low[c] < High <=> cnt[c] < High) /\ \A x \in Cell : x # c => low[x] = cnt[x]
  BY <1>3, <1>7 DEF Lowered
<1>11. Lowered(cnt, c, 3, low)
  BY <1>8, <1>9, <1>10 DEF Lowered
<1> QED BY <1>1, <1>6, <1>11

\* What counted for the destructor of c, and for c when it was deleted, counts
\* no more, nor do the values that were pushed since.
Withdraws(c, m, sl, cnt, bn, fr, cnt2, bn2, fr2) ==
  /\ Standing(sl, cnt2, fr2) = Standing(sl, cnt, fr)
  /\ c \in Destroying(fr) /\ Destroying(fr2) = Destroying(fr) \ {c}
  /\ Deleting(fr2) = Deleting(fr) \ {c} /\ m = 2 + In(c, Deleting(fr))
  /\ \E h \in Nat : h < Len(bn) /\ bn[h + 1] = c /\ bn2 = SubSeq(bn, 1, h)

\* x has at least m references fewer if it is c, and no more otherwise.
Withdrawn(x, c, m, sl, cnt, bs, bn, fr, cnt2, bn2, fr2) ==
  LET n == IF x = c THEN m ELSE 0 IN
  /\ Total(x, sl, cnt2, bs, bn2, fr2) + n <= Total(x, sl, cnt, bs, bn, fr)
  /\ Len(bn) = Len(bn2) + 1 => Total(x, sl, cnt2, bs, bn2, fr2) + n = Total(x, sl, cnt, bs, bn, fr)

\* A destructor that returns takes its bindings and its own counts with it.
LEMMA WithdrawTotal ==
  ASSUME NEW sl \in [Cell -> [Slot -> Ref]], NEW cnt \in Counts, NEW bs \in [Name -> Ref],
         NEW bn \in Seq(Cell), NEW fr, NEW cnt2, NEW bn2, NEW fr2, NEW c \in Cell, NEW m,
         Withdraws(c, m, sl, cnt, bn, fr, cnt2, bn2, fr2), NEW x \in Cell
  PROVE  Withdrawn(x, c, m, sl, cnt, bs, bn, fr, cnt2, bn2, fr2)
<1>1. /\ Standing(sl, cnt2, fr2) = Standing(sl, cnt, fr)
      /\ c \in Destroying(fr) /\ Destroying(fr2) = Destroying(fr) \ {c}
      /\ Deleting(fr2) = Deleting(fr) \ {c} /\ m = 2 + In(c, Deleting(fr))
  BY DEF Withdraws
<1>2. PICK h \in Nat : h < Len(bn) /\ bn[h + 1] = c /\ bn2 = SubSeq(bn, 1, h)
  BY DEF Withdraws
<1>3. h \in 0..Len(bn) /\ Len(bn) \in Nat /\ Len(bn2) = h
  BY <1>2
<1>4. PICK t, t2 : t = Times(bn, x) /\ t2 = Times(bn2, x)
  OBVIOUS
<1>5. t \in Nat /\ t2 \in Nat /\ t2 <= t
  <2>1. Times(bn, x) \in Nat /\ Times(SubSeq(bn, 1, h), x) \in Nat /\ Times(SubSeq(bn, 1, h), x) <= Times(bn, x)
    BY <1>3, TimesCut
  <2> QED BY <1>2, <1>4, <2>1
<1>6. x = c => t2 + 1 <= t
  <2>1. h < Len(bn) /\ bn[h + 1] = x => Times(SubSeq(bn, 1, h), x) + 1 <= Times(bn, x)
    BY <1>3, TimesCut
  <2> QED BY <1>2, <1>4, <2>1
<1>7. Len(bn) = Len(bn2) + 1 => t = t2 + Eq(x, c)
  <2>1. Len(bn) = h + 1 => Times(bn, x) = Times(SubSeq(bn, 1, h), x) + Eq(x, bn[h + 1])
    BY <1>3, TimesCut
  <2> QED BY <1>2, <1>3, <1>4, <2>1
<1>8. PICK b, s : b = Times(bs, x) /\ s = Times(Standing(sl, cnt, fr), x)
  OBVIOUS
<1>9. b \in Nat /\ s \in Nat
  BY <1>8, TotalType
<1>10. PICK p, q : p = In(x, Deleting(fr)) /\ q = In(x, Destroying(fr))
  OBVIOUS
<1>11. p \in {0, 1} /\ q \in {0, 1}
  BY <1>10 DEF In
<1>12. Total(x, sl, cnt, bs, bn, fr) = b + t + s + q + p
  BY <1>4, <1>8, <1>10 DEF Total
<1>13. CASE x = c
  <2>1. q = 1 /\ m = 2 + p /\ In(x, Destroying(fr2)) = 0 /\ In(x, Deleting(fr2)) = 0
    BY <1>1, <1>10, <1>13 DEF In
  <2>2. Total(x, sl, cnt2, bs, bn2, fr2) = b + t2 + s + 0 + 0
    BY <1>1, <1>4, <1>8, <2>1 DEF Total
  <2>3. Eq(x, c) = 1
    BY <1>13 DEF Eq
  <2>4. Total(x, sl, cnt2, bs, bn2, fr2) + m <= Total(x, sl, cnt, bs, bn, fr)
    BY <1>5, <1>6, <1>9, <1>11, <1>12, <1>13, <2>1, <2>2
  <2>5. Len(bn) = Len(bn2) + 1 => Total(x, sl, cnt2, bs, bn2, fr2) + m = Total(x, sl, cnt, bs, bn, fr)
    BY <1>5, <1>7, <1>9, <1>11, <1>12, <2>1, <2>2, <2>3
  <2> QED BY <1>13, <2>4, <2>5 DEF Withdrawn
<1>14. CASE x # c
  <2>1. In(x, Destroying(fr2)) = q /\ In(x, Deleting(fr2)) = p
    BY <1>1, <1>10, <1>14 DEF In
  <2>2. Total(x, sl, cnt2, bs, bn2, fr2) = b + t2 + s + q + p
    BY <1>1, <1>4, <1>8, <2>1 DEF Total
  <2>3. Eq(x, c) = 0
    BY <1>14 DEF Eq
  <2>4. Total(x, sl, cnt2, bs, bn2, fr2) + 0 <= Total(x, sl, cnt, bs, bn, fr)
    BY <1>5, <1>9, <1>11, <1>12, <2>2
  <2>5. Len(bn) = Len(bn2) + 1 => Total(x, sl, cnt2, bs, bn2, fr2) + 0 = Total(x, sl, cnt, bs, bn, fr)
    BY <1>5, <1>7, <1>9, <1>11, <1>12, <2>2, <2>3
  <2> QED BY <1>14, <2>4, <2>5 DEF Withdrawn
<1> QED BY <1>13, <1>14

\* The innermost death is f, and its destructor runs.
AtTop(n, f) == n = Len(frames) /\ f = frames[n]
Runs(n, f) ==
  /\ n \in Nat /\ n \in DOMAIN frames /\ DOMAIN frames = 1..n
  /\ f \in Frame /\ f.cell \in Cell /\ f.height \in Nat /\ f = frames[n]
  /\ f.phase = "lisp" /\ f.op \in {"purge", "delete", "collect"} /\ f.todo = 1 /\ ~f.erred
  /\ kind[f.cell] = "object" /\ f.cell \in garbage
  /\ f.height < Len(bound) /\ bound[f.height + 1] = f.cell
  /\ \A i \in 1..(n - 1) : /\ i \in DOMAIN frames /\ frames[i].cell # f.cell
                           /\ Pending(frames[i]) => frames[i].height < f.height
  /\ \A i \in DOMAIN frames : frames[i].height <= f.height
  /\ f.cell \in Destroying(frames) /\ (f.cell \in Deleting(frames) <=> f.op = "delete")
  /\ Number(f, count)

\* What holds of the destructor that runs.
LEMMA TopRuns ==
  ASSUME CoreInv, InLisp, NEW n, NEW f, AtTop(n, f)
  PROVE  Runs(n, f)
<1>0. /\ InOrder
      /\ bound \in Seq(Cell) /\ frames \in Seq(Frame)
  BY CoreParts
<1>1. frames # <<>> /\ n = Len(frames) /\ f = frames[n] /\ f.phase = "lisp"
  BY DEF InLisp, Top, AtTop
<1>2. n \in Nat /\ n \in DOMAIN frames /\ DOMAIN frames = 1..n
  BY <1>0, <1>1
<1>3. f \in Frame
  BY <1>0, <1>1, <1>2
<1>4. f.cell \in Cell /\ f.height \in Nat /\ f.op \in Ops
  BY <1>3 DEF Frame, Ops
<1>5. Stacked(kind, garbage, bound, frames) /\ Numbered(count, frames)
  BY <1>0 DEF InOrder, Ledger, Books
<1>6. /\ f.op # "sweep" /\ f.todo = 1 /\ ~f.erred /\ kind[f.cell] = "object" /\ f.cell \in garbage
  <2>1. Shape(f, kind, garbage)
    BY <1>1, <1>2, <1>5 DEF Stacked, Shaped
  <2> QED BY <1>1, <2>1 DEF Shape
<1>7. Pending(f) /\ Number(f, count)
  BY <1>1, <1>2, <1>5 DEF Pending, Numbered
<1>8. /\ f.height < Len(bound) /\ bound[f.height + 1] = f.cell
      /\ \A i \in 1..(n - 1) : Pending(frames[i]) => frames[i].height < f.height
  BY <1>1, <1>2, <1>5, <1>7 DEF Stacked, Binds
<1>9. ASSUME NEW i \in 1..(n - 1)
      PROVE  i \in DOMAIN frames /\ frames[i].cell # f.cell
  <2>1. i \in DOMAIN frames /\ i # n
    BY <1>2
  <2> QED BY <1>1, <1>2, <1>5, <2>1 DEF Stacked, Apart
<1>10. \A i \in DOMAIN frames : frames[i].height <= f.height
  <2>1. NestedIn(frames, Len(bound))
    BY DEF CoreInv, HeapInv
  <2> QED BY <1>1, <1>2, <2>1 DEF NestedIn
<1>11. f.cell \in Destroying(frames) /\ (f.cell \in Deleting(frames) <=> f.op = "delete")
  <2>1. f.cell \in Destroying(frames)
    BY <1>1, <1>2 DEF Destroying
  <2>2. f.op = "delete" => f.cell \in Deleting(frames)
    BY <1>1, <1>2 DEF Deleting
  <2>3. ASSUME f.cell \in Deleting(frames)
        PROVE  f.op = "delete"
    <3>1. PICK i \in DOMAIN frames : frames[i].op = "delete" /\ frames[i].cell = f.cell
      BY <2>3 DEF Deleting
    <3>2. i = n
      BY <1>1, <1>2, <1>5, <3>1 DEF Stacked, Apart
    <3> QED BY <1>1, <3>1, <3>2
  <2> QED BY <2>1, <2>2, <2>3
<1>12. f.op \in {"purge", "delete", "collect"}
  BY <1>4, <1>6 DEF Ops
<1> QED BY <1>1, <1>2, <1>3, <1>4, <1>6, <1>7, <1>8, <1>9, <1>10, <1>11, <1>12 DEF Runs

\* What the destructor's call added to the count is there.
LEMMA TopCount ==
  ASSUME CoreInv, InLisp, NEW n, NEW f, AtTop(n, f)
  PROVE  2 + In(f.cell, Deleting(frames)) <= count[f.cell] % High
<1>0. /\ InOrder
      /\ slot \in [Cell -> [Slot -> Ref]] /\ count \in Counts /\ base \in [Name -> Ref]
      /\ bound \in Seq(Cell) /\ Len(bound) \in Nat
  BY CoreParts
<1>1. Runs(n, f)
  BY TopRuns
<1>2. PICK c, h : c = f.cell /\ h = f.height
  OBVIOUS
<1>3. c \in Cell /\ h \in Nat /\ h < Len(bound) /\ bound[h + 1] = c /\ c \in Destroying(frames)
  BY <1>1, <1>2 DEF Runs
<1>4. /\ Times(base, c) \in Nat /\ Times(bound, c) \in Nat
      /\ Times(Standing(slot, count, frames), c) \in Nat
      /\ In(c, Deleting(frames)) \in {0, 1}
      /\ \A k \in DOMAIN bound : bound[k] = c => Times(bound, c) >= 1
  BY <1>0, TotalType
<1>5. Times(bound, c) >= 1
  <2>1. h + 1 \in DOMAIN bound
    BY <1>0, <1>3
  <2> QED BY <1>3, <1>4, <2>1
<1>6. In(c, Destroying(frames)) = 1
  BY <1>3 DEF In
<1>7. Total(c, slot, count, base, bound, frames) >= 2 + In(c, Deleting(frames))
  BY <1>4, <1>5, <1>6 DEF Total
<1>8. Total(c, slot, count, base, bound, frames) + Eq(c, NIL) <= count[c] % High
  BY <1>0, <1>3 DEF InOrder, Ledger, Books, Covered
<1>9. Eq(c, NIL) = 0 /\ count[c] % High \in Nat /\ Total(c, slot, count, base, bound, frames) \in Nat
  <2>1. Eq(c, NIL) = 0
    BY <1>3, HeapAssumption DEF Eq, Cell
  <2>2. count[c] \in Nat
    BY <1>0, <1>3 DEF Counts
  <2>3. Total(c, slot, count, base, bound, frames) \in Nat
    BY <1>0, TotalType
  <2> QED BY <2>1, <2>2, <2>3, RestType
<1>10. 2 + In(c, Deleting(frames)) <= count[c] % High
  BY <1>4, <1>7, <1>8, <1>9
<1> QED BY <1>2, <1>10

\* Nothing is pushed above the binding of the innermost destructor.
LEMMA TopPushed ==
  ASSUME CoreInv, InLisp, NEW n, NEW f, AtTop(n, f), exact
  PROVE  Len(bound) = f.height + 1
<1>0. /\ InOrder
      /\ bound \in Seq(Cell) /\ Len(bound) \in Nat /\ frames \in Seq(Frame)
  BY CoreParts
<1>1. Runs(n, f)
  BY TopRuns
<1>2. f.height \in Nat /\ f.height < Len(bound) /\ \A i \in DOMAIN frames : frames[i].height <= f.height
  BY <1>1 DEF Runs
<1>3. Pushes(bound, frames)
  <2>1. Calm(frames) /\ collector = "idle"
    BY <1>0 DEF InOrder, Ledger
  <2> QED BY <1>0, <2>1 DEF InOrder, Ledger
<1>4. Len(bound) \in DOMAIN bound
  BY <1>0, <1>2
<1>5. CASE Len(bound) = 1
  BY <1>2, <1>5
<1>6. ASSUME NEW i \in DOMAIN frames, frames[i].height + 1 = Len(bound)
      PROVE  Len(bound) = f.height + 1
  <2>1. frames[i].height \in Nat /\ frames[i].height <= f.height
    BY <1>0, <1>2, FramesType
  <2> QED BY <1>0, <1>2, <1>6, <2>1
<1> QED BY <1>3, <1>4, <1>5, <1>6 DEF Pushes

\* The end of a destructor: what it pushed is popped, what its call added to
\* the count goes.
Ends(n, f, m, cnt2, bn2) ==
  /\ m = 2 + In(f.cell, Deleting(frames))
  /\ Lowered(count, f.cell, m, cnt2) /\ bn2 = SubSeq(bound, 1, f.height)

\* The ledger after a destructor returns, if the rest of it is in order.
LEMMA WithdrawLedger ==
  ASSUME CoreInv, InLisp, NEW n, NEW f, AtTop(n, f), NEW m, NEW cnt2, NEW bn2, Ends(n, f, m, cnt2, bn2),
         NEW kd2, NEW gb2, NEW fr2, Stacked(kd2, gb2, bn2, fr2), Numbered(cnt2, fr2),
         Unused(kd2, slot, cnt2, gb2, fr2), ConsHigh(kd2, cnt2, gb2),
         Withdraws(f.cell, m, slot, count, bound, frames, cnt2, bn2, fr2),
         Rests(count, garbage, bound, frames, cnt2, gb2, bn2, fr2)
  PROVE  Ledger(kd2, slot, cnt2, gb2, base, bn2, fr2, NIL)
<1>0. /\ InOrder
      /\ slot \in [Cell -> [Slot -> Ref]] /\ count \in Counts /\ base \in [Name -> Ref]
      /\ bound \in Seq(Cell) /\ Len(bound) \in Nat
  BY CoreParts
<1>1. Runs(n, f)
  BY TopRuns
<1>2. PICK c : c = f.cell
  OBVIOUS
<1>3. c \in Cell /\ f.height \in Nat /\ f.height < Len(bound) /\ NIL \notin Cell
  BY <1>1, <1>2, HeapAssumption DEF Runs, Cell
<1>4. /\ cnt2 \in Counts /\ cnt2[c] = count[c] - m /\ cnt2[c] % High = (count[c] % High) - m
      /\ \A x \in Cell : x # c => cnt2[x] = count[x]
  BY <1>2 DEF Ends, Lowered
<1>5. bn2 \in Seq(Cell) /\ Len(bn2) = f.height
  BY <1>0, <1>3 DEF Ends
<1>6. ASSUME NEW x \in Cell
      PROVE  Withdrawn(x, c, m, slot, count, base, bound, frames, cnt2, bn2, fr2)
  <2>1. Withdraws(c, m, slot, count, bound, frames, cnt2, bn2, fr2)
    BY <1>2
  <2> QED BY <1>0, <1>3, <2>1, WithdrawTotal
<1>7. ASSUME NEW x \in Cell
      PROVE  /\ Total(x, slot, count, base, bound, frames) \in Nat
             /\ Total(x, slot, cnt2, base, bn2, fr2) \in Nat
             /\ Eq(x, NIL) = 0 /\ count[x] \in Nat /\ count[x] % High \in Nat /\ m \in Nat
  <2>1. Total(x, slot, count, base, bound, frames) \in Nat
    BY <1>0, TotalType
  <2>2. Total(x, slot, cnt2, base, bn2, fr2) \in Nat
    BY <1>0, <1>4, <1>5, TotalType
  <2>3. Eq(x, NIL) = 0 /\ count[x] \in Nat
    BY <1>0, <1>3 DEF Eq, Counts
  <2>4. m \in Nat
    BY DEF Ends, In
  <2> QED BY <2>1, <2>2, <2>3, <2>4, RestType
<1>8. Covered(slot, cnt2, base, bn2, fr2, NIL)
  <2>1. ASSUME NEW x \in Cell
        PROVE  Total(x, slot, cnt2, base, bn2, fr2) + Eq(x, NIL) <= cnt2[x] % High
    <3>1. Total(x, slot, count, base, bound, frames) + Eq(x, NIL) <= count[x] % High
      BY <1>0 DEF InOrder, Ledger, Books, Covered
    <3>2. CASE x = c
      <4>1. Total(x, slot, cnt2, base, bn2, fr2) + m <= Total(x, slot, count, base, bound, frames)
        BY <1>6, <3>2 DEF Withdrawn
      <4>2. cnt2[x] % High = (count[x] % High) - m
        BY <1>4, <3>2
      <4> QED BY <1>7, <3>1, <4>1, <4>2
    <3>3. CASE x # c
      <4>1. Total(x, slot, cnt2, base, bn2, fr2) + 0 <= Total(x, slot, count, base, bound, frames)
        BY <1>6, <3>3 DEF Withdrawn
      <4>2. cnt2[x] % High = count[x] % High
        BY <1>4, <3>3, Zenon
      <4> QED BY <1>7, <3>1, <4>1, <4>2
    <3> QED BY <3>2, <3>3
  <2> QED BY <2>1 DEF Covered
<1>9. ASSUME exact
      PROVE  Balanced(slot, cnt2, base, bn2, fr2, NIL)
  <2>1. Len(bound) = Len(bn2) + 1
    BY <1>5, <1>9, TopPushed
  <2>2. ASSUME NEW x \in Cell
        PROVE  Total(x, slot, cnt2, base, bn2, fr2) + Eq(x, NIL) = cnt2[x]
    <3>1. Total(x, slot, count, base, bound, frames) + Eq(x, NIL) = count[x]
      BY <1>0, <1>9 DEF InOrder, Ledger, Balanced
    <3>2. CASE x = c
      <4>1. Total(x, slot, cnt2, base, bn2, fr2) + m = Total(x, slot, count, base, bound, frames)
        BY <1>6, <2>1, <3>2 DEF Withdrawn
      <4>2. cnt2[x] = count[x] - m
        BY <1>4, <3>2
      <4> QED BY <1>7, <3>1, <4>1, <4>2
    <3>3. CASE x # c
      <4>1. Total(x, slot, cnt2, base, bn2, fr2) + 0 = Total(x, slot, count, base, bound, frames)
        BY <1>6, <2>1, <3>3 DEF Withdrawn
      <4>2. cnt2[x] = count[x]
        BY <1>4, <3>3
      <4> QED BY <1>7, <3>1, <4>1, <4>2
    <3> QED BY <3>2, <3>3
  <2> QED BY <2>2 DEF Balanced
<1> QED BY <1>0, <1>8, <1>9, LedgerGoes DEF InOrder

\* The values pushed before a destructor.
PopsTo(f, bn2) == bn2 = SubSeq(bound, 1, f.height)
Keeps(n, fr2) == \A i \in 1..(n - 1) : i \in DOMAIN fr2 /\ fr2[i] = frames[i]
PushedFirst(n, f, bn2) ==
  /\ bn2 \in Seq(Cell) /\ Len(bn2) = f.height /\ DOMAIN bn2 = 1..f.height
  /\ \A k \in 1..f.height : k \in DOMAIN bound /\ bn2[k] = bound[k]
  /\ \A i \in 1..(n - 1) : Pending(frames[i]) =>
       frames[i].height < Len(bn2) /\ bn2[frames[i].height + 1] = bound[frames[i].height + 1]
  /\ \A fr2 : Keeps(n, fr2) => (Pushes(bound, frames) => Pushes(bn2, fr2))

\* What was pushed before the destructor began is there when it returns.
LEMMA PushedBefore ==
  ASSUME CoreInv, InLisp, NEW n, NEW f, AtTop(n, f), NEW bn2, PopsTo(f, bn2)
  PROVE  PushedFirst(n, f, bn2)
<1>0. bound \in Seq(Cell) /\ Len(bound) \in Nat /\ frames \in Seq(Frame)
  BY CoreParts
<1>1. Runs(n, f)
  BY TopRuns
<1>2. /\ f.height \in Nat /\ f.height < Len(bound)
      /\ \A i \in 1..(n - 1) : i \in DOMAIN frames /\ (Pending(frames[i]) => frames[i].height < f.height)
      /\ n \in Nat /\ DOMAIN frames = 1..n /\ f = frames[n]
  BY <1>1 DEF Runs
<1>3. /\ bn2 \in Seq(Cell) /\ Len(bn2) = f.height /\ DOMAIN bn2 = 1..f.height
      /\ \A k \in 1..f.height : k \in DOMAIN bound /\ bn2[k] = bound[k]
  BY <1>0, <1>2 DEF PopsTo
<1>4. ASSUME NEW i \in 1..(n - 1), Pending(frames[i])
      PROVE  frames[i].height < Len(bn2) /\ bn2[frames[i].height + 1] = bound[frames[i].height + 1]
  <2>1. frames[i].height \in Nat /\ frames[i].height < f.height
    BY <1>0, <1>2, <1>4, FramesType
  <2>2. frames[i].height + 1 \in 1..f.height
    BY <1>2, <2>1
  <2> QED BY <1>3, <2>1, <2>2
<1>5. ASSUME NEW fr2, Keeps(n, fr2),
             Pushes(bound, frames), NEW k \in DOMAIN bn2
      PROVE  \/ k = 1 /\ collector = "idle"
             \/ \E i \in DOMAIN fr2 : fr2[i].phase = "lisp" /\ fr2[i].height + 1 = k
  <2>1. k \in DOMAIN bound /\ k \in 1..f.height
    BY <1>3, <1>5
  <2>2. CASE k = 1 /\ collector = "idle"
    BY <2>2
  <2>3. ASSUME NEW i \in DOMAIN frames, frames[i].phase = "lisp", frames[i].height + 1 = k
        PROVE  \E j \in DOMAIN fr2 : fr2[j].phase = "lisp" /\ fr2[j].height + 1 = k
    <3>1. i # n
      BY <1>2, <2>1, <2>3
    <3>2. i \in 1..(n - 1)
      BY <1>2, <3>1
    <3> QED BY <1>5, <2>3, <3>2 DEF Keeps
  <2> QED BY <1>5, <2>1, <2>2, <2>3 DEF Pushes
<1>6. \A fr2 : Keeps(n, fr2) => (Pushes(bound, frames) => Pushes(bn2, fr2))
  BY <1>5 DEF Pushes
<1> QED BY <1>3, <1>4, <1>6 DEF PushedFirst

\* The innermost death becomes g, or is over.
Replaced(n, g, fr2) ==
  /\ fr2 \in Seq(Frame) /\ Len(fr2) = n /\ DOMAIN fr2 = 1..n /\ fr2[n] = g
  /\ \A i \in 1..(n - 1) : i \in DOMAIN frames /\ i \in DOMAIN fr2 /\ fr2[i] = frames[i]

\* Only the innermost death changes.
LEMMA TopReplaced ==
  ASSUME frames \in Seq(Frame), NEW n, n = Len(frames), frames # <<>>, NEW g \in Frame,
         NEW fr2, fr2 = [frames EXCEPT ![n] = g]
  PROVE  Replaced(n, g, fr2)
<1>1. n \in Nat /\ n \in DOMAIN frames /\ DOMAIN frames = 1..n
  OBVIOUS
<1>2. fr2 \in Seq(Frame)
  BY <1>1
<1>3. Len(fr2) = n /\ DOMAIN fr2 = 1..n /\ fr2[n] = g /\ \A i \in 1..n : i # n => fr2[i] = frames[i]
  BY <1>1
<1>4. \A i \in 1..(n - 1) : i \in 1..n /\ i # n
  BY <1>1
<1> QED BY <1>1, <1>2, <1>3, <1>4 DEF Replaced

\* The destructor of an object that purge or the collector is at returns.
LEMMA ReturnSlots ==
  ASSUME CoreInv, InLisp, NEW n, NEW f, AtTop(n, f), f.op # "delete",
         NEW m, NEW cnt2, NEW bn2, Ends(n, f, m, cnt2, bn2),
         NEW g \in Frame, g.cell = f.cell, g.op = f.op, g.phase = "slots", g.todo = 1, ~g.erred,
         g.height = f.height, NEW fr2, Replaced(n, g, fr2)
  PROVE  Ledger(kind, slot, cnt2, garbage, base, bn2, fr2, NIL)
<1>0. /\ InOrder
      /\ slot \in [Cell -> [Slot -> Ref]] /\ count \in Counts
      /\ bound \in Seq(Cell) /\ frames \in Seq(Frame) /\ garbage \in SUBSET Cell
  BY CoreParts
<1>1. Runs(n, f)
  BY TopRuns
<1>2. PICK c : c = f.cell
  OBVIOUS
<1>3. /\ c \in Cell /\ kind[c] = "object" /\ n \in Nat /\ n \in DOMAIN frames /\ DOMAIN frames = 1..n
      /\ f = frames[n] /\ f.phase = "lisp" /\ f.op \in {"purge", "collect"} /\ ~f.erred
      /\ \A i \in 1..(n - 1) : i \in DOMAIN frames /\ frames[i].cell # c
      /\ c \in Destroying(frames) /\ c \notin Deleting(frames)
      /\ Number(f, count)
  BY <1>1, <1>2 DEF Runs
<1>4. /\ Len(fr2) = n /\ DOMAIN fr2 = 1..n /\ fr2[n] = g /\ fr2 \in Seq(Frame)
      /\ \A i \in 1..(n - 1) : i \in DOMAIN fr2 /\ fr2[i] = frames[i]
  BY DEF Replaced
<1>5. \A i \in 1..n : i = n \/ i \in 1..(n - 1)
  BY <1>3
<1>6. /\ cnt2 \in Counts /\ cnt2[c] = count[c] - m /\ m = 2
      /\ \A x \in Cell : cnt2[x] < High <=> count[x] < High
      /\ \A x \in Cell : x # c => cnt2[x] = count[x]
  BY <1>2, <1>3 DEF Ends, Lowered, In
<1>7. Dead(fr2) = Dead(frames) /\ c \in Dead(frames)
  <2>1. \A i \in 1..n : fr2[i].cell = frames[i].cell
    BY <1>2, <1>3, <1>4, <1>5
  <2> QED BY <1>2, <1>3, <1>4, <2>1 DEF Dead
<1>8. Destroying(fr2) = Destroying(frames) \ {c}
  <2>1. \A i \in DOMAIN fr2 : fr2[i].phase = "lisp" => i \in DOMAIN frames /\ frames[i] = fr2[i] /\ frames[i].cell # c
    BY <1>3, <1>4, <1>5
  <2>2. \A i \in DOMAIN frames : frames[i].cell # c => i \in DOMAIN fr2 /\ fr2[i] = frames[i]
    BY <1>2, <1>3, <1>4, <1>5
  <2> QED BY <2>1, <2>2 DEF Destroying
<1>9. Deleting(fr2) = Deleting(frames) \ {c}
  <2>1. \A i \in 1..n : fr2[i].cell = frames[i].cell /\ fr2[i].op = frames[i].op
    BY <1>2, <1>3, <1>4, <1>5
  <2>2. Deleting(fr2) = Deleting(frames)
    BY <1>3, <1>4, <2>1 DEF Deleting
  <2> QED BY <1>3, <2>2
<1>10. Standing(slot, cnt2, fr2) = Standing(slot, count, frames)
  <2>1. ASSUME NEW x \in Cell, NEW s \in Slot
        PROVE  LetGo(x, s, fr2) <=> LetGo(x, s, frames)
    <3>1. ~(s < g.todo) /\ f.phase # "slots"
      BY <1>3, HeapAssumption DEF Slot
    <3> QED BY <1>3, <1>4, <1>5, <3>1 DEF LetGo
  <2>2. \A x \in Cell, s \in Slot : Counting(x, s, count, frames) <=> Counting(x, s, cnt2, fr2)
    BY <1>6, <1>7, <2>1 DEF Counting
  <2> QED BY <2>2, StandingSame
<1>11. Withdraws(c, m, slot, count, bound, frames, cnt2, bn2, fr2)
  <2>1. \E h \in Nat : h < Len(bound) /\ bound[h + 1] = c /\ bn2 = SubSeq(bound, 1, h)
    BY <1>1, <1>2 DEF Runs, Ends
  <2> QED BY <1>2, <1>3, <1>8, <1>9, <1>10, <2>1 DEF Withdraws, Ends
<1>12. /\ \A i \in 1..(n - 1) : Pending(frames[i]) =>
            frames[i].height < Len(bn2) /\ bn2[frames[i].height + 1] = bound[frames[i].height + 1]
       /\ Pushes(bound, frames) => Pushes(bn2, fr2)
       /\ bn2 \in Seq(Cell)
  <2>1. PopsTo(f, bn2)
    BY DEF Ends, PopsTo
  <2>2. PushedFirst(n, f, bn2)
    BY <2>1, PushedBefore
  <2>3. Keeps(n, fr2)
    BY <1>4 DEF Keeps
  <2> QED BY <2>2, <2>3 DEF PushedFirst
<1>13. Stacked(kind, garbage, bn2, fr2)
  <2>1. ASSUME NEW i \in 1..n
        PROVE  Goes(kind, garbage, bound, frames, kind, garbage, bn2, fr2, i)
    <3>1. CASE i = n
      <4>1. ~Pending(g)
        BY DEF Pending
      <4>2. Shape(g, kind, garbage)
        BY <1>2, <1>3 DEF Shape
      <4> QED BY <1>3, <1>4, <3>1, <4>1, <4>2 DEF Goes
    <3>2. CASE i \in 1..(n - 1)
      <4>1. fr2[i] = frames[i]
        BY <1>4, <3>2
      <4> QED BY <1>12, <3>2, <4>1 DEF Goes
    <3> QED BY <1>5, <3>1, <3>2
  <2>2. Stacked(kind, garbage, bound, frames)
    BY <1>0 DEF InOrder, Ledger, Books
  <2>3. Len(fr2) <= Len(frames)
    BY <1>0, <1>3, <1>4
  <2> QED BY <1>0, <1>4, <2>1, <2>2, <2>3, CutKeeps
<1>14. Numbered(cnt2, fr2)
  <2>1. ASSUME NEW i \in 1..n
        PROVE  Number(fr2[i], cnt2)
    <3>1. CASE i = n
      <4>1. f.op = "purge" => cnt2[c] = 0
        <5>1. f.op = "purge" => count[c] = 2
          BY <1>2, <1>3 DEF Number
        <5> QED BY <1>6, <5>1
      <4>2. f.op = "collect" => ~(cnt2[c] < High)
        BY <1>2, <1>3, <1>6 DEF Number
      <4> QED BY <1>2, <1>3, <1>4, <3>1, <4>1, <4>2 DEF Number
    <3>2. CASE i \in 1..(n - 1)
      <4>1. Number(frames[i], count) /\ fr2[i] = frames[i] /\ frames[i].cell \in Cell /\ frames[i].cell # c
        BY <1>0, <1>3, <1>4, <3>2, FramesType DEF InOrder, Ledger, Books, Numbered
      <4> QED BY <1>6, <4>1 DEF Number
    <3> QED BY <1>5, <3>1, <3>2
  <2> QED BY <1>4, <2>1 DEF Numbered
<1>15. Unused(kind, slot, cnt2, garbage, fr2) /\ ConsHigh(kind, cnt2, garbage)
  <2>1. Unused(kind, slot, count, garbage, frames) /\ ConsHigh(kind, count, garbage)
    BY <1>0 DEF InOrder, Ledger, Books
  <2>2. Unused(kind, slot, cnt2, garbage, fr2)
    BY <1>3, <1>6, <1>7, <2>1 DEF Unused
  <2>3. ConsHigh(kind, cnt2, garbage)
    BY <1>0, <1>6, <2>1 DEF ConsHigh
  <2> QED BY <2>2, <2>3
<1>16. Rests(count, garbage, bound, frames, cnt2, garbage, bn2, fr2)
  <2>1. Calm(fr2) <=> Calm(frames)
    <3>1. \A i \in 1..n : fr2[i].erred <=> frames[i].erred
      BY <1>3, <1>4, <1>5
    <3> QED BY <1>3, <1>4, <3>1 DEF Calm
  <2>2. Flags(garbage, count, frames) => Flags(garbage, cnt2, fr2)
    BY <1>0, <1>6, <1>7 DEF Flags
  <2> QED BY <1>6, <1>12, <2>1, <2>2 DEF Rests
<1>17. Withdraws(f.cell, m, slot, count, bound, frames, cnt2, bn2, fr2)
  BY <1>2, <1>11
<1> QED BY <1>13, <1>14, <1>15, <1>16, <1>17, WithdrawLedger

\* What is below the innermost death.
Lower(n, fr1) ==
  /\ fr1 \in Seq(Frame) /\ Len(fr1) = n - 1 /\ DOMAIN fr1 = 1..(n - 1)
  /\ \A i \in 1..(n - 1) : i \in DOMAIN frames /\ fr1[i] = frames[i]

\* Without the innermost, the others stay.
LEMMA BelowLower ==
  ASSUME frames \in Seq(Frame), NEW n, n = Len(frames), frames # <<>>
  PROVE  Lower(n, Below)
<1>1. n \in Nat /\ n # 0 /\ DOMAIN frames = 1..n /\ n - 1 \in Nat
  OBVIOUS
<1>2. Below = SubSeq(frames, 1, n - 1)
  BY DEF Below
<1>3. \A i \in 1..(n - 1) : i \in DOMAIN frames /\ frames[i] \in Frame
  BY <1>1
<1>4. /\ SubSeq(frames, 1, n - 1) \in Seq(Frame) /\ Len(SubSeq(frames, 1, n - 1)) = n - 1
      /\ DOMAIN SubSeq(frames, 1, n - 1) = 1..(n - 1)
      /\ \A i \in 1..(n - 1) : SubSeq(frames, 1, n - 1)[i] = frames[i]
  BY <1>1, <1>3
<1> QED BY <1>2, <1>3, <1>4 DEF Lower

\* The deaths below the innermost.
LowerDead(f, fr1) ==
  /\ Dead(fr1) = Dead(frames) \ {f.cell} /\ Destroying(fr1) = Destroying(frames) \ {f.cell}
  /\ Deleting(fr1) = Deleting(frames) \ {f.cell}

\* They are those of other cells.
LEMMA LowerIs ==
  ASSUME NEW n, NEW f, NEW fr1, Lower(n, fr1), n \in Nat, DOMAIN frames = 1..n, n \in DOMAIN frames,
         f = frames[n], \A i \in 1..(n - 1) : frames[i].cell # f.cell
  PROVE  LowerDead(f, fr1)
<1>1. /\ \A i \in DOMAIN fr1 : i \in DOMAIN frames /\ fr1[i] = frames[i] /\ frames[i].cell # f.cell
      /\ \A i \in DOMAIN frames : frames[i].cell # f.cell => i \in DOMAIN fr1 /\ fr1[i] = frames[i]
  <2>1. \A i \in 1..n : i = n \/ i \in 1..(n - 1)
    OBVIOUS
  <2> QED BY <2>1 DEF Lower
<1>2. Dead(fr1) = Dead(frames) \ {f.cell}
  BY <1>1 DEF Dead
<1>3. Destroying(fr1) = Destroying(frames) \ {f.cell}
  BY <1>1 DEF Destroying
<1>4. Deleting(fr1) = Deleting(frames) \ {f.cell}
  BY <1>1 DEF Deleting
<1> QED BY <1>2, <1>3, <1>4 DEF LowerDead

\* What (delete c) leaves: a zombie, which purge is at if nothing refers to it.
Leaves(n, f, cnt2, kd2, gb2, fr2) ==
  /\ kd2 = [kind EXCEPT ![f.cell] = "zombie"] /\ gb2 = garbage \ {f.cell}
  /\ \E fr1 : /\ Lower(n, fr1)
              /\ \/ cnt2[f.cell] # 0 /\ fr2 = fr1
                 \/ /\ cnt2[f.cell] = 0
                    /\ \E d \in Frame : /\ d.cell = f.cell /\ d.op = "purge" /\ d.phase = "slots"
                                        /\ d.todo = 1 /\ ~d.erred
                                        /\ fr2 = Append(fr1, d)

\* The deaths that are left.
Left(n, f, cnt2, fr2) ==
  /\ fr2 \in Seq(Frame) /\ Keeps(n, fr2)
  /\ Dead(fr2) \ {f.cell} = Dead(frames) \ {f.cell}
  /\ Destroying(fr2) = Destroying(frames) \ {f.cell} /\ Deleting(fr2) = Deleting(frames) \ {f.cell}
  /\ cnt2[f.cell] # 0 \/ f.cell \in Dead(fr2)
  /\ \A i \in DOMAIN fr2 : \/ i \in 1..(n - 1) /\ i \in DOMAIN frames /\ fr2[i] = frames[i]
                           \/ /\ fr2[i].cell = f.cell /\ fr2[i].op = "purge" /\ fr2[i].phase = "slots"
                              /\ fr2[i].todo = 1 /\ ~fr2[i].erred /\ cnt2[f.cell] = 0

\* The stack that (delete c) leaves.
LEMMA LeavesLeft ==
  ASSUME CoreInv, InLisp, NEW n, NEW f, AtTop(n, f), NEW cnt2, NEW kd2, NEW gb2, NEW fr2,
         Leaves(n, f, cnt2, kd2, gb2, fr2)
  PROVE  Left(n, f, cnt2, fr2)
<1>1. Runs(n, f)
  BY TopRuns
<1>2. PICK fr1 : /\ Lower(n, fr1)
                 /\ \/ cnt2[f.cell] # 0 /\ fr2 = fr1
                    \/ /\ cnt2[f.cell] = 0
                       /\ \E d \in Frame : /\ d.cell = f.cell /\ d.op = "purge" /\ d.phase = "slots"
                                           /\ d.todo = 1 /\ ~d.erred
                                           /\ fr2 = Append(fr1, d)
  BY DEF Leaves
<1>3. LowerDead(f, fr1)
  BY <1>1, <1>2, LowerIs DEF Runs
<1>4. /\ fr1 \in Seq(Frame) /\ DOMAIN fr1 = 1..(n - 1)
      /\ \A i \in 1..(n - 1) : i \in DOMAIN frames /\ fr1[i] = frames[i]
  BY <1>2 DEF Lower
<1>5. /\ Dead(fr1) = Dead(frames) \ {f.cell} /\ Destroying(fr1) = Destroying(frames) \ {f.cell}
      /\ Deleting(fr1) = Deleting(frames) \ {f.cell}
  BY <1>3 DEF LowerDead
<1>6. CASE cnt2[f.cell] # 0 /\ fr2 = fr1
  <2>1. Dead(fr1) \ {f.cell} = Dead(frames) \ {f.cell}
    BY <1>5
  <2> QED BY <1>4, <1>5, <1>6, <2>1 DEF Left, Keeps
<1>7. ASSUME cnt2[f.cell] = 0, NEW d \in Frame, d.cell = f.cell, d.op = "purge", d.phase = "slots",
             d.todo = 1, ~d.erred, fr2 = Append(fr1, d)
      PROVE  Left(n, f, cnt2, fr2)
  <2>1. /\ Dead(fr2) = Dead(fr1) \cup {d.cell}
        /\ Destroying(fr2) = Destroying(fr1) \cup (IF d.phase = "lisp" THEN {d.cell} ELSE {})
        /\ Deleting(fr2) = Deleting(fr1) \cup (IF d.op = "delete" THEN {d.cell} ELSE {})
        /\ \A i \in DOMAIN fr2 : (i \in DOMAIN fr1 /\ fr2[i] = fr1[i]) \/ fr2[i] = d
        /\ \A i \in DOMAIN fr1 : i \in DOMAIN fr2 /\ fr2[i] = fr1[i]
    <3>1. /\ Dead(Append(fr1, d)) = Dead(fr1) \cup {d.cell}
          /\ Destroying(Append(fr1, d)) = Destroying(fr1) \cup (IF d.phase = "lisp" THEN {d.cell} ELSE {})
          /\ Deleting(Append(fr1, d)) = Deleting(fr1) \cup (IF d.op = "delete" THEN {d.cell} ELSE {})
          /\ \A i \in DOMAIN Append(fr1, d) : \/ i \in DOMAIN fr1 /\ Append(fr1, d)[i] = fr1[i]
                                              \/ i = Len(fr1) + 1 /\ Append(fr1, d)[i] = d
          /\ \A i \in DOMAIN fr1 : i \in DOMAIN Append(fr1, d) /\ Append(fr1, d)[i] = fr1[i]
          /\ Len(fr1) + 1 \in DOMAIN Append(fr1, d) /\ Append(fr1, d)[Len(fr1) + 1] = d
      BY <1>4, DeadAppend
    <3> QED BY <1>7, <3>1, Zenon
  <2>2. fr2 \in Seq(Frame)
    BY <1>4, <1>7
  <2>3. Keeps(n, fr2)
    BY <1>4, <2>1 DEF Keeps
  <2>4. Destroying(fr2) = Destroying(frames) \ {f.cell} /\ Deleting(fr2) = Deleting(frames) \ {f.cell}
    BY <1>5, <1>7, <2>1
  <2>5. Dead(fr2) \ {f.cell} = Dead(frames) \ {f.cell} /\ f.cell \in Dead(fr2)
    BY <1>5, <1>7, <2>1
  <2>6. \A i \in DOMAIN fr2 : \/ i \in 1..(n - 1) /\ i \in DOMAIN frames /\ fr2[i] = frames[i]
                              \/ /\ fr2[i].cell = f.cell /\ fr2[i].op = "purge" /\ fr2[i].phase = "slots"
                                 /\ fr2[i].todo = 1 /\ ~fr2[i].erred /\ cnt2[f.cell] = 0
    BY <1>4, <1>7, <2>1
  <2> QED BY <2>2, <2>3, <2>4, <2>5, <2>6 DEF Left
<1> QED BY <1>2, <1>6, <1>7

\* It is in order.
LEMMA ReturnStacked ==
  ASSUME CoreInv, InLisp, NEW n, NEW f, AtTop(n, f), NEW cnt2, NEW bn2, PopsTo(f, bn2),
         NEW kd2, NEW gb2, NEW fr2, Leaves(n, f, cnt2, kd2, gb2, fr2)
  PROVE  Stacked(kd2, gb2, bn2, fr2)
<1>0. /\ InOrder
      /\ kind \in [Cell -> Kinds] /\ bound \in Seq(Cell) /\ frames \in Seq(Frame)
  BY CoreParts
<1>1. Runs(n, f)
  BY TopRuns
<1>2. /\ f.cell \in Cell /\ n \in Nat /\ n \in DOMAIN frames /\ DOMAIN frames = 1..n /\ f = frames[n]
      /\ \A i \in 1..(n - 1) : i \in DOMAIN frames /\ frames[i].cell # f.cell
  BY <1>1 DEF Runs
<1>3. /\ kd2 = [kind EXCEPT ![f.cell] = "zombie"] /\ gb2 = garbage \ {f.cell}
  BY DEF Leaves
<1>4. /\ kd2[f.cell] = "zombie" /\ \A x \in Cell : x # f.cell => kd2[x] = kind[x]
      /\ \A x \in garbage : x # f.cell => x \in gb2
  BY <1>0, <1>2, <1>3
<1>5. PushedFirst(n, f, bn2)
  BY PushedBefore
<1>6. bn2 \in Seq(Cell)
  BY <1>5 DEF PushedFirst
<1>7. ASSUME NEW fr1, Lower(n, fr1)
      PROVE  Stacked(kd2, gb2, bn2, fr1)
  <2>1. /\ fr1 \in Seq(Frame) /\ Len(fr1) = n - 1
        /\ \A i \in 1..(n - 1) : fr1[i] = frames[i]
    BY <1>7 DEF Lower
  <2>2. ASSUME NEW i \in 1..(n - 1)
        PROVE  Goes(kind, garbage, bound, frames, kd2, gb2, bn2, fr1, i)
    <3>1. fr1[i] = frames[i] /\ frames[i].cell # f.cell /\ frames[i].cell \in Cell
      BY <1>0, <1>2, <2>1, FramesType
    <3>2. kd2[frames[i].cell] = kind[frames[i].cell] /\ (frames[i].cell \in garbage => frames[i].cell \in gb2)
      BY <1>4, <3>1
    <3>3. Pending(frames[i]) =>
            frames[i].height < Len(bn2) /\ bn2[frames[i].height + 1] = bound[frames[i].height + 1]
      BY <1>5 DEF PushedFirst
    <3> QED BY <3>1, <3>2, <3>3 DEF Goes
  <2>3. Stacked(kind, garbage, bound, frames)
    BY <1>0 DEF InOrder, Ledger, Books
  <2>4. Len(fr1) <= Len(frames) /\ \A i \in 1..Len(fr1) : i \in 1..(n - 1)
    BY <1>0, <1>2, <2>1
  <2>5. \A i \in 1..Len(fr1) : Goes(kind, garbage, bound, frames, kd2, gb2, bn2, fr1, i)
    BY <2>2, <2>4
  <2> QED BY <1>0, <1>6, <2>1, <2>3, <2>4, <2>5, CutKeeps
<1>8. ASSUME NEW fr1, Lower(n, fr1), NEW d \in Frame, d.cell = f.cell, d.op = "purge", d.phase = "slots", ~d.erred
      PROVE  Stacked(kd2, gb2, bn2, Append(fr1, d))
  <2>1. Stacked(kd2, gb2, bn2, fr1) /\ fr1 \in Seq(Frame)
    BY <1>7, <1>8 DEF Lower
  <2>2. LowerDead(f, fr1)
    BY <1>2, <1>8, LowerIs
  <2>3. d.cell \notin Dead(fr1)
    BY <1>8, <2>2 DEF LowerDead
  <2>4. Shape(d, kd2, gb2)
    BY <1>4, <1>8 DEF Shape
  <2>5. Begins(kd2, gb2, gb2, bn2, bn2, fr1, d)
    BY <1>8, <2>3, <2>4 DEF Begins
  <2> QED BY <1>6, <2>1, <2>5, PushKeeps
<1> QED BY <1>7, <1>8 DEF Leaves

\* (delete c) returns.
LEMMA ReturnDelete ==
  ASSUME CoreInv, InLisp, NEW n, NEW f, AtTop(n, f), f.op = "delete",
         NEW m, NEW cnt2, NEW bn2, Ends(n, f, m, cnt2, bn2),
         NEW kd2, NEW gb2, NEW fr2, Leaves(n, f, cnt2, kd2, gb2, fr2)
  PROVE  Ledger(kd2, slot, cnt2, gb2, base, bn2, fr2, NIL)
<1>0. /\ InOrder
      /\ kind \in [Cell -> Kinds] /\ slot \in [Cell -> [Slot -> Ref]] /\ count \in Counts
      /\ bound \in Seq(Cell) /\ frames \in Seq(Frame) /\ garbage \in SUBSET Cell
  BY CoreParts
<1>1. Runs(n, f)
  BY TopRuns
<1>2. PICK c : c = f.cell
  OBVIOUS
<1>3. /\ c \in Cell /\ n \in Nat /\ n \in DOMAIN frames /\ DOMAIN frames = 1..n
      /\ f = frames[n] /\ f.phase = "lisp" /\ ~f.erred
      /\ \A i \in 1..(n - 1) : i \in DOMAIN frames /\ frames[i].cell # c
      /\ c \in Destroying(frames) /\ c \in Deleting(frames)
  BY <1>1, <1>2 DEF Runs
<1>4. /\ fr2 \in Seq(Frame) /\ Keeps(n, fr2)
      /\ Dead(fr2) \ {c} = Dead(frames) \ {c}
      /\ Destroying(fr2) = Destroying(frames) \ {c} /\ Deleting(fr2) = Deleting(frames) \ {c}
      /\ cnt2[c] # 0 \/ c \in Dead(fr2)
      /\ \A i \in DOMAIN fr2 : \/ i \in 1..(n - 1) /\ i \in DOMAIN frames /\ fr2[i] = frames[i]
                               \/ /\ fr2[i].cell = c /\ fr2[i].op = "purge" /\ fr2[i].phase = "slots"
                                  /\ fr2[i].todo = 1 /\ ~fr2[i].erred /\ cnt2[c] = 0
  BY <1>2, LeavesLeft DEF Left
<1>5. /\ kd2[c] = "zombie" /\ \A x \in Cell : x # c => kd2[x] = kind[x]
      /\ gb2 = garbage \ {c}
  BY <1>0, <1>2, <1>3 DEF Leaves
<1>6. /\ cnt2 \in Counts
      /\ \A x \in Cell : cnt2[x] < High <=> count[x] < High
      /\ \A x \in Cell : x # c => cnt2[x] = count[x]
  BY <1>2, <1>3 DEF Ends, Lowered
<1>7. Standing(slot, cnt2, fr2) = Standing(slot, count, frames)
  <2>1. ASSUME NEW x \in Cell, NEW s \in Slot
        PROVE  LetGo(x, s, fr2) <=> LetGo(x, s, frames)
    <3>1. ~(s < 1)
      BY HeapAssumption DEF Slot
    <3>2. \A i \in DOMAIN frames : frames[i].phase = "slots" => i \in DOMAIN fr2 /\ fr2[i] = frames[i]
      <4>1. \A i \in 1..n : i = n \/ i \in 1..(n - 1)
        BY <1>3
      <4> QED BY <1>3, <1>4, <4>1 DEF Keeps
    <3>3. \A i \in DOMAIN fr2 : \/ i \in DOMAIN frames /\ fr2[i] = frames[i]
                                \/ ~(s < fr2[i].todo)
      BY <1>4, <3>1
    <3> QED BY <3>2, <3>3 DEF LetGo
  <2>2. c \in Dead(frames)
    BY <1>2, <1>3 DEF Dead
  <2>3. ASSUME NEW x \in Cell, NEW s \in Slot
        PROVE  Counting(x, s, count, frames) <=> Counting(x, s, cnt2, fr2)
    <3>1. CASE x = c
      BY <1>4, <2>1, <2>2, <3>1 DEF Counting
    <3>2. CASE x # c
      <4>1. x \in Dead(fr2) <=> x \in Dead(frames)
        BY <1>4, <3>2
      <4> QED BY <1>6, <2>1, <3>2, <4>1 DEF Counting
    <3> QED BY <3>1, <3>2
  <2> QED BY <2>3, StandingSame
<1>8. Withdraws(f.cell, m, slot, count, bound, frames, cnt2, bn2, fr2)
  <2>1. \E h \in Nat : h < Len(bound) /\ bound[h + 1] = f.cell /\ bn2 = SubSeq(bound, 1, h)
    BY <1>1 DEF Runs, Ends
  <2> QED BY <1>2, <1>3, <1>4, <1>7, <2>1 DEF Withdraws, Ends
<1>9. PopsTo(f, bn2)
  BY DEF Ends, PopsTo
<1>10. Stacked(kd2, gb2, bn2, fr2)
  BY <1>9, ReturnStacked
<1>11. Numbered(cnt2, fr2)
  <2>1. ASSUME NEW i \in DOMAIN fr2
        PROVE  Number(fr2[i], cnt2)
    <3>1. CASE i \in 1..(n - 1) /\ i \in DOMAIN frames /\ fr2[i] = frames[i]
      <4>1. Number(frames[i], count) /\ frames[i].cell \in Cell /\ frames[i].cell # c
        BY <1>0, <1>3, <3>1, FramesType DEF InOrder, Ledger, Books, Numbered
      <4> QED BY <1>6, <3>1, <4>1 DEF Number
    <3>2. CASE /\ fr2[i].cell = c /\ fr2[i].op = "purge" /\ fr2[i].phase = "slots"
               /\ fr2[i].todo = 1 /\ ~fr2[i].erred /\ cnt2[c] = 0
      BY <3>2 DEF Number
    <3> QED BY <1>4, <3>1, <3>2
  <2> QED BY <2>1 DEF Numbered
<1>12. Unused(kd2, slot, cnt2, gb2, fr2)
  <2>1. Unused(kind, slot, count, garbage, frames)
    BY <1>0 DEF InOrder, Ledger, Books
  <2>2. ASSUME NEW x \in Cell, kd2[x] = "free"
        PROVE  cnt2[x] = 0 /\ slot[x] = None /\ x \notin Dead(fr2) /\ x \notin gb2
    <3>1. x # c /\ kind[x] = "free"
      BY <1>5, <2>2
    <3>2. count[x] = 0 /\ slot[x] = None /\ x \notin Dead(frames) /\ x \notin garbage
      BY <2>1, <3>1 DEF Unused
    <3> QED BY <1>4, <1>5, <1>6, <3>1, <3>2
  <2> QED BY <2>2 DEF Unused
<1>13. ConsHigh(kd2, cnt2, gb2)
  <2>1. ConsHigh(kind, count, garbage)
    BY <1>0 DEF InOrder, Ledger, Books
  <2>2. \A x \in gb2 : x \in garbage /\ x \in Cell /\ x # c
    BY <1>0, <1>5
  <2> QED BY <1>5, <1>6, <2>1, <2>2 DEF ConsHigh
<1>14. Rests(count, garbage, bound, frames, cnt2, gb2, bn2, fr2)
  <2>1. Calm(fr2) <=> Calm(frames)
    <3>1. \A i \in DOMAIN frames : frames[i].erred => i \in DOMAIN fr2 /\ fr2[i] = frames[i]
      <4>1. \A i \in 1..n : i = n \/ i \in 1..(n - 1)
        BY <1>3
      <4> QED BY <1>3, <1>4, <4>1 DEF Keeps
    <3>2. \A i \in DOMAIN fr2 : fr2[i].erred => i \in DOMAIN frames /\ fr2[i] = frames[i]
      BY <1>4
    <3> QED BY <3>1, <3>2 DEF Calm
  <2>2. Flags(garbage, count, frames) => Flags(gb2, cnt2, fr2)
    <3>1. \A x \in gb2 : x \in garbage /\ x \in Cell /\ x # c
      BY <1>0, <1>5
    <3>2. \A x \in gb2 : x \in Dead(frames) => x \in Dead(fr2)
      BY <1>4, <3>1
    <3> QED BY <1>6, <3>1, <3>2 DEF Flags
  <2>3. Pushes(bound, frames) => Pushes(bn2, fr2)
    <3>1. PushedFirst(n, f, bn2)
      BY <1>9, PushedBefore
    <3> QED BY <1>4, <3>1 DEF PushedFirst
  <2> QED BY <1>6, <2>1, <2>2, <2>3 DEF Rests
<1> QED BY <1>8, <1>10, <1>11, <1>12, <1>13, <1>14, WithdrawLedger

\* A destructor that returns keeps the ledger.
LEMMA ReturnLedger ==
  ASSUME CoreInv, Return
  PROVE  InOrder'
<1>0. /\ kind \in [Cell -> Kinds] /\ slot \in [Cell -> [Slot -> Ref]] /\ count \in Counts
      /\ bound \in Seq(Cell) /\ frames \in Seq(Frame) /\ garbage \in SUBSET Cell
  BY CoreParts
<1>1. InLisp
  BY DEF Return
<1>2. PICK n, f, c : n = Len(frames) /\ f = frames[n] /\ c = f.cell
  OBVIOUS
<1>3. AtTop(n, f) /\ Top = f /\ frames # <<>>
  BY <1>1, <1>2 DEF AtTop, Top, InLisp
<1>4. Runs(n, f)
  BY <1>1, <1>3, TopRuns
<1>5. /\ c \in Cell /\ n \in Nat /\ n \in DOMAIN frames /\ f \in Frame /\ ~f.erred /\ f.todo = 1
      /\ f.height \in Nat /\ (c \in Deleting(frames) <=> f.op = "delete")
  BY <1>2, <1>4 DEF Runs
<1>6. 2 + In(c, Deleting(frames)) <= count[c] % High
  BY <1>1, <1>2, <1>3, TopCount
<1>7. count[c] % High \in Nat
  <2>1. count[c] \in Nat
    BY <1>0, <1>5 DEF Counts
  <2> QED BY <2>1, RestType
<1>8. UNCHANGED <<slot, base, collector, exact>>
  BY DEF Return, passes
<1>9. CASE f.op # "delete"
  <2>1. /\ bound' = SubSeq(bound, 1, f.height) /\ count' = Minus(count, c, 2)
        /\ frames' = [frames EXCEPT ![n].phase = "slots", ![n].ops = 0]
        /\ kind' = kind /\ garbage' = garbage
    BY <1>2, <1>3, <1>9 DEF Return
  <2>2. PICK g : g = [f EXCEPT !.phase = "slots", !.ops = 0]
    OBVIOUS
  <2>3. /\ g \in Frame /\ g.cell = f.cell /\ g.op = f.op /\ g.phase = "slots" /\ g.todo = 1 /\ ~g.erred
        /\ g.height = f.height
    <3>1. /\ g.cell = f.cell /\ g.op = f.op /\ g.phase = "slots" /\ g.todo = f.todo /\ g.erred = f.erred
          /\ g.height = f.height
      BY <1>5, <2>2 DEF Frame
    <3>2. 0 \in 0..MaxOps
      BY HeapAssumption
    <3>3. g \in Frame
      BY <1>5, <2>2, <3>2 DEF Frame
    <3> QED BY <1>5, <3>1, <3>3
  <2>4. [frames EXCEPT ![n].phase = "slots", ![n].ops = 0] = [frames EXCEPT ![n] = g]
    BY <1>0, <1>2, <1>5, <2>2
  <2>5. PICK cnt, bn, fr : cnt = Minus(count, c, 2) /\ bn = SubSeq(bound, 1, f.height)
                           /\ fr = [frames EXCEPT ![n] = g]
    OBVIOUS
  <2>6. In(c, Deleting(frames)) = 0
    BY <1>5, <1>9 DEF In
  <2>7. Lowered(count, c, 2, Minus(count, c, 2))
    <3>1. 2 <= count[c] % High
      BY <1>6, <2>6
    <3> QED BY <1>0, <1>5, <3>1, MinusLowers
  <2>8. Ends(n, f, 2, cnt, bn)
    BY <1>2, <2>5, <2>6, <2>7 DEF Ends
  <2>9. Replaced(n, g, fr)
    BY <1>0, <1>2, <1>3, <2>3, <2>5, TopReplaced
  <2>10. Ledger(kind, slot, cnt, garbage, base, bn, fr, NIL)
    BY <1>1, <1>3, <1>9, <2>3, <2>8, <2>9, ReturnSlots
  <2>11. count' = cnt /\ bound' = bn /\ frames' = fr
    BY <2>1, <2>4, <2>5
  <2> QED BY <1>8, <2>1, <2>10, <2>11 DEF InOrder, Ledger, Pushes
<1>10. CASE f.op = "delete"
  <2>1. PICK d : d = Death("purge", c, "slots", FALSE, f.height)
    OBVIOUS
  <2>2. PICK cnt : cnt = Minus(Minus(count, c, 2), c, 1)
    OBVIOUS
  <2>3. /\ bound' = SubSeq(bound, 1, f.height) /\ count' = cnt
        /\ kind' = [kind EXCEPT ![c] = "zombie"] /\ garbage' = garbage \ {c}
        /\ frames' = IF cnt[c] # 0 THEN Below ELSE Append(Below, d)
    BY <1>2, <1>3, <1>10, <2>1, <2>2 DEF Return
  <2>4. d \in Frame
    BY <1>5, <2>1, DeathType DEF Ops
  <2>5. d.cell = f.cell /\ d.op = "purge" /\ d.phase = "slots" /\ d.todo = 1 /\ ~d.erred
    BY <1>2, <2>1 DEF Death
  <2>6. In(c, Deleting(frames)) = 1
    BY <1>5, <1>10 DEF In
  <2>7. Lowered(count, c, 3, cnt)
    <3>1. 3 <= count[c] % High
      BY <1>6, <1>7, <2>6
    <3>2. Lowered(count, c, 3, Minus(Minus(count, c, 2), c, 1))
      BY <1>0, <1>5, <3>1, LoweredTwice
    <3> QED BY <2>2, <3>2
  <2>8. PICK bn, kd, gb, fr : /\ bn = SubSeq(bound, 1, f.height) /\ kd = [kind EXCEPT ![c] = "zombie"]
                              /\ gb = garbage \ {c} /\ fr = IF cnt[c] # 0 THEN Below ELSE Append(Below, d)
    OBVIOUS
  <2>9. Ends(n, f, 3, cnt, bn)
    BY <1>2, <2>6, <2>7, <2>8 DEF Ends
  <2>10. Lower(n, Below)
    BY <1>0, <1>2, <1>3, BelowLower
  <2>11. Leaves(n, f, cnt, kd, gb, fr)
    <3>1. CASE cnt[c] # 0
      BY <1>2, <2>8, <2>10, <3>1 DEF Leaves
    <3>2. CASE cnt[c] = 0
      BY <1>2, <2>4, <2>5, <2>8, <2>10, <3>2 DEF Leaves
    <3> QED BY <3>1, <3>2
  <2>12. Ledger(kd, slot, cnt, gb, base, bn, fr, NIL)
    BY <1>1, <1>3, <1>10, <2>9, <2>11, ReturnDelete
  <2>13. kind' = kd /\ garbage' = gb /\ count' = cnt /\ bound' = bn /\ frames' = fr
    BY <2>3, <2>8
  <2> QED BY <1>8, <2>12, <2>13 DEF InOrder, Ledger, Pushes
<1> QED BY <1>9, <1>10

\* The innermost death is f, which lets its slots go.
Slotting(n, f) ==
  /\ n \in Nat /\ n \in DOMAIN frames /\ DOMAIN frames = 1..n
  /\ f \in Frame /\ f.cell \in Cell /\ f.todo \in Nat /\ f = frames[n]
  /\ f.phase = "slots" /\ f.op \in {"purge", "collect", "sweep"} /\ kind[f.cell] # "free"
  /\ f.erred => f.op \in {"purge", "collect"} /\ kind[f.cell] = "object"
  /\ f.op = "collect" => kind[f.cell] = "object"
  /\ f.op = "sweep" => kind[f.cell] = "zombie"
  /\ \A i \in 1..(n - 1) : i \in DOMAIN frames /\ frames[i].cell # f.cell
  /\ f.cell \in Dead(frames) /\ f.cell \notin Destroying(frames) /\ f.cell \notin Deleting(frames)
  /\ \A s \in Slot : LetGo(f.cell, s, frames) <=> s < f.todo
  /\ Number(f, count)

\* What holds of the death that lets its slots go.
LEMMA TopSlots ==
  ASSUME CoreInv, NEW n, NEW f, AtTop(n, f), frames # <<>>, f.phase = "slots"
  PROVE  Slotting(n, f)
<1>0. /\ InOrder
      /\ frames \in Seq(Frame)
  BY CoreParts
<1>1. n = Len(frames) /\ f = frames[n]
  BY DEF AtTop
<1>2. n \in Nat /\ n \in DOMAIN frames /\ DOMAIN frames = 1..n
  BY <1>0, <1>1
<1>3. f \in Frame
  BY <1>0, <1>1, <1>2
<1>4. f.cell \in Cell /\ f.todo \in Nat /\ f.op \in Ops
  BY <1>3 DEF Frame, Ops
<1>5. Stacked(kind, garbage, bound, frames) /\ Numbered(count, frames)
  BY <1>0 DEF InOrder, Ledger, Books
<1>6. /\ f.op # "delete" /\ kind[f.cell] # "free"
      /\ f.erred => f.op \in {"purge", "collect"} /\ kind[f.cell] = "object"
      /\ f.op = "collect" => kind[f.cell] = "object"
      /\ f.op = "sweep" => kind[f.cell] = "zombie"
  <2>1. Shape(f, kind, garbage)
    BY <1>1, <1>2, <1>5 DEF Stacked, Shaped
  <2> QED BY <2>1 DEF Shape
<1>7. f.op \in {"purge", "collect", "sweep"}
  BY <1>4, <1>6 DEF Ops
<1>8. Number(f, count)
  BY <1>1, <1>2, <1>5 DEF Numbered
<1>9. \A i \in DOMAIN frames : frames[i].cell = f.cell => i = n
  BY <1>1, <1>2, <1>5 DEF Stacked, Apart
<1>10. ASSUME NEW i \in 1..(n - 1)
       PROVE  i \in DOMAIN frames /\ frames[i].cell # f.cell
  <2>1. i \in DOMAIN frames /\ i # n
    BY <1>2
  <2> QED BY <1>9, <2>1
<1>11. f.cell \in Dead(frames)
  BY <1>1, <1>2 DEF Dead
<1>12. f.cell \notin Destroying(frames) /\ f.cell \notin Deleting(frames)
  <2>1. f.cell \notin Destroying(frames)
    BY <1>1, <1>9 DEF Destroying
  <2>2. f.cell \notin Deleting(frames)
    BY <1>1, <1>6, <1>9 DEF Deleting
  <2> QED BY <2>1, <2>2
<1>13. ASSUME NEW s \in Slot
       PROVE  LetGo(f.cell, s, frames) <=> s < f.todo
  BY <1>1, <1>2, <1>9 DEF LetGo
<1> QED BY <1>1, <1>2, <1>3, <1>4, <1>6, <1>7, <1>8, <1>10, <1>11, <1>12, <1>13 DEF Slotting

\* The slots of the innermost death are gone, and so is the death.
LEMMA LowerStanding ==
  ASSUME CoreInv, NEW n, NEW f, Slotting(n, f), NEW fr1, Lower(n, fr1),
         NEW sl2, \A x \in Cell : sl2[x] = IF x = f.cell THEN None ELSE slot[x]
  PROVE  \A p \in Cell \X Slot :
           Standing(sl2, count, fr1)[p] = IF p[1] = f.cell THEN NIL ELSE Standing(slot, count, frames)[p]
<1>1. /\ n \in Nat /\ DOMAIN frames = 1..n /\ f = frames[n] /\ n \in DOMAIN frames
      /\ \A i \in 1..(n - 1) : i \in DOMAIN frames /\ frames[i].cell # f.cell
  BY DEF Slotting
<1>2. LowerDead(f, fr1)
  BY <1>1, LowerIs
<1>3. Dead(fr1) = Dead(frames) \ {f.cell}
  BY <1>2 DEF LowerDead
<1>4. ASSUME NEW x \in Cell, x # f.cell, NEW s \in Slot
      PROVE  LetGo(x, s, fr1) <=> LetGo(x, s, frames)
  <2>1. \A i \in DOMAIN fr1 : i \in DOMAIN frames /\ fr1[i] = frames[i]
    BY DEF Lower
  <2>2. \A i \in DOMAIN frames : frames[i].cell # f.cell => i \in DOMAIN fr1 /\ fr1[i] = frames[i]
    <3>1. \A i \in 1..n : i = n \/ i \in 1..(n - 1)
      BY <1>1
    <3> QED BY <1>1, <3>1 DEF Lower
  <2> QED BY <1>4, <2>1, <2>2 DEF LetGo
<1>5. ASSUME NEW p \in Cell \X Slot, p[1] # f.cell
      PROVE  Standing(sl2, count, fr1)[p] = Standing(slot, count, frames)[p]
  <2>1. p[1] \in Cell /\ p[2] \in Slot
    OBVIOUS
  <2>2. Counting(p[1], p[2], count, fr1) <=> Counting(p[1], p[2], count, frames)
    BY <1>3, <1>4, <1>5, <2>1 DEF Counting
  <2>3. sl2[p[1]][p[2]] = slot[p[1]][p[2]]
    BY <1>5, <2>1
  <2> QED BY <2>2, <2>3 DEF Standing
<1>6. ASSUME NEW p \in Cell \X Slot, p[1] = f.cell
      PROVE  Standing(sl2, count, fr1)[p] = NIL
  <2>1. p[1] \in Cell /\ p[2] \in Slot /\ sl2[p[1]][p[2]] = NIL
    BY <1>6 DEF None
  <2> QED BY <2>1 DEF Standing
<1> QED BY <1>5, <1>6

\* A death is over.
Ended(n, f, fr1, kd2, sl2, gb2) ==
  /\ Slotting(n, f) /\ Lower(n, fr1)
  /\ \A x \in Cell : sl2[x] = IF x = f.cell THEN None ELSE slot[x]
  /\ \A x \in Cell : x # f.cell => kd2[x] = kind[x]
  /\ gb2 \in SUBSET Cell /\ \A x \in Cell : x # f.cell => (x \in gb2 <=> x \in garbage)
  /\ \/ kd2[f.cell] = "free" /\ count[f.cell] = 0 /\ f.cell \notin gb2
     \/ kd2[f.cell] = "zombie" /\ (f.cell \in gb2 => ~(count[f.cell] < High))

\* The end of a death leaves the others in order, and the cell free, which
\* then has no reference, or a zombie.
LEMMA EndedStacked ==
  ASSUME CoreInv, NEW n, NEW f, NEW fr1, NEW kd2, NEW sl2, NEW gb2, Ended(n, f, fr1, kd2, sl2, gb2)
  PROVE  /\ Stacked(kd2, gb2, bound, fr1) /\ Numbered(count, fr1)
         /\ Unused(kd2, sl2, count, gb2, fr1) /\ ConsHigh(kd2, count, gb2)
<1>0. /\ InOrder
      /\ bound \in Seq(Cell) /\ frames \in Seq(Frame)
  BY CoreParts
<1>1. /\ Stacked(kind, garbage, bound, frames) /\ Numbered(count, frames)
      /\ Unused(kind, slot, count, garbage, frames) /\ ConsHigh(kind, count, garbage)
  BY <1>0 DEF InOrder, Ledger, Books
<1>2. /\ n \in Nat /\ DOMAIN frames = 1..n /\ f = frames[n] /\ n \in DOMAIN frames /\ f.cell \in Cell
      /\ \A i \in 1..(n - 1) : i \in DOMAIN frames /\ frames[i].cell # f.cell
  BY DEF Ended, Slotting
<1>3. /\ \A x \in Cell : sl2[x] = IF x = f.cell THEN None ELSE slot[x]
      /\ \A x \in Cell : x # f.cell => kd2[x] = kind[x]
      /\ gb2 \in SUBSET Cell /\ \A x \in Cell : x # f.cell => (x \in gb2 <=> x \in garbage)
      /\ \/ kd2[f.cell] = "free" /\ count[f.cell] = 0 /\ f.cell \notin gb2
         \/ kd2[f.cell] = "zombie" /\ (f.cell \in gb2 => ~(count[f.cell] < High))
  BY DEF Ended
<1>4. /\ fr1 \in Seq(Frame) /\ Len(fr1) = n - 1 /\ DOMAIN fr1 = 1..(n - 1)
      /\ \A i \in 1..(n - 1) : fr1[i] = frames[i]
  BY DEF Ended, Lower
<1>5. Stacked(kd2, gb2, bound, fr1)
  <2>1. ASSUME NEW i \in 1..(n - 1)
        PROVE  Goes(kind, garbage, bound, frames, kd2, gb2, bound, fr1, i)
    <3>1. fr1[i] = frames[i] /\ frames[i].cell # f.cell /\ frames[i].cell \in Cell
      BY <1>0, <1>2, <1>4, FramesType
    <3>2. kd2[frames[i].cell] = kind[frames[i].cell] /\ (frames[i].cell \in garbage => frames[i].cell \in gb2)
      BY <1>3, <3>1
    <3>3. Pending(frames[i]) => frames[i].height < Len(bound)
      BY <1>1, <1>2 DEF Stacked, Binds
    <3> QED BY <3>1, <3>2, <3>3 DEF Goes
  <2>2. Len(fr1) <= Len(frames) /\ \A i \in 1..Len(fr1) : i \in 1..(n - 1)
    BY <1>0, <1>2, <1>4
  <2>3. \A i \in 1..Len(fr1) : Goes(kind, garbage, bound, frames, kd2, gb2, bound, fr1, i)
    BY <2>1, <2>2
  <2> QED BY <1>0, <1>1, <1>4, <2>2, <2>3, CutKeeps
<1>6. Numbered(count, fr1)
  BY <1>1, <1>2, <1>4 DEF Numbered
<1>7. Dead(fr1) = Dead(frames) \ {f.cell}
  <2>1. LowerDead(f, fr1)
    BY <1>2, LowerIs DEF Ended
  <2> QED BY <2>1 DEF LowerDead
<1>8. Unused(kd2, sl2, count, gb2, fr1)
  <2>1. ASSUME NEW x \in Cell, kd2[x] = "free"
        PROVE  count[x] = 0 /\ sl2[x] = None /\ x \notin Dead(fr1) /\ x \notin gb2
    <3>1. CASE x = f.cell
      BY <1>3, <1>7, <2>1, <3>1
    <3>2. CASE x # f.cell
      <4>1. kind[x] = "free"
        BY <1>3, <2>1, <3>2
      <4>2. count[x] = 0 /\ slot[x] = None /\ x \notin Dead(frames) /\ x \notin garbage
        BY <1>1, <4>1 DEF Unused
      <4> QED BY <1>3, <1>7, <3>2, <4>2
    <3> QED BY <3>1, <3>2
  <2> QED BY <2>1 DEF Unused
<1>9. ConsHigh(kd2, count, gb2)
  <2>1. ASSUME NEW x \in gb2, kd2[x] = "cons"
        PROVE  ~(count[x] < High)
    <3>1. x \in Cell /\ x # f.cell
      BY <1>3, <2>1
    <3>2. x \in garbage /\ kind[x] = "cons"
      BY <1>3, <2>1, <3>1
    <3> QED BY <1>1, <3>2 DEF ConsHigh
  <2> QED BY <2>1 DEF ConsHigh
<1> QED BY <1>5, <1>6, <1>8, <1>9

\* What had let go all its slots counted for nothing.
LEMMA EndedTotal ==
  ASSUME CoreInv, NEW n, NEW f, NEW fr1, NEW kd2, NEW sl2, NEW gb2, Ended(n, f, fr1, kd2, sl2, gb2),
         f.todo > Slots, NEW x
  PROVE  Total(x, sl2, count, base, bound, fr1) = Total(x, slot, count, base, bound, frames)
<1>1. /\ Slotting(n, f) /\ Lower(n, fr1)
      /\ \A c \in Cell : sl2[c] = IF c = f.cell THEN None ELSE slot[c]
  BY DEF Ended
<1>2. Standing(sl2, count, fr1) = Standing(slot, count, frames)
  <2>1. \A p \in Cell \X Slot :
           Standing(sl2, count, fr1)[p] = IF p[1] = f.cell THEN NIL ELSE Standing(slot, count, frames)[p]
    BY <1>1, LowerStanding
  <2>2. ASSUME NEW p \in Cell \X Slot, p[1] = f.cell
        PROVE  Standing(slot, count, frames)[p] = NIL
    <3>1. p[2] \in Slot /\ p[1] \in Cell
      OBVIOUS
    <3>2. p[2] < f.todo
      BY <1>1, <3>1, HeapAssumption DEF Slotting, Slot
    <3>3. LetGo(p[1], p[2], frames)
      BY <1>1, <2>2, <3>1, <3>2 DEF Slotting
    <3> QED BY <3>3 DEF Standing, Counting
  <2>3. \A p \in Cell \X Slot : Standing(sl2, count, fr1)[p] = Standing(slot, count, frames)[p]
    BY <2>1, <2>2
  <2> QED BY <2>3, Zenon DEF Standing
<1>3. Destroying(fr1) = Destroying(frames) /\ Deleting(fr1) = Deleting(frames)
  <2>1. LowerDead(f, fr1)
    BY <1>1, LowerIs DEF Slotting
  <2> QED BY <1>1, <2>1 DEF LowerDead, Slotting
<1> QED BY <1>2, <1>3, Zenon DEF Total

\* Deaths that an error ends count no more.
Lessens(x, sl, cnt, bs, bn, fr, cnt2, fr2) ==
  /\ Total(x, sl, cnt2, bs, bn, fr2) <= Total(x, sl, cnt, bs, bn, fr)
  /\ x \in Destroying(fr) /\ x \notin Destroying(fr2) =>
       Total(x, sl, cnt2, bs, bn, fr2) + 1 <= Total(x, sl, cnt, bs, bn, fr)

\* With fewer deaths and fewer places there are no more references.
LEMMA TotalLess ==
  ASSUME NEW sl \in [Cell -> [Slot -> Ref]], NEW cnt \in Counts, NEW bs \in [Name -> Ref],
         NEW bn \in Seq(Cell), NEW fr, NEW cnt2 \in Counts, NEW fr2,
         \A p \in Cell \X Slot : \/ Standing(sl, cnt2, fr2)[p] = Standing(sl, cnt, fr)[p]
                                 \/ Standing(sl, cnt2, fr2)[p] = NIL,
         Destroying(fr2) \subseteq Destroying(fr), Deleting(fr2) \subseteq Deleting(fr), NEW x \in Cell
  PROVE  Lessens(x, sl, cnt, bs, bn, fr, cnt2, fr2)
<1>1. PICK st, st2 : st = Standing(sl, cnt, fr) /\ st2 = Standing(sl, cnt2, fr2)
  OBVIOUS
<1>2. PICK b, v, s, s2 : b = Times(bs, x) /\ v = Times(bn, x) /\ s = Times(st, x) /\ s2 = Times(st2, x)
  OBVIOUS
<1>3. b \in Nat /\ v \in Nat /\ s \in Nat
  BY <1>1, <1>2, TotalType
<1>4. s2 \in Nat /\ s2 <= s
  <2>1. IsFiniteSet(Cell \X Slot)
    BY PlacesFinite
  <2>2. st \in [Cell \X Slot -> Ref] /\ DOMAIN st2 = Cell \X Slot
    BY <1>1 DEF Standing, Ref
  <2>3. x # NIL /\ \A p \in Cell \X Slot : st2[p] = st[p] \/ st2[p] = NIL
    BY <1>1, HeapAssumption DEF Cell
  <2>4. Times(st2, x) \in Nat /\ Times(st2, x) <= Times(st, x)
    BY <2>1, <2>2, <2>3, TimesLess
  <2> QED BY <1>2, <2>4
<1>5. PICK p, q, p2, q2 : /\ p = In(x, Destroying(fr)) /\ q = In(x, Deleting(fr))
                          /\ p2 = In(x, Destroying(fr2)) /\ q2 = In(x, Deleting(fr2))
  OBVIOUS
<1>6. /\ p \in {0, 1} /\ q \in {0, 1} /\ p2 \in {0, 1} /\ q2 \in {0, 1} /\ p2 <= p /\ q2 <= q
      /\ x \in Destroying(fr) /\ x \notin Destroying(fr2) => p = 1 /\ p2 = 0
  BY <1>5 DEF In
<1>7. /\ Total(x, sl, cnt, bs, bn, fr) = b + v + s + p + q
      /\ Total(x, sl, cnt2, bs, bn, fr2) = b + v + s2 + p2 + q2
  BY <1>1, <1>2, <1>5 DEF Total
<1>8. b + v + s2 + p2 + q2 <= b + v + s + p + q
  BY <1>3, <1>4, <1>6
<1>9. p = 1 /\ p2 = 0 => b + v + s2 + p2 + q2 + 1 <= b + v + s + p + q
  BY <1>3, <1>4, <1>6
<1> QED BY <1>6, <1>7, <1>8, <1>9 DEF Lessens

\* Deaths that an error may end.
Stops(kd, gb, bn, fr) ==
  Stacked(kd, gb, bn, fr) /\ Numbered(count, fr) /\ \A i \in DOMAIN fr : Stoppable(fr[i])

\* Where an error may jump out of a death, the slots that it lets go belong to
\* a cell whose count is zero: they do not count any more.
LEMMA StoppedSlots ==
  ASSUME NEW kd, NEW gb, NEW bn, NEW fr \in Seq(Frame), Stops(kd, gb, bn, fr),
         NEW i \in DOMAIN fr, fr[i].phase # "lisp"
  PROVE  count[fr[i].cell] = 0
<1>1. fr[i].op \in {"purge", "delete", "collect", "sweep"}
  <2>1. fr[i] \in Frame
    OBVIOUS
  <2> QED BY <2>1 DEF Frame
<1>2. Shape(fr[i], kd, gb) /\ Number(fr[i], count) /\ Stoppable(fr[i])
  BY DEF Stops, Stacked, Shaped, Numbered
<1>3. fr[i].op = "purge" /\ ~fr[i].erred
  BY <1>1, <1>2 DEF Shape, Stoppable
<1> QED BY <1>2, <1>3 DEF Number

\* The jump lands in the death i of fr, or, for i = 0, in start_lisp.
Lands(fr, i, fr2, cnt2) ==
  /\ i \in Nat /\ i <= Len(fr) /\ fr2 \in Seq(Frame) /\ Len(fr2) = i /\ DOMAIN fr2 = 1..i
  /\ \A j \in 1..i : j \in DOMAIN fr /\ fr2[j].cell = fr[j].cell /\ fr2[j].op = fr[j].op
                     /\ fr2[j].height = fr[j].height
  /\ \A j \in 1..(i - 1) : fr2[j] = fr[j]
  /\ i = 0 => cnt2 = count
  /\ i # 0 => /\ fr[i].phase = "lisp" /\ fr[i].op \in {"purge", "collect"}
              /\ fr2[i].phase = "slots" /\ fr2[i].erred
              /\ cnt2 = Minus(count, fr[i].cell, 1)

\* An error lands at a destructor, or ends every death.
LEMMA UnwindLands ==
  ASSUME NEW fr \in Seq(Frame), Unwind(fr)
  PROVE  /\ \E i : Lands(fr, i, frames', count')
         /\ exact' = FALSE /\ (collector' = "due" \/ (collector' = collector /\ ~Calm(frames')))
<1>0. exact' = FALSE
  BY DEF Unwind
<1>1. CASE Handlers(fr) = {}
  <2>1. frames' = <<>> /\ collector' = "due" /\ count' = count
    BY <1>1 DEF Unwind
  <2>2. Len(fr) \in Nat
    OBVIOUS
  <2>3. <<>> \in Seq(Frame) /\ Len(<<>>) = 0 /\ DOMAIN <<>> = 1..0 /\ 0 \in Nat /\ 0 <= Len(fr)
    BY <2>2
  <2>4. Lands(fr, 0, <<>>, count)
    BY <2>3 DEF Lands
  <2> QED BY <1>0, <2>1, <2>4
<1>2. CASE Handlers(fr) # {}
  <2>1. PICK i \in Handlers(fr) :
          /\ frames' = [SubSeq(fr, 1, i) EXCEPT ![i].phase = "slots", ![i].erred = TRUE, ![i].ops = 0]
          /\ count' = Minus(count, fr[i].cell, 1)
          /\ UNCHANGED collector
    BY <1>2 DEF Unwind
  <2>2. i \in DOMAIN fr /\ fr[i].phase = "lisp" /\ fr[i].op \in {"purge", "collect"} /\ fr[i] \in Frame
    BY DEF Handlers
  <2>3. i \in Nat /\ i # 0 /\ i <= Len(fr) /\ Len(fr) \in Nat
    BY <2>2
  <2>4. PICK upto : upto = SubSeq(fr, 1, i)
    OBVIOUS
  <2>5. /\ upto \in Seq(Frame) /\ Len(upto) = i /\ DOMAIN upto = 1..i
        /\ \A j \in 1..i : j \in DOMAIN fr /\ upto[j] = fr[j]
    BY <2>2, <2>3, <2>4
  <2>6. PICK d : d = [fr[i] EXCEPT !.phase = "slots", !.erred = TRUE, !.ops = 0]
    OBVIOUS
  <2>7. d \in Frame /\ d.cell = fr[i].cell /\ d.op = fr[i].op /\ d.height = fr[i].height
        /\ d.phase = "slots" /\ d.erred
    <3>1. 0 \in 0..MaxOps
      BY HeapAssumption
    <3>2. \A f \in Frame : LET g == [f EXCEPT !.phase = "slots", !.erred = TRUE, !.ops = 0]
                          IN  /\ g \in Frame /\ g.cell = f.cell /\ g.op = f.op /\ g.height = f.height
                              /\ g.phase = "slots" /\ g.erred
      BY <3>1 DEF Frame
    <3> QED BY <2>2, <2>6, <3>2
  <2>8. frames' = [upto EXCEPT ![i] = d]
    <3>1. i \in DOMAIN upto /\ upto[i] = fr[i]
      BY <2>3, <2>5
    <3> QED BY <2>1, <2>4, <2>5, <2>6, <3>1
  <2>9. PICK fr2 : fr2 = frames'
    OBVIOUS
  <2>10. fr2 \in Seq(Frame) /\ Len(fr2) = i /\ DOMAIN fr2 = 1..i /\ fr2[i] = d
         /\ \A j \in 1..i : j # i => fr2[j] = fr[j]
    BY <2>3, <2>5, <2>7, <2>8, <2>9
  <2>11. \A j \in 1..(i - 1) : j \in 1..i /\ j # i
    BY <2>3
  <2>12. \A j \in 1..i : j \in DOMAIN fr /\ fr2[j].cell = fr[j].cell /\ fr2[j].op = fr[j].op
                         /\ fr2[j].height = fr[j].height
    BY <2>5, <2>7, <2>10
  <2>13. Lands(fr, i, frames', count')
    BY <2>1, <2>2, <2>3, <2>7, <2>9, <2>10, <2>11, <2>12 DEF Lands
  <2>14. ~Calm(frames')
    <3>1. i \in DOMAIN fr2 /\ fr2[i].erred
      BY <2>3, <2>7, <2>10
    <3> QED BY <2>9, <3>1 DEF Calm
  <2> QED BY <1>0, <2>1, <2>13, <2>14
<1> QED BY <1>1, <1>2

\* The places and deaths that count afterwards did before.
Subsides(cnt2) == \A x \in Cell : cnt2[x] # 0 => count[x] # 0
Shrinks(sl, fr, cnt2, fr2) ==
  /\ \A p \in Cell \X Slot : \/ Standing(sl, cnt2, fr2)[p] = Standing(sl, count, fr)[p]
                              \/ Standing(sl, cnt2, fr2)[p] = NIL
  /\ Dead(fr2) \subseteq Dead(fr)
  /\ Destroying(fr2) \subseteq Destroying(fr) /\ Deleting(fr2) \subseteq Deleting(fr)

\* The places that counted, and do no more, are those of deaths it ended.
LEMMA LandsStanding ==
  ASSUME NEW kd, NEW gb, NEW bn, NEW fr \in Seq(Frame), Stops(kd, gb, bn, fr), count \in Counts,
         NEW i, NEW fr2, NEW cnt2, Lands(fr, i, fr2, cnt2), NEW sl,
         Subsides(cnt2)
  PROVE  Shrinks(sl, fr, cnt2, fr2)
<1>1. /\ i \in Nat /\ i <= Len(fr) /\ Len(fr) \in Nat /\ DOMAIN fr = 1..Len(fr) /\ DOMAIN fr2 = 1..i
      /\ \A j \in 1..i : j \in DOMAIN fr /\ fr2[j].cell = fr[j].cell /\ fr2[j].op = fr[j].op
      /\ \A j \in 1..(i - 1) : fr2[j] = fr[j]
      /\ i # 0 => fr[i].phase = "lisp" /\ fr2[i].phase = "slots"
  BY DEF Lands
<1>2. \A j \in 1..i : j \in 1..(i - 1) \/ (j = i /\ i # 0)
  BY <1>1
<1>3. Dead(fr2) \subseteq Dead(fr)
  BY <1>1 DEF Dead
<1>4. Destroying(fr2) \subseteq Destroying(fr)
  <2>1. \A j \in 1..i : fr2[j].phase = "lisp" => j \in DOMAIN fr /\ fr2[j] = fr[j]
    BY <1>1, <1>2
  <2> QED BY <1>1, <2>1 DEF Destroying
<1>5. Deleting(fr2) \subseteq Deleting(fr)
  BY <1>1 DEF Deleting
<1>6. ASSUME NEW x \in Cell, NEW s \in Slot, Counting(x, s, cnt2, fr2)
      PROVE  Counting(x, s, count, fr)
  <2>1. count[x] # 0 \/ x \in Dead(fr)
    BY <1>3, <1>6 DEF Counting, Subsides
  <2>2. ASSUME NEW j \in DOMAIN fr, fr[j].cell = x, fr[j].phase = "slots", s < fr[j].todo
        PROVE  FALSE
    <3>1. count[x] = 0
      BY <2>2, StoppedSlots
    <3>2. cnt2[x] = 0
      BY <3>1 DEF Subsides
    <3>3. x \in Dead(fr2)
      BY <1>6, <3>2 DEF Counting
    <3>4. PICK k \in 1..i : fr2[k].cell = x
      BY <1>1, <3>3 DEF Dead
    <3>5. k = j
      <4>1. k \in DOMAIN fr /\ fr[k].cell = x
        BY <1>1, <3>4
      <4> QED BY <2>2, <4>1 DEF Stops, Stacked, Apart
    <3>6. fr2[k] = fr[k]
      BY <1>1, <1>2, <2>2, <3>4, <3>5
    <3>7. LetGo(x, s, fr2)
      BY <1>1, <2>2, <3>4, <3>5, <3>6 DEF LetGo
    <3> QED BY <1>6, <3>7 DEF Counting
  <2>3. ~LetGo(x, s, fr)
    BY <2>2 DEF LetGo
  <2> QED BY <2>1, <2>3 DEF Counting
<1>7. ASSUME NEW p \in Cell \X Slot
      PROVE  \/ Standing(sl, cnt2, fr2)[p] = Standing(sl, count, fr)[p]
             \/ Standing(sl, cnt2, fr2)[p] = NIL
  <2>1. p[1] \in Cell /\ p[2] \in Slot
    OBVIOUS
  <2>2. Counting(p[1], p[2], cnt2, fr2) => Counting(p[1], p[2], count, fr)
    BY <1>6, <2>1
  <2> QED BY <2>2 DEF Standing
<1> QED BY <1>3, <1>4, <1>5, <1>7 DEF Shrinks

\* The counts after an error.
Landed(fr, i, cnt2) ==
  /\ cnt2 \in Counts
  /\ \A x \in Cell : (cnt2[x] < High <=> count[x] < High) /\ (cnt2[x] # 0 => count[x] # 0)
  /\ i = 0 => cnt2 = count
  /\ i # 0 => Lowered(count, fr[i].cell, 1, cnt2) /\ fr[i].cell \in Destroying(fr)

\* The counts where it landed: one less for the object it lands at.
LEMMA UnwindCounts ==
  ASSUME NEW kd, NEW gb, NEW fr \in Seq(Frame), NEW sl \in [Cell -> [Slot -> Ref]],
         Books(kd, sl, count, gb, base, bound, fr, NIL), CoreInv,
         NEW i, NEW fr2, NEW cnt2, Lands(fr, i, fr2, cnt2)
  PROVE  Landed(fr, i, cnt2)
<1>0. /\ count \in Counts /\ base \in [Name -> Ref] /\ bound \in Seq(Cell) /\ NIL \notin Cell
  BY CoreParts, HeapAssumption DEF Cell
<1>1. CASE i = 0
  BY <1>0, <1>1 DEF Landed, Lands
<1>2. CASE i # 0
  <2>1. i \in DOMAIN fr /\ fr[i].phase = "lisp" /\ cnt2 = Minus(count, fr[i].cell, 1)
    <3>1. i \in 1..i
      BY <1>2 DEF Lands
    <3> QED BY <1>2, <3>1 DEF Lands
  <2>2. PICK c : c = fr[i].cell
    OBVIOUS
  <2>3. c \in Cell /\ c \in Destroying(fr) /\ c \in Dead(fr)
    <3>1. c \in Cell
      BY <2>1, <2>2, FramesType
    <3>2. c \in Destroying(fr) /\ c \in Dead(fr)
      BY <2>1, <2>2 DEF Destroying, Dead
    <3> QED BY <3>1, <3>2
  <2>4. 1 <= count[c] % High /\ count[c] \in Nat
    <3>1. Total(c, sl, count, base, bound, fr) + Eq(c, NIL) <= count[c] % High
      BY <2>3 DEF Books, Covered
    <3>2. /\ Times(base, c) \in Nat /\ Times(bound, c) \in Nat /\ Times(Standing(sl, count, fr), c) \in Nat
          /\ In(c, Deleting(fr)) \in {0, 1}
      BY <1>0, TotalType
    <3>3. In(c, Destroying(fr)) = 1
      BY <2>3 DEF In
    <3>4. Total(c, sl, count, base, bound, fr) >= 1 /\ Total(c, sl, count, base, bound, fr) \in Nat
      BY <3>2, <3>3 DEF Total
    <3>5. Eq(c, NIL) = 0 /\ count[c] \in Nat
      BY <1>0, <2>3 DEF Eq, Counts
    <3>6. count[c] % High \in Nat
      BY <3>5, RestType
    <3> QED BY <3>1, <3>4, <3>5, <3>6
  <2>5. Lowered(count, c, 1, cnt2)
    <3>1. Lowered(count, c, 1, Minus(count, c, 1))
      BY <1>0, <2>3, <2>4, MinusLowers
    <3> QED BY <2>1, <2>2, <3>1
  <2>6. /\ cnt2 \in Counts /\ cnt2[c] = count[c] - 1 /\ (cnt2[c] < High <=> count[c] < High)
        /\ \A x \in Cell : x # c => cnt2[x] = count[x]
    BY <2>5 DEF Lowered
  <2>7. cnt2[c] # 0 => count[c] # 0
    <3>1. count[c] # 0
      <4>1. count[c] % High <= count[c] /\ count[c] % High \in Nat
        BY <2>4, RestType
      <4> QED BY <2>4, <4>1
    <3> QED BY <3>1
  <2>8. \A x \in Cell : (cnt2[x] < High <=> count[x] < High) /\ (cnt2[x] # 0 => count[x] # 0)
    BY <2>6, <2>7
  <2> QED BY <1>2, <2>2, <2>3, <2>5, <2>6, <2>8 DEF Landed
<1> QED BY <1>1, <1>2

\* The jump keeps the books.
LEMMA UnwindBooks ==
  ASSUME NEW kd, NEW gb \in SUBSET Cell, NEW fr \in Seq(Frame), NEW sl \in [Cell -> [Slot -> Ref]],
         Books(kd, sl, count, gb, base, bound, fr, NIL), CoreInv, \A j \in DOMAIN fr : Stoppable(fr[j]),
         NEW i, NEW fr2, NEW cnt2, Lands(fr, i, fr2, cnt2)
  PROVE  /\ Books(kd, sl, cnt2, gb, base, bound, fr2, NIL)
         /\ Low(count) => Low(cnt2)
<1>0. /\ count \in Counts /\ base \in [Name -> Ref] /\ bound \in Seq(Cell) /\ NIL \notin Cell
  BY CoreParts, HeapAssumption DEF Cell
<1>1. Landed(fr, i, cnt2)
  BY UnwindCounts
<1>2. /\ cnt2 \in Counts
      /\ \A x \in Cell : (cnt2[x] < High <=> count[x] < High) /\ (cnt2[x] # 0 => count[x] # 0)
      /\ i = 0 => cnt2 = count
      /\ i # 0 => Lowered(count, fr[i].cell, 1, cnt2) /\ fr[i].cell \in Destroying(fr)
  BY <1>1 DEF Landed
<1>3. /\ Stacked(kd, gb, bound, fr) /\ Numbered(count, fr) /\ Unused(kd, sl, count, gb, fr)
      /\ ConsHigh(kd, count, gb) /\ Covered(sl, count, base, bound, fr, NIL)
  BY DEF Books
<1>4. /\ i \in Nat /\ i <= Len(fr) /\ fr2 \in Seq(Frame) /\ Len(fr2) = i /\ DOMAIN fr2 = 1..i
      /\ \A j \in 1..i : j \in DOMAIN fr /\ fr2[j].cell = fr[j].cell /\ fr2[j].op = fr[j].op
                         /\ fr2[j].height = fr[j].height
      /\ \A j \in 1..(i - 1) : fr2[j] = fr[j]
      /\ i # 0 => /\ fr[i].phase = "lisp" /\ fr[i].op \in {"purge", "collect"}
                  /\ fr2[i].phase = "slots" /\ fr2[i].erred
  BY DEF Lands
<1>5. \A j \in 1..i : j \in 1..(i - 1) \/ (j = i /\ i # 0)
  BY <1>4
<1>6. /\ \A p \in Cell \X Slot : \/ Standing(sl, cnt2, fr2)[p] = Standing(sl, count, fr)[p]
                                 \/ Standing(sl, cnt2, fr2)[p] = NIL
      /\ Dead(fr2) \subseteq Dead(fr)
      /\ Destroying(fr2) \subseteq Destroying(fr) /\ Deleting(fr2) \subseteq Deleting(fr)
  <2>1. Stops(kd, gb, bound, fr)
    BY <1>3 DEF Stops
  <2>2. Subsides(cnt2)
    BY <1>2 DEF Subsides
  <2>3. Shrinks(sl, fr, cnt2, fr2)
    BY <1>0, <2>1, <2>2, LandsStanding
  <2> QED BY <2>3 DEF Shrinks
<1>7. Stacked(kd, gb, bound, fr2)
  <2>1. ASSUME NEW j \in 1..i
        PROVE  Goes(kd, gb, bound, fr, kd, gb, bound, fr2, j)
    <3>0. /\ fr2[j].cell = fr[j].cell /\ fr2[j].height = fr[j].height
          /\ Pending(fr[j]) => fr[j].height < Len(bound)
      BY <1>3, <1>4 DEF Stacked, Binds
    <3>1. CASE j \in 1..(i - 1)
      BY <1>4, <3>0, <3>1 DEF Goes
    <3>2. CASE j = i /\ i # 0
      <4>1. Pending(fr[j])
        BY <1>4, <3>2 DEF Pending
      <4>2. Shape(fr2[j], kd, gb)
        <5>1. Shape(fr[j], kd, gb)
          BY <1>3, <1>4 DEF Stacked, Shaped
        <5> QED BY <1>4, <3>2, <5>1 DEF Shape
      <4>3. \A k \in 1..(j - 1) : Stoppable(fr[k]) /\ fr2[k] = fr[k]
        <5>1. \A k \in 1..(j - 1) : k \in 1..i
          BY <1>4, <3>2
        <5> QED BY <1>4, <3>2, <5>1
      <4> QED BY <1>4, <3>0, <3>2, <4>1, <4>2, <4>3 DEF Goes
    <3> QED BY <1>5, <3>1, <3>2
  <2>2. Len(fr2) <= Len(fr) /\ \A j \in 1..Len(fr2) : j \in 1..i
    BY <1>4
  <2>3. \A j \in 1..Len(fr2) : Goes(kd, gb, bound, fr, kd, gb, bound, fr2, j)
    BY <2>1, <2>2
  <2> QED BY <1>0, <1>3, <1>4, <2>2, <2>3, CutKeeps
<1>8. Numbered(cnt2, fr2)
  <2>1. ASSUME NEW j \in 1..i
        PROVE  Number(fr2[j], cnt2)
    <3>0. j \in DOMAIN fr /\ Number(fr[j], count) /\ fr[j].cell \in Cell /\ fr2[j].cell = fr[j].cell
      BY <1>3, <1>4, FramesType DEF Numbered
    <3>1. CASE j \in 1..(i - 1)
      <4>1. i # 0 /\ i \in DOMAIN fr /\ j # i
        <5>1. i # 0 /\ i \in 1..i /\ j # i
          BY <1>4, <3>1
        <5> QED BY <1>4, <5>1
      <4>2. fr[j].cell # fr[i].cell
        BY <1>3, <3>0, <4>1 DEF Stacked, Apart
      <4>3. cnt2[fr[j].cell] = count[fr[j].cell]
        BY <1>2, <3>0, <4>1, <4>2 DEF Lowered
      <4> QED BY <1>4, <3>0, <3>1, <4>3 DEF Number
    <3>2. CASE j = i /\ i # 0
      <4>1. cnt2[fr[i].cell] = count[fr[i].cell] - 1
        BY <1>2, <3>2 DEF Lowered
      <4>2. fr[i].op = "purge" => count[fr[i].cell] = 2
        BY <1>4, <3>0, <3>2 DEF Number
      <4>3. fr[i].op = "purge" => cnt2[fr[i].cell] = 1
        BY <4>1, <4>2
      <4>4. fr[i].op = "collect" => ~(cnt2[fr[i].cell] < High)
        BY <1>2, <3>0, <3>2 DEF Number
      <4> QED BY <1>4, <3>0, <3>2, <4>3, <4>4 DEF Number
    <3> QED BY <1>5, <3>1, <3>2
  <2> QED BY <1>4, <2>1 DEF Numbered
<1>9. Unused(kd, sl, cnt2, gb, fr2)
  <2>1. \A x \in Cell : count[x] = 0 => cnt2[x] = 0
    BY <1>2
  <2> QED BY <1>3, <1>6, <2>1 DEF Unused
<1>10. ConsHigh(kd, cnt2, gb)
  <2>1. ASSUME NEW x \in gb, kd[x] = "cons"
        PROVE  ~(cnt2[x] < High)
    <3>1. ~(count[x] < High)
      BY <1>3, <2>1 DEF ConsHigh
    <3> QED BY <1>2, <3>1
  <2> QED BY <2>1 DEF ConsHigh
<1>11. Covered(sl, cnt2, base, bound, fr2, NIL)
  <2>1. ASSUME NEW x \in Cell
        PROVE  Total(x, sl, cnt2, base, bound, fr2) + Eq(x, NIL) <= cnt2[x] % High
    <3>1. Total(x, sl, count, base, bound, fr) + Eq(x, NIL) <= count[x] % High
      BY <1>3 DEF Covered
    <3>2. Lessens(x, sl, count, base, bound, fr, cnt2, fr2)
      BY <1>0, <1>2, <1>6, TotalLess
    <3>3. /\ Total(x, sl, cnt2, base, bound, fr2) <= Total(x, sl, count, base, bound, fr)
          /\ x \in Destroying(fr) /\ x \notin Destroying(fr2) =>
               Total(x, sl, cnt2, base, bound, fr2) + 1 <= Total(x, sl, count, base, bound, fr)
      BY <3>2 DEF Lessens
    <3>4. /\ Total(x, sl, cnt2, base, bound, fr2) \in Nat /\ Total(x, sl, count, base, bound, fr) \in Nat
          /\ Eq(x, NIL) = 0
      <4>1. Total(x, sl, cnt2, base, bound, fr2) \in Nat
        BY <1>0, <1>2, TotalType
      <4>2. Total(x, sl, count, base, bound, fr) \in Nat
        BY <1>0, TotalType
      <4> QED BY <1>0, <4>1, <4>2 DEF Eq
    <3>5. count[x] % High \in Nat
      <4>1. count[x] \in Nat
        BY <1>0 DEF Counts
      <4> QED BY <4>1, RestType
    <3>6. CASE i # 0 /\ x = fr[i].cell
      <4>1. cnt2[x] % High = (count[x] % High) - 1 /\ x \in Destroying(fr)
        BY <1>2, <3>6 DEF Lowered
      <4>2. x \notin Destroying(fr2)
        <5>1. ASSUME NEW j \in 1..i, fr2[j].phase = "lisp", fr2[j].cell = x
              PROVE  FALSE
          <6>1. j = i
            <7>1. j \in DOMAIN fr /\ fr[j].cell = x /\ i \in DOMAIN fr
              <8>1. i \in 1..i
                BY <1>4, <3>6
              <8> QED BY <1>4, <5>1, <8>1
            <7> QED BY <1>3, <3>6, <7>1 DEF Stacked, Apart
          <6> QED BY <1>4, <3>6, <5>1, <6>1
        <5> QED BY <1>4, <5>1 DEF Destroying
      <4> QED BY <3>1, <3>3, <3>4, <3>5, <4>1, <4>2
    <3>7. CASE ~(i # 0 /\ x = fr[i].cell)
      <4>1. cnt2[x] = count[x]
        BY <1>2, <3>7 DEF Lowered
      <4>2. cnt2[x] % High = count[x] % High
        BY <4>1
      <4> QED BY <3>1, <3>3, <3>4, <3>5, <4>2
    <3> QED BY <3>6, <3>7
  <2> QED BY <2>1 DEF Covered
<1>12. Low(count) => Low(cnt2)
  BY <1>2 DEF Low
<1> QED BY <1>7, <1>8, <1>9, <1>10, <1>11, <1>12 DEF Books

\* An error ends what the books say of more than counts.
LEMMA UnwindLedger ==
  ASSUME CoreInv, NEW kd, NEW gb \in SUBSET Cell, NEW sl \in [Cell -> [Slot -> Ref]],
         NEW fr \in Seq(Frame), Books(kd, sl, count, gb, base, bound, fr, NIL),
         \A j \in DOMAIN fr : Stoppable(fr[j]), Unwind(fr),
         NEW cnt2, NEW fr2, cnt2 = count', fr2 = frames'
  PROVE  /\ Books(kd, sl, cnt2, gb, base, bound, fr2, NIL)
         /\ exact' = FALSE /\ (collector' = "due" \/ ~Calm(fr2))
         /\ collector' = "idle" => Low(cnt2)
<1>1. PICK i : Lands(fr, i, fr2, cnt2)
  BY UnwindLands
<1>2. exact' = FALSE /\ (collector' = "due" \/ (collector' = collector /\ ~Calm(fr2)))
  BY UnwindLands
<1>3. /\ Books(kd, sl, cnt2, gb, base, bound, fr2, NIL)
      /\ Low(count) => Low(cnt2)
  BY <1>1, UnwindBooks
<1>4. collector = "idle" => Low(count)
  BY CoreParts DEF InOrder, Ledger
<1> QED BY <1>2, <1>3, <1>4

\* An error keeps the ledger, where none jumps out of a collector that lets
\* slots go: the counts are too high by what it left, and never too low.
LEMMA FailLedger ==
  ASSUME CoreInv, ~FailInSlots, Fail
  PROVE  InOrder'
<1>0. /\ InOrder
      /\ slot \in [Cell -> [Slot -> Ref]]
      /\ garbage \in SUBSET Cell /\ frames \in Seq(Frame)
  BY CoreParts
<1>1. /\ Unwind(frames) /\ UNCHANGED <<kind, slot, garbage, base, bound>>
      /\ \A i \in DOMAIN frames :
           /\ ~frames[i].erred
           /\ frames[i].op \in {"collect", "sweep"} => frames[i].phase = "lisp"
  BY DEF Fail
<1>2. \A i \in DOMAIN frames : Stoppable(frames[i])
  BY <1>1 DEF Stoppable
<1>3. Books(kind, slot, count, garbage, base, bound, frames, NIL)
  BY <1>0 DEF InOrder, Ledger
<1>4. PICK cnt2, fr2 : cnt2 = count' /\ fr2 = frames'
  OBVIOUS
<1>5. /\ Books(kind, slot, cnt2, garbage, base, bound, fr2, NIL)
      /\ exact' = FALSE /\ (collector' = "due" \/ ~Calm(fr2))
      /\ collector' = "idle" => Low(cnt2)
  BY <1>0, <1>1, <1>2, <1>3, <1>4, UnwindLedger
<1> QED BY <1>1, <1>4, <1>5 DEF InOrder, Ledger

\* The end of a death does, and the error that is thrown again after it.
LEMMA DiedLedger ==
  ASSUME CoreInv, Died
  PROVE  InOrder'
<1>0. /\ InOrder
      /\ kind \in [Cell -> Kinds] /\ slot \in [Cell -> [Slot -> Ref]] /\ count \in Counts
      /\ base \in [Name -> Ref] /\ bound \in Seq(Cell)
      /\ garbage \in SUBSET Cell /\ frames \in Seq(Frame)
  BY CoreParts
<1>1. PICK n, f, c : n = Len(frames) /\ f = frames[n] /\ c = f.cell
  OBVIOUS
<1>2. AtTop(n, f) /\ Top = f /\ frames # <<>> /\ f.phase = "slots" /\ f.todo > Slots
  BY <1>1 DEF AtTop, Top, Died
<1>3. Slotting(n, f)
  BY <1>2, TopSlots
<1>4. /\ c \in Cell /\ n \in Nat /\ n \in DOMAIN frames /\ DOMAIN frames = 1..n
      /\ f.op \in {"purge", "collect", "sweep"} /\ Number(f, count) /\ f.erred \in BOOLEAN
  BY <1>1, <1>3 DEF Slotting, Frame
<1>5. PICK kd, sl, gb : kd = kind' /\ sl = slot' /\ gb = garbage'
  OBVIOUS
<1>6. /\ sl = [slot EXCEPT ![c] = None]
      /\ kd = [kind EXCEPT ![c] = IF ~f.erred /\ f.op = "purge" THEN "free" ELSE "zombie"]
      /\ gb = IF ~f.erred /\ f.op # "purge" THEN garbage \cup {c} ELSE garbage \ {c}
      /\ UNCHANGED <<base, bound>>
  BY <1>1, <1>2, <1>5 DEF Died, Remains
<1>7. Lower(n, Below)
  BY <1>0, <1>1, <1>2, BelowLower
<1>8. Ended(n, f, Below, kd, sl, gb)
  <2>1. /\ \A x \in Cell : sl[x] = IF x = f.cell THEN None ELSE slot[x]
        /\ \A x \in Cell : x # f.cell => kd[x] = kind[x]
        /\ gb \in SUBSET Cell /\ \A x \in Cell : x # f.cell => (x \in gb <=> x \in garbage)
    BY <1>0, <1>1, <1>4, <1>6
  <2>2. \/ kd[c] = "free" /\ count[c] = 0 /\ c \notin gb
        \/ kd[c] = "zombie" /\ (c \in gb => ~(count[c] < High))
    <3>1. CASE ~f.erred /\ f.op = "purge"
      <4>1. kd[c] = "free" /\ c \notin gb
        BY <1>0, <1>4, <1>6, <3>1
      <4>2. count[c] = 0
        BY <1>1, <1>2, <1>4, <3>1 DEF Number
      <4> QED BY <4>1, <4>2
    <3>2. CASE ~f.erred /\ f.op # "purge"
      <4>1. kd[c] = "zombie"
        BY <1>0, <1>4, <1>6, <3>2
      <4>2. ~(count[c] < High)
        BY <1>1, <1>4, <3>2 DEF Number
      <4> QED BY <4>1, <4>2
    <3>3. CASE f.erred
      BY <1>0, <1>4, <1>6, <3>3
    <3> QED BY <3>1, <3>2, <3>3
  <2> QED BY <1>1, <1>3, <1>7, <2>1, <2>2 DEF Ended
<1>9. /\ Stacked(kd, gb, bound, Below) /\ Numbered(count, Below)
      /\ Unused(kd, sl, count, gb, Below) /\ ConsHigh(kd, count, gb)
  BY <1>8, EndedStacked
<1>10. \A x : Total(x, sl, count, base, bound, Below) = Total(x, slot, count, base, bound, frames)
  BY <1>2, <1>8, EndedTotal
<1>11. /\ Covered(sl, count, base, bound, Below, NIL)
       /\ exact => Balanced(sl, count, base, bound, Below, NIL)
  BY <1>0, <1>10 DEF InOrder, Ledger, Books, Covered, Balanced
<1>12. Books(kd, sl, count, gb, base, bound, Below, NIL)
  BY <1>9, <1>11 DEF Books
<1>13. /\ Below \in Seq(Frame)
       /\ \A i \in DOMAIN Below : i \in DOMAIN frames /\ Below[i] = frames[i] /\ i < n /\ i \in 1..(n - 1)
       /\ \A i \in DOMAIN frames : i # n => i \in DOMAIN Below /\ Below[i] = frames[i]
  <2>1. \A i \in 1..(n - 1) : i < n
    BY <1>4
  <2>2. \A i \in 1..n : i = n \/ i \in 1..(n - 1)
    BY <1>4
  <2> QED BY <1>4, <1>7, <2>1, <2>2 DEF Lower
<1>14. CASE f.erred
  <2>1. Unwind(Below)
    BY <1>2, <1>14 DEF Died
  <2>2. \A j \in DOMAIN Below : Stoppable(Below[j])
    <3>1. ErrorsApart(frames)
      BY <1>0 DEF InOrder, Ledger, Books, Stacked
    <3> QED BY <1>1, <1>4, <1>13, <1>14, <3>1 DEF ErrorsApart
  <2>3. PICK cnt2, fr2 : cnt2 = count' /\ fr2 = frames'
    OBVIOUS
  <2>4. gb \in SUBSET Cell /\ sl \in [Cell -> [Slot -> Ref]]
    <3>1. None \in [Slot -> Ref]
      BY DEF None, Ref
    <3> QED BY <1>0, <1>4, <1>6, <3>1
  <2>5. /\ Books(kd, sl, cnt2, gb, base, bound, fr2, NIL)
        /\ exact' = FALSE /\ (collector' = "due" \/ ~Calm(fr2))
        /\ collector' = "idle" => Low(cnt2)
    BY <1>12, <1>13, <2>1, <2>2, <2>3, <2>4, UnwindLedger
  <2> QED BY <1>5, <1>6, <2>3, <2>5 DEF InOrder, Ledger
<1>15. CASE ~f.erred
  <2>1. frames' = Below /\ count' = count /\ exact' = exact /\ collector' = collector
    BY <1>2, <1>15 DEF Died
  <2>2. Calm(Below) <=> Calm(frames)
    BY <1>1, <1>13, <1>15 DEF Calm
  <2>3. Pushes(bound, frames) => Pushes(bound, Below)
    <3>1. \A i \in DOMAIN frames : frames[i].phase = "lisp" => i \in DOMAIN Below /\ Below[i] = frames[i]
      BY <1>1, <1>2, <1>13
    <3> QED BY <3>1 DEF Pushes
  <2>4. Flags(garbage, count, frames) => Flags(gb, count, Below)
    <3>1. \A x \in Dead(frames) : x = c \/ x \in Dead(Below)
      BY <1>1, <1>13 DEF Dead
    <3>2. c \in gb => ~(count[c] < High)
      BY <1>1, <1>4, <1>6 DEF Number
    <3>3. \A x \in gb : x = c \/ x \in garbage
      BY <1>6
    <3> QED BY <3>1, <3>2, <3>3 DEF Flags
  <2>5. Rests(count, garbage, bound, frames, count, gb, bound, Below)
    BY <2>2, <2>3, <2>4 DEF Rests
  <2>6. Ledger(kd, sl, count, gb, base, bound, Below, NIL)
    BY <1>0, <1>9, <1>11, <2>5, LedgerGoes DEF InOrder
  <2> QED BY <1>5, <1>6, <2>1, <2>6 DEF InOrder, Ledger, Pushes
<1> QED BY <1>4, <1>14, <1>15

\* The place <<c, s>>, which refers to o, counts no more.
Stepped(c, s, o, sl2, fr2) ==
  /\ c \in Cell /\ s \in Slot /\ o \in Ref /\ Standing(slot, count, frames)[<<c, s>>] = o
  /\ Standing(sl2, count, fr2) = [Standing(slot, count, frames) EXCEPT ![<<c, s>>] = NIL]
  /\ Destroying(fr2) = Destroying(frames) /\ Deleting(fr2) = Deleting(frames)

\* One reference is given up, which is to be released.
LEMMA SteppedFollows ==
  ASSUME CoreInv, NEW c, NEW s, NEW o, NEW sl2 \in [Cell -> [Slot -> Ref]], NEW fr2,
         Stepped(c, s, o, sl2, fr2)
  PROVE  Follows(slot, count, base, bound, frames, NIL, sl2, count, base, bound, fr2, o)
<1>0. /\ slot \in [Cell -> [Slot -> Ref]] /\ count \in Counts /\ base \in [Name -> Ref] /\ bound \in Seq(Cell)
      /\ NIL \notin Cell
  BY CoreParts, HeapAssumption DEF Cell
<1>1. /\ c \in Cell /\ s \in Slot /\ Standing(slot, count, frames)[<<c, s>>] = o
      /\ Standing(sl2, count, fr2) = [Standing(slot, count, frames) EXCEPT ![<<c, s>>] = NIL]
      /\ Destroying(fr2) = Destroying(frames) /\ Deleting(fr2) = Deleting(frames)
  BY DEF Stepped
<1>2. ASSUME NEW x \in Cell
      PROVE  \E k \in Int :
               /\ Total(x, sl2, count, base, bound, fr2) + Eq(x, o)
                  = Total(x, slot, count, base, bound, frames) + Eq(x, NIL) + k
               /\ count[x] = count[x] + k /\ count[x] % High = (count[x] % High) + k
  <2>1. PICK st, st2, p : /\ st = Standing(slot, count, frames) /\ st2 = Standing(sl2, count, fr2)
                          /\ p = <<c, s>>
    OBVIOUS
  <2>2. IsFiniteSet(Cell \X Slot)
    BY PlacesFinite
  <2>3. st \in [Cell \X Slot -> Ref] /\ p \in Cell \X Slot /\ st[p] = o /\ st2 = [st EXCEPT ![p] = NIL]
    <3>1. st \in [Cell \X Slot -> Ref]
      BY <1>0, <2>1 DEF Standing, Ref
    <3> QED BY <1>1, <2>1, <3>1
  <2>4. Times(st2, x) + Eq(x, o) = Times(st, x) + Eq(x, NIL)
    <3>1. Swaps(st, st[p], st2, NIL, x)
      BY <2>2, <2>3, TimesChange
    <3> QED BY <2>3, <3>1 DEF Swaps
  <2>5. PICK b, v, t, t2, q, r :
          /\ b = Times(base, x) /\ v = Times(bound, x) /\ t = Times(st, x) /\ t2 = Times(st2, x)
          /\ q = In(x, Destroying(frames)) /\ r = In(x, Deleting(frames))
    OBVIOUS
  <2>6. b \in Nat /\ v \in Nat /\ t \in Nat /\ q \in Nat /\ r \in Nat
    <3>1. /\ Times(base, x) \in Nat /\ Times(bound, x) \in Nat /\ Times(Standing(slot, count, frames), x) \in Nat
          /\ In(x, Destroying(frames)) \in {0, 1} /\ In(x, Deleting(frames)) \in {0, 1}
      BY <1>0, TotalType
    <3> QED BY <2>1, <2>5, <3>1
  <2>7. t2 \in Nat
    <3>1. Times(Standing(sl2, count, fr2), x) \in Nat
      BY <1>0, TotalType
    <3> QED BY <2>1, <2>5, <3>1
  <2>8. /\ Total(x, slot, count, base, bound, frames) = b + v + t + q + r
        /\ Total(x, sl2, count, base, bound, fr2) = b + v + t2 + q + r
    BY <1>1, <2>1, <2>5 DEF Total
  <2>9. PICK e : e = Eq(x, o)
    OBVIOUS
  <2>10. e \in {0, 1} /\ Eq(x, NIL) = 0 /\ t2 + e = t
    BY <1>0, <2>4, <2>5, <2>6, <2>9 DEF Eq
  <2>11. b + v + t2 + q + r + e = b + v + t + q + r + 0 + 0
    BY <2>6, <2>7, <2>10
  <2>12. count[x] \in Nat /\ count[x] % High \in Nat
    <3>1. count[x] \in Nat
      BY <1>0 DEF Counts
    <3> QED BY <3>1, RestType
  <2>13. count[x] = count[x] + 0 /\ count[x] % High = (count[x] % High) + 0 /\ 0 \in Int
    BY <2>12
  <2> QED BY <2>8, <2>9, <2>10, <2>11, <2>13
<1> QED BY <1>2 DEF Follows

\* The last slot of a cons, which is free now.
LEMMA ConsStepped ==
  ASSUME CoreInv, NEW n, NEW f, Slotting(n, f), f.todo = Slots, NEW fr1, Lower(n, fr1),
         NEW sl2, \A x \in Cell : sl2[x] = IF x = f.cell THEN None ELSE slot[x]
  PROVE  Stepped(f.cell, f.todo, slot[f.cell][f.todo], sl2, fr1)
<1>0. slot \in [Cell -> [Slot -> Ref]]
  BY CoreParts
<1>1. PICK c, s : c = f.cell /\ s = f.todo
  OBVIOUS
<1>2. /\ c \in Cell /\ s \in Slot /\ c \in Dead(frames) /\ c \notin Destroying(frames) /\ c \notin Deleting(frames)
      /\ \A t \in Slot : LetGo(c, t, frames) <=> t < s
  <2>1. s \in Slot
    <3>1. f \in Frame /\ f.todo \in Nat
      BY DEF Slotting
    <3>2. f.todo \in 1..(Slots + 1)
      BY <3>1 DEF Frame
    <3> QED BY <1>1, <3>2, HeapAssumption DEF Slot
  <2> QED BY <1>1, <2>1 DEF Slotting
<1>3. PICK st, st2 : st = Standing(slot, count, frames) /\ st2 = Standing(sl2, count, fr1)
  OBVIOUS
<1>4. \A p \in Cell \X Slot : st2[p] = IF p[1] = c THEN NIL ELSE st[p]
  BY <1>1, <1>3, LowerStanding
<1>5. \A t \in Slot : ~(t < s) => t = s
  BY <1>1, HeapAssumption DEF Slot
<1>6. \A t \in Slot : t # s => st[<<c, t>>] = NIL
  BY <1>2, <1>3, <1>5 DEF Standing, Counting
<1>7. st[<<c, s>>] = slot[c][s]
  <2>1. ~(s < s)
    BY <1>2, HeapAssumption DEF Slot
  <2>2. Counting(c, s, count, frames)
    BY <1>2, <2>1 DEF Counting
  <2> QED BY <1>2, <1>3, <2>2 DEF Standing
<1>8. st2 = [st EXCEPT ![<<c, s>>] = NIL]
  <2>1. DOMAIN st = Cell \X Slot /\ DOMAIN st2 = Cell \X Slot
        /\ st = [p \in Cell \X Slot |-> st[p]] /\ st2 = [p \in Cell \X Slot |-> st2[p]]
    BY <1>3 DEF Standing
  <2>2. ASSUME NEW p \in Cell \X Slot
        PROVE  st2[p] = IF p = <<c, s>> THEN NIL ELSE st[p]
    <3>1. PICK x \in Cell, t \in Slot : p = <<x, t>>
      OBVIOUS
    <3> QED BY <1>4, <1>6, <3>1
  <2> QED BY <2>1, <2>2
<1>9. LowerDead(f, fr1)
  BY LowerIs DEF Slotting
<1>10. Destroying(fr1) = Destroying(frames) /\ Deleting(fr1) = Deleting(frames)
  BY <1>1, <1>2, <1>9 DEF LowerDead
<1>11. slot[c][s] \in Ref
  BY <1>0, <1>2
<1>12. Stepped(c, s, slot[c][s], sl2, fr1)
  BY <1>2, <1>3, <1>7, <1>8, <1>10, <1>11 DEF Stepped
<1> QED BY <1>1, <1>12

\* The innermost death has let go one slot more.
Onwards(n, f, g, fr2) ==
  /\ g \in Frame /\ g.cell = f.cell /\ g.op = f.op /\ g.phase = f.phase /\ g.erred = f.erred
  /\ g.height = f.height /\ g.todo = f.todo + 1
  /\ Replaced(n, g, fr2)

\* It is the one in the slot that is let go.
LEMMA SlotStepped ==
  ASSUME CoreInv, NEW n, NEW f, Slotting(n, f), f.todo \in Slot, NEW g, NEW fr2, Onwards(n, f, g, fr2)
  PROVE  Stepped(f.cell, f.todo, slot[f.cell][f.todo], slot, fr2) /\ Dead(fr2) = Dead(frames)
<1>0. slot \in [Cell -> [Slot -> Ref]]
  BY CoreParts
<1>1. PICK c, s : c = f.cell /\ s = f.todo
  OBVIOUS
<1>2. /\ c \in Cell /\ s \in Slot /\ s \in Nat /\ c \in Dead(frames)
      /\ n \in Nat /\ n \in DOMAIN frames /\ DOMAIN frames = 1..n /\ f = frames[n]
      /\ f.phase = "slots"
      /\ \A t \in Slot : LetGo(c, t, frames) <=> t < s
  BY <1>1 DEF Slotting
<1>3. /\ DOMAIN fr2 = 1..n /\ fr2[n] = g /\ g.cell = c /\ g.phase = "slots" /\ g.todo = s + 1 /\ g.op = f.op
      /\ \A i \in 1..(n - 1) : fr2[i] = frames[i] /\ i \in DOMAIN frames
  BY <1>1, <1>2 DEF Onwards, Replaced
<1>4. \A i \in 1..n : i = n \/ i \in 1..(n - 1)
  BY <1>2
<1>5. \A i \in 1..n : fr2[i].cell = frames[i].cell /\ fr2[i].phase = frames[i].phase /\ fr2[i].op = frames[i].op
  BY <1>1, <1>2, <1>3, <1>4
<1>6. Dead(fr2) = Dead(frames)
  BY <1>2, <1>3, <1>5 DEF Dead
<1>7. Destroying(fr2) = Destroying(frames)
  BY <1>2, <1>3, <1>5 DEF Destroying
<1>8. Deleting(fr2) = Deleting(frames)
  BY <1>2, <1>3, <1>5 DEF Deleting
<1>9. PICK st, st2 : st = Standing(slot, count, frames) /\ st2 = Standing(slot, count, fr2)
  OBVIOUS
<1>10. ASSUME NEW x \in Cell, NEW t \in Slot, ~(x = c /\ t = s)
       PROVE  LetGo(x, t, fr2) <=> LetGo(x, t, frames)
  <2>1. t \in Nat
    BY HeapAssumption DEF Slot
  <2>2. x = c => (t < s + 1 <=> t < s)
    BY <1>2, <1>10, <2>1
  <2>3. ASSUME NEW i \in 1..n
        PROVE  (fr2[i].cell = x /\ fr2[i].phase = "slots" /\ t < fr2[i].todo)
               <=> (frames[i].cell = x /\ frames[i].phase = "slots" /\ t < frames[i].todo)
    <3>1. CASE i = n
      BY <1>1, <1>2, <1>3, <2>2, <3>1
    <3>2. CASE i \in 1..(n - 1)
      BY <1>3, <3>2
    <3> QED BY <1>4, <3>1, <3>2
  <2> QED BY <1>2, <1>3, <2>3 DEF LetGo
<1>11. LetGo(c, s, fr2)
  <2>1. s < s + 1 /\ n \in DOMAIN fr2
    BY <1>2, <1>3
  <2> QED BY <1>3, <2>1 DEF LetGo
<1>12. st2 = [st EXCEPT ![<<c, s>>] = NIL]
  <2>1. DOMAIN st = Cell \X Slot /\ DOMAIN st2 = Cell \X Slot
        /\ st = [p \in Cell \X Slot |-> st[p]] /\ st2 = [p \in Cell \X Slot |-> st2[p]]
    BY <1>9 DEF Standing
  <2>2. ASSUME NEW p \in Cell \X Slot
        PROVE  st2[p] = IF p = <<c, s>> THEN NIL ELSE st[p]
    <3>1. PICK x \in Cell, t \in Slot : p = <<x, t>>
      OBVIOUS
    <3>2. CASE x = c /\ t = s
      <4>1. ~Counting(x, t, count, fr2)
        BY <1>11, <3>2 DEF Counting
      <4>2. st2[p] = NIL
        BY <1>9, <3>1, <4>1 DEF Standing
      <4> QED BY <3>1, <3>2, <4>2
    <3>3. CASE ~(x = c /\ t = s)
      <4>1. Counting(x, t, count, fr2) <=> Counting(x, t, count, frames)
        BY <1>6, <1>10, <3>3 DEF Counting
      <4>2. st2[p] = st[p]
        BY <1>9, <3>1, <4>1 DEF Standing
      <4>3. p # <<c, s>>
        BY <3>1, <3>3
      <4> QED BY <4>2, <4>3
    <3> QED BY <3>2, <3>3
  <2> QED BY <2>1, <2>2
<1>13. st[<<c, s>>] = slot[c][s]
  <2>1. ~(s < s)
    BY <1>2
  <2>2. Counting(c, s, count, frames)
    BY <1>2, <2>1 DEF Counting
  <2> QED BY <1>2, <1>9, <2>2 DEF Standing
<1>14. slot[c][s] \in Ref
  BY <1>0, <1>2
<1>15. Stepped(c, s, slot[c][s], slot, fr2)
  BY <1>2, <1>7, <1>8, <1>9, <1>12, <1>13, <1>14 DEF Stepped
<1> QED BY <1>1, <1>6, <1>15

\* The ledger then, but for the reference that is to be released.
LEMMA SlotLedger ==
  ASSUME CoreInv, NEW n, NEW f, Slotting(n, f), f.todo \in Slot, NEW g, NEW fr2, Onwards(n, f, g, fr2)
  PROVE  Ledger(kind, slot, count, garbage, base, bound, fr2, slot[f.cell][f.todo])
<1>0. /\ InOrder
      /\ slot \in [Cell -> [Slot -> Ref]] /\ count \in Counts /\ base \in [Name -> Ref]
      /\ bound \in Seq(Cell) /\ frames \in Seq(Frame)
  BY CoreParts
<1>1. /\ n \in Nat /\ n \in DOMAIN frames /\ DOMAIN frames = 1..n /\ f = frames[n] /\ f.phase = "slots"
  BY DEF Slotting
<1>2. /\ fr2 \in Seq(Frame) /\ Len(fr2) = n /\ DOMAIN fr2 = 1..n /\ fr2[n] = g
      /\ g.cell = f.cell /\ g.op = f.op /\ g.phase = f.phase /\ g.erred = f.erred /\ g.height = f.height
      /\ \A i \in 1..(n - 1) : fr2[i] = frames[i] /\ i \in DOMAIN frames
  BY DEF Onwards, Replaced
<1>3. \A i \in 1..n : i = n \/ i \in 1..(n - 1)
  BY <1>1
<1>4. \A i \in 1..n : /\ fr2[i].cell = frames[i].cell /\ fr2[i].phase = frames[i].phase
                      /\ fr2[i].op = frames[i].op /\ fr2[i].erred = frames[i].erred
                      /\ fr2[i].height = frames[i].height
  BY <1>1, <1>2, <1>3
<1>5. /\ Stacked(kind, garbage, bound, frames) /\ Numbered(count, frames)
      /\ Unused(kind, slot, count, garbage, frames) /\ ConsHigh(kind, count, garbage)
  BY <1>0 DEF InOrder, Ledger, Books
<1>6. PICK o : o = slot[f.cell][f.todo]
  OBVIOUS
<1>7. Stepped(f.cell, f.todo, o, slot, fr2) /\ Dead(fr2) = Dead(frames)
  BY <1>6, SlotStepped
<1>8. Follows(slot, count, base, bound, frames, NIL, slot, count, base, bound, fr2, o)
  BY <1>0, <1>7, SteppedFollows
<1>9. Stacked(kind, garbage, bound, fr2)
  <2>1. ASSUME NEW i \in 1..n
        PROVE  Goes(kind, garbage, bound, frames, kind, garbage, bound, fr2, i)
    <3>0. /\ fr2[i].cell = frames[i].cell /\ fr2[i].height = frames[i].height
          /\ Pending(fr2[i]) => Pending(frames[i])
          /\ Pending(frames[i]) => frames[i].height < Len(bound)
      BY <1>1, <1>4, <1>5 DEF Stacked, Binds, Pending
    <3>1. CASE i \in 1..(n - 1)
      <4>1. fr2[i] = frames[i]
        BY <1>2, <3>1
      <4> QED BY <3>0, <4>1 DEF Goes
    <3>2. CASE i = n
      <4>1. Shape(f, kind, garbage)
        BY <1>1, <1>5 DEF Stacked, Shaped
      <4>2. Shape(g, kind, garbage)
        BY <1>1, <1>2, <4>1 DEF Shape
      <4>3. i = Len(fr2) /\ fr2[i] = g /\ (g.erred => frames[i].erred)
        BY <1>1, <1>2, <3>2
      <4> QED BY <3>0, <4>2, <4>3 DEF Goes
    <3> QED BY <1>3, <3>1, <3>2
  <2>2. Len(fr2) <= Len(frames) /\ \A i \in 1..Len(fr2) : i \in 1..n
    BY <1>0, <1>1, <1>2
  <2>3. \A i \in 1..Len(fr2) : Goes(kind, garbage, bound, frames, kind, garbage, bound, fr2, i)
    BY <2>1, <2>2
  <2> QED BY <1>0, <1>2, <1>5, <2>2, <2>3, CutKeeps
<1>10. Numbered(count, fr2)
  BY <1>1, <1>2, <1>4, <1>5 DEF Numbered, Number
<1>11. Unused(kind, slot, count, garbage, fr2)
  BY <1>5, <1>7 DEF Unused
<1>12. Rests(count, garbage, bound, frames, count, garbage, bound, fr2)
  <2>1. Calm(fr2) <=> Calm(frames)
    BY <1>1, <1>2, <1>4 DEF Calm
  <2>2. Pushes(bound, frames) => Pushes(bound, fr2)
    BY <1>1, <1>2, <1>4 DEF Pushes
  <2>3. Flags(garbage, count, frames) => Flags(garbage, count, fr2)
    BY <1>7 DEF Flags
  <2> QED BY <2>1, <2>2, <2>3 DEF Rests
<1>13. Ledger(kind, slot, count, garbage, base, bound, fr2, o)
  BY <1>0, <1>5, <1>8, <1>9, <1>10, <1>11, <1>12, LedgerMoves DEF InOrder
<1> QED BY <1>6, <1>13

\* A cons whose last slot goes.
LEMMA ConsLedger ==
  ASSUME CoreInv, NEW n, NEW f, NEW fr1, NEW kd2 \in [Cell -> Kinds], NEW sl2 \in [Cell -> [Slot -> Ref]],
         Ended(n, f, fr1, kd2, sl2, garbage), ~f.erred, f.todo = Slots, f.cell \notin garbage
  PROVE  Ledger(kd2, sl2, count, garbage, base, bound, fr1, slot[f.cell][f.todo])
<1>0. /\ InOrder
      /\ slot \in [Cell -> [Slot -> Ref]] /\ count \in Counts /\ base \in [Name -> Ref]
      /\ bound \in Seq(Cell)
  BY CoreParts
<1>1. /\ Slotting(n, f) /\ Lower(n, fr1) /\ \A x \in Cell : sl2[x] = IF x = f.cell THEN None ELSE slot[x]
  BY DEF Ended
<1>2. PICK o : o = slot[f.cell][f.todo]
  OBVIOUS
<1>3. Stepped(f.cell, f.todo, o, sl2, fr1)
  BY <1>1, <1>2, ConsStepped
<1>4. Follows(slot, count, base, bound, frames, NIL, sl2, count, base, bound, fr1, o)
  BY <1>3, SteppedFollows
<1>5. /\ Stacked(kd2, garbage, bound, fr1) /\ Numbered(count, fr1)
      /\ Unused(kd2, sl2, count, garbage, fr1) /\ ConsHigh(kd2, count, garbage)
  BY EndedStacked
<1>6. /\ n \in Nat /\ DOMAIN frames = 1..n /\ f = frames[n] /\ f.phase = "slots"
      /\ \A i \in DOMAIN fr1 : i \in DOMAIN frames /\ fr1[i] = frames[i]
      /\ \A i \in DOMAIN frames : i # n => i \in DOMAIN fr1 /\ fr1[i] = frames[i]
  <2>1. n \in Nat /\ DOMAIN frames = 1..n /\ f = frames[n] /\ f.phase = "slots"
    BY <1>1 DEF Slotting
  <2>2. DOMAIN fr1 = 1..(n - 1) /\ \A i \in 1..(n - 1) : i \in DOMAIN frames /\ fr1[i] = frames[i]
    BY <1>1 DEF Lower
  <2>3. \A i \in 1..n : i = n \/ i \in 1..(n - 1)
    BY <2>1
  <2> QED BY <2>1, <2>2, <2>3
<1>7. Rests(count, garbage, bound, frames, count, garbage, bound, fr1)
  <2>1. Calm(fr1) <=> Calm(frames)
    BY <1>6 DEF Calm
  <2>2. Pushes(bound, frames) => Pushes(bound, fr1)
    <3>1. \A i \in DOMAIN frames : frames[i].phase = "lisp" => i \in DOMAIN fr1 /\ fr1[i] = frames[i]
      BY <1>6
    <3> QED BY <3>1 DEF Pushes
  <2>3. Flags(garbage, count, frames) => Flags(garbage, count, fr1)
    <3>1. \A x \in Dead(frames) : x = f.cell \/ x \in Dead(fr1)
      BY <1>6 DEF Dead
    <3> QED BY <3>1 DEF Flags
  <2> QED BY <2>1, <2>2, <2>3 DEF Rests
<1>8. Ledger(kd2, sl2, count, garbage, base, bound, fr1, o)
  BY <1>0, <1>4, <1>5, <1>7, LedgerMoves DEF InOrder
<1> QED BY <1>2, <1>8

\* What is to be released has a count.
LEMMA OwedCounts ==
  ASSUME NEW kd, NEW gb, NEW fr, NEW sl \in [Cell -> [Slot -> Ref]], NEW cnt \in Counts,
         NEW bs \in [Name -> Ref], NEW bn \in Seq(Cell), NEW o,
         Ledger(kd, sl, cnt, gb, bs, bn, fr, o)
  PROVE  Counted(o, cnt)
<1>1. ASSUME o \in Cell
      PROVE  cnt[o] # 0
  <2>1. Total(o, sl, cnt, bs, bn, fr) + Eq(o, o) <= cnt[o] % High
    BY <1>1 DEF InOrder, Ledger, Books, Covered
  <2>2. Total(o, sl, cnt, bs, bn, fr) \in Nat /\ Eq(o, o) = 1
    BY TotalType DEF Eq
  <2>3. cnt[o] \in Nat
    BY <1>1 DEF Counts
  <2>4. cnt[o] % High <= cnt[o] /\ cnt[o] % High \in Nat
    BY <2>3, RestType
  <2> QED BY <2>1, <2>2, <2>3, <2>4
<1> QED BY <1>1 DEF Counted

\* A dying cell that lets a slot go keeps the ledger.
LEMMA LetSlotGoLedger ==
  ASSUME CoreInv, RoomLeft, LetSlotGo
  PROVE  InOrder'
<1>0. /\ InOrder
      /\ kind \in [Cell -> Kinds] /\ slot \in [Cell -> [Slot -> Ref]] /\ count \in Counts
      /\ base \in [Name -> Ref] /\ bound \in Seq(Cell)
      /\ garbage \in SUBSET Cell /\ frames \in Seq(Frame)
  BY CoreParts
<1>1. PICK n, f, c, s : n = Len(frames) /\ f = frames[n] /\ c = f.cell /\ s = f.todo
  OBVIOUS
<1>2. AtTop(n, f) /\ Top = f /\ frames # <<>> /\ f.phase = "slots" /\ s <= Slots
  BY <1>1 DEF AtTop, Top, LetSlotGo
<1>3. Slotting(n, f)
  BY <1>2, TopSlots
<1>4. /\ c \in Cell /\ n \in Nat /\ n \in DOMAIN frames /\ DOMAIN frames = 1..n /\ f \in Frame
      /\ f.op \in {"purge", "collect", "sweep"} /\ Number(f, count)
  BY <1>1, <1>3 DEF Slotting
<1>5. s \in Slot /\ s \in Nat
  BY <1>1, <1>2, <1>4, HeapAssumption DEF Frame, Slot
<1>6. PICK o : o = slot[c][s]
  OBVIOUS
<1>7. o \in Ref /\ High >= 4
  BY <1>0, <1>4, <1>5, <1>6, Room
<1>8. UNCHANGED <<base, collector, exact>>
  BY DEF LetSlotGo, passes, history
<1>9. CASE ~(kind[c] = "cons" /\ s = Slots)
  <2>1. PICK fr2 : fr2 = [frames EXCEPT ![Len(frames)].todo = @ + 1]
    OBVIOUS
  <2>2. kind' = kind /\ slot' = slot /\ Release(o, count, fr2, bound)
    BY <1>1, <1>2, <1>6, <1>9, <2>1 DEF LetSlotGo
  <2>3. PICK g : g = [f EXCEPT !.todo = s + 1]
    OBVIOUS
  <2>4. Onwards(n, f, g, fr2)
    <3>1. /\ g.cell = f.cell /\ g.op = f.op /\ g.phase = f.phase /\ g.erred = f.erred
          /\ g.height = f.height /\ g.todo = s + 1
      BY <1>4, <2>3 DEF Frame
    <3>2. s + 1 \in 1..(Slots + 1)
      BY <1>2, <1>5, HeapAssumption
    <3>3. g \in Frame
      BY <1>4, <2>3, <3>2 DEF Frame
    <3>4. fr2 = [frames EXCEPT ![n] = g]
      BY <1>0, <1>1, <1>4, <2>1, <2>3
    <3>5. Replaced(n, g, fr2)
      BY <1>0, <1>1, <1>2, <3>3, <3>4, TopReplaced
    <3> QED BY <1>1, <3>1, <3>3, <3>5 DEF Onwards
  <2>5. Ledger(kind, slot, count, garbage, base, bound, fr2, o)
    <3>1. Ledger(kind, slot, count, garbage, base, bound, fr2, slot[f.cell][f.todo])
      BY <1>1, <1>3, <1>5, <2>4, SlotLedger
    <3> QED BY <1>1, <1>6, <3>1
  <2>6. fr2 \in Seq(Frame)
    BY <2>4 DEF Onwards, Replaced
  <2>7. Ledger(kind, slot, count', garbage', base, bound', frames', NIL)
    BY <1>0, <1>7, <2>2, <2>5, <2>6, ReleaseLedger
  <2> QED BY <1>8, <2>2, <2>7 DEF InOrder, Ledger, Pushes
<1>10. CASE kind[c] = "cons" /\ s = Slots
  <2>1. PICK kd, sl : kd = [kind EXCEPT ![c] = "free"] /\ sl = [slot EXCEPT ![c] = None]
    OBVIOUS
  <2>2. kind' = kd /\ slot' = sl /\ Release(o, count, Below, bound)
    BY <1>1, <1>2, <1>6, <1>10, <2>1 DEF LetSlotGo
  <2>3. f.op = "purge" /\ ~f.erred
    BY <1>1, <1>3, <1>10 DEF Slotting
  <2>4. count[c] = 0
    BY <1>1, <1>2, <1>4, <2>3 DEF Number
  <2>5. c \notin garbage
    <3>1. count[c] < High
      BY <2>4, HeapAssumption
    <3> QED BY <1>0, <1>10, <3>1 DEF InOrder, Ledger, Books, ConsHigh
  <2>6. kd \in [Cell -> Kinds] /\ sl \in [Cell -> [Slot -> Ref]]
    <3>1. None \in [Slot -> Ref]
      BY DEF None, Ref
    <3> QED BY <1>0, <1>4, <2>1, <3>1 DEF Kinds
  <2>7. Lower(n, Below)
    BY <1>0, <1>1, <1>2, BelowLower
  <2>8. Ended(n, f, Below, kd, sl, garbage)
    <3>1. /\ \A x \in Cell : sl[x] = IF x = f.cell THEN None ELSE slot[x]
          /\ \A x \in Cell : x # f.cell => kd[x] = kind[x]
          /\ kd[c] = "free"
      BY <1>0, <1>1, <1>4, <2>1
    <3> QED BY <1>0, <1>1, <1>3, <2>4, <2>5, <2>7, <3>1 DEF Ended
  <2>9. Ledger(kd, sl, count, garbage, base, bound, Below, o)
    <3>1. Ledger(kd, sl, count, garbage, base, bound, Below, slot[f.cell][f.todo])
      BY <1>1, <1>10, <2>3, <2>5, <2>6, <2>8, ConsLedger
    <3> QED BY <1>1, <1>6, <3>1
  <2>10. o # NIL => kd[o] = kind[o]
    <3>1. Counted(o, count)
      BY <1>0, <2>6, <2>9, OwedCounts
    <3>2. o \in Cell => o # c
      BY <2>4, <3>1 DEF Counted
    <3> QED BY <1>0, <1>7, <2>1, <3>2 DEF Ref
  <2>11. Below \in Seq(Frame)
    BY <2>7 DEF Lower
  <2>12. Ledger(kd, sl, count', garbage', base, bound', frames', NIL)
    BY <1>0, <1>7, <2>2, <2>6, <2>9, <2>10, <2>11, ReleaseLedger
  <2> QED BY <1>8, <2>2, <2>12 DEF InOrder, Ledger, Pushes
<1> QED BY <1>9, <1>10

\* The collector raises the counts, which leaves what LOCK added in each, and
\* pops what was pushed.
LEMMA MarkLedger ==
  ASSUME CoreInv, RoomLeft, Mark
  PROVE  InOrder'
<1>0. /\ InOrder
      /\ kind \in [Cell -> Kinds] /\ slot \in [Cell -> [Slot -> Ref]]
      /\ count \in Counts /\ base \in [Name -> Ref] /\ bound \in Seq(Cell)
      /\ garbage \in SUBSET Cell /\ NIL \notin Cell
  BY CoreParts, HeapAssumption DEF Cell
<1>1. /\ collector = "due" /\ frames = <<>>
      /\ count' = [c \in Cell |-> IF c \in Used THEN (count[c] + High) % Width ELSE 0]
      /\ bound' = <<>> /\ garbage' \subseteq garbage \cup Used
      /\ collector' = "objects" /\ UNCHANGED <<kind, slot, base, frames, exact>>
  BY CoreParts DEF Mark, Popped, Flag, history
<1>2. PICK cnt, gb : cnt = count' /\ gb = garbage'
  OBVIOUS
<1>3. \A x \in Cell : /\ count[x] # 0 => ~(cnt[x] < High)
                      /\ (cnt[x] # 0 <=> count[x] # 0)
                      /\ cnt[x] % High = count[x] % High /\ cnt[x] \in 0..(Width - 1)
  <2>1. High \in Nat \ {0, 1}
    BY HeapAssumption
  <2>2. ASSUME NEW x \in Cell, count[x] # 0
        PROVE  ~(cnt[x] < High) /\ cnt[x] # 0 /\ cnt[x] % High = count[x] % High /\ cnt[x] \in 0..(Width - 1)
    <3>1. count[x] \in 0..(Width - 1) /\ count[x] + High < Width
      BY <1>0, <1>1 DEF RoomLeft, Counts
    <3>2. /\ (count[x] + High) % High = count[x] % High /\ count[x] + High >= High
          /\ count[x] + High \in 0..(Width - 1) /\ (count[x] + High) % Width = count[x] + High
      BY <3>1, RestRaised
    <3>3. cnt[x] = (count[x] + High) % Width
      BY <1>1, <1>2, <2>2 DEF Used
    <3>4. cnt[x] = count[x] + High /\ cnt[x] % High = count[x] % High
      BY <3>2, <3>3
    <3>5. ~(cnt[x] < High) /\ cnt[x] # 0
      <4>1. count[x] \in Nat
        BY <3>1
      <4> QED BY <2>1, <3>2, <3>4, <4>1
    <3> QED BY <3>2, <3>4, <3>5
  <2>3. ASSUME NEW x \in Cell, count[x] = 0
        PROVE  cnt[x] = 0
    BY <1>1, <1>2, <2>3 DEF Used
  <2>4. \A x \in Cell : count[x] \in 0..(Width - 1)
    BY <1>0 DEF Counts
  <2> QED BY <2>2, <2>3, <2>4
<1>4. cnt \in Counts
  <2>1. cnt = [c \in Cell |-> cnt[c]]
    BY <1>1, <1>2
  <2> QED BY <1>3, <2>1 DEF Counts
<1>5. /\ Unused(kind, slot, count, garbage, frames) /\ ConsHigh(kind, count, garbage)
      /\ Covered(slot, count, base, bound, frames, NIL) /\ (exact => collector = "idle")
  BY <1>0 DEF InOrder, Ledger, Books
<1>6. Stacked(kind, gb, <<>>, <<>>) /\ Numbered(cnt, <<>>)
  BY DEF Stacked, Apart, Shaped, Binds, ErrorsApart, Numbered
<1>7. Unused(kind, slot, cnt, gb, <<>>)
  <2>1. \A x \in gb : x \in garbage \/ count[x] # 0
    BY <1>1, <1>2 DEF Used
  <2> QED BY <1>1, <1>3, <1>5, <2>1 DEF Unused
<1>8. ASSUME NEW x \in gb
      PROVE  x \in Cell /\ (x \in garbage \/ count[x] # 0)
  BY <1>0, <1>1, <1>2 DEF Used
<1>9. ConsHigh(kind, cnt, gb)
  <2>1. ASSUME NEW x \in gb, kind[x] = "cons"
        PROVE  ~(cnt[x] < High)
    <3>1. x \in garbage => count[x] # 0
      <4>1. x \in garbage => ~(count[x] < High)
        BY <1>5, <2>1 DEF ConsHigh
      <4> QED BY <4>1, HeapAssumption
    <3> QED BY <1>3, <1>8, <3>1
  <2> QED BY <2>1 DEF ConsHigh
<1>10. Flags(gb, cnt, <<>>)
  BY <1>3, <1>8 DEF Flags
<1>11. Covered(slot, cnt, base, <<>>, <<>>, NIL)
  <2>1. Standing(slot, cnt, <<>>) = Standing(slot, count, <<>>)
    <3>1. \A x \in Cell, s \in Slot : Counting(x, s, count, <<>>) <=> Counting(x, s, cnt, <<>>)
      BY <1>3 DEF Counting
    <3> QED BY <3>1, StandingSame
  <2>2. ASSUME NEW x \in Cell
        PROVE  Total(x, slot, cnt, base, <<>>, <<>>) + Eq(x, NIL) <= cnt[x] % High
    <3>1. PICK b, v, t, p, q : /\ b = Times(base, x) /\ v = Times(bound, x) /\ t = Times(Standing(slot, count, <<>>), x)
                               /\ p = In(x, Destroying(<<>>)) /\ q = In(x, Deleting(<<>>))
      OBVIOUS
    <3>2. b \in Nat /\ v \in Nat /\ t \in Nat /\ p \in {0, 1} /\ q \in {0, 1}
      BY <1>0, <3>1, TotalType
    <3>3. Total(x, slot, count, base, bound, <<>>) = b + v + t + p + q
      BY <3>1, Zenon DEF Total
    <3>4. Times(<<>>, x) = 0
      <4>1. \A a \in DOMAIN <<>> : <<>>[a] # x
        OBVIOUS
      <4> QED BY <4>1, TimesNone
    <3>5. Total(x, slot, cnt, base, <<>>, <<>>) = b + 0 + t + p + q
      BY <2>1, <3>1, <3>4, Zenon DEF Total
    <3>6. Total(x, slot, count, base, bound, <<>>) + Eq(x, NIL) <= count[x] % High
      BY <1>1, <1>5 DEF Covered
    <3>7. Eq(x, NIL) = 0 /\ cnt[x] % High = count[x] % High
      BY <1>0, <1>3 DEF Eq
    <3>8. count[x] % High \in Nat
      <4>1. count[x] \in Nat
        BY <1>0 DEF Counts
      <4> QED BY <4>1, RestType
    <3>9. b + v + t + p + q <= count[x] % High
      BY <3>2, <3>3, <3>6, <3>7
    <3>10. b + 0 + t + p + q + 0 <= count[x] % High
      BY <3>2, <3>8, <3>9
    <3> QED BY <3>5, <3>7, <3>10
  <2> QED BY <2>2 DEF Covered
<1>12. Books(kind, slot, cnt, gb, base, <<>>, <<>>, NIL)
  BY <1>6, <1>7, <1>9, <1>11 DEF Books
<1>13. exact' = FALSE
  <2>1. exact \in BOOLEAN
    BY CoreParts
  <2> QED BY <1>1, <1>5, <2>1
<1> QED BY <1>1, <1>2, <1>10, <1>12, <1>13 DEF InOrder, Ledger, Pushes

\* The second pass begins where the first is over: nothing dies.
LEMMA ObjectsDoneLedger ==
  ASSUME CoreInv, ObjectsDone
  PROVE  InOrder'
<1>1. /\ collector = "objects" /\ frames = <<>> /\ collector' = "others"
      /\ UNCHANGED <<kind, slot, count, garbage, base, bound, frames, exact>>
  BY DEF ObjectsDone, Over, history
<1>2. InOrder
  BY CoreParts
<1> QED BY <1>1, <1>2 DEF InOrder, Ledger, Pushes

\* The collector lets the slots of a zombie go.
Sweeps(d, c) ==
  /\ d \in Frame /\ d.op = "sweep" /\ d.cell = c /\ d.phase = "slots" /\ d.todo = 1 /\ ~d.erred
  /\ kind[c] = "zombie" /\ c \in Cell /\ c \notin Dead(frames) /\ ~(count[c] < High)

\* The ledger has the death of a zombie that is swept.
LEMMA SweepLedger ==
  ASSUME CoreInv, NEW c, NEW d, Sweeps(d, c)
  PROVE  Ledger(kind, slot, count, garbage, base, bound, Append(frames, d), NIL)
<1>0. /\ InOrder
      /\ kind \in [Cell -> Kinds] /\ slot \in [Cell -> [Slot -> Ref]]
      /\ count \in Counts /\ base \in [Name -> Ref] /\ bound \in Seq(Cell)
      /\ garbage \in SUBSET Cell /\ frames \in Seq(Frame)
  BY CoreParts
<1>1. /\ d \in Frame /\ d.op = "sweep" /\ d.cell = c /\ d.phase = "slots" /\ d.todo = 1 /\ ~d.erred
      /\ kind[c] = "zombie" /\ c \in Cell /\ c \notin Dead(frames) /\ ~(count[c] < High)
  BY DEF Sweeps
<1>2. PICK fr2 : fr2 = Append(frames, d)
  OBVIOUS
<1>3. /\ Dead(fr2) = Dead(frames) \cup {c} /\ Destroying(fr2) = Destroying(frames)
      /\ Deleting(fr2) = Deleting(frames)
  <2>1. /\ Dead(Append(frames, d)) = Dead(frames) \cup {d.cell}
        /\ Destroying(Append(frames, d)) = Destroying(frames) \cup (IF d.phase = "lisp" THEN {d.cell} ELSE {})
        /\ Deleting(Append(frames, d)) = Deleting(frames) \cup (IF d.op = "delete" THEN {d.cell} ELSE {})
    <3>1. /\ Dead(Append(frames, d)) = Dead(frames) \cup {d.cell}
          /\ Destroying(Append(frames, d)) = Destroying(frames) \cup (IF d.phase = "lisp" THEN {d.cell} ELSE {})
          /\ Deleting(Append(frames, d)) = Deleting(frames) \cup (IF d.op = "delete" THEN {d.cell} ELSE {})
          /\ \A i \in DOMAIN Append(frames, d) : \/ i \in DOMAIN frames /\ Append(frames, d)[i] = frames[i]
                                                 \/ i = Len(frames) + 1 /\ Append(frames, d)[i] = d
          /\ \A i \in DOMAIN frames : i \in DOMAIN Append(frames, d) /\ Append(frames, d)[i] = frames[i]
          /\ Len(frames) + 1 \in DOMAIN Append(frames, d) /\ Append(frames, d)[Len(frames) + 1] = d
      BY <1>0, <1>1, DeadAppend
    <3> QED BY <3>1, Zenon
  <2>2. /\ Destroying(Append(frames, d)) = Destroying(frames) \cup {}
        /\ Deleting(Append(frames, d)) = Deleting(frames) \cup {}
    BY <1>1, <2>1, Zenon
  <2>3. Destroying(Append(frames, d)) = Destroying(frames)
    BY <2>2
  <2>4. Deleting(Append(frames, d)) = Deleting(frames)
    BY <2>2
  <2> QED BY <1>1, <1>2, <2>1, <2>3, <2>4, Zenon
<1>4. /\ Stacked(kind, garbage, bound, frames) /\ Numbered(count, frames)
      /\ Unused(kind, slot, count, garbage, frames) /\ ConsHigh(kind, count, garbage)
      /\ Covered(slot, count, base, bound, frames, NIL)
  BY <1>0 DEF InOrder, Ledger, Books
<1>5. Stacked(kind, garbage, bound, fr2)
  <2>1. Shape(d, kind, garbage)
    BY <1>1 DEF Shape
  <2>2. Begins(kind, garbage, garbage, bound, bound, frames, d)
    BY <1>1, <2>1 DEF Begins
  <2>3. Stacked(kind, garbage, bound, Append(frames, d))
    BY <1>0, <1>1, <1>4, <2>2, PushKeeps
  <2> QED BY <1>2, <2>3
<1>6. Numbered(count, fr2)
  <2>1. Number(d, count)
    BY <1>1 DEF Number
  <2>2. Numbered(count, Append(frames, d))
    BY <1>0, <1>1, <1>4, <2>1, NumberedPush
  <2> QED BY <1>2, <2>2
<1>7. Standing(slot, count, fr2) = Standing(slot, count, frames)
  <2>1. count[d.cell] # 0
    BY <1>1, HeapAssumption
  <2>2. Standing(slot, count, Append(frames, d)) = Standing(slot, count, frames)
    BY <1>0, <1>1, <2>1, StandingPush
  <2> QED BY <1>2, <2>2
<1>8. \A x : Total(x, slot, count, base, bound, fr2) = Total(x, slot, count, base, bound, frames)
  BY <1>3, <1>7, Zenon DEF Total
<1>9. /\ Covered(slot, count, base, bound, fr2, NIL)
      /\ exact => Balanced(slot, count, base, bound, fr2, NIL)
  BY <1>0, <1>4, <1>8 DEF InOrder, Ledger, Covered, Balanced
<1>10. Unused(kind, slot, count, garbage, fr2)
  BY <1>1, <1>3, <1>4 DEF Unused
<1>11. Rests(count, garbage, bound, frames, count, garbage, bound, fr2)
  <2>1. /\ Calm(Append(frames, d)) <=> Calm(frames)
        /\ Pushes(bound, frames) => Pushes(bound, Append(frames, d))
    BY <1>0, <1>1, PushRest
  <2>2. Flags(garbage, count, frames) => Flags(garbage, count, fr2)
    BY <1>3 DEF Flags
  <2> QED BY <1>2, <2>1, <2>2 DEF Rests
<1>12. Ledger(kind, slot, count, garbage, base, bound, fr2, NIL)
  BY <1>0, <1>4, <1>5, <1>6, <1>9, <1>10, <1>11, LedgerGoes DEF InOrder
<1> QED BY <1>2, <1>12

\* A turn of the second pass keeps it.
LEMMA CollectOtherLedger ==
  ASSUME CoreInv, NEW c \in Cell, CollectOther(c)
  PROVE  InOrder'
<1>0. /\ InOrder
      /\ bound \in Seq(Cell) /\ Len(bound) \in Nat /\ garbage \in SUBSET Cell
  BY CoreParts
<1>1. /\ collector = "others" /\ frames = <<>> /\ c \in garbage /\ count[c] # 0
      /\ UNCHANGED <<kind, slot, count, garbage, base, bound, collector, exact>>
  <2>1. c \in {d \in scan..c : d \in garbage \cap Used \cap Others}
    BY DEF CollectOther, Comes
  <2>2. c \in garbage /\ c \in Used
    BY <2>1
  <2> QED BY <2>2 DEF CollectOther, Comes, Used, history
<1>2. CASE kind[c] # "zombie"
  <2>1. frames' = frames
    BY <1>2 DEF CollectOther
  <2> QED BY <1>0, <1>1, <2>1 DEF InOrder, Ledger, Pushes
<1>3. CASE kind[c] = "zombie"
  <2>1. PICK d : d = Death("sweep", c, "slots", Finalize(c), Len(bound))
    OBVIOUS
  <2>2. frames' = Append(frames, d)
    BY <1>1, <1>3, <2>1 DEF CollectOther
  <2>3. d \in Frame
    <3>1. Finalize(c) \in BOOLEAN
      BY DEF Finalize
    <3> QED BY <1>0, <2>1, <3>1, DeathType DEF Ops
  <2>4. d.op = "sweep" /\ d.cell = c /\ d.phase = "slots" /\ d.todo = 1 /\ ~d.erred
    BY <2>1 DEF Death
  <2>5. c \notin Dead(frames)
    BY <1>1 DEF Dead
  <2>6. ~(count[c] < High)
    <3>1. Calm(frames)
      BY <1>1 DEF Calm
    <3>2. Flags(garbage, count, frames)
      BY <1>0, <1>1, <3>1 DEF InOrder, Ledger
    <3> QED BY <1>1, <2>5, <3>2 DEF Flags
  <2>7. Sweeps(d, c)
    BY <1>3, <2>3, <2>4, <2>5, <2>6 DEF Sweeps
  <2>8. Ledger(kind, slot, count, garbage, base, bound, Append(frames, d), NIL)
    BY <2>7, SweepLedger
  <2> QED BY <1>1, <2>2, <2>8 DEF InOrder, Ledger, Pushes
<1> QED BY <1>2, <1>3

--------------------
(* The counts are rebuilt.                                                 *)

\* What symbols get at, and how.
Found(F) ==
  /\ F \subseteq Cell
  /\ \A n \in Name : base[n] \in Cell => base[n] \in F
  /\ \A c \in F, s \in Slot : slot[c][s] \in Cell => slot[c][s] \in F
  /\ \A c \in F : \/ \E n \in Name : base[n] = c
                  \/ \E d \in F, s \in Slot : slot[d][s] = c

\* Reach finds what symbols refer to, what that refers to, and no more.
LEMMA ReachFound ==
  ASSUME slot \in [Cell -> [Slot -> Ref]], base \in [Name -> Ref]
  PROVE  Found(Reach(Image(base)))
<1> DEFINE F == Reach(Image(base))
           Closed(S) == /\ Image(base) \cap Cell \subseteq S
                        /\ \A d \in S : Image(slot[d]) \cap Cell \subseteq S
<1>1. F = {c \in Cell : \A S \in SUBSET Cell : Closed(S) => c \in S}
  BY DEF Reach
<1>2. /\ \A n \in Name : base[n] \in Image(base)
      /\ \A r \in Image(base) : \E n \in Name : base[n] = r
  BY DEF Image
<1>3. \A d \in Cell : /\ \A s \in Slot : slot[d][s] \in Image(slot[d])
                      /\ \A r \in Image(slot[d]) : \E s \in Slot : slot[d][s] = r
  BY DEF Image
<1> HIDE DEF F
<1>4. F \subseteq Cell
  BY <1>1
<1>5. Image(base) \cap Cell \subseteq F
  BY <1>1
<1>6. \A d \in F : Image(slot[d]) \cap Cell \subseteq F
  BY <1>1
<1>7. ASSUME NEW c \in F, \A n \in Name : base[n] # c, \A d \in F, s \in Slot : slot[d][s] # c
      PROVE  FALSE
  <2>1. Image(base) \cap Cell \subseteq F \ {c}
    BY <1>2, <1>5, <1>7
  <2>2. \A d \in F \ {c} : Image(slot[d]) \cap Cell \subseteq F \ {c}
    BY <1>3, <1>4, <1>6, <1>7
  <2>3. Closed(F \ {c}) /\ F \ {c} \in SUBSET Cell
    BY <1>4, <2>1, <2>2
  <2> HIDE DEF Closed
  <2>4. c \in F \ {c}
    BY <1>1, <1>7, <2>3
  <2> QED BY <2>4
<1>8. \A n \in Name : base[n] \in Cell => base[n] \in F
  BY <1>2, <1>5
<1>9. \A c \in F, s \in Slot : slot[c][s] \in Cell => slot[c][s] \in F
  BY <1>3, <1>4, <1>6
<1>10. Found(F)
  BY <1>4, <1>7, <1>8, <1>9 DEF Found
<1> QED BY <1>10 DEF F

\* All of it is in use.
LEMMA ReachUsed ==
  ASSUME CoreInv, frames = <<>>
  PROVE  \A c \in Reach(Image(base)) : count[c] # 0 /\ kind[c] # "free"
<1>0. slot \in [Cell -> [Slot -> Ref]] /\ base \in [Name -> Ref]
  BY CoreParts
<1> DEFINE U == {c \in Cell : count[c] # 0 /\ kind[c] # "free"}
<1>1. Image(base) \cap Cell \subseteq U
  <2>1. ASSUME NEW r \in Image(base) \cap Cell
        PROVE  r \in U
    <3>1. \E n \in Name : base[n] = r
      BY <1>0, <2>1 DEF Image
    <3> QED BY <2>1, <3>1, InUse
  <2> QED BY <2>1
<1>2. ASSUME NEW d \in U
      PROVE  Image(slot[d]) \cap Cell \subseteq U
  <2>1. ASSUME NEW r \in Image(slot[d]) \cap Cell
        PROVE  r \in U
    <3>1. PICK s \in Slot : slot[d][s] = r
      BY <1>0, <1>2, <2>1 DEF Image
    <3>2. Counting(d, s, count, frames)
      BY <1>2 DEF Counting, LetGo
    <3>3. <<d, s>> \in Cell \X Slot /\ Standing(slot, count, frames)[<<d, s>>] = r
      BY <1>2, <3>1, <3>2 DEF Standing
    <3>4. \E p \in Cell \X Slot : Standing(slot, count, frames)[p] = r
      BY <3>3
    <3> QED BY <2>1, <3>4, InUse
  <2> QED BY <2>1
<1>3. U \in SUBSET Cell
  OBVIOUS
<1>4. \A c \in Reach(Image(base)) : c \in U
  <2> HIDE DEF U
  <2> QED BY <1>1, <1>2, <1>3 DEF Reach
<1> QED BY <1>4

\* What stands when only the cells in F do.
Kept(F, sl) == [p \in Cell \X Slot |-> IF p[1] \in F THEN sl[p[1]][p[2]] ELSE NIL]

\* The references that garbage() counts.
Recount(F, x) == Times(base, x) + Times(bound, x) + Times(Kept(F, slot), x)

\* They are the references of Rebuild.
LEMMA ReferencesAre ==
  ASSUME CoreInv, NEW F \in SUBSET Cell, NEW x \in Cell
  PROVE  References(x, F \X Slot) = Recount(F, x)
<1>1. NIL # x
  BY HeapAssumption DEF Cell
<1>2. {p \in F \X Slot : slot[p[1]][p[2]] = x}
      = {p \in DOMAIN Kept(F, slot) : Kept(F, slot)[p] = x}
  <2>1. \A p \in F \X Slot : p \in Cell \X Slot /\ p[1] \in F
    OBVIOUS
  <2>2. \A p \in Cell \X Slot : p[1] \in F => p \in F \X Slot
    OBVIOUS
  <2> QED BY <1>1, <2>1, <2>2 DEF Kept
<1>3. DOMAIN base = Name
  BY CoreParts
<1>4. Cardinality({p \in F \X Slot : slot[p[1]][p[2]] = x}) = Times(Kept(F, slot), x)
  BY <1>2, Zenon DEF Times
<1>5. Cardinality({n \in Name : base[n] = x}) = Times(base, x)
  BY <1>3, Zenon DEF Times
<1>6. Cardinality({i \in DOMAIN bound : bound[i] = x}) = Times(bound, x)
  BY DEF Times
<1> QED BY <1>4, <1>5, <1>6, Zenon DEF References, Recount

\* They are no more than what counted.
LEMMA RecountLess ==
  ASSUME CoreInv, frames = <<>>, NEW F, F = Reach(Image(base)), NEW x \in Cell
  PROVE  /\ Times(base, x) \in Nat /\ Times(bound, x) \in Nat /\ Times(Kept(F, slot), x) \in Nat
         /\ Recount(F, x) < High /\ (x \in F => Recount(F, x) # 0)
<1>0. /\ InOrder
      /\ slot \in [Cell -> [Slot -> Ref]] /\ count \in Counts
      /\ base \in [Name -> Ref] /\ bound \in Seq(Cell)
  BY CoreParts
<1>1. Found(F)
  BY <1>0, ReachFound
<1>2. \A c \in F : count[c] # 0
  BY ReachUsed
<1>3. /\ Times(base, x) \in Nat /\ Times(bound, x) \in Nat /\ Times(Standing(slot, count, frames), x) \in Nat
      /\ In(x, Destroying(frames)) \in {0, 1} /\ In(x, Deleting(frames)) \in {0, 1}
      /\ \A n \in Name : base[n] = x => Times(base, x) >= 1
  BY <1>0, TotalType
<1>4. IsFiniteSet(Cell \X Slot)
  BY PlacesFinite
<1>5. Standing(slot, count, frames) \in [Cell \X Slot -> Ref]
  BY <1>0 DEF Standing, Ref
<1>6. Kept(F, slot) \in [Cell \X Slot -> Ref]
  BY <1>0 DEF Kept, Ref
<1>7. \A p \in Cell \X Slot : Kept(F, slot)[p] = Standing(slot, count, frames)[p] \/ Kept(F, slot)[p] = NIL
  <2>1. ASSUME NEW p \in Cell \X Slot, p[1] \in F
        PROVE  Counting(p[1], p[2], count, frames)
    BY <1>2, <2>1 DEF Counting, LetGo
  <2> QED BY <2>1 DEF Kept, Standing
<1>8. x # NIL
  BY HeapAssumption DEF Cell
<1>9. /\ Times(Kept(F, slot), x) \in Nat
      /\ Times(Kept(F, slot), x) <= Times(Standing(slot, count, frames), x)
  <2>1. DOMAIN Kept(F, slot) = Cell \X Slot
    BY <1>6
  <2> QED BY <1>4, <1>5, <1>7, <1>8, <2>1, TimesLess
<1>10. \A p \in Cell \X Slot : Kept(F, slot)[p] = x => Times(Kept(F, slot), x) >= 1
  <2>1. /\ Times(Kept(F, slot), x) \in Nat
        /\ (\A p \in Cell \X Slot : Kept(F, slot)[p] = x => Times(Kept(F, slot), x) >= 1)
    BY <1>4, <1>6, TimesType
  <2> QED BY <2>1
<1>11. Total(x, slot, count, base, bound, frames) + Eq(x, NIL) <= count[x] % High
  BY <1>0 DEF InOrder, Ledger, Books, Covered
<1>12. count[x] % High \in Nat /\ count[x] % High < High
  BY <1>0, RestType DEF Counts
<1>13. High \in Nat /\ Eq(x, NIL) = 0
  BY <1>8, HeapAssumption DEF Eq
<1>14. Recount(F, x) < High
  <2>1. PICK a, b, s, k, i, j, r :
          /\ a = Times(base, x) /\ b = Times(bound, x) /\ s = Times(Standing(slot, count, frames), x)
          /\ k = Times(Kept(F, slot), x) /\ i = In(x, Destroying(frames)) /\ j = In(x, Deleting(frames))
          /\ r = count[x] % High
    OBVIOUS
  <2>2. a \in Nat /\ b \in Nat /\ s \in Nat /\ k \in Nat /\ i \in {0, 1} /\ j \in {0, 1}
    BY <1>3, <1>9, <2>1
  <2>3. k <= s /\ a + b + s + i + j + 0 <= r /\ r \in Nat /\ r < High
    BY <1>9, <1>11, <1>12, <1>13, <2>1 DEF Total
  <2>4. a + b + k < High
    BY <1>13, <2>2, <2>3
  <2> QED BY <2>1, <2>4 DEF Recount
<1>15. ASSUME x \in F
       PROVE  Times(base, x) >= 1 \/ Times(Kept(F, slot), x) >= 1
  <2>1. CASE \E n \in Name : base[n] = x
    BY <1>3, <2>1
  <2>2. CASE \E d \in F, s \in Slot : slot[d][s] = x
    <3>1. PICK d \in F, s \in Slot : slot[d][s] = x
      BY <2>2
    <3>2. <<d, s>> \in Cell \X Slot /\ Kept(F, slot)[<<d, s>>] = x
      BY <1>1, <3>1 DEF Kept, Found
    <3> QED BY <1>10, <3>2
  <2> QED BY <1>1, <1>15, <2>1, <2>2 DEF Found
<1>16. x \in F => Recount(F, x) # 0
  BY <1>3, <1>9, <1>15 DEF Recount
<1> QED BY <1>3, <1>9, <1>14, <1>16

\* What symbols do not get at has none.
LEMMA RecountNone ==
  ASSUME CoreInv, frames = <<>>, bound = <<>>, NEW F, F = Reach(Image(base)), NEW x \in Cell, x \notin F
  PROVE  Recount(F, x) = 0
<1>1. Found(F) /\ DOMAIN base = Name
  BY CoreParts, ReachFound
<1>2. x # NIL
  BY HeapAssumption DEF Cell
<1>3. Times(base, x) = 0
  <2>1. \A n \in DOMAIN base : base[n] # x
    BY <1>1 DEF Found
  <2> QED BY <2>1, TimesNone
<1>4. Times(bound, x) = 0
  <2>1. \A n \in DOMAIN bound : bound[n] # x
    OBVIOUS
  <2> QED BY <2>1, TimesNone
<1>5. Times(Kept(F, slot), x) = 0
  <2>1. \A p \in DOMAIN Kept(F, slot) : Kept(F, slot)[p] # x
    BY <1>1, <1>2 DEF Found, Kept
  <2> QED BY <2>1, TimesNone
<1> QED BY <1>3, <1>4, <1>5 DEF Recount

\* The heap that garbage() leaves.
Rebuilt(F, kd2, sl2, cnt2) ==
  /\ \A c \in Cell : /\ cnt2[c] = Recount(F, c) /\ cnt2[c] < High /\ cnt2[c] % High = cnt2[c]
                     /\ cnt2[c] # 0 <=> c \in F
                     /\ kd2[c] = "free" => c \notin F
                     /\ sl2[c] = IF c \in F THEN slot[c] ELSE None

\* The heap that Rebuild leaves, when nothing dies and nothing is pushed.
LEMMA RebuildIs ==
  ASSUME CoreInv, Rebuild
  PROVE  /\ frames = <<>> /\ bound = <<>> /\ bound' = <<>> /\ frames' = <<>> /\ base' = base /\ garbage' = {}
         /\ collector' = "idle"
         /\ Rebuilt(Reach(Image(base)), kind', slot', count')
<1>0. /\ InOrder
      /\ slot \in [Cell -> [Slot -> Ref]] /\ count \in Counts
      /\ base \in [Name -> Ref] /\ bound \in Seq(Cell) /\ Len(bound) \in Nat
  BY CoreParts
<1>1. /\ collector = "others" /\ frames = <<>> /\ garbage' = {} /\ collector' = "idle"
      /\ UNCHANGED <<base, bound, frames>>
  BY DEF Rebuild, Over
<1>2. bound = <<>>
  <2>1. Ledger(kind, slot, count, garbage, base, bound, <<>>, NIL)
    BY <1>0, <1>1 DEF InOrder
  <2>2. \A k \in DOMAIN bound : collector # "due" => k = 1 /\ collector = "idle"
    BY <2>1, Quiet
  <2>3. DOMAIN bound = {}
    BY <1>1, <2>2
  <2> QED BY <1>0, <2>3
<1>3. PICK F : F = Reach(Image(base))
  OBVIOUS
<1>4. /\ count' = [c \in Cell |-> References(c, F \X Slot) % Width]
      /\ kind' = [c \in Cell |-> IF c \in F THEN kind[c] ELSE "free"]
      /\ slot' = [c \in Cell |-> IF c \in F THEN slot[c] ELSE None]
  BY <1>3 DEF Rebuild
<1>5. F \in SUBSET Cell
  <2>1. Found(F)
    BY <1>0, <1>3, ReachFound
  <2> QED BY <2>1 DEF Found
<1>6. High \in Nat /\ Width \in Nat /\ High <= Width
  <2>1. High \in Nat \ {0, 1} /\ Starts \in Nat \ {0}
    BY HeapAssumption
  <2>2. Starts * High >= High /\ Starts * High \in Nat
    BY <2>1
  <2> QED BY <2>1, <2>2 DEF Width
<1>7. ASSUME NEW c \in Cell
      PROVE  /\ count'[c] = Recount(F, c) /\ count'[c] < High /\ count'[c] % High = count'[c]
             /\ count'[c] # 0 <=> c \in F
  <2>1. /\ Times(base, c) \in Nat /\ Times(bound, c) \in Nat /\ Times(Kept(F, slot), c) \in Nat
        /\ Recount(F, c) < High /\ (c \in F => Recount(F, c) # 0)
    BY <1>1, <1>3, RecountLess
  <2>2. c \notin F => Recount(F, c) = 0
    BY <1>1, <1>2, <1>3, RecountNone
  <2>3. count'[c] = Recount(F, c) % Width
    <3>1. References(c, F \X Slot) = Recount(F, c)
      BY <1>5, ReferencesAre
    <3> QED BY <1>4, <3>1
  <2>4. Recount(F, c) \in Nat
    BY <2>1 DEF Recount
  <2>5. \A m, n \in Nat : m < n => m % n = m
    OBVIOUS
  <2>6. Recount(F, c) % Width = Recount(F, c) /\ Recount(F, c) % High = Recount(F, c)
    BY <1>6, <2>1, <2>4, <2>5
  <2> QED BY <2>1, <2>2, <2>3, <2>6
<1>8. \A c \in Cell : kind'[c] = "free" => c \notin F
  <2>1. \A c \in F : count[c] # 0 /\ kind[c] # "free"
    BY <1>1, <1>3, ReachUsed
  <2> QED BY <1>4, <2>1
<1>9. \A c \in Cell : slot'[c] = IF c \in F THEN slot[c] ELSE None
  BY <1>4
<1>10. Rebuilt(F, kind', slot', count')
  BY <1>7, <1>8, <1>9 DEF Rebuilt
<1> QED BY <1>1, <1>2, <1>3, <1>10

\* References that stand are a number.
LEMMA KeptType ==
  ASSUME slot \in [Cell -> [Slot -> Ref]], NEW F, NEW x
  PROVE  Times(Kept(F, slot), x) \in Nat
<1>1. IsFiniteSet(Cell \X Slot)
  BY PlacesFinite
<1>2. Kept(F, slot) \in [Cell \X Slot -> Ref]
  BY DEF Kept, Ref
<1>3. /\ Times(Kept(F, slot), x) \in Nat
      /\ (\A p \in Cell \X Slot : Kept(F, slot)[p] = x => Times(Kept(F, slot), x) >= 1)
  BY <1>1, <1>2, TimesType
<1> QED BY <1>3

\* Its counts are right.
LEMMA RebuiltBalanced ==
  ASSUME CoreInv, NEW F, NEW kd2, NEW sl2, NEW cnt2, Rebuilt(F, kd2, sl2, cnt2), bound = <<>>
  PROVE  Balanced(sl2, cnt2, base, bound, <<>>, NIL) /\ Covered(sl2, cnt2, base, bound, <<>>, NIL)
<1>1. ASSUME NEW x \in Cell
      PROVE  Total(x, sl2, cnt2, base, bound, <<>>) + Eq(x, NIL) = cnt2[x]
  <2>1. Standing(sl2, cnt2, <<>>) = Kept(F, slot)
    <3>1. ASSUME NEW p \in Cell \X Slot
          PROVE  (IF Counting(p[1], p[2], cnt2, <<>>) THEN sl2[p[1]][p[2]] ELSE NIL)
                 = (IF p[1] \in F THEN slot[p[1]][p[2]] ELSE NIL)
      <4>1. p[1] \in Cell /\ p[2] \in Slot
        OBVIOUS
      <4>2. Counting(p[1], p[2], cnt2, <<>>) <=> cnt2[p[1]] # 0
        BY DEF Counting, LetGo, Dead
      <4>3. p[1] \notin F => sl2[p[1]][p[2]] = NIL
        BY <4>1 DEF Rebuilt, None
      <4> QED BY <4>1, <4>2, <4>3 DEF Rebuilt
    <3> QED BY <3>1, Zenon DEF Standing, Kept
  <2>2. In(x, Destroying(<<>>)) = 0 /\ In(x, Deleting(<<>>)) = 0
    BY DEF In, Destroying, Deleting
  <2>3. Eq(x, NIL) = 0
    BY HeapAssumption DEF Eq, Cell
  <2>4. Times(base, x) \in Nat /\ Times(bound, x) \in Nat
    <3>1. slot \in [Cell -> [Slot -> Ref]] /\ count \in Counts /\ base \in [Name -> Ref] /\ bound \in Seq(Cell)
      BY CoreParts
    <3> QED BY <3>1, TotalType
  <2>5. Times(Kept(F, slot), x) \in Nat
    BY CoreParts, KeptType
  <2>6. Total(x, sl2, cnt2, base, bound, <<>>)
        = Times(base, x) + Times(bound, x) + Times(Kept(F, slot), x) + 0 + 0
    BY <2>1, <2>2, Zenon DEF Total
  <2>7. cnt2[x] = Times(base, x) + Times(bound, x) + Times(Kept(F, slot), x)
    BY DEF Rebuilt, Recount
  <2> QED BY <2>3, <2>4, <2>5, <2>6, <2>7
<1>2. ASSUME NEW x \in Cell
      PROVE  Total(x, sl2, cnt2, base, bound, <<>>) + Eq(x, NIL) <= cnt2[x] % High
  <2>1. cnt2[x] % High = cnt2[x]
    BY DEF Rebuilt
  <2>2. Total(x, sl2, cnt2, base, bound, <<>>) + Eq(x, NIL) = cnt2[x]
    BY <1>1
  <2>3. cnt2[x] \in Nat
    <3>1. slot \in [Cell -> [Slot -> Ref]] /\ count \in Counts /\ base \in [Name -> Ref] /\ bound \in Seq(Cell)
      BY CoreParts
    <3>2. Times(base, x) \in Nat /\ Times(bound, x) \in Nat
      BY <3>1, TotalType
    <3>3. cnt2[x] = Times(base, x) + Times(bound, x) + Times(Kept(F, slot), x)
      BY DEF Rebuilt, Recount
    <3>4. Times(Kept(F, slot), x) \in Nat
      BY CoreParts, KeptType
    <3> QED BY <3>2, <3>3, <3>4
  <2> QED BY <2>1, <2>2, <2>3
<1> QED BY <1>1, <1>2 DEF Balanced, Covered

\* Rebuild makes the ledger exact again.
LEMMA RebuildLedger ==
  ASSUME CoreInv, Rebuild
  PROVE  InOrder'
<1>1. /\ frames = <<>> /\ bound = <<>> /\ bound' = <<>> /\ frames' = <<>> /\ base' = base /\ garbage' = {}
      /\ collector' = "idle"
      /\ Rebuilt(Reach(Image(base)), kind', slot', count')
  BY RebuildIs
<1>2. PICK F, kd2, sl2, cnt2 : F = Reach(Image(base)) /\ kd2 = kind' /\ sl2 = slot' /\ cnt2 = count'
  OBVIOUS
<1>3. Rebuilt(F, kd2, sl2, cnt2)
  BY <1>1, <1>2
<1>4. Balanced(sl2, cnt2, base, <<>>, <<>>, NIL) /\ Covered(sl2, cnt2, base, <<>>, <<>>, NIL)
  <2>1. Balanced(sl2, cnt2, base, bound, <<>>, NIL) /\ Covered(sl2, cnt2, base, bound, <<>>, NIL)
    BY <1>1, <1>3, RebuiltBalanced
  <2> QED BY <1>1, <2>1, Zenon
<1>5. Stacked(kd2, {}, <<>>, <<>>) /\ Numbered(cnt2, <<>>)
  BY DEF Stacked, Apart, Shaped, Binds, ErrorsApart, Numbered
<1>6. Unused(kd2, sl2, cnt2, {}, <<>>)
  BY <1>3 DEF Rebuilt, Unused, Dead
<1>7. ConsHigh(kd2, cnt2, {})
  BY DEF ConsHigh
<1>8. Books(kd2, sl2, cnt2, {}, base, <<>>, <<>>, NIL)
  BY <1>4, <1>5, <1>6, <1>7 DEF Books
<1>9. Low(cnt2)
  BY <1>3 DEF Low, Rebuilt
<1>10. Calm(<<>>)
  BY DEF Calm
<1> QED BY <1>1, <1>2, <1>4, <1>8, <1>9, <1>10 DEF InOrder, Ledger, Pushes

--------------------
(* The ledger and the counts.                                              *)

\* The places that count are those that stand.
LEMMA PlacesStand ==
  ASSUME frames \in Seq(Frame), NEW p
  PROVE  p \in Places <=> p \in Cell \X Slot /\ Counting(p[1], p[2], count, frames)
<1>1. \A i \in DOMAIN frames : frames[i].cell \in Cell /\ frames[i].todo \in Nat
  <2>1. \A i \in DOMAIN frames : frames[i] \in Frame
    OBVIOUS
  <2>2. \A f \in Frame : f.cell \in Cell /\ f.todo \in Nat
    BY HeapAssumption DEF Frame
  <2> QED BY <2>1, <2>2
<1>2. Used \cup Dead(frames) \subseteq Cell
  BY <1>1 DEF Used, Dead
<1>3. p \in Places <=> /\ p \in (Used \cup Dead(frames)) \X Slot
                       /\ \A i \in DOMAIN frames :
                            frames[i].cell = p[1] /\ frames[i].phase = "slots" => p[2] >= frames[i].todo
  BY DEF Places, Dead
<1>4. p \in (Used \cup Dead(frames)) \X Slot
      <=> p \in Cell \X Slot /\ (count[p[1]] # 0 \/ p[1] \in Dead(frames))
  BY <1>2 DEF Used
<1>5. ASSUME p \in Cell \X Slot
      PROVE  (\A i \in DOMAIN frames :
                frames[i].cell = p[1] /\ frames[i].phase = "slots" => p[2] >= frames[i].todo)
             <=> ~LetGo(p[1], p[2], frames)
  <2>1. p[2] \in Nat
    BY <1>5 DEF Slot
  <2>2. \A i \in DOMAIN frames : p[2] >= frames[i].todo <=> ~(p[2] < frames[i].todo)
    BY <1>1, <2>1
  <2> QED BY <2>2 DEF LetGo
<1> QED BY <1>3, <1>4, <1>5 DEF Counting

\* A cell's references.
LEMMA ReferencesTimes ==
  ASSUME CoreInv, NEW c \in Cell
  PROVE  References(c, Places)
         = Times(base, c) + Times(bound, c) + Times(Standing(slot, count, frames), c)
<1>0. frames \in Seq(Frame) /\ DOMAIN base = Name
  BY CoreParts
<1>1. c # NIL
  BY HeapAssumption DEF Cell
<1>2. {p \in Places : slot[p[1]][p[2]] = c}
      = {p \in DOMAIN Standing(slot, count, frames) : Standing(slot, count, frames)[p] = c}
  <2>1. \A p : p \in Places <=> p \in Cell \X Slot /\ Counting(p[1], p[2], count, frames)
    BY <1>0, PlacesStand
  <2> QED BY <1>1, <2>1 DEF Standing
<1>3. Cardinality({p \in Places : slot[p[1]][p[2]] = c}) = Times(Standing(slot, count, frames), c)
  BY <1>2, Zenon DEF Times
<1>4. Cardinality({n \in Name : base[n] = c}) = Times(base, c)
  BY <1>0, Zenon DEF Times
<1>5. Cardinality({i \in DOMAIN bound : bound[i] = c}) = Times(bound, c)
  BY DEF Times
<1> QED BY <1>3, <1>4, <1>5, Zenon DEF References

\* What the calls in progress added.
LEMMA HeldIs ==
  ASSUME Apart(frames), NEW c
  PROVE  Held(c) = In(c, Destroying(frames)) + In(c, Deleting(frames))
<1> DEFINE S == {i \in DOMAIN frames : frames[i].cell = c /\ frames[i].phase = "lisp"}
           T == {i \in DOMAIN frames : frames[i].cell = c /\ frames[i].op = "delete"}
<1>1. \A i, j \in S : i = j
  BY DEF Apart
<1>2. \A i, j \in T : i = j
  BY DEF Apart
<1>3. c \in Destroying(frames) <=> S # {}
  BY DEF Destroying
<1>4. c \in Deleting(frames) <=> T # {}
  BY DEF Deleting
<1>5. Held(c) = Cardinality(S) + Cardinality(T)
  BY DEF Held
<1> HIDE DEF S, T
<1>6. ASSUME NEW U, \A i, j \in U : i = j
      PROVE  Cardinality(U) = IF U # {} THEN 1 ELSE 0
  <2>1. CASE U = {}
    BY <2>1, FS_EmptySet
  <2>2. CASE U # {}
    <3>1. PICK i \in U : TRUE
      BY <2>2
    <3>2. U = {i}
      BY <1>6, <3>1
    <3>3. Cardinality(U) = Cardinality({i})
      BY <3>2, Zenon
    <3> QED BY <2>2, <3>3, FS_Singleton
  <2> QED BY <2>1, <2>2
<1>7. Cardinality(S) = (IF S # {} THEN 1 ELSE 0) /\ Cardinality(T) = (IF T # {} THEN 1 ELSE 0)
  BY <1>1, <1>2, <1>6
<1>8. Cardinality(S) = In(c, Destroying(frames)) /\ Cardinality(T) = In(c, Deleting(frames))
  BY <1>3, <1>4, <1>7 DEF In
<1> QED BY <1>5, <1>8, Zenon

\* Where the ledger is kept, the counts are right.
LEMMA CoreRight ==
  ASSUME CoreInv
  PROVE  CountsRight
<1>0. /\ InOrder
      /\ kind \in [Cell -> Kinds] /\ slot \in [Cell -> [Slot -> Ref]]
      /\ count \in Counts /\ base \in [Name -> Ref] /\ bound \in Seq(Cell)
      /\ frames \in Seq(Frame)
  BY CoreParts
<1>1. Image(base) \cap Cell \subseteq Occupied
  <2>1. ASSUME NEW x \in Image(base) \cap Cell
        PROVE  x \in Occupied
    <3>1. \E n \in Name : base[n] = x
      BY <1>0, <2>1 DEF Image
    <3> QED BY <2>1, <3>1, InUse DEF Occupied
  <2> QED BY <2>1
<1>2. Image(bound) \subseteq Occupied
  <2>1. ASSUME NEW x \in Image(bound)
        PROVE  x \in Occupied
    <3>1. PICK k \in DOMAIN bound : bound[k] = x
      BY <2>1 DEF Image
    <3>2. x \in Cell
      BY <1>0, <3>1
    <3> QED BY <3>1, <3>2, InUse DEF Occupied
  <2> QED BY <2>1
<1>3. ASSUME NEW p \in Places
      PROVE  slot[p[1]][p[2]] \in Occupied \cup {NIL}
  <2>1. p \in Cell \X Slot /\ Counting(p[1], p[2], count, frames)
    BY <1>0, <1>3, PlacesStand
  <2>2. PICK r : r = slot[p[1]][p[2]]
    OBVIOUS
  <2>3. Standing(slot, count, frames)[p] = r
    BY <2>1, <2>2 DEF Standing
  <2>4. r \in Ref
    BY <1>0, <2>1, <2>2
  <2>5. r \in Cell => r \in Occupied
    BY <2>1, <2>3, InUse DEF Occupied
  <2> QED BY <2>2, <2>4, <2>5 DEF Ref
<1>4. ASSUME collector = "idle", NEW c \in Occupied
      PROVE  /\ References(c, Places) <= count[c] /\ count[c] < High
             /\ exact => count[c] = References(c, Places) + Held(c)
  <2>1. c \in Cell
    BY DEF Occupied
  <2>2. count[c] < High
    BY <1>0, <1>4, <2>1 DEF InOrder, Ledger, Low
  <2>3. PICK r, h, n, t : /\ r = References(c, Places) /\ h = Held(c) /\ n = count[c]
                          /\ t = Total(c, slot, count, base, bound, frames)
    OBVIOUS
  <2>4. /\ Times(base, c) \in Nat /\ Times(bound, c) \in Nat /\ Times(Standing(slot, count, frames), c) \in Nat
        /\ In(c, Destroying(frames)) \in {0, 1} /\ In(c, Deleting(frames)) \in {0, 1}
    BY <1>0, TotalType
  <2>5. References(c, Places)
        = Times(base, c) + Times(bound, c) + Times(Standing(slot, count, frames), c)
    BY <2>1, ReferencesTimes
  <2>6. Held(c) = In(c, Destroying(frames)) + In(c, Deleting(frames))
    BY <1>0, HeldIs DEF InOrder, Ledger, Books, Stacked
  <2>7. r \in Nat /\ h \in Nat /\ t = r + h
    BY <2>3, <2>4, <2>5, <2>6 DEF Total
  <2>8. Eq(c, NIL) = 0
    BY <2>1, HeapAssumption DEF Eq, Cell
  <2>9. n \in Nat /\ n % High = n
    <3>1. n \in Nat
      BY <1>0, <2>1, <2>3 DEF Counts
    <3> QED BY <2>2, <2>3, <3>1, RestType
  <2>10. t + 0 <= n
    <3>1. t + Eq(c, NIL) <= n % High
      BY <1>0, <2>1, <2>3 DEF InOrder, Ledger, Books, Covered
    <3> QED BY <2>8, <2>9, <3>1
  <2>11. exact => t + 0 = n
    <3>1. exact => t + Eq(c, NIL) = n
      BY <1>0, <2>1, <2>3 DEF InOrder, Ledger, Balanced
    <3> QED BY <2>8, <3>1
  <2>12. r <= n /\ (exact => n = r + h)
    BY <2>7, <2>9, <2>10, <2>11
  <2> QED BY <2>2, <2>3, <2>12
<1> QED BY <1>1, <1>2, <1>3, <1>4 DEF CountsRight

\* The ledger of the empty heap.
LEMMA CoreStarts ==
  ASSUME Init
  PROVE  CoreInv
<1>1. HeapInv
  BY StartsWell
<1>2. InOrder
  <2>1. /\ kind = [c \in Cell |-> "free"] /\ slot = [c \in Cell |-> None] /\ count = [c \in Cell |-> 0]
        /\ garbage = {} /\ base = [n \in Name |-> NIL] /\ bound = <<>> /\ frames = <<>>
        /\ collector = "idle" /\ exact = TRUE
    BY DEF Init
  <2>2. /\ slot \in [Cell -> [Slot -> Ref]] /\ count \in Counts /\ base \in [Name -> Ref] /\ bound \in Seq(Cell)
    BY <1>1, Parts
  <2>3. ASSUME NEW x \in Cell
        PROVE  /\ Total(x, slot, count, base, bound, frames) + Eq(x, NIL) = count[x]
               /\ Total(x, slot, count, base, bound, frames) + Eq(x, NIL) <= count[x] % High
    <3>0. x # NIL
      BY HeapAssumption DEF Cell
    <3>1. Times(base, x) = 0
      <4>1. \A n \in DOMAIN base : base[n] # x
        BY <2>1, <3>0
      <4> QED BY <4>1, TimesNone
    <3>2. Times(bound, x) = 0
      <4>1. \A n \in DOMAIN bound : bound[n] # x
        BY <2>1
      <4> QED BY <4>1, TimesNone
    <3>3. Times(Standing(slot, count, frames), x) = 0
      <4>1. \A p \in Cell \X Slot : slot[p[1]][p[2]] = NIL
        BY <2>1 DEF None
      <4>2. \A p \in DOMAIN Standing(slot, count, frames) : Standing(slot, count, frames)[p] # x
        BY <3>0, <4>1 DEF Standing
      <4> QED BY <4>2, TimesNone
    <3>4. In(x, Destroying(frames)) = 0 /\ In(x, Deleting(frames)) = 0
      BY <2>1 DEF In, Destroying, Deleting
    <3>5. Eq(x, NIL) = 0
      BY <3>0 DEF Eq
    <3>6. Total(x, slot, count, base, bound, frames) = 0
      BY <3>1, <3>2, <3>3, <3>4 DEF Total
    <3>7. count[x] = 0 /\ 0 % High = 0
      <4>1. \A n \in Nat \ {0} : 0 % n = 0
        OBVIOUS
      <4> QED BY <2>1, <4>1, HeapAssumption
    <3> QED BY <3>5, <3>6, <3>7
  <2>4. Balanced(slot, count, base, bound, frames, NIL) /\ Covered(slot, count, base, bound, frames, NIL)
    BY <2>3 DEF Balanced, Covered
  <2>5. Stacked(kind, garbage, bound, frames) /\ Numbered(count, frames) /\ Calm(frames)
    BY <2>1 DEF Stacked, Apart, Shaped, Binds, ErrorsApart, Numbered, Calm
  <2>6. Unused(kind, slot, count, garbage, frames) /\ ConsHigh(kind, count, garbage)
    BY <2>1 DEF Unused, ConsHigh, Dead
  <2>7. Low(count)
    BY <2>1, HeapAssumption DEF Low
  <2>8. Pushes(bound, frames)
    BY <2>1 DEF Pushes
  <2> QED BY <2>1, <2>4, <2>5, <2>6, <2>7, <2>8 DEF InOrder, Ledger, Books
<1> QED BY <1>1, <1>2 DEF CoreInv

\* Every step keeps it.
LEMMA CoreKeeps ==
  ASSUME CoreInv, RoomLeft, ~FailInSlots, Next
  PROVE  CoreInv'
<1>1. HeapInv'
  BY LispKeeps, DyingKeeps, CollectingKeeps DEF Next, CoreInv
<1>2. CASE Lisp
  <2>1. ASSUME NEW n \in Name, NEW c \in Ref, Setq(n, c)
        PROVE  InOrder'
    BY <2>1, SetqLedger
  <2>2. ASSUME NEW n \in Name, NEW c \in Cell, NEW k \in {"object", "cons"}, Make(n, c, k)
        PROVE  InOrder'
    BY <2>2, MakeLedger
  <2>3. ASSUME NEW c \in Cell, NEW s \in Slot, NEW d \in Ref, Setslot(c, s, d)
        PROVE  InOrder'
    BY <2>3, SetslotLedger
  <2>4. ASSUME NEW c \in Cell, Let(c)
        PROVE  InOrder'
    BY <2>4, LetLedger
  <2>5. ASSUME NEW c \in Cell, Watch(c)
        PROVE  InOrder'
    BY <2>5, WatchLedger
  <2>6. ASSUME NEW c \in Cell, Delete(c)
        PROVE  InOrder'
    BY <2>6, DeleteLedger
  <2>7. ASSUME EndLet
        PROVE  InOrder'
    BY <2>7, EndLetLedger
  <2>8. ASSUME Fail
        PROVE  InOrder'
    BY <2>8, FailLedger
  <2>9. InOrder'
    BY <1>2, <2>1, <2>2, <2>3, <2>4, <2>5, <2>6, <2>7, <2>8, LispDeeds DEF Deeds
  <2> QED BY <1>1, <2>9 DEF CoreInv
<1>3. CASE Dying
  <2>1. InOrder'
    BY <1>3, ReturnLedger, LetSlotGoLedger, DiedLedger DEF Dying
  <2> QED BY <1>1, <2>1 DEF CoreInv
<1>4. CASE Collecting
  <2>1. ASSUME NEW c \in Cell, CollectObject(c)
        PROVE  InOrder'
    BY <2>1, CollectObjectLedger
  <2>2. ASSUME NEW c \in Cell, CollectOther(c)
        PROVE  InOrder'
    BY <2>2, CollectOtherLedger
  <2>3. InOrder'
    BY <1>4, <2>1, <2>2, MarkLedger, ObjectsDoneLedger, RebuildLedger DEF Collecting
  <2> QED BY <1>1, <2>3 DEF CoreInv
<1> QED BY <1>2, <1>3, <1>4 DEF Next

\* The counts of the heap, for any number of cells, slots and symbols: nothing
\* in use refers to a freed cell; a count is never less than the references;
\* and it is their number from one rebuilding of the counts until the next
\* error.  Counts have room for what is added to them, no error jumps out of
\* the collector where it lets slots go, and no symbol is read that holds the
\* last reference to a zombie with objects in its slots (ReadZombie): between
\* the UNLOCK and the store a destructor of one would find a count too low.
THEOREM CountsTrue ==
  ASSUME ~FailInSlots
  PROVE  Spec /\ []RoomLeft => []CountsRight
<1>1. Init => CoreInv
  BY CoreStarts
<1>2. CoreInv /\ RoomLeft /\ [Next]_vars => CoreInv'
  <2>1. ASSUME CoreInv, UNCHANGED vars
        PROVE  CoreInv'
    BY <2>1 DEF vars, registered, passes, history, CoreInv, HeapInv, TypeOK, InOrder, Ledger, Pushes, Flags
  <2> QED BY <2>1, CoreKeeps
<1>3. CoreInv => CountsRight
  BY CoreRight
<1> QED BY <1>1, <1>2, <1>3, PTL DEF Spec

--------------------
(* What becomes of a cell.                                                 *)

\* Its members.
LEMMA OfMember ==
  ASSUME NEW fr, NEW x, NEW d
  PROVE  d \in Of(fr, x) <=> \E i \in DOMAIN fr : fr[i].cell = x /\ d = Sig(fr[i])
BY Zenon DEF Of

\* There are none where no death is of x.
LEMMA OfNone ==
  ASSUME NEW fr, NEW x
  PROVE  Of(fr, x) = {} <=> x \notin Dead(fr)
<1>1. (\E d : d \in Of(fr, x)) <=> \E i \in DOMAIN fr : fr[i].cell = x
  BY OfMember, Zenon
<1>2. x \in Dead(fr) <=> \E i \in DOMAIN fr : fr[i].cell = x
  BY Zenon DEF Dead
<1> QED BY <1>1, <1>2

\* Two stacks whose frames say the same say the same of each cell.
LEMMA OfAlike ==
  ASSUME NEW fr, NEW fr2, DOMAIN fr2 = DOMAIN fr,
         \A i \in DOMAIN fr : fr2[i].cell = fr[i].cell /\ Sig(fr2[i]) = Sig(fr[i])
  PROVE  \A x : Of(fr2, x) = Of(fr, x)
<1>1. ASSUME NEW x, NEW d
      PROVE  d \in Of(fr, x) <=> d \in Of(fr2, x)
  <2>1. /\ d \in Of(fr, x) <=> \E i \in DOMAIN fr : fr[i].cell = x /\ d = Sig(fr[i])
        /\ d \in Of(fr2, x) <=> \E i \in DOMAIN fr2 : fr2[i].cell = x /\ d = Sig(fr2[i])
    BY OfMember
  <2> QED BY <2>1
<1> QED BY <1>1

\* The return to a destructor changes nothing of it.
LEMMA OfTick ==
  ASSUME frames \in Seq(Frame)
  PROVE  \A x : Of(Tick, x) = Of(frames, x)
<1>1. CASE frames = <<>>
  BY <1>1 DEF Tick
<1>2. CASE frames # <<>>
  <2>1. Len(frames) \in DOMAIN frames /\ \A i \in DOMAIN frames : frames[i] \in Frame
    BY <1>2
  <2>2. PICK d : d = [frames[Len(frames)] EXCEPT !.ops = @ + 1]
    OBVIOUS
  <2>3. Tick = [frames EXCEPT ![Len(frames)] = d]
    BY <1>2, <2>2 DEF Tick
  <2>4. d.cell = frames[Len(frames)].cell /\ Sig(d) = Sig(frames[Len(frames)])
    BY <2>1, <2>2 DEF Frame, Sig
  <2>5. DOMAIN Tick = DOMAIN frames /\ \A i \in DOMAIN frames : Tick[i] = frames[i] \/ (i = Len(frames) /\ Tick[i] = d)
    BY <2>1, <2>3
  <2>6. \A i \in DOMAIN frames : Tick[i].cell = frames[i].cell /\ Sig(Tick[i]) = Sig(frames[i])
    BY <2>4, <2>5
  <2> QED BY <2>5, <2>6, OfAlike
<1> QED BY <1>1, <1>2

\* A death that begins is of its cell alone.
LEMMA OfAppend ==
  ASSUME NEW fr \in Seq(Frame), NEW d \in Frame, NEW x
  PROVE  Of(Append(fr, d), x) = Of(fr, x) \cup (IF d.cell = x THEN {Sig(d)} ELSE {})
<1>1. PICK fr2 : fr2 = Append(fr, d)
  OBVIOUS
<1>2. /\ \A i \in DOMAIN fr2 : \/ i \in DOMAIN fr /\ fr2[i] = fr[i]
                               \/ i = Len(fr) + 1 /\ fr2[i] = d
      /\ \A i \in DOMAIN fr : i \in DOMAIN fr2 /\ fr2[i] = fr[i]
      /\ Len(fr) + 1 \in DOMAIN fr2 /\ fr2[Len(fr) + 1] = d
  <2>1. /\ DOMAIN fr = 1..Len(fr) /\ Len(fr) \in Nat /\ DOMAIN Append(fr, d) = 1..(Len(fr) + 1)
        /\ Append(fr, d)[Len(fr) + 1] = d /\ \A i \in 1..Len(fr) : Append(fr, d)[i] = fr[i]
    OBVIOUS
  <2>2. \A i \in 1..(Len(fr) + 1) : i \in 1..Len(fr) \/ i = Len(fr) + 1
    BY <2>1
  <2> QED BY <1>1, <2>1, <2>2
<1>3. ASSUME NEW e
      PROVE  e \in Of(fr2, x) <=> e \in Of(fr, x) \/ (d.cell = x /\ e = Sig(d))
  <2>1. e \in Of(fr2, x) <=> \E i \in DOMAIN fr2 : fr2[i].cell = x /\ e = Sig(fr2[i])
    BY OfMember
  <2>2. e \in Of(fr, x) <=> \E i \in DOMAIN fr : fr[i].cell = x /\ e = Sig(fr[i])
    BY OfMember
  <2>3. (\E i \in DOMAIN fr2 : fr2[i].cell = x /\ e = Sig(fr2[i]))
        <=> (\E i \in DOMAIN fr : fr[i].cell = x /\ e = Sig(fr[i])) \/ (d.cell = x /\ e = Sig(d))
    <3> HIDE DEF Sig
    <3> QED BY <1>2, Zenon
  <2> QED BY <2>1, <2>2, <2>3
<1> QED BY <1>1, <1>3

\* The deaths but for the innermost, f.
Parted(f, fr1) ==
  /\ fr1 \in Seq(Frame) /\ Of(frames, f.cell) = {Sig(f)} /\ Of(fr1, f.cell) = {}
  /\ \A x : x # f.cell => Of(fr1, x) = Of(frames, x)

\* Without the innermost frame, its cell does not die.
LEMMA LowerParted ==
  ASSUME NEW n, NEW f, NEW fr1, Lower(n, fr1), n \in Nat, DOMAIN frames = 1..n, n \in DOMAIN frames,
         f = frames[n], \A i \in 1..(n - 1) : frames[i].cell # f.cell
  PROVE  Parted(f, fr1)
<1>1. /\ \A i \in DOMAIN fr1 : i \in DOMAIN frames /\ fr1[i] = frames[i] /\ frames[i].cell # f.cell
      /\ \A i \in DOMAIN frames : i = n \/ (i \in DOMAIN fr1 /\ fr1[i] = frames[i] /\ frames[i].cell # f.cell)
      /\ fr1 \in Seq(Frame)
  <2>1. \A i \in 1..n : i = n \/ i \in 1..(n - 1)
    OBVIOUS
  <2> QED BY <2>1 DEF Lower
<1>2. Of(fr1, f.cell) = {}
  <2>1. f.cell \notin Dead(fr1)
    BY <1>1 DEF Dead
  <2> QED BY <2>1, OfNone
<1>3. ASSUME NEW d
      PROVE  d \in Of(frames, f.cell) <=> d = Sig(f)
  <2>1. d \in Of(frames, f.cell) <=> \E i \in DOMAIN frames : frames[i].cell = f.cell /\ d = Sig(frames[i])
    BY OfMember
  <2> HIDE DEF Sig
  <2> QED BY <1>1, <2>1
<1>4. ASSUME NEW x, NEW d
      PROVE  x # f.cell => (d \in Of(frames, x) <=> d \in Of(fr1, x))
  <2>1. /\ d \in Of(frames, x) <=> \E i \in DOMAIN frames : frames[i].cell = x /\ d = Sig(frames[i])
        /\ d \in Of(fr1, x) <=> \E i \in DOMAIN fr1 : fr1[i].cell = x /\ d = Sig(fr1[i])
    BY OfMember
  <2> HIDE DEF Sig
  <2> QED BY <1>1, <2>1
<1>5. Of(frames, f.cell) = {Sig(f)}
  BY <1>3
<1>6. ASSUME NEW x
      PROVE  x # f.cell => Of(fr1, x) = Of(frames, x)
  <2>1. x # f.cell => \A d : d \in Of(frames, x) <=> d \in Of(fr1, x)
    BY <1>4
  <2> QED BY <2>1
<1> QED BY <1>1, <1>2, <1>5, <1>6 DEF Parted

\* The deaths, with the innermost, f, changed to g.
Changed(f, g, fr2) ==
  /\ Of(frames, f.cell) = {Sig(f)} /\ Of(fr2, f.cell) = {Sig(g)}
  /\ \A x : x # f.cell => Of(fr2, x) = Of(frames, x)

\* Only the death of its cell changes with the innermost frame.
LEMMA ReplacedChanged ==
  ASSUME NEW n, NEW f, NEW g, NEW fr2, Replaced(n, g, fr2), n \in Nat, DOMAIN frames = 1..n, n \in DOMAIN frames,
         f = frames[n], g.cell = f.cell, \A i \in 1..(n - 1) : frames[i].cell # f.cell
  PROVE  Changed(f, g, fr2)
<1>1. /\ \A i \in DOMAIN frames : i = n \/ frames[i].cell # f.cell
      /\ \A i \in DOMAIN frames : i = n \/ fr2[i] = frames[i]
      /\ fr2[n] = g /\ DOMAIN fr2 = DOMAIN frames
  <2>1. \A i \in 1..n : i = n \/ i \in 1..(n - 1)
    OBVIOUS
  <2> QED BY <2>1 DEF Replaced
<1>2. ASSUME NEW d
      PROVE  (d \in Of(frames, f.cell) <=> d = Sig(f)) /\ (d \in Of(fr2, f.cell) <=> d = Sig(g))
  <2>1. /\ d \in Of(frames, f.cell) <=> \E i \in DOMAIN frames : frames[i].cell = f.cell /\ d = Sig(frames[i])
        /\ d \in Of(fr2, f.cell) <=> \E i \in DOMAIN fr2 : fr2[i].cell = f.cell /\ d = Sig(fr2[i])
    BY OfMember
  <2>2. n \in DOMAIN frames /\ f = frames[n] /\ g.cell = f.cell
    OBVIOUS
  <2> HIDE DEF Sig
  <2> QED BY <1>1, <2>1, <2>2
<1>3. ASSUME NEW x, NEW d
      PROVE  x # f.cell => (d \in Of(frames, x) <=> d \in Of(fr2, x))
  <2>1. /\ d \in Of(frames, x) <=> \E i \in DOMAIN frames : frames[i].cell = x /\ d = Sig(frames[i])
        /\ d \in Of(fr2, x) <=> \E i \in DOMAIN fr2 : fr2[i].cell = x /\ d = Sig(fr2[i])
    BY OfMember
  <2> HIDE DEF Sig
  <2> QED BY <1>1, <2>1
<1>4. Of(frames, f.cell) = {Sig(f)} /\ Of(fr2, f.cell) = {Sig(g)}
  BY <1>2
<1>5. ASSUME NEW x
      PROVE  x # f.cell => Of(fr2, x) = Of(frames, x)
  <2>1. x # f.cell => \A d : d \in Of(frames, x) <=> d \in Of(fr2, x)
    BY <1>3
  <2> QED BY <2>1
<1> QED BY <1>4, <1>5 DEF Changed

\* The invariant of the books says it.
LEMMA CoreKnown ==
  ASSUME CoreInv, NEW x \in Cell
  PROVE  Known(x)
<1>0. /\ InOrder
      /\ count \in Counts /\ frames \in Seq(Frame) /\ slot \in [Cell -> [Slot -> Ref]]
      /\ base \in [Name -> Ref] /\ bound \in Seq(Cell)
  BY CoreParts
<1>1. /\ Stacked(kind, garbage, bound, frames) /\ Numbered(count, frames)
      /\ Unused(kind, slot, count, garbage, frames) /\ ConsHigh(kind, count, garbage)
      /\ Covered(slot, count, base, bound, frames, NIL)
  BY <1>0 DEF InOrder, Ledger, Books
<1>2. ~(count[x] < High) => count[x] # 0
  BY HeapAssumption
<1>3. ASSUME x \in Destroying(frames)
      PROVE  count[x] # 0
  BY <1>3, InUse
<1>4. ASSUME NEW i \in DOMAIN frames, frames[i].cell = x
      PROVE  /\ frames[i].op \in Ops /\ frames[i].phase \in {"lisp", "slots"}
             /\ Shape(frames[i], kind, garbage) /\ Number(frames[i], count)
             /\ frames[i].phase = "lisp" => count[x] # 0
  <2>1. frames[i] \in Frame
    BY <1>0
  <2>2. frames[i].op \in Ops /\ frames[i].phase \in {"lisp", "slots"}
    BY <2>1 DEF Frame, Ops
  <2>3. frames[i].phase = "lisp" => x \in Destroying(frames)
    BY <1>4 DEF Destroying
  <2> QED BY <1>1, <1>3, <2>2, <2>3 DEF Stacked, Shaped, Numbered
<1>5. ASSUME NEW d \in Of(frames, x)
      PROVE  /\ d.op \in Ops /\ d.phase \in {"lisp", "slots"} /\ kind[x] # "free"
             /\ d.phase = "lisp" => kind[x] = "object" /\ x \in garbage /\ ~d.erred /\ count[x] # 0
             /\ d.erred => d.op \in {"purge", "collect"} /\ kind[x] = "object" /\ count[x] # 0
             /\ d.op = "delete" => d.phase = "lisp"
             /\ d.op = "collect" => kind[x] = "object" /\ count[x] # 0
             /\ d.op = "sweep" => kind[x] = "zombie" /\ d.phase = "slots" /\ count[x] # 0
             /\ d.op = "purge" /\ d.phase = "slots" /\ ~d.erred => count[x] = 0
  <2>1. PICK i \in DOMAIN frames : frames[i].cell = x /\ d = Sig(frames[i])
    BY OfMember
  <2>2. d.op = frames[i].op /\ d.phase = frames[i].phase /\ d.erred = frames[i].erred
    BY <2>1 DEF Sig
  <2>3. /\ d.op \in Ops /\ d.phase \in {"lisp", "slots"}
        /\ d.phase = "lisp" => count[x] # 0
    BY <1>4, <2>1, <2>2
  <2>4. Shape(frames[i], kind, garbage) /\ Number(frames[i], count)
    BY <1>4, <2>1
  <2>5. /\ kind[x] # "free"
        /\ d.phase = "lisp" => kind[x] = "object" /\ x \in garbage /\ ~d.erred
        /\ d.erred => d.op \in {"purge", "collect"} /\ kind[x] = "object"
        /\ d.op = "delete" => d.phase = "lisp"
        /\ d.op = "collect" => kind[x] = "object"
        /\ d.op = "sweep" => kind[x] = "zombie" /\ d.phase = "slots"
    BY <2>1, <2>2, <2>4 DEF Shape
  <2>6. /\ d.op \in {"collect", "sweep"} => count[x] # 0
        /\ d.op = "purge" => count[x] = IF d.phase = "lisp" THEN 2 ELSE IF d.erred THEN 1 ELSE 0
    BY <1>2, <2>1, <2>2, <2>4 DEF Number
  <2> QED BY <2>3, <2>5, <2>6
<1>6. kind[x] = "free" => count[x] = 0 /\ Of(frames, x) = {} /\ x \notin garbage
  BY <1>1, OfNone DEF Unused
<1>7. kind[x] = "cons" /\ x \in garbage => count[x] # 0
  BY <1>1, <1>2 DEF ConsHigh
<1> QED BY <1>5, <1>6, <1>7 DEF Known

\* What a step may do to a cell.
SameKind(x) == kind'[x] = kind[x] /\ (x \in garbage' <=> x \in garbage)
SameFlags(x) == (x \in flagged' <=> x \in flagged) /\ (x \in finalizers' <=> x \in finalizers)
SameEnds(x) == (x \in destroyed' <=> x \in destroyed) /\ (x \in cut' <=> x \in cut)

\* Nothing but count.
Stays(x) ==
  /\ Of(frames', x) = Of(frames, x) /\ SameKind(x) /\ SameFlags(x) /\ SameEnds(x)
  /\ kind[x] # "free" /\ count[x] = 0 => count'[x] = 0
  /\ count[x] # 0 /\ count'[x] = 0 => Of(frames', x) # {}

\* Make it.
IsMade(x) ==
  /\ kind[x] = "free" /\ kind'[x] \in {"object", "cons"} /\ count'[x] # 0 /\ Of(frames', x) = {}
  /\ (x \in garbage' <=> x \in garbage) /\ SameFlags(x) /\ SameEnds(x)

\* Watch it.
IsWatched(x) ==
  /\ count[x] # 0 /\ count'[x] # 0 /\ Of(frames, x) = {} /\ Of(frames', x) = {} /\ collector # "others"
  /\ SameKind(x) /\ SameEnds(x) /\ x \in flagged'

\* Begin its death, by purge or delete.
IsBegun(x) ==
  /\ Of(frames, x) = {} /\ count[x] # 0 /\ kind'[x] = kind[x]
  /\ \E d : /\ Of(frames', x) = {d} /\ d.op \in {"purge", "delete"} /\ ~d.erred
            /\ d.phase = IF kind[x] = "object" THEN "lisp" ELSE "slots"
  /\ x \in garbage' <=> x \in garbage \/ kind[x] = "object"
  /\ x \notin flagged' /\ (x \in finalizers' => x \in finalizers /\ x \notin flagged) /\ SameEnds(x)

\* End its destructor, and begin to let its slots go.
IsTurned(x) ==
  /\ \E t \in Of(frames, x) : \E e :
       /\ Of(frames', x) = {e} /\ t.phase = "lisp" /\ t.op \in {"purge", "collect"}
       /\ e.op = t.op /\ e.phase = "slots" /\ e.finalize = t.finalize /\ (e.erred => x \in cut')
  /\ SameKind(x) /\ SameFlags(x) /\ x \in destroyed' /\ (x \in cut => x \in cut')

\* Make it a zombie: delete, the collector, and purge after an error.
IsDeleted(x) ==
  /\ \E t \in Of(frames, x) : t.op = "delete"
  /\ kind'[x] = "zombie" /\ x \notin garbage' /\ x \notin flagged' /\ x \in destroyed'
  /\ (x \in finalizers' <=> x \in finalizers) /\ (x \in cut' <=> x \in cut)
  /\ \/ Of(frames', x) = {} /\ count'[x] # 0
     \/ \E e : Of(frames', x) = {e} /\ e.op = "purge" /\ e.phase = "slots" /\ ~e.erred

\* The collector does.
IsSwept(x) ==
  /\ \E t \in Of(frames, x) : t.op \in {"collect", "sweep"} /\ (x \in finalizers' => ~t.finalize)
  /\ Of(frames', x) = {} /\ kind'[x] = "zombie" /\ x \in garbage' /\ x \notin flagged' /\ SameEnds(x)
  /\ (x \in finalizers' => x \in finalizers) /\ count'[x] = count[x]

\* So does the end of a death whose destructor failed.
IsAbandoned(x) ==
  /\ \E t \in Of(frames, x) : t.erred
  /\ Of(frames', x) = {} /\ kind'[x] = "zombie" /\ x \notin garbage' /\ x \notin flagged' /\ SameEnds(x)
  /\ (x \in finalizers' <=> x \in finalizers) /\ count'[x] = count[x]

\* Free it.
IsFreed(x) ==
  /\ \E t \in Of(frames, x) : t.op = "purge" /\ t.phase = "slots" /\ ~t.erred
  /\ Of(frames', x) = {} /\ kind'[x] = "free" /\ x \notin garbage'
  /\ \/ x \notin destroyed' /\ x \notin finalizers' /\ x \notin flagged'
     \/ kind[x] = "cons" /\ SameFlags(x) /\ SameEnds(x)

\* End its death with an error.
IsDropped(x) ==
  /\ \E t \in Of(frames, x) : t.phase = "lisp" \/ (t.op = "purge" /\ ~t.erred)
  /\ Of(frames', x) = {} /\ SameKind(x) /\ SameFlags(x) /\ SameEnds(x) /\ count'[x] = count[x] /\ ~Works'

\* Come to it in a pass of the collector.
IsVisited(x) ==
  /\ Of(frames, x) = {} /\ count[x] # 0 /\ x \in garbage
  /\ Works
  /\ \E d : /\ Of(frames', x) = {d} /\ ~d.erred /\ (x \in flagged => d.finalize)
            /\ \/ d.op = "collect" /\ d.phase = "lisp" /\ kind[x] = "object"
               \/ d.op = "sweep" /\ d.phase = "slots" /\ kind[x] = "zombie"
  /\ SameKind(x) /\ SameFlags(x) /\ SameEnds(x)

\* Run its finalizers, without its death.
IsFinalized(x) ==
  /\ Of(frames, x) = {} /\ Of(frames', x) = {} /\ SameKind(x) /\ SameEnds(x) /\ count'[x] = count[x]
  /\ x \notin flagged' /\ (x \in finalizers' => x \in finalizers /\ x \notin flagged)

\* A step does one of these to each cell.
Fate(x) ==
  \/ Stays(x) \/ IsMade(x) \/ IsWatched(x) \/ IsBegun(x) \/ IsTurned(x) \/ IsDeleted(x) \/ IsSwept(x)
  \/ IsAbandoned(x) \/ IsFreed(x) \/ IsDropped(x) \/ IsVisited(x) \/ IsFinalized(x)

--------------------
(* A destructor runs once for an object.                                   *)

\* Whatever a step does to a cell, it keeps OnceAt.
LEMMA FateOnce ==
  ASSUME NEW x, Known(x), Known(x)', OnceAt(x), Fate(x)
  PROVE  OnceAt(x)'
<1> USE DEF Known, OnceAt, SameKind, SameFlags, SameEnds
<1>1. CASE Stays(x)
  BY <1>1 DEF Stays
<1>2. CASE IsMade(x)
  BY <1>2 DEF IsMade
<1>3. CASE IsWatched(x)
  BY <1>3 DEF IsWatched
<1>4. CASE IsBegun(x)
  BY <1>4 DEF IsBegun
<1>5. CASE IsTurned(x)
  BY <1>5 DEF IsTurned
<1>6. CASE IsDeleted(x)
  BY <1>6 DEF IsDeleted
<1>7. CASE IsSwept(x)
  BY <1>7 DEF IsSwept
<1>8. CASE IsAbandoned(x)
  BY <1>8 DEF IsAbandoned
<1>9. CASE IsFreed(x)
  BY <1>9 DEF IsFreed
<1>10. CASE IsDropped(x)
  BY <1>10 DEF IsDropped
<1>11. CASE IsVisited(x)
  BY <1>11 DEF IsVisited
<1>12. CASE IsFinalized(x)
  BY <1>12 DEF IsFinalized
<1> QED BY <1>1, <1>2, <1>3, <1>4, <1>5, <1>6, <1>7, <1>8, <1>9, <1>10, <1>11, <1>12 DEF Fate

--------------------
(* What the collector spares.                                              *)

\* The collector goes on, or an error ends it.
GoesOn ==
  /\ spared' = spared /\ (Works' => Works)
  /\ Works' => collector' = collector /\ scan' = scan

\* It keeps SparedAt.
LEMMA FateSpared ==
  ASSUME NEW x, Known(x), Known(x)', SparedAt(x), Fate(x), spared' = spared, Works' => Works
  PROVE  SparedAt(x)'
<1> USE DEF Known, SparedAt, SameKind, SameFlags, SameEnds
<1>1. CASE Stays(x)
  BY <1>1 DEF Stays
<1>2. CASE IsMade(x)
  BY <1>2 DEF IsMade
<1>3. CASE IsWatched(x)
  BY <1>3 DEF IsWatched
<1>4. CASE IsBegun(x)
  BY <1>4 DEF IsBegun
<1>5. CASE IsTurned(x)
  BY <1>5 DEF IsTurned
<1>6. CASE IsDeleted(x)
  BY <1>6 DEF IsDeleted
<1>7. CASE IsSwept(x)
  BY <1>7 DEF IsSwept
<1>8. CASE IsAbandoned(x)
  BY <1>8 DEF IsAbandoned
<1>9. CASE IsFreed(x)
  BY <1>9 DEF IsFreed
<1>10. CASE IsDropped(x)
  BY <1>10 DEF IsDropped
<1>11. CASE IsVisited(x)
  BY <1>11 DEF IsVisited
<1>12. CASE IsFinalized(x)
  BY <1>12 DEF IsFinalized
<1> QED BY <1>1, <1>2, <1>3, <1>4, <1>5, <1>6, <1>7, <1>8, <1>9, <1>10, <1>11, <1>12 DEF Fate

--------------------
(* The finalizers.                                                         *)

\* It keeps LostAt.
LEMMA FateLost ==
  ASSUME NEW x, Known(x), Known(x)', OnceAt(x), LostAt(x), Fate(x)
  PROVE  LostAt(x)'
<1> USE DEF Known, OnceAt, LostAt, Ops, SameKind, SameFlags, SameEnds
<1>1. CASE Stays(x)
  BY <1>1 DEF Stays
<1>2. CASE IsMade(x)
  BY <1>2 DEF IsMade
<1>3. CASE IsWatched(x)
  BY <1>3 DEF IsWatched
<1>4. CASE IsBegun(x)
  BY <1>4 DEF IsBegun
<1>5. CASE IsTurned(x)
  BY <1>5 DEF IsTurned
<1>6. CASE IsDeleted(x)
  BY <1>6 DEF IsDeleted
<1>7. CASE IsSwept(x)
  BY <1>7 DEF IsSwept
<1>8. CASE IsAbandoned(x)
  BY <1>8 DEF IsAbandoned
<1>9. CASE IsFreed(x)
  BY <1>9 DEF IsFreed
<1>10. CASE IsDropped(x)
  BY <1>10 DEF IsDropped
<1>11. CASE IsVisited(x)
  BY <1>11 DEF IsVisited
<1>12. CASE IsFinalized(x)
  BY <1>12 DEF IsFinalized
<1> QED BY <1>1, <1>2, <1>3, <1>4, <1>5, <1>6, <1>7, <1>8, <1>9, <1>10, <1>11, <1>12 DEF Fate

--------------------
(* What the passes of the collector have been at.                          *)

\* It keeps PassedAt.
LEMMA FatePassed ==
  ASSUME NEW x, Known(x), PassedAt(x), Fate(x), GoesOn
  PROVE  PassedAt(x)'
<1> USE DEF Known, PassedAt, GoesOn, SameKind, SameFlags, SameEnds
<1>1. CASE Stays(x)
  BY <1>1 DEF Stays
<1>2. CASE IsMade(x)
  BY <1>2 DEF IsMade
<1>3. CASE IsWatched(x)
  BY <1>3 DEF IsWatched, Works
<1>4. CASE IsBegun(x)
  BY <1>4 DEF IsBegun
<1>5. CASE IsTurned(x)
  BY <1>5 DEF IsTurned
<1>6. CASE IsDeleted(x)
  BY <1>6 DEF IsDeleted
<1>7. CASE IsSwept(x)
  BY <1>7 DEF IsSwept
<1>8. CASE IsAbandoned(x)
  BY <1>8 DEF IsAbandoned
<1>9. CASE IsFreed(x)
  BY <1>9 DEF IsFreed
<1>10. CASE IsDropped(x)
  BY <1>10 DEF IsDropped
<1>11. CASE IsVisited(x)
  BY <1>11 DEF IsVisited
<1>12. CASE IsFinalized(x)
  BY <1>12 DEF IsFinalized
<1> QED BY <1>1, <1>2, <1>3, <1>4, <1>5, <1>6, <1>7, <1>8, <1>9, <1>10, <1>11, <1>12 DEF Fate

--------------------
(* What the operations do to cells.                                        *)

\* UNLOCK, and a cell: it counts at most, or purge begins.
OnlyCounts(x, cnt, fr) ==
  /\ Of(frames', x) = Of(fr, x) /\ (x \in garbage' <=> x \in garbage) /\ SameFlags(x)
  /\ count'[x] = 0 <=> cnt[x] = 0
Purged(x, cnt, fr) ==
  /\ Of(fr, x) = {} /\ cnt[x] # 0
  /\ \E d : /\ Of(frames', x) = {d} /\ d.op = "purge" /\ ~d.erred
            /\ d.phase = IF kind[x] = "object" THEN "lisp" ELSE "slots"
  /\ x \in garbage' <=> x \in garbage \/ kind[x] = "object"
  /\ x \notin flagged' /\ (x \in finalizers' => x \in finalizers /\ x \notin flagged)
StaysHigh(x, cnt) == ~(cnt[x] < High) => ~(count'[x] < High)
Released(x, cnt, fr) == (OnlyCounts(x, cnt, fr) \/ Purged(x, cnt, fr)) /\ StaysHigh(x, cnt)

\* A reference to c is counted, that UNLOCK can take.
Owed(c, cnt) == c \in Cell => cnt[c] % High >= 1

\* UNLOCK takes one from a rest that is not zero: the mark stays.
LEMMA UnlockedIs ==
  ASSUME NEW c \in Cell, NEW cnt \in Counts, Owed(c, cnt)
  PROVE  /\ cnt[c] # 0 /\ Unlocked(cnt, c)[c] = cnt[c] - 1 /\ Unlocked(cnt, c) \in Counts
         /\ (Unlocked(cnt, c)[c] < High <=> cnt[c] < High)
         /\ \A x \in Cell : x # c => Unlocked(cnt, c)[x] = cnt[x]
<1>1. c # NIL
  BY HeapAssumption DEF Cell
<1>2. cnt[c] \in 0..(Width - 1) /\ cnt[c] \in Nat
  BY DEF Counts
<1>3. cnt[c] % High >= 1 /\ cnt[c] % High \in Nat /\ cnt[c] % High <= cnt[c]
  BY <1>2, RestType DEF Owed
<1>4. (cnt[c] - 1 < High <=> cnt[c] < High) /\ cnt[c] - 1 \in 0..(Width - 1) /\ (cnt[c] + Width - 1) % Width = cnt[c] - 1
  BY <1>2, <1>3, RestMinus
<1>5. PICK v : v = (cnt[c] + Width - 1) % Width
  OBVIOUS
<1>6. Unlocked(cnt, c) = [cnt EXCEPT ![c] = v]
  BY <1>1, <1>5 DEF Unlocked, Minus
<1>7. v \in 0..(Width - 1) /\ v = cnt[c] - 1
  BY <1>4, <1>5
<1>8. [cnt EXCEPT ![c] = v] \in Counts /\ [cnt EXCEPT ![c] = v][c] = v
      /\ \A x \in Cell : x # c => [cnt EXCEPT ![c] = v][x] = cnt[x]
  BY <1>7 DEF Counts
<1> QED BY <1>2, <1>3, <1>4, <1>6, <1>7, <1>8

\* What UNLOCK does to a cell, with a reference that was counted.
LEMMA ReleaseFates ==
  ASSUME NEW c \in Ref, NEW cnt \in Counts, NEW fr \in Seq(Frame), NEW bnd \in Seq(Cell),
         Release(c, cnt, fr, bnd), Owed(c, cnt), Apart(frames'), NEW x \in Cell
  PROVE  Released(x, cnt, fr) /\ (x # c => OnlyCounts(x, cnt, fr))
<1>1. NIL \notin Cell /\ (c \in Cell <=> c # NIL)
  BY HeapAssumption DEF Cell, Ref
<1>2. CASE Counts1(c, cnt, fr, bnd)
  <2>1. /\ c \in Cell => Unlocked(cnt, c)[c] # 0
        /\ count' = Unlocked(cnt, c) /\ garbage' = garbage /\ frames' = fr
    BY <1>2 DEF Counts1
  <2>2. flagged' = flagged /\ finalizers' = finalizers
    BY <1>1, <2>1 DEF Release, registered
  <2>3. (count'[x] = 0 <=> cnt[x] = 0) /\ (~(cnt[x] < High) => ~(count'[x] < High))
    <3>1. CASE c = NIL
      BY <2>1, <3>1 DEF Unlocked
    <3>2. CASE c \in Cell
      <4>1. /\ cnt[c] # 0 /\ (Unlocked(cnt, c)[c] < High <=> cnt[c] < High)
            /\ \A y \in Cell : y # c => Unlocked(cnt, c)[y] = cnt[y]
        BY <3>2, UnlockedIs
      <4> QED BY <2>1, <3>2, <4>1
    <3> QED BY <1>1, <3>1, <3>2
  <2>4. OnlyCounts(x, cnt, fr) /\ StaysHigh(x, cnt)
    BY <2>1, <2>2, <2>3 DEF OnlyCounts, StaysHigh, SameFlags
  <2> QED BY <2>4 DEF Released
<1>3. ASSUME NEW d, Begun(c, cnt, fr, bnd, d)
      PROVE  Released(x, cnt, fr) /\ (x # c => OnlyCounts(x, cnt, fr))
  <2>1. /\ c \in Cell /\ Unlocked(cnt, c)[c] = 0
        /\ d \in Frame /\ d.op = "purge" /\ d.cell = c /\ ~d.erred
        /\ d.phase \in {"lisp", "slots"} /\ frames' = Append(fr, d)
        /\ d.phase = "lisp" => /\ kind[c] = "object" /\ count' = Plus(Unlocked(cnt, c), c, 2)
                               /\ garbage' = garbage \cup {c}
        /\ d.phase = "slots" => kind[c] # "object" /\ count' = Unlocked(cnt, c) /\ garbage' = garbage
    BY <1>3 DEF Begun
  <2>2. /\ finalizers' = IF c \in flagged THEN finalizers \ {c} ELSE finalizers
        /\ flagged' = flagged \ {c}
    BY <1>1, <2>1 DEF Release, RunFinalizers
  <2>3. /\ cnt[c] # 0 /\ Unlocked(cnt, c)[c] = cnt[c] - 1 /\ Unlocked(cnt, c) \in Counts
        /\ \A y \in Cell : y # c => Unlocked(cnt, c)[y] = cnt[y]
    BY <2>1, UnlockedIs
  <2>4. \A y \in Cell : y # c => count'[y] = cnt[y]
    <3>1. \A y \in Cell : y # c => Plus(Unlocked(cnt, c), c, 2)[y] = Unlocked(cnt, c)[y]
      BY <2>3 DEF Plus, Counts
    <3> QED BY <2>1, <2>3, <3>1
  <2>5. Of(frames', x) = Of(fr, x) \cup (IF d.cell = x THEN {Sig(d)} ELSE {})
    BY <2>1, OfAppend
  <2>6. CASE x # c
    <3>1. Of(frames', x) = Of(fr, x) /\ count'[x] = cnt[x]
      BY <2>1, <2>4, <2>5, <2>6
    <3>2. (x \in garbage' <=> x \in garbage) /\ SameFlags(x)
      BY <2>1, <2>2, <2>6 DEF SameFlags
    <3> QED BY <3>1, <3>2 DEF Released, OnlyCounts, StaysHigh
  <2>7. CASE x = c
    <3>1. Of(fr, x) = {}
      <4>1. /\ \A i \in DOMAIN fr : i \in DOMAIN frames' /\ frames'[i] = fr[i] /\ i # Len(fr) + 1
            /\ Len(fr) + 1 \in DOMAIN frames' /\ frames'[Len(fr) + 1] = d
        BY <2>1
      <4>2. c \notin Dead(fr)
        BY <2>1, <4>1 DEF Apart, Dead
      <4> QED BY <2>7, <4>2, OfNone
    <3>2. Of(frames', x) = {Sig(d)}
      BY <2>1, <2>5, <2>7, <3>1
    <3>3. Sig(d).op = "purge" /\ ~Sig(d).erred /\ Sig(d).phase = IF kind[x] = "object" THEN "lisp" ELSE "slots"
      BY <2>1, <2>7 DEF Sig
    <3>4. x \in garbage' <=> x \in garbage \/ kind[x] = "object"
      BY <2>1, <2>7
    <3>5. x \notin flagged' /\ (x \in finalizers' => x \in finalizers /\ x \notin flagged)
      BY <2>2, <2>7
    <3>6. cnt[x] < High
      <4>1. cnt[c] - 1 = 0 /\ cnt[c] \in Nat
        BY <2>1, <2>3 DEF Counts
      <4> QED BY <2>7, <4>1, HeapAssumption
    <3>7. cnt[x] # 0
      BY <2>3, <2>7
    <3> HIDE DEF Sig
    <3>8. Purged(x, cnt, fr)
      BY <3>1, <3>2, <3>3, <3>4, <3>5, <3>7 DEF Purged
    <3> QED BY <2>7, <3>6, <3>8 DEF Released, StaysHigh
  <2> QED BY <2>6, <2>7
<1> QED BY <1>2, <1>3, ReleaseCases

\* What a step within a collection does to the heap.
Settled == \A x \in Cell : Fate(x) /\ StaysHigh(x, count)

\* The deaths after a step are of different cells.
LEMMA ApartAfter ==
  ASSUME CoreInv'
  PROVE  Apart(frames') /\ frames' \in Seq(Frame) /\ count' \in Counts
<1>1. HeapInv' /\ InOrder'
  BY DEF CoreInv
<1>2. frames' \in Seq(Frame) /\ count' \in Counts
  BY <1>1 DEF HeapInv, TypeOK, Counts
<1>3. Apart(frames')
  BY <1>1 DEF InOrder, Ledger, Books, Stacked, Apart
<1> QED BY <1>2, <1>3

\* A step that releases a reference, after counts that stay zero or marked.
LEMMA ReleasedFate ==
  ASSUME NEW x, NEW cnt, NEW fr, Released(x, cnt, fr), Of(fr, x) = Of(frames, x),
         kind'[x] = kind[x], SameEnds(x), cnt[x] = 0 <=> count[x] = 0, cnt[x] < High <=> count[x] < High
  PROVE  Fate(x) /\ StaysHigh(x, count)
<1>1. CASE OnlyCounts(x, cnt, fr)
  <2>1. Stays(x)
    BY <1>1 DEF OnlyCounts, Stays, SameKind
  <2> QED BY <2>1 DEF Released, StaysHigh, Fate
<1>2. CASE Purged(x, cnt, fr)
  <2>1. IsBegun(x)
    BY <1>2 DEF Purged, IsBegun
  <2> QED BY <2>1 DEF Released, StaysHigh, Fate
<1> QED BY <1>1, <1>2 DEF Released

\* LOCK of a cell in use leaves what is owed, and which counts are zero or
\* raised.
LEMMA LockedSame ==
  ASSUME NEW c, NEW cnt, Locks(count, c, cnt), Counted(c, count), count \in Counts, NEW x \in Cell
  PROVE  /\ cnt[x] = 0 <=> count[x] = 0
         /\ cnt[x] < High <=> count[x] < High
         /\ count[x] % High >= 1 => cnt[x] % High >= 1
<1>1. /\ cnt[x] = count[x] + Eq(x, c) /\ cnt[x] % High = (count[x] % High) + Eq(x, c)
      /\ cnt[x] < High <=> count[x] < High
  BY DEF Locks
<1>2. count[x] \in Nat
  BY DEF Counts
<1>3. count[x] % High \in Nat
  BY <1>2, RestType
<1>4. (x = c => Eq(x, c) = 1 /\ count[x] # 0) /\ (x # c => Eq(x, c) = 0)
  BY DEF Eq, Counted
<1> QED BY <1>1, <1>2, <1>3, <1>4

\* What lisp code can store, LOCK can count.
LEMMA LocksStorable ==
  ASSUME CoreInv, RoomLeft, NEW S \in SUBSET Visible, NEW c \in Storable(S)
  PROVE  c \in Ref /\ Locks(count, c, Locked(count, c)) /\ Counted(c, count)
<1>0. count \in Counts
  BY CoreParts
<1>1. c \in Ref /\ (c # NIL => c \in Cell /\ count[c] # 0)
  BY StorableIs
<1>2. Counted(c, count)
  BY <1>1, HeapAssumption DEF Counted, Cell
<1>3. c # NIL => (count[c] % High) + 1 < High
  <2>1. c # NIL => High >= 4 /\ (count[c] % High) + 4 <= High
    BY <1>0, <1>1, Room
  <2>2. c # NIL => count[c] \in Nat
    BY <1>0, <1>1 DEF Counts
  <2>3. c # NIL => count[c] % High \in Nat
    BY <2>2, RestType
  <2> QED BY <2>1, <2>3, HeapAssumption
<1>4. Locks(count, c, Locked(count, c))
  BY <1>0, <1>1, <1>3, LockedIs
<1> QED BY <1>1, <1>2, <1>4

\* (setq n c).
LEMMA SetqFates ==
  ASSUME CoreInv, CoreInv', RoomLeft, NEW n \in Name, NEW c \in Ref, Setq(n, c)
  PROVE  Settled
<1>0. /\ base \in [Name -> Ref] /\ bound \in Seq(Cell) /\ Tick \in Seq(Frame) /\ frames \in Seq(Frame) /\ count \in Counts
  BY TickLedger DEF Setq
<1>1. /\ c \in Storable(Visible) /\ Release(base[n], Locked(count, c), Tick, bound)
      /\ UNCHANGED <<kind, destroyed, cut>>
  BY DEF Setq, history
<1>2. Locks(count, c, Locked(count, c)) /\ Counted(c, count)
  BY <1>1, LocksStorable
<1>3. PICK cnt, old : cnt = Locked(count, c) /\ old = base[n]
  OBVIOUS
<1>4. cnt \in Counts /\ old \in Ref
  BY <1>0, <1>2, <1>3 DEF Locks
<1>5. Owed(old, cnt)
  <2>1. old \in Cell => count[old] % High >= 1
    BY <1>3, InUse
  <2>2. old \in Cell => cnt[old] % High >= 1
    BY <1>0, <1>2, <1>3, <2>1, LockedSame
  <2> QED BY <2>2 DEF Owed
<1>6. ASSUME NEW x \in Cell
      PROVE  Fate(x) /\ StaysHigh(x, count)
  <2>1. Released(x, cnt, Tick)
    <3>1. Release(old, cnt, Tick, bound)
      BY <1>1, <1>3
    <3> QED BY <1>0, <1>4, <1>5, <3>1, ApartAfter, ReleaseFates
  <2>2. Of(Tick, x) = Of(frames, x)
    BY <1>0, OfTick
  <2>3. (cnt[x] = 0 <=> count[x] = 0) /\ (cnt[x] < High <=> count[x] < High)
    BY <1>0, <1>2, <1>3, LockedSame
  <2>4. kind'[x] = kind[x] /\ SameEnds(x)
    BY <1>1 DEF SameEnds
  <2> QED BY <2>1, <2>2, <2>3, <2>4, ReleasedFate
<1> QED BY <1>6 DEF Settled

\* (setq :c:s d).
LEMMA SetslotFates ==
  ASSUME CoreInv, CoreInv', RoomLeft, NEW c \in Cell, NEW s \in Slot, NEW d \in Ref, Setslot(c, s, d)
  PROVE  Settled
<1>0. /\ slot \in [Cell -> [Slot -> Ref]] /\ bound \in Seq(Cell) /\ Tick \in Seq(Frame) /\ frames \in Seq(Frame) /\ count \in Counts
  BY TickLedger DEF Setslot
<1>1. /\ c \in Variables /\ d \in Storable(Variables) /\ Release(slot[c][s], Locked(count, d), Tick, bound)
      /\ UNCHANGED <<kind, destroyed, cut>>
  BY DEF Setslot, history
<1>2. Locks(count, d, Locked(count, d)) /\ Counted(d, count)
  <2>1. Variables \in SUBSET Visible
    BY DEF Visible
  <2> QED BY <1>1, <2>1, LocksStorable
<1>3. PICK cnt, old : cnt = Locked(count, d) /\ old = slot[c][s]
  OBVIOUS
<1>4. cnt \in Counts /\ old \in Ref
  BY <1>0, <1>2, <1>3 DEF Locks
<1>5. Owed(old, cnt)
  <2>1. Counting(c, s, count, frames)
    BY <1>1, VariablesCount
  <2>2. <<c, s>> \in Cell \X Slot /\ Standing(slot, count, frames)[<<c, s>>] = old
    BY <1>3, <2>1 DEF Standing
  <2>3. \E p \in Cell \X Slot : Standing(slot, count, frames)[p] = old
    BY <2>2
  <2>4. old \in Cell => count[old] % High >= 1
    BY <2>3, InUse
  <2>5. old \in Cell => cnt[old] % High >= 1
    BY <1>0, <1>2, <1>3, <2>4, LockedSame
  <2> QED BY <2>5 DEF Owed
<1>6. ASSUME NEW x \in Cell
      PROVE  Fate(x) /\ StaysHigh(x, count)
  <2>1. Released(x, cnt, Tick)
    <3>1. Release(old, cnt, Tick, bound)
      BY <1>1, <1>3
    <3> QED BY <1>0, <1>4, <1>5, <3>1, ApartAfter, ReleaseFates
  <2>2. Of(Tick, x) = Of(frames, x)
    BY <1>0, OfTick
  <2>3. (cnt[x] = 0 <=> count[x] = 0) /\ (cnt[x] < High <=> count[x] < High)
    BY <1>0, <1>2, <1>3, LockedSame
  <2>4. kind'[x] = kind[x] /\ SameEnds(x)
    BY <1>1 DEF SameEnds
  <2> QED BY <2>1, <2>2, <2>3, <2>4, ReleasedFate
<1> QED BY <1>6 DEF Settled

\* The end of (let ((v c)) ...).
LEMMA EndLetFates ==
  ASSUME CoreInv, CoreInv', EndLet
  PROVE  Settled
<1>0. /\ bound \in Seq(Cell) /\ frames \in Seq(Frame) /\ count \in Counts
  BY CoreParts
<1>1. /\ bound # <<>> /\ Release(bound[1], count, frames, <<>>)
      /\ UNCHANGED <<kind, destroyed, cut>>
  BY DEF EndLet, history
<1>2. 1 \in DOMAIN bound /\ bound[1] \in Cell /\ bound[1] \in Ref
  BY <1>0, <1>1 DEF Ref
<1>3. Owed(bound[1], count)
  BY <1>2, InUse DEF Owed
<1>4. ASSUME NEW x \in Cell
      PROVE  Fate(x) /\ StaysHigh(x, count)
  <2>1. Released(x, count, frames)
    <3>1. <<>> \in Seq(Cell)
      OBVIOUS
    <3> QED BY <1>0, <1>1, <1>2, <1>3, <3>1, ApartAfter, ReleaseFates
  <2>2. kind'[x] = kind[x] /\ SameEnds(x)
    BY <1>1 DEF SameEnds
  <2> QED BY <2>1, <2>2, ReleasedFate
<1> QED BY <1>4 DEF Settled

\* A new object or cons.
LEMMA MakeFates ==
  ASSUME CoreInv, CoreInv', NEW n \in Name, NEW c \in Cell, NEW k \in {"object", "cons"}, Make(n, c, k)
  PROVE  Settled
<1>0. /\ base \in [Name -> Ref] /\ bound \in Seq(Cell) /\ Tick \in Seq(Frame) /\ frames \in Seq(Frame)
      /\ count \in Counts /\ kind \in [Cell -> Kinds]
  BY TickLedger DEF Make
<1>1. /\ kind[c] = "free" /\ kind' = [kind EXCEPT ![c] = k]
      /\ Release(base[n], [count EXCEPT ![c] = 1], Tick, bound)
      /\ UNCHANGED <<destroyed, cut>>
  BY DEF Make, history
<1>2. PICK cnt, old : cnt = [count EXCEPT ![c] = 1] /\ old = base[n]
  OBVIOUS
<1>3. cnt \in Counts /\ old \in Ref /\ cnt[c] = 1 /\ \A x \in Cell : x # c => cnt[x] = count[x]
  BY <1>0, <1>2, WidthTwo DEF Counts
<1>4. count[c] = 0 /\ Of(frames, c) = {}
  BY <1>1, CoreKnown DEF Known
<1>5. old # c
  <2>1. old = c => count[c] # 0
    BY <1>2, InUse
  <2> QED BY <1>4, <2>1
<1>6. Owed(old, cnt)
  <2>1. old \in Cell => count[old] % High >= 1
    BY <1>2, InUse
  <2> QED BY <1>3, <1>5, <2>1 DEF Owed
<1>7. ASSUME NEW x \in Cell
      PROVE  Fate(x) /\ StaysHigh(x, count)
  <2>1. Released(x, cnt, Tick) /\ (x # old => OnlyCounts(x, cnt, Tick))
    <3>1. Release(old, cnt, Tick, bound)
      BY <1>1, <1>2
    <3> QED BY <1>0, <1>3, <1>6, <3>1, ApartAfter, ReleaseFates
  <2>2. Of(Tick, x) = Of(frames, x)
    BY <1>0, OfTick
  <2>3. SameEnds(x)
    BY <1>1 DEF SameEnds
  <2>4. CASE x = c
    <3>1. OnlyCounts(x, cnt, Tick)
      BY <1>5, <2>1, <2>4
    <3>2. kind'[x] = k /\ kind[x] = "free" /\ cnt[x] # 0 /\ Of(frames, x) = {}
      BY <1>0, <1>1, <1>3, <1>4, <2>4
    <3>3. IsMade(x)
      BY <2>2, <2>3, <3>1, <3>2 DEF OnlyCounts, IsMade
    <3>4. StaysHigh(x, count)
      BY <1>4, <2>4, HeapAssumption DEF StaysHigh
    <3> QED BY <3>3, <3>4 DEF Fate
  <2>5. CASE x # c
    <3>1. cnt[x] = count[x] /\ kind'[x] = kind[x]
      BY <1>0, <1>1, <1>3, <2>5
    <3> QED BY <2>1, <2>2, <2>3, <3>1, ReleasedFate
  <2> QED BY <2>4, <2>5
<1> QED BY <1>7 DEF Settled

\* (let ((v c)) ...).
LEMMA LetFates ==
  ASSUME CoreInv, RoomLeft, NEW c \in Cell, Let(c)
  PROVE  Settled
<1>0. count \in Counts
  BY CoreParts
<1>1. /\ c \in Live(Image(base)) /\ count' = Locked(count, c)
      /\ UNCHANGED <<kind, garbage, flagged, finalizers, frames, destroyed, cut>>
  BY DEF Let, registered, history
<1>2. c \in Visible
  BY <1>1 DEF Visible, Variables, Live
<1>3. Counted(c, count) /\ (c # NIL => (count[c] % High) + 1 < High)
  <2>1. High >= 4 /\ (count[c] % High) + 4 <= High
    BY <1>0, Room
  <2>2. count[c] \in Nat
    BY <1>0 DEF Counts
  <2>3. count[c] % High \in Nat
    BY <2>2, RestType
  <2>4. count[c] # 0
    BY <1>2, VisibleInUse
  <2> QED BY <2>1, <2>3, <2>4, HeapAssumption DEF Counted
<1>4. Locks(count, c, count')
  <2>1. c \in Ref
    BY DEF Ref
  <2>2. Locks(count, c, Locked(count, c))
    BY <1>0, <1>3, <2>1, LockedIs
  <2> QED BY <1>1, <2>2
<1>5. ASSUME NEW x \in Cell
      PROVE  Fate(x) /\ StaysHigh(x, count)
  <2>1. (count'[x] = 0 <=> count[x] = 0) /\ (count'[x] < High <=> count[x] < High)
    BY <1>0, <1>3, <1>4, LockedSame
  <2>2. SameKind(x) /\ SameFlags(x) /\ SameEnds(x) /\ Of(frames', x) = Of(frames, x)
    BY <1>1 DEF SameKind, SameFlags, SameEnds
  <2>3. Stays(x)
    BY <2>1, <2>2 DEF Stays
  <2> QED BY <2>1, <2>3 DEF Fate, StaysHigh
<1> QED BY <1>5 DEF Settled

\* Then only slots are let go, and no error was raised.
LEMMA SweepingStops ==
  ASSUME CoreInv, Sweeping, collector = "others"
  PROVE  ~LispRuns /\ Calm(frames) /\ \A i \in DOMAIN frames : frames[i].phase = "slots"
<1>0. frames \in Seq(Frame) /\ InOrder
  BY CoreParts
<1>1. \A i \in DOMAIN frames : Shape(frames[i], kind, garbage) /\ frames[i].op = "sweep"
  BY <1>0 DEF Sweeping, InOrder, Ledger, Books, Stacked, Shaped
<1>2. \A i \in DOMAIN frames : frames[i].phase = "slots" /\ ~frames[i].erred
  BY <1>1 DEF Shape
<1>3. ~InLisp
  <2>1. frames # <<>> => Len(frames) \in DOMAIN frames
    BY <1>0
  <2> QED BY <1>2, <2>1 DEF InLisp, Top
<1> QED BY <1>2, <1>3 DEF LispRuns, Calm

\* add_finalizer.
LEMMA WatchFates ==
  ASSUME CoreInv, CoreInv', Sweeping, NEW c \in Cell, Watch(c)
  PROVE  Settled
<1>0. count \in Counts /\ frames \in Seq(Frame)
  BY CoreParts
<1>1. /\ c \in Visible /\ c \notin Dies({"purge", "delete", "collect"}) /\ LispRuns
      /\ finalizers' = finalizers \cup {c} /\ flagged' = flagged \cup {c} /\ frames' = Tick
      /\ UNCHANGED <<kind, count, garbage, destroyed, cut>>
  BY DEF Watch, CanRun, history
<1>2. Of(frames, c) = {}
  <2>1. ASSUME NEW i \in DOMAIN frames, frames[i].cell = c
        PROVE  FALSE
    <3>1. frames[i].phase = "lisp"
      BY <1>1, <2>1, VisibleInUse
    <3>2. frames[i].op \notin {"purge", "delete", "collect"}
      BY <1>1, <2>1 DEF Dies
    <3>3. Sig(frames[i]) \in Of(frames, c)
      BY <2>1, OfMember
    <3>4. Sig(frames[i]).op \in Ops /\ (Sig(frames[i]).op = "sweep" => Sig(frames[i]).phase = "slots")
      BY <3>3, CoreKnown DEF Known
    <3> QED BY <3>1, <3>2, <3>4 DEF Sig, Ops
  <2>2. c \notin Dead(frames)
    BY <2>1 DEF Dead
  <2> QED BY <2>2, OfNone
<1>3. collector # "others"
  BY <1>1, SweepingStops
<1>4. count[c] # 0
  BY <1>1, VisibleInUse
<1>5. ASSUME NEW x \in Cell
      PROVE  Fate(x) /\ StaysHigh(x, count)
  <2>1. SameKind(x) /\ SameEnds(x) /\ Of(frames', x) = Of(frames, x) /\ count'[x] = count[x]
    BY <1>0, <1>1, OfTick DEF SameKind, SameEnds
  <2>2. x = c => IsWatched(x)
    BY <1>1, <1>2, <1>3, <1>4, <2>1 DEF IsWatched
  <2>3. x # c => Stays(x)
    BY <1>1, <2>1 DEF Stays, SameFlags
  <2> QED BY <2>1, <2>2, <2>3 DEF Fate, StaysHigh
<1> QED BY <1>5 DEF Settled

\* A cell that a step is not about.
LEMMA OtherFate ==
  ASSUME NEW x, Of(frames', x) = Of(frames, x), SameKind(x), SameFlags(x), SameEnds(x), count'[x] = count[x]
  PROVE  Fate(x) /\ StaysHigh(x, count)
<1>1. Stays(x)
  BY DEF Stays
<1> QED BY <1>1 DEF Fate, StaysHigh

\* (delete c).
LEMMA DeleteFates ==
  ASSUME CoreInv, RoomLeft, NEW c \in Cell, Delete(c)
  PROVE  Settled
<1>0. count \in Counts /\ frames \in Seq(Frame) /\ Tick \in Seq(Frame) /\ Len(bound) \in Nat
  BY TickLedger DEF Delete
<1>1. /\ c \in Visible /\ kind[c] = "object" /\ c \notin garbage /\ RunFinalizers(c)
      /\ count' = Plus(count, c, 3) /\ garbage' = garbage \cup {c}
      /\ frames' = Append(Tick, Death("delete", c, "lisp", FALSE, Len(bound)))
      /\ UNCHANGED <<kind, destroyed, cut>>
  BY DEF Delete, history
<1>2. /\ finalizers' = IF c \in flagged THEN finalizers \ {c} ELSE finalizers
      /\ flagged' = flagged \ {c}
  BY <1>1 DEF RunFinalizers
<1>3. PICK d : d = Death("delete", c, "lisp", FALSE, Len(bound))
  OBVIOUS
<1>4. d \in Frame
  BY <1>0, <1>3, DeathType DEF Ops
<1>5. d.cell = c /\ d.op = "delete" /\ d.phase = "lisp" /\ ~d.erred
  BY <1>3 DEF Death
<1>6. Sig(d).op = "delete" /\ Sig(d).phase = "lisp" /\ ~Sig(d).erred
  BY <1>5 DEF Sig
<1>7. Of(frames, c) = {}
  <2>1. ASSUME NEW i \in DOMAIN frames, frames[i].cell = c
        PROVE  FALSE
    <3>1. frames[i].phase = "lisp"
      BY <1>1, <2>1, VisibleInUse
    <3>2. Sig(frames[i]) \in Of(frames, c) /\ Sig(frames[i]).phase = "lisp"
      BY <2>1, <3>1, OfMember DEF Sig
    <3> QED BY <1>1, <3>2, CoreKnown DEF Known
  <2>2. c \notin Dead(frames)
    BY <2>1 DEF Dead
  <2> QED BY <2>2, OfNone
<1>8. Raises(count, c, 3, count')
  <2>1. High >= 4 /\ (count[c] % High) + 4 <= High
    BY <1>0, Room
  <2>2. count[c] \in Nat
    BY <1>0 DEF Counts
  <2>3. count[c] % High \in Nat
    BY <2>2, RestType
  <2>4. (count[c] % High) + 3 < High
    BY <2>1, <2>3, HeapAssumption
  <2>5. Raises(count, c, 3, Plus(count, c, 3))
    BY <1>0, <2>4, PlusRaises
  <2> QED BY <1>1, <2>5
<1>9. count[c] # 0
  BY <1>1, VisibleInUse
<1> HIDE DEF Sig
<1>10. ASSUME NEW x \in Cell
       PROVE  Fate(x) /\ StaysHigh(x, count)
  <2>1. Of(frames', x) = Of(frames, x) \cup (IF c = x THEN {Sig(d)} ELSE {})
    <3>1. Of(Append(Tick, d), x) = Of(Tick, x) \cup (IF d.cell = x THEN {Sig(d)} ELSE {})
      BY <1>0, <1>4, OfAppend
    <3>2. Of(Tick, x) = Of(frames, x)
      BY <1>0, OfTick
    <3> QED BY <1>1, <1>3, <1>5, <3>1, <3>2
  <2>2. kind'[x] = kind[x] /\ SameEnds(x)
    BY <1>1 DEF SameEnds
  <2>3. CASE x = c
    <3>1. Of(frames', x) = {Sig(d)}
      BY <1>7, <2>1, <2>3
    <3>2. x \in garbage' /\ x \notin flagged' /\ (x \in finalizers' => x \in finalizers /\ x \notin flagged)
      BY <1>1, <1>2, <2>3
    <3>3. IsBegun(x)
      BY <1>1, <1>6, <1>7, <1>9, <2>2, <2>3, <3>1, <3>2 DEF IsBegun
    <3>4. StaysHigh(x, count)
      BY <1>8, <2>3 DEF Raises, StaysHigh
    <3> QED BY <3>3, <3>4 DEF Fate
  <2>4. CASE x # c
    <3>1. Of(frames', x) = Of(frames, x) /\ count'[x] = count[x]
      BY <1>8, <2>1, <2>4 DEF Raises
    <3>2. SameKind(x) /\ SameFlags(x)
      BY <1>1, <1>2, <2>4 DEF SameKind, SameFlags
    <3> QED BY <2>2, <3>1, <3>2, OtherFate
  <2> QED BY <2>3, <2>4
<1> QED BY <1>10 DEF Settled

\* A destructor that returns.
LEMMA ReturnFates ==
  ASSUME CoreInv, Return
  PROVE  Settled
<1>0. count \in Counts /\ frames \in Seq(Frame) /\ kind \in [Cell -> Kinds]
  BY CoreParts
<1>1. InLisp
  BY DEF Return
<1>2. PICK n, f, c : n = Len(frames) /\ f = frames[n] /\ c = f.cell
  OBVIOUS
<1>3. AtTop(n, f) /\ Top = f /\ frames # <<>>
  BY <1>1, <1>2 DEF AtTop, Top, InLisp
<1>4. Runs(n, f)
  BY <1>1, <1>3, TopRuns
<1>5. /\ c \in Cell /\ n \in Nat /\ n \in DOMAIN frames /\ DOMAIN frames = 1..n /\ f \in Frame /\ ~f.erred
      /\ f.height \in Nat /\ f.op \in {"purge", "delete", "collect"} /\ f.phase = "lisp"
      /\ (c \in Deleting(frames) <=> f.op = "delete")
      /\ \A i \in 1..(n - 1) : frames[i].cell # f.cell
  BY <1>2, <1>4 DEF Runs
<1>6. 2 + In(c, Deleting(frames)) <= count[c] % High
  BY <1>1, <1>2, <1>3, TopCount
<1>7. count[c] % High \in Nat
  <2>1. count[c] \in Nat
    BY <1>0, <1>5 DEF Counts
  <2> QED BY <2>1, RestType
<1>8. destroyed' = destroyed \cup {c} /\ finalizers' = finalizers /\ cut' = cut
  BY <1>2, <1>3 DEF Return
<1>9. CASE f.op # "delete"
  <2>1. /\ count' = Minus(count, c, 2) /\ frames' = [frames EXCEPT ![n].phase = "slots", ![n].ops = 0]
        /\ kind' = kind /\ garbage' = garbage /\ flagged' = flagged
    BY <1>2, <1>3, <1>9 DEF Return
  <2>2. PICK g : g = [f EXCEPT !.phase = "slots", !.ops = 0]
    OBVIOUS
  <2>3. g \in Frame /\ g.cell = f.cell /\ g.op = f.op /\ g.phase = "slots" /\ ~g.erred /\ g.finalize = f.finalize
    <3>1. 0 \in 0..MaxOps
      BY HeapAssumption
    <3> QED BY <1>5, <2>2, <3>1 DEF Frame
  <2>4. [frames EXCEPT ![n].phase = "slots", ![n].ops = 0] = [frames EXCEPT ![n] = g]
    BY <1>0, <1>2, <1>5, <2>2
  <2>5. Replaced(n, g, frames')
    <3>1. PICK fr : fr = [frames EXCEPT ![n] = g]
      OBVIOUS
    <3>2. Replaced(n, g, fr)
      BY <1>0, <1>2, <1>3, <2>3, <3>1, TopReplaced
    <3> QED BY <2>1, <2>4, <3>1, <3>2
  <2>6. Changed(f, g, frames')
    BY <1>2, <1>5, <2>3, <2>5, ReplacedChanged
  <2>7. Lowered(count, c, 2, count')
    <3>1. In(c, Deleting(frames)) = 0
      BY <1>5, <1>9 DEF In
    <3>2. 2 <= count[c] % High
      BY <1>6, <3>1
    <3>3. Lowered(count, c, 2, Minus(count, c, 2))
      BY <1>0, <1>5, <3>2, MinusLowers
    <3> QED BY <2>1, <3>3
  <2>8. /\ Sig(f).phase = "lisp" /\ Sig(f).op \in {"purge", "collect"} /\ Sig(g).op = Sig(f).op
        /\ Sig(g).phase = "slots" /\ Sig(g).finalize = Sig(f).finalize /\ ~Sig(g).erred
    BY <1>5, <1>9, <2>3 DEF Sig
  <2> HIDE DEF Sig
  <2>9. ASSUME NEW x \in Cell
        PROVE  Fate(x) /\ StaysHigh(x, count)
    <3>1. SameKind(x) /\ SameFlags(x)
      BY <1>8, <2>1 DEF SameKind, SameFlags
    <3>2. CASE x = c
      <4>1. IsTurned(x)
        BY <1>2, <1>8, <2>6, <2>8, <3>1, <3>2 DEF Changed, IsTurned
      <4>2. StaysHigh(x, count)
        BY <2>7, <3>2 DEF Lowered, StaysHigh
      <4> QED BY <4>1, <4>2 DEF Fate
    <3>3. CASE x # c
      <4>1. Of(frames', x) = Of(frames, x)
        BY <1>2, <2>6, <3>3 DEF Changed
      <4>2. SameEnds(x) /\ count'[x] = count[x]
        BY <1>8, <2>7, <3>3 DEF SameEnds, Lowered
      <4> QED BY <3>1, <4>1, <4>2, OtherFate
    <3> QED BY <3>2, <3>3
  <2> QED BY <2>9 DEF Settled
<1>10. CASE f.op = "delete"
  <2>1. PICK d : d = Death("purge", c, "slots", FALSE, f.height)
    OBVIOUS
  <2>2. /\ count' = Minus(Minus(count, c, 2), c, 1)
        /\ kind' = [kind EXCEPT ![c] = "zombie"] /\ garbage' = garbage \ {c} /\ flagged' = flagged \ {c}
        /\ frames' = IF count'[c] # 0 THEN Below ELSE Append(Below, d)
    BY <1>2, <1>3, <1>10, <2>1 DEF Return
  <2>3. d \in Frame
    BY <1>5, <2>1, DeathType DEF Ops
  <2>4. d.cell = c /\ Sig(d).op = "purge" /\ Sig(d).phase = "slots" /\ ~Sig(d).erred /\ Sig(f).op = "delete"
    BY <1>10, <2>1 DEF Death, Sig
  <2>5. Lowered(count, c, 3, count')
    <3>1. In(c, Deleting(frames)) = 1
      BY <1>5, <1>10 DEF In
    <3>2. 3 <= count[c] % High
      BY <1>6, <1>7, <3>1
    <3>3. Lowered(count, c, 3, Minus(Minus(count, c, 2), c, 1))
      BY <1>0, <1>5, <3>2, LoweredTwice
    <3> QED BY <2>2, <3>3
  <2>6. Parted(f, Below)
    <3>1. Lower(n, Below)
      BY <1>0, <1>2, <1>3, BelowLower
    <3> QED BY <1>2, <1>5, <3>1, LowerParted
  <2>7. \A x : Of(Append(Below, d), x) = Of(Below, x) \cup (IF d.cell = x THEN {Sig(d)} ELSE {})
    BY <2>3, <2>6, OfAppend DEF Parted
  <2> HIDE DEF Sig
  <2>8. ASSUME NEW x \in Cell
        PROVE  Fate(x) /\ StaysHigh(x, count)
    <3>1. CASE x = c
      <4>1. Sig(f) \in Of(frames, x) /\ Of(Below, x) = {}
        BY <1>2, <2>6, <3>1 DEF Parted
      <4>2. (Of(frames', x) = {} /\ count'[x] # 0) \/ Of(frames', x) = {Sig(d)}
        BY <2>2, <2>4, <2>7, <3>1, <4>1
      <4>3. /\ kind'[x] = "zombie" /\ x \notin garbage' /\ x \notin flagged' /\ x \in destroyed'
            /\ (x \in finalizers' <=> x \in finalizers) /\ (x \in cut' <=> x \in cut)
        BY <1>0, <1>8, <2>2, <3>1
      <4>4. IsDeleted(x)
        BY <2>4, <4>1, <4>2, <4>3 DEF IsDeleted
      <4>5. StaysHigh(x, count)
        BY <2>5, <3>1 DEF Lowered, StaysHigh
      <4> QED BY <4>4, <4>5 DEF Fate
    <3>2. CASE x # c
      <4>1. Of(frames', x) = Of(frames, x)
        <5>1. Of(Below, x) = Of(frames, x)
          BY <1>2, <2>6, <3>2 DEF Parted
        <5>2. Of(Append(Below, d), x) = Of(Below, x)
          BY <2>4, <2>7, <3>2
        <5>3. frames' = Below \/ frames' = Append(Below, d)
          BY <2>2
        <5> QED BY <5>1, <5>2, <5>3, Zenon
      <4>2. SameKind(x) /\ SameFlags(x) /\ SameEnds(x)
        BY <1>0, <1>8, <2>2, <3>2 DEF SameKind, SameFlags, SameEnds
      <4>3. count'[x] = count[x]
        BY <2>5, <3>2 DEF Lowered
      <4> QED BY <4>1, <4>2, <4>3, OtherFate
    <3> QED BY <3>1, <3>2
  <2> QED BY <2>8 DEF Settled
<1> QED BY <1>9, <1>10

\* A slot that is let go.
LEMMA SlotFates ==
  ASSUME CoreInv, CoreInv', LetSlotGo, NEW n, NEW f, AtTop(n, f), Slotting(n, f),
         ~(kind[f.cell] = "cons" /\ f.todo = Slots)
  PROVE  Settled
<1>0. /\ slot \in [Cell -> [Slot -> Ref]] /\ count \in Counts /\ bound \in Seq(Cell) /\ frames \in Seq(Frame)
  BY CoreParts
<1>1. PICK c, s : c = f.cell /\ s = f.todo
  OBVIOUS
<1>2. n = Len(frames) /\ Top = f /\ frames # <<>> /\ f = frames[n] /\ s <= Slots
  BY <1>1 DEF AtTop, Top, LetSlotGo
<1>3. c \in Cell /\ n \in Nat /\ n \in DOMAIN frames /\ DOMAIN frames = 1..n /\ f \in Frame
  BY <1>1 DEF Slotting
<1>4. s \in Slot /\ s \in Nat
  BY <1>1, <1>2, <1>3, HeapAssumption DEF Frame, Slot
<1>5. PICK o, fr2, g : /\ o = slot[c][s] /\ fr2 = [frames EXCEPT ![Len(frames)].todo = @ + 1]
                       /\ g = [f EXCEPT !.todo = s + 1]
  OBVIOUS
<1>6. kind' = kind /\ Release(o, count, fr2, bound) /\ destroyed' = destroyed /\ cut' = cut
  BY <1>1, <1>2, <1>5 DEF LetSlotGo, history
<1>7. fr2 \in Seq(Frame) /\ \A x : Of(fr2, x) = Of(frames, x)
  <2>1. g.cell = f.cell /\ Sig(g) = Sig(f)
    BY <1>3, <1>5 DEF Frame, Sig
  <2>2. s + 1 \in 1..(Slots + 1)
    BY <1>2, <1>4, HeapAssumption
  <2>3. g \in Frame
    BY <1>3, <1>5, <2>2 DEF Frame
  <2>4. fr2 = [frames EXCEPT ![n] = g]
    BY <1>0, <1>1, <1>2, <1>3, <1>5
  <2>5. fr2 \in Seq(Frame) /\ DOMAIN fr2 = DOMAIN frames /\ \A i \in DOMAIN frames : fr2[i] = frames[i] \/ (i = n /\ fr2[i] = g)
    BY <1>0, <1>2, <1>3, <2>3, <2>4
  <2>6. \A i \in DOMAIN frames : fr2[i].cell = frames[i].cell /\ Sig(fr2[i]) = Sig(frames[i])
    <3> HIDE DEF Sig
    <3> QED BY <1>2, <2>1, <2>5
  <2> QED BY <2>5, <2>6, OfAlike
<1>8. o \in Ref
  BY <1>0, <1>3, <1>4, <1>5
<1>9. Owed(o, count)
  <2>1. Counting(c, s, count, frames)
    <3>1. c \in Dead(frames) /\ (LetGo(c, s, frames) <=> s < s)
      BY <1>1, <1>4 DEF Slotting
    <3> QED BY <1>4, <3>1 DEF Counting
  <2>2. <<c, s>> \in Cell \X Slot /\ Standing(slot, count, frames)[<<c, s>>] = o
    BY <1>3, <1>4, <1>5, <2>1 DEF Standing
  <2>3. \E p \in Cell \X Slot : Standing(slot, count, frames)[p] = o
    BY <2>2
  <2> QED BY <2>3, InUse DEF Owed
<1>10. ASSUME NEW x \in Cell
       PROVE  Fate(x) /\ StaysHigh(x, count)
  <2>1. Released(x, count, fr2)
    BY <1>0, <1>6, <1>7, <1>8, <1>9, ApartAfter, ReleaseFates
  <2>2. kind'[x] = kind[x] /\ SameEnds(x) /\ Of(fr2, x) = Of(frames, x)
    BY <1>6, <1>7 DEF SameEnds
  <2> QED BY <2>1, <2>2, ReleasedFate
<1> QED BY <1>10 DEF Settled

\* The car of a cons that purge() lets go, whose cell is freed before.
LEMMA ConsFates ==
  ASSUME CoreInv, CoreInv', LetSlotGo, NEW n, NEW f, AtTop(n, f), Slotting(n, f),
         kind[f.cell] = "cons", f.todo = Slots
  PROVE  Settled
<1>0. /\ slot \in [Cell -> [Slot -> Ref]] /\ count \in Counts /\ bound \in Seq(Cell) /\ frames \in Seq(Frame)
      /\ kind \in [Cell -> Kinds]
  BY CoreParts
<1>1. PICK c, s : c = f.cell /\ s = f.todo
  OBVIOUS
<1>2. n = Len(frames) /\ Top = f /\ frames # <<>> /\ f = frames[n] /\ s <= Slots
  BY <1>1 DEF AtTop, Top, LetSlotGo
<1>3. /\ c \in Cell /\ n \in Nat /\ n \in DOMAIN frames /\ DOMAIN frames = 1..n /\ f \in Frame
      /\ \A i \in 1..(n - 1) : frames[i].cell # f.cell
  BY <1>1 DEF Slotting
<1>4. s \in Slot /\ s \in Nat
  BY <1>1, <1>2, <1>3, HeapAssumption DEF Frame, Slot
<1>5. PICK o : o = slot[c][s]
  OBVIOUS
<1>6. kind' = [kind EXCEPT ![c] = "free"] /\ Release(o, count, Below, bound) /\ destroyed' = destroyed /\ cut' = cut
  BY <1>1, <1>2, <1>5 DEF LetSlotGo, history
<1>7. Parted(f, Below)
  <2>1. Lower(n, Below)
    BY <1>0, <1>2, BelowLower
  <2> QED BY <1>1, <1>2, <1>3, <2>1, LowerParted
<1>8. o \in Ref
  BY <1>0, <1>3, <1>4, <1>5
<1>9. Owed(o, count)
  <2>1. Counting(c, s, count, frames)
    <3>1. c \in Dead(frames) /\ (LetGo(c, s, frames) <=> s < s)
      BY <1>1, <1>4 DEF Slotting
    <3> QED BY <1>4, <3>1 DEF Counting
  <2>2. <<c, s>> \in Cell \X Slot /\ Standing(slot, count, frames)[<<c, s>>] = o
    BY <1>3, <1>4, <1>5, <2>1 DEF Standing
  <2>3. \E p \in Cell \X Slot : Standing(slot, count, frames)[p] = o
    BY <2>2
  <2> QED BY <2>3, InUse DEF Owed
<1>10. f.op = "purge" /\ ~f.erred /\ f.phase = "slots"
  BY DEF Slotting
<1>11. count[c] = 0
  BY <1>1, <1>10 DEF Slotting, Number
<1>12. o # c
  <2>1. o = c => count[c] # 0
    BY <1>0, <1>3, <1>9, UnlockedIs
  <2> QED BY <1>11, <2>1
<1>13. Sig(f).op = "purge" /\ Sig(f).phase = "slots" /\ ~Sig(f).erred
  BY <1>10 DEF Sig
<1>14. c \notin garbage
  BY <1>1, <1>3, <1>11, CoreKnown DEF Known
<1> HIDE DEF Sig
<1>15. ASSUME NEW x \in Cell
       PROVE  Fate(x) /\ StaysHigh(x, count)
  <2>1. Below \in Seq(Frame)
    BY <1>7 DEF Parted
  <2>2. Released(x, count, Below) /\ (x # o => OnlyCounts(x, count, Below))
    BY <1>0, <1>6, <1>8, <1>9, <2>1, ApartAfter, ReleaseFates
  <2>3. SameEnds(x)
    BY <1>6 DEF SameEnds
  <2>4. CASE x = c
    <3>1. OnlyCounts(x, count, Below)
      BY <1>12, <2>2, <2>4
    <3>2. Sig(f) \in Of(frames, x) /\ Of(Below, x) = {}
      BY <1>1, <1>7, <2>4 DEF Parted
    <3>3. kind'[x] = "free" /\ kind[x] = "cons"
      BY <1>0, <1>1, <1>6, <2>4
    <3>4. IsFreed(x)
      BY <1>13, <1>14, <2>3, <2>4, <3>1, <3>2, <3>3 DEF OnlyCounts, IsFreed
    <3>5. StaysHigh(x, count)
      BY <1>11, <2>4, HeapAssumption DEF StaysHigh
    <3> QED BY <3>4, <3>5 DEF Fate
  <2>5. CASE x # c
    <3>1. Of(Below, x) = Of(frames, x) /\ kind'[x] = kind[x]
      BY <1>0, <1>1, <1>6, <1>7, <2>5 DEF Parted
    <3> QED BY <2>2, <2>3, <3>1, ReleasedFate
  <2> QED BY <2>4, <2>5
<1> QED BY <1>15 DEF Settled

\* Both.
LEMMA LetSlotGoFates ==
  ASSUME CoreInv, CoreInv', LetSlotGo
  PROVE  Settled
<1>1. PICK n, f : n = Len(frames) /\ f = frames[n]
  OBVIOUS
<1>2. AtTop(n, f) /\ frames # <<>> /\ f.phase = "slots"
  BY <1>1 DEF AtTop, Top, LetSlotGo
<1>3. Slotting(n, f)
  BY <1>2, TopSlots
<1> QED BY <1>2, <1>3, SlotFates, ConsFates

\* One death of each cell.
LEMMA OfOne ==
  ASSUME NEW fr, Apart(fr), NEW i \in DOMAIN fr
  PROVE  Of(fr, fr[i].cell) = {Sig(fr[i])}
<1>1. ASSUME NEW d
      PROVE  d \in Of(fr, fr[i].cell) <=> d = Sig(fr[i])
  <2>1. d \in Of(fr, fr[i].cell) <=> \E j \in DOMAIN fr : fr[j].cell = fr[i].cell /\ d = Sig(fr[j])
    BY OfMember
  <2>2. \A j \in DOMAIN fr : fr[j].cell = fr[i].cell => j = i
    BY DEF Apart
  <2> HIDE DEF Sig
  <2> QED BY <2>1, <2>2
<1> QED BY <1>1

\* The error leaves a death alone, is caught by its destructor, or ends it.
Unwound(x, fr) ==
  \/ Of(frames', x) = Of(fr, x) /\ SameEnds(x) /\ count'[x] = count[x]
  \/ /\ \E t \in Of(fr, x) : \E e :
          /\ Of(frames', x) = {e} /\ t.phase = "lisp" /\ t.op \in {"purge", "collect"}
          /\ e.op = t.op /\ e.phase = "slots" /\ e.finalize = t.finalize /\ e.erred
     /\ x \in destroyed' /\ x \in cut'
  \/ /\ \E t \in Of(fr, x) : t.phase = "lisp" \/ (t.op = "purge" /\ ~t.erred)
     /\ Of(frames', x) = {} /\ SameEnds(x) /\ count'[x] = count[x] /\ ~Works'

\* What an error may end.
Loose(fr) ==
  /\ fr \in Seq(Frame) /\ Apart(fr)
  /\ \A i \in DOMAIN fr : /\ Stoppable(fr[i]) /\ (fr[i].op = "delete" => fr[i].phase = "lisp")
                          /\ i \in DOMAIN frames /\ fr[i] = frames[i]

\* It ends destructors, and purge() of cells whose destructors ended well.
LEMMA LooseEnds ==
  ASSUME NEW fr, Loose(fr), NEW i \in DOMAIN fr
  PROVE  Sig(fr[i]).phase = "lisp" \/ (Sig(fr[i]).op = "purge" /\ ~Sig(fr[i]).erred)
<1>1. fr[i] \in Frame /\ Stoppable(fr[i]) /\ (fr[i].op = "delete" => fr[i].phase = "lisp")
  BY DEF Loose
<1> QED BY <1>1 DEF Frame, Stoppable, Sig

\* An error does one of these to each cell.
LEMMA UnwoundFate ==
  ASSUME CoreInv, CoreInv', NEW fr, Loose(fr), Unwind(fr), NEW x \in Cell
  PROVE  Unwound(x, fr) /\ StaysHigh(x, count)
<1>0. fr \in Seq(Frame) /\ Apart(fr) /\ count \in Counts
  BY CoreParts DEF Loose
<1>1. ~Works'
  <2>1. collector' = "due" \/ ~Calm(frames')
    BY <1>0, UnwindLands
  <2> QED BY <2>1 DEF Works
<1>2. x \notin Dead(fr) => Of(fr, x) = {}
  BY OfNone
<1>3. x \in Dead(fr) => \E j \in DOMAIN fr : fr[j].cell = x /\ Of(fr, x) = {Sig(fr[j])}
  BY <1>0, OfOne DEF Dead
<1>4. CASE Handlers(fr) = {}
  <2>1. frames' = <<>> /\ count' = count /\ destroyed' = destroyed /\ cut' = cut
    BY <1>4 DEF Unwind
  <2>2. Of(frames', x) = {}
    <3>1. x \notin Dead(frames')
      BY <2>1 DEF Dead
    <3> QED BY <3>1, OfNone
  <2>3. SameEnds(x) /\ count'[x] = count[x]
    BY <2>1 DEF SameEnds
  <2>4. x \in Dead(fr) => \E t \in Of(fr, x) : t.phase = "lisp" \/ (t.op = "purge" /\ ~t.erred)
    <3>1. \A j \in DOMAIN fr : Sig(fr[j]).phase = "lisp" \/ (Sig(fr[j]).op = "purge" /\ ~Sig(fr[j]).erred)
      BY LooseEnds
    <3> HIDE DEF Sig
    <3> QED BY <1>3, <3>1
  <2>5. Unwound(x, fr)
    BY <1>1, <1>2, <2>2, <2>3, <2>4 DEF Unwound
  <2> QED BY <2>1, <2>5 DEF StaysHigh
<1>5. CASE Handlers(fr) # {}
  <2>1. PICK i \in Handlers(fr) :
          /\ frames' = [SubSeq(fr, 1, i) EXCEPT ![i].phase = "slots", ![i].erred = TRUE, ![i].ops = 0]
          /\ count' = Minus(count, fr[i].cell, 1)
          /\ destroyed' = destroyed \cup {fr[i].cell} /\ cut' = cut \cup {fr[i].cell}
    BY <1>5 DEF Unwind
  <2>2. i \in DOMAIN fr /\ fr[i].phase = "lisp" /\ fr[i].op \in {"purge", "collect"} /\ fr[i] \in Frame
    BY <1>0, <2>1 DEF Handlers
  <2>3. PICK g, c : g = [fr[i] EXCEPT !.phase = "slots", !.erred = TRUE, !.ops = 0] /\ c = fr[i].cell
    OBVIOUS
  <2>4. /\ DOMAIN frames' = 1..i /\ frames'[i] = g /\ i \in 1..i
        /\ \A j \in 1..i : j \in DOMAIN fr /\ (j # i => frames'[j] = fr[j])
    <3>1. PICK pre : pre = SubSeq(fr, 1, i)
      OBVIOUS
    <3>2. /\ pre \in Seq(Frame) /\ DOMAIN pre = 1..i /\ i \in 1..i
          /\ \A j \in 1..i : j \in DOMAIN fr /\ pre[j] = fr[j]
      <4>1. DOMAIN fr = 1..Len(fr) /\ Len(fr) \in Nat /\ i \in 1..Len(fr)
        BY <1>0, <2>2
      <4> QED BY <1>0, <3>1, <4>1
    <3>3. frames' = [pre EXCEPT ![i] = g]
      BY <2>1, <2>3, <3>1, <3>2
    <3> QED BY <3>2, <3>3
  <2>5. /\ g.cell = c /\ c \in Cell /\ Sig(g).op = Sig(fr[i]).op /\ Sig(g).phase = "slots" /\ Sig(g).erred
        /\ Sig(g).finalize = Sig(fr[i]).finalize /\ Sig(fr[i]).phase = "lisp" /\ Sig(fr[i]).op \in {"purge", "collect"}
    BY <2>2, <2>3 DEF Frame, Sig
  <2>6. Lowered(count, c, 1, count')
    <3>1. c \in Destroying(frames)
      BY <2>2, <2>3 DEF Loose, Destroying
    <3>2. count[c] % High >= 1
      BY <2>5, <3>1, InUse
    <3>3. 1 <= count[c] % High
      <4>1. count[c] \in Nat
        BY <1>0, <2>5 DEF Counts
      <4>2. count[c] % High \in Nat
        BY <4>1, RestType
      <4> QED BY <3>2, <4>2
    <3>4. Lowered(count, c, 1, Minus(count, c, 1))
      BY <1>0, <2>5, <3>3, MinusLowers
    <3> QED BY <2>1, <2>3, <3>4
  <2>7. Apart(frames')
    BY ApartAfter
  <2>8. CASE x = c
    <3>1. Of(frames', x) = {Sig(g)}
      <4>1. i \in DOMAIN frames' /\ frames'[i].cell = x
        BY <2>4, <2>5, <2>8
      <4> QED BY <2>4, <2>7, <4>1, OfOne
    <3>2. Of(fr, x) = {Sig(fr[i])}
      BY <1>0, <2>2, <2>3, <2>8, OfOne
    <3>3. x \in destroyed' /\ x \in cut'
      BY <2>1, <2>3, <2>8
    <3> HIDE DEF Sig
    <3>4. Unwound(x, fr)
      BY <2>5, <3>1, <3>2, <3>3 DEF Unwound
    <3>5. StaysHigh(x, count)
      BY <2>6, <2>8 DEF Lowered, StaysHigh
    <3> QED BY <3>4, <3>5
  <2>9. CASE x # c
    <3>1. SameEnds(x) /\ count'[x] = count[x]
      BY <2>1, <2>3, <2>6, <2>9 DEF SameEnds, Lowered
    <3>2. CASE x \in Dead(frames')
      <4>1. PICK j \in DOMAIN frames' : frames'[j].cell = x
        BY <3>2 DEF Dead
      <4>2. j \in DOMAIN fr /\ frames'[j] = fr[j]
        BY <2>4, <2>5, <2>9, <4>1
      <4>3. Of(frames', x) = {Sig(frames'[j])}
        BY <2>7, <4>1, OfOne
      <4>4. Of(fr, x) = {Sig(fr[j])}
        BY <1>0, <4>1, <4>2, OfOne
      <4> QED BY <3>1, <4>2, <4>3, <4>4 DEF Unwound, StaysHigh
    <3>3. CASE x \notin Dead(frames')
      <4>1. Of(frames', x) = {}
        BY <3>3, OfNone
      <4>2. x \in Dead(fr) => \E t \in Of(fr, x) : t.phase = "lisp" \/ (t.op = "purge" /\ ~t.erred)
        <5>1. \A j \in DOMAIN fr : Sig(fr[j]).phase = "lisp" \/ (Sig(fr[j]).op = "purge" /\ ~Sig(fr[j]).erred)
          BY LooseEnds
        <5> HIDE DEF Sig
        <5> QED BY <1>3, <5>1
      <4> QED BY <1>1, <1>2, <3>1, <4>1, <4>2 DEF Unwound, StaysHigh
    <3> QED BY <3>2, <3>3
  <2> QED BY <2>8, <2>9
<1> QED BY <1>4, <1>5

\* An error that no collector letting slots go raises.
LEMMA FailFates ==
  ASSUME CoreInv, CoreInv', ~FailInSlots, Fail
  PROVE  Settled
<1>0. frames \in Seq(Frame) /\ InOrder
  BY CoreParts
<1>1. /\ Unwind(frames) /\ UNCHANGED <<kind, garbage, flagged, finalizers>>
      /\ \A i \in DOMAIN frames :
           /\ ~frames[i].erred
           /\ frames[i].op \in {"collect", "sweep"} => frames[i].phase = "lisp"
  BY DEF Fail, registered
<1>2. Loose(frames)
  BY <1>0, <1>1 DEF Loose, Stoppable, InOrder, Ledger, Books, Stacked, Shaped, Shape
<1>3. ASSUME NEW x \in Cell
      PROVE  Fate(x) /\ StaysHigh(x, count)
  <2>1. Unwound(x, frames) /\ StaysHigh(x, count)
    BY <1>1, <1>2, UnwoundFate
  <2>2. SameKind(x) /\ SameFlags(x)
    BY <1>1 DEF SameKind, SameFlags
  <2>3. Stays(x) \/ IsTurned(x) \/ IsDropped(x)
    BY <2>1, <2>2 DEF Unwound, Stays, IsTurned, IsDropped
  <2> QED BY <2>1, <2>3 DEF Fate
<1> QED BY <1>3 DEF Settled

\* The end of a death.
LEMMA DiedFates ==
  ASSUME CoreInv, CoreInv', Died
  PROVE  Settled
<1>0. /\ frames \in Seq(Frame) /\ InOrder
      /\ kind \in [Cell -> Kinds]
  BY CoreParts
<1>1. PICK n, f, c : n = Len(frames) /\ f = frames[n] /\ c = f.cell
  OBVIOUS
<1>2. AtTop(n, f) /\ Top = f /\ frames # <<>> /\ f.phase = "slots"
  BY <1>1 DEF AtTop, Top, Died
<1>3. Slotting(n, f)
  BY <1>2, TopSlots
<1>4. /\ c \in Cell /\ n \in Nat /\ n \in DOMAIN frames /\ DOMAIN frames = 1..n /\ f \in Frame
      /\ f.op \in {"purge", "collect", "sweep"} /\ f.erred \in BOOLEAN /\ f.finalize \in BOOLEAN
      /\ \A i \in 1..(n - 1) : frames[i].cell # f.cell
  BY <1>1, <1>3 DEF Slotting, Frame
<1>5. Parted(f, Below)
  <2>1. Lower(n, Below)
    BY <1>0, <1>1, <1>2, BelowLower
  <2> QED BY <1>1, <1>4, <2>1, LowerParted
<1>6. /\ kind' = [kind EXCEPT ![c] = IF ~f.erred /\ f.op = "purge" THEN "free" ELSE "zombie"]
      /\ garbage' = IF ~f.erred /\ f.op # "purge" THEN garbage \cup {c} ELSE garbage \ {c}
      /\ flagged' = flagged \ {c}
      /\ finalizers' = IF (~f.erred /\ f.op = "purge") \/ (~f.erred /\ f.op # "purge" /\ f.finalize)
                       THEN finalizers \ {c} ELSE finalizers
  BY <1>1, <1>2 DEF Died, Remains
<1>7. Sig(f).op = f.op /\ Sig(f).phase = "slots" /\ Sig(f).erred = f.erred /\ Sig(f).finalize = f.finalize
  BY <1>2 DEF Sig
<1>8. Of(Below, c) = {} /\ Sig(f) \in Of(frames, c)
  BY <1>1, <1>5 DEF Parted
<1> HIDE DEF Sig
<1>9. ASSUME NEW x \in Cell
      PROVE  x # c => SameKind(x) /\ SameFlags(x) /\ Of(Below, x) = Of(frames, x)
  <2>1. x # c => SameKind(x) /\ SameFlags(x)
    BY <1>0, <1>6 DEF SameKind, SameFlags
  <2> QED BY <1>1, <1>5, <2>1 DEF Parted
<1>10. CASE f.erred
  <2>1. Unwind(Below)
    BY <1>2, <1>10 DEF Died
  <2>2. Loose(Below)
    <3>1. Lower(n, Below)
      BY <1>0, <1>1, <1>2, BelowLower
    <3>2. Below \in Seq(Frame) /\ DOMAIN Below = 1..(n - 1) /\ \A i \in 1..(n - 1) : i \in DOMAIN frames /\ Below[i] = frames[i]
      BY <3>1 DEF Lower
    <3>3. \A i \in 1..(n - 1) : Stoppable(frames[i]) /\ (frames[i].op = "delete" => frames[i].phase = "lisp")
      <4>1. ErrorsApart(frames) /\ \A i \in DOMAIN frames : Shape(frames[i], kind, garbage)
        BY <1>0 DEF InOrder, Ledger, Books, Stacked, Shaped
      <4> QED BY <1>1, <1>4, <1>10, <3>2, <4>1 DEF ErrorsApart, Shape
    <3>4. Apart(Below)
      <4>1. Apart(frames)
        BY <1>0 DEF InOrder, Ledger, Books, Stacked
      <4> QED BY <3>2, <4>1 DEF Apart
    <3> QED BY <3>2, <3>3, <3>4 DEF Loose
  <2>3. ASSUME NEW x \in Cell
        PROVE  Fate(x) /\ StaysHigh(x, count)
    <3>1. Unwound(x, Below) /\ StaysHigh(x, count)
      BY <2>1, <2>2, UnwoundFate
    <3>2. CASE x = c
      <4>1. Of(frames', x) = {} /\ SameEnds(x) /\ count'[x] = count[x]
        BY <1>8, <3>1, <3>2 DEF Unwound
      <4>2. /\ kind'[x] = "zombie" /\ x \notin garbage' /\ x \notin flagged'
            /\ (x \in finalizers' <=> x \in finalizers)
        BY <1>0, <1>4, <1>6, <1>10, <3>2
      <4>3. IsAbandoned(x)
        BY <1>7, <1>8, <1>10, <3>2, <4>1, <4>2 DEF IsAbandoned
      <4> QED BY <3>1, <4>3 DEF Fate
    <3>3. CASE x # c
      <4>1. SameKind(x) /\ SameFlags(x) /\ Unwound(x, Below) /\ Of(Below, x) = Of(frames, x)
        BY <1>9, <3>1, <3>3
      <4>2. Stays(x) \/ IsTurned(x) \/ IsDropped(x)
        BY <4>1 DEF Unwound, Stays, IsTurned, IsDropped
      <4> QED BY <3>1, <4>2 DEF Fate
    <3> QED BY <3>2, <3>3
  <2> QED BY <2>3 DEF Settled
<1>11. CASE ~f.erred
  <2>1. /\ frames' = Below /\ count' = count
        /\ destroyed' = (IF f.op = "purge" THEN destroyed \ {c} ELSE destroyed)
        /\ cut' = (IF f.op = "purge" THEN cut \ {c} ELSE cut)
    BY <1>1, <1>2, <1>11 DEF Died
  <2>2. ASSUME NEW x \in Cell
        PROVE  Fate(x) /\ StaysHigh(x, count)
    <3>1. CASE x = c /\ f.op = "purge"
      <4>1. kind'[x] = "free" /\ x \notin garbage' /\ x \notin destroyed' /\ x \notin finalizers' /\ x \notin flagged'
        BY <1>0, <1>4, <1>6, <1>11, <2>1, <3>1
      <4>2. IsFreed(x)
        BY <1>7, <1>8, <1>11, <2>1, <3>1, <4>1 DEF IsFreed
      <4> QED BY <2>1, <4>2 DEF Fate, StaysHigh
    <3>2. CASE x = c /\ f.op # "purge"
      <4>1. /\ kind'[x] = "zombie" /\ x \in garbage' /\ x \notin flagged' /\ SameEnds(x)
            /\ (x \in finalizers' => x \in finalizers /\ ~f.finalize)
        BY <1>0, <1>4, <1>6, <1>11, <2>1, <3>2 DEF SameEnds
      <4>2. IsSwept(x)
        BY <1>4, <1>7, <1>8, <1>11, <2>1, <3>2, <4>1 DEF IsSwept
      <4> QED BY <2>1, <4>2 DEF Fate, StaysHigh
    <3>3. CASE x # c
      <4>1. SameEnds(x)
        BY <2>1, <3>3 DEF SameEnds
      <4> QED BY <1>9, <2>1, <3>3, <4>1, OtherFate
    <3> QED BY <3>1, <3>2, <3>3
  <2> QED BY <2>2 DEF Settled
<1> QED BY <1>4, <1>10, <1>11

--------------------
(* The collector, while lisp code runs and cells die.                      *)

\* The return to a destructor raises no error.
LEMMA TickCalm ==
  ASSUME frames \in Seq(Frame)
  PROVE  Calm(Tick) => Calm(frames)
<1>1. CASE frames = <<>>
  BY <1>1 DEF Tick
<1>2. CASE frames # <<>>
  <2>1. Len(frames) \in DOMAIN frames /\ \A i \in DOMAIN frames : frames[i] \in Frame
    BY <1>2
  <2>2. PICK d : d = [frames[Len(frames)] EXCEPT !.ops = @ + 1]
    OBVIOUS
  <2>3. Tick = [frames EXCEPT ![Len(frames)] = d]
    BY <1>2, <2>2 DEF Tick
  <2>4. d.erred = frames[Len(frames)].erred
    BY <2>1, <2>2 DEF Frame
  <2>5. DOMAIN Tick = DOMAIN frames /\ \A i \in DOMAIN frames : Tick[i] = frames[i] \/ (i = Len(frames) /\ Tick[i] = d)
    BY <2>1, <2>3
  <2> QED BY <2>4, <2>5 DEF Calm
<1> QED BY <1>1, <1>2

\* Nor does a death that begins.
LEMMA AppendCalm ==
  ASSUME NEW fr \in Seq(Frame), NEW d, Calm(Append(fr, d))
  PROVE  Calm(fr)
<1>1. \A i \in DOMAIN fr : i \in DOMAIN Append(fr, d) /\ Append(fr, d)[i] = fr[i]
  <2>1. DOMAIN fr = 1..Len(fr) /\ Len(fr) \in Nat /\ DOMAIN Append(fr, d) = 1..(Len(fr) + 1)
    OBVIOUS
  <2>2. \A i \in 1..Len(fr) : i \in 1..(Len(fr) + 1) /\ Append(fr, d)[i] = fr[i]
    BY <2>1
  <2> QED BY <2>1, <2>2
<1> QED BY <1>1 DEF Calm

\* Nor UNLOCK.
LEMMA ReleaseCalm ==
  ASSUME NEW c \in Ref, NEW cnt, NEW fr \in Seq(Frame), NEW bnd \in Seq(Cell), Release(c, cnt, fr, bnd)
  PROVE  Calm(frames') => Calm(fr)
<1>1. CASE Counts1(c, cnt, fr, bnd)
  BY <1>1 DEF Counts1
<1>2. ASSUME NEW d, Begun(c, cnt, fr, bnd, d)
      PROVE  Calm(frames') => Calm(fr)
  <2>1. frames' = Append(fr, d)
    BY <1>2 DEF Begun
  <2> QED BY <2>1, AppendCalm
<1> QED BY <1>1, <1>2, ReleaseCases

\* Nothing of the collector's changes.
Undisturbed == UNCHANGED <<collector, scan, spared>> /\ (Calm(frames') => Calm(frames))

\* Lisp code leaves the collector where it is, or ends it with an error.
LEMMA LispGoesOn ==
  ASSUME CoreInv, Sweeping, Lisp
  PROVE  GoesOn /\ Sweeping'
<1>0. /\ base \in [Name -> Ref] /\ slot \in [Cell -> [Slot -> Ref]] /\ bound \in Seq(Cell)
      /\ frames \in Seq(Frame)
  BY CoreParts
<1>1. CASE Fail
  <2>1. LispRuns /\ Unwind(frames) /\ spared' = spared
    BY <1>1 DEF Fail
  <2>2. collector' = "due" \/ (collector' = collector /\ ~Calm(frames'))
    BY <1>0, <2>1, UnwindLands
  <2>3. ~Works' /\ collector' # "others"
    BY <2>1, <2>2, SweepingStops DEF Works
  <2> QED BY <2>1, <2>3 DEF GoesOn, Sweeping
<1>2. CASE EndLet
  <2>1. collector = "idle" /\ UNCHANGED <<collector, scan, spared>>
    BY <1>2 DEF EndLet, passes
  <2> QED BY <2>1 DEF GoesOn, Sweeping, Works
<1>3. ASSUME LispRuns, Undisturbed
      PROVE  GoesOn /\ Sweeping'
  <2>1. collector # "others"
    BY <1>3, SweepingStops
  <2>2. collector' = collector /\ scan' = scan /\ spared' = spared /\ (Calm(frames') => Calm(frames))
    BY <1>3 DEF Undisturbed
  <2> QED BY <2>1, <2>2 DEF GoesOn, Sweeping, Works
<1>4. ASSUME NEW r \in Ref, NEW cnt, Release(r, cnt, Tick, bound), UNCHANGED passes
      PROVE  Tick \in Seq(Frame) => Undisturbed
  BY <1>0, <1>4, ReleaseCalm, TickCalm DEF Undisturbed, passes
<1>5. ASSUME NEW n \in Name, NEW c \in Ref, Setq(n, c)
      PROVE  GoesOn /\ Sweeping'
  <2>1. LispRuns /\ base[n] \in Ref /\ Release(base[n], Locked(count, c), Tick, bound) /\ UNCHANGED passes
    BY <1>0, <1>5 DEF Setq, CanRun
  <2>2. Tick \in Seq(Frame)
    BY <1>5, TickLedger DEF Setq
  <2> QED BY <1>3, <1>4, <2>1, <2>2
<1>6. ASSUME NEW n \in Name, NEW c \in Cell, NEW k \in {"object", "cons"}, Make(n, c, k)
      PROVE  GoesOn /\ Sweeping'
  <2>1. LispRuns /\ base[n] \in Ref /\ Release(base[n], [count EXCEPT ![c] = 1], Tick, bound) /\ UNCHANGED passes
    BY <1>0, <1>6 DEF Make, CanRun
  <2>2. Tick \in Seq(Frame)
    BY <1>6, TickLedger DEF Make
  <2> QED BY <1>3, <1>4, <2>1, <2>2
<1>7. ASSUME NEW c \in Cell, NEW s \in Slot, NEW d \in Ref, Setslot(c, s, d)
      PROVE  GoesOn /\ Sweeping'
  <2>1. LispRuns /\ slot[c][s] \in Ref /\ Release(slot[c][s], Locked(count, d), Tick, bound) /\ UNCHANGED passes
    BY <1>0, <1>7 DEF Setslot, CanRun
  <2>2. Tick \in Seq(Frame)
    BY <1>7, TickLedger DEF Setslot
  <2> QED BY <1>3, <1>4, <2>1, <2>2
<1>8. ASSUME NEW c \in Cell, Let(c)
      PROVE  GoesOn /\ Sweeping'
  <2>1. LispRuns /\ Undisturbed
    BY <1>8 DEF Let, CanRun, Undisturbed, passes
  <2> QED BY <1>3, <2>1
<1>9. ASSUME NEW c \in Cell, Watch(c)
      PROVE  GoesOn /\ Sweeping'
  <2>1. LispRuns /\ frames' = Tick /\ UNCHANGED passes
    BY <1>9 DEF Watch, CanRun
  <2>2. Undisturbed
    BY <1>0, <2>1, TickCalm DEF Undisturbed, passes
  <2> QED BY <1>3, <2>1, <2>2
<1>10. ASSUME NEW c \in Cell, Delete(c)
       PROVE  GoesOn /\ Sweeping'
  <2>1. PICK d : d = Death("delete", c, "lisp", FALSE, Len(bound))
    OBVIOUS
  <2>2. LispRuns /\ frames' = Append(Tick, d) /\ UNCHANGED passes
    BY <1>10, <2>1 DEF Delete, CanRun
  <2>3. Tick \in Seq(Frame)
    BY <1>10, TickLedger DEF Delete
  <2>4. Undisturbed
    BY <1>0, <2>2, <2>3, TickCalm, AppendCalm DEF Undisturbed, passes
  <2> QED BY <1>3, <2>2, <2>4
<1> QED BY <1>1, <1>2, <1>5, <1>6, <1>7, <1>8, <1>9, <1>10, LispDeeds DEF Deeds

\* Zombies that the collector has flagged do not change.
ZombiesStay ==
  \A x \in Cell : kind'[x] = "zombie" /\ x \in garbage' =>
    slot'[x] = None \/ (slot'[x] = slot[x] /\ kind[x] = "zombie" /\ x \in garbage)

\* UNLOCK flags objects.
LEMMA ReleaseFlags ==
  ASSUME NEW c \in Ref, NEW cnt, NEW fr, NEW bnd \in Seq(Cell), Release(c, cnt, fr, bnd), NEW x, x \in garbage'
  PROVE  x \in garbage \/ kind[x] = "object"
<1>1. CASE Counts1(c, cnt, fr, bnd)
  BY <1>1 DEF Counts1
<1>2. ASSUME NEW d, Begun(c, cnt, fr, bnd, d)
      PROVE  x \in garbage \/ kind[x] = "object"
  BY <1>2 DEF Begun
<1> QED BY <1>1, <1>2, ReleaseCases

\* Lisp code has no hold of a zombie.
LEMMA LispZombies ==
  ASSUME CoreInv, Lisp
  PROVE  ZombiesStay
<1>0. /\ base \in [Name -> Ref] /\ slot \in [Cell -> [Slot -> Ref]] /\ bound \in Seq(Cell)
      /\ kind \in [Cell -> Kinds]
  BY CoreParts
<1>1. ASSUME kind' = kind, slot' = slot, garbage' = garbage
      PROVE  ZombiesStay
  BY <1>1 DEF ZombiesStay
<1>2. ASSUME NEW r \in Ref, NEW cnt, NEW fr, NEW bnd \in Seq(Cell), Release(r, cnt, fr, bnd)
      PROVE  \A x \in Cell : x \in garbage' => x \in garbage \/ kind[x] = "object"
  BY <1>2, ReleaseFlags
<1>3. ASSUME NEW n \in Name, NEW c \in Ref, Setq(n, c)
      PROVE  ZombiesStay
  <2>1. base[n] \in Ref /\ Release(base[n], Locked(count, c), Tick, bound) /\ kind' = kind /\ slot' = slot
    BY <1>0, <1>3 DEF Setq
  <2>2. \A x \in Cell : x \in garbage' => x \in garbage \/ kind[x] = "object"
    BY <1>0, <1>2, <2>1
  <2> QED BY <2>1, <2>2 DEF ZombiesStay
<1>4. ASSUME NEW n \in Name, NEW c \in Cell, NEW k \in {"object", "cons"}, Make(n, c, k)
      PROVE  ZombiesStay
  <2>1. /\ base[n] \in Ref /\ Release(base[n], [count EXCEPT ![c] = 1], Tick, bound)
        /\ kind' = [kind EXCEPT ![c] = k] /\ slot' = slot
    BY <1>0, <1>4 DEF Make
  <2>2. \A x \in Cell : x \in garbage' => x \in garbage \/ kind[x] = "object"
    BY <1>0, <1>2, <2>1
  <2>3. \A x \in Cell : kind'[x] = "zombie" => kind[x] = "zombie"
    BY <1>0, <2>1
  <2> QED BY <2>1, <2>2, <2>3 DEF ZombiesStay
<1>5. ASSUME NEW c \in Cell, NEW s \in Slot, NEW d \in Ref, Setslot(c, s, d)
      PROVE  ZombiesStay
  <2>1. /\ slot[c][s] \in Ref /\ Release(slot[c][s], Locked(count, d), Tick, bound)
        /\ kind' = kind /\ slot' = [slot EXCEPT ![c][s] = d] /\ c \in Variables
    BY <1>0, <1>5 DEF Setslot
  <2>2. \A x \in Cell : x \in garbage' => x \in garbage \/ kind[x] = "object"
    BY <1>0, <1>2, <2>1
  <2>3. kind[c] # "zombie"
    BY <2>1 DEF Variables, Live
  <2>4. \A x \in Cell : x # c => slot'[x] = slot[x]
    BY <1>0, <2>1
  <2> QED BY <2>1, <2>2, <2>3, <2>4 DEF ZombiesStay
<1>6. ASSUME NEW c \in Cell, Let(c) \/ Watch(c)
      PROVE  ZombiesStay
  BY <1>1, <1>6 DEF Let, Watch
<1>7. ASSUME NEW c \in Cell, Delete(c)
      PROVE  ZombiesStay
  BY <1>7 DEF Delete, ZombiesStay
<1>8. CASE EndLet
  <2>1. bound # <<>> /\ Release(bound[1], count, frames, <<>>) /\ kind' = kind /\ slot' = slot
    BY <1>8 DEF EndLet
  <2>2. bound[1] \in Ref /\ <<>> \in Seq(Cell)
    BY <1>0, <2>1 DEF Ref
  <2>3. \A x \in Cell : x \in garbage' => x \in garbage \/ kind[x] = "object"
    BY <1>2, <2>1, <2>2
  <2> QED BY <2>1, <2>3 DEF ZombiesStay
<1>9. CASE Fail
  BY <1>1, <1>9 DEF Fail
<1> QED BY <1>3, <1>4, <1>5, <1>6, <1>7, <1>8, <1>9, LispDeeds DEF Deeds

\* Without an error, in the innermost frame or in the others, there is none.
LEMMA UpToCalm ==
  ASSUME NEW n \in Nat, DOMAIN frames = 1..n, n \in DOMAIN frames, NEW fr,
         \A i \in 1..(n - 1) : i \in DOMAIN fr /\ fr[i] = frames[i],
         ~frames[n].erred, Calm(fr)
  PROVE  Calm(frames)
<1>1. \A i \in 1..n : i = n \/ i \in 1..(n - 1)
  OBVIOUS
<1> QED BY <1>1 DEF Calm

\* A destructor that returns leaves the collector where it is.
LEMMA ReturnGoesOn ==
  ASSUME CoreInv, Sweeping, Return
  PROVE  GoesOn /\ Sweeping' /\ ZombiesStay
<1>0. frames \in Seq(Frame) /\ kind \in [Cell -> Kinds]
  BY CoreParts
<1>1. InLisp
  BY DEF Return
<1>2. PICK n, f, c : n = Len(frames) /\ f = frames[n] /\ c = f.cell
  OBVIOUS
<1>3. AtTop(n, f) /\ Top = f /\ frames # <<>>
  BY <1>1, <1>2 DEF AtTop, Top, InLisp
<1>4. Runs(n, f)
  BY <1>1, <1>3, TopRuns
<1>5. c \in Cell /\ n \in Nat /\ n \in DOMAIN frames /\ DOMAIN frames = 1..n /\ f \in Frame /\ ~f.erred /\ f.height \in Nat
  BY <1>2, <1>4 DEF Runs
<1>6. Lower(n, Below)
  BY <1>0, <1>2, <1>3, BelowLower
<1>7. PICK d : d = Death("purge", c, "slots", FALSE, f.height)
  OBVIOUS
<1>8. /\ UNCHANGED <<collector, scan, spared, slot>>
      /\ \/ frames' = Below \/ frames' = Append(Below, d)
         \/ frames' = [frames EXCEPT ![n].phase = "slots", ![n].ops = 0]
      /\ \/ kind' = kind /\ garbage' = garbage
         \/ kind' = [kind EXCEPT ![c] = "zombie"] /\ garbage' = garbage \ {c}
  BY <1>2, <1>3, <1>7 DEF Return, passes
<1>9. \A i \in 1..(n - 1) : i \in DOMAIN frames' /\ frames'[i] = frames[i]
  <2>1. DOMAIN Below = 1..(n - 1) /\ \A i \in 1..(n - 1) : i \in DOMAIN frames /\ Below[i] = frames[i]
    BY <1>6 DEF Lower
  <2>2. CASE frames' = Below
    BY <2>1, <2>2
  <2>3. CASE frames' = Append(Below, d)
    <3>1. Below \in Seq(Frame)
      BY <1>6 DEF Lower
    <3>2. \A i \in DOMAIN Below : i \in DOMAIN Append(Below, d) /\ Append(Below, d)[i] = Below[i]
      <4>1. DOMAIN Below = 1..Len(Below) /\ Len(Below) \in Nat /\ DOMAIN Append(Below, d) = 1..(Len(Below) + 1)
        BY <3>1
      <4>2. \A i \in 1..Len(Below) : i \in 1..(Len(Below) + 1) /\ Append(Below, d)[i] = Below[i]
        BY <3>1, <4>1
      <4> QED BY <4>1, <4>2
    <3> QED BY <2>1, <2>3, <3>2
  <2>4. CASE frames' = [frames EXCEPT ![n].phase = "slots", ![n].ops = 0]
    <3>1. \A i \in 1..(n - 1) : i \in 1..n /\ i # n
      BY <1>5
    <3> QED BY <1>5, <2>4, <3>1
  <2> QED BY <1>8, <2>2, <2>3, <2>4
<1>10. Calm(frames') => Calm(frames)
  BY <1>2, <1>5, <1>9, UpToCalm
<1>11. collector # "others"
  BY <1>1, SweepingStops DEF LispRuns
<1>12. GoesOn /\ Sweeping'
  BY <1>8, <1>10, <1>11 DEF GoesOn, Works, Sweeping
<1>13. ZombiesStay
  BY <1>0, <1>5, <1>8 DEF ZombiesStay
<1> QED BY <1>12, <1>13

\* So does the end of a death, or it throws an error again.
LEMMA DiedGoesOn ==
  ASSUME CoreInv, Sweeping, Died
  PROVE  GoesOn /\ Sweeping' /\ ZombiesStay
<1>0. frames \in Seq(Frame) /\ kind \in [Cell -> Kinds] /\ slot \in [Cell -> [Slot -> Ref]]
  BY CoreParts
<1>1. PICK n, f, c : n = Len(frames) /\ f = frames[n] /\ c = f.cell
  OBVIOUS
<1>2. AtTop(n, f) /\ Top = f /\ frames # <<>> /\ f.phase = "slots"
  BY <1>1 DEF AtTop, Top, Died
<1>3. Slotting(n, f)
  BY <1>2, TopSlots
<1>4. c \in Cell /\ n \in Nat /\ n \in DOMAIN frames /\ DOMAIN frames = 1..n
  BY <1>1, <1>3 DEF Slotting
<1>5. Lower(n, Below)
  BY <1>0, <1>1, <1>2, BelowLower
<1>6. DOMAIN Below = 1..(n - 1) /\ \A i \in 1..(n - 1) : i \in DOMAIN frames /\ Below[i] = frames[i]
  BY <1>5 DEF Lower
<1>7. /\ spared' = spared /\ scan' = scan
      /\ slot' = [slot EXCEPT ![c] = None]
      /\ kind' = [kind EXCEPT ![c] = Remains(c)]
      /\ garbage' = garbage \cup {c} \/ garbage' = garbage \ {c}
  BY <1>1, <1>2 DEF Died
<1>8. ZombiesStay
  <2>1. \A x \in Cell : x # c => slot'[x] = slot[x] /\ kind'[x] = kind[x] /\ (x \in garbage' => x \in garbage)
    BY <1>0, <1>7
  <2>2. slot'[c] = None
    BY <1>0, <1>4, <1>7
  <2> QED BY <2>1, <2>2 DEF ZombiesStay
<1>9. CASE f.erred
  <2>1. Unwind(Below) /\ Below \in Seq(Frame)
    BY <1>2, <1>5, <1>9 DEF Died, Lower
  <2>2. collector' = "due" \/ (collector' = collector /\ ~Calm(frames'))
    BY <2>1, UnwindLands
  <2>3. collector # "others"
    BY <1>1, <1>4, <1>9, SweepingStops DEF Calm
  <2> QED BY <1>7, <1>8, <2>2, <2>3 DEF GoesOn, Works, Sweeping
<1>10. CASE ~f.erred
  <2>1. frames' = Below /\ collector' = collector
    BY <1>2, <1>10 DEF Died
  <2>2. Calm(frames') => Calm(frames)
    BY <1>1, <1>4, <1>6, <1>10, <2>1, UpToCalm
  <2>3. Sweeping'
    BY <1>6, <2>1 DEF Sweeping
  <2> QED BY <1>7, <1>8, <2>1, <2>2, <2>3 DEF GoesOn, Works
<1> QED BY <1>9, <1>10

\* So does a slot that is let go.  While the collector sweeps, what the slot
\* refers to stays in use.
LEMMA LetSlotGoesOn ==
  ASSUME CoreInv, Sweeping, Raised, \A x \in Cell : LostAt(x), LetSlotGo
  PROVE  GoesOn /\ Sweeping' /\ ZombiesStay
<1>0. /\ frames \in Seq(Frame) /\ kind \in [Cell -> Kinds] /\ slot \in [Cell -> [Slot -> Ref]]
      /\ count \in Counts /\ bound \in Seq(Cell)
  BY CoreParts
<1>1. PICK n, f, c, s : n = Len(frames) /\ f = frames[n] /\ c = f.cell /\ s = f.todo
  OBVIOUS
<1>2. AtTop(n, f) /\ Top = f /\ frames # <<>> /\ f.phase = "slots" /\ s <= Slots
  BY <1>1 DEF AtTop, Top, LetSlotGo
<1>3. Slotting(n, f)
  BY <1>2, TopSlots
<1>4. /\ c \in Cell /\ n \in Nat /\ n \in DOMAIN frames /\ DOMAIN frames = 1..n /\ f \in Frame
      /\ f.op = "sweep" => kind[c] = "zombie"
      /\ f.erred => kind[c] = "object"
  BY <1>1, <1>3 DEF Slotting
<1>5. s \in Slot /\ s \in Nat
  BY <1>1, <1>2, <1>4, HeapAssumption DEF Frame, Slot
<1>6. PICK o, fr2 : o = slot[c][s] /\ fr2 = [frames EXCEPT ![n].todo = @ + 1]
  OBVIOUS
<1>7. o \in Ref
  BY <1>0, <1>4, <1>5, <1>6
<1>8. /\ UNCHANGED <<collector, scan, spared>>
      /\ slot' = IF kind[c] = "cons" /\ s = Slots THEN [slot EXCEPT ![c] = None] ELSE slot
      /\ kind' = IF kind[c] = "cons" /\ s = Slots THEN [kind EXCEPT ![c] = "free"] ELSE kind
      /\ Release(o, count, IF kind[c] = "cons" /\ s = Slots THEN Below ELSE fr2, bound)
  BY <1>1, <1>2, <1>6 DEF LetSlotGo, passes
<1>9. ZombiesStay
  <2>1. PICK fr : fr = IF kind[c] = "cons" /\ s = Slots THEN Below ELSE fr2
    OBVIOUS
  <2>2. \A x \in Cell : x \in garbage' => x \in garbage \/ kind[x] = "object"
    <3>1. Release(o, count, fr, bound)
      BY <1>8, <2>1
    <3> QED BY <1>0, <1>7, <3>1, ReleaseFlags
  <2>3. \A x \in Cell : kind'[x] = "zombie" => kind[x] = "zombie" /\ (slot'[x] = None \/ slot'[x] = slot[x])
    BY <1>0, <1>4, <1>8
  <2> QED BY <2>2, <2>3 DEF ZombiesStay
<1>10. /\ fr2 \in Seq(Frame) /\ DOMAIN fr2 = DOMAIN frames
       /\ \A i \in DOMAIN frames : fr2[i].erred = frames[i].erred /\ fr2[i].op = frames[i].op
  <2>1. PICK g : g = [f EXCEPT !.todo = s + 1]
    OBVIOUS
  <2>2. g.erred = f.erred /\ g.op = f.op
    BY <1>4, <2>1 DEF Frame
  <2>3. s + 1 \in 1..(Slots + 1)
    BY <1>2, <1>5, HeapAssumption
  <2>4. g \in Frame
    BY <1>4, <2>1, <2>3 DEF Frame
  <2>5. fr2 = [frames EXCEPT ![n] = g]
    BY <1>0, <1>1, <1>4, <1>6, <2>1
  <2>6. fr2 \in Seq(Frame) /\ DOMAIN fr2 = DOMAIN frames /\ \A i \in DOMAIN frames : fr2[i] = frames[i] \/ (i = n /\ fr2[i] = g)
    BY <1>0, <1>1, <1>4, <2>4, <2>5
  <2> QED BY <1>1, <2>2, <2>6
<1>11. Calm(frames') => Calm(frames)
  <2>1. CASE kind[c] = "cons" /\ s = Slots
    <3>1. Lower(n, Below)
      BY <1>0, <1>1, <1>2, BelowLower
    <3>2. Below \in Seq(Frame) /\ \A i \in 1..(n - 1) : i \in DOMAIN Below /\ Below[i] = frames[i]
      BY <3>1 DEF Lower
    <3>3. Calm(frames') => Calm(Below)
      <4>1. Release(o, count, Below, bound)
        BY <1>8, <2>1
      <4> QED BY <1>0, <1>7, <3>2, <4>1, ReleaseCalm
    <3>4. Calm(Below) => Calm(frames)
      <4>1. ~f.erred
        BY <1>4, <2>1
      <4> QED BY <1>1, <1>4, <3>2, <4>1, UpToCalm
    <3> QED BY <3>3, <3>4
  <2>2. CASE ~(kind[c] = "cons" /\ s = Slots)
    <3>1. Calm(frames') => Calm(fr2)
      <4>1. Release(o, count, fr2, bound)
        BY <1>8, <2>2
      <4> QED BY <1>0, <1>7, <1>10, <4>1, ReleaseCalm
    <3> QED BY <1>10, <3>1 DEF Calm
  <2> QED BY <2>1, <2>2
<1>12. GoesOn
  BY <1>8, <1>11 DEF GoesOn, Works
<1>13. CASE collector # "others"
  BY <1>8, <1>9, <1>12, <1>13 DEF Sweeping
<1>14. CASE collector = "others"
  <2>1. Calm(frames) /\ f.op = "sweep"
    BY <1>1, <1>4, <1>14, SweepingStops DEF Sweeping
  <2>2. Works /\ kind[c] = "zombie"
    BY <1>4, <1>14, <2>1 DEF Works
  <2>3. Sig(f) \in Of(frames, c) /\ Sig(f).op = "sweep"
    <3>1. Sig(f).op = "sweep"
      BY <2>1 DEF Sig
    <3> QED BY <1>1, <1>4, <3>1, OfMember
  <2>4. c \in garbage /\ count[c] # 0
    BY <1>4, <2>3, CoreKnown DEF LostAt, Known
  <2>5. o = NIL \/ ~(count[o] < High)
    BY <1>4, <1>5, <1>6, <2>2, <2>4 DEF Raised
  <2>6. Release(o, count, fr2, bound)
    BY <1>8, <2>2
  <2>7. frames' = fr2
    <3>1. ASSUME NEW d, Begun(o, count, fr2, bound, d)
          PROVE  FALSE
      <4>1. o \in Cell /\ Unlocked(count, o)[o] = 0
        BY <3>1 DEF Begun
      <4>2. ~(count[o] < High)
        <5>1. o # NIL
          BY <4>1, HeapAssumption DEF Cell
        <5> QED BY <2>5, <5>1
      <4>3. Owed(o, count)
        <5>1. Counting(c, s, count, frames)
          <6>1. c \in Dead(frames) /\ (LetGo(c, s, frames) <=> s < s)
            BY <1>1, <1>3, <1>5 DEF Slotting
          <6> QED BY <1>5, <6>1 DEF Counting
        <5>2. <<c, s>> \in Cell \X Slot /\ Standing(slot, count, frames)[<<c, s>>] = o
          BY <1>4, <1>5, <1>6, <5>1 DEF Standing
        <5>3. \E p \in Cell \X Slot : Standing(slot, count, frames)[p] = o
          BY <5>2
        <5> QED BY <5>3, InUse DEF Owed
      <4>4. Unlocked(count, o)[o] < High <=> count[o] < High
        BY <1>0, <4>1, <4>3, UnlockedIs
      <4>5. 0 < High
        BY HeapAssumption
      <4> QED BY <4>1, <4>2, <4>4, <4>5
    <3>2. Counts1(o, count, fr2, bound)
      BY <1>0, <1>7, <2>6, <3>1, ReleaseCases
    <3> QED BY <3>2 DEF Counts1
  <2>8. \A i \in DOMAIN fr2 : fr2[i].op = "sweep"
    BY <1>10, <1>14 DEF Sweeping
  <2> QED BY <1>9, <1>12, <2>7, <2>8 DEF Sweeping
<1> QED BY <1>13, <1>14

\* A zombie in use was in use before.
LEMMA FateUsed ==
  ASSUME NEW x, Known(x), Fate(x), kind'[x] = "zombie", x \in garbage', count'[x] # 0
  PROVE  count[x] # 0
<1>1. CASE Stays(x)
  BY <1>1 DEF Known, Stays, SameKind
<1>2. CASE IsMade(x)
  BY <1>2 DEF IsMade
<1>3. CASE IsWatched(x) \/ IsBegun(x) \/ IsVisited(x)
  BY <1>3 DEF IsWatched, IsBegun, IsVisited
<1>4. CASE IsTurned(x)
  BY <1>4 DEF Known, IsTurned
<1>5. CASE IsDeleted(x)
  BY <1>5 DEF IsDeleted
<1>6. CASE IsSwept(x)
  BY <1>6 DEF Known, IsSwept
<1>7. CASE IsAbandoned(x)
  BY <1>7 DEF IsAbandoned
<1>8. CASE IsFreed(x)
  BY <1>8 DEF IsFreed
<1>9. CASE IsDropped(x) \/ IsFinalized(x)
  BY <1>9 DEF IsDropped, IsFinalized
<1> QED BY <1>1, <1>2, <1>3, <1>4, <1>5, <1>6, <1>7, <1>8, <1>9 DEF Fate

\* What flagged zombies refer to keeps its raised count.
LEMMA RaisedStay ==
  ASSUME CoreInv, AllKnown, Raised, Settled, Works' => Works, ZombiesStay
  PROVE  Raised'
<1>0. slot \in [Cell -> [Slot -> Ref]]
  BY CoreParts
<1>1. ASSUME Works', NEW x \in Cell, x \in garbage', count'[x] # 0, kind'[x] = "zombie", NEW s \in Slot
      PROVE  slot'[x][s] = NIL \/ ~(count'[slot'[x][s]] < High)
  <2>1. CASE slot'[x] = None
    BY <2>1 DEF None
  <2>2. CASE slot'[x] = slot[x] /\ kind[x] = "zombie" /\ x \in garbage
    <3>1. count[x] # 0
      BY <1>1, FateUsed DEF AllKnown, Settled
    <3>2. PICK y : y = slot[x][s]
      OBVIOUS
    <3>3. y = NIL \/ ~(count[y] < High)
      BY <1>1, <2>2, <3>1, <3>2 DEF Raised
    <3>4. y \in Ref
      BY <1>0, <3>2
    <3>5. y = NIL \/ ~(count'[y] < High)
      BY <3>3, <3>4 DEF Ref, Settled, StaysHigh
    <3> QED BY <2>2, <3>2, <3>5
  <2> QED BY <1>1, <2>1, <2>2 DEF ZombiesStay
<1> QED BY <1>1 DEF Raised

\* Steps within a collection keep the invariant, with PassedAt.
LEMMA SettledKeeps ==
  ASSUME CoreInv, AllKnown, AllKnown', DeathInv, Settled, spared' = spared, Works' => Works, ZombiesStay,
         Sweeping', \A x \in Cell : PassedAt(x)'
  PROVE  DeathInv'
<1>1. Raised'
  BY RaisedStay DEF DeathInv
<1>2. ASSUME NEW x \in Cell
      PROVE  OnceAt(x)' /\ SparedAt(x)' /\ LostAt(x)'
  <2>1. Known(x) /\ Known(x)' /\ Fate(x)
    BY DEF AllKnown, Settled
  <2>2. OnceAt(x) /\ SparedAt(x) /\ LostAt(x)
    BY DEF DeathInv
  <2> QED BY <2>1, <2>2, FateOnce, FateSpared, FateLost
<1> QED BY <1>1, <1>2 DEF DeathInv

\* Those that leave the collector where it is keep PassedAt.
LEMMA GoingOn ==
  ASSUME CoreInv, AllKnown, AllKnown', DeathInv, Settled, GoesOn, ZombiesStay, Sweeping'
  PROVE  DeathInv'
<1>1. ASSUME NEW x \in Cell
      PROVE  PassedAt(x)'
  <2>1. Known(x) /\ Fate(x) /\ PassedAt(x)
    BY DEF AllKnown, Settled, DeathInv
  <2> QED BY <2>1, FatePassed
<1>2. spared' = spared /\ (Works' => Works)
  BY DEF GoesOn
<1> QED BY <1>1, <1>2, SettledKeeps

\* Lisp code does to each cell what Fate says.
LEMMA LispSettles ==
  ASSUME CoreInv, CoreInv', RoomLeft, ~FailInSlots, Sweeping, Lisp
  PROVE  Settled
BY SetqFates, SetslotFates, MakeFates, LetFates, EndLetFates, WatchFates, DeleteFates, FailFates, LispDeeds DEF Deeds

\* Lisp code keeps the invariant.
LEMMA LispDeaths ==
  ASSUME CoreInv, CoreInv', RoomLeft, ~FailInSlots, AllKnown, AllKnown', DeathInv, Lisp
  PROVE  DeathInv'
<1>1. Sweeping
  BY DEF DeathInv
<1>2. Settled /\ GoesOn /\ Sweeping' /\ ZombiesStay
  BY <1>1, LispSettles, LispGoesOn, LispZombies
<1> QED BY <1>2, GoingOn

\* The steps of a death keep it.
LEMMA DyingDeaths ==
  ASSUME CoreInv, CoreInv', AllKnown, AllKnown', DeathInv, Dying
  PROVE  DeathInv'
<1>1. Sweeping /\ Raised /\ \A x \in Cell : LostAt(x)
  BY DEF DeathInv
<1>2. GoesOn /\ Sweeping' /\ ZombiesStay
  BY <1>1, ReturnGoesOn, LetSlotGoesOn, DiedGoesOn DEF Dying
<1>3. Settled
  BY ReturnFates, LetSlotGoFates, DiedFates DEF Dying
<1> QED BY <1>2, <1>3, GoingOn

\* The cell that a pass of the collector comes to.
LEMMA ComesTo ==
  ASSUME NEW c \in Cell, NEW S, Comes(c, S), scan \in Nat
  PROVE  /\ c \in garbage /\ count[c] # 0 /\ c \in S /\ frames = <<>> /\ scan' = c + 1
         /\ \A x \in Cell : x \in garbage /\ count[x] # 0 /\ x \in S /\ ~(x < scan) => x = c \/ ~(x < c + 1)
<1>1. frames = <<>> /\ c >= scan /\ {d \in scan..c : d \in garbage \cap Used \cap S} = {c} /\ scan' = c + 1
  BY DEF Comes
<1>2. c \in garbage /\ c \in Used /\ c \in S
  <2>1. c \in {d \in scan..c : d \in garbage \cap Used \cap S}
    BY <1>1
  <2> QED BY <2>1
<1>3. ASSUME NEW x \in Cell, x \in garbage, count[x] # 0, x \in S, ~(x < scan), x < c + 1
      PROVE  x = c
  <2>1. x \in scan..c /\ x \in Used
    BY <1>3 DEF Cell, Used
  <2>2. x \in {d \in scan..c : d \in garbage \cap Used \cap S}
    BY <1>3, <2>1
  <2> QED BY <1>1, <2>2
<1> QED BY <1>1, <1>2, <1>3 DEF Used

\* How far a pass has come is a number.
LEMMA ScanType ==
  ASSUME CoreInv
  PROVE  scan \in Nat
<1>1. scan \in 1..(Cells + 1)
  BY DEF CoreInv, HeapInv, TypeOK
<1> QED BY <1>1, HeapAssumption

\* The first pass, which begins destructors, keeps it.
LEMMA CollectObjectDeaths ==
  ASSUME CoreInv, RoomLeft, AllKnown, AllKnown', DeathInv, NEW c \in Cell, CollectObject(c)
  PROVE  DeathInv'
<1>0. count \in Counts /\ Len(bound) \in Nat
  BY CoreParts
<1>1. PICK d : d = Death("collect", c, "lisp", Finalize(c), Len(bound))
  OBVIOUS
<1>2. /\ collector = "objects" /\ count' = Plus(count, c, 2) /\ frames' = <<d>> /\ Comes(c, Objects)
      /\ UNCHANGED <<kind, slot, garbage, flagged, finalizers, collector, spared, destroyed, cut>>
  BY <1>1 DEF CollectObject, registered, history
<1>3. /\ c \in garbage /\ count[c] # 0 /\ c \in Objects /\ frames = <<>> /\ scan' = c + 1
      /\ \A x \in Cell : x \in garbage /\ count[x] # 0 /\ x \in Objects /\ ~(x < scan) => x = c \/ ~(x < c + 1)
  BY <1>2, ScanType, ComesTo
<1>4. d \in Frame
  <2>1. Finalize(c) \in BOOLEAN
    BY DEF Finalize
  <2> QED BY <1>0, <1>1, <2>1, DeathType DEF Ops
<1>5. d.cell = c /\ d.op = "collect" /\ d.phase = "lisp" /\ ~d.erred /\ d.finalize = (c \in flagged)
  BY <1>1 DEF Death, Finalize
<1>6. Raises(count, c, 2, count')
  <2>1. High >= 4 /\ (count[c] % High) + 4 <= High
    BY <1>0, Room
  <2>2. count[c] \in Nat
    BY <1>0 DEF Counts
  <2>3. count[c] % High \in Nat
    BY <2>2, RestType
  <2>4. (count[c] % High) + 2 < High
    BY <2>1, <2>3, HeapAssumption
  <2>5. Raises(count, c, 2, Plus(count, c, 2))
    BY <1>0, <2>4, PlusRaises
  <2> QED BY <1>2, <2>5
<1>7. Works
  BY <1>2, <1>3 DEF Works, Calm
<1>8. \A x : Of(frames, x) = {} /\ Of(frames', x) = (IF c = x THEN {Sig(d)} ELSE {})
  <2>1. frames' = Append(frames, d) /\ frames \in Seq(Frame)
    BY <1>2, <1>3
  <2>2. \A x : Of(frames, x) = {}
    <3>1. \A x : x \notin Dead(frames)
      BY <1>3 DEF Dead
    <3> QED BY <3>1, OfNone
  <2>3. \A x : Of(Append(frames, d), x) = Of(frames, x) \cup (IF d.cell = x THEN {Sig(d)} ELSE {})
    BY <1>4, <2>1, OfAppend
  <2> QED BY <1>5, <2>1, <2>2, <2>3
<1>9. Sig(d).op = "collect" /\ Sig(d).phase = "lisp" /\ ~Sig(d).erred /\ Sig(d).finalize = (c \in flagged)
  BY <1>5 DEF Sig
<1> HIDE DEF Sig
<1>10. ASSUME NEW x \in Cell
       PROVE  Fate(x) /\ StaysHigh(x, count)
  <2>1. SameKind(x) /\ SameFlags(x) /\ SameEnds(x)
    BY <1>2 DEF SameKind, SameFlags, SameEnds
  <2>2. CASE x = c
    <3>1. Of(frames, x) = {} /\ Of(frames', x) = {Sig(d)} /\ kind[x] = "object"
      BY <1>3, <1>8, <2>2 DEF Objects
    <3>2. IsVisited(x)
      BY <1>3, <1>7, <1>9, <2>1, <2>2, <3>1 DEF IsVisited
    <3>3. StaysHigh(x, count)
      BY <1>6, <2>2 DEF Raises, StaysHigh
    <3> QED BY <3>2, <3>3 DEF Fate
  <2>3. CASE x # c
    <3>1. Of(frames', x) = Of(frames, x) /\ count'[x] = count[x]
      BY <1>6, <1>8, <2>3 DEF Raises
    <3> QED BY <2>1, <3>1, OtherFate
  <2> QED BY <2>2, <2>3
<1>11. ASSUME NEW x \in Cell
       PROVE  PassedAt(x)'
  <2>1. x \in garbage' /\ count'[x] # 0 /\ Of(frames', x) = {} => x # c /\ x \in garbage /\ count[x] # 0 /\ Of(frames, x) = {}
    BY <1>2, <1>6, <1>8 DEF Raises
  <2>2. PassedAt(x)
    BY DEF DeathInv
  <2>3. kind[x] = "object" => x \in Objects
    BY DEF Objects
  <2> QED BY <1>2, <1>3, <1>7, <2>1, <2>2, <2>3 DEF PassedAt
<1>12. Settled
  BY <1>10 DEF Settled
<1>13. spared' = spared /\ (Works' => Works) /\ ZombiesStay /\ Sweeping'
  BY <1>2, <1>7 DEF ZombiesStay, Sweeping
<1>14. \A x \in Cell : PassedAt(x)'
  BY <1>11
<1> QED BY <1>12, <1>13, <1>14, SettledKeeps

\* The second pass does, at zombies, conses and what has finalizers.
LEMMA CollectOtherDeaths ==
  ASSUME CoreInv, AllKnown, AllKnown', DeathInv, NEW c \in Cell, CollectOther(c)
  PROVE  DeathInv'
<1>0. Len(bound) \in Nat
  BY CoreParts
<1>1. PICK d : d = Death("sweep", c, "slots", Finalize(c), Len(bound))
  OBVIOUS
<1>2. /\ collector = "others" /\ Comes(c, Others)
      /\ IF kind[c] = "zombie" THEN frames' = <<d>> /\ flagged' = flagged /\ finalizers' = finalizers
         ELSE RunFinalizers(c) /\ frames' = frames
      /\ UNCHANGED <<kind, slot, count, garbage, collector, spared, destroyed, cut>>
  BY <1>1 DEF CollectOther, registered, history
<1>3. /\ c \in garbage /\ count[c] # 0 /\ c \in Others /\ frames = <<>> /\ scan' = c + 1
      /\ \A x \in Cell : x \in garbage /\ count[x] # 0 /\ x \in Others /\ ~(x < scan) => x = c \/ ~(x < c + 1)
  BY <1>2, ScanType, ComesTo
<1>4. d \in Frame
  <2>1. Finalize(c) \in BOOLEAN
    BY DEF Finalize
  <2> QED BY <1>0, <1>1, <2>1, DeathType DEF Ops
<1>5. d.cell = c /\ d.op = "sweep" /\ d.phase = "slots" /\ ~d.erred /\ d.finalize = (c \in flagged)
  BY <1>1 DEF Death, Finalize
<1>6. Works
  BY <1>2, <1>3 DEF Works, Calm
<1>7. \A x : Of(frames, x) = {}
  <2>1. \A x : x \notin Dead(frames)
    BY <1>3 DEF Dead
  <2> QED BY <2>1, OfNone
<1>8. kind[c] = "zombie" => \A x : Of(frames', x) = (IF c = x THEN {Sig(d)} ELSE {})
  <2>1. kind[c] = "zombie" => frames' = Append(frames, d) /\ frames \in Seq(Frame)
    BY <1>2, <1>3
  <2>2. frames \in Seq(Frame)
    BY <1>3
  <2>3. \A x : Of(Append(frames, d), x) = Of(frames, x) \cup (IF d.cell = x THEN {Sig(d)} ELSE {})
    BY <1>4, <2>2, OfAppend
  <2> QED BY <1>5, <1>7, <2>1, <2>3
<1>9. kind[c] # "zombie" => \A x : Of(frames', x) = {}
  BY <1>2, <1>7
<1>10. Sig(d).op = "sweep" /\ Sig(d).phase = "slots" /\ ~Sig(d).erred /\ Sig(d).finalize = (c \in flagged)
  BY <1>5 DEF Sig
<1>11. kind[c] # "zombie" => /\ finalizers' = IF c \in flagged THEN finalizers \ {c} ELSE finalizers
                             /\ flagged' = flagged \ {c}
  BY <1>2 DEF RunFinalizers
<1> HIDE DEF Sig
<1>12. ASSUME NEW x \in Cell
       PROVE  Fate(x) /\ StaysHigh(x, count)
  <2>1. SameKind(x) /\ SameEnds(x) /\ count'[x] = count[x]
    BY <1>2 DEF SameKind, SameEnds
  <2>2. CASE x = c /\ kind[c] = "zombie"
    <3>1. SameFlags(x)
      BY <1>2, <2>2 DEF SameFlags
    <3>2. Of(frames, x) = {} /\ Of(frames', x) = {Sig(d)}
      BY <1>7, <1>8, <2>2
    <3>3. IsVisited(x)
      BY <1>3, <1>6, <1>10, <2>1, <2>2, <3>1, <3>2 DEF IsVisited
    <3> QED BY <2>1, <3>3 DEF Fate, StaysHigh
  <2>3. CASE x = c /\ kind[c] # "zombie"
    <3>1. x \notin flagged' /\ (x \in finalizers' => x \in finalizers /\ x \notin flagged)
      BY <1>11, <2>3
    <3>2. Of(frames, x) = {} /\ Of(frames', x) = {}
      BY <1>7, <1>9, <2>3
    <3>3. IsFinalized(x)
      BY <2>1, <3>1, <3>2 DEF IsFinalized
    <3> QED BY <2>1, <3>3 DEF Fate, StaysHigh
  <2>4. CASE x # c
    <3>1. SameFlags(x)
      BY <1>2, <1>11, <2>4 DEF SameFlags
    <3>2. Of(frames', x) = Of(frames, x)
      BY <1>7, <1>8, <1>9, <2>4
    <3> QED BY <2>1, <3>1, <3>2, OtherFate
  <2> QED BY <2>2, <2>3, <2>4
<1>13. ASSUME NEW x \in Cell
       PROVE  PassedAt(x)'
  <2>1. PassedAt(x)
    BY DEF DeathInv
  <2>2. /\ x \in garbage' => x \in garbage
        /\ count'[x] = count[x] /\ kind'[x] = kind[x] /\ Of(frames, x) = {} /\ collector' = "others"
    BY <1>2, <1>7
  <2>3. x \in flagged' => x \in flagged /\ x \in Others
    BY <1>2, <1>11 DEF Others
  <2>4. x = c => x \notin flagged' \/ Of(frames', x) # {}
    BY <1>8, <1>11
  <2> QED BY <1>2, <1>3, <1>6, <2>1, <2>2, <2>3, <2>4 DEF PassedAt
<1>14. Settled
  BY <1>12 DEF Settled
<1>15. spared' = spared /\ (Works' => Works) /\ ZombiesStay
  BY <1>2, <1>6 DEF ZombiesStay
<1>16. Sweeping'
  <2>1. CASE kind[c] = "zombie"
    <3>1. frames' = <<d>>
      BY <1>2, <2>1
    <3> QED BY <1>5, <3>1 DEF Sweeping
  <2>2. CASE kind[c] # "zombie"
    <3>1. frames' = <<>>
      BY <1>2, <1>3, <2>2
    <3> QED BY <3>1 DEF Sweeping
  <2> QED BY <2>1, <2>2
<1>17. \A x \in Cell : PassedAt(x)'
  BY <1>13
<1> QED BY <1>14, <1>15, <1>16, <1>17, SettledKeeps

\* The second pass begins with every flagged object dead.
LEMMA ObjectsDoneDeaths ==
  ASSUME CoreInv, AllKnown, AllKnown', DeathInv, ObjectsDone
  PROVE  DeathInv'
<1>1. /\ collector = "objects" /\ Over(Objects) /\ collector' = "others" /\ scan' = 1
      /\ UNCHANGED <<kind, slot, count, garbage, flagged, finalizers, frames, spared, destroyed, cut>>
  BY DEF ObjectsDone, registered, history
<1>2. frames = <<>> /\ (scan..Cells) \cap garbage \cap Used \cap Objects = {}
  BY <1>1 DEF Over
<1>3. Works
  BY <1>1, <1>2 DEF Works, Calm
<1>4. ASSUME NEW x \in Cell
      PROVE  Fate(x) /\ StaysHigh(x, count)
  <2>1. SameKind(x) /\ SameFlags(x) /\ SameEnds(x) /\ Of(frames', x) = Of(frames, x) /\ count'[x] = count[x]
    BY <1>1 DEF SameKind, SameFlags, SameEnds
  <2> QED BY <2>1, OtherFate
<1>5. ASSUME NEW x \in Cell
      PROVE  PassedAt(x)'
  <2>1. PassedAt(x)
    BY DEF DeathInv
  <2>2. ~(x < 1)
    BY DEF Cell
  <2>3. x \in garbage /\ count[x] # 0 /\ kind[x] = "object" => x < scan
    <3>1. x \notin scan..Cells => x < scan
      BY ScanType DEF Cell
    <3> QED BY <1>2, <3>1 DEF Used, Objects
  <2>4. Of(frames', x) = Of(frames, x)
    BY <1>1
  <2> QED BY <1>1, <1>3, <2>1, <2>2, <2>3, <2>4 DEF PassedAt
<1>6. Settled
  BY <1>4 DEF Settled
<1>7. spared' = spared /\ (Works' => Works) /\ ZombiesStay
  BY <1>1, <1>3 DEF ZombiesStay
<1>8. Sweeping'
  BY <1>1, <1>2 DEF Sweeping
<1>9. \A x \in Cell : PassedAt(x)'
  BY <1>5
<1> QED BY <1>6, <1>7, <1>8, <1>9, SettledKeeps

\* The marks: what a flagged cell refers to has a raised count, since lisp
\* has popped what it pushed.
LEMMA MarkDeaths ==
  ASSUME CoreInv, RoomLeft, AllKnown, DeathInv, Mark
  PROVE  DeathInv'
<1>0. count \in Counts /\ slot \in [Cell -> [Slot -> Ref]]
  BY CoreParts
<1>1. /\ collector = "due" /\ frames = <<>>
      /\ count' = [c \in Cell |-> IF c \in Used THEN (count[c] + High) % Width ELSE 0]
      /\ garbage' = (garbage \cup Used) \ spared'
      /\ collector' = "objects" /\ scan' = 1
      /\ UNCHANGED <<kind, slot, flagged, finalizers, frames, destroyed, cut>>
  BY CoreParts DEF Mark, Flag, registered, history
<1>2. ASSUME NEW x \in Cell, count[x] # 0
      PROVE  ~(count'[x] < High)
  <2>1. count[x] \in 0..(Width - 1) /\ count[x] + High < Width
    BY <1>0, <1>1 DEF RoomLeft, Counts
  <2>2. count[x] + High >= High /\ (count[x] + High) % Width = count[x] + High
    BY <2>1, RestRaised
  <2>3. count'[x] = (count[x] + High) % Width
    BY <1>1, <1>2 DEF Used
  <2>4. count[x] \in Nat
    BY <2>1
  <2> QED BY <2>2, <2>3, <2>4, HeapAssumption
<1>3. ASSUME NEW x \in Cell
      PROVE  (count'[x] = 0 <=> count[x] = 0) /\ Of(frames, x) = {} /\ Of(frames', x) = {}
  <2>1. count[x] = 0 => count'[x] = 0
    BY <1>1 DEF Used
  <2>2. count[x] # 0 => count'[x] # 0
    BY <1>2, HeapAssumption
  <2>3. x \notin Dead(frames)
    BY <1>1 DEF Dead
  <2>4. Of(frames, x) = {}
    BY <2>3, OfNone
  <2> QED BY <1>1, <2>1, <2>2, <2>4
<1>4. Sweeping'
  BY <1>1 DEF Sweeping
<1>5. Raised'
  <2>1. ASSUME NEW x \in Cell, count'[x] # 0, NEW s \in Slot, slot[x][s] # NIL
        PROVE  ~(count'[slot[x][s]] < High)
    <3>1. PICK y : y = slot[x][s]
      OBVIOUS
    <3>2. y \in Cell
      BY <1>0, <2>1, <3>1 DEF Ref
    <3>3. Counting(x, s, count, frames)
      BY <1>1, <1>3, <2>1 DEF Counting, LetGo
    <3>4. <<x, s>> \in Cell \X Slot /\ Standing(slot, count, frames)[<<x, s>>] = y
      BY <3>1, <3>3 DEF Standing
    <3>5. count[y] # 0
      BY <3>2, <3>4, InUse
    <3> QED BY <1>2, <3>1, <3>2, <3>5
  <2> QED BY <1>1, <2>1 DEF Raised
<1>6. ASSUME NEW x \in Cell
      PROVE  OnceAt(x)' /\ SparedAt(x)' /\ LostAt(x)' /\ PassedAt(x)'
  <2>1. OnceAt(x) /\ LostAt(x)
    BY DEF DeathInv
  <2>2. ~(x < 1)
    BY DEF Cell
  <2>3. OnceAt(x)'
    BY <1>1, <1>3, <2>1 DEF OnceAt
  <2>4. SparedAt(x)'
    BY <1>1, <1>3 DEF SparedAt
  <2>5. LostAt(x)'
    BY <1>1, <1>3, <2>1 DEF LostAt
  <2>6. PassedAt(x)'
    BY <1>1, <2>2 DEF PassedAt
  <2> QED BY <2>3, <2>4, <2>5, <2>6
<1> QED BY <1>4, <1>5, <1>6 DEF DeathInv

\* Rebuilding the counts keeps it: nothing dies then.
LEMMA RebuildDeaths ==
  ASSUME CoreInv, AllKnown, DeathInv, Rebuild
  PROVE  DeathInv'
<1>1. /\ frames = <<>> /\ frames' = <<>> /\ collector' = "idle"
      /\ Rebuilt(Reach(Image(base)), kind', slot', count')
  BY RebuildIs
<1>2. PICK F : F = Reach(Image(base))
  OBVIOUS
<1>3. /\ kind' = [c \in Cell |-> IF c \in F THEN kind[c] ELSE "free"]
      /\ flagged' = flagged \cap F /\ finalizers' = finalizers \cap F
      /\ destroyed' = destroyed \cap F /\ cut' = cut \cap F
  BY <1>2 DEF Rebuild
<1>4. \A c \in F : count[c] # 0
  BY <1>1, <1>2, ReachUsed
<1>5. \A c \in Cell : count'[c] # 0 <=> c \in F
  BY <1>1, <1>2 DEF Rebuilt
<1>6. ~Works' /\ Sweeping' /\ Raised'
  BY <1>1 DEF Works, Sweeping, Raised
<1>7. ASSUME NEW x \in Cell
      PROVE  OnceAt(x)' /\ SparedAt(x)' /\ LostAt(x)' /\ PassedAt(x)'
  <2>1. OnceAt(x) /\ LostAt(x)
    BY DEF DeathInv
  <2>2. Of(frames, x) = {} /\ Of(frames', x) = {}
    <3>1. x \notin Dead(frames)
      BY <1>1 DEF Dead
    <3> QED BY <1>1, <3>1, OfNone
  <2>3. kind'[x] = (IF x \in F THEN kind[x] ELSE "free")
    BY <1>3
  <2>4. OnceAt(x)'
    BY <1>3, <1>4, <2>1, <2>2, <2>3 DEF OnceAt
  <2>5. LostAt(x)'
    BY <1>3, <1>5, <2>1, <2>2, <2>3 DEF LostAt
  <2>6. SparedAt(x)' /\ PassedAt(x)'
    BY <1>6, <2>2 DEF SparedAt, PassedAt
  <2> QED BY <2>4, <2>5, <2>6
<1> QED BY <1>6, <1>7 DEF DeathInv

\* The empty heap.
LEMMA DeathStarts ==
  ASSUME Init
  PROVE  DeathInv
<1>1. /\ kind = [c \in Cell |-> "free"] /\ flagged = {} /\ finalizers = {} /\ frames = <<>>
      /\ collector = "idle" /\ destroyed = {} /\ cut = {}
  BY DEF Init
<1>2. Sweeping /\ Raised /\ ~Works
  BY <1>1 DEF Sweeping, Raised, Works
<1>3. ASSUME NEW x \in Cell
      PROVE  OnceAt(x) /\ SparedAt(x) /\ LostAt(x) /\ PassedAt(x)
  <2>1. Of(frames, x) = {}
    <3>1. x \notin Dead(frames)
      BY <1>1 DEF Dead
    <3> QED BY <3>1, OfNone
  <2> QED BY <1>1, <1>2, <2>1 DEF OnceAt, SparedAt, LostAt, PassedAt
<1> QED BY <1>2, <1>3 DEF DeathInv

\* Every step keeps it.
LEMMA DeathKeeps ==
  ASSUME CoreInv, CoreInv', RoomLeft, ~FailInSlots, AllKnown, AllKnown', DeathInv, Next
  PROVE  DeathInv'
<1>1. CASE Lisp
  BY <1>1, LispDeaths
<1>2. CASE Dying
  BY <1>2, DyingDeaths
<1>3. CASE Collecting
  <2>1. ASSUME NEW c \in Cell, CollectObject(c)
        PROVE  DeathInv'
    BY <2>1, CollectObjectDeaths
  <2>2. ASSUME NEW c \in Cell, CollectOther(c)
        PROVE  DeathInv'
    BY <2>2, CollectOtherDeaths
  <2> QED BY <1>3, <2>1, <2>2, MarkDeaths, ObjectsDoneDeaths, RebuildDeaths DEF Collecting
<1> QED BY <1>1, <1>2, <1>3 DEF Next

\* What is known holds of every cell.
LEMMA AllKnownIs ==
  ASSUME CoreInv
  PROVE  AllKnown
BY CoreKnown DEF AllKnown

\* The invariants of the heap.
LEMMA DeathsTrue ==
  ASSUME ~FailInSlots
  PROVE  Spec /\ []RoomLeft => [](CoreInv /\ DeathInv)
<1>1. Init => CoreInv /\ DeathInv
  BY CoreStarts, DeathStarts
<1>2. CoreInv /\ RoomLeft /\ [Next]_vars => CoreInv'
  <2>1. ASSUME CoreInv, UNCHANGED vars
        PROVE  CoreInv'
    BY <2>1 DEF vars, registered, passes, history, CoreInv, HeapInv, TypeOK, InOrder, Ledger, Pushes, Flags
  <2> QED BY <2>1, CoreKeeps
<1>3. CoreInv => AllKnown
  BY AllKnownIs
<1>4. CoreInv /\ CoreInv' /\ RoomLeft /\ AllKnown /\ AllKnown' /\ DeathInv /\ [Next]_vars => DeathInv'
  <2>1. ASSUME DeathInv, UNCHANGED vars
        PROVE  DeathInv'
    <3>1. Works' <=> Works
      BY <2>1 DEF vars, passes, Works, Calm
    <3>2. \A x : Of(frames', x) = Of(frames, x)
      BY <2>1 DEF vars
    <3>3. Sweeping' /\ Raised'
      BY <2>1, <3>1 DEF vars, passes, DeathInv, Sweeping, Raised
    <3>4. ASSUME NEW x \in Cell
          PROVE  OnceAt(x)' /\ SparedAt(x)' /\ LostAt(x)' /\ PassedAt(x)'
      <4>1. OnceAt(x) /\ SparedAt(x) /\ LostAt(x) /\ PassedAt(x)
        BY <2>1 DEF DeathInv
      <4> QED BY <2>1, <3>1, <3>2, <4>1 DEF vars, registered, passes, history, OnceAt, SparedAt, LostAt, PassedAt
    <3> QED BY <3>3, <3>4 DEF DeathInv
  <2> QED BY <2>1, DeathKeeps
<1> QED BY <1>1, <1>2, <1>3, <1>4, PTL DEF Spec

\* Of the destructors that run, a step keeps or ends one, as DestructorsOnce says.
RunsOrEnds(i) ==
  \/ i \in DOMAIN frames' /\ frames'[i].phase = "lisp" /\ frames'[i].cell = frames[i].cell
  \/ frames[i].cell \in destroyed'
  \/ frames[i].op = "delete" /\ Thrown

\* What UNLOCK adds to the stack is above it.
LEMMA ReleaseStack ==
  ASSUME NEW frs \in Seq(Frame), NEW c, NEW cnt, NEW bnd, Release(c, cnt, frs, bnd),
         NEW i \in DOMAIN frs
  PROVE  i \in DOMAIN frames' /\ frames'[i] = frs[i]
<1>1. CASE frames' = frs
  BY <1>1
<1>2. ASSUME NEW d, frames' = Append(frs, d)
      PROVE  i \in DOMAIN frames' /\ frames'[i] = frs[i]
  BY <1>2
<1> QED BY <1>1, <1>2 DEF Release

\* An error ends the destructor with the handler, and those above, which
\* (delete ...) began.
LEMMA UnwindStack ==
  ASSUME NEW frs \in Seq(Frame), Unwind(frs), NEW i \in DOMAIN frs, frs[i].phase = "lisp",
         frs[i].op # "sweep"
  PROVE  \/ i \in DOMAIN frames' /\ frames'[i].phase = "lisp" /\ frames'[i].cell = frs[i].cell
         \/ frs[i].cell \in destroyed'
         \/ frs[i].op = "delete" /\ Thrown
<1>1. frs[i].op \in Ops
  <2>1. frs[i] \in Frame
    OBVIOUS
  <2> QED BY <2>1 DEF Frame, Ops
<1>2. i \in Handlers(frs) \/ frs[i].op = "delete"
  BY <1>1 DEF Handlers, Ops
<1>3. CASE Handlers(frs) = {}
  BY <1>2, <1>3 DEF Unwind, Thrown
<1>4. CASE Handlers(frs) # {}
  <2>1. PICK h \in Handlers(frs) :
          /\ \A j \in Handlers(frs) : j <= h
          /\ frames' = [SubSeq(frs, 1, h) EXCEPT ![h].phase = "slots", ![h].erred = TRUE, ![h].ops = 0]
          /\ destroyed' = destroyed \cup {frs[h].cell}
    BY <1>4 DEF Unwind
  <2>2. h \in DOMAIN frs /\ h \in 1..Len(frs) /\ i \in 1..Len(frs)
    BY <2>1 DEF Handlers
  <2>3. Len(SubSeq(frs, 1, h)) = h /\ DOMAIN SubSeq(frs, 1, h) = 1..h
        /\ \A j \in 1..h : SubSeq(frs, 1, h)[j] = frs[j]
    BY <2>2
  <2>4. DOMAIN frames' = 1..h /\ Len(frames') = h
    BY <2>1, <2>2, <2>3
  <2>5. CASE i = h
    BY <2>1, <2>5
  <2>6. CASE i < h
    <3>1. i \in 1..h /\ i # h
      BY <2>2, <2>6
    <3>2. frames'[i] = SubSeq(frs, 1, h)[i]
      BY <2>1, <2>3, <3>1
    <3> QED BY <2>3, <2>4, <3>1, <3>2
  <2>7. CASE i > h
    <3>1. frs[i].op = "delete"
      BY <1>2, <2>1, <2>2, <2>7
    <3>2. frs[h] \in Frame /\ SubSeq(frs, 1, h)[h] = frs[h]
      BY <2>2, <2>3
    <3>3. frames'[h].erred
      BY <2>1, <2>2, <2>3, <3>2 DEF Frame
    <3>4. frames' # <<>>
      BY <2>2, <2>4
    <3> QED BY <2>4, <3>1, <3>3, <3>4 DEF Thrown
  <2> QED BY <2>2, <2>5, <2>6, <2>7
<1> QED BY <1>3, <1>4

\* Every step.
LEMMA StepRunsOrEnds ==
  ASSUME CoreInv, Next, NEW i \in DOMAIN frames, frames[i].phase = "lisp"
  PROVE  RunsOrEnds(i)
<1>0. /\ frames \in Seq(Frame) /\ frames # <<>> /\ frames[i].op # "sweep"
      /\ i \in 1..Len(frames) /\ Len(frames) \in Nat
  <2>1. frames \in Seq(Frame) /\ Shaped(kind, garbage, frames)
    BY CoreParts DEF InOrder, Ledger, Books, Stacked
  <2> QED BY <2>1 DEF Shaped, Shape
<1>1. ASSUME NEW fr \in Seq(Frame), NEW c, NEW cnt, NEW bnd, Release(c, cnt, fr, bnd),
             i \in DOMAIN fr, fr[i].phase = "lisp", fr[i].cell = frames[i].cell
      PROVE  RunsOrEnds(i)
  BY <1>1, ReleaseStack DEF RunsOrEnds
<1>2. /\ CanRun => Tick \in Seq(Frame)
      /\ i \in DOMAIN Tick /\ Tick[i].phase = "lisp" /\ Tick[i].cell = frames[i].cell
  BY <1>0, TickAlike, TickLedger DEF Alike
<1>3. CASE Lisp
  <2>1. ASSUME NEW c, NEW cnt, CanRun, Release(c, cnt, Tick, bound)
        PROVE  RunsOrEnds(i)
    BY <1>1, <1>2, <2>1
  <2>2. \A n \in Name, c \in Ref : Setq(n, c) => RunsOrEnds(i)
    BY <2>1 DEF Setq
  <2>3. \A n \in Name, c \in Cell, k \in {"object", "cons"} : Make(n, c, k) => RunsOrEnds(i)
    BY <2>1 DEF Make
  <2>4. \A c \in Cell, s \in Slot, d \in Ref : Setslot(c, s, d) => RunsOrEnds(i)
    BY <2>1 DEF Setslot
  <2>5. \A c \in Cell : Watch(c) => RunsOrEnds(i)
    BY <1>2 DEF Watch, RunsOrEnds
  <2>6. \A c \in Cell : Delete(c) => RunsOrEnds(i)
    <3>1. ASSUME NEW d, CanRun, frames' = Append(Tick, d)
          PROVE  i \in DOMAIN frames' /\ frames'[i] = Tick[i]
      BY <1>2, <3>1
    <3> QED BY <1>2, <3>1 DEF Delete, RunsOrEnds
  <2>7. Fail => RunsOrEnds(i)
    BY <1>0, UnwindStack DEF Fail, RunsOrEnds
  <2>8. \A c \in Cell : ~Let(c) /\ ~EndLet
    BY <1>0 DEF Let, EndLet
  <2> QED BY <1>3, <2>2, <2>3, <2>4, <2>5, <2>6, <2>7, <2>8, LispDeeds DEF Deeds, EndLet
<1>4. CASE Dying
  <2>1. PICK n : n = Len(frames)
    OBVIOUS
  <2>2. Top = frames[n] /\ n \in Nat /\ DOMAIN frames = 1..n /\ Lower(n, Below)
    BY <1>0, <2>1, BelowLower DEF Top
  <2>3. ASSUME i # n
        PROVE  i \in DOMAIN Below /\ Below[i] = frames[i]
    BY <2>2, <2>3 DEF Lower
  <2>4. CASE Return
    <3>1. CASE i = n
      BY <2>2, <2>4, <3>1 DEF Return, RunsOrEnds
    <3>2. CASE i # n
      <4>1. i \in DOMAIN frames' /\ frames'[i] = frames[i]
        <5>1. ASSUME NEW d, frames' = Append(Below, d)
              PROVE  i \in DOMAIN frames' /\ frames'[i] = frames[i]
          BY <2>2, <2>3, <3>2, <5>1 DEF Lower
        <5>2. CASE frames' = Below
          BY <2>3, <3>2, <5>2
        <5>3. CASE frames' = [frames EXCEPT ![Len(frames)].phase = "slots", ![Len(frames)].ops = 0]
          BY <2>1, <3>2, <5>3
        <5> QED BY <2>4, <5>1, <5>2, <5>3 DEF Return
      <4> QED BY <4>1 DEF RunsOrEnds
    <3> QED BY <3>1, <3>2
  <2>5. CASE LetSlotGo
    <3>1. i # n
      BY <2>2, <2>5 DEF LetSlotGo
    <3>2. PICK g : g = [frames[n] EXCEPT !.todo = @ + 1]
      OBVIOUS
    <3>3. [frames EXCEPT ![Len(frames)].todo = @ + 1] = [frames EXCEPT ![n] = g]
      BY <2>1, <2>2, <3>2
    <3>4. g \in Frame
      <4>1. frames[n] \in Frame /\ Top.todo <= Slots
        BY <1>0, <2>1, <2>2, <2>5 DEF LetSlotGo
      <4>2. frames[n].todo \in 1..(Slots + 1) /\ frames[n].todo <= Slots
        BY <2>2, <4>1 DEF Frame
      <4>3. frames[n].todo + 1 \in 1..(Slots + 1)
        BY <4>2, HeapAssumption
      <4> QED BY <3>2, <4>1, <4>3 DEF Frame
    <3>5. PICK fr \in {Below, [frames EXCEPT ![n] = g]} :
            \E c, cnt : Release(c, cnt, fr, bound)
      BY <2>5, <3>3 DEF LetSlotGo
    <3>6. fr \in Seq(Frame) /\ i \in DOMAIN fr /\ fr[i] = frames[i]
      <4>1. CASE fr = Below
        BY <2>2, <2>3, <3>1, <4>1 DEF Lower
      <4>2. CASE fr = [frames EXCEPT ![n] = g]
        BY <1>0, <2>2, <3>1, <3>4, <4>2
      <4> QED BY <3>5, <4>1, <4>2
    <3> QED BY <1>1, <3>5, <3>6
  <2>6. CASE Died
    <3>1. i # n
      BY <2>2, <2>6 DEF Died
    <3>2. CASE Top.erred
      BY <1>0, <2>2, <2>3, <2>6, <3>1, <3>2, UnwindStack DEF Died, Lower, RunsOrEnds
    <3>3. CASE ~Top.erred
      BY <2>3, <2>6, <3>1, <3>3 DEF Died, RunsOrEnds
    <3> QED BY <3>2, <3>3
  <2> QED BY <1>4, <2>4, <2>5, <2>6 DEF Dying
<1>5. CASE Collecting
  BY <1>0, <1>5, CoreParts DEF Collecting, Mark, ObjectsDone, Rebuild, CollectObject, CollectOther, Comes, Over
<1> QED BY <1>3, <1>4, <1>5 DEF Next

\* A destructor runs once for an object, in any heap: not again after it
\* returned or an error ended it, however many collections start before the
\* cell is free (oostruct.c:123-128); but for the destructor that (delete ...)
\* began, which an error takes from the stack without a trace.
THEOREM OnceTrue ==
  ASSUME ~FailInSlots
  PROVE  Spec /\ []RoomLeft => DestructorsOnce
<1>1. CoreInv /\ DeathInv /\ [Next]_vars =>
        [\A i \in DOMAIN frames : frames[i].phase = "lisp" =>
           /\ frames[i].cell \notin destroyed
           /\ \/ i \in DOMAIN frames' /\ frames'[i].phase = "lisp" /\ frames'[i].cell = frames[i].cell
              \/ frames[i].cell \in destroyed'
              \/ frames[i].op = "delete" /\ Thrown]_vars
  <2>1. ASSUME CoreInv, DeathInv, Next, NEW i \in DOMAIN frames, frames[i].phase = "lisp"
        PROVE  frames[i].cell \notin destroyed /\ RunsOrEnds(i)
    <3>1. frames[i].cell \in Cell
      <4>1. frames[i] \in Frame
        BY <2>1, CoreParts
      <4> QED BY <4>1 DEF Frame
    <3>2. Sig(frames[i]) \in Of(frames, frames[i].cell) /\ Sig(frames[i]).phase = "lisp"
      BY <2>1, OfMember DEF Sig
    <3>3. frames[i].cell \notin destroyed
      BY <2>1, <3>1, <3>2 DEF DeathInv, OnceAt
    <3> QED BY <2>1, <3>3, StepRunsOrEnds
  <2> QED BY <2>1 DEF RunsOrEnds
<1>2. Spec => [][Next]_vars
  BY PTL DEF Spec
<1> QED BY <1>1, <1>2, DeathsTrue, PTL DEF DestructorsOnce

--------------------
(* What is reachable, and what is freed.                                   *)

\* What symbols reach is in use: a symbol or a place that stands refers to it.
LEMMA ReachableCounts ==
  ASSUME CoreInv, NEW x \in Reachable
  PROVE  /\ x \in Cell /\ count[x] # 0 /\ kind[x] # "free"
         /\ \/ \E n \in Name : base[n] = x
            \/ \E p \in Cell \X Slot : Standing(slot, count, frames)[p] = x
<1>0. frames \in Seq(Frame) /\ slot \in [Cell -> [Slot -> Ref]] /\ base \in [Name -> Ref]
  BY CoreParts
<1>1. PICK S : S = {y \in Cell : \/ \E n \in Name : base[n] = y
                                 \/ \E p \in Cell \X Slot : Standing(slot, count, frames)[p] = y}
  OBVIOUS
<1>2. Image(base) \cap Cell \subseteq S
  BY <1>0, <1>1 DEF Image
<1>3. ASSUME NEW p \in Places, slot[p[1]][p[2]] # NIL
      PROVE  slot[p[1]][p[2]] \in S
  <2>1. p \in Cell \X Slot /\ Counting(p[1], p[2], count, frames)
    BY <1>0, <1>3, PlacesStand
  <2>2. PICK y : y = slot[p[1]][p[2]]
    OBVIOUS
  <2>3. y \in Cell
    <3>1. y \in Ref
      BY <1>0, <2>1, <2>2
    <3> QED BY <1>3, <2>2, <3>1 DEF Ref
  <2>4. Standing(slot, count, frames)[p] = y
    BY <2>1, <2>2 DEF Standing
  <2> QED BY <1>1, <2>1, <2>2, <2>3, <2>4
<1>4. S \in SUBSET Cell
  BY <1>1
<1>5. x \in Cell /\ x \in S
  BY <1>2, <1>3, <1>4 DEF Reachable
<1>6. \/ \E n \in Name : base[n] = x
      \/ \E p \in Cell \X Slot : Standing(slot, count, frames)[p] = x
  BY <1>1, <1>5
<1> QED BY <1>5, <1>6, InUse

\* An object whose destructor failed has its binding of `this', and its count
\* is one: nothing else refers to it.
LEMMA ErredAlone ==
  ASSUME CoreInv, NEW i \in DOMAIN frames, frames[i].erred, frames[i].op = "purge"
  PROVE  frames[i].cell \notin Reachable
<1>0. /\ InOrder
      /\ slot \in [Cell -> [Slot -> Ref]] /\ count \in Counts /\ base \in [Name -> Ref] /\ bound \in Seq(Cell)
      /\ frames \in Seq(Frame)
  BY CoreParts
<1>1. PICK x : x = frames[i].cell
  OBVIOUS
<1>2. x \in Cell /\ frames[i].phase \in {"lisp", "slots"} /\ frames[i].height \in Nat
  <2>1. frames[i] \in Frame
    BY <1>0
  <2> QED BY <1>1, <2>1 DEF Frame
<1>3. Shape(frames[i], kind, garbage) /\ Number(frames[i], count) /\ Binds(bound, frames)
  BY <1>0 DEF InOrder, Ledger, Books, Stacked, Shaped, Numbered
<1>4. count[x] = 1
  BY <1>1, <1>2, <1>3 DEF Shape, Number
<1>5. \E k \in DOMAIN bound : bound[k] = x
  <2>1. frames[i].height < Len(bound) /\ bound[frames[i].height + 1] = x
    BY <1>1, <1>3 DEF Binds, Pending
  <2>2. Len(bound) \in Nat /\ DOMAIN bound = 1..Len(bound)
    BY <1>0
  <2>3. frames[i].height + 1 \in 1..Len(bound)
    BY <1>2, <2>1, <2>2
  <2> QED BY <2>1, <2>2, <2>3
<1>6. ASSUME x \in Reachable
      PROVE  FALSE
  <2>1. \/ \E n \in Name : base[n] = x
        \/ \E p \in Cell \X Slot : Standing(slot, count, frames)[p] = x
    BY <1>6, ReachableCounts
  <2>2. /\ Times(base, x) \in Nat /\ Times(bound, x) \in Nat /\ Times(Standing(slot, count, frames), x) \in Nat
        /\ In(x, Destroying(frames)) \in {0, 1} /\ In(x, Deleting(frames)) \in {0, 1}
        /\ \A n \in Name : base[n] = x => Times(base, x) >= 1
        /\ \A k \in DOMAIN bound : bound[k] = x => Times(bound, x) >= 1
        /\ \A p \in Cell \X Slot : Standing(slot, count, frames)[p] = x => Times(Standing(slot, count, frames), x) >= 1
    BY <1>0, TotalType
  <2>3. Times(bound, x) >= 1 /\ (Times(base, x) >= 1 \/ Times(Standing(slot, count, frames), x) >= 1)
    BY <1>5, <2>1, <2>2
  <2>4. Total(x, slot, count, base, bound, frames) >= 2 /\ Total(x, slot, count, base, bound, frames) \in Nat
    BY <2>2, <2>3 DEF Total
  <2>5. Total(x, slot, count, base, bound, frames) + Eq(x, NIL) <= count[x] % High
    BY <1>0, <1>2 DEF InOrder, Ledger, Books, Covered
  <2>6. Eq(x, NIL) \in {0, 1}
    BY DEF Eq
  <2>7. count[x] % High = 1
    BY <1>4, HeapAssumption, RestType
  <2> QED BY <2>4, <2>5, <2>6, <2>7
<1> QED BY <1>1, <1>6

\* No lisp code changes what a cell in use is.
LEMMA KindInLisp ==
  ASSUME CoreInv, Lisp, NEW x \in Cell, kind[x] # "free"
  PROVE  kind'[x] = kind[x]
<1>0. kind \in [Cell -> Kinds]
  BY CoreParts
<1>1. ASSUME NEW n \in Name, NEW c \in Cell, NEW k \in {"object", "cons"}, Make(n, c, k)
      PROVE  kind'[x] = kind[x]
  <2>1. kind[c] = "free" /\ kind' = [kind EXCEPT ![c] = k]
    BY <1>1 DEF Make
  <2> QED BY <1>0, <2>1
<1>2. \/ \E n \in Name, c \in Cell, k \in {"object", "cons"} : Make(n, c, k)
      \/ kind' = kind
  BY LispDeeds DEF Deeds, Setq, Setslot, Let, Watch, Delete, EndLet, Fail
<1> QED BY <1>1, <1>2

\* What may end the life of an object.
Spoken(x) ==
  /\ kind'[x] # "free"
  /\ kind[x] = "object" /\ kind'[x] # "object"
     => Top.op = "delete" \/ (collector # "idle" /\ x \notin spared)

\* The steps of a death free nothing reachable; a reachable object whose
\* death they end was deleted, or found garbage by the collector.
LEMMA DyingSpares ==
  ASSUME CoreInv, DeathInv, Dying, NEW x \in Reachable
  PROVE  Spoken(x)
<1>0. /\ kind \in [Cell -> Kinds] /\ frames \in Seq(Frame)
      /\ InOrder
  BY CoreParts
<1>1. x \in Cell /\ count[x] # 0 /\ kind[x] # "free"
  BY ReachableCounts
<1>2. CASE Return
  BY <1>0, <1>1, <1>2 DEF Return, Spoken
<1>3. PICK n, f, c : n = Len(frames) /\ f = frames[n] /\ c = f.cell
  OBVIOUS
<1>4. ASSUME frames # <<>>, Top.phase = "slots"
      PROVE  /\ Top = f /\ f.phase = "slots" /\ Number(f, count) /\ f.erred \in BOOLEAN
             /\ n \in DOMAIN frames /\ f.op \in {"purge", "collect", "sweep"} /\ c \in Cell
             /\ f.op = "sweep" => kind[c] = "zombie"
             /\ f.erred => f.op \in {"purge", "collect"} /\ kind[c] = "object"
  <2>1. AtTop(n, f) /\ Top = f /\ f.phase = "slots"
    BY <1>3, <1>4 DEF AtTop, Top
  <2>2. Slotting(n, f)
    BY <1>4, <2>1, TopSlots
  <2> QED BY <1>3, <2>1, <2>2 DEF Slotting, Frame
<1>5. CASE LetSlotGo
  <2>1. frames # <<>> /\ Top.phase = "slots"
    BY <1>5 DEF LetSlotGo
  <2>2. kind' = kind \/ (kind[c] = "cons" /\ kind' = [kind EXCEPT ![c] = "free"])
    BY <1>3, <1>4, <1>5, <2>1 DEF LetSlotGo
  <2>3. kind[c] = "cons" => x # c
    <3>1. kind[c] = "cons" => f.op = "purge" /\ ~f.erred
      <4>1. f.op = "collect" => kind[c] = "object"
        <5>1. Shape(f, kind, garbage)
          BY <1>0, <1>3, <1>4, <2>1 DEF InOrder, Ledger, Books, Stacked, Shaped
        <5> QED BY <1>3, <5>1 DEF Shape
      <4> QED BY <1>4, <2>1, <4>1
    <3>2. f.op = "purge" /\ ~f.erred => count[c] = 0
      BY <1>3, <1>4, <2>1 DEF Number
    <3> QED BY <1>1, <3>1, <3>2
  <2>4. kind'[x] = kind[x]
    BY <1>0, <1>1, <2>2, <2>3
  <2> QED BY <1>1, <2>4 DEF Spoken
<1>6. CASE Died
  <2>1. frames # <<>> /\ Top.phase = "slots"
    BY <1>6 DEF Died
  <2>2. kind' = [kind EXCEPT ![c] = IF ~f.erred /\ f.op = "purge" THEN "free" ELSE "zombie"]
    BY <1>3, <1>4, <1>6, <2>1 DEF Died, Remains
  <2>3. CASE x # c
    <3>1. kind'[x] = kind[x]
      BY <1>0, <1>1, <2>2, <2>3
    <3> QED BY <1>1, <3>1 DEF Spoken
  <2>4. CASE x = c
    <3>1. ~(f.op = "purge" /\ ~f.erred)
      <4>1. f.op = "purge" /\ ~f.erred => count[c] = 0
        BY <1>3, <1>4, <2>1 DEF Number
      <4> QED BY <1>1, <2>4, <4>1
    <3>2. ~(f.op = "purge" /\ f.erred)
      BY <1>3, <1>4, <2>1, <2>4, ErredAlone
    <3>3. f.op \in {"collect", "sweep"} /\ kind'[x] = "zombie"
      BY <1>0, <1>1, <1>4, <2>1, <2>2, <2>4, <3>1, <3>2
    <3>4. collector # "idle"
      <4>1. ~(count[c] < High)
        BY <1>3, <1>4, <2>1, <3>3 DEF Number
      <4> QED BY <1>0, <1>1, <2>4, <4>1 DEF InOrder, Ledger, Low
    <3>5. x \notin spared
      <4>1. Sig(f) \in Of(frames, x) /\ Sig(f).op = f.op
        BY <1>3, <1>4, <2>1, <2>4, OfMember DEF Sig
      <4> QED BY <1>1, <3>3, <4>1 DEF DeathInv, SparedAt
    <3> QED BY <3>3, <3>4, <3>5 DEF Spoken
  <2> QED BY <2>3, <2>4
<1> QED BY <1>2, <1>5, <1>6 DEF Dying

\* Rebuilding the counts frees nothing reachable.
LEMMA RebuildSpares ==
  ASSUME CoreInv, Rebuild, NEW x \in Reachable
  PROVE  kind'[x] = kind[x]
<1>0. frames \in Seq(Frame) /\ slot \in [Cell -> [Slot -> Ref]] /\ base \in [Name -> Ref]
  BY CoreParts
<1>1. PICK F : F = Reach(Image(base))
  OBVIOUS
<1>2. Found(F)
  BY <1>0, <1>1, ReachFound
<1>3. F \in SUBSET Cell /\ Image(base) \cap Cell \subseteq F
  BY <1>0, <1>2 DEF Found, Image
<1>4. ASSUME NEW p \in Places, p[1] \in F, slot[p[1]][p[2]] # NIL
      PROVE  slot[p[1]][p[2]] \in F
  <2>1. p[1] \in Cell /\ p[2] \in Slot
    BY <1>0, <1>4, PlacesStand
  <2>2. slot[p[1]][p[2]] \in Cell
    <3>1. slot[p[1]][p[2]] \in Ref
      BY <1>0, <2>1
    <3> QED BY <1>4, <3>1 DEF Ref
  <2> QED BY <1>2, <1>4, <2>1, <2>2 DEF Found
<1>5. x \in F /\ x \in Cell
  BY <1>3, <1>4 DEF Reachable
<1>6. kind' = [c \in Cell |-> IF c \in F THEN kind[c] ELSE "free"]
  BY <1>1 DEF Rebuild
<1> QED BY <1>5, <1>6

\* What is reachable is not freed, in any heap: not by purge() in the midst
\* of other deaths, not by a destructor's error, not by the collector; and an
\* object loses its class only by delete, or where the collector found it
\* garbage and a destructor has brought it back (allocate.c:310-390).
THEOREM LivingTrue ==
  ASSUME ~FailInSlots
  PROVE  Spec /\ []RoomLeft => LivingSurvive
<1>1. CoreInv /\ DeathInv /\ [Next]_vars =>
        [\A c \in Reachable :
           /\ kind'[c] # "free"
           /\ kind[c] = "object" /\ kind'[c] # "object"
              => Top.op = "delete" \/ (collector # "idle" /\ c \notin spared)]_vars
  <2>1. ASSUME CoreInv, DeathInv, Next, NEW x \in Reachable
        PROVE  Spoken(x)
    <3>1. x \in Cell /\ kind[x] # "free"
      BY <2>1, ReachableCounts
    <3>2. kind'[x] = kind[x] => Spoken(x)
      BY <3>1 DEF Spoken
    <3>3. CASE Lisp
      BY <2>1, <3>1, <3>2, <3>3, KindInLisp
    <3>4. CASE Dying
      BY <2>1, <3>4, DyingSpares
    <3>5. CASE Collecting
      <4>1. kind' = kind \/ Rebuild
        BY <3>5 DEF Collecting, Mark, ObjectsDone, CollectObject, CollectOther
      <4> QED BY <2>1, <3>2, <4>1, RebuildSpares
    <3> QED BY <2>1, <3>3, <3>4, <3>5 DEF Next
  <2> QED BY <2>1 DEF Spoken
<1>2. Spec => [][Next]_vars
  BY PTL DEF Spec
<1> QED BY <1>1, <1>2, DeathsTrue, PTL DEF LivingSurvive

\* What one step frees, its destructor and finalizers have run for.
LEMMA FateDisposed ==
  ASSUME NEW x, Known(x), LostAt(x), Fate(x), kind[x] # "free", kind'[x] = "free"
  PROVE  (x \in finalizers => x \in cut) /\ (kind[x] = "object" => x \in destroyed)
<1>1. IsFreed(x)
  <2>1. ~Stays(x) /\ ~IsWatched(x) /\ ~IsTurned(x) /\ ~IsDropped(x) /\ ~IsVisited(x) /\ ~IsFinalized(x)
    BY DEF Stays, IsWatched, IsTurned, IsDropped, IsVisited, IsFinalized, SameKind
  <2>2. ~IsMade(x) /\ ~IsBegun(x) /\ ~IsDeleted(x) /\ ~IsSwept(x) /\ ~IsAbandoned(x)
    BY DEF IsMade, IsBegun, IsDeleted, IsSwept, IsAbandoned
  <2> QED BY <2>1, <2>2 DEF Fate
<1>2. PICK t \in Of(frames, x) : t.op = "purge" /\ t.phase = "slots" /\ ~t.erred
  BY <1>1 DEF IsFreed
<1> QED BY <1>2 DEF LostAt

\* So for the flagged cells that the end of a collection frees.
LEMMA RebuildDisposes ==
  ASSUME CoreInv, DeathInv, Rebuild, NEW x \in Cell, x \in garbage
  PROVE  (x \in finalizers => x \in cut) /\ (kind[x] = "object" => x \in destroyed)
<1>1. collector = "others" /\ frames = <<>> /\ (scan..Cells) \cap garbage \cap Used \cap Others = {}
  BY DEF Rebuild, Over
<1>2. Of(frames, x) = {}
  <2>1. x \notin Dead(frames)
    BY <1>1 DEF Dead
  <2> QED BY <2>1, OfNone
<1>3. LostAt(x) /\ PassedAt(x)
  BY DEF DeathInv
<1>4. CASE count[x] = 0
  <2>1. kind[x] # "free"
    BY CoreKnown DEF Known
  <2> QED BY <1>2, <1>3, <1>4, <2>1 DEF LostAt
<1>5. CASE count[x] # 0
  <2>1. Works
    BY <1>1 DEF Works, Calm
  <2>2. kind[x] # "object" /\ (x \in flagged => ~(x < scan))
    BY <1>1, <1>2, <1>3, <1>5, <2>1 DEF PassedAt
  <2>3. x \notin flagged
    <3>1. ~(x < scan) => x \in scan..Cells
      BY ScanType DEF Cell
    <3> QED BY <1>1, <1>5, <2>2, <3>1 DEF Used, Others
  <2> QED BY <1>3, <2>2, <2>3 DEF LostAt
<1> QED BY <1>4, <1>5

\* No cell is freed, in any heap, before its destructor and finalizers have
\* run, with the two exceptions of DisposedBeforeFreed: the finalizers of an
\* object whose destructor failed, and what a destructor dropped after the
\* collector had marked (oostruct.c:152, allocate.c:359).
THEOREM DisposedTrue ==
  ASSUME ~FailInSlots
  PROVE  Spec /\ []RoomLeft => DisposedBeforeFreed
<1>1. CoreInv /\ CoreInv' /\ RoomLeft /\ DeathInv /\ [Next]_vars =>
        [\A c \in Occupied :
           kind'[c] = "free" =>
             \/ /\ c \in finalizers => c \in cut
                /\ kind[c] = "object" => c \in destroyed
             \/ collector = "others" /\ c \notin garbage]_vars
  <2>1. ASSUME CoreInv, CoreInv', RoomLeft, DeathInv, Next, NEW x \in Occupied, kind'[x] = "free"
        PROVE  \/ /\ x \in finalizers => x \in cut
                  /\ kind[x] = "object" => x \in destroyed
               \/ collector = "others" /\ x \notin garbage
    <3>1. x \in Cell /\ kind[x] # "free" /\ Known(x) /\ LostAt(x) /\ Sweeping
      BY <2>1, CoreKnown DEF Occupied, DeathInv
    <3>2. CASE Lisp
      BY <2>1, <3>1, <3>2, KindInLisp
    <3>3. CASE Dying
      <4>1. Fate(x)
        BY <2>1, <3>1, <3>3, ReturnFates, LetSlotGoFates, DiedFates DEF Dying, Settled
      <4> QED BY <2>1, <3>1, <4>1, FateDisposed
    <3>4. CASE Collecting
      <4>1. Rebuild
        BY <2>1, <3>1, <3>4 DEF Collecting, Mark, ObjectsDone, CollectObject, CollectOther
      <4>2. collector = "others"
        BY <4>1 DEF Rebuild
      <4> QED BY <2>1, <3>1, <4>1, <4>2, RebuildDisposes
    <3> QED BY <2>1, <3>2, <3>3, <3>4 DEF Next
  <2> QED BY <2>1
<1>2. Spec => [][Next]_vars
  BY PTL DEF Spec
<1> QED BY <1>1, <1>2, DeathsTrue, PTL DEF DisposedBeforeFreed
====================
