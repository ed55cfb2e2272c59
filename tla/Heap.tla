-------------------------------- MODULE Heap --------------------------------
(***************************************************************************)
(* The lisp heap: cells with reference counts (at.c, LOCK and UNLOCK),     *)
(* objects whose destructors are lisp code (oostruct.c), errors that jump  *)
(* out of them, and the collector that start_lisp runs after every error   *)
(* (garbage() in allocate.c).  The collector calls destructors itself; an  *)
(* error in one of them starts it again.                                   *)
(*                                                                         *)
(* A cell holds a cons, an object or the zombie of one.  Lisp code, of the *)
(* user or of a destructor, is any sequence of operations on the cells it  *)
(* can reach.  Finalizers are counted, not run: those of the event queue   *)
(* and of the hash tables are in EventQueue and Htable.                    *)
(***************************************************************************)
EXTENDS Naturals, Sequences, FiniteSets

CONSTANTS
  Cells,      \* cells are the numbers 1..Cells, in the order of addresses
  Slots,      \* the slots of a cell, those of an object or Car and Cdr
  Name,       \* symbols and protected objects: what keeps cells alive
  NIL,        \* the empty list
  High,       \* what garbage() adds to a count, 0x40000000
  Starts,     \* so many additions of High make a count wrap: 4
  Fallible,   \* cells whose destructors may end in an error
  FailInSlots, \* may they, when the collector lets slots of another object go
  Watched,    \* cells for which finalizers are registered
  AsObject,   \* bound: cells that hold objects
  AsCons,     \* bound: cells that hold conses
  MaxOps      \* bound: operations of one run of a destructor

ASSUME HeapAssumption ==
  /\ Cells \in Nat /\ Slots \in Nat /\ MaxOps \in Nat
  /\ High \in Nat \ {0, 1} /\ Starts \in Nat \ {0}
  /\ NIL \notin 1..Cells /\ IsFiniteSet(Name) /\ FailInSlots \in BOOLEAN

Cell == 1..Cells
Slot == 1..Slots
Ref == Cell \cup {NIL}
Width == Starts * High

VARIABLES
  kind,        \* what is in a cell
  slot,        \* what it refers to
  count,       \* its reference count
  garbage,     \* cells with C_GARBAGE
  flagged,     \* cells with C_FINALIZER
  finalizers,  \* cells with finalizers in the table
  base,        \* the global value of each symbol
  bound,       \* the values pushed on symbols, oldest first
  frames,      \* the deaths in progress on the C stack, innermost last
  collector,   \* which pass of garbage() is in progress
  scan,        \* the cell its loop is at
  exact,       \* history: no error since the counts were rebuilt
  spared,      \* history: what symbols referred to when garbage() marked
  destroyed,   \* history: objects whose destructor has run
  cut          \* history: those whose destructor an error ended

registered == <<flagged, finalizers>>
passes == <<collector, scan, spared>>
history == <<exact, destroyed, cut>>
vars == <<kind, slot, count, garbage, registered, base, bound, frames, passes, history>>

\* The death of a cell, which is in its destructor, or lets go the slots from
\* todo on.  height: the number of pushed values below those of the destructor.
Frame == [op : {"purge", "delete", "collect", "sweep"}, cell : Cell,
          phase : {"lisp", "slots"}, todo : 1..(Slots + 1), erred : BOOLEAN,
          finalize : BOOLEAN, height : Nat, ops : 0..MaxOps]

Death(op, c, phase, fin, height) ==
  [op |-> op, cell |-> c, phase |-> phase, todo |-> 1, erred |-> FALSE,
   finalize |-> fin, height |-> height, ops |-> 0]

Top == frames[Len(frames)]
Below == SubSeq(frames, 1, Len(frames) - 1)
InLisp == frames # <<>> /\ Top.phase = "lisp"
LispRuns == InLisp \/ (frames = <<>> /\ collector = "idle")

Image(f) == {f[x] : x \in DOMAIN f}
None == [s \in Slot |-> NIL]

\* What one gets at from the references in roots.
Reach(roots) ==
  {c \in Cell : \A S \in SUBSET Cell :
     /\ roots \cap Cell \subseteq S
     /\ \A d \in S : Image(slot[d]) \cap Cell \subseteq S
     => c \in S}

Plus(cnt, c, n) == [cnt EXCEPT ![c] = (@ + n) % Width]
Minus(cnt, c, n) == [cnt EXCEPT ![c] = (@ + Width - n) % Width]

Locked(cnt, c) == IF c = NIL THEN cnt ELSE Plus(cnt, c, 1)
Unlocked(cnt, c) == IF c = NIL THEN cnt ELSE Minus(cnt, c, 1)

RunFinalizers(c) ==
  /\ finalizers' = IF c \in flagged THEN finalizers \ {c} ELSE finalizers
  /\ flagged' = flagged \ {c}

-----------------------------------------------------------------------------
(* UNLOCK(c), where the counts are cnt, the deaths in progress frs and the *)
(* pushed values bnd.  When the count falls to zero, purge() runs the      *)
(* finalizers of the cell, then its destructor if it is an object.         *)

Release(c, cnt, frs, bnd) ==
  LET low == Unlocked(cnt, c)
      dies == c # NIL /\ low[c] = 0
      object == dies /\ kind[c] = "object"
  IN  /\ IF dies THEN RunFinalizers(c) ELSE UNCHANGED registered
      /\ count' = IF object THEN Plus(low, c, 2) ELSE low
      /\ garbage' = IF object THEN garbage \cup {c} ELSE garbage
      /\ bound' = IF object THEN Append(bnd, c) ELSE bnd
      /\ frames' = IF dies
                   THEN Append(frs, Death("purge", c, IF object THEN "lisp" ELSE "slots",
                                          FALSE, Len(bnd)))
                   ELSE frs

-----------------------------------------------------------------------------
(* Lisp code.                                                              *)

CanRun == LispRuns /\ (frames # <<>> => Top.ops < MaxOps)
Tick == IF frames = <<>> THEN frames ELSE [frames EXCEPT ![Len(frames)].ops = @ + 1]

\* What lisp code gets at: a zombie reads as the empty list (ReadZombie).  It
\* does not go through the bindings that a failed destructor left.
Live(S) == {c \in S \cap Cell : /\ kind[c] \in {"object", "cons"}
                                /\ \A i \in DOMAIN frames :
                                     frames[i].cell = c => frames[i].phase = "lisp"}
Variables == Live(Image(base) \cup Image(bound))
Visible == Variables \cup Live(UNION {Image(slot[c]) : c \in Variables})

\* Lisp code does not store an object that purge() is about to free, nor
\* registers finalizers for an object that dies.
Dies(ops) == {frames[i].cell : i \in {j \in DOMAIN frames : frames[j].op \in ops}}
Storable(S) == (S \ Dies({"purge"})) \cup {NIL}

Setq(n, c) ==
  /\ CanRun
  /\ c \in Storable(Visible) /\ c # base[n]
  /\ base' = [base EXCEPT ![n] = c]
  /\ Release(base[n], Locked(count, c), Tick, bound)
  /\ UNCHANGED <<kind, slot, passes, history>>

\* symbol_eval of a symbol that holds a zombie releases it and then stores the
\* empty list.  No destructor runs in between: for a zombie that goes with the
\* last reference to it, and with objects in its slots, one could, which finds
\* the freed zombie in the symbol.  For the variable of a let, see EndLet.
ReadZombie(n) ==
  LET c == base[n]
  IN  /\ c \in Cell /\ kind[c] = "zombie"
      /\ count[c] > 1 \/ \A d \in Reach(Image(slot[c])) : kind[d] # "object"
      /\ Setq(n, NIL)

\* (setq :c:s d), or rplaca and rplacd.
Setslot(c, s, d) ==
  /\ CanRun
  /\ c \in Variables
  /\ d \in Storable(Variables) /\ d # slot[c][s]
  /\ slot' = [slot EXCEPT ![c][s] = d]
  /\ Release(slot[c][s], Locked(count, d), Tick, bound)
  /\ UNCHANGED <<kind, base, passes, history>>

\* (setq n (new ...)) or (setq n (cons ...)), in a cell of the free list.
Make(n, c, k) ==
  /\ CanRun
  /\ kind[c] = "free"
  /\ c \in IF k = "object" THEN AsObject ELSE AsCons
  /\ kind' = [kind EXCEPT ![c] = k]
  /\ base' = [base EXCEPT ![n] = c]
  /\ Release(base[n], [count EXCEPT ![c] = 1], Tick, bound)
  /\ UNCHANGED <<slot, passes, history>>

\* (let ((v c)) ...) at top level: symbol_push, and later symbol_pop.
Let(c) ==
  /\ CanRun /\ frames = <<>> /\ bound = <<>>
  /\ c \in Live(Image(base))
  /\ bound' = <<c>> /\ count' = Locked(count, c)
  /\ UNCHANGED <<kind, slot, garbage, registered, base, frames, passes, history>>

\* The end of the let, or, for a zombie, the first time v is read at top level.
EndLet ==
  /\ frames = <<>> /\ collector = "idle" /\ bound # <<>>
  /\ Release(bound[1], count, frames, <<>>)
  /\ UNCHANGED <<kind, slot, base, passes, history>>

\* add_finalizer: an event is posted to c, or c becomes a weak key.
Watch(c) ==
  /\ CanRun
  /\ c \in (Visible \cap Watched) \ Dies({"purge", "delete", "collect"})
  /\ c \notin flagged
  /\ finalizers' = finalizers \cup {c} /\ flagged' = flagged \cup {c}
  /\ frames' = Tick
  /\ UNCHANGED <<kind, slot, count, garbage, base, bound, passes, history>>

\* (delete c): the call holds its argument, delete_at_special counts one and
\* the binding of this one.
Delete(c) ==
  /\ CanRun
  /\ c \in Visible /\ kind[c] = "object" /\ c \notin garbage
  /\ RunFinalizers(c)
  /\ count' = Plus(count, c, 3)
  /\ garbage' = garbage \cup {c}
  /\ bound' = Append(bound, c)
  /\ frames' = Append(Tick, Death("delete", c, "lisp", FALSE, Len(bound)))
  /\ UNCHANGED <<kind, slot, base, passes, history>>

-----------------------------------------------------------------------------
(* Deaths.                                                                 *)

\* The destructors return; what letslot and oostruct_dispose, or
\* delete_at_special, added to the count goes.  (delete c) then returns too.
Return ==
  /\ InLisp
  /\ LET c == Top.cell
         own == Minus(count, c, 2)
     IN  /\ bound' = SubSeq(bound, 1, Top.height)
         /\ destroyed' = destroyed \cup {c}
         /\ IF Top.op = "delete"
            THEN /\ kind' = [kind EXCEPT ![c] = "zombie"]
                 /\ garbage' = garbage \ {c} /\ flagged' = flagged \ {c}
                 /\ count' = Minus(own, c, 1)
                 /\ frames' = IF count'[c] # 0 THEN Below
                              ELSE Append(Below, Death("purge", c, "slots", FALSE, Top.height))
            ELSE /\ count' = own
                 /\ frames' = [frames EXCEPT ![Len(frames)].phase = "slots",
                                             ![Len(frames)].ops = 0]
                 /\ UNCHANGED <<kind, garbage, flagged>>
  /\ UNCHANGED <<slot, finalizers, base, passes, exact, cut>>

\* siglongjmp: to the innermost oostruct_dispose whose destructor runs, which
\* lets the slots go, or to start_lisp, which calls garbage().  The values
\* that the destructor pushed stay.  What (delete c) added to the count of c
\* stays too, and c is as before the call, but for C_GARBAGE.
Handlers(frs) ==
  {i \in DOMAIN frs : frs[i].phase = "lisp" /\ frs[i].op \in {"purge", "collect"}}

Unwind(frs) ==
  /\ exact' = FALSE
  /\ IF Handlers(frs) = {}
     THEN /\ frames' = <<>> /\ collector' = "due"
          /\ UNCHANGED <<count, destroyed, cut>>
     ELSE \E i \in Handlers(frs) :
            /\ \A j \in Handlers(frs) : j <= i
            /\ frames' = [SubSeq(frs, 1, i) EXCEPT ![i].phase = "slots", ![i].erred = TRUE,
                                                   ![i].ops = 0]
            /\ count' = Minus(count, frs[i].cell, 1)
            /\ destroyed' = destroyed \cup {frs[i].cell} /\ cut' = cut \cup {frs[i].cell}
            /\ UNCHANGED collector

\* error(), in lisp code that is not called while an object whose destructor
\* failed lets its slots go, nor, but for FailInSlots, while the collector lets
\* those of an object or a zombie go: the jump would leave them half released.
Fail ==
  /\ LispRuns
  /\ frames # <<>> => Top.cell \in Fallible
  /\ \A i \in DOMAIN frames :
       /\ ~frames[i].erred
       /\ frames[i].op \in {"collect", "sweep"} => FailInSlots \/ frames[i].phase = "lisp"
  /\ Unwind(frames)
  /\ UNCHANGED <<kind, slot, garbage, registered, base, bound, scan, spared>>

\* zombie_dispose lets the slots go one by one and frees them at the end;
\* purge frees a cons before it lets the Cdr go.
LetSlotGo ==
  /\ frames # <<>> /\ Top.phase = "slots" /\ Top.todo <= Slots
  /\ LET c == Top.cell
         last == kind[c] = "cons" /\ Top.todo = Slots
     IN  /\ slot' = IF last THEN [slot EXCEPT ![c] = None] ELSE slot
         /\ kind' = IF last THEN [kind EXCEPT ![c] = "free"] ELSE kind
         /\ Release(slot[c][Top.todo], count,
                    IF last THEN Below ELSE [frames EXCEPT ![Len(frames)].todo = @ + 1],
                    bound)
  /\ UNCHANGED <<base, passes, history>>

\* Mutant: the handler does not zombify the object.
RemainsKept(c) ==
  IF Top.erred THEN kind[c] ELSE IF Top.op = "purge" THEN "free" ELSE "zombie"
\* What is left of a cell that died.
Remains(c) == IF ~Top.erred /\ Top.op = "purge" THEN "free" ELSE "zombie"

\* The end of purge, of oostruct_dispose, and of one turn of the collector.
Died ==
  /\ frames # <<>> /\ Top.phase = "slots" /\ Top.todo > Slots
  /\ LET c == Top.cell
         freed == ~Top.erred /\ Top.op = "purge"
         swept == ~Top.erred /\ Top.op # "purge"
     IN  /\ slot' = [slot EXCEPT ![c] = None]
         /\ kind' = [kind EXCEPT ![c] = Remains(c)]
         /\ flagged' = flagged \ {c}
         /\ garbage' = IF swept THEN garbage \cup {c} ELSE garbage \ {c}
         /\ finalizers' = IF freed \/ (swept /\ Top.finalize) THEN finalizers \ {c}
                          ELSE finalizers
         /\ IF Top.erred
            THEN Unwind(Below)
            ELSE /\ frames' = Below
                 /\ destroyed' = IF freed THEN destroyed \ {c} ELSE destroyed
                 /\ cut' = IF freed THEN cut \ {c} ELSE cut
                 /\ UNCHANGED <<count, exact, collector>>
  /\ UNCHANGED <<base, bound, scan, spared>>

-----------------------------------------------------------------------------
(* garbage(TRUE).                                                          *)

Used == {c \in Cell : count[c] # 0}

\* Mutant: only what symbols refer to directly is kept.
FlagShallow(kept) ==
  /\ garbage' = (garbage \cup Used) \ Image(base)
  /\ spared' = kept

Flag(kept) ==
  /\ garbage' = (garbage \cup Used) \ kept
  /\ spared' = kept

\* Mutant: pushed values stay.
PoppedNone == bound

\* symbol_popall, for every symbol.
Popped == <<>>

\* Counts are raised, symbols lose their pushed values, and the cells they do
\* not get at are flagged.
Mark ==
  /\ collector = "due"
  /\ count' = [c \in Cell |-> IF c \in Used THEN (count[c] + High) % Width ELSE 0]
  /\ bound' = Popped
  /\ Flag(Reach(Image(base)))
  /\ collector' = "objects" /\ scan' = 1
  /\ UNCHANGED <<kind, slot, registered, base, frames, history>>

\* A loop of garbage() over the cells in use that are flagged and in S, by
\* address: c comes next, or there is none left.
Comes(c, S) ==
  /\ frames = <<>> /\ c >= scan
  /\ {d \in scan..c : d \in garbage \cap Used \cap S} = {c}
  /\ scan' = c + 1

Over(S) == frames = <<>> /\ (scan..Cells) \cap garbage \cap Used \cap S = {}

Objects == {c \in Cell : kind[c] = "object"}
Others == {c \in Cell : c \in flagged \/ (kind[c] = "zombie" /\ slot[c] # None)}

\* Mutant: the flags are not read.
FinalizeNever(c) == FALSE

\* Whether finalizers are to run after the destructor.
Finalize(c) == c \in flagged

\* The first pass runs the destructors of objects.
CollectObject(c) ==
  /\ collector = "objects" /\ Comes(c, Objects)
  /\ count' = Plus(count, c, 2)
  /\ bound' = Append(bound, c)
  /\ frames' = <<Death("collect", c, "lisp", Finalize(c), Len(bound))>>
  /\ UNCHANGED <<kind, slot, garbage, registered, base, collector, spared, history>>

ObjectsDone ==
  /\ collector = "objects" /\ Over(Objects)
  /\ collector' = "others" /\ scan' = 1
  /\ UNCHANGED <<kind, slot, count, garbage, registered, base, bound, frames, spared, history>>

\* The second pass: zombies let go what they still refer to, and the
\* finalizers of the other cells run.
CollectOther(c) ==
  /\ collector = "others" /\ Comes(c, Others)
  /\ IF kind[c] = "zombie"
     THEN /\ frames' = <<Death("sweep", c, "slots", Finalize(c), Len(bound))>>
          /\ UNCHANGED registered
     ELSE RunFinalizers(c) /\ UNCHANGED frames
  /\ UNCHANGED <<kind, slot, count, garbage, base, bound, collector, spared, history>>

\* How often symbols, pushed values and the places in P refer to c.
References(c, P) ==
  Cardinality({n \in Name : base[n] = c})
  + Cardinality({i \in DOMAIN bound : bound[i] = c})
  + Cardinality({p \in P : slot[p[1]][p[2]] = c})

\* Counts are rebuilt from the symbols; what has none is free.
Rebuild ==
  /\ collector = "others" /\ Over(Others)
  /\ LET found == Reach(Image(base)) IN
       /\ count' = [c \in Cell |-> References(c, found \X Slot) % Width]
       /\ kind' = [c \in Cell |-> IF c \in found THEN kind[c] ELSE "free"]
       /\ slot' = [c \in Cell |-> IF c \in found THEN slot[c] ELSE None]
       /\ flagged' = flagged \cap found /\ finalizers' = finalizers \cap found
       /\ destroyed' = destroyed \cap found /\ cut' = cut \cap found
  /\ garbage' = {} /\ spared' = {}
  /\ collector' = "idle" /\ scan' = 1 /\ exact' = TRUE
  /\ UNCHANGED <<base, bound, frames>>

-----------------------------------------------------------------------------
Init ==
  /\ kind = [c \in Cell |-> "free"]
  /\ slot = [c \in Cell |-> None]
  /\ count = [c \in Cell |-> 0]
  /\ garbage = {} /\ flagged = {} /\ finalizers = {}
  /\ base = [n \in Name |-> NIL] /\ bound = <<>> /\ frames = <<>>
  /\ collector = "idle" /\ scan = 1 /\ spared = {}
  /\ exact = TRUE /\ destroyed = {} /\ cut = {}

Lisp == \/ \E n \in Name : \/ \E c \in Ref : Setq(n, c)
                           \/ ReadZombie(n)
                           \/ \E c \in Cell, k \in {"object", "cons"} : Make(n, c, k)
        \/ \E c \in Cell : \/ \E s \in Slot, d \in Ref : Setslot(c, s, d)
                           \/ Let(c) \/ Watch(c) \/ Delete(c)
        \/ EndLet \/ Fail

Dying == Return \/ LetSlotGo \/ Died

Collecting == \/ Mark \/ ObjectsDone \/ Rebuild
              \/ \E c \in Cell : CollectObject(c) \/ CollectOther(c)

Next == Lisp \/ Dying \/ Collecting

Spec == Init /\ [][Next]_vars

-----------------------------------------------------------------------------
(* Properties.                                                             *)

\* The types; a cell that is flagged has finalizers in the table, and only
\* destructors that ran were cut short.
TypeOK ==
  /\ kind \in [Cell -> {"free", "object", "cons", "zombie"}]
  /\ slot \in [Cell -> [Slot -> Ref]]
  /\ count \in [Cell -> 0..(Width - 1)]
  /\ garbage \subseteq Cell /\ spared \subseteq Cell
  /\ finalizers \subseteq Cell /\ flagged \subseteq finalizers
  /\ base \in [Name -> Ref]
  /\ bound \in Seq(Cell)
  /\ frames \in Seq(Frame)
  /\ collector \in {"idle", "due", "objects", "others"}
  /\ scan \in 1..(Cells + 1)
  /\ exact \in BOOLEAN /\ destroyed \subseteq Cell /\ cut \subseteq destroyed

Occupied == {c \in Cell : kind[c] # "free"}

\* The places of the heap that count: not those of a cell that an error
\* abandoned, nor those that a dying cell has let go.
Places == {p \in (Used \cup {frames[i].cell : i \in DOMAIN frames}) \X Slot :
             \A i \in DOMAIN frames :
               frames[i].cell = p[1] /\ frames[i].phase = "slots" => p[2] >= frames[i].todo}

\* What the calls in progress added to the count of c.
Held(c) == Cardinality({i \in DOMAIN frames : frames[i].cell = c /\ frames[i].phase = "lisp"})
           + Cardinality({i \in DOMAIN frames : frames[i].cell = c /\ frames[i].op = "delete"})

\* Nothing that can be used refers to a freed cell.  The count of a cell is
\* the number of its references until an error leaves some behind, and never
\* less than that; the collector sets the counts right again, whatever its
\* destructors did and however often it was started (allocate.c:399-410).  It
\* holds but for the reads that ReadZombie leaves out.
CountsRight ==
  /\ Image(base) \cap Cell \subseteq Occupied
  /\ Image(bound) \subseteq Occupied
  /\ \A p \in Places : slot[p[1]][p[2]] \in Occupied \cup {NIL}
  /\ collector = "idle" =>
       \A c \in Occupied :
         /\ References(c, Places) <= count[c] /\ count[c] < High
         /\ exact => count[c] = References(c, Places) + Held(c)

\* A step of lisp code is an error, which siglongjmp takes to a handler.
Thrown == collector' = "due" \/ (frames' # <<>> /\ frames'[Len(frames')].erred)

\* A destructor that ran, or that an error ended, does not run again for the
\* same object: not in a collection that starts again (oostruct.c:123-128).  The
\* one that (delete c) began has no handler (oostruct.c:1288-1292): after an
\* error c is an object still, and the collector runs its destructor again.
DestructorsOnce ==
  [][\A i \in DOMAIN frames : frames[i].phase = "lisp" =>
       /\ frames[i].cell \notin destroyed
       /\ \/ i \in DOMAIN frames' /\ frames'[i].phase = "lisp" /\ frames'[i].cell = frames[i].cell
          \/ frames[i].cell \in destroyed'
          \/ frames[i].op = "delete" /\ Thrown]_vars

\* A hypothesis of the theorems, that the constants of a run can meet: what LOCK
\* adds to a count stays apart from what garbage() adds at each of its starts,
\* and the sum does not wrap.  In the code it wraps at the fourth start in a row
\* (allocate.c:320).
RoomLeft ==
  \A c \in Cell : /\ (count[c] % High) + 4 <= High
                  /\ collector = "due" => count[c] + High < Width

\* What a symbol refers to, itself or through other cells.  A cell that dies
\* still holds what it has let go, which does not count: the object may be in
\* a symbol again, where its destructor stored it, and what it let go freed.
Reachable ==
  {c \in Cell : \A S \in SUBSET Cell :
     /\ Image(base) \cap Cell \subseteq S
     /\ \A p \in Places : p[1] \in S /\ slot[p[1]][p[2]] # NIL => slot[p[1]][p[2]] \in S
     => c \in S}

\* What is reachable is not freed; and an object does not die unless lisp
\* deletes it, or it was garbage when the collector marked and a destructor
\* got hold of it again since.
LivingSurvive ==
  [][\A c \in Reachable :
       /\ kind'[c] # "free"
       /\ kind[c] = "object" /\ kind'[c] # "object"
          => Top.op = "delete" \/ (collector # "idle" /\ c \notin spared)]_vars

\* A cell is free only when its destructor and its finalizers have run: those
\* of an object whose destructor failed are lost (oostruct.c:152, before
\* allocate.c:359).  A cell that loses its last reference after the collector
\* marked, which only a destructor can bring about, is freed without.
DisposedBeforeFreed ==
  [][\A c \in Occupied :
       kind'[c] = "free" =>
         \/ /\ c \in finalizers => c \in cut
            /\ kind[c] = "object" => c \in destroyed
         \/ collector = "others" /\ c \notin garbage]_vars
=============================================================================
