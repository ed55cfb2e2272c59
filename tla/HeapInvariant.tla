--------------------------- MODULE HeapInvariant ----------------------------
(***************************************************************************)
(* The inductive invariant of the heap, which HeapProofs proves.           *)
(*                                                                         *)
(* CoreInv keeps books: what counts for a cell are the symbols, the pushed *)
(* values, the places that stand, and the calls in progress, and its       *)
(* count, but for what garbage() added, is not less than their sum.        *)
(* DeathInv is about one cell at a time, its death and its finalizers.     *)
(***************************************************************************)
EXTENDS Heap, SeqLemmas

-----------------------------------------------------------------------------
(* Types.                                                                  *)

Counts == [Cell -> 0..(Width - 1)]
Ops == {"purge", "delete", "collect", "sweep"}

\* Deaths nest: what an outer one finds pushed, an inner one finds pushed, and
\* it is pushed still when the inner one is over.
NestedIn(frs, pushed) ==
  \A i \in DOMAIN frs : /\ frs[i].height <= pushed
                        /\ \A j \in 1..i : frs[j].height <= frs[i].height

HeapInv ==
  /\ TypeOK
  /\ NestedIn(frames, Len(bound))
  /\ collector = "due" => frames = <<>>

-----------------------------------------------------------------------------
(* The books.                                                              *)

\* The cells that die, those whose destructors run, and those (delete ...) is at.
Dead(fr) == {fr[i].cell : i \in DOMAIN fr}
Destroying(fr) == {fr[i].cell : i \in {j \in DOMAIN fr : fr[j].phase = "lisp"}}
Deleting(fr) == {fr[i].cell : i \in {j \in DOMAIN fr : fr[j].op = "delete"}}

\* A place counts if its cell is in use or dies, and has not let it go.
LetGo(c, s, fr) == \E i \in DOMAIN fr : fr[i].cell = c /\ fr[i].phase = "slots" /\ s < fr[i].todo
Counting(c, s, cnt, fr) == (cnt[c] # 0 \/ c \in Dead(fr)) /\ ~LetGo(c, s, fr)
Standing(sl, cnt, fr) ==
  [p \in Cell \X Slot |-> IF Counting(p[1], p[2], cnt, fr) THEN sl[p[1]][p[2]] ELSE NIL]

\* What counts for x: symbols, pushed values, places and destructors that run.
In(x, S) == IF x \in S THEN 1 ELSE 0
Total(x, sl, cnt, bs, bn, fr) ==
  Times(bs, x) + Times(bn, x) + Times(Standing(sl, cnt, fr), x)
  + In(x, Destroying(fr)) + In(x, Deleting(fr))

\* The count of a cell is no less than that, and one more for o, which is to
\* be released.
Covered(sl, cnt, bs, bn, fr, o) ==
  \A x \in Cell : Total(x, sl, cnt, bs, bn, fr) + Eq(x, o) <= cnt[x] % High
Balanced(sl, cnt, bs, bn, fr, o) ==
  \A x \in Cell : Total(x, sl, cnt, bs, bn, fr) + Eq(x, o) = cnt[x]

\* A cell dies once at a time.
Apart(fr) == \A i, j \in DOMAIN fr : fr[i].cell = fr[j].cell => i = j

\* What dies how.
Shape(f, kd, gb) ==
  /\ kd[f.cell] # "free"
  /\ f.phase = "lisp" => kd[f.cell] = "object" /\ f.cell \in gb /\ f.todo = 1 /\ ~f.erred
  /\ f.erred => f.op \in {"purge", "collect"} /\ kd[f.cell] = "object"
  /\ f.op = "delete" => f.phase = "lisp"
  /\ f.op = "collect" => kd[f.cell] = "object"
  /\ f.op = "sweep" => kd[f.cell] = "zombie" /\ f.phase = "slots"
Shaped(kd, gb, fr) == \A i \in DOMAIN fr : Shape(fr[i], kd, gb)

\* The counts of cells that die.
Number(f, cnt) ==
  /\ f.op = "purge" => cnt[f.cell] = IF f.phase = "lisp" THEN 2 ELSE IF f.erred THEN 1 ELSE 0
  /\ f.op \in {"collect", "sweep"} => ~(cnt[f.cell] < High)
Numbered(cnt, fr) == \A i \in DOMAIN fr : Number(fr[i], cnt)

\* A destructor, and an object whose destructor failed, has its binding of
\* `this'.
Pending(f) == f.phase = "lisp" \/ f.erred
Binds(bn, fr) ==
  \A i \in DOMAIN fr : Pending(fr[i]) =>
    /\ fr[i].height < Len(bn) /\ bn[fr[i].height + 1] = fr[i].cell
    /\ \A j \in 1..(i - 1) : Pending(fr[j]) => fr[j].height < fr[i].height

\* Below an object whose destructor failed there is no other, and nothing of
\* the collector's that lets its slots go.
Stoppable(f) == ~f.erred /\ (f.op \in {"collect", "sweep"} => f.phase = "lisp")
ErrorsApart(fr) ==
  \A i \in DOMAIN fr : fr[i].erred => \A j \in 1..(i - 1) : Stoppable(fr[j])

\* The cells on the free list.
Unused(kd, sl, cnt, gb, fr) ==
  \A c \in Cell : kd[c] = "free" => cnt[c] = 0 /\ sl[c] = None /\ c \notin Dead(fr) /\ c \notin gb
ConsHigh(kd, cnt, gb) == \A c \in gb : kd[c] = "cons" => ~(cnt[c] < High)

\* The deaths in progress.
Stacked(kd, gb, bn, fr) ==
  /\ Apart(fr) /\ Shaped(kd, gb, fr) /\ Binds(bn, fr) /\ ErrorsApart(fr)

\* The books, with one reference more to o.
Books(kd, sl, cnt, gb, bs, bn, fr, o) ==
  /\ Stacked(kd, gb, bn, fr) /\ Numbered(cnt, fr)
  /\ Unused(kd, sl, cnt, gb, fr) /\ ConsHigh(kd, cnt, gb)
  /\ Covered(sl, cnt, bs, bn, fr, o)

-----------------------------------------------------------------------------
(* The books and the rest of the state.                                    *)

\* No destructor on the stack was ended by an error; no count is raised.
Calm(fr) == \A i \in DOMAIN fr : ~fr[i].erred
Low(cnt) == \A c \in Cell : cnt[c] < High

\* What is pushed was pushed for destructors that run, or first by (let ...).
Pushes(bn, fr) ==
  \A k \in DOMAIN bn : \/ k = 1 /\ collector = "idle"
                       \/ \E i \in DOMAIN fr : fr[i].phase = "lisp" /\ fr[i].height + 1 = k

\* What the collector may visit has a raised count or dies.
Flags(gb, cnt, fr) == \A c \in gb : cnt[c] # 0 => ~(cnt[c] < High) \/ c \in Dead(fr)

\* The books and what the passes of the collector rely on.  Without an error
\* since the counts were rebuilt, the books balance.
Ledger(kd, sl, cnt, gb, bs, bn, fr, o) ==
  /\ Books(kd, sl, cnt, gb, bs, bn, fr, o)
  /\ collector = "idle" => Low(cnt)
  /\ collector # "due" /\ Calm(fr) => Pushes(bn, fr)
  /\ collector \in {"objects", "others"} /\ Calm(fr) => Flags(gb, cnt, fr)
  /\ exact => collector = "idle" /\ Calm(fr) /\ Balanced(sl, cnt, bs, bn, fr, o)

InOrder == Ledger(kind, slot, count, garbage, base, bound, frames, NIL)

\* The inductive invariant.
CoreInv == HeapInv /\ InOrder

-----------------------------------------------------------------------------
(* The death of a cell, and what becomes of it.                            *)

\* What is known of the death of a cell x, however far it has come; none if
\* x does not die.
Sig(f) == [op |-> f.op, phase |-> f.phase, erred |-> f.erred, finalize |-> f.finalize]
Of(fr, x) == {Sig(fr[i]) : i \in {j \in DOMAIN fr : fr[j].cell = x}}

\* What CoreInv says of a cell and its death.
Known(x) ==
  /\ \A d \in Of(frames, x) :
       /\ d.op \in Ops /\ d.phase \in {"lisp", "slots"} /\ kind[x] # "free"
       /\ d.phase = "lisp" => kind[x] = "object" /\ x \in garbage /\ ~d.erred /\ count[x] # 0
       /\ d.erred => d.op \in {"purge", "collect"} /\ kind[x] = "object" /\ count[x] # 0
       /\ d.op = "delete" => d.phase = "lisp"
       /\ d.op = "collect" => kind[x] = "object" /\ count[x] # 0
       /\ d.op = "sweep" => kind[x] = "zombie" /\ d.phase = "slots" /\ count[x] # 0
       /\ d.op = "purge" /\ d.phase = "slots" /\ ~d.erred => count[x] = 0
  /\ kind[x] = "free" => count[x] = 0 /\ Of(frames, x) = {} /\ x \notin garbage
  /\ kind[x] = "cons" /\ x \in garbage => count[x] # 0

\* The collector is at work, and no destructor failed.
Works == collector \in {"objects", "others"} /\ Calm(frames)

\* An object whose destructor has run is dying, or never used again.
OnceAt(x) ==
  /\ x \in destroyed => kind[x] \in {"object", "zombie"}
  /\ x \in destroyed /\ kind[x] = "object" /\ count[x] # 0 => \E d \in Of(frames, x) : d.phase = "slots"
  /\ \A d \in Of(frames, x) : d.phase = "lisp" => x \notin destroyed

\* What was not garbage when the collector marked, it does not destroy.
SparedAt(x) ==
  /\ Works /\ x \in garbage \cap spared => \E d \in Of(frames, x) : d.op \in {"purge", "delete"}
  /\ \A d \in Of(frames, x) : d.op \in {"collect", "sweep"} => x \notin spared

\* Finalizers that will not run are those of a failed destructor; and what
\* has no death to come has had all of them.
LostAt(x) ==
  /\ x \in finalizers /\ x \notin flagged => x \in cut
  /\ \A d \in Of(frames, x) :
       /\ d.op \in {"purge", "delete"} => x \notin flagged
       /\ d.op \in {"collect", "sweep"} /\ x \in flagged => d.finalize
       /\ d.phase = "slots" /\ kind[x] = "object" => x \in destroyed
       /\ d.erred => x \in cut
       /\ d.op = "sweep" => x \in garbage
  /\ count[x] = 0 /\ Of(frames, x) = {} /\ kind[x] # "free" =>
       x \notin flagged /\ (kind[x] = "object" => x \in destroyed)

\* What a pass has been at, is done.
PassedAt(x) ==
  Works /\ x \in garbage /\ count[x] # 0 /\ Of(frames, x) = {} =>
    /\ kind[x] = "object" => collector = "objects" /\ ~(x < scan)
    /\ x \in flagged => collector = "objects" \/ ~(x < scan)

\* While the collector visits what are not objects, no lisp code runs.
Sweeping == collector = "others" => \A i \in DOMAIN frames : frames[i].op = "sweep"

\* What flagged zombies refer to is in use, by its raised count: the collector
\* that lets go their slots begins no death.
Raised ==
  Works => \A x \in Cell : x \in garbage /\ count[x] # 0 /\ kind[x] = "zombie" =>
             \A s \in Slot : slot[x][s] = NIL \/ ~(count[slot[x][s]] < High)

\* What is known, of all cells.
AllKnown == \A x \in Cell : Known(x)

\* What is invariant of the deaths.
DeathInv ==
  /\ Sweeping /\ Raised
  /\ \A x \in Cell : OnceAt(x) /\ SparedAt(x) /\ LostAt(x) /\ PassedAt(x)
=============================================================================
