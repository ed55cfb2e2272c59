------------------------------- MODULE Htable -------------------------------
(***************************************************************************)
(* Pointer-equality hash tables (htable.c) and the finalizers (allocate.c) *)
(* that make them ephemerons.                                              *)
(*                                                                         *)
(* Such a table holds no reference to its keys: htable_set registers the   *)
(* finalizer hashelt_finalize on the key, and when the key dies (purge,    *)
(* at.c) or is deleted (delete_at_special, oostruct.c) run_finalizers      *)
(* calls it to remove the association.  That drops the value, which may    *)
(* die, be a key itself, and run finalizers in the middle of the first.    *)
(* A table read from a file holds its keys until it is accessed; the       *)
(* rehash turns the references into weak ones then (keylockp).             *)
(*                                                                         *)
(* The C stack is a list of tasks, what runs next first: a function that   *)
(* calls UNLOCK leaves the rest of its work as a task behind.  Lisp code   *)
(* runs when no task is left; destructors written in lisp are not modelled *)
(* here.  A step that would touch freed memory sets `wild' and the model   *)
(* stops there.                                                            *)
(*                                                                         *)
(* Abstracted: what objects contain (ordinary objects refer to nothing),   *)
(* the address of a table structure, which is that of its object here, and *)
(* the stored hash of an association, which is hash_pointer of its key or, *)
(* in a table that awaits its rehash, not looked at.                       *)
(***************************************************************************)
EXTENDS Integers, FiniteSets, SequencesExt

CONSTANTS
  Plain,      \* addresses of ordinary objects, reused once freed
  Table,      \* addresses of hash tables, reused once freed
  NIL,        \* the null pointer
  Key,        \* the objects lisp code uses as keys
  Value,      \* the objects it stores in tables
  Mortal,     \* the objects it deletes
  File,       \* the tables in files, sequences of associations
  Hash,       \* Hash[k]: hash_pointer of an address
  Size,       \* the buckets of a new table (31 in the code)
  MaxHeld,    \* bound: references that lisp code holds to one object
  MaxTotal    \* bound: references that lisp code holds

At == Plain \cup Table
Assoc == [key : Plain, value : At]

\* What new_htable and htable_serialize make of a file: one table has each key
\* once, and gets buckets enough for its associations.
IsSavedTable(file) ==
  /\ file \in Seq([key : Plain, value : Plain])
  /\ \A i, j \in DOMAIN file : file[i].key = file[j].key => i = j
  /\ 3 * (Len(file) - 1) <= 2 * Size

ASSUME HtableAssumption ==
  /\ Plain \cap Table = {} /\ NIL \notin At /\ IsFiniteSet(At)
  /\ Key \subseteq Plain /\ Mortal \subseteq Plain /\ Value \subseteq At
  /\ \A file \in File : IsSavedTable(file)
  /\ Hash \in [Plain -> Nat]
  /\ Size \in Nat \ {0, 1} /\ MaxHeld \in Nat \ {0} /\ MaxTotal \in Nat \ {0}

VARIABLES
  status,      \* status[a]: what is at address a
  count,       \* the reference count of a
  flagged,     \* the objects whose C_FINALIZER flag is set
  held,        \* held[a]: the references lisp code holds to a
  finalizers,  \* finalizers[k]: the tables of the records (k, hashelt_finalize,
               \* table), newest first; the order of other records is not seen
  htable,      \* the table structures
  todo,        \* tasks of the C stack, the innermost first
  wild         \* freed memory was touched

objects == <<status, count, flagged, held>>
vars == <<objects, finalizers, htable, todo, wild>>

\* A task is what a C function has still to do.
Task == [do : {"unlock", "purge", "delete", "dispose", "zombify", "finalize",
               "finalized", "rehash", "recompute", "set", "get"},
         at : At \cup {NIL},      \* the object unlocked, the key...
         table : Table \cup {NIL},
         other : At \cup {NIL}]   \* the value, or the key of the element whose
                                  \* next field the pointer np points to
Do(do, a, t, o) == [do |-> do, at |-> a, table |-> t, other |-> o]
Unlock(a) == Do("unlock", a, NIL, NIL)

-----------------------------------------------------------------------------
(* A table structure.                                                      *)

Gone == [size |-> 0, nelems |-> 0, keylockp |-> FALSE, rehashp |-> FALSE,
         table |-> <<>>]
Empty(n) == [b \in 0..(n - 1) |-> <<>>]
\* new_htable with pointerhashp
NewTable == [size |-> Size, nelems |-> 0, keylockp |-> FALSE, rehashp |-> FALSE,
             table |-> Empty(Size)]

\* Pairs of numbers, by the first, then by the second.
InOrder(P) ==
  LET UpTo(p) == {q \in P : q[1] < p[1] \/ (q[1] = p[1] /\ q[2] <= p[2])}
  IN  [n \in 1..Cardinality(P) |-> CHOOSE p \in P : Cardinality(UpTo(p)) = n]

\* Bucket and index of each element, and the elements at some of these places,
\* in the order the loops over buckets and chains visit them.
Places(chains) == UNION {{b} \X DOMAIN chains[b] : b \in DOMAIN chains}
Listed(chains, P) ==
  [n \in 1..Cardinality(P) |-> chains[InOrder(P)[n][1]][InOrder(P)[n][2]]]

Elements(h) == Listed(h.table, Places(h.table))
Associations(h) == {h.table[p[1]][p[2]] : p \in Places(h.table)}
KeysOf(h) == {e.key : e \in Associations(h)}

Bucket(h, k) == Hash[k] % h.size
\* Where key k is in its bucket, as the searches find it; 0: not there.
Place(h, k) ==
  LET chain == h.table[Bucket(h, k)]
      Match(i) == chain[i].key = k
  IN  IF \E i \in DOMAIN chain : Match(i)
        THEN CHOOSE i \in DOMAIN chain : Match(i) ELSE 0

\* Mutant: the chains are those of the old size.
ResizeOldBuckets(h, newsize) ==
  LET InChain(b) == {p \in Places(h.table) : Bucket(h, h.table[p[1]][p[2]].key) = b}
  IN  [h EXCEPT !.size = newsize,
                !.table = [b \in 0..(newsize - 1) |-> Reverse(Listed(h.table, InChain(b)))]]

\* Mutant: the size is not set.
ResizeKeepsSize(h, newsize) ==
  LET InChain(b) == {p \in Places(h.table) : Hash[h.table[p[1]][p[2]].key] % newsize = b}
  IN  [h EXCEPT !.table = [b \in 0..(newsize - 1) |-> Reverse(Listed(h.table, InChain(b)))]]

\* htable_resize: every association is put in front of its new chain.
htable_resize(h, newsize) ==
  LET InChain(b) == {p \in Places(h.table) : Hash[h.table[p[1]][p[2]].key] % newsize = b}
  IN  [h EXCEPT !.size = newsize,
                !.table = [b \in 0..(newsize - 1) |-> Reverse(Listed(h.table, InChain(b)))]]

\* while (2 * size < 3 * nelems) resize: once is enough, see KeysAreFound.
Extended(h) == IF 2 * h.size < 3 * h.nelems
                 THEN htable_resize(h, 2 * h.size - 1) ELSE h

\* Element i of chain b is unlinked.
Unlinked(h, b, i) == [h EXCEPT !.table[b] = RemoveAt(@, i)]
\* The element whose next field leads to element i of chain b.
Before(h, b, i) == IF i = 1 THEN NIL ELSE h.table[b][i - 1].key

-----------------------------------------------------------------------------
(* allocate.c                                                              *)

\* Mutant: one record is enough for an object.
RegisteredOnce(records, k, t) ==
  IF k \in flagged THEN records ELSE [records EXCEPT ![k] = <<t>> \o @]

\* A registration: no duplicates while the flag is set.
Registered(records, k, t) ==
  IF k \in flagged /\ Contains(records[k], t)
    THEN records ELSE [records EXCEPT ![k] = <<t>> \o @]

add_finalizer(k, t) ==
  /\ finalizers' = Registered(finalizers, k, t)
  /\ flagged' = flagged \cup {k}

\* Mutant: the records of an object with a record of t go.
DelTargets(t) ==
  finalizers' = [k \in Plain |-> IF Contains(finalizers[k], t) THEN <<>> ELSE finalizers[k]]

Without(records, t) == Listed(<<records>>, {1} \X {i \in DOMAIN records : records[i] # t})

del_finalizers(t) == finalizers' = [k \in Plain |-> Without(finalizers[k], t)]

Init ==
  /\ status = [a \in At |-> "free"]
  /\ count = [a \in At |-> 0]
  /\ held = [a \in At |-> 0]
  /\ flagged = {}
  /\ finalizers = [k \in Plain |-> <<>>]
  /\ htable = [t \in Table |-> Gone]
  /\ todo = <<>>
  /\ wild = FALSE

\* The bounds on what lisp code holds.
CanHold(a) == /\ held[a] < MaxHeld
              /\ MapThenSumSet(LAMBDA b : held[b], At) < MaxTotal

-----------------------------------------------------------------------------
(* The tasks.  Each action takes the first one off and may put others.     *)

Running(do) == /\ ~wild
               /\ todo # <<>>
               /\ Head(todo).do = do
task == Head(todo)
Then(tasks) == todo' = tasks \o Tail(todo)

\* Freed memory is touched.
TouchesFreed(guard) ==
  /\ guard
  /\ wild' = TRUE
  /\ UNCHANGED <<objects, finalizers, htable, todo>>

UNLOCK(a, rest) ==
  /\ count' = [count EXCEPT ![a] = @ - 1]
  /\ todo' = (IF count[a] = 1 THEN <<Do("purge", a, NIL, NIL)>> ELSE <<>>) \o rest

RunUnlock ==
  /\ Running("unlock")
  /\ \/ TouchesFreed(status[task.at] = "free")
     \/ /\ status[task.at] # "free"
        /\ UNLOCK(task.at, Tail(todo))
        /\ UNCHANGED <<status, flagged, held, finalizers, htable, wild>>

\* run_finalizers, called by purge and by delete: the records are collected,
\* oldest first, and called one after the other.
RunFinalizers ==
  /\ Running("purge") \/ Running("delete")
  /\ LET a == task.at
         records == IF a \in flagged THEN Reverse(finalizers[a]) ELSE <<>>
     IN  /\ finalizers' = IF a \in flagged THEN [finalizers EXCEPT ![a] = <<>>] ELSE finalizers
         /\ flagged' = flagged \ {a}
         /\ Then([i \in DOMAIN records |-> Do("finalize", a, records[i], NIL)]
                 \o <<Do(IF task.do = "purge" THEN "dispose" ELSE "zombify", a, NIL, NIL)>>)
  /\ UNCHANGED <<status, count, held, htable, wild>>

\* hashelt_finalize: the walk meets the element and drops its value.
RunFinalize ==
  /\ Running("finalize")
  /\ LET k == task.at
         t == task.table
         h == htable[t]
         b == Bucket(h, k)
         i == Place(h, k)
     IN  \/ TouchesFreed(h = Gone)
         \/ /\ h # Gone /\ i = 0
            /\ Then(<<>>)
            /\ UNCHANGED <<objects, finalizers, htable, wild>>
         \/ /\ h # Gone /\ i # 0
            /\ htable' = [htable EXCEPT ![t] = Unlinked(h, b, i)]
            /\ Then(<<Unlock(h.table[b][i].value),
                      Do("finalized", k, t, Before(h, b, i))>>)
            /\ UNCHANGED <<objects, finalizers, wild>>

\* The value is dropped: the element is freed, and the walk goes on from np.
RunFinalized ==
  /\ Running("finalized")
  /\ LET h == htable[task.table]
         stale == h = Gone \/ (task.other # NIL /\ task.other \notin KeysOf(h))
     IN  \/ TouchesFreed(stale)
         \/ /\ ~stale
            /\ htable' = [htable EXCEPT ![task.table].nelems = @ - 1]
            /\ Then(<<Do("finalize", task.at, task.table, NIL)>>)
            /\ UNCHANGED <<objects, finalizers, wild>>

\* What htable_dispose drops, element after element.
Drops(h) ==
  LET e == Elements(h)
  IN  IF h.keylockp
        THEN [n \in 1..(2 * Len(e)) |-> Unlock(IF n % 2 = 1 THEN e[(n + 1) \div 2].key
                                                           ELSE e[n \div 2].value)]
        ELSE [n \in 1..Len(e) |-> Unlock(e[n].value)]

\* Mutant: htable_dispose leaves the finalizers of the table.
RunDisposeKeepsRecords ==
  /\ Running("dispose")
  /\ LET a == task.at
     IN  IF a \in Table /\ htable[a] # Gone
           THEN /\ htable' = [htable EXCEPT ![a] = Gone]
                /\ Then(Drops(htable[a]) \o <<Do("dispose", a, NIL, NIL)>>)
                /\ UNCHANGED status
           ELSE /\ status' = [status EXCEPT ![a] = "free"]
                /\ Then(<<>>)
                /\ UNCHANGED htable
  /\ UNCHANGED <<finalizers, count, flagged, held, wild>>

\* The end of purge: htable_dispose for a table, then the cell is freed.
RunDispose ==
  /\ Running("dispose")
  /\ LET a == task.at
     IN  IF a \in Table /\ htable[a] # Gone
           THEN /\ del_finalizers(a)
                /\ htable' = [htable EXCEPT ![a] = Gone]
                /\ Then(Drops(htable[a]) \o <<Do("dispose", a, NIL, NIL)>>)
                /\ UNCHANGED status
           ELSE /\ status' = [status EXCEPT ![a] = "free"]
                /\ Then(<<>>)
                /\ UNCHANGED <<finalizers, htable>>
  /\ UNCHANGED <<count, flagged, held, wild>>

\* The end of delete: the flags are overwritten.
RunZombify ==
  /\ Running("zombify")
  /\ status' = [status EXCEPT ![task.at] = "zombie"]
  /\ flagged' = flagged \ {task.at}
  /\ Then(<<>>)
  /\ UNCHANGED <<count, held, finalizers, htable, wild>>

\* htable_rehash begins: the references to the keys go from the elements to a
\* list, latest first, which is freed once the finalizers are registered.
RunRehash ==
  /\ Running("rehash")
  /\ LET t == task.table
         h == htable[t]
         e == Elements(h)
         rest == <<Do("recompute", NIL, t, NIL)>>
     IN  IF h.keylockp
           THEN /\ htable' = [htable EXCEPT ![t].keylockp = FALSE]
                /\ finalizers' = [k \in Plain |-> IF k \in KeysOf(h)
                                      THEN Registered(finalizers, k, t)[k] ELSE finalizers[k]]
                /\ flagged' = flagged \cup KeysOf(h)
                /\ Then([n \in 1..Len(e) |-> Unlock(Reverse(e)[n].key)] \o rest)
           ELSE /\ Then(rest)
                /\ UNCHANGED <<htable, finalizers, flagged>>
  /\ UNCHANGED <<status, count, held, wild>>

Zombie(e) == "zombie" \in {status[e.key], status[e.value]}

\* htable_rehash goes on: zombies are removed, then the elements relocated.
RunRecompute ==
  /\ Running("recompute")
  /\ LET t == task.table
         h == htable[t]
         stale == \/ task.other # NIL /\ task.other \notin KeysOf(h)
                  \/ \E e \in Associations(h) : "free" \in {status[e.key], status[e.value]}
         Dead(b, i) == Zombie(h.table[b][i])
     IN  \/ TouchesFreed(stale)
         \/ /\ ~stale
            /\ \E b \in DOMAIN h.table : \E i \in DOMAIN h.table[b] :
                 /\ Dead(b, i)
                 /\ \A c \in 0..b : \A j \in DOMAIN h.table[c] :
                      Dead(c, j) => c = b /\ i <= j
                 /\ htable' = [htable EXCEPT ![t] =
                                 [Unlinked(h, b, i) EXCEPT !.nelems = @ - 1]]
                 /\ Then(<<Unlock(h.table[b][i].key), Unlock(h.table[b][i].value),
                           Do("recompute", NIL, t, Before(h, b, i))>>)
            /\ UNCHANGED <<objects, finalizers, wild>>
         \/ /\ ~stale
            /\ ~ \E e \in Associations(h) : Zombie(e)
            /\ htable' = [htable EXCEPT ![t] =
                            [htable_resize(h, h.size) EXCEPT !.rehashp = FALSE]]
            /\ Then(<<>>)
            /\ UNCHANGED <<objects, finalizers, wild>>

-----------------------------------------------------------------------------
(* htable_set and htable_get, once the table is rehashed.                  *)

\* Mutant: the old value is not dropped.
ChangeLeaks(t, k, v, rest) ==
  /\ htable' = [htable EXCEPT ![t].table[Bucket(htable[t], k)][Place(htable[t], k)].value = v]
  /\ count' = [count EXCEPT ![v] = @ + 1]
  /\ todo' = rest
  /\ UNCHANGED <<flagged, finalizers>>

\* An element of key k gets value v; the old value is dropped.  The code drops
\* it first and stores v then; no lisp code runs in between here, and what the
\* drop starts, finalizers and the disposal of tables, reads no value of t.
Change(t, k, v, rest) ==
  LET h == htable[t]
      b == Bucket(h, k)
      i == Place(h, k)
  IN  /\ htable' = [htable EXCEPT ![t].table[b][i].value = v]
      /\ count' = [count EXCEPT ![v] = @ + 1]
      /\ todo' = <<Unlock(h.table[b][i].value)>> \o rest
      /\ UNCHANGED <<flagged, finalizers>>

\* A new element is put in front of its chain, of the extended table.
Insert(t, k, v, rest) ==
  LET h == Extended(htable[t])
      b == Bucket(h, k)
  IN  /\ htable' = [htable EXCEPT ![t] =
                     [h EXCEPT !.nelems = @ + 1,
                               !.table[b] = <<[key |-> k, value |-> v]>> \o @]]
      /\ IF h.keylockp
           THEN /\ count' = [count EXCEPT ![v] = @ + 1, ![k] = @ + 1]
                /\ UNCHANGED <<finalizers, flagged>>
           ELSE /\ count' = [count EXCEPT ![v] = @ + 1]
                /\ add_finalizer(k, t)
      /\ todo' = rest

\* The element of key k is removed; its finalizer stays registered.
Withdraw(t, k, rest) ==
  LET h == htable[t]
      b == Bucket(h, k)
      i == Place(h, k)
  IN  /\ htable' = [htable EXCEPT ![t] = [Unlinked(h, b, i) EXCEPT !.nelems = @ - 1]]
      /\ todo' = (IF h.keylockp THEN <<Unlock(k)>> ELSE <<>>)
                 \o <<Unlock(h.table[b][i].value)>> \o rest
      /\ UNCHANGED <<count, flagged, finalizers>>

htable_set(t, k, v, rest) ==
  /\ LET found == Place(htable[t], k) # 0
     IN  \/ found /\ v # NIL /\ Change(t, k, v, rest)
         \/ ~found /\ v # NIL /\ Insert(t, k, v, rest)
         \/ found /\ v = NIL /\ Withdraw(t, k, rest)
         \/ /\ ~found /\ v = NIL
            /\ todo' = rest
            /\ UNCHANGED <<count, flagged, finalizers, htable>>
  /\ UNCHANGED <<status, held, wild>>

\* The value is locked and given to lisp code, which keeps it or not.
htable_get(t, k, rest) ==
  /\ LET h == htable[t]
         i == Place(h, k)
         v == h.table[Bucket(h, k)][i].value
     IN  \/ /\ i # 0 /\ CanHold(v)
            /\ held' = [held EXCEPT ![v] = @ + 1]
            /\ count' = [count EXCEPT ![v] = @ + 1]
         \/ UNCHANGED <<held, count>>
  /\ todo' = rest
  /\ UNCHANGED <<status, flagged, finalizers, htable, wild>>

RunSet == Running("set") /\ htable_set(task.table, task.at, task.other, Tail(todo))
RunGet == Running("get") /\ htable_get(task.table, task.at, Tail(todo))

-----------------------------------------------------------------------------
(* Lisp code.                                                              *)

InLisp == ~wild /\ todo = <<>>
Has(a) == held[a] > 0
IsTable(t) == Has(t) /\ htable[t] # Gone

\* A new object: a free cell with cleared flags and one reference.
Allocated(a) ==
  /\ status[a] = "free"
  /\ status' = [status EXCEPT ![a] = "live"]
  /\ count' = [count EXCEPT ![a] = 1]
  /\ held' = [held EXCEPT ![a] = 1]
  /\ flagged' = flagged \ {a}

New(a) ==
  /\ InLisp /\ CanHold(a) /\ Allocated(a)
  /\ htable' = IF a \in Table THEN [htable EXCEPT ![a] = NewTable] ELSE htable
  /\ UNCHANGED <<finalizers, todo, wild>>

\* bread of a table: every association is put in front of chain 0, with a
\* reference to its key, and the rehash is left to the first access.
Bread(t, file) ==
  LET loaded == {e.key : e \in ToSet(file)} \cup {e.value : e \in ToSet(file)}
      Refs(a) == Cardinality({i \in DOMAIN file : file[i].key = a})
                 + Cardinality({i \in DOMAIN file : file[i].value = a})
  IN  /\ InLisp /\ CanHold(t)
      /\ \A a \in loaded \cup {t} : status[a] = "free"
      /\ status' = [a \in At |-> IF a \in loaded \cup {t} THEN "live" ELSE status[a]]
      /\ count' = [a \in At |-> IF a = t THEN 1
                               ELSE IF a \in loaded THEN Refs(a) ELSE count[a]]
      /\ held' = [held EXCEPT ![t] = 1]
      /\ flagged' = flagged \ (loaded \cup {t})
      /\ htable' = [htable EXCEPT ![t] =
                     [NewTable EXCEPT !.keylockp = TRUE, !.rehashp = TRUE,
                                      !.nelems = Len(file),
                                      !.table[0] = Reverse(file)]]
      /\ UNCHANGED <<finalizers, todo, wild>>

\* Lisp code loses a reference.
Drop(a) ==
  /\ InLisp /\ Has(a)
  /\ held' = [held EXCEPT ![a] = @ - 1]
  /\ UNLOCK(a, <<>>)
  /\ UNCHANGED <<status, flagged, finalizers, htable, wild>>

\* (delete a)
Delete(a) ==
  /\ InLisp /\ Has(a) /\ status[a] = "live"
  /\ todo' = <<Do("delete", a, NIL, NIL)>>
  /\ UNCHANGED <<objects, finalizers, htable, wild>>

\* An access rehashes the table first if that is due.
Rehashing(t, access) ==
  /\ htable[t].rehashp
  /\ todo' = <<Do("rehash", NIL, t, NIL), access>>
  /\ UNCHANGED <<objects, finalizers, htable, wild>>

\* (t k value): nothing for a zombie key; a zombie value is the empty list.
Set(t, k, value) ==
  /\ InLisp /\ IsTable(t) /\ Has(k) /\ (value # NIL => Has(value))
  /\ status[k] # "zombie"
  /\ LET v == IF value # NIL /\ status[value] = "zombie" THEN NIL ELSE value
     IN  \/ Rehashing(t, Do("set", k, t, v))
         \/ ~htable[t].rehashp /\ htable_set(t, k, v, <<>>)

\* (t k)
Get(t, k) ==
  /\ InLisp /\ IsTable(t) /\ Has(k)
  /\ \/ Rehashing(t, Do("get", k, t, NIL))
     \/ ~htable[t].rehashp /\ htable_get(t, k, <<>>)

\* (htable-keys t), of which lisp code keeps one.
Keys(t, k) ==
  /\ InLisp /\ IsTable(t) /\ k \in KeysOf(htable[t])
  /\ CanHold(k)
  /\ held' = [held EXCEPT ![k] = @ + 1]
  /\ count' = [count EXCEPT ![k] = @ + 1]
  /\ UNCHANGED <<status, flagged, finalizers, htable, todo, wild>>

\* (htable-rehash t)
Rehash(t) ==
  /\ InLisp /\ IsTable(t)
  /\ htable' = [htable EXCEPT ![t].rehashp = TRUE]
  /\ UNCHANGED <<objects, finalizers, todo, wild>>

Run == RunUnlock \/ RunFinalizers \/ RunFinalize \/ RunFinalized \/ RunDispose
       \/ RunZombify \/ RunRehash \/ RunRecompute \/ RunSet \/ RunGet

Lisp ==
  \/ \E a \in At : New(a) \/ Drop(a)
  \/ \E a \in Mortal : Delete(a)
  \/ \E t \in Table :
       \/ Rehash(t)
       \/ \E f \in File : Bread(t, f)
       \/ \E k \in Key : Get(t, k) \/ Keys(t, k) \/ (\E v \in Value \cup {NIL} : Set(t, k, v))

Next == Run \/ Lisp

Spec == Init /\ [][Next]_vars

-----------------------------------------------------------------------------
(* Properties.                                                             *)

TypeOK ==
  /\ status \in [At -> {"free", "live", "zombie"}]
  /\ count \in [At -> Nat] /\ held \in [At -> 0..MaxHeld]
  /\ flagged \subseteq At
  /\ finalizers \in [Plain -> Seq(Table)]
  /\ todo \in Seq(Task)
  /\ wild \in BOOLEAN
  /\ \A t \in Table : /\ htable[t].size \in Nat /\ htable[t].nelems \in Nat
                      /\ htable[t].keylockp \in BOOLEAN
                      /\ htable[t].rehashp \in BOOLEAN
                      /\ htable[t].table \in [0..(htable[t].size - 1) -> Seq(Assoc)]

\* How often a is referred to: by lisp code, by C functions and by the tables.
References(a) ==
  held[a]
  + Cardinality({i \in DOMAIN todo : todo[i] = Unlock(a)})
  + Cardinality({r \in Table \X Plain : [key |-> r[2], value |-> a] \in Associations(htable[r[1]])})
  + Cardinality({t \in Table : htable[t].keylockp /\ a \in KeysOf(htable[t])})

Doomed(a) == \E i \in DOMAIN todo : todo[i].at = a /\ todo[i].do \in {"purge", "dispose"}

\* Every reference is counted, once, and an object goes with the last one, not
\* before and not later: though keys change from locked to weak in between, and
\* though tables, keys and values take each other down.
FreedWithLastReference ==
  \A a \in At :
    /\ count[a] = References(a)
    /\ (count[a] = 0) <=> (status[a] = "free" \/ Doomed(a))

\* htable.hlp: "The associations of a pointer-equality hash table are
\* automatically removed when the key object is deallocated".
AssociationsRemoved ==
  \A t \in Table : \A k \in KeysOf(htable[t]) : status[k] # "free"

\* The key of an association the table does not lock has a record and its
\* flag is set, or run_finalizers is about to remove the association: whatever
\* tables were disposed of, whatever else was registered on the key.
WeakKeysRegistered ==
  \A t \in Table : ~htable[t].keylockp =>
    \A k \in KeysOf(htable[t]) :
      \/ k \in flagged /\ Contains(finalizers[k], t)
      \/ \E i \in DOMAIN todo : todo[i] = Do("finalize", k, t, NIL)

Removing(t) == Cardinality({i \in DOMAIN todo : todo[i].do = "finalized" /\ todo[i].table = t})

\* htable.hlp, htable-keys: "It is guaranteed that querying these keys will
\* return a non nil result": each key is found in its bucket, and once. nelems
\* counts them, and those being removed, and the table is extended in time though
\* one resize at most is done per insertion.
KeysAreFound ==
  \A t \in Table :
    /\ ~htable[t].rehashp => \A k \in KeysOf(htable[t]) : Place(htable[t], k) # 0
    /\ Cardinality(KeysOf(htable[t])) = Len(Elements(htable[t]))
    /\ htable[t] # Gone =>
         /\ htable[t].nelems = Len(Elements(htable[t])) + Removing(t)
         /\ 3 * (htable[t].nelems - 1) <= 2 * htable[t].size

\* No function goes on from a link, or with a table, that is freed.
NothingWild == ~wild
=============================================================================
