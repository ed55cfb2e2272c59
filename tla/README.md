# A verification of the Lush runtime

Lush is a Lisp interpreter in C (`src/src`, headers in `src/include`) with a
compiler and libraries written in Lisp (`src/lsh`). It runs on one thread. What
makes it hard is not parallelism but re-entrance: reference counts that reach zero
run finalizers and destructors in the middle of C functions, the event loop calls
Lisp that calls the event loop, and signals interrupt all of it. The modules here
model that core: who holds what, what may run inside what, and what must
eventually be served.

## 1. Inventory

| Component (code) | State | Operations | Hard behaviour | What makes it correct |
|---|---|---|---|---|
| Event queue (`event.c` 40-215, 852-931) | list `head`..`tail` of (handler, event) cells; handlers are raw pointers | `sendevent`, `testevent`, `checkevent`, `event_peek`, `ev_finalize` | a removal frees what the event refers to, and may walk the list again | FIFO per handler; no event of a dead handler; `tail` is last |
| Finalizers, object death (`allocate.c` 95-190, `at.c` 50-90, `oostruct.c` 1250-1331) | table of (target, function, argument), flag `C_FINALIZER`, counts | `add_finalizer`, `del_finalizers`, `run_finalizers`, `purge`, `delete` | purge inside purge; destructors send and allocate; addresses are reused | each death calls each of its finalizers, once, while the memory is good |
| Timers (`event.c` 223-426, `graphenv.lsh` 313-343) | sorted list of timer structures; slot `timerid` of `Timer` objects | `create-timer`, `create-timer-absolute`, `kill-timer`, `timer_fire`, `Timer set` | late programs, dates of two forms, addresses as identities | order, never early, one event per timer, missed periods skipped |
| Event loop and console (`event.c` 447-708, `unix.c` 340-970) | event sources and their descriptors, `async_block`, `async_attempt`, `toggle`, the sources' own buffers | `event_wait`, `process_pending_events`, `os_wait`, polls, blocking and unblocking, `check_unix`, `TOPLEVEL_MACHINE` | signals, lost wake-ups, starvation, blocking reads | everything is served; blocks balance; no sleep on work in hand |
| Hash tables (`htable.c`) | chains of (key, value), `keylockp`, `rehashp`, `nelems`; weak keys | set, get, keys, rehash, resize, load, dispose, `hashelt_finalize` | the death of a value changes the table under the finalizer | ephemerons: an association leaves with its key, counts are exact, keys are found |
| Heap, garbage collector (`at.c`, `oostruct.c` 115-155, `allocate.c` 240-440) | counts, `C_GARBAGE` and `C_FINALIZER`, zombies, deaths in progress, pushed values | `LOCK`, `UNLOCK`, `purge`, `delete`, `garbage()` after errors | destructors that store, make and delete; errors in them, also while the collector runs, which then starts again | nothing in use is freed; counts are right again after a collection; cells are freed after their destructors and finalizers |
| Objects, classes, methods (`oostruct.c`) | slots, method lists, method tables (`hashok`), calls in progress | `makeclass`, `putmethod`, `check==>`, send, delete | redefinition and deletion while cached, or while called | a send finds the method of the nearest class; what runs is not freed; each destructor runs once |
| Symbols (`symbol.c`) | value stacks, locks, zombies in variables | `symbol_push`, `symbol_pop`, set, bind | errors between push and pop | bindings are restored in order |
| Toplevel, contexts, errors (`toplevel.c`, `eval.c`, `function.c`) | context stack, error flags, recursion table, break flag | `error`, `user_break`, `context_push/pop`, `recur_push` | non local exits, ctrl-C at any time | the outer state is what it was |
| Modules (`module.c`, `dldbfd.c`) | chain of modules, ranks and open bundles, flags, definitions | `module-load`, `module-unload`, `check_exec`, hooks | one file opens and closes others; hooks run half way; unloading what is in use | no accessible pointer into unloaded code; executable are those whose symbols are found |
| Storages, indexes (`storage.c`, `index.c`) | memory of four kinds, bounds | allocation, mapping, resizing, element access | element store drops the old value first | accesses are in bounds; life of memory |
| Compiled code interface (`lisp_c.c`, `dh.c`) | AVL tree from C addresses to objects | build, update, call, gc of C objects | both sides free | one owner per object |
| Serialization (`binary.c`, `dump.c`, `io.c`) | marks, relocation table | `bwrite`, `bread` | sharing, cycles | read o write keeps the graph |
| Files, numeric and string libraries, graphics, Lisp libraries and compiler, packages | | | | not modelled, see section 8 |

Interactions. `purge` (every `UNLOCK`) calls finalizers, hence `ev_finalize`,
`ti_finalize` and `hashelt_finalize`, hence `UNLOCK` again. `timer_fire` posts to the
event queue; `event_wait` and `process_pending_events` call it and the sources;
the console loop calls both; `eval` calls `check_unix`, which calls the sources
in the middle of Lisp code. The `hazards` of `PROJECT.json` name the lines where this
bites.

## 2. Modules

| Module | Models | State and actions |
|---|---|---|
| `WeakQueue` | abstract: what an event queue with weak handlers promises | `alive`, `pending`; Born, Post, Take, Die |
| `EventQueue` | the queue, its finalizer, purge and delete around it | `queue`, `tail`, `elt` are the cells; `stack` the purges and deletions in progress; one action per Lisp function and per iteration of `ev_finalize`; `Reuse` is a destructor that makes other data of the freed cell a walk stands on (`dirty`), `Stray` the walk that reads that data (`astray`) |
| `EvTime` | `evtime_t` and its arithmetic | operators; `Second` stands for 1000 |
| `Timers` | timer list, `timer_fire` iteration by iteration, class `Timer` | uses `WeakQueue`'s actions for the queue; `snap` is the date `timer_fire` read, `ti` the timer it moves on |
| `EventLoop` | `process_pending_events`, `event_wait`, `os_wait`, console, asynchronous polls | `pc` is the place in the C code; events and timers are counts; one action per step between two calls that can be interrupted |
| `Htable` | hash tables with pointer equality and the finalizers of their keys | `htable` the structures, `finalizers` the records per object, `count` the real reference counts, `todo` the rest of the C functions that called `UNLOCK` |
| `Inheritance` | abstract: a selector is answered by the nearest class that defines it, now | `lineage`, `methods`, `answer`; no cache |
| `Methods` | classes, method lists and tables, sends, deletions of objects and of functions | `hashtable` and `hashok` are the caches; `stack` the sends and `send_delete`s in progress, with the pointer `hx` they keep into a table; `DeleteFunction` frees the body of calls that run (`torn`); one action per primitive, or per part of it between two runs of Lisp code |
| `Modules` | `module.c` with the loader based on `dlopen` | `executable`, `loadrank`, `dlmodule` are the bundles; `named` (those with an `initname`), `EXEC`, `INIT`, `defs`, `info` the modules; `Underscore` says how the linker names C symbols; `todo` what the primitive in progress has yet to do |
| `Heap` | reference counts, deaths of objects and conses, errors that jump out of destructors, `garbage(TRUE)` | `frames` is the C stack of deaths, with the `oostruct_dispose`s that catch errors; `collector`, `scan` are the place in `garbage()`; one action per Lisp operation (the read of a variable that holds a zombie is one: `ReadZombie`), slot let go and turn of a loop |
| `HeapInvariant` | the inductive invariant of `Heap` | definitions only: `CoreInv` and `DeathInv` |
| `Selection`, `SeqLemmas` | sub-sequences picked by an index set; lemmas on sequences and on how often they have a value | |
| `MCEventQueue`, `MCTimers`, `MCHtable`, `MCMethods`, `MCModules` | values of constants and symmetry for TLC | |
| `EventQueueProofs`, `TimersProofs`, `EventLoopProofs`, `MethodsProofs`, `ModulesProofs`, `HtableProofs`, `HeapProofs` | theorems | |

Composition: `Timers` uses `WeakQueue` through INSTANCE; `EventQueue` is shown to
implement `WeakQueue` (by TLC, and by proof in `EventQueueProofs`), which justifies
that use; `Methods` is shown to implement `Inheritance`. `EventLoop` abstracts queue and timers to counts: what it checks
(who is served, what blocks) does not depend on the contents of an event.
`EventQueue` and `Htable` are two views of the same finalizer table: each has the
records of its own function, and `run_finalizers` calls them apart. `Methods` has the
inside of the step "the destructors run" of `EventQueue`. `Heap` has what both
leave out: destructors as arbitrary Lisp code, their errors, and the collector; it
counts finalizers where the others run theirs.

The definitions marked "Mutant" are plausible bugs of the definition that follows
them; no specification uses them. They show that each property can fail.

### Abstractions common to the modules

- Objects are addresses, reused after they are freed: identity errors show.
- Where C would touch freed memory the model does not go on as if nothing
  happened: `EventQueue` models what the memory holds (`ev_remove` clears the Cdr of
  a cell it unlinks, and `purge` leaves that word alone) until a destructor makes other data
  of the cell a walk stands on; a walk that then reads that data sets `astray`, and
  nothing more is said of such a run. It records a handler that
  was handed out dead (`dangling`), `Htable` stops (`wild`), `Methods` reads any value
  from a table that was freed (`stale`) and lets a call whose body was freed do nothing but
  return (`torn`), `Modules` marks the pointer (`"dangling"`).
- `malloc` does not fail. Event texts, callbacks, printing are left out.
- `EventLoop` models one source, with its descriptor in the set, and the trigger in
  the signal mode. In the alarm mode the signal comes again every half second or
  second, which heals what `forgot` records.
- `Methods` has one table entry per selector: `update_hashtable` enlarges the table
  until no two selectors it stores collide, so that an entry is found or is NIL.
- `Modules` takes the classes a module defines together with its primitives (`defs`,
  `info`), and their objects as present or not (`instances`).

## 3. Runs

| Run | Module, cfg | Properties | Shows |
|---|---|---|---|
| `queue_nested` | MCEventQueue, EventQueueNested | TypeOK, TailIsLast, ReferencesAreAlive, LivingLoseNothing, CallsReturn | Until a walk goes on in a cell that was reused: the list stays well formed, a living object loses no event, what Lisp holds is alive and purges come to an end, though events refer to objects, also to one with a destructor that posts, maybe on the cell an outer walk stands on, and walks nest |
| `queue_plain` | EventQueue, EventQueuePlain | WeakPointersSafe, PeekGivesHandler, ImplementsWeakQueue | If events refer to no object and no destructor posts, the queue implements WeakQueue and never shows a dead handler |
| `queue_peek` | EventQueue, EventQueuePeek | PeekGivesHandler (violated) | finding 1 |
| `timers` | MCTimers, Timers | TypeOK, TimerHandlersAlive, OneEventPerTimer, NeverEarly, SkipsMissedPeriods, SleepsToNextTimer, OthersKeepTheirTimers | the list and `timer_fire`: dates, living handlers; with periodic timers nobody disturbs another's timer |
| `timers_reuse` | MCTimers, TimersReuse | OthersKeepTheirTimers (violated) | finding 2 |
| `loop` | EventLoop, Loop | TypeOK, BlockedWhileWaiting, SleepsEmptyHanded, ReadsWhatIsThere, ArrivalIsNoticed, EveryoneIsServed | the loop serves everything: the console, due timers, events |
| `loop_interrupted` | EventLoop, LoopInterrupted | AllEventsDispatched (violated) | finding 3 |
| `htable` | MCHtable, Htable | TypeOK, FreedWithLastReference, AssociationsRemoved, WeakKeysRegistered, KeysAreFound, NothingWild | ephemerons over two tables, with the restrictions below |
| `htable_file` | MCHtable, HtableFile | AssociationsRemoved (violated) | finding 4 |
| `methods` | MCMethods, Methods | TypeOK, CacheCoherent, CalledAreAlive, AllDestructorsRun, ImplementsInheritance | every lookup finds the nearest living definition whatever was defined, removed or deleted; no running method is freed, nor its body unless a running function is deleted; destructors run once each |
| `modules` | MCModules, Modules | OpenBundlesLinked, AccessibleIsLinked, ExecutableIsFound | files come and go in any order; open bundles find all their symbols at every moment, and between calls the flags and pointers are right, with symbols that have no underscore (ELF): `ExecutableIsFound` is about the modules whose init function was found when they were loaded |
| `heap` | Heap, Heap | CountsRight, DestructorsOnce, LivingSurvive, DisposedBeforeFreed | destructors that do anything but what section 6 excludes, errors almost anywhere, collections started again: nothing in use is freed, counts are right after each collection, no destructor that ended at a handler runs twice, destructors and finalizers come before the free list |

`TypeOK` of `Modules` and `Heap` is not among the checked properties: it is proved, for all
constants and without hypotheses.

Bounds, and why they are enough.

- `EventQueue`: three objects and three cells; two of the objects may be referred to by
  events, and one of these has a destructor, so that it can die, post and reuse cells in the
  middle of the walk of another (two objects without destructors in the other runs).
  A nested walk needs two objects, the outer one with events on both sides of the
  inner one's: three cells. The depth of nesting is bounded by the objects. Cells are
  symmetric in `queue_nested`; the properties are invariants and action properties.
- `Timers`: a second of two milliseconds, so that every carry and borrow and both
  forms of a date (0 s + 2 ms, 1 s + 0 ms) occur within the `Horizon` of 3 ms;
  `Shortest` and `Day` are scaled likewise. Two handlers and three blocks give an
  address reused by the other handler.
- `EventLoop`: two timers, one periodic, and a `Budget` of two for posts, arrivals,
  errors and explicit waits together; `waitevent` is called at the top level only, so that
  the waits of handlers, inside waits, do not occur; typing and expiring timers are not bounded.
  `queue` stays bounded because due timers are. Liveness is
  checked although timers of delay zero are set again for ever.
- `Htable`: tables of 2 buckets instead of 31, so that two of three keys share a chain,
  the third insertion resizes, and resizing separates them. One file with one
  association. Lisp code holds at most one
  reference to an object (`MaxHeld`) and four together (`MaxTotal`). Tables are symmetric. Three restrictions keep
  the run `htable` out of what section 6 describes: the only value that is a key
  shares a chain with one other key and nothing else does; tables are not values;
  deleted objects are not values. The first also is why the removal of a deleted
  value's element by a rehash never happens in `htable`: with a deleted value
  the counts go wrong at once.
- `Methods`: the root and one class below it, two functions, the selectors `-destructor`
  and `-unknown`, calls that nest two deep. `MCDefinable` lists the methods there may
  be: a destructor inherited and one overridden, and an `-unknown`. One function is
  deleted (`Mortal`). No class is below the one `bread` replaces (`Final`): section 6
  says what happens otherwise. Longer chains of classes are the theorems' business.
- `Modules`: three files in a chain of references (c needs a, a needs b), a library c
  needs, and a file that defines the same symbol as b and makes a cycle with a.
  That is enough for a load that opens two bundles or three, an unload that closes as
  many, a duplicate, a cycle, bundles whose init function is found when they are loaded and bundles
  whose is not, a library that makes a bundle executable, and a failed load
  after which the ranks differ from those the bundles were opened with. Hooks may end
  in an error when told of an unload or an initialization.
- `Heap`: three cells with one slot each: one holds an object or a cons, one objects,
  one conses, so that an object can refer to an object and to a cons, a cons to an object,
  and a cycle of two can be garbage. One symbol. A destructor does at most three operations
  (`MaxOps`), each of which may start another death (with fewer, what `FailInSlots` excludes does no harm); both objects' destructors may fail, so that
  the collector starts up to three times in a row. That is 1.4 million states. `High` stands for 0x40000000: it is larger
  than any number of references there can be. `Starts` is 4 as in the code (32 bit counts), and with two
  objects that may fail there are at most three starts in a row: the wrap of section 6 is out of reach.
  That counts have room in the bounds of the run (`RoomLeft`) is not among its properties: it is a hypothesis of theorems.

Fairness. Lush is one thread: a C function that was entered is carried on.
`EventLoop` assumes this, and that toplevel forms and handlers return and that the
operating system lets the thread run and `select` return when a descriptor is ready or
the time is over (`WF_vars(Loop ...)`). Nothing is assumed of the world: nobody has to type, send
or let a date pass, and no signal has to come or stay away; a signal that made `select` fail is
recorded in `interrupted`, and the properties it breaks say "or interrupted".
`EventQueue` needs no fairness: that its calls return is stated as a variant
(`CallsReturn`), which every step must decrease. Deadlock is checked in every run.

## 4. Proofs

Everything below is checked by tlapm for every value of the constants that meets the
named assumptions (`SentinelAssumption`, `TimersAssumption`, `SecondAssumption`,
`LoopAssumption`, `MethodsAssumption`, `ModulesAssumption`, `HtableAssumption`,
`HeapAssumption`), which the runs evaluate.

- `EventQueueProofs`. `ShapeInv` is the type invariant and `TailIsLast`; it is
  inductive, nested walks and destructors included, until a walk goes astray. The point is that a walk may
  stand on a cell that is not in the list any more: `Cdr` gives NIL there, unless a destructor
  reused the cell, so `Unlink` is
  only ever applied to a cell and its true predecessor (`CdrProperties`,
  `UnlinkShape`), and `LinkShape` appends at the true end. Theorems `TypeCorrect`,
  `TailCorrect`. If no object that events refer to has a destructor
  (`ApartAssumption`) none runs inside a walk, so no cell a walk stands on is reused and no walk ever goes
  astray: `OnListCorrect`. Then the theorems hold without that reserve. `RefInv` adds what keeps an object from being freed: an object on the
  stack of deaths is there once (`OnStack`), and whatever the queue or Lisp refers to is
  neither free nor dying except by an explicit `delete` (`KeptInv`):
  `ReferencesCorrect`. `CallsProgress` shows the variant of `CallsReturn` for each step
  of a walk: `ReturnCorrect`. Under `PlainAssumption` (no event refers to an object, no
  destructor posts) `PlainInv` adds that at most one call is in progress and that the
  part of the list the walk has passed holds no event of its object:
  `WeakPointersCorrect`, and with it `PeekCorrect`: nothing dead is handed out. The last two
  theorems are about what is in the queue. `Events` is its contents as a sequence;
  linking a cell appends to it and unlinking one removes one place of it (`LinkEvents`,
  `UnlinkEvents`). What is queued for a set of handlers is the selection of their places
  (`Selected`, which has one value because positions can be taken in order in one way,
  `PicksAgree`), so an event posted is at its end, one unlinked for another handler leaves
  it alone, and the first event for a handler is before its others (`EventsToPosted`,
  `EventsToOther`, `EventsToTaken`). With the objects a walk removes events of dying
  (`OnStack`) this gives `LosesNothingCorrect`: whatever nests, a living object loses no event
  until a walk goes astray.
  Under `PlainAssumption` each step is one of `WeakQueue` or none (`WeakStep`): a death
  takes an object's events out of `Pending` where the walk for it begins (`EventsToWithout`)
  and the walk is not seen, since it unlinks only events of the dying:
  `WeakQueueCorrect`, the refinement for all sets of handlers and cells.
- `TimersProofs`. `TimersInv` adds to the checked invariants that the timer
  `timer_fire` holds is in no list, that the date it read is not in the future, and
  that no timer posted while the queue holds its event can be posted again
  (`PostedOnce`): the queue was empty at the start, and a timer posted since is
  either freed or has a date after `snap`. The arithmetic of `EvTime` is related to
  `Instant` first (comparison, addition and the carry agree with integers though
  a date may have 1000 ms). Theorems `TypeCorrect`, `OrderCorrect`, `HandlersCorrect`,
  `OneEventCorrect`, `NeverEarlyCorrect`. Three action properties need more. A period is
  never shorter than `Shortest`, and the timer `timer_fire` moves on has a date less than
  one period after `snap` (`Periods`): `SkipsCorrect`. The list is sorted, so its head gives the
  time to sleep: `SleepCorrect`. A `Timer`'s slot, when it names an armed timer, names one of
  its own (`OwnTimers`): `OthersCorrect`, which assumes that no one shot timer is set
  (0 is not in `Interval`); with one, finding 2 refutes it.
- `EventLoopProofs`. `LoopInv` adds `NothingBuffered` (after the poll of `event_wait`
  no source holds data back), `InputPromised` (what `select` said of the console
  stays true until it is read, through the events and timers served in between) and
  `Requested` (a request for a poll stands from the arrival to the poll). Theorems
  `LoopInvariant`, `TypeCorrect`, `BlockingCorrect`, `SleepCorrect`, `ReadCorrect`,
  `ArrivalCorrect`.
- `MethodsProofs`. `CacheCoherent` is not inductive: it needs that a class whose table is
  up to date exists, that a class heads its own lineage and only classes in use are in one
  (so that a new class is below no table that is up to date), and that a call's `hx` is in
  the table it was found in or that table was freed since (`StackOK`). `MethodsInv` is these
  together. `IsNearest` says what the CHOOSE of `Nearest` finds, and that it does not change
  when zombies are swept out of lists. Theorems `InvariantHolds`, `TypeCorrect`, `CacheCorrect`,
  `CalledCorrect`, `RefinementCorrect`. `CalledCorrect` says of a body that runs that it is there,
  or that a running function was deleted: its call is `torn`, and can only return. Then the destructors. A class that inherits one finds it too,
  and so do those above up to its definition, so after n classes the destructors called
  are those defined below and the next one up: the selection of the positions `Reached`.
  `DestroyInv` says this of every deletion in progress that nothing disturbed, whatever runs
  inside its destructors, with what it rests on: the classes above the one at place i of a lineage
  are the rest of that lineage (`LineagesNest`). Where the deletion stops all were reached, because
  no class from there on has a destructor: `DestructorsCorrect`. All the theorems assume
  `CompiledAreFinal`: no class is made below one that `bread` replaces. Without it TLC refutes
  the coherence of the tables (section 6).

- `ModulesProofs`. First what `nsbundle_exec_all_but` computes: after as many rounds as there are
  files nothing changes any more (`RoundsSuffice`), so that a ranked bundle finds its symbols at
  lower ranks (`Sound`), one of them at the rank just below (`Tight`), and every bundle that finds
  its symbols is ranked (`Complete`). Then what can be left to do at any time (`Plan`): which step
  follows which, and for which files. `OpenBundlesLinked` is not inductive, and neither is "the
  bundles a bundle uses were opened with lower ranks": ranks are computed anew while bundles stay
  open with old ones, and a bundle must not be closed before one that uses it. What holds is that
  a bundle is open with a rank as low as any numbering of the open bundles in the
  order of their references allows (`LowestRanks`), whatever came and went since, so that
  later ranks are never lower (`RanksGoUp`). `Inv` is this, the types, the plan and the ranks
  while an update runs: `InvariantHolds`, `TypeCorrect`, `OpenLinkedCorrect`, without
  hypotheses. `AccessInv` adds that the flag of a closed module with pointers is yet to be updated
  (`Stale`), `InstancesInv` that an update closes no class with objects: `AccessibleCorrect`. `ChainInv`
  and `FilesFound` add that the chain has no module twice and that between updates any set
  of bundles that find their symbols in it is open; `NamedInv`, that an executable bundle has
  a name and that, where symbols have underscores, only the module being loaded can be without: `ExecutableAreFoundCorrect`, `ExecutableIsFound` but for what it says of
  initialized modules, for both kinds of systems. `InitInv` is for the rest: `ExecutableCorrect`.
  Hypotheses: no hook ends in an error between the updates of the flags (`HooksReturn`), no object file
  defines a symbol that lush or a library has (`OverridesNothing`), and, for
  `ExecutableCorrect` only, no files refer to each other (`NoCycles`); section 6 says what happens otherwise.

- `HtableProofs`. First the chains: a structure is `Sound` when each element lies in the chain
  its key hashes to and no key is there twice; linking
  (`Adds`), replacing a value, unlinking, resizing and the rehash keep it so, and change what a table
  holds of an object, `HeldBy`, by what the code counts. Then the stack of tasks, `todo`, on
  which `UNLOCK`, `purge`, finalizers and accesses interrupt each other. None of the checked
  invariants is inductive, because a key is in a table after its finalizers left its
  records, `nelems` is decreased after an element is gone, and an object at whose end
  finalizers run is dead but not free. `IInv` says what is right at each of these moments:
  `TablesOK` (structures are sound and `nelems` exceeds the keys by the removals under way),
  `CountsOK` (a count is the lisp references, the `UNLOCK`s still to come and what tables
  hold; it is zero just for the free and those whose end is in `todo`), `ContentsLive`,
  `KeysRegistered` and `LockedTables` (a table that locks its keys awaits its rehash, and nothing
  is registered for it), `Needs` (Lisp holds what a pending access works on), and the shape
  of the stack: where each kind of task may stand (`Shape`), that an object dies once
  (`DiesOnce`) and that a key leaves each weak table before it is freed (`GoFirst`). Theorems
  `InvariantHolds`, `TypeCorrect`, `FreedWithLastReferenceCorrect`, `AssociationsRemovedCorrect`,
  `WeakKeysRegisteredCorrect`, `KeysAreFoundCorrect`, for any tables, keys, values and hash
  function. Hypotheses: `FilesInOrder` (the keys of a saved table hash to chain 0, where `bread`
  puts them; what it excludes is finding 4) and `DeletedNotStored` (what `delete` is
  called for is neither a value nor in a file: section 6). The model stops where C would
  go on with freed memory, so these say nothing of what comes after such an access. That
  there is none needs the further hypothesis `StoredApart` (no table is a value, and a value that is
  a key is the only value: section 6) and `SafeInv`: each removal under way has its
  table and the element its pointer lies in (`SafeTask`), nothing waits for the
  end of a table, and while the value of one element is dropped no other element is
  taken from any table (`Steady`): `NothingWildCorrect`. The constants of the run `htable` meet
  all three hypotheses.

- `HeapProofs`, with its invariant in `HeapInvariant`. What is popped at the end of a destructor must be there: deaths nest
  (`NestedIn`), each was begun with at least as many pushed values as those outside it, and
  a jump out of some of them leaves more than that. `HeapInv` is this and the types:
  `TypeCorrect`, through a lemma for `UNLOCK` (`ReleaseType`) and one for errors
  (`UnwindType`) that the operations share.

  `CountsTrue` is `CountsRight`. It is not inductive: while an object dies, references stand in its
  slots, in values pushed for its destructors and in calls that have not returned. `CoreInv` keeps
  the books. `Total` is all that refers to a cell: symbols, the values
  pushed (`Times`), the slots that are not let go yet (`Standing`) and what calls in progress
  hold. It is never more than the count without the collector's marks (`Covered`), and
  just that if no error left anything behind (`Balanced`). A mark adds `High` and so
  leaves a count's remainder alone; rebuilding counts from what symbols reach makes `Balanced`
  true again (`RebuildLedger`). That a cell with count 0 can
  go needs more: what a death lets go stands in no other death (`Apart` in `Stacked`), a dying
  cell has the count its phase gives it (`Numbered`), the values pushed are those of the destructors in
  progress in their order (`Pushes`), and what the collector flagged is marked or dies
  (`Flags`). `UNLOCK` (`Release`) breaks the books for the one cell it lets go:
  `Ledger` has it as its last argument, NIL when they are right. Hypotheses: counts have room for what is
  added to them (`[]RoomLeft`: fewer than 2^30 references, at most three starts of the collector
  without an end, which is so for the constants of run `heap`) and `~FailInSlots`; section 6 says what
  happens otherwise, and what happens with the reads that `ReadZombie` leaves out.

  `OnceTrue`, `LivingTrue` and `DisposedTrue` are `DestructorsOnce`, `LivingSurvive` and
  `DisposedBeforeFreed`, under the same hypotheses. Their invariant, `DeathInv`, stands on `CoreInv` and speaks of
  one cell at a time, through what its death has come to (`Of`): an object whose destructor has run is
  dying or never used again (`OnceAt`). `DestructorsOnce` says besides how a destructor in progress can end,
  which is about single steps: it goes on, returns (`RunsOrEnds`), or is ended by an error,
  and then `UnwindStack` finds the handler, which cancels it, or that it was begun by `delete`. Further, what was alive when the collector marked it does not
  destroy (`SparedAt`); finalizers that nobody will call any more are those of a failed
  destructor (`LostAt`); what a pass has been at is done (`PassedAt`). A step changes
  many cells at once (`UNLOCK` and errors reach any of them), but to each it does one of twelve
  things, `Fate`: make it, begin its death, end its destructor, make it a zombie, free
  it and so on. That each operation does no other (`SetqFates` to `DiedFates`) uses the books: what is released was
  counted. That each of the twelve keeps the four parts (`FateOnce`, `FateSpared`, `FateLost`, `FatePassed`) does not
  mention operations. Two facts about the whole heap join them: while the collector sweeps no
  Lisp code runs (`Sweeping`), and what flagged zombies refer to has a raised count, so
  that their end begins no death (`Raised`). For `LivingSurvive`, what is reachable is referred to by
  a symbol or a place that stands (`ReachableCounts`), so its count is not zero; an object whose
  destructor failed has one reference, its binding of `this`, and is therefore not reachable (`ErredAlone`).

Only model-checked: every liveness property (fairness and ENABLED are out of the
prover's reach). `RoomLeft` is neither checked nor proved: it is a hypothesis of the last four
theorems. It bounds what the program may do, and section 6 says what the code does beyond it.

## 5. Findings

1. `queue_peek`. The walk of `ev_finalize` stands on a cell `pp` while `ev_remove`
   drops an event; if that event held the last reference to another object with
   events, the inner walk can unlink `pp` itself. Its Cdr is NIL then, the outer walk
   ends early, and events of a freed handler stay in the queue; `event_peek`
   locks freed memory.
2. `timers_reuse`. A `Timer` keeps the address of a one shot timer that fired. The
   next `set` calls `kill-timer` with it and may kill another object's timer.
3. `loop_interrupted`. `os_wait` uses the descriptor set of a `select` that failed
   (EINTR, SIGWINCH under readline): the console is read as if there were input, and
   events and timers wait until the user types.
4. `htable_file`. The first access to a pointer-equality table read from a file
   frees the keys only the table held before their elements are in the chains where
   `hashelt_finalize` looks: the table keeps pointers to freed keys. (`FilesInOrder` excludes
   it.)

## 6. What the models showed besides

These have no documented promise they contradict, or need a restriction lifted in a
configuration given here, or were met in reading the code closely enough to model it.

Events and timers:

- A destructor that runs inside a walk of `ev_finalize`, because the event that was dropped held the last
  reference to its object, allocates from the freelist on which `purge` has just put the list cell
  (`at.c:68-69`, `at.c:104`). If an outer walk stands on that cell (the inner walk unlinked it), it goes on with the
  `Cdr` of whatever is there now (`event.c:85`). `ev_hndl` gives 0 for most data (`event.c:51`), so the walk
  unlinks and releases the conses it finds there: lists of the program are cut. With a queue cell that
  was posted again the walk goes on in the queue and all is well; `Cdr` is that. The model marks the other case (`Stray`) and says
  no more of it. `OnListCorrect` excludes it if events refer to no object with a destructor.
- A destructor that posts an event to its own object registers a finalizer for an
  object whose finalizers already ran (`at.c:58`); `delete` then overwrites the flag
  (`oostruct.c:1313`). The event outlives the object. `PeekGivesHandler` fails with
  `Destructible = {h1}` and `Carried = {}`.
- `(==> t set ())` cancels a timer (`events.hlp:148`), but an event it posted before
  is still in the queue and calls the callback.
- `TOPLEVEL_MACHINE` drops a pending request for an asynchronous poll (`unix.c:962`,
  called on each line and each error); data that came before wait for the next
  arrival or the next wait. `ArrivalIsNoticed` names this exception (`forgot`).

Hash tables:

- `hashelt_finalize` goes on from a link that lies in a freed element when the value
  it dropped was a key of the same chain: `NothingWild` fails with `Value = {k3, k2}` (excluded by
  `StoredApart`).
- A table that is its own value, or a value of another table under a key both have,
  is disposed of before or inside its own finalizer: `NothingWild` fails with
  `Value = {k3, t1, t2}` (no symmetry needed; excluded by `StoredApart`).
- A rehash drops the key of an element with a deleted value though a pointer table
  holds no reference to it: `FreedWithLastReference` fails with `Value = {k3}`,
  `Mortal = {k3}` (excluded by `DeletedNotStored`).

Objects and methods:

- `bread` replaces the methods of a compiled class and marks only that class's own table
  stale, and drops the old list without releasing it (`binary.c:1301-1309`). Classes below
  go on with the methods they cached: `CacheCoherent` and `ImplementsInheritance` fail
  with `Final = {}`, `Compiled = {object}`.
- `call_method` keeps `hx` while it evaluates the arguments, and `send_delete` reads
  `hx->function` after the destructor returned. If Lisp code in between changes a method and
  looks one up, or deletes a function and looks it up, the table `hx` points into was freed
  (`oostruct.c:1108`, `oostruct.c:1262`). The model lets such a read give any value;
  `CalledAreAlive` and `AllDestructorsRun` name the exception (`stale`, `steady`).
- A method that deletes its own function, or that of a caller, goes on in a body that was freed: `delete` calls
  `lfunc_dispose` at once (`oostruct.c:1299`, `function.c:104-111`), while `progn` walks the list (`eval.c:218-231`),
  and `apply` holds only the cell (`function.c:395-400`). `CalledAreAlive` without `torn` fails. In the model such a call
  can only return, which is what happens if the deletion was the last thing the method did.
- `putmethod` releases the old function before it stores the new one, and
  `dispose_hashtable` releases functions while the table still names them: a function
  whose body holds an object with a destructor would run Lisp code there.
- A class that is deleted leaves its subclasses with a pointer to it.

Heap (restrictions of the module, each with what happens without it):

- An object that is alive when `garbage()` marks, and whose last reference a destructor drops
  after that, is not flagged; its count is high, so that `purge` is not called either; then it is
  put on the free list with neither destructor nor finalizers (`allocate.c:399-410`). The manual
  says that destructors are called when "the garbage collection mechanism proves that an object
  will no longer be accessed" (`objects.hlp:751-754`). `DisposedBeforeFreed` without its last
  disjunct fails with `Fallible = {}`, `Watched = {}`.
- `symbol_eval` releases a zombie it finds in a variable before it stores the empty list there
  (`symbol.c:340-342`). If that was the last reference, and the zombie still has an object in a slot that goes
  with it, its destructor runs in between: it reads the freed cell in the variable and releases it once more, or sets the
  variable and loses what it stored. `ReadZombie` is the read where this cannot happen (`count[c] > 1`, or no object
  reachable from the slots); `CountsRight` says nothing of the others.
- A destructor that `(delete c)` began has no error handler (`oostruct.c:1288-1292` calls `send_delete` as
  it is): after an error in it `c` is an object still, its count one too high, and its destructor runs a second time when the
  collector finds it (`allocate.c:348-354`), although `oostruct.c:123` says that the destructors are cancelled. `DestructorsOnce` names
  this way to end as the exception.
- A destructor that stores its own object, when it dies of its last reference, leaves a reference
  to a cell that `purge` frees all the same (`at.c:77-82`): `CountsRight` fails if
  `Storable` does not exclude it.
- A finalizer registered for the object that dies is lost with the flags (`oostruct.c:1313`): `Watch`.
- When a destructor fails, the values it pushed stay (`letslot` is left by `siglongjmp`), among
  them `this`, and slot symbols that point into memory `zombie_dispose` frees. Until the
  error arrives at the toplevel other destructors may run and use them: `Live` says they do not.
- A second error, in a destructor called while an object whose destructor failed lets its slots go,
  abandons that object half way: it is collected again, with slots that were released
  and a destructor that ran. `Fail` says this does not happen.
- Nor does it, unless `FailInSlots`, for a destructor that is called while the collector lets the slots of another
  object or of a zombie go: no handler is left to catch the error, the jump leaves the first object half
  released and still an object (`oostruct.c:72`, `oostruct.c:153`), and when the collector starts again its destructor runs
  again and `zombie_dispose` unlocks the same slots once more. `DestructorsOnce` fails with `FailInSlots = TRUE`, two
  cells and `AsCons = {}`, though `oostruct.c:123` says that "an error handler zombifies the object" and the
  destructors "are cancelled": that is true of the object whose destructor failed. With longer destructors `CountsRight`
  fails too: something in use is freed.
- While an object dies it still holds what it has let go, in slots nobody reads (`zombie_dispose` frees them at
  the end). If its destructor stored it somewhere it is in use, and what those slots refer to may be
  free: `Places`, and with it `CountsRight` and `LivingSurvive`, count only what was not let go yet.
- An error in a destructor the collector runs skips `run_finalizers` (`allocate.c:354-359`): events
  stay queued for the object, tables keep it as a key. `cut` names these objects.
- Each start of the collector adds 0x40000000 to the counts, which are 32 bit wide, and they are
  reset only at the end: when three destructors fail in a row, the fourth start takes the counts back
  to what they were, and a cell nothing refers to any more, which only the added numbers kept from being purged,
  has the count 0 again and is skipped by `begin_iter_at`. With `Starts = 2` `DisposedBeforeFreed` fails.
- In quiet mode `start_lisp` does not call the collector after an error (`toplevel.c:305`): counts
  stay too high until the end.

Modules:

- `check_exec` calls hooks between its updates of the modules (`module.c:1036`). A hook that ends in
  an error leaves the modules after it with the flag and the pointers of bundles that were
  closed, and `check_primitive` lets them through, though `dynloader.hlp:50` says that
  "Initialized and executable modules are the only accessible modules": `AccessibleIsLinked`
  fails with `Failing = {"on_exec"}`.
- `nsbundle_update` starts again as long as a bundle is not opened; if `dlopen`
  refuses one for good (`module.c:349`) it never ends.
- The ranks an unload computes still count the symbols of the bundle that goes
  (`module.c:360`): if another file or lush itself defines them, the bundles that
  refer to them stay non-executable until the next load.
- If an object file defines a symbol that lush or a library has, bundles that used
  the library's symbol look for it in that file from then on (`module.c:360`). When it is not
  executable itself they are closed, though there may be objects of their classes:
  `AccessibleIsLinked` needs `OverridesNothing`.
- A library whose load fails because it completes a cycle of files stays open (`module.c:1364`).
  An unload of another module is then given up when `nsbundle_unload` meets the cycle, after
  `cleanup_module` deleted its primitives: the module keeps `MODULE_INIT`, and is not
  initialized again. With a file d that refers to nothing, and files b and c that refer to
  each other, c also to the library, `ExecutableIsFound` fails (in 75 steps): it needs `NoCycles`.
- `nsbundle_lookup` puts an underscore before every name (`module.c:460-462`). Where C symbols have none (ELF), the init
  function of a bundle that is not open when it is loaded is not found (`module.c:469`), `initname` stays
  NULL (`module.c:1406-1413`), and nobody looks for it again: when the missing symbols come, the bundle is opened, but `update_exec_flag`
  never makes it executable (`module.c:985`) and it is not initialized. A module that derives from a class of one loaded
  later is such a case. In `ExecutableIsFound` `named` stands for those that were found; with `Underscore = TRUE`, proved
  but not in the run, all are.
- `nsbundle_exec` can give up on any cycle it meets, also when the files on it lack symbols (`module.c:240-246`); which it meets depends on the
  order of a hash table. Loads and unloads both may or may not give up then (`MayBeCircular`).
- A load that fails because of a cycle leaves the ranks it computed; bundles are opened
  and closed after them at the next load or unload.
- A hook may use the primitives of a module whose flags are not up to date yet, and a hook
  that unloads its own module frees what `check_exec`'s loop stands on. An error in an
  init function leaves `current` on its module, to which later definitions are then ascribed.

Storages: `AT_setat` releases the old value before it stores the new one
(`storage.c:593`); a destructor that reads the element finds a freed object.

## 7. Plan

1. Done: `WeakQueue`, `EventQueue`, `EvTime`, `Timers`, `EventLoop` and `Methods` with
   their proofs; `Modules` and `Htable` with the proofs of all their invariants; `Heap`
   with the proofs of all its properties.
2. An abstract `Ephemerons` (a map that loses an association, in one step, with its
   key) that `Htable` implements; `StoredApart` weakened to what the two cases of section 6
   need (values that are keys, but not of a chain that is being walked).
3. What a walk that went astray does (`Stray`), with conses as data; reads of zombies whose slots hold objects;
   the counts of an error inside the collector's loops (`FailInSlots`).
4. `Toplevel`: context stack, `error`, `user_break`, recursion table, symbol stacks;
   ctrl-C in `EventLoop`, waits inside handlers; errors of a source between block and unblock.

Runs are merged where one instance answers several questions, and instances are kept
to a few hundred thousand states (`heap`: 1.4 million), so that the whole stays quick to check.

## 8. Not modelled

- Hash tables with logical equality: they depend on `hash_value` and `eq_test` of mutable
  data; they hold their keys and register no finalizer.
- Lisp destructors inside `Htable` (they are in `EventQueue`), tables as keys, the key `()`.
- Registration and removal of event sources at run time, sources whose functions
  raise errors, ctrl-C, the descriptors of events (`eventinfo`), window events apart from
  their being posted.
- Dates before the epoch and overflow of the C integers in `EvTime`.
- In `Methods`: slots and their bindings, constructors, functions other than those of `de`,
  classes that die, errors in destructors, functions whose bodies hold objects with destructors.
- In `Modules`: `module-never-unload`, serialization of definitions, hooks that load or
  unload, init functions that fail, functions on the C stack of a module that is
  unloaded; the loader of `dldbfd.c`, whose relocations are machine dependent data
  processing. `ExecutableIsFound` is stated for the libraries that are in the chain:
  one whose load failed on a cycle stays open and is not.
- In `Heap`: `garbage(FALSE)` at exit, which runs no destructor, the symbols it removes, kinds of
  cells other than objects and conses, the memory of stale finalizer records.
- The context stack, apart from the handlers of `oostruct_dispose` in `Heap`. An error
  is an action of `EventLoop`, `Methods` and `Modules` that drops what was in progress.
- Reading and printing of text, the file layer, storages, numeric, string and date functions:
  functions of data without a state of their own to speak of. Drawing. The interface of
  compiled code, whose other half is generated. The Lisp compiler and libraries apart from class
  `Timer`. Packages: bindings to vendored libraries.
- Most of the lines of the repository are vendored libraries (SQLite, yyjson, lz4),
  numeric kernels and drawing: the share of the lines the modules stand for is small for
  that reason.
