-------------------------------- MODULE Modules --------------------------------
(***************************************************************************)
(* Object files loaded at run time: module.c with its dlopen-based loader. *)
(*                                                                         *)
(* Each object file is made into a bundle.  A bundle is executable when    *)
(* every symbol it refers to is known or defined by an executable bundle;  *)
(* only executable bundles are open, and the rank of a bundle is above the *)
(* ranks of those it refers to.  Loading or unloading one file may thus    *)
(* open and close others.  check_exec then updates the flags of all the    *)
(* modules and the pointers of the primitives they define, calls the       *)
(* initialization functions, and tells the hook of each module.            *)
(*                                                                         *)
(* todo is what the primitive in progress has yet to do; lisp code runs    *)
(* when it is empty and in the hooks, which load and unload nothing.       *)
(* Abstracted: the code itself, versions (they match), objects of compiled *)
(* classes (there are some or none; their destructors do nothing), the     *)
(* order of symbols in a file.  dlopen succeeds when every symbol is found.*)
(***************************************************************************)
EXTENDS Integers, SequencesExt, FiniteSets

CONSTANTS
  File,       \* object files and shared libraries
  Shared,     \* the shared libraries
  Symbol,
  Defines,    \* Defines[f]: the symbols that f defines ...
  Refers,     \* ... and those it refers to
  Known,      \* symbols of lush itself
  Initial,    \* object files with an init function, that defines primitives
  Failing,    \* the hooks that may end in an error
  Underscore  \* the linker's names of C symbols start with one (not so with ELF)

ASSUME ModulesAssumption ==
  /\ IsFiniteSet(File) /\ Shared \subseteq File
  /\ Defines \in [File -> SUBSET Symbol] /\ Refers \in [File -> SUBSET Symbol]
  /\ Known \subseteq Symbol
  /\ Initial \subseteq File /\ Failing \subseteq {"on_unlink", "on_exec", "on_init"}
  /\ Underscore \in BOOLEAN

VARIABLES
  modules,      \* loaded modules, in the order of the chain that starts at root
  libraries,    \* shared libraries that are open
  executable,   \* the bundles' executable: a rank, or -1
  loadrank,     \* the rank of a bundle when it was opened
  dlmodule,     \* the bundles that are open
  named,        \* the modules whose initname is set
  EXEC, INIT,   \* the modules with that flag
  defs,         \* the modules that define primitives and classes
  info,         \* where these point: nowhere, into the module, or where it was
  instances,    \* the modules with objects of a class they define
  todo          \* the rest of the primitive in progress

vars == <<modules, libraries, executable, loadrank, dlmodule, named, EXEC, INIT, defs,
          info, instances, todo>>

bundles == <<executable, loadrank, dlmodule>>
flags == <<named, EXEC, INIT, defs, instances>>

\* What hooks are told.
Hook == {"on_unlink", "on_exec", "on_init"}

Task == [do : Hook \cup {"cleanup", "unload", "close", "open", "forget", "dlopen", "link",
                         "check", "exec", "init", "call"},
         file : File]

Do(f, steps) == [i \in DOMAIN steps |-> [do |-> steps[i], file |-> f]]

LispRuns == todo # <<>> => todo[1].do \in Hook

Loaded == {modules[i] : i \in DOMAIN modules}
Bundles == Loaded \ Shared

-----------------------------------------------------------------------------
(* Which bundles are executable: nsbundle_exec_all_but(but).               *)

\* isdef: a symbol of lush or of an open library.
isdef(s) == s \in Known \/ \E l \in libraries : s \in Defines[l]

\* The bundle that refers to s finds it in one of S ...
Among(S, s) == \E g \in S : s \in Defines[g]

\* Mutant: any bundle that defines a symbol will do.
ResolvedByAny(S, T, done) == {f \in T : \A s \in Refers[f] : Among(S, s) \/ isdef(s)}

\* The bundles of T whose symbols are all found once those in done are executable.
Resolved(S, T, done) ==
  {f \in T : \A s \in Refers[f] :
     IF Among(S, s) THEN Among(done \cup {f}, s) ELSE isdef(s)}

\* nsbundle_exec again and again for all the bundles in T; those of S define symbols.
Rounds(S, T) ==
  LET Level[n \in 0..Cardinality(File)] ==
        IF n = 0 THEN {} ELSE Resolved(S, T, Level[n - 1])
  IN  Level

\* Rounds(S, T)[n] has the ranks less than n.
Ranks(S, T) ==
  LET Level == Rounds(S, T)
  IN  [f \in File |->
         IF f \in Level[Cardinality(File)]
         THEN CHOOSE n \in 0..(Cardinality(File) - 1) : f \in Level[n + 1] \ Level[n]
         ELSE -1]

\* Each of the bundles in C refers to another one of them.
Cycle(C) == C # {} /\ \A f \in C : \E s \in Refers[f] : Among(C \ {f}, s)

\* There is a cycle: whether nsbundle_exec meets it depends on the order in which
\* it looks at the symbols if one of them is not found, ...
MayBeCircular(T) == \E C \in SUBSET T : Cycle(C)

\* ... but it does if all are found.
Circular(S, T) ==
  \E C \in SUBSET T :
    Cycle(C) /\ C \subseteq Resolved(S, T, C \cup {f \in T : Ranks(S, T)[f] >= 0})

-----------------------------------------------------------------------------
(* module_load and module_unload.                                          *)

Init ==
  /\ modules = <<>> /\ libraries = {}
  /\ executable = [f \in File |-> -1] /\ loadrank = [f \in File |-> 0]
  /\ dlmodule = {}
  /\ named = {} /\ EXEC = {} /\ INIT = {} /\ defs = {} /\ instances = {}
  /\ info = [f \in File |-> "none"]
  /\ todo = <<>>

Unloading(f) == Do(f, <<"on_unlink", "cleanup", "unload", "close", "open", "forget", "check">>)

\* (module-load f): a module with that name is first unloaded, unless it is a
\* shared library, which stays as it is.
module_load(f) ==
  /\ todo = <<>>
  /\ f \in Shared => f \notin Loaded
  /\ todo' = IF f \in Shared THEN Do(f, <<"dlopen", "link">>)
             ELSE (IF f \in Loaded THEN Unloading(f) ELSE <<>>) \o Do(f, <<"link">>)
  /\ UNCHANGED <<modules, libraries, bundles, flags, info>>

\* (module-unload f)
module_unload(f) ==
  /\ todo = <<>>
  /\ f \in Bundles
  /\ todo' = Unloading(f)
  /\ UNCHANGED <<modules, libraries, bundles, flags, info>>

Doing(step) == todo # <<>> /\ todo[1].do = step
This == todo[1].file

\* An error in C code, or in a hook: what was left to do is not done.
Abandon == todo' = <<>>

\* nsbundle_symmark finds no symbol of f defined already.
Unmarked(f) == \A s \in Defines[f] : ~Among(Bundles, s)

\* nsbundle_load makes a bundle, ...
Link ==
  /\ Doing("link") /\ This \notin Shared
  /\ LET now == Bundles \cup {This}
     IN  /\ Unmarked(This) /\ ~Circular(now, now)
         /\ executable' = Ranks(now, now)
  /\ modules' = Append(modules, This)
  /\ todo' = Do(This, <<"close", "open", "check">>)
  /\ UNCHANGED <<libraries, loadrank, dlmodule, flags, info>>

\* ... or finds that it defines a symbol again, ...
LinkDuplicate ==
  /\ Doing("link") /\ This \notin Shared
  /\ ~Unmarked(This)
  /\ Abandon
  /\ UNCHANGED <<modules, libraries, bundles, flags, info>>

\* ... or that it makes a cycle: it is forgotten, but the ranks were changed.
LinkCircular ==
  /\ Doing("link") /\ This \notin Shared
  /\ LET now == Bundles \cup {This}
     IN  /\ Unmarked(This) /\ MayBeCircular(now)
         /\ executable' = [Ranks(now, now) EXCEPT ![This] = -1]
  /\ Abandon
  /\ UNCHANGED <<modules, libraries, loadrank, dlmodule, flags, info>>

\* A shared library is opened by itself, ...
OpenLibrary ==
  /\ Doing("dlopen")
  /\ libraries' = libraries \cup {This}
  /\ todo' = Tail(todo)
  /\ UNCHANGED <<modules, bundles, flags, info>>

\* ... which may make bundles executable, or find a cycle.
LinkLibrary ==
  /\ Doing("link") /\ This \in Shared
  /\ executable' = Ranks(Bundles, Bundles)
  /\ \/ /\ ~Circular(Bundles, Bundles)
        /\ modules' = Append(modules, This)
        /\ todo' = Do(This, <<"close", "open", "check">>)
     \/ /\ MayBeCircular(Bundles)
        /\ Abandon
        /\ UNCHANGED modules
  /\ UNCHANGED <<libraries, loadrank, dlmodule, flags, info>>

\* The loaded modules that use what f defines, and f.
Dependents(f) ==
  {g \in defs : g = f \/ (g \in Bundles /\ Ranks(Bundles, Bundles \ {f})[g] < 0)}

\* cleanup_module: the objects of these modules and the primitives of f are
\* deleted. The ranks are computed without f, and again with it.
Cleanup ==
  /\ Doing("cleanup")
  /\ instances' = instances \ Dependents(This)
  /\ defs' = defs \ {This}
  /\ info' = [info EXCEPT ![This] = "none"]
  /\ executable' = Ranks(Bundles, Bundles)
  /\ todo' = Tail(todo)
  /\ UNCHANGED <<modules, libraries, loadrank, dlmodule, named, EXEC, INIT>>

\* nsbundle_unload: the ranks without f, unless a cycle is met.
Unload ==
  /\ Doing("unload")
  /\ executable' = Ranks(Bundles, Bundles \ {This})
  /\ \/ ~Circular(Bundles, Bundles \ {This}) /\ todo' = Tail(todo)
     \/ MayBeCircular(Bundles \ {This}) /\ Abandon
  /\ UNCHANGED <<modules, libraries, loadrank, dlmodule, flags, info>>

ToClose == {f \in dlmodule : executable[f] < 0}
ToOpen == {f \in Bundles \ dlmodule : executable[f] >= 0}

\* Mutant: in any order.
ClosesAny(f) == f \in ToClose

\* nsbundle_update closes those that are not executable any more, the last to be
\* opened first, ...
Closes(f) == f \in ToClose /\ \A g \in ToClose : loadrank[g] <= loadrank[f]

\* ... then opens the executable ones in the order of their ranks.
Opens(f) == f \in ToOpen /\ \A g \in ToOpen : executable[f] <= executable[g]

CloseOne(f) ==
  /\ Doing("close") /\ Closes(f)
  /\ dlmodule' = dlmodule \ {f}
  /\ info' = [info EXCEPT ![f] = IF @ = "code" THEN "dangling" ELSE @]
  /\ UNCHANGED <<modules, libraries, executable, loadrank, flags, todo>>

OpenOne(f) ==
  /\ Doing("open") /\ Opens(f)
  /\ dlmodule' = dlmodule \cup {f}
  /\ loadrank' = [loadrank EXCEPT ![f] = executable[f]]
  /\ UNCHANGED <<modules, libraries, executable, flags, info, todo>>

Updated ==
  /\ \/ Doing("close") /\ ToClose = {}
     \/ Doing("open") /\ ToOpen = {}
  /\ todo' = Tail(todo)
  /\ UNCHANGED <<modules, libraries, bundles, flags, info>>

\* The module leaves the chain, its symbols are not defined any more. The ranks of
\* the others stay those without it.
Forget ==
  /\ Doing("forget")
  /\ \E i \in DOMAIN modules : modules[i] = This /\ modules' = RemoveAt(modules, i)
  /\ executable' = [executable EXCEPT ![This] = -1]
  /\ named' = named \ {This} /\ EXEC' = EXEC \ {This} /\ INIT' = INIT \ {This}
  /\ todo' = Tail(todo)
  /\ UNCHANGED <<libraries, loadrank, dlmodule, defs, info, instances>>

-----------------------------------------------------------------------------
(* check_exec.                                                             *)

\* For each module update_exec_flag and the hook, then for each update_init_flag.
CheckExec == [i \in 1..(2 * Len(modules)) |->
                [do |-> IF i % 2 = 1 THEN "exec" ELSE "on_exec", file |-> modules[(i + 1) \div 2]]]
CheckInit == [i \in DOMAIN modules |-> [do |-> "init", file |-> modules[i]]]

\* nsbundle_lookup finds the init function of f: dlsym does where f is open; if
\* not, a bundle's symbols are known by their names with an underscore.
FindsInit(f) ==
  f \in Initial /\ (f \in Shared \/ f \in dlmodule \/ Underscore)

\* A module that was just linked is named after its init function, if that is
\* found now. Nobody looks for it again.
Check ==
  /\ Doing("check")
  /\ named' = IF This \in Loaded /\ FindsInit(This) THEN named \cup {This} ELSE named
  /\ todo' = CheckExec \o CheckInit \o Tail(todo)
  /\ UNCHANGED <<modules, libraries, bundles, EXEC, INIT, defs, instances, info>>

\* Mutant: pointers are not refreshed.
NotRefreshed(f, linked) == info[f]

\* The pointers of the primitives of f, when its flag becomes `linked'.
Refreshed(f, linked) ==
  IF f \notin defs \/ linked = (f \in EXEC) THEN info[f]
  ELSE IF linked THEN "code" ELSE "none"

\* update_exec_flag, up to the hook.
UpdateExec ==
  /\ Doing("exec")
  /\ LET linked == This \in Shared \/ (This \in named /\ executable[This] >= 0)
     IN  /\ EXEC' = IF linked THEN EXEC \cup {This} ELSE EXEC \ {This}
         /\ INIT' = IF This \in defs /\ ~linked THEN INIT \ {This} ELSE INIT
         /\ info' = [info EXCEPT ![This] = Refreshed(This, linked)]
  /\ todo' = Tail(todo)
  /\ UNCHANGED <<modules, libraries, bundles, named, defs, instances>>

\* update_init_flag: a module that has definitions is first cleaned up.
UpdateInit ==
  /\ Doing("init")
  /\ todo' = (IF This \in INIT \/ This \notin EXEC \cap named THEN <<>>
              ELSE Do(This, IF This \in defs THEN <<"on_unlink", "cleanup", "call", "on_init">>
                            ELSE <<"call", "on_init">>))
             \o Tail(todo)
  /\ UNCHANGED <<modules, libraries, bundles, flags, info>>

\* The init function defines primitives and classes.
CallInit ==
  /\ Doing("call")
  /\ defs' = defs \cup {This} /\ INIT' = INIT \cup {This}
  /\ info' = [info EXCEPT ![This] = "code"]
  /\ todo' = Tail(todo)
  /\ UNCHANGED <<modules, libraries, bundles, named, EXEC, instances>>

-----------------------------------------------------------------------------
(* Lisp code.                                                              *)

HookReturns ==
  /\ todo # <<>> /\ LispRuns
  /\ todo' = Tail(todo)
  /\ UNCHANGED <<modules, libraries, bundles, flags, info>>

HookFails ==
  /\ todo # <<>> /\ todo[1].do \in Failing
  /\ Abandon
  /\ UNCHANGED <<modules, libraries, bundles, flags, info>>

\* check_primitive lets a primitive or class of module f be used.
check_primitive(f) == f \in EXEC /\ info[f] # "none"

\* An object of a class that f defines is made, ...
New(f) ==
  /\ LispRuns
  /\ check_primitive(f) /\ info[f] = "code"
  /\ instances' = instances \cup {f}
  /\ UNCHANGED <<modules, libraries, bundles, named, EXEC, INIT, defs, info, todo>>

\* ... or the last one goes.
Drop(f) ==
  /\ LispRuns
  /\ f \in instances
  /\ instances' = instances \ {f}
  /\ UNCHANGED <<modules, libraries, bundles, named, EXEC, INIT, defs, info, todo>>

-----------------------------------------------------------------------------
Next == \/ \E f \in File : \/ module_load(f) \/ module_unload(f)
                           \/ New(f) \/ Drop(f)
                           \/ CloseOne(f) \/ OpenOne(f)
        \/ Link \/ LinkDuplicate \/ LinkCircular \/ OpenLibrary \/ LinkLibrary
        \/ Cleanup \/ Unload \/ Updated \/ Forget
        \/ Check \/ UpdateExec \/ UpdateInit \/ CallInit
        \/ HookReturns \/ HookFails

Spec == Init /\ [][Next]_vars

-----------------------------------------------------------------------------
(* Properties.                                                             *)

TypeOK ==
  /\ modules \in Seq(File)
  /\ libraries \subseteq Shared
  /\ executable \in [File -> -1..(Cardinality(File) - 1)]
  /\ loadrank \in [File -> 0..(Cardinality(File) - 1)]
  /\ dlmodule \subseteq File \ Shared
  /\ named \subseteq Loaded \cap Initial
  /\ EXEC \subseteq Loaded /\ INIT \subseteq Loaded
  /\ defs \subseteq File /\ instances \subseteq defs
  /\ info \in [File -> {"none", "code", "dangling"}]
  /\ todo \in Seq(Task)

\* Whatever is opened or closed on the way, and in whatever order files come and
\* go, an open bundle finds every symbol it refers to in lush, in a library or in
\* an open bundle: dlopen does not fail and dlclose leaves none behind that calls
\* code that is gone (nsbundle_update, loadrank).
OpenBundlesLinked ==
  \A f \in dlmodule : \A s \in Refers[f] : isdef(s) \/ Among(dlmodule, s)

\* "Initialized and executable modules are the only accessible modules"
\* (dynloader.hlp): between calls, a primitive that check_primitive lets through
\* points into its module as it is loaded now, and so does the class of every
\* object.
AccessibleIsLinked ==
  todo = <<>> =>
    /\ \A f \in File : check_primitive(f) => info[f] = "code"
    /\ \A f \in instances \ Shared : f \in dlmodule

\* The symbols of f are all found, those of the bundles that define them too.
Found(f) ==
  \E C \in SUBSET Bundles :
    /\ f \in C
    /\ \A g \in C : \A s \in Refers[g] : isdef(s) \/ Among(C, s)

\* Between calls a bundle is open if and only if its symbols are all found, the
\* open ones that have the name of their init function are the executable ones,
\* and an initialized module is one of them ("All functions referenced by these
\* modules have been found, and the initialization routine has been succesfully
\* executed", dynloader.hlp); unless a library stayed that made a cycle.  A module
\* with an init function has its name only if it could be opened when it was
\* loaded, or symbols have an underscore: others never become executable.
ExecutableIsFound ==
  todo = <<>> /\ libraries \subseteq Loaded =>
    \A f \in Bundles :
      /\ f \in dlmodule <=> Found(f)
      /\ f \in EXEC <=> f \in named \cap dlmodule
      /\ f \in INIT => f \in EXEC \cap defs
      /\ Underscore /\ f \in Initial => f \in named
=============================================================================
