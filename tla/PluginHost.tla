----------------------------- MODULE PluginHost -----------------------------
(***************************************************************************)
(* ClassLoader, ClassRegistry and SharedLibrary: plugins are shared          *)
(* libraries whose static initialisers register factories for their classes *)
(* in one registry of the process.  Nothing takes a factory out again.  The  *)
(* plugin made here is KdlKinematicsPlugin, which answers once it has its    *)
(* parameters.                                                              *)
(*                                                                         *)
(* A library is mapped while its reference count is positive; each mapping   *)
(* has a number, and code of an older mapping is no longer there.           *)
(***************************************************************************)
EXTENDS Naturals, FiniteSets

CONSTANTS
    Loaders,        \* ClassLoader objects
    Libraries,      \* plugin files
    LibOf,          \* lib_path_ of each loader
    ClassesOf,      \* the class names each library registers
    MaxLoads,       \* bound: calls of loadLib
    MaxInstances,   \* bound: plugin objects
    NoFactory

ASSUME PluginFiles ==
    /\ IsFiniteSet(Loaders) /\ LibOf \in [Loaders -> Libraries]
    /\ NoFactory \notin Libraries \X Nat

VARIABLES
    loader,     \* each loader: "new", "loaded", "failed" or "gone"
    handle,     \* its SharedLibrary holds a library handle
    refs,       \* reference count of each library
    mapping,    \* number of its current or last mapping
    registry,   \* factories_: class name -> <<library, mapping>>
    instances,  \* plugin objects: [id, code, ready]
    answer,     \* what a plugin object answered last
    leaked,     \* references given up without dlclose
    wild,       \* code that is no longer mapped has been called
    loads

pluginVars == <<loader, handle, refs, mapping, registry, instances, answer, leaked, wild, loads>>

Classes == UNION {ClassesOf[l] : l \in Libraries}

PluginInit ==
    /\ loader = [d \in Loaders |-> "new"] /\ handle = [d \in Loaders |-> FALSE]
    /\ refs = [l \in Libraries |-> 0] /\ mapping = [l \in Libraries |-> 0]
    /\ leaked = [l \in Libraries |-> 0]
    /\ registry = [c \in Classes |-> NoFactory]
    /\ instances = {} /\ answer = "none" /\ wild = FALSE /\ loads = 0

Mapped(code) == refs[code[1]] > 0 /\ mapping[code[1]] = code[2]

---------------------------------------------------------------------------

\* registerClass: emplace keeps a factory that is there.
RegisterClass(c, factory) == IF registry[c] = NoFactory THEN factory ELSE registry[c]

\* dlopen: the first reference maps the library and runs its static
\* initialisers.
LoadLibrary(l) ==
    /\ IF refs[l] = 0
       THEN /\ mapping' = [mapping EXCEPT ![l] = @ + 1]
            /\ registry' = [c \in Classes |->
                 IF c \in ClassesOf[l] THEN RegisterClass(c, <<l, mapping[l] + 1>>) ELSE registry[c]]
       ELSE UNCHANGED <<mapping, registry>>

\* loadLib: a new SharedLibrary takes the place of the old one, whose destructor
\* does not close its handle.  dlopen may fail; or dlinfo, and then the library is
\* closed again, but it was mapped and its initialisers ran.
LoadLib(d) ==
    /\ loader[d] # "gone" /\ loads < MaxLoads
    /\ loads' = loads + 1
    /\ leaked' = [leaked EXCEPT ![LibOf[d]] = IF handle[d] THEN @ + 1 ELSE @]
    /\ \/ /\ loader' = [loader EXCEPT ![d] = "loaded"] /\ handle' = [handle EXCEPT ![d] = TRUE]
          /\ LoadLibrary(LibOf[d]) /\ refs' = [refs EXCEPT ![LibOf[d]] = @ + 1]
       \/ /\ loader' = [loader EXCEPT ![d] = "failed"] /\ handle' = [handle EXCEPT ![d] = FALSE]
          /\ LoadLibrary(LibOf[d]) \/ UNCHANGED <<mapping, registry>>
          /\ UNCHANGED refs
    /\ UNCHANGED <<instances, answer, wild>>

UnloadLibraryFaulty(l) == refs' = [refs EXCEPT ![l] = 0]

\* unloadLibrary: dlclose.
UnloadLibrary(l) == refs' = [refs EXCEPT ![l] = @ - 1]

\* ~ClassLoader
DestroyLoader(d) ==
    /\ loader[d] # "gone"
    /\ loader' = [loader EXCEPT ![d] = "gone"] /\ handle' = [handle EXCEPT ![d] = FALSE]
    /\ IF handle[d] THEN UnloadLibrary(LibOf[d]) ELSE UNCHANGED refs
    /\ UNCHANGED <<mapping, registry, instances, answer, leaked, wild, loads>>

\* getFactory and createUniqueInstance: the class need not be of the loader's
\* own library.
CreateUniqueInstance(d, c) ==
    /\ loader[d] = "loaded" /\ registry[c] # NoFactory /\ Cardinality(instances) < MaxInstances
    /\ instances' = IF Mapped(registry[c])
                    THEN instances \cup {[id |-> Cardinality(instances), code |-> registry[c], ready |-> FALSE]}
                    ELSE instances
    /\ wild' = (wild \/ ~Mapped(registry[c]))
    /\ UNCHANGED <<loader, handle, refs, mapping, registry, answer, leaked, loads>>

---------------------------------------------------------------------------
(* KdlKinematicsPlugin, and what a call on an object without its code does.  *)

\* setMDH drops the old chain and its solvers and makes new ones.
SetMDH(i) ==
    /\ instances' = IF Mapped(i.code) THEN (instances \ {i}) \cup {[i EXCEPT !.ready = TRUE]} ELSE instances
    /\ wild' = (wild \/ ~Mapped(i.code))
    /\ UNCHANGED <<loader, handle, refs, mapping, registry, answer, leaked, loads>>

\* getPositionFK and getPositionIK, whose solvers may fail; FK tells only that it
\* did.
GetPositionFK(i) == IF i.ready THEN {"OK", "NO_SOLUTION"} ELSE {"NO_SOLUTION"}

GetPositionIK(i) == IF i.ready THEN {"OK", "NO_SOLUTION"} ELSE {"SOLVER_NOT_ACTIVE"}

GetPosition(i) ==
    /\ IF Mapped(i.code)
       THEN answer' \in GetPositionFK(i) \cup GetPositionIK(i) /\ UNCHANGED wild
       ELSE wild' = TRUE /\ UNCHANGED answer
    /\ UNCHANGED <<loader, handle, refs, mapping, registry, instances, leaked, loads>>

PluginNext ==
    \/ \E d \in Loaders : LoadLib(d) \/ DestroyLoader(d) \/ \E c \in Classes : CreateUniqueInstance(d, c)
    \/ \E i \in instances : SetMDH(i) \/ GetPosition(i)

---------------------------------------------------------------------------

Holders(l) == {d \in Loaders : LibOf[d] = l /\ handle[d]}

\* The library of a loader that has loaded it stays mapped, with a factory for
\* each of its classes, whatever other loaders of the same library load and
\* destroy (ClassLoader.cpp:22-34); every reference has a loader that will give
\* it back or was lost by a second loadLib.  Code that is no longer mapped is
\* called only after a library has gone, or has gone and come again, as its first
\* factory stays in the registry (ClassRegistry.cpp:18-20).  And a plugin solves
\* nothing before setMDH.
LoadedStaysMapped ==
    /\ \A d \in Loaders : loader[d] = "loaded" =>
         refs[LibOf[d]] > 0 /\ \A c \in ClassesOf[LibOf[d]] : registry[c] # NoFactory
    /\ \A l \in Libraries : refs[l] = Cardinality(Holders(l)) + leaked[l]
    /\ wild => \E l \in Libraries : mapping[l] > 1 \/ (mapping[l] = 1 /\ refs[l] = 0)
    /\ answer = "OK" => \E i \in instances : i.ready
=============================================================================
