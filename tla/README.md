# A TLA+ verification of CppInterOp

CppInterOp wraps Clang's incremental compiler (clang-repl or cling) in a
reflection and just-in-time-compilation API for language bindings. Much of its
API asks Clang a question and returns the answer. This project is about the
rest: the state CppInterOp itself keeps, the order in which it changes it, the
answers it computes from Clang's tree, the code it makes the compiler run, and
what clients on one or several threads may rely on.

Contents: the inventory, the modules and how they correspond to the code, the
runs, the proofs, what is only model-checked, what is left out, what is next.

## 1. Inventory

| Component | Source | State | Operations | What makes it correct |
|---|---|---|---|---|
| Interpreter registry | `CppInterOp.cpp` 185–370, 5523–5736; `InterpreterInfo.h` | a process-wide `deque<InterpreterInfo>`; per slot the interpreter, an ownership bit, caches, an anchor counter, pending diagnostics | create, use external, activate (rotate), delete (erase), exit | every created interpreter is deleted exactly once, an external one never; per-interpreter state stays with its interpreter |
| Pending diagnostics | `ErrorInternal.cpp` 230–350 | `StoredDiags` of a slot; the slot address inside each consumer | emit, drain | a diagnostic is stored with the interpreter that emitted it |
| Errors and results | `Error.h`, `ErrorInternal.{h,cpp}` | refcounted `ErrorSlice`s; `Result<T>`, `Result<void>`, `CapturedError` handles with a checked bit | make, copy, move, share, assign, check, destroy | refcounts are exact; a slice is deleted once; no error is dropped unseen |
| glibc handler registry | `CompatibilityGLIBC.h`, `CppInterOpInterpreter.h` 400–410 | handler lists under a mutex, a fork snapshot, two hook-installed flags | register, quick_exit, fork, teardown | a handler runs at most once and only while its code is mapped; no deadlock with glibc's fork lock |
| Dynamic library manager | `DynamicLibraryManager.{h,cpp}` | search path; `m_DyLibs`, `m_LoadedLibraries` | lookup, load, unload, add path | the two books agree; opens and closes are balanced |
| Symbol search | `DynamicLibraryManagerSymbol.cpp` | two candidate lists, queried libraries, two first-run flags; a filter per library; process-wide path caches | scan, search, drop loaded, build and query a filter, resolve a path | a search finds what the path offers, user libraries first; a filter never hides a symbol; a path leads where it always led |
| Virtual table overlay | `CppInterOp.cpp` 2942–3260; `CppInterOp.h` | one owned block per overlay; the object's vptr | make, wire the hook, destroy; the object's own deletion | calls dispatch as the installs in force say; the callback runs once; deletion completes |
| Stream capture | `CppInterOp.cpp` 6577–6716 | a stack of captures, the standard descriptors, temporary or redirection files | begin, end | a capture returns its own output and no other; the rest is where it belongs; descriptors are restored |
| Tracing | `Tracing.{h,cpp}` | region depth, handle names, log, timers, region files | enter, leave, register handle, start and stop a region, crash | a reproducer names every handle before it uses it; a file holds its region's calls |
| Allocation analysis | `CppInterOp.cpp` 1890–2440 | none (a classification over a body) | classify | agrees with what the body does to its pointers: nothing freed twice or wrongly, nothing given away and kept |
| Variable addresses | `CppInterOp.cpp` 3392–3604 | constant-array store, odr-use anchors, symbols of the JIT | address of a variable or function | one address per entity, whichever way it is found |
| Call wrappers | `CppInterOp.cpp` 4400–5251; `CppInterOpTypes.h` | wrapper stores of a slot, the language option | make, call, allocate, construct, destruct, deallocate | a wrapper calls its function; objects are made and destroyed once |
| Boxed values | `Box.h`, `Compatibility.h` | counted payloads | box, copy, move, assign, release | a payload is deleted once |
| Scope, type and function reflection | `CppInterOp.cpp` | Clang's tree, which some queries extend; a map of builtin types | queries | answers agree with C++, with each other, and do not depend on history |
| Overload resolution, templates | `CppInterOp.cpp` 6100–6400 | specializations; a counter of helper variables | find candidates, instantiate, read arguments back | what is read back names the same specialization |
| Interpreter session | `CppInterOpInterpreter.h`, `CppInterOp.cpp` 5350–5800 | inputs, include directories, libraries, execution mode | create, declare, process, evaluate, undo, add paths | made as asked; no input loses a definition; paths recorded are searched |
| Engine compatibility | `Compatibility.h` | `DedupedWeakTLS`, two module passes | the passes, undo, lookup | a static keeps its guard, a thread_local one definition |
| Path detection | `Paths.cpp` | none | resource directory, splitting and recording paths | see Interpreter session |
| Dispatch table, C API, API generator | `Dispatch.h`, `CXCppInterOp.cpp`, `CppInterOp.td` | little | forwarding, code generation | — |

Interactions. Every API call goes through the registry's active entry
(`getInterpInfo`). An interpreter owns a `DynamicLibraryManager`, whose `Dyld`
reads the manager's paths and books during a search. Deleting an interpreter
flushes its glibc handlers before the JIT goes. Diagnostics reach the registry
through a slot address handed to the consumer at installation. Errors cross
thread boundaries as refcounted slices. An out-of-process capture writes to
files the active interpreter owns. Wrappers, anchors and instantiations are
inputs of the same session a client declares code in. A tracing region encloses
every API call, those a call makes itself included.

Where it is hard. Entries move between slots while addresses of slots are held
elsewhere (stale state). Handlers and cleanup callbacks run outside locks or
inside destructors and may re-enter (ordering, interleaving). Two locks of
different owners meet in `fork` (deadlock). Lists, filters and caches built once
are read against books and files that go on changing. Tables are copied from
tables that were themselves copied (long legal call sequences). A query may
make Clang instantiate something, so the next query sees another tree. Passes
over one input depend on what earlier inputs, undos and libraries left.
`PROJECT.json` lists each hazard with the line where it bites and the properties
that watch it.

## 2. Modules and the code they model

Definitions keep the names of the source. `PROJECT.json` maps each one to its
lines. A definition whose comment says "a bug" or "faulty" is a deliberately
wrong variant of the one next to it; no specification uses it. It records the
kind of bug a property is there to catch.

### The registry

**InterpreterStack** is the abstract registry: a stack of interpreters with
push, move-to-top and remove. **InterpreterRegistry** is the deque at the level
of slot addresses: `std::rotate` and `deque::erase` (which shifts from whichever
end is nearer) are sequences of `InterpreterInfo` moves, and those moves carry
only four of the fields. Its refinement mapping reads the stack off the slots.
`Busy`, `MaxSlots` and `MaxAnchors` are bounds.

### Errors, handlers, streams

**ErrorOwnership** models handles as C++ objects used by threads. A release and
the deletion it leads to are two steps, and so are the two halves of a
`CapturedError` assignment. A debug build is modelled, where an unchecked
`Result` aborts. Two threads never modify one handle together: the library does
not allow it.

**GlibcHandlers** has threads with a program counter; critical sections that
call out of the registry hold `M` across several steps. `atforkLock` is glibc's
own lock, external, as `fork` and `pthread_atfork` use it. `LateRegistration`
says whether code that runs in the JIT's deinitialization registers handlers.

**StreamCapture** has the descriptors, the files they refer to and the buffers
of two C libraries: this process's (`buffer`), which the code flushes, and the
executor's (`remote`), which it cannot flush. `CustomizeFork` calls `setvbuf`, but
on `FILE`s it makes before the executor's program is started, so that program
buffers as it likes. Messages are opaque and tagged with the process that printed
them. A redirection file is emptied through its descriptor and read through its
`FILE`, whose buffer outlives the emptying: a text shorter than one read before is
answered from it (`read`, `ReadAgain`, `Answers`; the behaviour is glibc's).
Whether execution is out of process is chosen initially from `Modes`.
`TmpFileFails` says whether the temporary file may fail to open, and `Renesting`
whether a stream that is already captured out of process may be captured again.
`expected` and `outside` are history: what each process printed to each open
capture, and what it printed while nobody captured the stream.

### Libraries and symbols

**DynamicLibraryManager** is one interpreter's manager over a constant file
system (`At`, `RealDir`, `Resolves`). `dlrefs` is the loader's count of this
manager's opens; opens by other managers, and the loader's own mapping of needed
libraries, are not counted. **SymbolSearch** extends it with the scans, the two
candidate lists and `searchLibrariesForSymbol`, so that searches interleave with
loads, unloads and path changes. The recursion of `HandleLib` over needed
libraries is a loop over the calls that are due, in the order the code makes
them: a library's needs come before the rest of its directory (`HandleLibs`). The
loop is as long as the needs of all libraries together, since each library is
registered once; when nothing is due it stays as it is. **PathCache** is `cached_realpath` with its
four function-local statics over a tree of directories, files and links that
changes underneath; the reference is `realpath(3)` on the tree. **BloomFilter**
is the filter CppInterOp builds itself, in the integer arithmetic of the code;
the floating-point size is its exact rational value rounded up. **ElfObject**
puts it behind the `.gnu.hash` filter of an ELF file, whose words are 64 or 32
bits wide.

### Objects and calls

**VTableOverlay** has the Itanium layout with words named by their distance from
the address point, so that the self-pointer, the ABI prefix and the extra slots
are where the code's arithmetic puts them. Wiring a hook is two steps after the
vptr is published, and the object may be deleted on another thread in between:
that is the case the comment in `MakeVTableOverlay` argues about. Stores of one
thread are taken to be seen in program order. That is the comment's assumption,
which plain stores do not give on every platform. The class's own destructors
are external. The client contract: an overlay is
destroyed while its object is alive or after its hook has fired, and `Restack`
and `AnyOrder` say whether clients stack on a hooked overlay and destroy
overlays in any order. `layers`, `stash`, `owed` and `calls` are history, and
faulting steps set `fault`.

**Wrappers** is `get_wrapper_code`: not the text, but what each clause does with
its arguments and its result, which function the name it prints reaches, and
whether all that compiles. **Calls** adds the stores of compiled wrappers, the
three kinds of `JitCall`, and `Allocate`, `Construct`, `Destruct` and
`Deallocate`. `belief` is the caller's note of each block of memory, kept as the
documentation says; `heap` is what the wrappers really did.

**AllocationAnalysis** is `GetAllocType` and `GetDeallocType` as recursive
functions of a body with declarations, assignments, calls, branches, loops (whose
body the traversals come by once) and conditional operators (which they do not
look into). **Ownership** puts an interpreter that runs bodies next to it, every
branch either way and every loop up to `Turns` times, and a client that frees what
it gets, or gives it away, by what the analysis says. `spared` notes that a
function given a pointer has a way that frees it and went another.

### Reflection

**ClangAST** is the part of Clang's tree that is read, and is external. `AST` is
the program as it can become, and the state `[known, defs]` says what has become
of it so far. **ScopeReflection**, **ClassReflection**, **FunctionReflection** and
**TypeReflection** are the queries, as operators on that state; a query that
makes Clang add to the tree has a companion that returns the tree it leaves.
**Reflection** declares a program in several inputs with queries in any order
between them. **VariableAddresses** is `GetVariableOffset` and
`GetFunctionAddress`: a binary, the evaluated initializer, the JIT, an odr-use
anchor, or a symbol a client replaced. **Templates** is `InstantiateTemplate` and
the reading back of a specialization's arguments.

**Tracing** has the regions that are open, the log, which is itself a program,
and the files regions write. Whether a name means the right pointer is decided
by running the log (`fx` is what a call did and what replaying it does again).
`TraceData` is what the constructor of a `TraceRegion` keeps, `EnterRegion` and
`LeaveRegion` what it and the destructor do to the tracer. What calls return and
append is taken from `Vectors` and `Fills`.

### One interpreter's session

**Creation** is `CreateInterpreter` as a function of a `host` record, which
holds everything it reads besides its arguments. **IncludePaths** has the
entries an interpreter records (`UserEntries`) and the directories its
preprocessor searches. **JitModules** has one record per live input, rewritten by
`dedupeWeakEmulatedTLS` and `bindProcessWeakGlobals`, and `Undo`. **Boxes** is
`Cpp::Box` with the payload's count; a release is the decrement and, for the
thread that reached zero, the deletion. **Session** composes the four.

The `MC*` modules give the constants of a run; `errors`, `glibc` and `capture`
need none and use the component's own module. Modules that share no state are
checked by one run (MCLibraryFiles, MCReflection), in which a behaviour exercises
one of them. The `*Proofs` modules hold the theorems of a component.

## 3. Runs

| Run | Instance | Shows |
|---|---|---|
| registry | 3 created interpreters, one of them busy, and a client's one; 4 addresses, 2 anchors | each created one is deleted exactly once, the deque refines the stack, anchors stay distinct, push/pop clients find only their own data in a slot |
| errors | 2 threads, 3 handles, 2 slices, 1 inline error | refcounts, slice lifetime, no dropped error |
| glibc | 2 threads, 2 interpreters, 3 registrations, static destructors register too | each handler once and before its code goes, never twice, no lock cycle, no deadlock; teardowns and forks complete |
| search | 6 files, user and system paths, dependencies; each library opened once at a time | one list per library, completeness while the lists are fresh, user first, nothing offered twice |
| files | 4 libraries, 1 link, 3 directories, 2 opens; trees with links and a loop, 1 change; symbol lists up to 8 | the books agree, loads balance, appended paths never shadow; cached paths are realpath's; filters lose nothing |
| overlay | 1 plain and 1 multiply derived object, 2 overlays, 2 functions, 2 extra slots | dispatch, prefix, memory safety, callback once, deletion completes |
| capture | in and out of process, 2 streams, depth 3, 4 messages, the temporary file may fail | host captures and terminal exact; executor output exact up to what it has not written; descriptors restored |
| calls | 13 functions, 2 blocks of up to 2 objects, 3 wrappers | a wrapper runs its function once; blocks are used as they were made; arguments survive unless asked for |
| ownership | every body of a family, 2 objects, calls 3 deep, loops of 2 turns | a client that believes the analysis frees nothing twice, wrongly or that is not its own, and leaks nothing it is done with, but in functions that free on some of their ways only |
| reflection | 3 programs, 3 inputs, 3 specializations, 4-bit integers | answers agree with C++ and each other, whatever was asked; one address per entity; arguments read back |
| tracing | 2 logged calls and 1 other step, 1 region, 4 lines, depth 2 | the log is a program with the right pointers; files hold their regions |
| session | 30 hosts, 6 inputs, 4 symbols, 2 boxes and payloads, size 4 | created as asked; passes, undo and libraries lose no definition; paths in step; box counts exact |

The bounds. Rotate and erase take different paths for an element in the front
half and in the back half of the deque: with four interpreters both have
something to move. Two threads are enough for every race over one mutex
and one count; a third handle is needed to copy from a copy. Three registrations
let a handler that runs during a drain register a further one while another
thread drains. Three nested
captures give a stream that is captured, then not innermost, then innermost
again. Two overlays are the smallest stack; two functions tell the newest
replacement from an older one; two extra slots tell an offset from its
neighbour. Slot 3 is a virtual nobody replaces, and the methods offered include
one that is not virtual and one whose slot is out of range. Eight symbols give
filters of one and of two words. The hash is real and 24 bits wide; `SymLoopLevel`
is 4 instead of 40, and no chain of links but the loop is longer. The functions
of `calls` have overloads, defaults, a template instantiation, a move-only
parameter, an rvalue method, a member reachable only through a using-declaration,
and ones that cannot be called. The bodies of `ownership` have two variables,
branches with and without else, nested, with early returns, and loops whose body
is a branch or leaves them; two turns let a body find what it wrote itself. Two
calls, one of
them inside a region, and one step in between are enough for a name to be reused
with another pointer. Each host of `session` differs from the plain one in one of
the choices `CreateInterpreter` makes; only some hosts go on to inputs, paths or
boxes (`MCUses`), since these do not depend on the rest of the host.

Deadlock is checked in `registry`, `errors`, `glibc` and `search`. In the
others inputs, objects, handles or messages run out and a client may simply
stop.

Symmetry is used for the idle interpreters of `registry`, the boxes and payloads
of `session` and the pointers of `tracing`: no specification orders these, and
the three runs check no liveness property.

Fairness. `glibc`: weak fairness of `Continue(t)`, a thread that is
inside a registry call and not blocked is scheduled again; nothing obliges a
thread to begin a call. `overlay`: weak fairness of the steps of a destruction
that has begun, which is one thread's straight-line code. Its callback is
assumed to return: the API forbids it to throw and the destructor waits for it.

### Disagreements with the documentation

Sentences of the repository that the code does not keep. Those with a property
are stated in the modules and end in a counterexample when the property is
checked on the instance given; no run of the project keeps them.

| Property | Instance | What happens |
|---|---|---|
| DiagnosticsReachOwner (InterpreterRegistry) | `registry` | after activating an older interpreter, diagnostics go to the interpreter now in its old slot (`ErrorInternal.cpp` 233, 307) |
| CachesDieWithInterpreter (InterpreterRegistry) | `registry` | deleting an interpreter under the top leaves its wrapper cache to another (`InterpreterInfo.h` 40, 71) |
| ValueDestroyedWasConstructed (ErrorOwnership) | `errors` | a moved-from error `Result<T>` destroys a `T` that never was (`Error.h` 274, 292) |
| NoWildCall (GlibcHandlers) | `glibc`, `LateRegistration` FALSE | a handler taken or snapshotted before another thread's teardown is called after it (`CompatibilityGLIBC.h` 75, 163) |
| NoStaleEntry (GlibcHandlers) | `glibc` with one thread | a registration from a static destructor survives the flush (`CppInterOpInterpreter.h` 404) |
| LoadedIsReported (DynamicLibraryManager) | `files` | a library opened through a link without lookup is denied and cannot be unloaded (`DynamicLibraryManager.cpp` 388) |
| SearchIsComplete (SymbolSearch) | `search` | a path added after the first search is never scanned (`DynamicLibraryManagerSymbol.cpp` 1204) |
| AnswerNotLoaded (SymbolSearch) | `search` | a library loaded without having been offered is offered later (`DynamicLibraryManagerSymbol.cpp` 1236) |
| HookReachesDestructor (VTableOverlay) | `overlay`, `Restack` TRUE | an overlay on a hooked object copies the hook and never reaches the destructor (`CppInterOp.td` 1617, `CppInterOp.cpp` 3180) |
| TeardownRestores (VTableOverlay) | `overlay`, `AnyOrder` TRUE | destroying the older overlay first ends with a vptr into a freed block (`CppInterOp.cpp` 3083) |
| CallbackAfterDestructor (VTableOverlay) | `overlay` | the callback runs before the destructor, not after it as `CppInterOp.h` 79 says |
| CaptureExact (StreamCapture) | `capture`, `Renesting` TRUE | out of process, a second capture of a stream discards the first one's output (`CppInterOp.cpp` 6609) |
| CaptureIsOwn (StreamCapture) | `capture` | out of process, a capture shorter than an earlier one of its stream may return the beginning of the earlier text, which the `FILE` still has in its buffer (`CppInterOp.cpp` 6609, 6675, 6688; `CppInterOp.td` 1246) |
| CaptureHasFile (StreamCapture) | `capture` | a capture without a temporary file fails the assertion of `CppInterOp.cpp` 6649 when it is ended |
| ReproducerCompiles (Tracing) | `tracing` | a pointer a JitCall returned gets a name that no line declares, and later calls use it (`CppInterOp.cpp` 600) |
| DifferingIsUnknown (Ownership) | `ownership`, `Programs <- GlobalPrograms` | a global assigned in one branch and returned from the other is left without a value there, so the function is said to allocate though one of its ways returns the global (`CppInterOp.cpp` 2060) |
| DifferingIsUnknown (Ownership) | `ownership`, `Programs <- LoopPrograms` | what a loop assigns is taken as assigned, though the loop may not run, so a function that allocates in two ways, or in one or not at all, is given one of them (`CppInterOp.cpp` 2046, 2086) |
| DifferingIsUnknown (Ownership) | `ownership`, `Programs <- ConditionalPrograms` | `c ? new T : x` is taken for no allocation (`CppInterOp.cpp` 2141) |
| GivenAwayIsFreed (Ownership) | `ownership` | a function that deletes its parameter under a condition is said to delete it; who believes that leaks it on the other way (`CppInterOp.cpp` 2273, `CppInterOp.td` 837) |
| FreedOnce (Ownership) | `ownership`, `Programs <- AliasPrograms` | an alias that is the parameter on one way only, by a branch or a conditional operator, is taken for none; a function that deletes it is said to leave its parameter alone, and the pointer is freed again (`CppInterOp.cpp` 2331) |
| RepeatedQueriesAgree (VariableAddresses) | `reflection` | the first query for a constant array of a class template instantiates it and gives the JIT's address, later ones find its initializer and give a copy's (`CppInterOp.cpp` 3537), against the comment at 3395; `AddressStable` excepts these arrays |

Further observations without a property: a name that does not resolve is
accepted by `InsertOrReplaceJitSymbol`; `outOfProcess` stays set after the
fallback to a session in this process; a `-resource-dir` of the user that is no
directory, or that is given twice, reaches the library search and clang
differently; `Undo` does not take wrappers out of their store
(`CppInterOp.cpp` 6734); a `Declare` that defines a variable runs its
initializer (`CppInterOp.td` 61); more arguments than parameters run nothing
(`CppInterOp.cpp` 5084); an instantiation of a template with several packs, or
of an operator, is called by its plain name, so overload resolution may choose
another function (`CppInterOp.cpp` 4303; see `NamesLead` below); the path caches
are not synchronised (`DynamicLibraryManagerSymbol.cpp` 250); what the executor
prints while nobody captures the stream is shown nowhere, and the next capture of
the stream throws it away (`CppInterOp.cpp` 6609); what it prints in a capture and
has not written when the capture ends is returned by a later one, or lost in the
same way (`Compatibility.h` 547); a `thread_local` whose unit was undone stays in
`DedupedWeakTLS`, so a new definition of it becomes a reference nothing resolves
(`CppInterOpInterpreter.h` 331); a directory that is added before it exists is
recorded, is never added again and so never searched (`Paths.cpp` 348); a library
opened under two names is opened twice and closed once
(`DynamicLibraryManager.cpp` 386); the offset of a field, asked for with a class
that does not derive from the field's, or with the definition of a class that was
declared before, throws at `direction.at` (`CppInterOp.cpp` 3499), behind a virtual
base it adds what Clang keeps for a non-virtual one (3501), and of several paths
the one searched last counts. `GetFieldOffset` in ClassReflection follows the code
in all of these; `OffsetsExact` claims nothing of them.

## 4. Theorems

All proofs are checked by TLAPS to the last leaf, for every value of the
constants that satisfies the assumptions the modules name. None of the
invariants proved is inductive alone; what each needs is the heart of its
argument.

**InterpreterRegistryProofs** (`OwnershipAssumption`: created and external
interpreters are disjoint and null is neither; `BoundsAssumption`).
`RegistryTypeOK` and `RegistryOwnership` rest on
`TypeOK /\ OwnershipExact /\ KnownCovers`: that a newly created interpreter is in
no slot and not already freed follows only because every interpreter in a slot,
and every freed one, has been seen by a client. The argument follows the moves:
a moved-from slot owns nothing, so destroying it deletes nothing, and a
moved-into slot has its source's identity. Rotation and each direction of erase
are lemmas about which slots hold which interpreter.
`RegistryAnchorsDistinct` adds that the counter in an interpreter's slot is
above every anchor it was given, wherever the slot's content moved
(`CounterInv`), and `RegistryStackDiscipline` that a slot holds only its own
interpreter's data and is the one its consumer was given, as long as no client
left stack order (`DisciplineInv`). `RegistryRefinesStack` shows that each
step of the deque is a step or a stutter of InterpreterStack: initial states map
to initial states, a rotation is a move to the top, an erase a removal, because
the moves keep the order of all other entries.

**ErrorOwnershipProofs** (`HandlesAssumption`: handles are finite and there is
one; `ErrorsAssumption`). `ErrorSlicesExact`: a count is the number of owners. A
retain or a release keeps that only while its slice is alive, so `SliceInv` ties
the owners of a slice to the threads that wait to wrap or to delete it, and
`UseInv` says that the halves of a call find what its first half left.
`ErrorNotDropped`: an error nobody looked at is in a result that says so, or in
the hands of a thread on its way into one.

**ProcessProofs** is about what is shared with the process. The glibc handlers
(`NoneAssumption`, `BoundsAssumption`): `GlibcNoLockCycle`: the mutex is held across a call out of the registry only
before the fork hook is in place, and nobody forks with handlers before that
(`LockInv`). `GlibcAtMostOnce`: a handler that has not run is in the registry or
with the one thread that took it (`TakenInv`). `GlibcHandlersExact`: what
teardowns and forks that do not overlap know of the phases of interpreters
(`LifeInv`).

The open libraries and their filters (`NamesAssumption`, `FilesAssumption`,
`PathsAssumption`; `HashAssumption`, `TablesAssumption`): `LibraryBooksAgree`
and `LibraryLoadsBalanced`, for every file system: each needs the other, since a
load finds its handle recorded exactly when the books agree on it, and only then
is the count one. `BloomFilterExact`, for every hash function and symbol list:
the table has its size (`Sized`), the hash set is the part of the list already
added (`Added`), and every added symbol passes the filter (`BitsSet`).
`ElfFiltersExact`, for both word sizes: the linker's filter tests bits that its
construction set, and the sizes CppInterOp computes are never zero. The
recursion of `log2u` is shown well founded, so that the argument may unfold it.

The search for a symbol's library (also `ObjectsAssumption`: there are finitely
many libraries, a directory is read to its end, and the linker's hash table of a
library names all it exports): `SearchCandidatesExact` and
`SearchNeverOffersTwice`, for every file system, search path and chain of needed
libraries, circular ones included.

- The walk over needed libraries ends and leaves nothing due: a turn drops a
  call, and only a library that was in neither list adds calls, as many as its
  needs, which are then no longer owed (`LeftLess`, `HandleTurn`, `WalkEnds`). A
  scan adds to its own list only, never a library that a list has already or
  that is loaded (`Extended`), and whatever a directory leads to is registered
  or need not be (`Covered`, `DirScanned`, `ScanFinds`).
- The invariant (`SearchInv`) is needed for the answers: while the lists are
  fresh, each scanned kind of path has all its libraries in the lists
  (`UserFound`, `SystemFound`); the system's list is empty before its scan, which
  never comes before the users' (`ScansInOrder`); and the last answer is right
  for the path as it is (`AnswerRight`). The libraries the user paths offer are
  in the users' list itself, since that scan runs while the other list is empty.
- A step of the manager makes the lists stale only if it touches a kind that was
  scanned: a path of the other kind adds nothing to it (`OtherPath`), a load only
  excuses a library, and an unload after the first search does make them stale.

**StreamCaptureProofs** (`CaptureAssumption`). `CaptureDescriptors`: each
capture saved what its stream referred to below it, so the saved descriptors of
a stream form a chain that ends at the terminal (`Chained`). `CaptureOutput`,
for clients that never capture a stream twice at a time out of process
(`~Renesting`), says where the output of both processes is. A message of this
process is in the file of its capture or in a buffer that will be flushed there
(`Placed`). A message of the executor is in its stream's redirection file or in
the executor's own buffer, whoever captures (`ExecutorPlaced`), since nothing here
flushes that buffer: a capture has what was unwritten when it began and was
printed since, less what is unwritten at its end. A file belongs to one stream
(`Single`), and the executor prints only out of process (`Silent`). Without the
hypothesis the property is false, as the table above says; of a capture that is
shorter than one read before (`ReadAgain`) it says nothing, and the table says why.

**SessionProofs** (`BoxesAssumption`; `ProgramAssumption`: a variable comes with
its guard, as the ABI has it). `SessionBoxes`: a step is one or two of six
elementary ones, each of which keeps every count equal to the number of
holders; an assignment drops first and takes after, and the same lemmas apply to
the state in between. `SessionInputs`: what a unit is depends only on the units
before it and on sets that grow, so a later input, an undo or a library leaves
each unit as it was (`Stays`), and only the unit an input adds has to be looked
at (`Adding`). `SessionPaths`: the two lists have different lengths as soon as a
directory is added that does not exist, so the invariant (`PathsInv`) ties both
to what was added: the entries are the additions, each path once, and the
searched directories are the paths of those that existed. A choice of members by
their indices is a loop; lemmas say what one member more adds to it
(`ChosenMore`) and that the chosen ones stand in order (`ChosenPlaces`), from
which the order of the reports follows (`LedInOrder`). `SessionCreated` assumes
`HostsNameOnce`: the packager's and the embedder's arguments name at most one
resource directory each, the GPU arguments none, and no directory is named like a
flag. Without it the property is false (see the repeated `-resource-dir` above);
the thirty hosts of the run satisfy it. Clang takes the last directory of the
command line, the library the first of the embedder's arguments, or else of all,
and puts what it found in front: `NamedLast` shows that these are the same, and a
command line that ends in the flag, where the embedder's value would be missing,
makes no interpreter (`FlagAtEnd`).

The module also proves what **Templates** states (`LibraryAssumption`: a class
template's pack is its last parameter, a default is an argument for its
parameter, an integer is named with an integral type; `MaxStringsAssumption`).
`SpecializationsAreExact`: every specialization was asked for (`Made`), so its
arguments were accepted. If they are all types, each was named, is a default or
was taken by the pack (`TypesOnly`); the loop that reads them back is determined
by its turns (`TurnsAgree`) and shows them in order (`UnpackedIs`), and so shown
they are accepted and make the same specialization (`NamesIt`). That an integer
keeps its value needs that the powers of two are positive (`Power`) and the
remainders of one turn on either side of zero.

**VTableOverlayProofs** (`ClassAssumption`, `ParameterAssumption`,
`SlotAssumption`). `OverlayTables`, `OverlayDispatch` and `OverlayHooks`, for
clients that neither stack on a hooked overlay nor tear down out of order
(`~Restack`, `~AnyOrder`; both are client contracts whose breach the table above
lists). Everything is read off the stack of installs in force: the original
table of each overlay is the one below it, only the newest may carry a hook, and
a word of a block is the newest replacement at or below its layer. An object
points at the top of its stack as long as anything dispatches through it.

**CallsProofs** (`ProgramAssumption`, `BoundsAssumption`). `CallsBlocks`: the
caller's note of each block agrees with the heap (`BlockOK`), and every stored
wrapper binds its arguments as the parameters ask (`WrappersOK`). `CallsArguments`
is the action property that follows from the second. `CallsReachTheirFunctions`
assumes `NamesLead`: no two functions of the program have the same declaration,
and an instantiation is called by an explicit name. The first is what C++
demands of a program, the second fails for instantiations with several packs and
for operators, which the code calls by their plain name. The program of the
`calls` run satisfies `NamesLead`.

**TracingProofs** (`TracingAssumption`: the tracer's own calls are functions,
null and indices are no handles, and what calls return and append are sequences
of pointers). `LogIsExact` and `FilesAreExact`, for any nesting of calls, any
number of containers and pointers, and calls, clears and crashes in any order.

- The log is read by three recursive functions: `Replay`, `CallsIn` and
  `RegisterHandles`. Each is determined by its turns (`LoopRuns`, by a least
  counterexample, `LeastOf`), and lemmas say what one line more
  (`AppendShows`, `CallsInAppend`), names for the elements of a vector
  (`ElementsShown`, `ElementsNamed`), or a finished call in the place of its
  placeholder (`CloseShown`, `CloseNamed`) make of the result. The last is the
  hard one: the destructor changes a line that is not at the end, and that
  changes nothing else only because just comments follow it (`OpenAt`).
- The invariant, `TracingInv`, says that every name and buffer the tracer gave
  out is declared by a line or came from `JitCall`, and that no line declares
  more (`NamesOK`); that replaying binds a name to its pointer unless it was
  read out of a buffer others changed (`BindOK`); that it fills a buffer as its
  container was, up to what the call in progress has added (`ContentOK`); that
  the calls the tracer knows are the innermost ones and the outermost of them is
  the one with a line, which has not returned (`FramesOK`, `OpenOK`); and that
  the log makes the calls made, from the region's start on those of the region
  (`CallsOK`). `ContentOK` is what `ReplayBindsSame` lacks to be inductive: a
  later call reads names out of a buffer that several calls have filled.
- A call's return is the long case: `RegionLeft` says what lines it leaves, and
  `ReturnCloses`, `ReturnNames`, `ReturnBinds`, `ReturnContent` and
  `ReturnCalls` show each part of the invariant. A step that writes a file
  changes nothing of the tracer (`DumpChanges`), although it makes traced calls.

### Model-checked only

- Liveness (`CallsComplete`, `DeletionCompletes`): the prover does not reach
  temporal properties under fairness.
- `PathsExact`, `FreedExactly`, `NamesLeadBack`, `AnswersIndependentOfHistory`,
  `TypesAndLayout`, `AddressesExact`, `BinaryKeepsItsAddress`: their modules
  compute over trees, paths and types with RECURSIVE operators, which the prover
  does not accept.

## 5. Not modelled

Ranking of viable overloads, constant evaluation and the text of generated
wrappers: what they say is decided by Clang. Queries that only print. Code
completion and build information. The C API and the dispatch table forward
calls. Path detection runs processes; the model takes their answers. The API
generator runs at build time. Cling's branches and the version shims of
`Compatibility.h`. Windows, macOS and Emscripten branches and the layouts of
COFF and Mach-O files; the overlay uses the Itanium layout. Captured text is
opaque: that the returned string stops at a NUL byte is not represented, and
`dup`, `dup2` and the seeks are taken to succeed; texts are smaller than a
`FILE`'s buffer, and one interpreter is active throughout. An overlay's `base` is taken
to be the class of the object, as the API asks. The library manager's file
system does not change during a run; the path cache's does.

Smaller things the definitions leave out, component by component.

- Library manager: a relative spelling that `loadLibrary` opens without a lookup.
- Calls: a destructor wrapper that does not compile (`CppInterOp.cpp` 5343); the
  destructors of the program all do. `compileFunction` changes the access control
  option and restores it, on both ways, within the step, so nothing sees it
  changed.
- Wrappers: the `const` cast of the receiver (`CppInterOp.cpp` 4349) takes no part
  in the choice of an overload.
- Reflection: overloads are ranked only by whether an argument binds, converts,
  has the parameter's own type, or has it and moves. A member of a base that a
  class has twice is found, where Clang reports an ambiguity and `GetNamed` answers
  null; no property depends on it.
- Tracing: a behaviour writes one region file, where the code names a file for
  each start.
- Allocation analysis: expressions are variables, allocations, calls, null and
  conditional operators of these; a `switch`, a `goto`, `try` and lambdas are left
  out. Loops of any kind are one statement. The family of `ownership` has loops
  and conditional operators of which the analysis is right; those of which it is
  wrong are in the table of section 3.
- Handler, overlay and library hazards that only a client can bring about
  (`LateRegistration`, `Restack`, `AnyOrder`, aliases) are shown by the
  counterexamples of that table and excluded from the passing runs.

## 6. What is next

1. `cached_realpath` as a loop over the components that are left, as the walk over
   needed libraries is one, which would bring `PathsExact` within reach of the
   loop lemmas of ProcessProofs.
