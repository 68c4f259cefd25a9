-------------------------------- MODULE Calls ---------------------------------
(***************************************************************************)
(* Calls of C++ functions from the outside: MakeFunctionCallable and the   *)
(* stores of compiled wrappers, JitCall's three kinds of call, and         *)
(* Allocate, Construct, Destruct and Deallocate.                           *)
(*                                                                         *)
(* The caller follows the documentation of these functions and keeps a     *)
(* note of what it believes of each block of memory; the heap is what the  *)
(* wrappers really did to it.                                              *)
(***************************************************************************)
EXTENDS Wrappers, FiniteSetsExt

CONSTANTS Program,     \* the functions that are declared
          Classes,     \* the classes objects are made of
          MaxBlocks,   \* blocks of memory in a behaviour
          MaxCount,    \* objects in a block
          MaxWrappers  \* wrappers compiled in a behaviour

ASSUME ProgramAssumption ==
  /\ IsFiniteSet(DOMAIN Program) /\ "ambiguous" \notin DOMAIN Program
  /\ \A f \in DOMAIN Program :
       LET F == Program[f]
       IN  /\ F.params \in Seq(Types) /\ F.min \in 0..Len(F.params)
           /\ F.kind \in {"ctor", "dtor"} => F.scope \in Classes
ASSUME BoundsAssumption == {MaxBlocks, MaxCount, MaxWrappers} \subseteq Nat /\ MaxCount > 0

VARIABLES
  instantiated,   \* functions whose definition a wrapper asked for
  WrapperStore,   \* functions that have a wrapper -> for a number of arguments, what it runs
  DtorWrapperStore, \* classes that have a destructor wrapper
  AccessControl,  \* the language option
  heap,           \* block -> its class, how it was made, its objects, freed
  belief,         \* block -> what the caller believes: "raw", "made", "freed"
  ub,             \* undefined behaviour the wrappers ran into
  last            \* the last call: asked for, arguments, what ran

vars == <<Fns, instantiated, WrapperStore, DtorWrapperStore, AccessControl, heap, belief, ub, last>>

Nothing    == "nothing"
Null       == 0                \* no block
NullObject == <<0, 0>>
Variable   == MaxBlocks + 1    \* a variable of the caller's own
NoCall  == [asked |-> Nothing, nargs |-> 0, ran |-> <<>>, moves |-> {}]

-----------------------------------------------------------------------------
(* MakeFunctionCallable *)

hasDefinition(f) == Fns[f].body \/ f \in instantiated

\* Private default constructors and members a public using-declaration
\* introduces can be called.
withAccessControl(F, isUsingShadow) ==
  ~isUsingShadow /\ ~isDefaultConstructor(F)

get_wrapper_code(f) ==
  LET F == Fns[f]
  IN  CASE hasDefinition(f) -> IF DefinitionUsable(F) THEN "ok" ELSE "failure"
        [] OTHER            -> Undefined(F, F.address)

\* What LangOpts.AccessControl is after a compilation with the given setting:
\* what it was before, whether or not the code compiled.
compileFunction(saved, with, ok) == saved

Stored(f, clauses) ==
  [g \in DOMAIN WrapperStore \cup {f} |-> IF g = f THEN clauses ELSE WrapperStore[g]]

\* make_wrapper, with the instantiation it may leave behind even when the
\* wrapper does not compile.
make_wrapper(f, isUsingShadow) ==
  LET F    == Fns[f]
      code == get_wrapper_code(f)
      with == withAccessControl(F, isUsingShadow)
      ok   == Compiles(F, with)
  IN  IF f \in DOMAIN WrapperStore \/ code = "failure"
      THEN UNCHANGED <<instantiated, WrapperStore, AccessControl>>
      ELSE /\ Cardinality(DOMAIN WrapperStore) < MaxWrappers
           /\ instantiated' = instantiated \cup (IF code = "instantiate" THEN {f} ELSE {})
           /\ WrapperStore' = IF ok THEN Stored(f, [n \in F.min..Len(F.params) |-> ClauseFor(F, n)])
                              ELSE WrapperStore
           /\ AccessControl' = compileFunction(AccessControl, with, ok)

\* A wrapper that destroys and frees; it never checks access.
make_dtor_wrapper(C) ==
  /\ DtorWrapperStore' = DtorWrapperStore \cup {C}
  /\ AccessControl' = compileFunction(AccessControl, FALSE, TRUE)

MakeFunctionCallable(f, isUsingShadow) ==
  /\ IF Fns[f].kind = "dtor"
     THEN make_dtor_wrapper(Fns[f].scope) /\ UNCHANGED <<instantiated, WrapperStore>>
     ELSE make_wrapper(f, isUsingShadow) /\ UNCHANGED DtorWrapperStore
  /\ last' = NoCall
  /\ UNCHANGED <<Fns, heap, belief, ub>>

-----------------------------------------------------------------------------
(* Memory *)

Blocks == DOMAIN heap
block(C, how, n, state) == [cls |-> C, how |-> how, objs |-> [i \in 1..n |-> state], freed |-> FALSE]
HasObject(st) == st \in {"live", "moved"}
Usable(b) == {i \in DOMAIN heap[b].objs : ~heap[b].freed /\ HasObject(heap[b].objs[i])}

Allocate(C, count) ==
  /\ Len(heap) < MaxBlocks
  /\ heap' = Append(heap, block(C, "operatorNew", count, "raw"))
  /\ belief' = Append(belief, "raw")
  /\ last' = NoCall
  /\ UNCHANGED <<Fns, instantiated, WrapperStore, DtorWrapperStore, AccessControl, ub>>

Deallocate(b) ==
  /\ heap[b].how = "operatorNew" /\ belief[b] = "raw"
  /\ heap' = [heap EXCEPT ![b].freed = TRUE]
  /\ belief' = [belief EXCEPT ![b] = "freed"]
  /\ last' = NoCall
  /\ UNCHANGED <<Fns, instantiated, WrapperStore, DtorWrapperStore, AccessControl, ub>>

-----------------------------------------------------------------------------
(* JitCall *)

\* The checks on a call, assertions in the code: a caller that follows the
\* documentation passes them.
AreArgumentsValid(F, result, nargs, self, nary) ==
  /\ F.kind = "ctor" => result # Null
  /\ F.min <= nargs
  /\ F.kind = "method" => self # NullObject
  /\ F.kind # "ctor" /\ F.ret # "void" => result # Null
  /\ F.kind = "ctor" => nary # 0 /\ (F.min # 0 => nary <= 1)
  /\ F.kind # "dtor"

\* What the constructor wrapper makes: nary objects, or one.
constructed(F, nary) == IF isDefaultConstructor(F) /\ nary > 1 THEN nary ELSE 1

\* ::new at the arena or new; an array of them for nary > 1. ran: the clause the
\* wrapper enters, if any.
InvokeConstructor(f, ran, nary, nargs, arena, moves) ==
  LET F     == Fns[f]
      n     == constructed(F, nary)
      moved == [b \in Blocks |->
                 [heap[b] EXCEPT !.objs = [i \in DOMAIN heap[b].objs |->
                    IF <<b, i>> \in moves THEN "moved" ELSE heap[b].objs[i]]]]
  IN  /\ last' = [asked |-> f, nargs |-> nargs, moves |-> moves,
                  ran |-> [k \in DOMAIN ran |-> ran[k].reach]]
      /\ IF ran = <<>> THEN UNCHANGED <<heap, belief, ub>>
         ELSE IF arena = Null
         THEN /\ Len(heap) < MaxBlocks
              /\ heap' = Append(moved, block(F.scope, IF n > 1 THEN "newArray" ELSE "new", n, "live"))
              /\ belief' = Append(belief, "made")
              /\ UNCHANGED ub
         ELSE /\ heap' = [moved EXCEPT ![arena].objs =
                            [i \in DOMAIN moved[arena].objs |-> IF i <= n THEN "live" ELSE moved[arena].objs[i]]]
              /\ belief' = [belief EXCEPT ![arena] = "made"]
              /\ ub' = IF \E i \in 1..n : HasObject(heap[arena].objs[i]) THEN ub \cup {"constructedTwice"} ELSE ub

\* Which of the arguments the call moves from: the objects behind rvalue
\* references may be, those behind by-value parameters of a move-only class are.
MustMove(F, binds, args) ==
  {args[i] : i \in {j \in DOMAIN binds : binds[j] = "move" /\ F.params[j] # "T&&"}}
MayMove(F, binds, args) ==
  {args[i] : i \in {j \in DOMAIN binds : binds[j] = "move"}}

ClassOf(T) == IF T = "moveOnly" THEN "M" ELSE "C"
ObjectsOf(C) == {<<b, i>> : b \in {x \in Blocks : heap[x].cls = C}, i \in 1..MaxCount}
Objects(C) == {o \in ObjectsOf(C) : o[2] \in Usable(o[1])}

\* Arguments the caller can pass; an int needs no object.
Arguments(F, n) ==
  {a \in [1..n -> Objects("C") \cup Objects("M") \cup {NullObject}] :
     \A i \in 1..n : IF F.params[i] = "int" THEN a[i] = NullObject
                     ELSE a[i] \in Objects(ClassOf(F.params[i]))}

\* Where the result goes: raw memory for an object, the caller's own variable
\* for anything else.
Results(F) ==
  IF F.ret \in {"copyable", "moveOnly"}
  THEN {b \in Blocks : heap[b].cls = ClassOf(F.ret) /\ belief[b] = "raw" /\ Len(heap[b].objs) = 1}
  ELSE {IF F.ret = "void" THEN Null ELSE Variable}

Invoke(f, nargs, args, self, result, extra) ==
  LET F   == Fns[f]
      ran == WrapperStore[f][nargs]
      made == result \in Blocks
      moves == IF ran = <<>> THEN {} ELSE MustMove(F, ran[1].binds, args)
                 \cup (IF extra THEN MayMove(F, ran[1].binds, args)
                                       \cup (IF ran[1].rvalueObject THEN {self} ELSE {}) ELSE {})
  IN  /\ AreArgumentsValid(F, result, nargs, self, 1)
      /\ heap' = [b \in Blocks |-> [heap[b] EXCEPT !.objs = [i \in DOMAIN heap[b].objs |->
                    IF <<b, i>> \in moves THEN "moved"
                    ELSE IF b = result /\ ran # <<>> THEN "live" ELSE heap[b].objs[i]]]]
      /\ belief' = IF made THEN [belief EXCEPT ![result] = "made"] ELSE belief
      /\ ub' = IF made /\ ran # <<>> /\ HasObject(heap[result].objs[1]) THEN ub \cup {"constructedTwice"} ELSE ub
      /\ last' = [asked |-> f, nargs |-> nargs, moves |-> moves,
                  ran |-> [k \in DOMAIN ran |-> ran[k].reach]]
      /\ UNCHANGED <<Fns, instantiated, WrapperStore, DtorWrapperStore, AccessControl>>

\* InvokeConstructor from a JitCall, one object from arguments; Invoke of a
\* constructor comes here too.
InvokeCtor(f, nargs, args, arena, extra) ==
  LET F == Fns[f]
      ran == WrapperStore[f][nargs]
      moves == IF ran = <<>> THEN {} ELSE MustMove(F, ran[1].binds, args)
                 \cup (IF extra THEN MayMove(F, ran[1].binds, args) ELSE {})
  IN  /\ AreArgumentsValid(F, Variable, nargs, NullObject, 1)
      /\ InvokeConstructor(f, ran, 1, nargs, arena, moves)
      /\ UNCHANGED <<Fns, instantiated, WrapperStore, DtorWrapperStore, AccessControl>>

\* Construct: a class stands for its default constructor.
Construct(f, arena, count) ==
  /\ AreArgumentsValid(Fns[f], Variable, 0, NullObject, count)
  /\ make_wrapper(f, FALSE)
  /\ IF f \in DOMAIN WrapperStore'
     THEN InvokeConstructor(f, WrapperStore'[f][0], count, 0, arena, {})
     ELSE last' = NoCall /\ UNCHANGED <<heap, belief, ub>>
  /\ UNCHANGED <<Fns, DtorWrapperStore>>

\* A bug: the loop stops before the first object.
destroyedButFirst(nary) == IF nary = 0 THEN {1} ELSE 2..nary

\* The objects the destructor runs for, without a free.
destroyed(nary) == IF nary = 0 THEN {1} ELSE 1..nary

\* Destruct, and InvokeDestructor and Invoke of a JitCall for a destructor.
Destruct(b, withFree, nary) ==
  LET B    == heap[b]
      objs == IF withFree THEN DOMAIN B.objs ELSE destroyed(nary)
      form == IF nary = 0 THEN "new" ELSE "newArray"
  IN  /\ make_dtor_wrapper(B.cls)
      /\ heap' = [heap EXCEPT ![b] =
                    [cls |-> B.cls, how |-> B.how, freed |-> withFree,
                     objs |-> [i \in DOMAIN B.objs |-> IF i \in objs THEN "gone" ELSE B.objs[i]]]]
      /\ ub' = ub \cup (IF withFree /\ B.how # form THEN {"freedByAnotherForm"} ELSE {})
                  \cup (IF \E i \in objs : i \notin Usable(b) THEN {"destroyedTwice"} ELSE {})
      /\ belief' = [belief EXCEPT ![b] = IF withFree THEN "freed" ELSE "raw"]
      /\ last' = NoCall
      /\ UNCHANGED <<Fns, instantiated, WrapperStore>>

\* The caller's rule: an array is destroyed with its count and a single object
\* with none; what new made is freed with the object, what Allocate gave is not.
DestructAsDocumented(b, withFree, nary) ==
  /\ belief[b] = "made"
  /\ withFree = (heap[b].how # "operatorNew")
  /\ nary = (IF Len(heap[b].objs) > 1 THEN Len(heap[b].objs) ELSE 0)
  /\ Destruct(b, withFree, nary)

-----------------------------------------------------------------------------

Init ==
  /\ Fns = Program
  /\ instantiated = {} /\ WrapperStore = <<>> /\ DtorWrapperStore = {}
  /\ AccessControl = TRUE
  /\ heap = <<>> /\ belief = <<>> /\ ub = {}
  /\ last = NoCall

RawBlocks(C, n) == {b \in Blocks : belief[b] = "raw" /\ heap[b].cls = C /\ Len(heap[b].objs) = n /\ heap[b].how = "operatorNew"}

Next ==
  \/ \E f \in DOMAIN Fns, s \in BOOLEAN : (s => Fns[f].shadow) /\ MakeFunctionCallable(f, s)
  \/ \E C \in Classes, n \in 1..MaxCount : Allocate(C, n)
  \/ \E b \in Blocks : Deallocate(b)
  \/ \E f \in DOMAIN WrapperStore : \E n \in Fns[f].min..Len(Fns[f].params), extra \in BOOLEAN :
       \E args \in Arguments(Fns[f], n) :
         \/ /\ Fns[f].kind # "ctor"
            /\ \E self \in (IF Fns[f].kind = "method" THEN Objects(Fns[f].scope) ELSE {NullObject}),
                  result \in Results(Fns[f]) :
                 Invoke(f, n, args, self, result, extra)
         \/ /\ Fns[f].kind = "ctor"
            /\ \E arena \in {Null} \cup RawBlocks(Fns[f].scope, 1) : InvokeCtor(f, n, args, arena, extra)
  \/ \E f \in {g \in DOMAIN Fns : Fns[g].kind = "ctor"}, n \in 1..MaxCount :
       \E arena \in {Null} \cup RawBlocks(Fns[f].scope, n) : Construct(f, arena, n)
  \/ \E b \in Blocks, w \in BOOLEAN, n \in 0..MaxCount : DestructAsDocumented(b, w, n)

Spec == Init /\ [][Next]_vars

-----------------------------------------------------------------------------
(* Properties *)

ObjectStates == {"raw", "live", "moved", "gone"}

TypeOK ==
  /\ instantiated \subseteq DOMAIN Fns
  /\ DOMAIN WrapperStore \subseteq DOMAIN Fns
  /\ DtorWrapperStore \subseteq Classes
  /\ AccessControl \in BOOLEAN
  /\ Len(heap) <= MaxBlocks /\ Len(belief) = Len(heap)
  /\ \A b \in Blocks : /\ heap[b].cls \in Classes /\ heap[b].freed \in BOOLEAN
                       /\ heap[b].how \in {"new", "newArray", "operatorNew"}
                       /\ Len(heap[b].objs) \in 1..MaxCount
                       /\ \A i \in DOMAIN heap[b].objs : heap[b].objs[i] \in ObjectStates
                       /\ belief[b] \in {"raw", "made", "freed"}
  /\ last.asked \in DOMAIN Fns \cup {Nothing}

\* The caller's note of every block agrees with what the wrappers did to it -
\* all its objects exist, or none does and the memory is still there, or both
\* are gone - and no constructor, destructor or delete ran where it must not:
\* make_narg_ctor_with_return and make_dtor_wrapper together.
LifetimesExact ==
  /\ ub = {}
  /\ \A b \in Blocks :
       LET objs == {heap[b].objs[i] : i \in DOMAIN heap[b].objs}
       IN  /\ heap[b].freed = (belief[b] = "freed")
           /\ objs \subseteq IF belief[b] = "made" THEN {"live", "moved"} ELSE {"raw", "gone"}

\* Memory: after any sequence of Allocate, Construct, Destruct and Deallocate
\* the objects that exist are those the caller counts on, and nothing was
\* constructed, destroyed or freed where it must not be.
BlocksExact == TypeOK /\ LifetimesExact

\* A call with as many arguments as the function may take runs that function,
\* once, whatever its overloads, its defaults and the way it was found:
\* get_wrapper_code and the stores.
CallsTheFunction ==
  last.asked # Nothing => last.ran = <<last.asked>>

\* An object passed to a function is moved from only if the function takes it
\* by rvalue reference or cannot copy it: make_narg_call's choice per argument.
ArgumentsIntact ==
  [][\A b \in Blocks : \A i \in DOMAIN heap[b].objs :
       heap[b].objs[i] = "live" /\ heap'[b].objs[i] = "moved"
         => LET F == Fns[last'.asked]
            IN  \/ heap[b].cls = "M"
                \/ "T&&" \in {F.params[k] : k \in 1..last'.nargs}
                \/ F.kind = "method" /\ F.refq = "&&"]_vars

\* Access to members is checked again after every wrapper, also after one that
\* was compiled without the check and failed: compileFunction.
AccessChecked == AccessControl

\* A function outside the reach of the caller gets a wrapper only through a
\* public using-declaration, or as a default constructor.
OnlyReachableCalled ==
  \A f \in DOMAIN WrapperStore :
    Fns[f].access = "public" \/ Fns[f].shadow \/ isDefaultConstructor(Fns[f])

\* A wrapper calls the function it was made for, once, and only a function
\* that may be called, whatever was wrapped before and whether or not it
\* compiled (MakeFunctionCallable, get_wrapper_code, compileFunction).
CallsExact == CallsTheFunction /\ AccessChecked /\ OnlyReachableCalled
=============================================================================
