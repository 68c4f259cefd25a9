------------------------------- MODULE Ownership -------------------------------
(***************************************************************************)
(* A client that frees what it got the way the analysis of the called      *)
(* function says, and what really happens to each object: the analysis is  *)
(* right when no object is freed twice or by what does not fit it, and one *)
(* the client is done with has been freed.                                 *)
(***************************************************************************)
EXTENDS AllocationAnalysis

CONSTANTS
    Programs,     \* the programs considered
    Sources,      \* functions the client calls for a pointer
    Sinks,        \* functions of one parameter it passes a pointer to
    MaxObjects,   \* bound: pointers a client gets
    Turns,        \* bound: how often the body of a loop runs
    Fuel          \* bound: calls inside one another

VARIABLES
    program,
    objects       \* what the client got: [alloc, fn, holds, freedBy, spared],
                  \* spared: the function it was given to has a way that frees
                  \* its argument and went another

vars == <<program, objects>>

-----------------------------------------------------------------------------
(* What C++ does: the outcomes of a call, a branch going either way. *)

Object(kind) == <<"object", kind>>
Argument(i)  == <<"argument", i>>
Borrowed     == <<"borrowed">>
NullPointer  == <<"null">>
Running      == <<"running">>

Global(env, v) == IF v \in DOMAIN env THEN env[v] ELSE Borrowed

RECURSIVE Outcomes(_, _, _, _), Exec(_, _, _, _), Eval(_, _, _, _), Loop(_, _, _, _, _)

\* [val, freed]: freed is a sequence of <<pointer, by what>>.
Eval(P, env, e, fuel) ==
  CASE e.e = "new"   -> {[val |-> IF e.placement THEN Borrowed ELSE Object(IF e.array THEN "NewArr" ELSE "New"), freed |-> <<>>]}
    [] e.e = "var"   -> {[val |-> Global(env, e.v), freed |-> <<>>]}
    [] e.e = "null"  -> {[val |-> NullPointer, freed |-> <<>>]}
    [] e.e = "other" -> {[val |-> Borrowed, freed |-> <<>>]}
    [] e.e = "cond"  -> Eval(P, env, e.then, fuel) \cup Eval(P, env, e.else, fuel)
    [] e.e = "call"  -> Outcomes(P, e.fn, [i \in DOMAIN e.args |-> Global(env, e.args[i].v)], fuel)

Freed(S, ptr, how) == [S EXCEPT !.freed = IF ptr = NullPointer THEN @ ELSE Append(@, <<ptr, how>>)]

After(S, x) == [S EXCEPT !.freed = @ \o x.freed]

Step(P, S, st, fuel) ==
  CASE st.s = "decl"   -> {[After(S, x) EXCEPT !.env = With(@, st.v, x.val)] : x \in Eval(P, S.env, st.init, fuel)}
    [] st.s = "assign" -> {[After(S, x) EXCEPT !.env = With(@, st.v, IF st.compound THEN Borrowed ELSE x.val)] :
                             x \in Eval(P, S.env, st.rhs, fuel)}
    [] st.s = "return" -> {[After(S, x) EXCEPT !.ret = x.val] : x \in Eval(P, S.env, st.val, fuel)}
    [] st.s = "delete" -> {Freed(S, Global(S.env, st.arg.v), IF st.array THEN "DeleteArr" ELSE "Delete")}
    [] st.s = "call"   -> {After(S, x) : x \in Eval(P, S.env, st, fuel)}
    [] st.s = "if"     -> Exec(P, S, st.then, fuel) \cup Exec(P, S, st.else, fuel)
    [] st.s = "while"  -> Loop(P, S, st.body, fuel, Turns)

Loop(P, S, body, fuel, turns) ==
  IF S.ret # Running \/ turns = 0 THEN {S}
  ELSE {S} \cup UNION {Loop(P, S1, body, fuel, turns - 1) : S1 \in Exec(P, S, body, fuel)}

Exec(P, S, sts, fuel) ==
  IF sts = <<>> \/ sts = NoElse \/ S.ret # Running THEN {S}
  ELSE UNION {Exec(P, S1, Tail(sts), fuel) : S1 \in Step(P, S, Head(sts), fuel)}

\* What the attributes of a function without a body promise of it: one that
\* holds its argument frees it later.
Promised(F, args) ==
  LET kind == IsAllocator(F)
      rets == IF kind \in AllocKinds THEN {Object(kind), NullPointer} ELSE {Borrowed}
      takes == SelectSeq([i \in DOMAIN args |-> i], LAMBDA i : GetOwnershipBehaviour(F) \cap {"Takes", "Holds"} # {} /\ i - 1 \in GetDeallocationIndexes(F))
  IN  {[val |-> r, freed |-> [n \in DOMAIN takes |-> <<args[takes[n]], "Free">>]] : r \in rets}

Outcomes(P, fn, args, fuel) ==
  LET F   == P[fn]
      env == [v \in Range(F.params) |-> args[IndexOf(F, v)]]
  IN  CASE fuel = 0           -> {}
        [] F.builtin = "free" -> {[val |-> Borrowed, freed |-> IF args[1] = NullPointer THEN <<>> ELSE <<<<args[1], "Free">>>>]}
        [] F.builtin = "operator new"   -> {[val |-> Object("OperatorNew"), freed |-> <<>>]}
        [] F.builtin = "operator new[]" -> {[val |-> Object("OperatorNewArr"), freed |-> <<>>]}
        [] F.body = NoBody    -> Promised(F, args)
        [] OTHER -> {[val |-> IF S.ret = Running THEN Borrowed ELSE S.ret, freed |-> S.freed] :
                       S \in Exec(P, [env |-> env, ret |-> Running, freed |-> <<>>], F.body, fuel - 1)}

-----------------------------------------------------------------------------
(* The client. *)

Deallocator == [New |-> "Delete", NewArr |-> "DeleteArr", Malloc |-> "Free",
                OperatorNew |-> "Free", OperatorNewArr |-> "Free"]

\* How a returned pointer is held: the attributes first, then the body.
Holds(fn) ==
  IF IsAllocator(program[fn]) # "Unknown" THEN IsAllocator(program[fn]) ELSE GetAllocType(program, fn)

\* What a function does to its parameter: by attribute, or by its body.
Takes(fn) ==
  IF 0 \in GetDeallocationIndexes(program[fn]) \/ IsDeallocator(program[fn]) THEN "Free"
  ELSE GetDeallocType(program, fn)[1]

Init == program \in Programs /\ objects = <<>>

Get(fn) ==
  /\ Len(objects) < MaxObjects
  /\ \E x \in Outcomes(program, fn, <<Borrowed>>, Fuel) :
       /\ x.val # NullPointer
       /\ objects' = Append(objects, [alloc |-> IF x.val[1] = "object" THEN x.val[2] ELSE "borrowed",
                                      fn |-> fn, holds |-> Holds(fn), freedBy |-> <<>>, spared |-> FALSE])
  /\ UNCHANGED program

Owned(i) == objects[i].holds \in AllocKinds

Dispose(i) ==
  /\ Owned(i)
  /\ objects' = [objects EXCEPT ![i].freedBy = Append(@, Deallocator[objects[i].holds]), ![i].holds = "disposed"]
  /\ UNCHANGED program

\* A pointer is passed on when the sink leaves it alone, or frees it as its
\* owner would; then it is the sink's.
PassOn(i, fn) ==
  /\ Owned(i) /\ Takes(fn) \in {"None", Deallocator[objects[i].holds]}
  /\ LET ways    == Outcomes(program, fn, <<Argument(i)>>, Fuel)
         mine(x) == SelectSeq(x.freed, LAMBDA f : f[1] = Argument(i))
     IN  \E x \in ways :
           objects' = [objects EXCEPT
             ![i].freedBy = @ \o [n \in DOMAIN mine(x) |-> mine(x)[n][2]],
             ![i].spared  = mine(x) = <<>> /\ \E y \in ways : mine(y) # <<>>,
             ![i].holds   = IF Takes(fn) = "None" THEN @ ELSE "given away"]
  /\ UNCHANGED program

Next ==
  \/ \E fn \in Sources : Get(fn)
  \/ \E i \in DOMAIN objects : Dispose(i)
  \/ \E i \in DOMAIN objects, fn \in Sinks : PassOn(i, fn)

Spec == Init /\ [][Next]_vars

-----------------------------------------------------------------------------

\* The analysis answers with one of its types, never with the missing value it
\* computes with, also for a function that only returns what it returns itself.
TypeOK ==
  /\ \A i \in DOMAIN objects :
       /\ objects[i].alloc \in AllocKinds \cup {"borrowed"} /\ objects[i].spared \in BOOLEAN
       /\ objects[i].holds \in AllocTypes \cup {"disposed", "given away"}
       /\ \A n \in DOMAIN objects[i].freedBy : objects[i].freedBy[n] \in DeallocKinds
  /\ \A fn \in Sources : Holds(fn) \in AllocTypes
  /\ \A fn \in Sinks : Takes(fn) \in DeallocTypes

\* What a client that believes GetAllocType and GetDeallocType frees, it frees
\* by what fits its allocation, whichever branches the functions took; a
\* pointer that is not its own is not freed.
FreedAsAllocated ==
  \A i \in DOMAIN objects : \A n \in DOMAIN objects[i].freedBy :
    /\ objects[i].alloc # "borrowed"
    /\ objects[i].freedBy[n] = Deallocator[objects[i].alloc]

\* A pointer the client and a function it was passed to share an opinion of is
\* not freed by both: a function said to leave it alone does, on every way.
FreedOnce == \A i \in DOMAIN objects : Len(objects[i].freedBy) <= 1

Done(i) == objects[i].holds \in {"disposed", "given away"}

\* A pointer the client is done with is freed: a function said to free it does
\* so on one of its ways at least, and when it went another way, that is noted.
FreedInTheEnd == \A i \in DOMAIN objects : Done(i) => Len(objects[i].freedBy) = 1 \/ objects[i].spared

\* An allocation is never taken for no allocation: its kind is known, or it is
\* said to be unknown (and then the client keeps it for ever).
AllocationSeen ==
  \A i \in DOMAIN objects : objects[i].alloc # "borrowed" => objects[i].holds \notin {"None", "Null"}

\* A client that does with its pointers what GetAllocType and GetDeallocType say
\* frees none twice, frees each by what fits its allocation, takes no allocation
\* for none, and leaks none of those it is done with, except in a function that
\* frees its parameter only on some of its ways.
FreedExactly == TypeOK /\ FreedAsAllocated /\ FreedOnce /\ FreedInTheEnd /\ AllocationSeen

\* Without that exception: the API says that GetDeallocType analyses the "memory
\* deallocation behaviour" of a function, but VisitCXXDeleteExpr notes a delete
\* that stands under a condition as any other.
GivenAwayIsFreed == \A i \in DOMAIN objects : Done(i) => Len(objects[i].freedBy) = 1

\* What CppInterOp.cpp says at VisitReturnStmt: "If function's allocation
\* behaviour differs between different cases, analyzer returns unknown."
DifferingIsUnknown ==
  \A i, j \in DOMAIN objects :
    objects[i].fn = objects[j].fn /\ objects[i].alloc # objects[j].alloc
      => GetAllocType(program, objects[i].fn) = "Unknown"
=============================================================================
