------------------------------- MODULE Wrappers -------------------------------
(***************************************************************************)
(* get_wrapper_code: the C function that calls a given C++ function with   *)
(* arguments from an array.  Its text is left out; what stays is what each *)
(* clause does with its arguments and its result, which function the name  *)
(* it prints reaches, and whether all that compiles.                       *)
(*                                                                         *)
(* A function is a record of the table Fns.  Its types are words: "int",   *)
(* "copyable" and "moveOnly" are taken by value, "T&", "T&&" and "T*" are  *)
(* what they look like, "fnptr", "fnref", "memptr", "arrayref" and         *)
(* "lambda" need a typedef or a spelling of their own.                     *)
(***************************************************************************)
EXTENDS Naturals, Sequences, FiniteSets, SequencesExt

VARIABLE Fns      \* name -> the function's declaration; given with the program

-----------------------------------------------------------------------------
(* Types *)

Types == {"int", "copyable", "moveOnly", "T&", "T&&", "T*", "fnptr", "fnref", "memptr", "arrayref", "lambda"}

\* refType and isPointer; the typedef some types need has a number of its own
\* and no other effect.
collect_type_info(T, forArgument) ==
  [ref |-> IF T \in {"fnptr", "fnref", "T&", "arrayref"} THEN "lvalue"
           ELSE IF T = "T&&" THEN "rvalue" ELSE "none",
   pointer |-> T = "T*"]

IsCopyConstructorDeleted(T) == T = "moveOnly"

\* A bug: a parameter taken by value is always moved from.
BindAlwaysMove(T) ==
  LET info == collect_type_info(T, TRUE)
  IN  IF info.ref = "lvalue" THEN "lvalue"
      ELSE IF info.ref = "none" /\ info.pointer THEN "load"
      ELSE "move"

\* What the i-th argument expression makes of args[i]: an lvalue or an xvalue
\* of it, the pointer in it, or a copy.
Bind(T) ==
  LET info == collect_type_info(T, TRUE)
  IN  IF info.ref = "lvalue" THEN "lvalue"
      ELSE IF info.ref = "none" /\ info.pointer THEN "load"
      ELSE IF info.ref = "rvalue" \/ IsCopyConstructorDeleted(T) THEN "move"
      ELSE "copy"

\* What is put in ret: the address of the result, the pointer, or the value.
ReturnMode(T) ==
  LET info == collect_type_info(T, FALSE)
  IN  CASE T = "void"          -> "nothing"
        [] info.ref # "none"   -> "address"
        [] info.pointer        -> "pointer"
        [] OTHER               -> "value"

-----------------------------------------------------------------------------
(* Which function the call reaches *)

isDefaultConstructor(F) == F.kind = "ctor" /\ F.min = 0

op_flag(F) == F.operator \in {"no", "()"}

ShouldCastFunction(F, N) ==
  F.kind = "function" /\ N = Len(F.params) /\ op_flag(F) /\ ~F.instantiation

\* A template instantiation is named with its arguments, unless consecutive
\* packs or an operator make that impossible.
ExplicitName(F) == F.instantiation /\ F.packs <= 1 /\ F.operator = "no"

\* An argument expression of a kind is accepted by a parameter.
Accepts(T, arg) ==
  /\ T = arg.type \/ {T, arg.type} \subseteq {"copyable", "T&", "T&&"} \/ {T, arg.type} \subseteq {"moveOnly", "T&&"}
  /\ T = "T&&" => arg.bind = "move"
  /\ T = "T&"  => arg.bind # "move"
  /\ T = "moveOnly" => arg.bind = "move"

Candidates(F, N) ==
  {g \in DOMAIN Fns : LET G == Fns[g] IN
     /\ G.name = F.name /\ G.scope = F.scope /\ G.kind = F.kind
     /\ ExplicitName(F) => G.instantiation
     /\ N \in G.min..Len(G.params)
     /\ \A i \in 1..N : Accepts(G.params[i], [type |-> F.params[i], bind |-> Bind(F.params[i])])}

\* Overload resolution: a function that is no template first, then the only
\* one left.
Reached(F, N) ==
  LET all   == Candidates(F, N)
      plain == {g \in all : ~Fns[g].instantiation}
      best  == IF plain = {} THEN all ELSE plain
  IN  IF ShouldCastFunction(F, N)
      THEN CHOOSE g \in DOMAIN Fns : Fns[g] = F
      ELSE IF Cardinality(best) = 1 THEN CHOOSE g \in best : TRUE ELSE "ambiguous"

-----------------------------------------------------------------------------
(* The clauses *)

\* ClassName(args...): the constructors compete for the arguments.
make_narg_ctor(F, N) ==
  [reach |-> Reached(F, N), binds |-> [i \in 1..N |-> Bind(F.params[i])], rvalueObject |-> FALSE,
   ret |-> "object"]

\* A method with && is called on an rvalue, static_cast<T&&>(*obj).
make_narg_call(F, N) ==
  [reach |-> Reached(F, N), binds |-> [i \in 1..N |-> Bind(F.params[i])],
   rvalueObject |-> F.kind = "method" /\ F.refq = "&&", ret |-> ReturnMode(F.ret)]

\* What is done with N arguments, and where the result goes.
Clause(F, N) ==
  IF F.kind = "ctor" THEN make_narg_ctor(F, N) ELSE make_narg_call(F, N)

\* A bug: the last default is left out.
ClauseArgsButLast(F) == F.min..(IF F.min = Len(F.params) THEN F.min ELSE Len(F.params) - 1)

ClauseArgs(F) == F.min..Len(F.params)

\* One clause when nothing has a default, whatever nargs is; else one for each
\* number of arguments, and none for any other.
Clauses(F) == [N \in ClauseArgs(F) |-> Clause(F, N)]

ClauseFor(F, nargs) ==
  IF F.min = Len(F.params) THEN <<Clauses(F)[F.min]>>
  ELSE IF nargs \in DOMAIN Clauses(F) THEN <<Clauses(F)[nargs]>> ELSE <<>>

\* The address of a result that is not an lvalue cannot be taken, an abstract
\* class not be constructed, an overload not be ambiguous.
Compiles(F, withAccessControl) ==
  /\ F.access = "public" \/ ~withAccessControl
  /\ \A N \in ClauseArgs(F) : Clauses(F)[N].reach # "ambiguous"
  /\ F.kind # "ctor" => F.ret \notin {"T&&", "fnptr"}
  /\ F.kind = "ctor" => ~F.abstract

-----------------------------------------------------------------------------
(* Definitions *)

\* The pattern of an instantiation is no template itself: its body may be in a
\* library.
PatternElsewhere(P) == P.tk = "NonTemplate" \/ (P.tk # "FunctionTemplate" /\ P.explicit)

\* For a function without a definition: "ok" as it is, to "instantiate", or a
\* "failure".
Undefined(F, hasAddress) ==
  CASE F.tk = "NonTemplate"      -> "ok"
    [] F.tk = "FunctionTemplate" -> "failure"
    [] ~F.instantiation          -> "ok"
    [] F.pattern.tk = "none"     -> "failure"
    [] PatternElsewhere(F.pattern) -> "ok"
    [] F.tk = "FunctionTemplateSpecialization" /\ hasAddress -> "ok"
    [] ~F.pattern.body           -> "failure"
    [] OTHER                     -> IF F.implicitlyInstantiable THEN "instantiate" ELSE "ok"

\* And for one that has: deleted functions have no wrapper.
DefinitionUsable(F) == F.tk # "FunctionTemplate" /\ ~F.deleted /\ ~F.lateParsed
=============================================================================
