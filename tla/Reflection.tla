----------------------------- MODULE Reflection -----------------------------
(***************************************************************************)
(* The reflection API over a program that is declared in several inputs.   *)
(* Queries come in any order between the inputs; those that make Clang     *)
(* extend its tree are actions, and the answers of all of them are         *)
(* compared with each other and with what C++ says.                        *)
(***************************************************************************)
EXTENDS TypeReflection

CONSTANTS
    Program,    \* the declarations of all inputs
    Inputs,     \* how many inputs there are
    Asked,      \* the declarations clients ask about
    Names       \* the names they look up

VARIABLES
    S0,         \* what exists of the tree, see ClangAST
    next,       \* the next input
    filled      \* whether the interpreter's BuiltinMap has been populated

vars == <<AST, S0, next, filled>>

Start ==
  /\ S0 = Parse([known |-> {}, defs |-> {}], 0)
  /\ next = 1
  /\ filled = FALSE

Init == AST = Program /\ Start

Declare ==
  /\ next <= Inputs
  /\ next' = next + 1
  /\ S0' = Parse(S0, next)
  /\ UNCHANGED <<AST, filled>>

Known(kinds) == {d \in Asked \cap S0.known : isa(d, kinds)}

\* IsComplete, SizeOf, GetNumBases, IsSubclass, IsAbstract, GetOrForceDefinition.
AskDefinition(d) ==
  /\ d \in S0.known
  /\ S0' = ForceDefinition(S0, d)
  /\ UNCHANGED <<AST, next, filled>>

AskMethods(d) ==
  /\ d \in Known(RecordKinds \cup {"Typedef"})
  /\ S0' = GetClassDeclsForces(S0, d, MethodKinds)
  /\ UNCHANGED <<AST, next, filled>>

\* GetDestructor, GetDefaultConstructor, LookupConstructors.
AskMembers(d) ==
  /\ d \in Known(RecordKinds)
  /\ S0' = LookupConstructorsForces(S0, d)
  /\ UNCHANGED <<AST, next, filled>>

AskNamed(n, d) ==
  /\ d \in Known(RecordKinds \cup {"Namespace"})
  /\ S0' = GetNamedForces(S0, n, d)
  /\ UNCHANGED <<AST, next, filled>>

AskReturnType(d) ==
  /\ d \in Known(FunctionKinds)
  /\ S0' = ReturnTypeForces(S0, d)
  /\ UNCHANGED <<AST, next, filled>>

\* GetType: findBuiltinType fills the map when it is empty.
AskType ==
  /\ filled' = TRUE
  /\ UNCHANGED <<AST, S0, next>>

Next ==
  \/ Declare
  \/ AskType
  \/ \E d \in Asked : \/ AskDefinition(d) \/ AskMethods(d) \/ AskMembers(d) \/ AskReturnType(d)
                      \/ \E n \in Names : AskNamed(n, d)

Spec == Init /\ [][Next]_vars

-----------------------------------------------------------------------------
(* What must hold. *)

Classes == {d \in S0.known : isa(d, RecordKinds) /\ ~Has(d, "injected") /\ ~Has(d, "anonymous")}

\* The tree with everything done that a query could make Clang do.
Elaborated ==
  LET specs == {d \in S0.known : isa(d, {"Spec"} \cup FunctionKinds) /\ AST[d].instantiable}
      one   == FoldSet(LAMBDA d, S : Instantiate(S, d), S0, specs)
      two   == FoldSet(LAMBDA d, S : Instantiate(S, d), one,
                       {d \in one.known : isa(d, FunctionKinds) /\ AST[d].instantiable})
  IN  FoldSet(LAMBDA d, S : GetClassDeclsForces(S, d, MethodKinds), two, Classes)

\* Definitions are known declarations; the inputs come one by one.
TypeOK ==
  /\ S0.known \subseteq Decls /\ S0.defs \subseteq S0.known
  /\ next \in 1..(Inputs + 1)
  /\ filled \in BOOLEAN

\* Every query answers with the tree as it is what it would with E.
SameAnswers(E) ==
  /\ \A d \in Classes :
       /\ IsComplete(S0, d) = IsComplete(E, d)
       /\ SizeOf(S0, d) = SizeOf(E, d)
       /\ GetNumBases(S0, d) = GetNumBases(E, d)
       /\ IsAbstract(S0, d) = IsAbstract(E, d)
       /\ GetOrForceDefinition(S0, d) = GetOrForceDefinition(E, d)
       /\ \A b \in Classes : IsSubclass(S0, d, b) = IsSubclass(E, d, b)
       /\ ToSet(GetClassMethods(S0, d)) = ToSet(GetClassMethods(E, d))
       /\ \A n \in Names : GetNamed(S0, n, d) = GetNamed(E, n, d)
  /\ \A f \in Known(FunctionKinds) :
       GetFunctionReturnType(S0, f) = GetFunctionReturnType(E, f)

\* The queries that force what they need (IsComplete, SizeOf, GetNumBases,
\* IsSubclass, IsAbstract, GetOrForceDefinition, GetClassMethods, GetNamed in a
\* class, GetFunctionReturnType) answer the same whatever
\* was asked before: as if everything had been instantiated and declared.
AnswersIndependentOfHistory == SameAnswers(Elaborated)

\* Looking a declaration's name up where it was declared never leads to an
\* entity of another scope, and leads back to it when nothing else there has
\* its name (GetName, GetParentScope, GetNamed).
LookupRoundTrip ==
  \A d \in {e \in S0.known : GetName(e) # "" /\ ~isa(e, ShadowKinds \cup {"Spec", "Ctor", "Dtor"})} :
    LET p    == GetParentScope(d)
        r    == GetNamed(S0, GetName(d), p)
        same == DirectlyIn(S0, p, GetName(d), "")
    IN  /\ r \in {Null} \cup {Underlying(e) : e \in same}
        /\ same = {getCanonicalDecl(d)} /\ ~isa(d, {"FunctionTemplate"}) => r = getCanonicalDecl(d)

\* The qualified name of a namespace or class, split at "::", finds that scope
\* again, from whichever redeclaration it was printed.
QualifiedNameRoundTrip ==
  \A d \in {e \in S0.known : isa(e, {"Namespace", "Record"}) /\ GetName(e) # "" /\ ~Has(e, "injected")} :
    LET path == GetQualifiedName(d)
    IN  (\A i \in DOMAIN path : path[i][2] = <<>>) =>
          GetScopeFromCompleteName(S0, [i \in DOMAIN path |-> path[i][1]]) = getCanonicalDecl(d)

\* listed are the methods GetClassMethods gives for d, T is the tree it leaves.
MethodsAgree(T, d, listed) ==
  /\ \A n \in Names :
       GetFunctionsUsingName(T, d, n, "") =
         {FunctionBehind(m) : m \in {x \in listed : isa(FunctionBehind(x), {"Method"}) /\ GetName(x) = n}}
  /\ \A m \in listed :
       LET f == FunctionBehind(m)
       IN  /\ Cardinality({a \in {"public", "protected", "private"} : CheckMethodAccess(m, a)}) = 1
           /\ GetFunctionNumArgs(m) = GetFunctionNumArgs(f)
           /\ GetFunctionRequiredArgs(m) <= GetFunctionNumArgs(m)
           /\ GetParentScope(m) = GetParentScope(f)
           /\ IsSubclass(T, getCanonicalDecl(d), GetParentScope(m))

\* The methods a class lists and the overloads found in it by name are the same
\* functions, and a handle says of its function what the function itself says.
MethodsFoundByName ==
  \A d \in {c \in Classes : hasDefinition(S0, c)} :
    MethodsAgree(GetClassDeclsForces(S0, d, MethodKinds), d, ToSet(GetClassMethods(S0, d)))

\* Asked with the types of its own parameters, an overload is chosen from the
\* functions of its name, in whatever scope it is (GetFunctionsUsingName,
\* BestOverloadFunctionMatch; overloads here differ in more than by-value).
OwnTypesResolve ==
  \A f \in {e \in S0.known : isa(e, {"Function", "Method"}) /\ GetName(e) # ""} :
    LET candidates == SetToSeq(GetFunctionsUsingName(S0, GetParentScope(f), GetName(f), ""))
    IN  BestOverloadFunctionMatch(candidates,
          [i \in 1..GetFunctionNumArgs(f) |-> GetFunctionArgType(f, i - 1)]) = f

\* What a member operator expression finds in C++, GetOperator offers, and a
\* class with both dereferencing operators in reach is a smart pointer.
OperatorsReachable ==
  \A d \in {c \in Classes : hasDefinition(S0, c)} :
    LET inReach(op) == LookupQualifiedName(S0, d, "", op, FALSE)
    IN  /\ \A op \in {"*", "->"} : inReach(op) \subseteq GetOperator(S0, d, op, {"unary"})
        /\ inReach("*") # {} /\ inReach("->") # {} <=> isSmartPointer(S0, d)

\* Names lead back: what a handle says of its name, its scope and its
\* parameters finds the handle's entity again, by every query that looks for
\* one (GetNamed, GetScopeFromCompleteName, GetFunctionsUsingName,
\* BestOverloadFunctionMatch, GetOperator).
NamesLeadBack ==
  /\ TypeOK
  /\ LookupRoundTrip
  /\ QualifiedNameRoundTrip
  /\ MethodsFoundByName
  /\ OwnTypesResolve
  /\ OperatorsReachable

\* No path of a non-virtual base through a virtual one.
OnlyPath(d, b) ==
  LET paths == BasePaths(S0, d, b)
  IN  Len(paths) = 1 /\ \A i \in DOMAIN paths[1] : ~paths[1][i].base.virtual

\* Where a walk down a path ends up: a virtual step starts again at the place
\* the complete object gives that base.
WalkDown(d, path) ==
  FoldLeft(LAMBDA at, step : IF step.base.virtual THEN VBaseOffsetIn(S0, d, step.base.cls)
                             ELSE at + step.base.offset, 0, path)

\* GetBaseClassOffset gives the place of the base in the object; GetVariableOffset
\* of an inherited field, found by another search, agrees with it; the fields of
\* one class lie inside it and apart.
OffsetsExact ==
  \A d \in {c \in Classes : hasDefinition(S0, c) /\ getCanonicalDecl(c) = c} :
    /\ \A b \in Classes : d # b /\ IsSubclass(S0, d, b) =>
         GetBaseClassOffset(S0, d, b) = WalkDown(d, BasePaths(S0, d, b)[1])
    /\ \A b \in {c \in Classes : c = d \/ OnlyPath(d, c)} :
         \A f \in {e \in ToSet(GetDatamembers(S0, b)) : isa(e, {"Field"})} :
           GetFieldOffset(S0, f, d) = GetBaseClassOffset(S0, d, getCanonicalDecl(b))
                                        + GetFieldOffset(S0, f, Null)
    /\ LET own == {e \in ToSet(GetDatamembers(S0, d)) : isa(e, {"Field"})}
       IN  \A f \in own : /\ GetFieldOffset(S0, f, d) \in 0..(SizeOf(S0, d) - 1)
                          /\ \A g \in own \ {f} : GetFieldOffset(S0, f, d) # GetFieldOffset(S0, g, d)

\* What the members of a defined class are, from the tree alone: its fields,
\* those of its anonymous structs, and the fields using-declarations bring in.
RECURSIVE FieldsOf(_)
FieldsOf(def) ==
  UNION {CASE isa(e, {"Field"}) /\ Has(e, "anonymous") -> FieldsOf(AST[e].type.d)
           [] isa(e, {"Field"}) -> {e}
           [] OTHER -> {} : e \in {x \in S0.known : AST[x].ctx = def}}

EachFieldOnce(d, listed) ==
  /\ {e \in ToSet(listed) : isa(e, {"Field"})} = FieldsOf(getDefinition(S0, d))
  /\ Cardinality(ToSet(listed)) = Len(listed)
  /\ \A e \in ToSet(listed) :
       LET r == GetNamed(S0, GetName(e), d)
       IN  Underlying(e) \in {r} \cup (IF isa(r, {"IndirectField"}) THEN {AST[r].target} ELSE {})

\* GetDatamembers lists every field exactly once, those of anonymous structs in
\* place, and each can be found by its name in the class.
DatamembersExact ==
  \A d \in {c \in Classes : hasDefinition(S0, c)} : EachFieldOnce(d, GetDatamembers(S0, d))

Words == {"signed", "unsigned", "short", "long", "int", "char"}

\* [dcl.type.simple]: the type a sequence of these words means, <<>> if none.
Meaning(w) ==
  LET n(x) == Cardinality({i \in DOMAIN w : w[i] = x})
      size == CASE n("long") = 2 -> <<"long", "long">> [] n("long") = 1 -> <<"long">>
                [] n("short") = 1 -> <<"short">> [] OTHER -> <<>>
      once == \A x \in Words \ {"long"} : n(x) <= 1
  IN  CASE ~once \/ n("signed") + n("unsigned") > 1 \/ n("long") > 2 -> <<>>
        [] n("char") = 1 -> IF n("short") + n("long") + n("int") > 0 THEN <<>>
                            ELSE (CASE n("signed") = 1 -> <<"signed">> [] n("unsigned") = 1 -> <<"unsigned">>
                                    [] OTHER -> <<>>) \o <<"char">>
        [] n("short") + n("long") > 0 /\ n("short") * n("long") > 0 -> <<>>
        [] n("unsigned") = 1 -> <<"unsigned">> \o (IF size = <<>> THEN <<"int">> ELSE size)
        [] OTHER -> IF size = <<>> THEN <<"int">> ELSE size

Spellings == {w \in UNION {[1..k -> Words] : k \in 1..4} : Meaning(w) # <<>>}

\* Once the map is filled, every way C++ lets one write an integer type leads to
\* that type (PopulateBuiltinMap registers orders and added words type by type,
\* a later type overwriting an earlier one's keys).
BuiltinSpellings ==
  filled => \A w \in Spellings : FindBuiltin(PopulateBuiltinMap, w) = Builtin(Meaning(w))

\* For the types the program declares: a qualifier that was added is there, and
\* removing it again gives the type it was added to; taking a reference or a
\* pointer is undone by its inverse.
TypeAlgebra ==
  \A t \in {AST[d].type : d \in {e \in S0.known : isa(e, {"Var", "Field", "Typedef"})}} :
    /\ \A q \in QualKinds :
         /\ HasTypeQualifier(AddTypeQualifier(t, {q}), {q})
         /\ ~HasTypeQualifier(t, {q}) => RemoveTypeQualifier(AddTypeQualifier(t, {q}), {q}) = t
         /\ IsSameType(AddTypeQualifier(AddTypeQualifier(t, {q}), QualKinds), AddTypeQualifier(t, QualKinds))
    /\ IsSameType(GetPointeeType(GetPointerType(t)), t)
    /\ \A rvalue \in BOOLEAN : ~IsReferenceType(t) =>
         IsSameType(GetNonReferenceType(GetReferencedType(t, rvalue)), t)
    /\ GetUnderlyingType(t).k \notin {"Pointer", "LRef", "RRef", "Typedef"}

\* Types and layout are those of C++: where fields and bases lie, which fields
\* there are, what the spellings of the builtin types mean, and that type
\* qualifiers, pointers and references can be added and taken away.
TypesAndLayout ==
  /\ OffsetsExact
  /\ DatamembersExact
  /\ BuiltinSpellings
  /\ TypeAlgebra
=============================================================================
