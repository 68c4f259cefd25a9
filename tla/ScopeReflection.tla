--------------------------- MODULE ScopeReflection ---------------------------
(***************************************************************************)
(* CppInterOp.cpp: what a declaration is, what it is called, where it is   *)
(* declared and how it is found.  Every query is an operator on the state  *)
(* S of Clang's tree; a query that makes Clang extend the tree has a       *)
(* companion that returns the tree it leaves.                              *)
(***************************************************************************)
EXTENDS ClangAST

CONSTANT Int64Bits   \* the width of int64_t, scaled down

GetGlobalScope == CHOOSE d \in Decls : isa(d, {"TU"}) /\ getCanonicalDecl(d) = d

-----------------------------------------------------------------------------
(* What a declaration is. *)

\* The class is read without asking for its definition: only for defined ones.
IsAggregate(S, d) ==
  \/ isa(d, ValueKinds) /\ AST[d].type # Null /\ CanonicalType(AST[d].type).k = "Array"
  \/ isa(d, RecordKinds) /\ hasDefinition(S, d) /\ Has(getDefinition(S, d), "aggregate")

IsNamespace(d) == isa(d, {"Namespace"})

IsClass(d) == isa(d, RecordKinds)

IsFunction(d) == isa(d, FunctionKinds)

IsClassPolymorphic(S, d) ==
  isa(d, RecordKinds) /\ hasDefinition(S, d) /\ Has(getDefinition(S, d), "polymorphic")

IsTemplate(d) == isa(d, TemplateKinds)

IsTemplateSpecialization(d) == isa(d, {"Spec"})

IsTypedefed(d) == isa(d, {"Typedef"})

IsEnumScope(d) == isa(d, {"Enum"})

IsEnumConstant(d) == isa(d, {"EnumConstant"})

IsVariable(d) == isa(d, {"Var"})

\* Sema::isCompleteType, which instantiates what it can.
Complete(S, d) == IF isa(d, {"Spec"}) THEN Instantiate(S, d) ELSE S

IsComplete(S, d) ==
  /\ d # Null
  /\ isa(d, TagKinds) => hasDefinition(Complete(S, d), d)

InstantiateFunctionDefinition(S, d) == IF isa(d, FunctionKinds) THEN Instantiate(S, d) ELSE S

\* The tree GetOrForceDefinition leaves; a variable is not forced.
ForceDefinition(S, d) ==
  CASE isa(d, TagKinds)      -> Complete(S, d)
    [] isa(d, FunctionKinds) -> InstantiateFunctionDefinition(S, d)
    [] OTHER                 -> S

GetOrForceDefinition(S, d) ==
  IF isa(d, TagKinds \cup FunctionKinds \cup {"Var"}) THEN getDefinition(ForceDefinition(S, d), d)
  ELSE Null

IsAbstract(S, d) ==
  /\ isa(d, RecordKinds)
  /\ GetOrForceDefinition(S, d) # Null /\ Has(GetOrForceDefinition(S, d), "abstract")

\* The offset of a class is its size.
SizeOf(S, d) ==
  IF IsComplete(S, d) /\ isa(d, RecordKinds) THEN AST[getDefinition(Complete(S, d), d)].offset
  ELSE 0

GetIntegerTypeFromEnumScope(d) == IF isa(d, {"Enum"}) THEN AST[d].type ELSE Null

GetEnumConstants(S, d) ==
  IF isa(d, {"Enum"}) THEN SelectSeq(DeclsOf(S, d), IsEnumConstant) ELSE <<>>

GetEnumConstantType(d) == IF isa(d, {"EnumConstant"}) THEN AST[d].type ELSE Null

\* A value that int64_t cannot hold is reinterpreted.
GetEnumConstantValue(d) ==
  LET v == AST[d].offset
  IN  CASE ~isa(d, {"EnumConstant"})     -> 0
        [] v < 2^(Int64Bits - 1)         -> v
        [] OTHER                         -> v - 2^Int64Bits

-----------------------------------------------------------------------------
(* What it is called.  A printed name is the sequence of its components,   *)
(* each an identifier with its template arguments.                         *)

GetName(d) == IF isa(d, {"TU"}) THEN "" ELSE AST[d].name

Component(d, args) == <<AST[d].name, IF args /\ isa(d, {"Spec"}) THEN AST[d].params ELSE <<>> >>

\* Linkage specifications are not named; the enumerators of an unscoped
\* enumeration are printed without it.
NamedContexts(d) ==
  SelectSeq(Reverse(Enclosing(AST[d].ctx)),
            LAMBDA c : \/ isa(c, {"Namespace"} \cup RecordKinds)
                       \/ isa(c, {"Enum"}) /\ AST[c].scoped)

GetCompleteNameImpl(d, qualified) ==
  IF isa(d, {"TU"}) THEN <<>>
  ELSE (IF qualified THEN [i \in DOMAIN NamedContexts(d) |-> Component(NamedContexts(d)[i], TRUE)]
                     ELSE <<>>)
         \o <<Component(d, TRUE)>>

GetCompleteName(d) == GetCompleteNameImpl(d, FALSE)

GetQualifiedCompleteName(d) == GetCompleteNameImpl(d, TRUE)

GetQualifiedName(d) ==
  IF isa(d, {"TU"}) THEN <<>>
  ELSE [i \in DOMAIN NamedContexts(d) |-> Component(NamedContexts(d)[i], TRUE)]
         \o <<Component(d, FALSE)>>

\* Whichever redeclaration carries the comment.
GetDoxygenComment(S, d) ==
  LET commented == {e \in AST[d].redecls \cap S.known : Has(e, "comment")}
  IN  IF commented = {} THEN Null ELSE CHOOSE e \in commented : TRUE

-----------------------------------------------------------------------------
(* Where it is declared, and what stands behind it. *)

GetUsingNamespaces(S, d) == IF isa(d, ContextKinds) THEN UsingDirectives(S, d) ELSE {}

RECURSIVE BaseElementType(_)
BaseElementType(t) == IF t.k = "Array" THEN BaseElementType(t.of) ELSE t

\* Through typedefs, then one pointer or all dimensions of an array.
GetScopeFromType(t) ==
  LET c == CanonicalType(t)
      e == IF c.k = "Pointer" THEN c.of ELSE BaseElementType(c)
  IN  CASE e.k = "Enum"   -> e.d
        [] e.k = "Record" -> getCanonicalDecl(e.d)
        [] OTHER          -> Null

GetUnderlyingScopeImpl(d) ==
  LET behind == CASE isa(d, {"Typedef"})  -> GetScopeFromType(AST[d].type)
                  [] isa(d, ShadowKinds)  -> AST[d].target
                  [] OTHER                -> Null
  IN  getCanonicalDecl(IF behind = Null THEN d ELSE behind)

GetUnderlyingScope(d) == IF d = Null THEN Null ELSE GetUnderlyingScopeImpl(d)

UnwrapUsingShadowToFunction(d) ==
  IF isa(d, ShadowKinds) /\ isa(AST[d].target, FunctionKinds \cup {"FunctionTemplate"})
  THEN AST[d].target ELSE d

RECURSIVE SkipUnnamedBlocks(_)
SkipUnnamedBlocks(c) ==
  IF isa(c, {"LinkageSpec", "Export"}) THEN SkipUnnamedBlocks(AST[c].ctx) ELSE c

GetParentScope(d) ==
  IF isa(d, {"TU"}) THEN Null
  ELSE LET c == SkipUnnamedBlocks(AST[UnwrapUsingShadowToFunction(d)].ctx)
       IN  IF c = Null THEN Null ELSE getCanonicalDecl(c)

\* Of a class or an enumeration the first declaration inside is dropped: the
\* name a class declares for itself, the first enumerator of an enumeration.
GetAllCppNames(S, d) ==
  LET inside == DeclsOf(S, d)
  IN  CASE isa(d, TagKinds) /\ inside # <<>> -> {GetName(e) : e \in ToSet(Tail(inside))}
        [] isa(d, {"Namespace", "TU"})       -> {GetName(e) : e \in ToSet(inside)}
        [] OTHER                             -> {}

\* collectAllContexts: every opening of a namespace.
GetEnums(S, d) ==
  LET contexts == IF isa(d, {"Namespace"}) THEN AST[d].redecls \cap S.known ELSE {d}
  IN  IF isa(d, ContextKinds)
      THEN {GetName(e) : e \in {f \in UNION {ToSet(DeclsOf(S, c)) : c \in contexts} : IsEnumScope(f)}}
      ELSE {}

-----------------------------------------------------------------------------
(* How it is found. *)

\* utils::Lookup::Named, with an operator name when op is given.
LookupNamed(S, n, op, within) ==
  LET c == IF isa(within, TagKinds) THEN getDefinition(S, within) ELSE within
  IN  CASE within = Null -> LookupName(S, <<GetGlobalScope>>, 1, n, op)
        [] c = Null      -> {}
        [] OTHER         -> LookupQualifiedName(S, c, n, op, TRUE)

Named(S, n, within) == LookupResult2Decl(LookupNamed(S, n, "", within))

\* utils::Lookup::Namespace.
LookupNamespace(S, n, within) ==
  LET found == IF within = Null THEN LookupName(S, <<GetGlobalScope>>, 1, n, "")
               ELSE IF isa(within, TagKinds) /\ ~hasDefinition(S, within) THEN {}
               ELSE LookupQualifiedName(S, within, n, "", FALSE)
      r == LookupResult2Decl({d \in found : isa(Underlying(d), {"Namespace"} \cup TagKinds)})
  IN  IF isa(r, {"Namespace"}) THEN r ELSE Null

BuildSyntheticScopeChain(c) == Enclosing(c)

LookupUnqualified(S, n, within) ==
  LookupResult2Decl(LookupName(S, BuildSyntheticScopeChain(within), 1, n, ""))

HasReachableUsingDirective(S, c) ==
  \E i \in DOMAIN Enclosing(c) : /\ isa(Enclosing(c)[i], {"Namespace"})
                                 /\ UsingDirectives(S, Enclosing(c)[i]) # {}

\* The context GetNamed searches, Null for the global scope.
SearchContext(parent) ==
  LET d == GetUnderlyingScope(parent) IN IF isa(d, ContextKinds) THEN d ELSE Null

\* A class in which the name is not declared is completed to search its bases.
SearchesBases(direct, within) == isa(within, RecordKinds) /\ direct = Null

GetNamedForces(S, n, parent) ==
  LET within == SearchContext(parent)
  IN  IF SearchesBases(Named(S, n, within), within) THEN ForceDefinition(S, within) ELSE S

OneDecl(r) == IF r \in {Null, Many} THEN Null ELSE getCanonicalDecl(r)

\* Once the class has been completed, its bases are searched too.
NamedInBases(T, n, within) ==
  IF ~hasDefinition(T, within) THEN Null
  ELSE OneDecl(LookupResult2Decl(LookupQualifiedName(T, getDefinition(T, within), n, "", FALSE)))

\* direct is what the context itself declares.
NamedFrom(S, n, within, direct) ==
  CASE direct \notin {Null, Many}    -> getCanonicalDecl(direct)
    [] SearchesBases(direct, within) -> NamedInBases(ForceDefinition(S, within), n, within)
    [] isa(within, {"Namespace"}) /\ HasReachableUsingDirective(S, within) ->
         OneDecl(LookupUnqualified(S, n, within))
    [] OTHER                         -> Null

NamedWithin(S, n, within) == NamedFrom(S, n, within, Named(S, n, within))

GetNamed(S, n, parent) == NamedWithin(S, n, SearchContext(parent))

ScopeKinds == {"Namespace", "ClassTemplate", "Typedef", "AliasTemplate"} \cup RecordKinds

GetScope(S, n, parent) ==
  IF n = "" THEN GetGlobalScope
  ELSE LET r == GetNamed(S, n, parent)
       IN  IF isa(r, ScopeKinds) THEN r ELSE Null

\* The name split at "::".
RECURSIVE ScopeAlong(_, _, _)
ScopeAlong(S, names, scope) ==
  IF names = <<>> THEN scope
  ELSE ScopeAlong(S, Tail(names), GetScope(S, Head(names), scope))

GetScopeFromCompleteName(S, names) == ScopeAlong(S, names, Null)
=============================================================================
