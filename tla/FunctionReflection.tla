-------------------------- MODULE FunctionReflection --------------------------
(***************************************************************************)
(* CppInterOp.cpp: finding functions, and what a function handle says.  A  *)
(* handle may be a function, a function template or a using-declaration    *)
(* that brings one in.                                                     *)
(***************************************************************************)
EXTENDS ClassReflection

\* The function a handle leads to: through the using-declaration, and for a
\* template to its pattern.
Templated(d) == IF isa(d, {"FunctionTemplate"}) THEN AST[d].target ELSE d

FunctionBehind(d) == Templated(UnwrapUsingShadowToFunction(d))

-----------------------------------------------------------------------------
(* What a handle says. *)

\* The object parameter of "deducing this" is not an argument.
NonObjectParams(f) ==
  IF Has(f, "explicitobject") THEN Tail(AST[f].params) ELSE AST[f].params

GetFunctionNumArgs(d) ==
  IF isa(FunctionBehind(d), FunctionKinds) THEN Len(NonObjectParams(FunctionBehind(d))) ELSE 0

GetFunctionRequiredArgs(d) ==
  LET f == FunctionBehind(d)
  IN  IF isa(f, FunctionKinds)
      THEN Len(SelectSeq(NonObjectParams(f), LAMBDA p : p.default = Null)) ELSE 0

\* iarg counts from 0.
GetFunctionArgType(d, iarg) ==
  LET f == FunctionBehind(d)
  IN  IF isa(f, FunctionKinds) /\ iarg < Len(NonObjectParams(f))
      THEN NonObjectParams(f)[iarg + 1].type ELSE Null

GetFunctionArgName(d, iarg) == NonObjectParams(FunctionBehind(d))[iarg + 1].name

\* A literal is printed as written, with its suffix in upper case: a default
\* is the kind of the literal and its characters.
SuffixAlphabet(leaf) ==
  CASE leaf = "IntegerLiteral"  -> {"u", "U", "l", "L", "z", "Z"}
    [] leaf = "FloatingLiteral" -> {"f", "F", "l", "L"}
    [] OTHER                    -> {}

toUpper(c) ==
  LET upper == [u |-> "U", l |-> "L", z |-> "Z", f |-> "F"]
  IN  IF c \in DOMAIN upper THEN upper[c] ELSE c

GetFunctionArgDefault(d, iarg) ==
  LET default == NonObjectParams(FunctionBehind(d))[iarg + 1].default
      text    == default.text
      last    == {i \in DOMAIN text : text[i] \notin SuffixAlphabet(default.leaf)}
      suffix  == IF last = {} THEN 1 ELSE Max(last) + 1
  IN  IF default = Null THEN <<>>
      ELSE [i \in DOMAIN text |->
              IF i >= suffix /\ SuffixAlphabet(default.leaf) # {} THEN toUpper(text[i]) ELSE text[i]]

ReturnType(S, f) ==
  IF Has(f, "auto") /\ ~hasDefinition(S, f) THEN [PlainType EXCEPT !.k = "Auto"] ELSE AST[f].type

IsTemplateInstantiationOrSpecialization(d) ==
  isa(d, FunctionKinds) /\ (Has(d, "specialization") \/ Has(d, "pattern"))

IsTemplatedFunction(d) ==
  LET f == UnwrapUsingShadowToFunction(d)
  IN  isa(f, {"FunctionTemplate"}) \/ IsTemplateInstantiationOrSpecialization(f)

\* A deduced type is deduced now, if there is a body to instantiate.
ReturnTypeForces(S, d) ==
  LET f == UnwrapUsingShadowToFunction(d)
  IN  IF /\ isa(f, FunctionKinds)
         /\ ReturnType(S, f).k = "Auto"
         /\ \/ IsTemplatedFunction(f) /\ ~hasDefinition(S, f)
            \/ isa(f, MethodKinds) /\ IsTemplateSpecialization(AST[f].ctx)
      THEN InstantiateFunctionDefinition(S, f) ELSE S

GetFunctionReturnType(S, d) ==
  IF isa(FunctionBehind(d), FunctionKinds)
  THEN ReturnType(ReturnTypeForces(S, d), FunctionBehind(d)) ELSE Null

GetFnTypeSignature(t) ==
  LET c == CanonicalType(t) IN IF c.k = "Function" THEN <<c.of>> \o c.args ELSE <<>>

IsFunctionDeleted(d) == Has(UnwrapUsingShadowToFunction(d), "deleted")

\* The access of a using-declaration counts, not that of what it brings in.
CheckMethodAccess(d, access) ==
  CASE isa(d, ShadowKinds) /\ isa(AST[d].target, MethodKinds) -> AST[d].access = access
    [] isa(d, MethodKinds)                                   -> AST[d].access = access
    [] OTHER                                                 -> FALSE

IsPublicMethod(d) == CheckMethodAccess(d, "public")

IsProtectedMethod(d) == CheckMethodAccess(d, "protected")

IsPrivateMethod(d) == CheckMethodAccess(d, "private")

IsMethod(d) == isa(FunctionBehind(d), MethodKinds)

IsConstructor(d) == isa(FunctionBehind(d), {"Ctor"})

IsDestructor(d) == isa(UnwrapUsingShadowToFunction(d), {"Dtor"})

IsStaticMethod(d) == isa(FunctionBehind(d), MethodKinds) /\ Has(FunctionBehind(d), "static")

IsExplicit(d) ==
  /\ isa(FunctionBehind(d), {"Ctor", "Conversion", "DeductionGuide"})
  /\ Has(FunctionBehind(d), "explicit")

IsVirtualMethod(d) ==
  LET f == UnwrapUsingShadowToFunction(d) IN isa(f, MethodKinds) /\ Has(f, "virtual")

IsConstMethod(d) ==
  LET f == UnwrapUsingShadowToFunction(d) IN isa(f, MethodKinds) /\ Has(f, "const")

-----------------------------------------------------------------------------
(* Finding functions. *)

\* A bug: what a using-declaration brings in is left out.
GetFunctionsUsingNameDirect(S, d, n, op) ==
  {f \in Resolved(LookupNamed(S, n, op, GetUnderlyingScope(d))) : isa(f, FunctionKinds)}

\* Overloads by name, in the scope itself; op is the operator a name such as
\* "operator==" spells.
GetFunctionsUsingName(S, d, n, op) ==
  IF d = Null \/ (n = "" /\ op = "") THEN {}
  ELSE {Underlying(e) : e \in {f \in Resolved(LookupNamed(S, n, op, GetUnderlyingScope(d))) :
                               isa(Underlying(f), FunctionKinds)}}

ExistsFunctionTemplate(S, n, parent) ==
  LET within == IF isa(parent, ContextKinds) THEN parent ELSE Null
      Template(e) == \/ isa(e, {"FunctionTemplate"})
                     \/ IsTemplateInstantiationOrSpecialization(e)
      single == Named(S, n, within)
  IN  CASE single = Null -> FALSE
        [] single # Many -> Template(single)
        [] OTHER         -> \E e \in LookupNamed(S, n, "", within) : Template(Underlying(e))

LookupConstructorsForces(S, d) ==
  IF isa(d, RecordKinds) THEN ForceDeclarationOfImplicitMembers(S, d) ELSE S

LookupConstructors(S, n, d) ==
  IF isa(d, RecordKinds)
  THEN {e \in Members(LookupConstructorsForces(S, d), d, "Ctor") : GetName(e) = n}
  ELSE {}

GetClassTemplatedMethods(S, n, parent) ==
  LET T     == LookupConstructorsForces(S, parent)
      found == Resolved(LookupNamed(T, n, "", GetUnderlyingScope(parent)))
  IN  LookupConstructors(S, n, parent)
        \cup {Underlying(e) : e \in {f \in found : isa(Underlying(f), {"FunctionTemplate"})}}

-----------------------------------------------------------------------------
(* Overload resolution.  The ranking is Clang's: here an argument matches a *)
(* parameter of its own type better than one it converts to.                *)

\* An argument type is an lvalue if it is an lvalue reference, otherwise
\* something that can be moved.
ArgumentOf(t) ==
  [lvalue |-> t.k = "LRef", type |-> IF t.k \in {"LRef", "RRef"} THEN CanonicalType(t).of
                                     ELSE CanonicalType(t)]

\* 0: does not bind; 1: converts; 2: same type; 3: same type, and moves.
Rank(p, a) ==
  LET c == CanonicalType(p)
      same == Unqualified(IF c.k \in {"LRef", "RRef"} THEN c.of ELSE c) = Unqualified(a.type)
  IN  CASE c.k = "LRef" /\ ~a.lvalue /\ "const" \notin c.of.q -> 0
        [] c.k = "RRef" /\ a.lvalue                           -> 0
        [] c.k \in {"LRef", "RRef"} /\ ~same                  -> 0
        [] ~same -> IF c.k = "Builtin" /\ a.type.k = "Builtin" THEN 1 ELSE 0
        [] c.k = "RRef" -> 3
        [] OTHER        -> 2

Viable(f, args) ==
  /\ Len(SelectSeq(NonObjectParams(f), LAMBDA p : p.default = Null)) <= Len(args)
  /\ Len(args) <= Len(NonObjectParams(f))
  /\ \A i \in DOMAIN args : Rank(NonObjectParams(f)[i].type, args[i]) > 0

Better(f, g, args) ==
  LET R(h, i) == Rank(NonObjectParams(h)[i].type, args[i])
  IN  /\ \A i \in DOMAIN args : R(f, i) >= R(g, i)
      /\ \/ \E i \in DOMAIN args : R(f, i) > R(g, i)
         \/ (\A i \in DOMAIN args : R(f, i) = R(g, i)) /\ ~Has(f, "pattern") /\ Has(g, "pattern")

\* Candidates that are neither functions nor templates are left out, a
\* using-declaration among them; Null if none is best.
BestOverloadFunctionMatch(candidates, arg_types) ==
  LET args   == [i \in DOMAIN arg_types |-> ArgumentOf(arg_types[i])]
      added  == {Templated(d) : d \in {c \in ToSet(candidates) :
                                       isa(c, FunctionKinds \cup {"FunctionTemplate"})}}
      viable == {f \in added : Viable(f, args)}
      best   == {f \in viable : \A g \in viable \ {f} : Better(f, g, args)}
  IN  IF best = {} THEN Null ELSE CHOOSE f \in best : TRUE
=============================================================================
