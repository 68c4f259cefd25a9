------------------------------ MODULE ClangAST ------------------------------
(***************************************************************************)
(* The part of Clang's abstract syntax tree that CppInterOp's reflection   *)
(* reads and lazily extends.  Clang is outside the repository; this is     *)
(* what CppInterOp.cpp expects of it.                                      *)
(*                                                                         *)
(* AST is the whole program as it can become: one record per declaration.  *)
(* What has become of it so far is S = [known, defs]: the declarations     *)
(* that exist, and those among them that are definitions.  Parsing, the    *)
(* instantiation of a template and the declaration of implicit members add *)
(* to both; nothing is ever removed.                                       *)
(***************************************************************************)
EXTENDS Integers, Sequences, FiniteSets, SequencesExt

CONSTANTS
    Null,   \* the null handle
    Many    \* the (NamedDecl*)-1 of a lookup with more than one result

VARIABLE
    AST     \* declaration -> record, see Plain; given with the program

Decls == DOMAIN AST

\* The fields of a declaration, with the values most have.
\* ctx: the declaration context; canon: the first redeclaration, redecls: all of
\* them; chunk: the input that declares it (-1: comes into being lazily); target: of a
\* using-declaration, a typedef, a template or the pattern; decls: the
\* declarations inside, in order; bases: of a class, vbases: where its virtual
\* bases lie in a complete object; type: of a value, or behind a typedef.
Plain == [kind |-> "Var", name |-> "", op |-> "", ctx |-> Null, canon |-> Null, redecls |-> {},
          chunk |-> 1, defining |-> FALSE, access |-> "none", target |-> Null,
          decls |-> <<>>, bases |-> <<>>, vbases |-> <<>>, using |-> <<>>,
          implicit |-> FALSE, instantiable |-> FALSE, scoped |-> FALSE,
          offset |-> 0, flags |-> {}, params |-> <<>>, type |-> Null]

RecordKinds   == {"Record", "Spec"}
TagKinds      == RecordKinds \cup {"Enum"}
MethodKinds   == {"Method", "Ctor", "Dtor", "Conversion"}
FunctionKinds == MethodKinds \cup {"Function", "DeductionGuide"}
TemplateKinds == {"FunctionTemplate", "ClassTemplate", "AliasTemplate"}
ShadowKinds   == {"Shadow", "CtorShadow"}
ValueKinds    == FunctionKinds \cup {"Var", "Field", "IndirectField", "EnumConstant"}
ContextKinds  == {"TU", "Namespace", "LinkageSpec", "Export"} \cup TagKinds
                   \cup FunctionKinds

isa(d, kinds) == d # Null /\ d # Many /\ AST[d].kind \in kinds

Has(d, flag) == flag \in AST[d].flags

getCanonicalDecl(d) == AST[d].canon

-----------------------------------------------------------------------------
(* What exists. *)

\* The known definition of d's entity, or Null.
getDefinition(S, d) ==
  LET found == AST[d].redecls \cap S.defs
  IN  IF found = {} THEN Null ELSE CHOOSE e \in found : TRUE

hasDefinition(S, d) == getDefinition(S, d) # Null

\* DeclContext::decls() of this very redeclaration, in order.
DeclsOf(S, d) == SelectSeq(AST[d].decls, LAMBDA e : e \in S.known)

BasesOf(S, d) == IF hasDefinition(S, d) THEN AST[getDefinition(S, d)].bases ELSE <<>>

\* Sema instantiates the pattern of specialization d, if it can.
Instantiate(S, d) ==
  IF isa(d, {"Spec", "Function", "Method", "Var"}) /\ AST[d].instantiable
       /\ ~hasDefinition(S, d)
  THEN [known |-> S.known \cup {e \in ToSet(AST[d].decls) : ~AST[e].implicit /\ ~Has(e, "inherited")},
        defs  |-> S.defs \cup {d}]
  ELSE S

\* Sema::ForceDeclarationOfImplicitMembers.
ForceDeclarationOfImplicitMembers(S, d) ==
  IF hasDefinition(S, d)
  THEN [S EXCEPT !.known = @ \cup {e \in ToSet(AST[getDefinition(S, d)].decls) : AST[e].implicit}]
  ELSE S

\* The state after the i-th input has been parsed.
Parse(S, i) ==
  LET new == {e \in Decls : AST[e].chunk = i}
  IN  [known |-> S.known \cup new, defs |-> S.defs \cup {e \in new : AST[e].defining}]

-----------------------------------------------------------------------------
(* Name lookup. *)

\* A linkage specification, an export block and an unscoped enumeration
\* declare their members in the context around them as well.
Transparent(c) == \/ isa(c, {"LinkageSpec", "Export"})
                  \/ isa(c, {"Enum"}) /\ ~AST[c].scoped

\* The contexts whose lookup tables hold what is declared in c.
RECURSIVE Homes(_)
Homes(c) == IF c = Null THEN {}
            ELSE {getCanonicalDecl(c)} \cup (IF Transparent(c) THEN Homes(AST[c].ctx) ELSE {})

\* The entities called n directly in c; n is an identifier, or an operator
\* when op is.  Constructors, conversions and specializations are not found by
\* an identifier.
DirectlyIn(S, c, n, op) ==
  {getCanonicalDecl(e) : e \in {f \in S.known :
     /\ AST[f].name = n /\ AST[f].op = op /\ (n # "" \/ op # "")
     /\ AST[f].kind \notin {"Ctor", "Dtor", "Conversion", "CtorShadow", "Spec"}
     /\ getCanonicalDecl(c) \in Homes(AST[f].ctx)}}

\* LookupQualifiedName: for a redeclaration only c itself, otherwise the bases
\* of a class too, as long as no class on the way has the name.
RECURSIVE LookupQualifiedName(_, _, _, _, _)
LookupQualifiedName(S, c, n, op, redeclaration) ==
  LET here == DirectlyIn(S, c, n, op)
      bs   == BasesOf(S, c)
  IN  IF here # {} \/ redeclaration THEN here
      ELSE UNION {LookupQualifiedName(S, bs[i].cls, n, op, FALSE) : i \in DOMAIN bs}

\* The contexts around c, innermost first.
RECURSIVE Enclosing(_)
Enclosing(c) == IF c = Null THEN <<>> ELSE <<getCanonicalDecl(c)>> \o Enclosing(AST[c].ctx)

UsingDirectives(S, c) ==
  UNION {ToSet(AST[e].using) : e \in AST[c].redecls \cap S.known}

\* Unqualified lookup along a chain of scopes.  What a using-directive
\* nominates is found in the innermost scope around the directive and the
\* namespace it nominates.
RECURSIVE LookupName(_, _, _, _, _)
LookupName(S, chain, i, n, op) ==
  LET Meet(c, u) == SelectSeq(Enclosing(c), LAMBDA x : x \in ToSet(Enclosing(u)))[1]
      nominated  == UNION {{u \in UsingDirectives(S, chain[j]) : Meet(chain[j], u) = chain[i]} :
                           j \in 1..i}
      here       == UNION {DirectlyIn(S, x, n, op) : x \in {chain[i]} \cup nominated}
  IN  IF here # {} \/ i = Len(chain) THEN here ELSE LookupName(S, chain, i + 1, n, op)

Underlying(d) == IF isa(d, ShadowKinds) THEN AST[d].target ELSE d

\* LookupResult::resolveKind: a tag is hidden by another name in its scope; one
\* function template is an overload set already.
Resolved(found) ==
  LET others == {d \in found : ~isa(Underlying(d), TagKinds)}
  IN  IF others # {} THEN others ELSE found

LookupResult2Decl(found) ==
  LET r == Resolved(found)
  IN  IF r = {} THEN Null
      ELSE IF Cardinality(r) = 1 /\ ~isa(Underlying(CHOOSE d \in r : TRUE), {"FunctionTemplate"})
           THEN Underlying(CHOOSE d \in r : TRUE)
           ELSE Many
-----------------------------------------------------------------------------
(* Types: a kind, local qualifiers, and what the kind is built from. *)

PlainType == [k |-> "Builtin", q |-> {}, of |-> Null, d |-> Null, n |-> 0, args |-> <<>>]

Qualified(t, qs) == [t EXCEPT !.q = @ \cup qs]

\* Typedefs are sugar; the qualifiers of an array are those of its elements.
RECURSIVE CanonicalType(_)
CanonicalType(t) ==
  CASE t.k = "Typedef" -> Qualified(CanonicalType(t.of), t.q)
    [] t.k = "Array"   -> LET e == CanonicalType(t.of)
                          IN  [t EXCEPT !.of = [e EXCEPT !.q = {}], !.q = @ \cup e.q]
    [] t.k \in {"Pointer", "LRef", "RRef", "MemberPointer"} -> [t EXCEPT !.of = CanonicalType(@)]
    [] OTHER           -> t

Unqualified(t) == [CanonicalType(t) EXCEPT !.q = {}]

\* QualType::is...Qualified: locally, or through the sugar.
hasQualifier(t, q) == q \in CanonicalType(t).q
=============================================================================
