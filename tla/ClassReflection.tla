--------------------------- MODULE ClassReflection ---------------------------
(***************************************************************************)
(* CppInterOp.cpp: the bases, members, constructors and layout of a class. *)
(***************************************************************************)
EXTENDS ScopeReflection

-----------------------------------------------------------------------------
(* Bases. *)

\* A bug: a specialization is not instantiated first.
GetNumBasesAsIs(S, d) ==
  IF isa(d, RecordKinds) /\ hasDefinition(S, d) THEN Len(BasesOf(S, d)) ELSE 0

\* Instantiates a specialization that has no definition yet.
GetNumBases(S, d) ==
  LET T == Complete(S, d)
  IN  IF isa(d, RecordKinds) /\ hasDefinition(T, d) THEN Len(BasesOf(T, d)) ELSE 0

\* Does not instantiate; ibase counts from 0.
GetBaseClass(S, d, ibase) ==
  IF isa(d, RecordKinds) /\ ibase < Len(BasesOf(S, d))
  THEN getCanonicalDecl(BasesOf(S, d)[ibase + 1].cls) ELSE Null

\* The paths to base b that Clang's search finds, the first first: a step is
\* the class that has the base and the base specifier.
RECURSIVE BasePaths(_, _, _)
BasePaths(S, d, b) ==
  LET bs == BasesOf(S, d)
      Via(i) == LET step == [cls |-> d, base |-> bs[i]]
                IN  IF getCanonicalDecl(bs[i].cls) = getCanonicalDecl(b) THEN << <<step>> >>
                    ELSE LET rest == BasePaths(S, bs[i].cls, b)
                         IN  [j \in DOMAIN rest |-> <<step>> \o rest[j]]
  IN  FlattenSeq([i \in DOMAIN bs |-> Via(i)])

\* Sema::IsDerivedFrom completes the derived class.
IsTypeDerivedFrom(S, d, b) ==
  /\ getCanonicalDecl(d) # getCanonicalDecl(b)
  /\ BasePaths(Complete(S, d), d, b) # <<>>

IsSubclass(S, d, b) ==
  \/ d = b
  \/ /\ isa(d, RecordKinds) /\ isa(b, RecordKinds)
     /\ IsTypeDerivedFrom(S, d, b)

\* ASTRecordLayout: the offset of a direct non-virtual base (0 for one it does
\* not list), and of a virtual base of a complete object.
BaseOffsetIn(S, d, b) ==
  LET here == {i \in DOMAIN BasesOf(S, d) : /\ BasesOf(S, d)[i].cls = getCanonicalDecl(b)
                                            /\ ~BasesOf(S, d)[i].virtual}
  IN  IF here = {} THEN 0 ELSE BasesOf(S, d)[Min(here)].offset

VBaseOffsetIn(S, d, b) ==
  LET vbs == AST[getDefinition(S, d)].vbases
  IN  vbs[CHOOSE i \in DOMAIN vbs : vbs[i].cls = getCanonicalDecl(b)].offset

\* A bug: the first virtual step decides.
ComputeBaseOffsetFirst(S, d, path) ==
  LET virtual == {i \in DOMAIN path : path[i].base.virtual}
      start   == IF virtual = {} THEN 0 ELSE Min(virtual)
      offsets == [i \in (start + 1)..Len(path) |-> BaseOffsetIn(S, path[i].cls, path[i].base.cls)]
  IN  FoldFunction(+, 0, offsets)
        + IF start = 0 THEN 0 ELSE VBaseOffsetIn(S, d, path[start].base.cls)

\* The last virtual step decides where the path starts in the object.
ComputeBaseOffset(S, d, path) ==
  LET virtual == {i \in DOMAIN path : path[i].base.virtual}
      start   == IF virtual = {} THEN 0 ELSE Max(virtual)
      offsets == [i \in (start + 1)..Len(path) |-> BaseOffsetIn(S, path[i].cls, path[i].base.cls)]
  IN  FoldFunction(+, 0, offsets)
        + IF start = 0 THEN 0 ELSE VBaseOffsetIn(S, d, path[start].base.cls)

\* For a base of a class: the front of an empty list of paths is undefined.
GetBaseClassOffset(S, d, b) ==
  CASE d = b -> 0
    [] ~(isa(d, RecordKinds) /\ isa(b, RecordKinds)) -> -1
    [] OTHER -> ComputeBaseOffset(S, d, BasePaths(S, d, b)[1])

-----------------------------------------------------------------------------
(* Members. *)

ClassOf(d) == IF isa(d, {"Typedef"}) THEN GetScopeFromType(AST[d].type) ELSE d

\* Inherited constructors that using-declarations bring in: Sema declares them
\* when they are first asked for, unless the base's is deleted.
InheritedCtors(S, def, kinds) ==
  {e \in ToSet(AST[def].decls) : /\ Has(e, "inherited") /\ AST[e].kind \in kinds
                 /\ \E s \in ToSet(DeclsOf(S, def)) : /\ isa(s, {"CtorShadow"})
                                                      /\ AST[s].target = AST[e].target
                 /\ ~Has(AST[e].target, "deleted")}

\* The tree GetClassDecls<kinds> leaves.
GetClassDeclsForces(S, handle, kinds) ==
  LET d == ClassOf(handle)
      T == ForceDeclarationOfImplicitMembers(Complete(S, d), d)
  IN  CASE d = Null \/ ~isa(d, RecordKinds) -> S
        [] ~hasDefinition(Complete(S, d), d) -> Complete(S, d)
        [] OTHER -> [T EXCEPT !.known = @ \cup InheritedCtors(T, getDefinition(T, d), kinds)]

\* The members of the given kinds, and for one a using-declaration brings in
\* the using-declaration itself; a base's constructor template is listed as it
\* is, its other constructors through the inherited ones.
GetClassDecls(S, handle, kinds) ==
  LET d   == ClassOf(handle)
      T   == GetClassDeclsForces(S, handle, kinds)
      def == getDefinition(T, d)
      Listed(e) == CASE isa(e, {"Shadow"})     -> isa(AST[e].target, kinds)
                     [] isa(e, {"CtorShadow"}) -> isa(AST[e].target, kinds \cap {"FunctionTemplate"})
                     [] OTHER                  -> isa(e, kinds)
      Handle(e) == IF isa(e, {"CtorShadow"}) THEN AST[e].target ELSE e
      found == SelectSeq(DeclsOf(T, def), Listed)
  IN  IF d = Null \/ ~isa(d, RecordKinds) \/ def = Null THEN <<>>
      ELSE [i \in DOMAIN found |-> Handle(found[i])]

GetClassMethods(S, d) == GetClassDecls(S, d, MethodKinds)

GetFunctionTemplatedDecls(S, d) == GetClassDecls(S, d, {"FunctionTemplate"})

GetStaticDatamembers(S, d) == GetClassDecls(S, d, {"Var"})

GetEnumConstantDatamembers(S, d, include_enum_class) ==
  LET enums == SelectSeq(GetClassDecls(S, d, {"Enum"}),
                         LAMBDA e : ~(AST[e].scoped /\ ~include_enum_class))
  IN  FlattenSeq([i \in DOMAIN enums |-> GetEnumConstants(S, enums[i])])

\* Only asked of a class with a definition.
HasDefaultConstructor(S, d) ==
  isa(d, RecordKinds) /\ hasDefinition(S, d) /\ Has(getDefinition(S, d), "defaultctor")

Members(S, d, kind) ==
  IF hasDefinition(S, d)
  THEN {e \in ToSet(DeclsOf(S, getDefinition(S, d))) : isa(e, {kind})} ELSE {}

GetDefaultConstructor(S, d) ==
  LET T    == ForceDeclarationOfImplicitMembers(S, d)
      ctor == {e \in Members(T, d, "Ctor") : AST[e].params = <<>>}
  IN  IF ~HasDefaultConstructor(S, d) \/ ctor = {} THEN Null ELSE CHOOSE e \in ctor : TRUE

GetDestructor(S, d) ==
  LET dtor == Members(ForceDeclarationOfImplicitMembers(S, d), d, "Dtor")
  IN  IF ~isa(d, RecordKinds) \/ dtor = {} THEN Null ELSE CHOOSE e \in dtor : TRUE

\* The struct behind an anonymous member.
AnonymousRecord(e) == IF isa(e, {"Field"}) /\ Has(e, "anonymous") THEN AST[e].type.d ELSE Null

\* Two stacks of iterators in the code: an anonymous struct or union stands for
\* its members, where it stands.
RECURSIVE Flattened(_, _)
Flattened(S, decls) ==
  IF decls = <<>> THEN <<>>
  ELSE LET e == Head(decls)
       IN  (CASE AnonymousRecord(e) # Null -> Flattened(S, DeclsOf(S, AnonymousRecord(e)))
              [] isa(e, {"Field"})         -> <<e>>
              [] isa(e, {"Shadow"}) /\ isa(AST[e].target, {"Field"}) -> <<e>>
              [] OTHER                     -> <<>>)
           \o Flattened(S, Tail(decls))

\* Does not instantiate a specialization.
GetDatamembers(S, d) ==
  IF ~isa(d, RecordKinds) THEN <<>>
  ELSE Flattened(S, DeclsOf(S, IF hasDefinition(S, d) THEN getDefinition(S, d) ELSE d))

LookupDatamember(S, n, parent) ==
  LET r == Named(S, n, IF isa(parent, ContextKinds) THEN parent ELSE Null)
  IN  IF isa(r, {"Field"}) THEN r ELSE Null

-----------------------------------------------------------------------------
(* Where a data member lies: its offset in its class, in the structs around *)
(* an anonymous one, then along a path of bases found depth first.          *)

\* Up through anonymous structs: <<the enclosing class, the offset in it>>.
RECURSIVE OutOfAnonymous(_, _, _)
OutOfAnonymous(S, record, offset) ==
  IF ~Has(record, "anonymous") THEN <<record, offset>>
  ELSE LET outer == AST[record].ctx
           field == CHOOSE f \in ToSet(AST[outer].decls) : AnonymousRecord(f) = record
       IN  OutOfAnonymous(S, outer, offset + AST[field].offset)

\* direction maps a base to the class it was reached from; the last base pushed
\* is searched first, and the search ends at the class of the field.
RECURSIVE Search(_, _, _, _)
Search(S, stack, direction, goal) ==
  IF stack = <<>> THEN direction
  ELSE LET rd    == Last(stack)
           n     == GetNumBases(S, rd)
           hit   == {i \in 1..n : GetBaseClass(S, rd, i - 1) = goal}
           seen  == 1..IF hit = {} THEN n ELSE Min(hit)
           bases == {GetBaseClass(S, rd, i - 1) : i \in seen}
           dir   == [b \in DOMAIN direction \cup bases |-> IF b \in bases THEN rd ELSE direction[b]]
       IN  IF hit # {} THEN dir
           ELSE Search(S, Front(stack) \o [i \in seen |-> GetBaseClass(S, rd, i - 1)], dir, goal)

\* Back from the class of the field to the class asked about; -1 where
\* std::map::at throws.
RECURSIVE Along(_, _, _, _, _)
Along(S, direction, rd, top, offset) ==
  CASE rd = top                     -> offset
    [] rd \notin DOMAIN direction   -> -1
    [] OTHER -> Along(S, direction, direction[rd], top,
                      offset + BaseOffsetIn(S, direction[rd], rd))

GetFieldOffset(S, f, parent) ==
  LET out == OutOfAnonymous(S, AST[f].ctx, AST[f].offset)
      T   == Complete(S, parent)
  IN  IF parent = Null \/ ~isa(parent, RecordKinds) \/ parent = getCanonicalDecl(out[1]) THEN out[2]
      ELSE Along(T, Search(T, <<parent>>, <<>>, out[1]), getCanonicalDecl(out[1]), parent, out[2])

-----------------------------------------------------------------------------
(* Operators and smart pointers. *)

\* The arities an operator can have; a template may have either.
GetOperatorArity(d) ==
  LET f == UnwrapUsingShadowToFunction(d)
  IN  IF ~isa(f, FunctionKinds) \/ AST[f].op = "" THEN {"unary", "binary"}
      ELSE AST[f].flags \cap {"unary", "binary"}

RECURSIVE AllBases(_, _)
AllBases(S, d) ==
  LET bs == {BasesOf(S, d)[i].cls : i \in DOMAIN BasesOf(S, d)}
  IN  bs \cup UNION {AllBases(S, b) : b \in bs}

\* In the class and all its bases, whether or not a nearer one hides it.
GetOperator(S, d, op, kind) ==
  LET where == IF isa(d, RecordKinds) THEN {d} \cup AllBases(S, d)
               ELSE IF isa(d, ContextKinds) THEN {d} ELSE {}
  IN  {e \in UNION {DirectlyIn(S, c, "", op) : c \in where} : kind \cap GetOperatorArity(e) # {}}

\* use_count anywhere, or both operators, each in any class of the hierarchy.
isSmartPointer(S, d) ==
  LET Present(c, n, op) == DirectlyIn(S, c, n, op) # {}
      hierarchy == {d} \cup AllBases(S, d)
  IN  \/ \E c \in hierarchy : Present(c, "use_count", "")
      \/ /\ \E c \in hierarchy : Present(c, "", "*")
         /\ \E c \in hierarchy : Present(c, "", "->")

\* The three standard ones are known by name.
IsSmartPtrType(S, t) ==
  LET c == CanonicalType(t)
  IN  c.k = "Record" /\ (Has(c.d, "stdsmart") \/ isSmartPointer(S, c.d))
=============================================================================
