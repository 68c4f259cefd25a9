--------------------------- MODULE TypeReflection ---------------------------
(***************************************************************************)
(* CppInterOp.cpp: questions about types, types built from types, and the  *)
(* map from the spellings of builtin types to the types.                   *)
(***************************************************************************)
EXTENDS FunctionReflection

CONSTANTS
    BuiltinTypes   \* ASTContext::Types restricted to builtins, in order: the
                   \* words Clang prints for each

Builtin(words) == [PlainType EXCEPT !.args = words]

IntegerWords  == {"int", "long", "short", "char", "signed", "unsigned", "bool"}
FloatingWords == {"float", "double"}

-----------------------------------------------------------------------------
(* Questions. *)

Kind(t) == CanonicalType(t).k

IsRecordType(t) == Kind(t) = "Record"

IsEnumType(t) == Kind(t) = "Enum"

IsPointerType(t) == Kind(t) = "Pointer"

IsFunctionPointerType(t) == Kind(t) = "Pointer" /\ CanonicalType(t).of.k = "Function"

IsVoidPointerType(t) ==
  t # Null /\ Kind(t) = "Pointer" /\ Unqualified(CanonicalType(t).of) = Builtin(<<"void">>)

IsReferenceType(t) == Kind(t) \in {"LRef", "RRef"}

IsTemplateParmType(t) == Kind(t) = "TemplateTypeParm"

IsLambdaClass(t) == Kind(t) = "Record" /\ Has(CanonicalType(t).d, "lambda")

GetValueKind(t) ==
  CASE Kind(t) = "RRef" -> "RValue" [] Kind(t) = "LRef" -> "LValue" [] OTHER -> "None"

IsSameType(a, b) == a # Null /\ b # Null /\ CanonicalType(a) = CanonicalType(b)

\* std::complex counts as builtin.
IsBuiltin(t) ==
  \/ Kind(t) \in {"Builtin", "Complex"}
  \/ Kind(t) = "Record" /\ IsTemplateSpecialization(CanonicalType(t).d)
       /\ Has(CanonicalType(t).d, "stdcomplex")

\* Any representation by integers counts, an enumeration's too.
IsIntegerType(t) ==
  /\ t # Null
  /\ \/ Kind(t) = "Enum"
     \/ /\ Kind(t) = "Builtin"
        /\ ToSet(CanonicalType(t).args) \subseteq IntegerWords

Signedness(t) ==
  LET words == IF Kind(t) = "Enum" THEN CanonicalType(AST[CanonicalType(t).d].type).args
               ELSE CanonicalType(t).args
  IN  IF ToSet(words) \cap {"unsigned", "bool"} = {} THEN "kSigned" ELSE "kUnsigned"

IsFloatingType(t) ==
  t # Null /\ Kind(t) = "Builtin" /\ ToSet(CanonicalType(t).args) \cap FloatingWords # {}

IsPODType(S, t) ==
  LET e == BaseElementType(CanonicalType(t))
  IN  \/ e.k \in {"Pointer", "Enum", "MemberPointer"}
      \/ e.k = "Builtin" /\ e.args # <<"void">>
      \/ e.k = "Record" /\ hasDefinition(S, e.d) /\ Has(getDefinition(S, e.d), "pod")

GetIntegerTypeFromEnumType(t) ==
  IF t # Null /\ Kind(t) = "Enum" THEN AST[CanonicalType(t).d].type ELSE Null

\* Bytes: of a class through SizeOf, of the rest from Clang's table.
GetSizeOfType(S, t, width) ==
  IF Kind(t) \in {"Record", "Enum"} THEN SizeOf(S, CanonicalType(t).d) ELSE width \div 8

RECURSIVE Dimensions(_)
Dimensions(t) == IF t.k = "Array" THEN <<t.n>> \o Dimensions(t.of) ELSE <<>>

\* -1 for a dimension that is not known.
GetDimensions(t) == IF t = Null THEN <<>> ELSE Dimensions(CanonicalType(t))

-----------------------------------------------------------------------------
(* Types from types. *)

GetPointerType(t) == [PlainType EXCEPT !.k = "Pointer", !.of = t]

\* References collapse: an rvalue reference to an lvalue reference is the latter.
GetReferencedType(t, rvalue) ==
  CASE Kind(t) = "LRef" \/ (Kind(t) = "RRef" /\ rvalue) -> t
    [] Kind(t) = "RRef" -> [PlainType EXCEPT !.k = "LRef", !.of = CanonicalType(t).of]
    [] OTHER -> [PlainType EXCEPT !.k = IF rvalue THEN "RRef" ELSE "LRef", !.of = t]

GetPointeeType(t) == IF IsPointerType(t) THEN CanonicalType(t).of ELSE Null

GetNonReferenceType(t) == IF IsReferenceType(t) THEN CanonicalType(t).of ELSE Null

GetCanonicalType(t) == IF t = Null THEN Null ELSE CanonicalType(t)

GetComplexType(t) == [PlainType EXCEPT !.k = "Complex", !.of = t]

\* Array dimensions first, then pointers, references and member pointers.
RECURSIVE StripPointers(_)
StripPointers(t) ==
  IF t.k \in {"Pointer", "LRef", "RRef", "MemberPointer"} THEN StripPointers(CanonicalType(t.of)) ELSE t

GetUnderlyingType(t) ==
  IF t = Null THEN Null ELSE Unqualified(StripPointers(BaseElementType(Unqualified(t))))

\* The type of a value, the type a name declares.
GetTypeInternal(d) ==
  CASE isa(d, {"Typedef"})  -> AST[d].type
    [] isa(d, ValueKinds)   -> AST[d].type
    [] isa(d, RecordKinds)  -> [PlainType EXCEPT !.k = "Record", !.d = getCanonicalDecl(d)]
    [] isa(d, {"Enum"})     -> [PlainType EXCEPT !.k = "Enum", !.d = getCanonicalDecl(d)]
    [] OTHER                -> Null

GetTypeFromScope(d) == IF d = Null THEN Null ELSE GetTypeInternal(d)

\* A typedef stays a typedef; an array of unknown bound takes its definition's.
GetVariableType(S, d) ==
  LET def == getDefinition(S, d)
      t   == IF AST[d].type.k = "Array" /\ AST[d].type.n = -1 /\ isa(d, {"Var"}) /\ def # Null
             THEN AST[def].type ELSE AST[d].type
  IN  CASE isa(d, {"Var", "Field"} \cup FunctionKinds) -> IF t.k = "Typedef" THEN t ELSE CanonicalType(t)
        [] isa(d, {"EnumConstant"})                    -> AST[d].type
        [] OTHER                                       -> Null

CheckVariableAccess(d, access) == AST[d].access = access

IsPublicVariable(d) == CheckVariableAccess(d, "public")

IsProtectedVariable(d) == CheckVariableAccess(d, "protected")

IsPrivateVariable(d) == CheckVariableAccess(d, "private")

IsStaticVariable(d) == isa(d, {"Var"})

IsConstVariable(d) == isa(d, ValueKinds) /\ hasQualifier(AST[d].type, "const")

-----------------------------------------------------------------------------
(* Qualifiers: asked through the sugar, removed only where they are written. *)

QualKinds == {"const", "volatile", "restrict"}

HasTypeQualifier(t, quals) == t # Null /\ \A q \in quals : hasQualifier(t, q)

RemoveTypeQualifier(t, quals) == IF t = Null THEN Null ELSE [t EXCEPT !.q = @ \ quals]

AddTypeQualifier(t, quals) ==
  IF t = Null THEN Null ELSE Qualified(t, {q \in quals : ~hasQualifier(t, q)})

-----------------------------------------------------------------------------
(* The map of spellings; a spelling is the sequence of its words. *)

\* Every order of the words means the type.
RegisterPerms(map, type, words) ==
  LET perms == {[i \in DOMAIN words |-> words[p[i]]] : p \in Permutations(DOMAIN words)}
  IN  [k \in DOMAIN map \cup perms |-> IF k \in perms THEN type ELSE map[k]]

\* One builtin type: as printed, then with the words C++ lets one add.
RegisterBuiltin(words, map) ==
  LET has(w)     == w \in ToSet(words)
      modifiable == has("long") \/ has("short") \/ has("int")
      plain      == ~has("signed") /\ ~has("unsigned")
      m0 == RegisterPerms(map, words, words)
      m1 == IF has("int") \/ has("char") THEN m0 ELSE RegisterPerms(m0, words, Append(words, "int"))
      m2 == IF has("int") \/ has("char") \/ ~plain THEN m1
            ELSE RegisterPerms(m1, words, words \o <<"int", "signed">>)
      m3 == IF plain THEN RegisterPerms(m2, words, Append(words, "signed")) ELSE m2
  IN  IF ~modifiable /\ plain
      THEN [k \in DOMAIN map \cup {words} |-> IF k = words THEN words ELSE map[k]]
      ELSE m3

PopulateBuiltinMap ==
  LET all == FoldLeft(LAMBDA map, words : RegisterBuiltin(words, map), <<>>, BuiltinTypes)
  IN  [k \in DOMAIN all \cup {<<"signed">>, <<"unsigned">>} |->
         CASE k = <<"signed">>   -> <<"int">>
           [] k = <<"unsigned">> -> <<"unsigned", "int">>
           [] OTHER              -> all[k]]

\* The type a spelling means, Null if it is not one of a builtin type.
FindBuiltin(map, spelling) == IF spelling \in DOMAIN map THEN Builtin(map[spelling]) ELSE Null

GetType(S, map, spelling, parent) ==
  IF FindBuiltin(map, spelling) # Null THEN FindBuiltin(map, spelling)
  ELSE IF Len(spelling) = 1 THEN GetTypeFromScope(GetNamed(S, spelling[1], parent)) ELSE Null
=============================================================================
