-------------------------- MODULE VariableAddresses --------------------------
(***************************************************************************)
(* CppInterOp.cpp: GetVariableOffset of a variable and GetFunctionAddress. *)
(* An address is served from a loaded binary, from the evaluated constant  *)
(* initializer in the tree, or from the JIT, which may first have to be    *)
(* made to emit the entity.                                                *)
(*                                                                         *)
(* M = [ast, emitted, binaries, arrays, table]: the tree, what the JIT has *)
(* emitted, what loaded binaries export, the interpreter's                 *)
(* ConstArrayValueStore, and the symbols that the JIT's library of the     *)
(* process's symbols has entries for: found in a binary by an earlier      *)
(* lookup, or defined by InsertOrReplaceJitSymbol.                         *)
(***************************************************************************)
EXTENDS TypeReflection

CONSTANTS
    Sources,      \* programs: the declarations of all inputs
    SourceInputs, \* how many inputs there are
    AskedFor,     \* the declarations clients ask about
    Replaceable   \* the variables whose symbols clients define

VARIABLES
    M,          \* see above
    input,      \* the next input
    given       \* variable -> the addresses returned for it so far

addressVars == <<AST, M, input, given>>

Address(where, d) == <<where, getCanonicalDecl(d)>>
NoAddress == <<"none">>
ZeroAddress == <<"zero">>

hasInit(S, d) == d # Null /\ Has(d, "init") /\ (AST[d].instantiable => hasDefinition(S, d))

IsConstant(d) == Has(d, "constexpr") \/ hasQualifier(AST[d].type, "const")

\* The buffer an array's elements are laid out in, once per variable; an
\* initializer that is not all integers is remembered as 0.
MaterializeConstArrayValue(m, d) ==
  IF getCanonicalDecl(d) \in DOMAIN m.arrays THEN m.arrays
  ELSE [v \in DOMAIN m.arrays \cup {getCanonicalDecl(d)} |->
          IF v = getCanonicalDecl(d)
          THEN IF Has(d, "integral") THEN Address("buffer", d) ELSE NoAddress
          ELSE m.arrays[v]]

\* Code comes only from a definition; for a mere declaration nothing happens.
ForceCodeGen(m, d) ==
  IF hasDefinition(m.ast, d) THEN [m EXCEPT !.emitted = @ \cup {getCanonicalDecl(d)}] ELSE m

\* Succeeds, and emits, if there is a definition to use.
EmitVariableViaOdrUse(m, d) ==
  IF hasDefinition(m.ast, d) THEN [m EXCEPT !.emitted = @ \cup {getCanonicalDecl(d)}] ELSE m

\* compat::getSymbolAddress: the JIT's own definition, otherwise the entry for
\* the process's symbol, which is made from a binary.
getSymbolAddress(m, d) ==
  CASE getCanonicalDecl(d) \in m.emitted      -> Address("jit", d)
    [] getCanonicalDecl(d) \in DOMAIN m.table -> m.table[getCanonicalDecl(d)]
    [] getCanonicalDecl(d) \in m.binaries     -> Address("binary", d)
    [] OTHER                                  -> NoAddress

Enter(m, v, address) ==
  [m EXCEPT !.table = [e \in DOMAIN m.table \cup {v} |-> IF e = v THEN address ELSE m.table[e]]]

\* A lookup that gets as far as the process's symbols leaves its entry there.
AfterLookup(m, d) ==
  LET v == getCanonicalDecl(d)
  IN  IF v \notin m.emitted /\ v \notin DOMAIN m.table /\ v \in m.binaries
      THEN Enter(m, v, Address("binary", v)) ELSE m

\* The declaration whose initializer the tree already has.
InitializedDecl(m, d) == IF hasInit(m.ast, d) THEN d ELSE getDefinition(m.ast, d)

\* A bug: the loaded binaries are not asked first.
ServesConstantFirst(m, d) ==
  LET i == InitializedDecl(m, d)
  IN  hasInit(m.ast, i) /\ ~hasQualifier(AST[i].type, "volatile") /\ IsConstant(i)

\* The value is served from the tree, before the JIT is asked.
ServesConstant(m, d) ==
  LET i == InitializedDecl(m, d)
  IN  /\ getCanonicalDecl(d) \notin m.binaries
      /\ hasInit(m.ast, i) /\ ~hasQualifier(AST[i].type, "volatile") /\ IsConstant(i)

\* A bug: an instantiated constant is emitted like any variable.
FallbackNone(m, d) == FALSE

\* Later, when the JIT does not know it: a scalar constant whose initializer
\* instantiation has brought.
FallbackConstant(m, d) ==
  LET j == InitializedDecl(m, d)
  IN  /\ hasInit(m.ast, j) /\ IsConstant(j)
      /\ CanonicalType(AST[d].type).k # "Array" /\ Has(j, "integral")

\* What the query returns and leaves, as <<address, m>>.
GetVariableAddress(m, d) ==
  LET v       == getCanonicalDecl(d)
      i       == InitializedDecl(m, d)
      isArray == CanonicalType(AST[d].type).k = "Array"
      serve   == ServesConstant(m, d)
      m1      == IF serve /\ isArray THEN [m EXCEPT !.arrays = MaterializeConstArrayValue(m, i)] ELSE m
      known   == getSymbolAddress(m1, d) # NoAddress
      m2      == IF known \/ hasInit(m1.ast, d) \/ hasDefinition(m1.ast, d) THEN m1
                 ELSE [m1 EXCEPT !.ast = Instantiate(@, d)]
      m3      == IF known \/ ~Has(d, "discardable") THEN m2
                 ELSE IF Has(d, "odr") /\ hasDefinition(m2.ast, d) THEN EmitVariableViaOdrUse(m2, d)
                 ELSE ForceCodeGen(m2, d)
  IN  CASE serve /\ ~isArray /\ Has(i, "integral")        -> <<Address("constant", d), m>>
        [] serve /\ isArray /\ m1.arrays[v] # NoAddress    -> <<m1.arrays[v], m1>>
        [] ~known /\ FallbackConstant(m2, d)               -> <<Address("constant", d), m2>>
        [] OTHER -> <<getSymbolAddress(m3, d), AfterLookup(m3, d)>>

\* A template's function is instantiated, a discardable one emitted;
\* constructors and destructors have no one address.
GetFunctionAddress(m, handle) ==
  LET f  == UnwrapUsingShadowToFunction(handle)
      m1 == IF (IsTemplateInstantiationOrSpecialization(f) \/ Has(f, "memberspec"))
                 /\ ~hasDefinition(m.ast, f)
            THEN [m EXCEPT !.ast = InstantiateFunctionDefinition(@, f)] ELSE m
      m2 == IF Has(f, "discardable") THEN ForceCodeGen(m1, f) ELSE m1
  IN  CASE ~isa(f, FunctionKinds)   -> <<NoAddress, m>>
        [] isa(f, {"Ctor", "Dtor"}) -> <<NoAddress, m2>>
        [] OTHER                    -> <<getSymbolAddress(m2, f), AfterLookup(m2, f)>>

-----------------------------------------------------------------------------
(* Symbols a client defines. *)

\* A symbol that has an entry is a duplicate: <<failed, m>>.
DefineAbsoluteSymbol(m, v, address) ==
  IF v \in DOMAIN m.table THEN <<TRUE, m>> ELSE <<FALSE, Enter(m, v, address)>>

RemoveEntry(m, v) ==
  [m EXCEPT !.table = [e \in DOMAIN m.table \ {v} |-> m.table[e]]]

\* <<failed, m>>: of a symbol that does not resolve nothing is inserted; only an
\* entry of the process's symbols can be removed; for address 0 none is.
InsertOrReplaceJitSymbol(m, v, address) ==
  LET found == AfterLookup(m, v)
  IN  CASE getSymbolAddress(m, v) \in {NoAddress, address}             -> <<TRUE, found>>
        [] address # ZeroAddress /\ v \notin DOMAIN found.table -> <<TRUE, found>>
        [] address # ZeroAddress -> DefineAbsoluteSymbol(RemoveEntry(found, v), v, address)
        [] OTHER                 -> DefineAbsoluteSymbol(found, v, address)

-----------------------------------------------------------------------------
(* SourceInputs, libraries and queries in any order. *)

Variables == {d \in Decls : isa(d, {"Var"}) /\ getCanonicalDecl(d) = d}

AddressStart ==
  /\ M = [ast |-> Parse([known |-> {}, defs |-> {}], 0), emitted |-> {}, binaries |-> {}, arrays |-> <<>>, table |-> <<>>]
  /\ input = 1
  /\ given = [v \in Variables |-> {}]

\* An input is parsed, and what must be emitted is.
DeclareAndEmit ==
  /\ input <= SourceInputs
  /\ input' = input + 1
  /\ M' = [M EXCEPT !.ast = Parse(@, input),
                    !.emitted = @ \cup {getCanonicalDecl(d) :
                       d \in {e \in Decls : /\ AST[e].chunk = input /\ AST[e].defining
                                            /\ isa(e, {"Var"} \cup FunctionKinds)
                                            /\ ~Has(e, "discardable")}}]
  /\ UNCHANGED <<AST, given>>

\* A library is loaded that exports d.
LoadBinary(d) ==
  /\ Has(d, "exported")
  /\ M' = [M EXCEPT !.binaries = @ \cup {d}]
  /\ UNCHANGED <<AST, input, given>>

\* A definition is forced by some other query.
AskForDefinition(d) ==
  /\ d \in M.ast.known
  /\ M' = [M EXCEPT !.ast = ForceDefinition(@, d)]
  /\ UNCHANGED <<AST, input, given>>

AskFunctionAddress(d) ==
  /\ d \in M.ast.known /\ isa(d, FunctionKinds \cup ShadowKinds)
  /\ M' = GetFunctionAddress(M, d)[2]
  /\ UNCHANGED <<AST, input, given>>

AskVariable(d) ==
  /\ d \in M.ast.known /\ isa(d, {"Var"})
  /\ LET r == GetVariableAddress(M, d)
     IN  /\ M' = r[2]
         /\ given' = [given EXCEPT ![getCanonicalDecl(d)] = @ \cup ({r[1]} \ {NoAddress})]
  /\ UNCHANGED <<AST, input>>

\* A client gives the linker a new address for d: its own, or 0.
ReplaceSymbol(d) ==
  /\ d \in Replaceable
  /\ \E address \in {Address("client", d), ZeroAddress} :
       M' = InsertOrReplaceJitSymbol(M, d, address)[2]
  /\ UNCHANGED <<AST, input, given>>

AddressNext ==
  \/ DeclareAndEmit
  \/ \E d \in Variables : LoadBinary(d) \/ ReplaceSymbol(d)
  \/ \E d \in AskedFor : AskForDefinition(d) \/ AskFunctionAddress(d) \/ AskVariable(d)

AddressInit == AST \in Sources /\ AddressStart

AddressSpec == AddressInit /\ [][AddressNext]_addressVars

-----------------------------------------------------------------------------
(* What must hold. *)

AskedAbout(kinds) == {d \in AskedFor \cap M.ast.known : isa(d, kinds)}

\* What M holds is well formed: emitted and cached entities are canonical
\* declarations that exist, and what is emitted has a definition.
AddressTypeOK ==
  /\ M.ast.known \subseteq Decls /\ M.ast.defs \subseteq M.ast.known
  /\ \A d \in M.emitted : getCanonicalDecl(d) = d /\ hasDefinition(M.ast, d)
  /\ DOMAIN M.arrays \subseteq Variables /\ DOMAIN M.table \subseteq Variables
  /\ input \in 1..(SourceInputs + 1)
  /\ DOMAIN given = Variables

\* Repeated queries for a variable give one address, until a library that
\* exports it is loaded, and then the library's, or a client's if one replaced it.
\* Arrays of class templates are the exception.
AddressStable ==
  \A v \in Variables :
    ~(AST[v].instantiable /\ CanonicalType(AST[v].type).k = "Array") =>
      Cardinality({a \in given[v] : a[1] \notin {"binary", "client"}}) <= 1

\* Without the exception: repeated queries give one address, as the comment of
\* MaterializeConstArrayValue says ("so repeated queries return the same address
\* instead of re-evaluating").
RepeatedQueriesAgree ==
  \A v \in Variables :
    CanonicalType(AST[v].type).k = "Array" =>
      Cardinality({a \in given[v] : a[1] \notin {"binary", "client"}}) <= 1

\* Every variable that has, or could be given, a definition has an address, and
\* so has every function of that kind that is not a constructor or destructor:
\* emitting what CodeGen deferred works whatever was asked before.
AddressAvailable ==
  /\ \A v \in AskedAbout({"Var"}) :
       hasDefinition(M.ast, v) \/ AST[v].instantiable \/ v \in M.binaries =>
         GetVariableAddress(M, v)[1] # NoAddress
  /\ \A f \in AskedAbout({"Function", "Method"}) :
       hasDefinition(M.ast, f) \/ AST[f].instantiable => GetFunctionAddress(M, f)[1] # NoAddress

\* "a symbol that a binary does export keeps its real address" (CppInterOp.cpp,
\* 3519): asking for a variable never makes the JIT emit a copy of one that a
\* loaded library exports, nor serves it from the tree.
BinaryKeepsItsAddress ==
  [][\A v \in M.binaries \ M.emitted :
       /\ v \notin M'.emitted \/ input' # input
       /\ given'[v] # given[v] => getSymbolAddress(M, v) \in given'[v]]_addressVars

\* InsertOrReplaceJitSymbol that answers "no failure" has made the address what
\* everybody gets from now on, GetVariableOffset included, except for a symbol the
\* JIT has a definition of its own for; one that fails leaves the address alone.
ReplacementTakesEffect ==
  \A v \in Replaceable \cap Variables : \A address \in {Address("client", v), ZeroAddress} :
    LET r == InsertOrReplaceJitSymbol(M, v, address)
    IN  /\ r[1] => getSymbolAddress(r[2], v) = getSymbolAddress(M, v)
        /\ (~r[1] /\ v \notin M.emitted) =>
             /\ getSymbolAddress(r[2], v) = address
             /\ v \in M.ast.known => GetVariableAddress(r[2], v)[1] = address

\* Everything that has or could be given an address has one, the same at
\* every query, until a library or a client provides another, and then that
\* one (GetVariableOffset, GetFunctionAddress, InsertOrReplaceJitSymbol).
AddressesExact ==
  /\ AddressTypeOK
  /\ AddressStable
  /\ AddressAvailable
  /\ ReplacementTakesEffect
=============================================================================
