---------------------------- MODULE MCReflection ----------------------------
(***************************************************************************)
(* Instances of the reflection API, of the addresses of variables and of   *)
(* template instantiation.  They share no state but the tree's             *)
(* representation, so one behaviour exercises one of them.                 *)
(*                                                                         *)
(* For reflection, a program of three inputs:                              *)
(*                                                                         *)
(*   1: namespace U { int v; }   using namespace in N;   enums;            *)
(*      namespace N { struct A; int area(); int area(int); enum Color      *)
(*      { Red, Green }; enum class Mode { On }; auto twice<int>;           *)
(*      using namespace U; }   extern "C" { int cfun(int = 0x1fu); }       *)
(*   2: namespace N { struct A { int x; struct { int u; int w; };          *)
(*      protected: int hid(); A(int); static const int k = 1; operator*;   *)
(*      static const int arr[2] = {1, 2}; };                               *)
(*      struct B : A { using A::hid; using A::A; const int y; operator->;};*)
(*      int take(const A&); int take(A&&);                                 *)
(*      template<class T> struct Box : A { T b; auto get(); static const   *)
(*      T z; static const T tab[2]; }; }  with Box<int> named              *)
(*   3: struct V : virtual N::A { int r; };                                *)
(*      struct X : virtual V, N::B { int e; }; typedef N::B BT;            *)
(***************************************************************************)
EXTENDS Reflection, VariableAddresses, Templates

\* Declarations and types, from which the programs are built.
IntT     == [PlainType EXCEPT !.args = <<"int">>]
ConstInt == [IntT EXCEPT !.q = {"const"}]
ArrayOf(t, n)  == [PlainType EXCEPT !.k = "Array", !.of = t, !.n = n]
PointerTo(t)   == [PlainType EXCEPT !.k = "Pointer", !.of = t]
TypedefOf(t)   == [PlainType EXCEPT !.k = "Typedef", !.of = t]
ClassT(d)      == [PlainType EXCEPT !.k = "Record", !.d = d]

D(id, kind, name, ctx, chunk) ==
  id :> [Plain EXCEPT !.kind = kind, !.name = name, !.ctx = ctx, !.canon = id, !.chunk = chunk]

Param(n, t, default) == [name |-> n, type |-> t, default |-> default]

Base(c, virtual, offset) == [cls |-> c, virtual |-> virtual, offset |-> offset]

\* The entry of a table for id, or a default.
Pick(id, table, plain) == IF id \in DOMAIN table THEN table[id] ELSE plain

-----------------------------------------------------------------------------
(* The program of three inputs. *)

Raw ==
     D("TU", "TU", "", Null, 0)
  @@ D("U", "Namespace", "U", "TU", 1)          @@ D("U.v", "Var", "v", "U", 1)
  @@ D("N", "Namespace", "N", "TU", 1)          @@ D("N2", "Namespace", "N", "TU", 2)
  @@ D("A0", "Record", "A", "N", 1)             @@ D("A", "Record", "A", "N2", 2)
  @@ D("area0", "Function", "area", "N", 1)     @@ D("area1", "Function", "area", "N", 1)
  @@ D("Color", "Enum", "Color", "N", 1)        @@ D("Red", "EnumConstant", "Red", "Color", 1)
  @@ D("Green", "EnumConstant", "Green", "Color", 1)
  @@ D("Mode", "Enum", "Mode", "N", 1)          @@ D("On", "EnumConstant", "On", "Mode", 1)
  @@ D("twice", "FunctionTemplate", "twice", "N", 1)
  @@ D("twice.i", "Function", "", "N", 1)
  @@ D("take0", "Function", "take", "N2", 2)    @@ D("take1", "Function", "take", "N2", 2)
  @@ D("A.deref", "Method", "", "A", 2)         @@ D("B.arrow", "Method", "", "B", 2)
  @@ D("L", "LinkageSpec", "", "TU", 1)         @@ D("cfun", "Function", "cfun", "L", 1)
  @@ D("A.A", "Record", "A", "A", 2)            @@ D("A.x", "Field", "x", "A", 2)
  @@ D("A.s", "Record", "", "A", 2)             @@ D("A.sf", "Field", "", "A", 2)
  @@ D("s.u", "Field", "u", "A.s", 2)           @@ D("s.w", "Field", "w", "A.s", 2)
  @@ D("A.iu", "IndirectField", "u", "A", 2)    @@ D("A.iw", "IndirectField", "w", "A", 2)
  @@ D("A.hid", "Method", "hid", "A", 2)        @@ D("A.ctor", "Ctor", "A", "A", 2)
  @@ D("A.copy", "Ctor", "A", "A", -1)          @@ D("A.dtor", "Dtor", "~A", "A", -1)
  @@ D("A.k", "Var", "k", "A", 2)               @@ D("A.arr", "Var", "arr", "A", 2)
  @@ D("B", "Record", "B", "N2", 2)             @@ D("B.B", "Record", "B", "B", 2)
  @@ D("B.hid", "Shadow", "hid", "B", 2)        @@ D("B.A", "CtorShadow", "A", "B", 2)
  @@ D("B.inh", "Ctor", "B", "B", -1)           @@ D("B.y", "Field", "y", "B", 2)
  @@ D("B.dtor", "Dtor", "~B", "B", -1)
  @@ D("Box", "ClassTemplate", "Box", "N2", 2)  @@ D("Bi", "Spec", "Box", "N2", 2)
  @@ D("Bi.b", "Field", "b", "Bi", -1)          @@ D("Bi.get", "Method", "get", "Bi", -1)
  @@ D("Bi.z", "Var", "z", "Bi", -1)            @@ D("Bi.tab", "Var", "tab", "Bi", -1)
  @@ D("Bi.dtor", "Dtor", "~Box", "Bi", -1)
  @@ D("V", "Record", "V", "TU", 3)             @@ D("V.r", "Field", "r", "V", 3)
  @@ D("X", "Record", "X", "TU", 3)             @@ D("X.e", "Field", "e", "X", 3)
  @@ D("BT", "Typedef", "BT", "TU", 3)

\* What differs from the plain declaration, field by field.
Canons   == "N2" :> "N" @@ "A" :> "A0"
Defining == {"TU", "U", "N", "A", "Color", "Mode", "A.s", "B", "V", "X", "U.v", "cfun", "area0", "area1", "take0", "take1", "A.deref", "B.arrow"}
Targets  == "twice" :> "area1" @@ "A.iu" :> "s.u" @@ "A.iw" :> "s.w" @@ "B.hid" :> "A.hid"
              @@ "B.A" :> "A.ctor" @@ "B.inh" :> "A.ctor" @@ "Bi" :> "Box"
Inside   == "TU" :> <<"U", "N", "L", "N2", "V", "X", "BT">> @@ "U" :> <<"U.v">>
              @@ "N" :> <<"A0", "area0", "area1", "Color", "Mode", "twice">>
              @@ "N2" :> <<"A", "B", "Box", "take0", "take1">> @@ "L" :> <<"cfun">>
              @@ "Color" :> <<"Red", "Green">> @@ "Mode" :> <<"On">>
              @@ "A" :> <<"A.A", "A.x", "A.s", "A.sf", "A.iu", "A.iw", "A.hid", "A.deref", "A.ctor", "A.k",
                          "A.arr", "A.copy", "A.dtor">>
              @@ "A.s" :> <<"s.u", "s.w">>
              @@ "B" :> <<"B.B", "B.hid", "B.A", "B.y", "B.arrow", "B.dtor", "B.inh">>
              @@ "Bi" :> <<"Bi.b", "Bi.get", "Bi.z", "Bi.tab", "Bi.dtor">>
              @@ "V" :> <<"V.r">> @@ "X" :> <<"X.e">>
Bases    == "B" :> <<Base("A0", FALSE, 4)>> @@ "Bi" :> <<Base("A0", FALSE, 0)>>
              @@ "V" :> <<Base("A0", TRUE, 0)>>
              @@ "X" :> <<Base("V", TRUE, 0), Base("B", FALSE, 8)>>
VBases   == "V" :> <<[cls |-> "A0", offset |-> 12]>>
              @@ "X" :> <<[cls |-> "V", offset |-> 40], [cls |-> "A0", offset |-> 60]>>
Offsets  == "A" :> 12 @@ "A.x" :> 0 @@ "A.sf" :> 4 @@ "s.u" :> 0 @@ "s.w" :> 4 @@ "A.s" :> 8
              @@ "B" :> 20 @@ "B.y" :> 0 @@ "Bi" :> 16 @@ "Bi.b" :> 12 @@ "V" :> 24 @@ "V.r" :> 8
              @@ "X" :> 72 @@ "X.e" :> 30 @@ "Red" :> 7 @@ "Green" :> 9 @@ "On" :> 1
Accesses == "A.hid" :> "protected" @@ "B.hid" :> "public" @@ "A.ctor" :> "public"
              @@ "A.copy" :> "public" @@ "A.dtor" :> "public" @@ "B.inh" :> "public"
              @@ "B.dtor" :> "public" @@ "Bi.get" :> "public" @@ "Bi.dtor" :> "public"
              @@ "A.deref" :> "public" @@ "B.arrow" :> "public"
Flags    == "A.A" :> {"injected"} @@ "B.B" :> {"injected"} @@ "A.s" :> {"anonymous"}
              @@ "A.sf" :> {"anonymous"} @@ "B.inh" :> {"inherited"} @@ "A" :> {"comment", "defaultctor"}
              @@ "A.k" :> {"init", "discardable", "odr"} @@ "A.arr" :> {"init", "integral", "discardable", "odr"}
              @@ "Bi.z" :> {"init", "discardable", "odr"}
              @@ "Bi.tab" :> {"init", "integral", "discardable", "odr"}
              @@ "Bi.get" :> {"auto", "discardable", "memberspec"} @@ "U.v" :> {"exported"}
              @@ "area0" :> {"discardable"} @@ "twice.i" :> {"auto", "specialization", "discardable"}
              @@ "A.deref" :> {"unary"} @@ "B.arrow" :> {"unary"}
TypesOf  == "U.v" :> TypedefOf(IntT) @@ "A.x" :> PointerTo(ConstInt) @@ "A.sf" :> ClassT("A.s")
              @@ "s.u" :> IntT @@ "s.w" :> ArrayOf(ConstInt, 2) @@ "A.k" :> ConstInt
              @@ "A.arr" :> ArrayOf(ConstInt, 2) @@ "B.y" :> TypedefOf(ConstInt) @@ "Bi.b" :> IntT
              @@ "Bi.z" :> ConstInt @@ "Bi.tab" :> ArrayOf(ConstInt, 2) @@ "V.r" :> PointerTo(ArrayOf(IntT, 3))
              @@ "X.e" :> IntT @@ "BT" :> ClassT("B") @@ "Bi.get" :> IntT @@ "A.hid" :> IntT
              @@ "area0" :> IntT @@ "area1" :> IntT @@ "cfun" :> IntT
              @@ "take0" :> IntT @@ "take1" :> IntT @@ "twice.i" :> IntT @@ "A.deref" :> IntT @@ "B.arrow" :> IntT
Reference(k, t) == [PlainType EXCEPT !.k = k, !.of = t]

Params   == "take0" :> <<Param("a", Reference("LRef", [ClassT("A0") EXCEPT !.q = {"const"}]), Null)>>
              @@ "take1" :> <<Param("a", Reference("RRef", ClassT("A0")), Null)>>
              @@ "area1" :> <<Param("side", IntT, Null)>> @@ "A.ctor" :> <<Param("x", IntT, Null)>>
              @@ "A.copy" :> <<Param("other", IntT, Null)>> @@ "B.inh" :> <<Param("x", IntT, Null)>>
              @@ "cfun" :> <<Param("n", IntT, [leaf |-> "IntegerLiteral", text |-> <<"0", "x", "1", "f", "u">>])>>

Operators == "A.deref" :> "*" @@ "B.arrow" :> "->"

Declaration(id) ==
     [Raw[id] EXCEPT !.canon = Pick(id, Canons, @),
        !.redecls = {e \in DOMAIN Raw : Pick(e, Canons, e) = Pick(id, Canons, id)},
        !.defining = (id \in Defining),
        !.target = Pick(id, Targets, @), !.decls = Pick(id, Inside, @), !.bases = Pick(id, Bases, @),
        !.vbases = Pick(id, VBases, @), !.offset = Pick(id, Offsets, @),
        !.access = Pick(id, Accesses, @), !.flags = Pick(id, Flags, @), !.type = Pick(id, TypesOf, @),
        !.params = Pick(id, Params, @), !.using = IF id = "N" THEN <<"U">> ELSE <<>>,
        !.scoped = (id = "Mode"), !.op = Pick(id, Operators, @),
        !.implicit = (id \in {"A.copy", "A.dtor", "B.dtor", "Bi.dtor"}),
        !.instantiable = (id \in {"Bi", "Bi.get", "Bi.z", "Bi.tab", "twice.i"})]

MCAST == [id \in DOMAIN Raw |-> Declaration(id)]

MCBuiltinTypes ==
  << <<"void">>, <<"bool">>, <<"char">>, <<"signed", "char">>, <<"short">>, <<"int">>, <<"long">>,
     <<"long", "long">>, <<"unsigned", "char">>, <<"unsigned", "short">>, <<"unsigned", "int">>,
     <<"unsigned", "long">>, <<"unsigned", "long", "long">>, <<"float">>, <<"double">>,
     <<"long", "double">> >>

MCAsked == {"Bi", "B", "BT", "Bi.get", "twice.i", "N"}
MCNames == {"hid", "x", "b", "v"}

-----------------------------------------------------------------------------
(***************************************************************************)
(* Variables and functions of every way to an address, in two programs:    *)
(*                                                                         *)
(*   1: extern int ext;  extern const int late[2]; static int priv = 1;    *)
(*      struct A { static const int k = 1; static constexpr int arr[2];    *)
(*                 static constexpr double pi; };  int strong;             *)
(*      template<class T> struct Box { static const T z; static const T    *)
(*      tab[2]; static T n; T get(); };  as Box<int>;                      *)
(*   2: extern const int late[2] = {1, 2};                                 *)
(*                                                                         *)
(* ext, A::k and strong are exported by libraries that may be loaded at    *)
(* any time.                                                               *)
(***************************************************************************)
VarRaw ==
     D("TU", "TU", "", Null, 0)             @@ D("ext", "Var", "ext", "TU", 1)
  @@ D("late0", "Var", "late", "TU", 1)     @@ D("late", "Var", "late", "TU", 2)
  @@ D("priv", "Var", "priv", "TU", 1)      @@ D("strong", "Var", "strong", "TU", 1)
  @@ D("A", "Record", "A", "TU", 1)         @@ D("A.k", "Var", "k", "A", 1)
  @@ D("A.arr", "Var", "arr", "A", 1)       @@ D("A.pi", "Var", "pi", "A", 1)
  @@ D("Bi", "Spec", "Box", "TU", 1)        @@ D("Bi.z", "Var", "z", "Bi", -1)
  @@ D("Bi.tab", "Var", "tab", "Bi", -1)    @@ D("Bi.n", "Var", "n", "Bi", -1)
  @@ D("Bi.get", "Method", "get", "Bi", -1)

VarLazy     == {"discardable", "odr"}
VarFlags    == "ext" :> {"exported"} @@ "strong" :> {"exported"} @@ "late" :> {"init", "integral"}
              @@ "priv" :> {"init", "integral", "discardable"} @@ "A.k" :> {"init", "integral", "exported"} @@ "A.arr" :> {"init", "integral"} \cup VarLazy
              @@ "A.pi" :> {"init"} \cup VarLazy @@ "Bi.z" :> {"init", "integral"} \cup VarLazy
              @@ "Bi.tab" :> {"init", "integral"} \cup VarLazy @@ "Bi.n" :> VarLazy
              @@ "Bi.get" :> {"memberspec", "discardable"}
VarConstArray == ArrayOf(ConstInt, 2)
VarTypesOf  == "A.k" :> ConstInt @@ "A.arr" :> VarConstArray @@ "A.pi" :> ConstInt @@ "Bi.z" :> ConstInt
              @@ "Bi.tab" :> VarConstArray @@ "late" :> VarConstArray @@ "late0" :> VarConstArray

VarCanon(id) == IF id = "late" THEN "late0" ELSE id

VarDeclaration(id) ==
  [VarRaw[id] EXCEPT !.canon = VarCanon(id), !.redecls = {e \in DOMAIN VarRaw : VarCanon(e) = VarCanon(id)},
     !.defining = (id \in {"TU", "late", "priv", "strong", "A", "A.arr", "A.pi"}),
     !.flags = Pick(id, VarFlags, @), !.type = Pick(id, VarTypesOf, IntT),
     !.decls = IF id = "Bi" THEN <<"Bi.z", "Bi.tab", "Bi.n", "Bi.get">> ELSE <<>>,
     !.instantiable = (id \in {"Bi", "Bi.z", "Bi.tab", "Bi.n", "Bi.get"})]

\* Two programs, so that what has nothing to do with each other does not multiply.
Exporting   == {"TU", "ext", "late0", "late", "strong", "A", "A.k"}
MCSources   == {[id \in Exporting |-> VarDeclaration(id)],
                [id \in {"TU"} \cup (DOMAIN VarRaw \ Exporting) \cup {"A"} |-> VarDeclaration(id)]}

MCAskedFor == {"Bi", "ext", "strong", "late0", "priv", "A.k", "A.arr", "A.pi", "Bi.z", "Bi.tab", "Bi.n", "Bi.get"}

MCReplaceable == {"ext", "A.k", "strong"}

-----------------------------------------------------------------------------
(* template<class T, class A = al> class Vec, with Ptr<T*> beside Ptr<T>,  *)
(* template<class... T> class Tup;  template<short N> class Num;           *)
(* template<class T> T conv(); template<byte N, class T = al> int num();   *)
(* template<class T> constexpr bool flag, and a class only declared.       *)

TypeParam  == [kind |-> "type", type |-> NoDecl, pack |-> FALSE, default |-> NoDecl]
Value(t)   == [TypeParam EXCEPT !.kind = "value", !.type = t]
Defaulted  == [TypeParam EXCEPT !.default = TypeArgument("al")]
Template(kind, params) == [kind |-> kind, params |-> params, defined |-> TRUE, partial |-> {}]

MCTemplates ==
     "Vec"  :> Template("class", <<TypeParam, Defaulted>>)
  @@ "Ptr"  :> [Template("class", <<TypeParam>>) EXCEPT !.partial = {"int"}]
  @@ "Tup"  :> Template("class", <<TypeParam, [TypeParam EXCEPT !.pack = TRUE]>>)
  @@ "Num"  :> Template("class", <<Value("short")>>)
  @@ "Fwd"  :> [Template("class", <<TypeParam>>) EXCEPT !.defined = FALSE]
  @@ "conv" :> Template("function", <<TypeParam>>)
  @@ "num"  :> Template("function", <<Value("byte"), Defaulted>>)
  @@ "flag" :> Template("variable", <<TypeParam>>)

\* Integral types of three and four bits.
MCIntWidth   == "byte" :> [bits |-> 3, signed |-> TRUE] @@ "short" :> [bits |-> 4, signed |-> TRUE]
                  @@ "ubyte" :> [bits |-> 3, signed |-> FALSE]
MCPointersTo == "int" :> "int*"

T(t)    == [type |-> t, value |-> NoDecl]
V(t, v) == [type |-> t, value |-> v]
MCInfos == {<<>>, <<T("int")>>, <<T("int*")>>, <<T("int"), T("al")>>, <<T("int"), T("int"), T("int")>>,
            <<V("byte", 0 - 1)>>, <<V("ubyte", 7)>>, <<V("ubyte", 9)>>, <<V("byte", 3), T("int")>>}

MCLibrary == [templates |-> MCTemplates, widths |-> MCIntWidth, pointers |-> MCPointersTo,
              requests |-> MCInfos]

-----------------------------------------------------------------------------
VARIABLE part   \* which of the three a behaviour exercises

PartsInit ==
  /\ part \in {"tree", "addresses", "templates"}
  /\ AST \in IF part = "addresses" THEN Sources ELSE {Program}
  /\ Start /\ AddressStart /\ TemplatesInit

PartsNext ==
  /\ UNCHANGED part
  /\ \/ part = "tree" /\ Next /\ UNCHANGED <<M, input, given, templateVars>>
     \/ part = "addresses" /\ AddressNext /\ UNCHANGED <<S0, next, filled, templateVars>>
     \/ part = "templates" /\ TemplatesNext /\ UNCHANGED <<vars, addressVars>>

PartsSpec == PartsInit /\ [][PartsNext]_<<part, vars, addressVars, templateVars>>
=============================================================================
