------------------------------ MODULE Templates ------------------------------
(***************************************************************************)
(* CppInterOp.cpp: InstantiateTemplate, InstantiateTemplateFunctionFrom-   *)
(* String, and reading a class specialization's arguments back.  A client  *)
(* names the arguments in a list of TemplateArgInfo: a type, or the text   *)
(* of an integer with its type.                                            *)
(*                                                                         *)
(* A specialization is its template with its canonical arguments: one per  *)
(* parameter, what a pack takes in one list.                               *)
(***************************************************************************)
EXTENDS Integers, FiniteSets, SequencesExt

CONSTANTS
    NoDecl,       \* the null handle
    Library,      \* the templates and types of the program, see below
    MaxInstances, \* bound on the specializations that exist
    MaxStrings    \* bound on the specializations asked for in source form

VARIABLES
    lib,             \* the Library: templates, widths, pointers, requests
    specializations, \* those that exist
    bodies,          \* those among them that have been defined
    var_count,       \* the static counter that names variables
    helpers          \* those variables: what each was initialised with

templateVars == <<lib, specializations, bodies, var_count, helpers>>

\* template -> [kind, params, defined, partial]: the parameters are records
\* [kind, type, pack, default]; partial: the types whose pointers a partial
\* specialization takes.
TemplateDecls == lib.templates

IntWidth         == lib.widths    \* integral type -> [bits, signed]
PointersTo       == lib.pointers  \* type -> the pointer type to it
TemplateArgInfos == lib.requests  \* the argument lists clients ask with

TypeArgument(t)        == [k |-> "Type", type |-> t, value |-> 0, pack |-> <<>>]
IntegralArgument(t, v) == [k |-> "Integral", type |-> t, value |-> v, pack |-> <<>>]
PackArgument(as)       == [k |-> "Pack", type |-> "", value |-> 0, pack |-> as]

Instance(tmpl, args) == [of |-> tmpl, args |-> args]

(* A template has parameters; of those of a class only the last is a pack,   *)
(* which has no default.  A default is an argument for its parameter.        *)
ASSUME LibraryAssumption ==
  /\ \A t \in DOMAIN Library.widths :
       Library.widths[t].bits \in Nat /\ Library.widths[t].signed \in BOOLEAN
  /\ \A tmpl \in DOMAIN Library.templates :
       LET ps == Library.templates[tmpl].params
       IN  /\ Len(ps) \in Nat \ {0} /\ DOMAIN ps = 1..Len(ps)
           /\ \A i \in DOMAIN ps :
                /\ ps[i].pack \in BOOLEAN
                /\ ps[i].kind # "type" => ps[i].type \in DOMAIN Library.widths
                /\ ps[i].pack /\ Library.templates[tmpl].kind = "class" => i = Len(ps)
                /\ ~ps[i].pack /\ ps[i].default # NoDecl =>
                     IF ps[i].kind = "type" THEN ps[i].default = TypeArgument(ps[i].default.type)
                     ELSE ps[i].default = IntegralArgument(ps[i].type, ps[i].default.value)
  /\ \A infos \in Library.requests :
       /\ Len(infos) \in Nat /\ DOMAIN infos = 1..Len(infos)
       /\ \A i \in DOMAIN infos : infos[i].value # NoDecl =>
            infos[i].value \in Int /\ infos[i].type \in DOMAIN Library.widths

ASSUME MaxStringsAssumption == MaxStrings \in Nat

-----------------------------------------------------------------------------
(* What Clang does with a list of arguments. *)

\* The values of t: half of them are negative if it is signed.
Fits(v, t) ==
  LET all == 2 ^ IntWidth[t].bits
  IN  IF IntWidth[t].signed THEN 0 - all <= 2 * v /\ 2 * v < all ELSE 0 <= v /\ v < all

\* APSInt::extOrTrunc to the width of t, whose literal is then read as a t.
extOrTrunc(v, t) ==
  LET r == v % 2 ^ IntWidth[t].bits
  IN  IF IntWidth[t].signed /\ 2 * r >= 2 ^ IntWidth[t].bits THEN r - 2 ^ IntWidth[t].bits ELSE r

Matches(p, a) == IF p.kind = "type" THEN a.k = "Type" ELSE a.k = "Integral" /\ Fits(a.value, p.type)

\* A value argument takes the type of its parameter.
AsParameter(p, a) == IF p.kind = "type" THEN a ELSE [a EXCEPT !.type = p.type]

\* The parameter the i-th argument is for.
ParameterFor(ps, i) == IF i <= Len(ps) THEN ps[i] ELSE Last(ps)

Accepts(tmpl, args) ==
  LET ps == TemplateDecls[tmpl].params
  IN  /\ \A i \in DOMAIN args : /\ i <= Len(ps) \/ Last(ps).pack
                                /\ Matches(ParameterFor(ps, i), args[i])
      /\ \A i \in (Len(args) + 1)..Len(ps) : ps[i].pack \/ ps[i].default # NoDecl

\* Canonical arguments, with the defaults.
Canonical(tmpl, args) ==
  LET ps == TemplateDecls[tmpl].params
  IN  [i \in DOMAIN ps |->
         IF ps[i].pack
         THEN PackArgument([j \in 1..(Len(args) - i + 1) |-> AsParameter(ps[i], args[i + j - 1])])
         ELSE IF i \in DOMAIN args THEN AsParameter(ps[i], args[i]) ELSE ps[i].default]

\* The type whose pointer a specialization's only argument is, if the partial
\* specialization is the one that it was instantiated from.
PartialMatch(d) ==
  {t \in TemplateDecls[d.of].partial : d \in bodies /\ d.args = <<TypeArgument(PointersTo[t])>>}

-----------------------------------------------------------------------------
(* The operations. *)

\* The TemplateArguments made of the client's list.
TemplateArguments(infos) ==
  [i \in DOMAIN infos |->
     IF infos[i].value = NoDecl THEN TypeArgument(infos[i].type)
     ELSE IntegralArgument(infos[i].type, extOrTrunc(infos[i].value, infos[i].type))]

\* What InstantiateTemplate answers: null if the arguments do not fit.
Instantiation(tmpl, infos) ==
  LET args == TemplateArguments(infos)
  IN  IF Accepts(tmpl, args) THEN Instance(tmpl, Canonical(tmpl, args)) ELSE NoDecl

\* A class is completed, a function defined if that is asked for, a variable
\* only declared.
DefinedBy(tmpl, instantiate_body) ==
  /\ TemplateDecls[tmpl].defined
  /\ \/ TemplateDecls[tmpl].kind = "class"
     \/ TemplateDecls[tmpl].kind = "function" /\ instantiate_body

InstantiateTemplate(tmpl, infos, instantiate_body) ==
  LET made == {Instantiation(tmpl, infos)} \ {NoDecl}
  IN  /\ specializations' = specializations \cup made
      /\ bodies' = IF DefinedBy(tmpl, instantiate_body) THEN bodies \cup made ELSE bodies
      /\ UNCHANGED <<lib, var_count, helpers>>

\* InstantiateTemplateFunctionFromString: a variable is declared with the text
\* as its initializer, and what that refers to is the answer.  A name is used
\* up even when the declaration fails.
FromString(tmpl, infos) ==
  LET d == Instantiation(tmpl, infos)
  IN  /\ var_count < MaxStrings /\ TemplateDecls[tmpl].kind = "function"
      /\ var_count' = var_count + 1
      /\ UNCHANGED lib
      /\ IF d = NoDecl THEN UNCHANGED <<specializations, bodies, helpers>>
         ELSE /\ helpers' = [v \in DOMAIN helpers \cup {var_count} |->
                               IF v \in DOMAIN helpers THEN helpers[v] ELSE d]
              /\ specializations' = specializations \cup {d}
              /\ bodies' = IF TemplateDecls[tmpl].defined THEN bodies \cup {d} ELSE bodies

InfoOf(a) == [type |-> IF a.k = "Type" THEN a.type ELSE NoDecl, value |-> NoDecl]

\* TA.getAsType() of each; only of a type is it one.
GetClassTemplateArgs(d) == [i \in DOMAIN d.args |-> InfoOf(d.args[i])]

\* A bug: what a pack took is left out.
UnpackedWithoutPacks(args) == [i \in DOMAIN SelectSeq(args, LAMBDA a : a.k # "Pack") |->
                                  InfoOf(SelectSeq(args, LAMBDA a : a.k # "Pack")[i])]

\* What an argument is shown as: that of a pack is what it took.
InfosOf(a) == IF a.k = "Pack" THEN [j \in DOMAIN a.pack |-> InfoOf(a.pack[j])] ELSE <<InfoOf(a)>>

\* args.push_back of each in turn.
Unpacked(args) ==
  LET upTo[i \in 0..Len(args)] == IF i = 0 THEN <<>> ELSE upTo[i - 1] \o InfosOf(args[i])
  IN  upTo[Len(args)]

\* The arguments of the pattern the specialization was instantiated from: for a
\* partial specialization those deduced for its own parameters.
GetClassTemplateInstantiationArgs(d) ==
  IF PartialMatch(d) # {} THEN [i \in 1..1 |-> InfoOf(TypeArgument(CHOOSE t \in PartialMatch(d) : TRUE))]
  ELSE Unpacked(d.args)

-----------------------------------------------------------------------------
TemplatesInit ==
  /\ lib = Library
  /\ specializations = {} /\ bodies = {}
  /\ var_count = 0 /\ helpers = <<>>

TemplatesNext ==
  /\ Cardinality(specializations) < MaxInstances
  /\ \E tmpl \in DOMAIN TemplateDecls, infos \in TemplateArgInfos :
       \/ \E instantiate_body \in BOOLEAN : InstantiateTemplate(tmpl, infos, instantiate_body)
       \/ FromString(tmpl, infos)

TemplatesSpec == TemplatesInit /\ [][TemplatesNext]_templateVars

-----------------------------------------------------------------------------
(* Properties. *)

\* What is defined exists, and so does what a helper variable refers to.
TemplatesTypeOK ==
  /\ bodies \subseteq specializations
  /\ \A d \in specializations : /\ d.of \in DOMAIN TemplateDecls
                                /\ Len(d.args) = Len(TemplateDecls[d.of].params)
  /\ var_count \in 0..MaxStrings
  /\ DOMAIN helpers \subseteq 0..(var_count - 1)
  /\ \A v \in DOMAIN helpers : helpers[v] \in specializations

OfTypes(d) == \A i \in DOMAIN d.args :
  \/ d.args[i].k = "Type"
  \/ d.args[i].k = "Pack" /\ \A j \in DOMAIN d.args[i].pack : d.args[i].pack[j].k = "Type"

\* The arguments GetClassTemplateArgs and GetClassTemplateInstantiationArgs
\* read from a class specialization of types name, handed to InstantiateTemplate
\* again, that very specialization: defaults and packs included.  The first
\* cannot show a pack, and the second shows those of a partial specialization.
ArgumentsReadBack ==
  \A d \in {s \in specializations : TemplateDecls[s.of].kind = "class" /\ OfTypes(s)} :
    /\ PartialMatch(d) = {} => Instantiation(d.of, GetClassTemplateInstantiationArgs(d)) = d
    /\ (\A i \in DOMAIN d.args : d.args[i].k # "Pack") =>
         Instantiation(d.of, GetClassTemplateArgs(d)) = d

\* An integer that its own type and the parameter's can represent is what the
\* specialization gets, whichever sign it has (InstantiateTemplate widens or
\* cuts the text of the number to the type's width).
ValuesKept ==
  \A tmpl \in DOMAIN TemplateDecls, infos \in TemplateArgInfos :
    LET ps == TemplateDecls[tmpl].params
    IN  (/\ Instantiation(tmpl, infos) \in specializations
         /\ Len(infos) = Len(ps) /\ \A i \in DOMAIN infos :
              /\ infos[i].value # NoDecl /\ ~ps[i].pack
              /\ Fits(infos[i].value, infos[i].type) /\ Fits(infos[i].value, ps[i].type)) =>
        \A i \in DOMAIN ps : Instantiation(tmpl, infos).args[i].value = infos[i].value

\* A class handle InstantiateTemplate hands out is complete whenever its template
\* is defined, and a function found from its text has the body it is called for
\* (CppInterOp.cpp:6138 and 6259): neither depends on who asked first.
HandedOutComplete ==
  /\ \A d \in specializations :
       TemplateDecls[d.of].kind = "class" /\ TemplateDecls[d.of].defined => d \in bodies
  /\ \A v \in DOMAIN helpers : TemplateDecls[helpers[v].of].defined => helpers[v] \in bodies

\* A specialization is the one its arguments name, complete when it is handed
\* out, and its arguments read back name it again (InstantiateTemplate,
\* GetClassTemplateArgs, GetClassTemplateInstantiationArgs).
SpecializationsExact ==
  /\ TemplatesTypeOK
  /\ ArgumentsReadBack
  /\ ValuesKept
  /\ HandedOutComplete
=============================================================================
