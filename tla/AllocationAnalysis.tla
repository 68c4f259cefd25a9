-------------------------- MODULE AllocationAnalysis --------------------------
(***************************************************************************)
(* GetAllocType and GetDeallocType: how the pointer a function returns was *)
(* allocated, and how it deallocates the pointers it is given, read off    *)
(* its body, together with the attributes IsAllocator and its kin read.    *)
(*                                                                         *)
(* A program P maps functions to records: the parameters, the body (a      *)
(* sequence of statements, or NoBody), whether a pointer is returned, and  *)
(* the attributes.  An expression is a record with field e, a statement    *)
(* one with field s.  A loop of any kind is a "while": the traversals come *)
(* by its body once, as by any statement.  Lambdas and local classes are   *)
(* left out, as the traversals leave them.                                 *)
(***************************************************************************)
EXTENDS Naturals, Integers, Sequences, FiniteSets, SequencesExt

NoBody == <<[s |-> "no body"]>>
NoElse == <<[s |-> "no else"]>>

\* Allocations, and what deallocates each.
AllocKinds == {"New", "NewArr", "Malloc", "OperatorNew", "OperatorNewArr"}
AllocTypes == AllocKinds \cup {"None", "Null", "Unknown"}
Nullopt    == "nullopt"

With(f, x, v) == [y \in DOMAIN f \cup {x} |-> IF y = x THEN v ELSE f[y]]

\* std::unordered_map::operator[] on optionals, and try_emplace.
At(f, x)            == IF x \in DOMAIN f THEN f[x] ELSE Nullopt
TryEmplace(f, x, v) == IF x \in DOMAIN f THEN f ELSE With(f, x, v)

-----------------------------------------------------------------------------
(* Attributes: a sequence of [own, args], or [annotation]. *)

OwnershipAttrs(F) == SelectSeq(F.attrs, LAMBDA a : a.own # "annotate")

GetOwnershipBehaviour(F) == {OwnershipAttrs(F)[i].own : i \in DOMAIN OwnershipAttrs(F)}

\* The parameters as bits of a 64-bit word.
GetDeallocationIndexes(F) ==
  {x \in UNION {Range(a.args) : a \in {b \in Range(OwnershipAttrs(F)) : b.own # "Returns"}} : x < 64}

\* Of the ownership attributes only the first one counts.
IsAllocator(F) ==
  LET own  == OwnershipAttrs(F)
      says == SelectSeq(F.attrs, LAMBDA a : a.own = "annotate")
  IN  CASE F.builtin = "malloc"                    -> "Malloc"
        [] own # <<>> /\ Head(own).own = "Returns" -> "Malloc"
        [] OTHER -> IF says = <<>> THEN "Unknown" ELSE Head(says).kind

IsDeallocator(F) ==
  \/ F.builtin = "free"
  \/ OwnershipAttrs(F) # <<>> /\ Head(OwnershipAttrs(F)).own = "Takes"

-----------------------------------------------------------------------------
(* AllocationTraverser: t holds varMap, visitedFuncs, the result so far, and *)
(* the undo log, used when it is in a branch.                                *)

\* Null agrees with everything, differing behaviours are Unknown.
join(a, b) ==
  CASE a = "Null" -> b
    [] b = "Null" -> a
    [] a = b      -> a
    [] OTHER      -> "Unknown"

\* A bug: what the branch overwrote is kept.
undoNothing(varMap, log) == varMap

undoOnVarMap(varMap, log) ==
  [v \in DOMAIN varMap \cup DOMAIN log |-> IF v \in DOMAIN log THEN log[v] ELSE varMap[v]]

handleNew(e) == IF e.placement THEN "None" ELSE IF e.array THEN "NewArr" ELSE "New"

RECURSIVE handleExpr(_, _, _), AnalyzeAllocType(_, _, _), TraverseStmts(_, _, _)

\* <<the type, visitedFuncs>>: a callee is asked for its attributes, then for its
\* body, once; while it is being analysed it counts as what its attributes said.
handleCall(P, visited, fn) ==
  CASE P[fn].builtin = "malloc" -> <<"Malloc", visited>>
    [] P[fn].builtin = "operator new" -> <<"OperatorNew", visited>>
    [] P[fn].builtin = "operator new[]" -> <<"OperatorNewArr", visited>>
    [] fn \in DOMAIN visited -> <<visited[fn], visited>>
    [] OTHER ->
         LET stored == IsAllocator(P[fn])
             v1     == With(visited, fn, stored)
         IN  IF stored # "Unknown" THEN <<stored, v1>> ELSE AnalyzeAllocType(P, fn, v1)

handleExpr(P, t, e) ==
  CASE e.e = "new"   -> <<handleNew(e), t.visited>>
    [] e.e = "var"   -> <<IF e.v \in DOMAIN t.varMap THEN t.varMap[e.v] ELSE "None", t.visited>>
    [] e.e = "call"  -> handleCall(P, t.visited, e.fn)
    [] e.e = "null"  -> <<"Null", t.visited>>
    [] e.e \in {"cond", "other"} -> <<"None", t.visited>>   \* c ? x : y is not looked into

\* After an if: every variable either branch wrote is the join of both ways.
TraverseIfStmt(P, t, st) ==
  LET outer == t.undo
      T     == TraverseStmts(P, [t EXCEPT !.undo = <<>>, !.branch = TRUE], st.then)
      then  == T.undo
      back  == [T EXCEPT !.varMap = undoOnVarMap(T.varMap, then), !.undo = <<>>]
      E     == TraverseStmts(P, back, st.else)
      else  == E.undo
      \* informs the branch around this one
      told(logs) == IF ~t.branch THEN <<>>
                    ELSE [v \in DOMAIN outer \cup DOMAIN logs |-> IF v \in DOMAIN outer THEN outer[v] ELSE logs[v]]
      noElse == [v \in DOMAIN T.varMap |->
                   IF v \in DOMAIN then THEN join(then[v], T.varMap[v]) ELSE T.varMap[v]]
      afterElse == [v \in DOMAIN E.varMap |->
                      CASE v \notin DOMAIN else         -> E.varMap[v]
                        [] v \in DOMAIN then            -> join(E.varMap[v], T.varMap[v])
                        [] OTHER                        -> join(else[v], E.varMap[v])]
      both == [v \in DOMAIN E.varMap |->
                 IF v \in DOMAIN then THEN join(T.varMap[v], afterElse[v]) ELSE afterElse[v]]
  IN  IF st.else = NoElse
      THEN [T EXCEPT !.varMap = noElse, !.undo = told(then), !.branch = t.branch, !.stop = FALSE]
      ELSE [E EXCEPT !.varMap = both, !.branch = t.branch, !.stop = FALSE,
                     !.undo = told([v \in DOMAIN then \cup DOMAIN else |->
                                      IF v \in DOMAIN then THEN then[v] ELSE else[v]])]

\* A declaration is not part of the undo log, an assignment is.
Write(t, v, val, logged) ==
  [t EXCEPT !.varMap = With(@, v, val),
            !.undo = IF logged /\ t.branch THEN TryEmplace(@, v, At(t.varMap, v)) ELSE @]

VisitVarDecl(P, t, st) ==
  LET h == handleExpr(P, t, st.init)
  IN  Write([t EXCEPT !.visited = h[2]], st.v, h[1], FALSE)

VisitBinaryOperator(P, t, st) ==
  LET h == handleExpr(P, t, st.rhs)
  IN  IF st.compound THEN Write(t, st.v, "Unknown", TRUE)
      ELSE Write([t EXCEPT !.visited = h[2]], st.v, h[1], TRUE)

VisitReturnStmt(P, t, st) ==
  LET h == handleExpr(P, t, st.val)
      t1 == [t EXCEPT !.visited = h[2]]
      r  == IF t.result = Nullopt THEN h[1] ELSE join(t.result, h[1])
  IN  IF h[1] = Nullopt THEN t1
      ELSE [t1 EXCEPT !.result = r, !.stop = t.result # Nullopt /\ r = "Unknown"]

TraverseStmt(P, t, st) ==
  CASE st.s = "if"     -> TraverseIfStmt(P, t, st)
    [] st.s = "decl"   -> VisitVarDecl(P, t, st)
    [] st.s = "assign" -> VisitBinaryOperator(P, t, st)
    [] st.s = "return" -> VisitReturnStmt(P, t, st)
    [] st.s = "while"  -> TraverseStmts(P, t, st.body)
    [] OTHER           -> t

TraverseStmts(P, t, sts) ==
  IF sts = <<>> \/ sts = NoElse \/ t.stop THEN t
  ELSE TraverseStmts(P, TraverseStmt(P, t, Head(sts)), Tail(sts))

AnalyzeAllocType(P, fn, visited) ==
  LET F  == P[fn]
      t0 == [varMap |-> [v \in Range(F.params) |-> "None"], visited |-> visited, result |-> Nullopt,
             undo |-> <<>>, branch |-> FALSE, stop |-> FALSE]
      t  == TraverseStmts(P, t0, F.body)
  IN  IF ~F.pointer THEN <<"None", visited>>
      ELSE IF F.body = NoBody THEN <<"Unknown", visited>>
      ELSE <<t.result, With(t.visited, fn, t.result)>>

GetAllocType(P, fn) ==
  LET r == AnalyzeAllocType(P, fn, (fn :> Nullopt))[1] IN IF r = Nullopt THEN "None" ELSE r

-----------------------------------------------------------------------------
(* DeallocationTraverser: t holds aliasMap, overwritenParms, valPerParam and *)
(* visitedFuncs.                                                             *)

DeallocKinds == {"Delete", "DeleteArr", "Free"}
DeallocTypes == DeallocKinds \cup {"None", "Unknown", "Opaque"}

InProgress == <<Nullopt>>

resolveExpr(e) == IF e.e = "var" THEN e.v ELSE Nullopt

\* The parameter an expression still is, if any.
resolveParam(F, t, e) ==
  LET v == resolveExpr(e)
  IN  IF v \in Range(F.params) THEN IF v \in t.overwriten THEN Nullopt ELSE v
      ELSE At(t.aliasMap, v)

\* A bug: the last deallocation wins.
updateVPPLast(t, i, DT) == [t EXCEPT !.vpp[i] = DT]

updateVPP(t, i, DT) ==
  [t EXCEPT !.vpp[i] =
     IF @ = "Unknown" \/ (@ # "None" /\ @ # DT) \/ DT = "Opaque" THEN "Unknown" ELSE DT]

IndexOf(F, p) == CHOOSE i \in DOMAIN F.params : F.params[i] = p

updateMap(F, t, v, e) ==
  IF v \in Range(F.params) THEN [t EXCEPT !.overwriten = @ \cup {v}]
  ELSE [t EXCEPT !.aliasMap = With(@, v, resolveParam(F, t, e))]

Deallocated(F, t, e, DT) ==
  LET p == resolveParam(F, t, e) IN IF p = Nullopt THEN t ELSE updateVPP(t, IndexOf(F, p), DT)

\* What a callee does to its parameters it does to the arguments.
joinVectors(F, t, vec, args) ==
  FoldLeftDomain(LAMBDA u, i : IF i > Len(args) \/ vec[i] = "None" THEN u
                               ELSE Deallocated(F, u, args[i], vec[i]), t, vec)

RECURSIVE AnalyzeDeallocType(_, _, _), DeallocTraverse(_, _, _, _)

\* A function met again while it is analysed is passed over.
VisitCallExpr(P, F, t, st) ==
  LET a  == AnalyzeDeallocType(P, st.fn, With(t.visited, st.fn, InProgress))
  IN  IF P[st.fn].builtin = "free" THEN Deallocated(F, t, st.args[1], "Free")
      ELSE IF st.fn \in DOMAIN t.visited
      THEN IF t.visited[st.fn] = InProgress THEN t ELSE joinVectors(F, t, t.visited[st.fn], st.args)
      ELSE joinVectors(F, [t EXCEPT !.visited = a[2]], a[1], st.args)

\* The calls of a statement are visited after it, in their order.
CallsOf(st) ==
  LET callsOf(e) == IF e.e = "call" THEN <<e>> ELSE <<>>
      value(e)   == IF e.e = "cond" THEN callsOf(e.then) \o callsOf(e.else) ELSE callsOf(e)
  IN  CASE st.s = "decl"   -> value(st.init)
        [] st.s = "assign" -> value(st.rhs)
        [] st.s = "return" -> value(st.val)
        [] st.s = "call"   -> <<st>>
        [] OTHER           -> <<>>

DeallocTraverse(P, F, t, sts) ==
  IF sts = <<>> \/ sts = NoElse THEN t
  ELSE LET st == Head(sts)
           t1 == CASE st.s = "decl"   -> updateMap(F, t, st.v, st.init)
                   [] st.s = "assign" -> IF st.compound THEN t ELSE updateMap(F, t, st.v, st.rhs)
                   [] st.s = "delete" -> Deallocated(F, t, st.arg, IF st.array THEN "DeleteArr" ELSE "Delete")
                   [] st.s = "if"     -> DeallocTraverse(P, F, DeallocTraverse(P, F, t, st.then), st.else)
                   [] st.s = "while"  -> DeallocTraverse(P, F, t, st.body)
                   [] OTHER           -> t
           t2 == FoldLeft(LAMBDA u, c : VisitCallExpr(P, F, u, c), t1, CallsOf(st))
       IN  DeallocTraverse(P, F, t2, Tail(sts))

\* <<valPerParam, visitedFuncs>>
AnalyzeDeallocType(P, fn, visited) ==
  LET F  == P[fn]
      t0 == [aliasMap |-> <<>>, overwriten |-> {}, vpp |-> [i \in DOMAIN F.params |-> "None"], visited |-> visited]
      t  == DeallocTraverse(P, F, t0, F.body)
      opaque == [i \in DOMAIN F.params |-> "Opaque"]
  IN  IF F.body = NoBody THEN <<opaque, With(visited, fn, opaque)>>
      ELSE <<t.vpp, With(t.visited, fn, t.vpp)>>

GetDeallocType(P, fn) == AnalyzeDeallocType(P, fn, (fn :> InProgress))[1]
=============================================================================
