----------------------------- MODULE MCOwnership -----------------------------
(***************************************************************************)
(* Every body of a source made of two declarations, an if with or without  *)
(* else, nested or not, with or without a return, or a loop around an if,  *)
(* and one more assignment; every body of a sink made of an alias and two  *)
(* uses of it, the first of them under an if or in a loop that it leaves.  *)
(***************************************************************************)
EXTENDS Ownership

Fn(params, pointer, body) ==
  [params |-> params, pointer |-> pointer, body |-> body, attrs |-> <<>>, builtin |-> "no"]

NewE   == [e |-> "new", placement |-> FALSE, array |-> FALSE]
NewArr == [e |-> "new", placement |-> FALSE, array |-> TRUE]
Place  == [e |-> "new", placement |-> TRUE, array |-> FALSE]
Null   == [e |-> "null"]
Var(v) == [e |-> "var", v |-> v]
Call(fn, args) == [e |-> "call", fn |-> fn, args |-> args]
Do(fn, args)   == [s |-> "call", e |-> "call", fn |-> fn, args |-> args]
Decl(v, e)     == [s |-> "decl", v |-> v, init |-> e]
Assign(v, e)   == [s |-> "assign", v |-> v, rhs |-> e, compound |-> FALSE]
Return(e)      == [s |-> "return", val |-> e]
If(t, f)       == [s |-> "if", then |-> t, else |-> f]
While(t)       == [s |-> "while", body |-> t]
Cond(t, f)     == [e |-> "cond", then |-> t, else |-> f]
Delete(e)      == [s |-> "delete", arg |-> e, array |-> FALSE]
DeleteArr(e)   == [s |-> "delete", arg |-> e, array |-> TRUE]

Helpers ==
  ("malloc" :> [Fn(<<"n">>, TRUE, NoBody) EXCEPT !.builtin = "malloc"]) @@
  ("free" :> [Fn(<<"p">>, FALSE, NoBody) EXCEPT !.builtin = "free"]) @@
  ("opnew" :> [Fn(<<"n">>, TRUE, NoBody) EXCEPT !.builtin = "operator new"]) @@
  ("opnewArr" :> [Fn(<<"n">>, TRUE, NoBody) EXCEPT !.builtin = "operator new[]"]) @@
  ("annotated" :> [Fn(<<"p">>, TRUE, NoBody) EXCEPT
      !.attrs = <<[own |-> "annotate", kind |-> "NewArr"]>>]) @@
  ("owner" :> [Fn(<<"n">>, TRUE, NoBody) EXCEPT !.attrs = <<[own |-> "Returns", args |-> <<0>>]>>]) @@
  ("taker" :> [Fn(<<"p">>, FALSE, NoBody) EXCEPT !.attrs = <<[own |-> "Takes", args |-> <<0>>]>>]) @@
  ("holder" :> [Fn(<<"p">>, FALSE, NoBody) EXCEPT !.attrs = <<[own |-> "Holds", args |-> <<0>>]>>]) @@
  ("external" :> Fn(<<"p">>, TRUE, NoBody))

Malloc == Call("malloc", <<Var("n")>>)
p == Var("p")
q == Var("q")

Assigns == {Assign("p", e) : e \in {NewE, Malloc, Null, q, Call("g", <<Var("n")>>)}} \cup
           {Assign("q", e) : e \in {NewE, Null, p}}

Ifs ==
  {If(<<a>>, e) : a \in Assigns, e \in {NoElse} \cup {<<b>> : b \in Assigns}} \cup
  {If(<<a, Return(p)>>, e) : a \in Assigns, e \in {NoElse, <<Assign("p", Malloc)>>}} \cup
  {If(<<If(<<a>>, b)>>, c) : a \in Assigns, b \in {NoElse, <<Assign("p", Malloc)>>},
                             c \in {NoElse, <<Assign("q", Null)>>, <<Return(q)>>}}

\* What the loop writes is joined with what was there, since an if stands around it.
Loops ==
  {While(<<If(<<a>>, NoElse)>>) : a \in Assigns} \cup
  {While(<<Decl("r", e), Return(Var("r"))>>) : e \in {p, NewE, Malloc}} \cup
  {While(<<While(<<Return(p)>>)>>)}

SourceBodies ==
  {<<Decl("p", e1), Decl("q", NewE), i, a, Return(p)>> :
     e1 \in {NewE, Var("n")}, i \in Ifs \cup Loops, a \in {Assign("p", q), Assign("q", p)}} \cup
  {<<Return(e)>> : e \in {NewE, NewArr, Place, Malloc, Null, Call("opnew", <<Var("n")>>),
                          Call("opnewArr", <<Var("n")>>), Call("external", <<Var("n")>>), Call("f", <<Var("n")>>),
                          Call("annotated", <<Var("n")>>), Call("owner", <<Var("n")>>),
                          Cond(Var("n"), Null)}} \cup
  {<<Decl("p", NewE), [Assign("p", p) EXCEPT !.compound = TRUE], Return(p)>>}

\* A callee of the source: plain, recursive through the source, or itself.
GBodies == {<<Return(NewE)>>, <<If(<<Return(Call("f", <<Var("n")>>))>>, NoElse), Return(Malloc)>>,
            <<If(<<Return(Call("g", <<Var("n")>>))>>, NoElse), Return(NewE)>>, <<Return(Var("n"))>>}

\* What a sink may do with its parameter a, through the alias b.
a == Var("a")
b == Var("b")
Uses == {Delete(a), Delete(b), DeleteArr(b), Do("free", <<b>>), Do("h", <<b>>), Do("h", <<a>>),
         Do("d", <<b>>), Do("taker", <<b>>), Do("external", <<a>>)}
Guarded == {If(<<u, Return(Null)>>, NoElse) : u \in {Delete(a), Delete(b), Do("h", <<a>>), Do("free", <<b>>)}} \cup
           {While(<<u, Return(Null)>>) : u \in {Delete(a), Do("h", <<b>>)}}
SinkBodies ==
  {<<Decl("b", e), x, u>> : e \in {a, Null, NewE, Cond(Null, NewE)},
                            x \in Guarded \cup {Assign("b", a), Assign("b", Null), Assign("a", NewE)}, u \in Uses}
HBodies == {<<Delete(Var("z"))>>, <<Assign("z", Null), Delete(Var("z"))>>, <<>>, <<Do("free", <<Var("z")>>)>>}

AllocPrograms ==
  {Helpers @@ ("f" :> Fn(<<"n">>, TRUE, x)) @@ ("g" :> Fn(<<"n">>, TRUE, y)) @@
   ("d" :> Fn(<<"a">>, FALSE, <<Delete(a)>>)) @@ ("h" :> Fn(<<"z">>, FALSE, <<>>)) :
     x \in SourceBodies, y \in GBodies}

DeallocPrograms ==
  {Helpers @@ ("f" :> Fn(<<"n">>, TRUE, <<Return(NewE)>>)) @@ ("g" :> Fn(<<"n">>, TRUE, <<Return(Null)>>)) @@
   ("d" :> Fn(<<"a">>, FALSE, x)) @@ ("h" :> Fn(<<"z">>, FALSE, y)) :
     x \in SinkBodies, y \in HBodies}

MCPrograms == AllocPrograms \cup DeallocPrograms

\* Sources that C++ lets allocate in different ways, and a sink.
Differing(x) ==
  Helpers @@ ("f" :> Fn(<<"n">>, TRUE, x)) @@ ("d" :> Fn(<<"a">>, FALSE, <<>>))

\* A global written in one branch and returned from the other.
GlobalPrograms ==
  {Differing(<<If(<<Assign("global", e), Return(Var("global"))>>, <<Return(v)>>)>>) :
     e \in {NewE, Malloc, Null}, v \in {Var("global"), Var("n"), NewArr, Null}}

\* A variable written in a loop that may not run.
LoopPrograms ==
  {Differing(<<Decl("p", e), While(<<Assign("p", v)>>), Return(p)>>) : e, v \in {NewE, Malloc, Var("n")}}

\* A conditional operator with an allocation on one side.
ConditionalPrograms ==
  {Differing(<<Return(Cond(e, v))>>) : e \in {NewE, Malloc}, v \in {NewArr, Var("n")}}

\* A sink whose alias is its parameter on one way only.
AliasPrograms ==
  {Helpers @@ ("f" :> Fn(<<"n">>, TRUE, <<Return(NewE)>>)) @@ ("d" :> Fn(<<"a">>, FALSE, x)) :
     x \in {<<Decl("b", a), If(<<Assign("b", Null)>>, NoElse), Delete(b)>>,
            <<Decl("b", Cond(a, Null)), Delete(b)>>}}
=============================================================================
