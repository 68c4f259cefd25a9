------------------------------- MODULE MCCalls --------------------------------
(***************************************************************************)
(* Two classes - C can be copied, M only moved - and the functions where a *)
(* wrapper has a choice to make.                                           *)
(***************************************************************************)
EXTENDS Calls

NoPattern == [tk |-> "none", explicit |-> FALSE, body |-> FALSE]
Plain == [name |-> "", scope |-> "global", kind |-> "function", params |-> <<>>, min |-> 0, ret |-> "void",
          operator |-> "no", instantiation |-> FALSE, packs |-> 0, refq |-> "none",
          access |-> "public", shadow |-> FALSE, abstract |-> FALSE, tk |-> "NonTemplate", pattern |-> NoPattern,
          implicitlyInstantiable |-> FALSE, body |-> TRUE, address |-> FALSE, deleted |-> FALSE, lateParsed |-> FALSE]
Template == [Plain EXCEPT !.tk = "FunctionTemplateSpecialization", !.instantiation = TRUE, !.body = FALSE,
             !.implicitlyInstantiable = TRUE,
             !.pattern = [tk |-> "FunctionTemplate", explicit |-> FALSE, body |-> TRUE]]

MCFns ==
  \* take(C), take(C&&) and a template take<C>(C): three functions of one name
  "takeValue"  :> [Plain EXCEPT !.name = "take", !.params = <<"copyable">>] @@
  "takeRvalue" :> [Plain EXCEPT !.name = "take", !.params = <<"T&&">>] @@
  "takeInst"   :> [Template EXCEPT !.name = "take", !.params = <<"T&">>] @@
  \* sink(M, C = {}): moved from and copied, the second one optional
  "sink"       :> [Plain EXCEPT !.name = "sink", !.params = <<"moveOnly", "copyable">>, !.min = 1] @@
  \* a method only for rvalues, returning an object
  "release"    :> [Plain EXCEPT !.name = "release", !.scope = "C", !.kind = "method", !.refq = "&&", !.ret = "copyable"] @@
  \* default constructors, a copy and a converting one
  "C()"        :> [Plain EXCEPT !.name = "C", !.scope = "C", !.kind = "ctor", !.params = <<"int">>, !.access = "private"] @@
  "M()"        :> [Plain EXCEPT !.name = "M", !.scope = "M", !.kind = "ctor"] @@
  "M(C&&)"     :> [Plain EXCEPT !.name = "M", !.scope = "M", !.kind = "ctor", !.params = <<"T&&">>, !.min = 1] @@
  "~C"         :> [Plain EXCEPT !.name = "~C", !.scope = "C", !.kind = "dtor"] @@
  \* functions that get a wrapper sometimes or never
  "hidden"     :> [Plain EXCEPT !.name = "hidden", !.scope = "C", !.kind = "static", !.access = "protected", !.shadow = TRUE] @@
  "own"        :> [Plain EXCEPT !.name = "own", !.scope = "C", !.kind = "static", !.access = "private"] @@
  "rvalue"     :> [Plain EXCEPT !.name = "rvalue", !.ret = "T&&", !.access = "protected", !.shadow = TRUE] @@
  "gone"       :> [Plain EXCEPT !.name = "gone", !.deleted = TRUE]
=============================================================================
