------------------------------ MODULE MCTracing ------------------------------
(* Two functions, two pointers and one container, two logged calls, others  *)
(* inside them, and a crash at any moment.                                   *)
EXTENDS Tracing

\* Calls return vectors of two, and append one pointer.
MCVectors == Pointers \X PointerOrNull
MCFills == {<<p>> : p \in Pointers}

PointersAlike == Permutations(Pointers)
=============================================================================
