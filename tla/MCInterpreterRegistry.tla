----------------------- MODULE MCInterpreterRegistry -----------------------
(* Instances of InterpreterRegistry for TLC. *)
EXTENDS InterpreterRegistry, TLC

\* The interpreters the library creates are interchangeable, but for the busy one.
IdleSymmetry == Permutations(Owned \ Busy)
=============================================================================
