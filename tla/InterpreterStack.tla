-------------------------- MODULE InterpreterStack --------------------------
(***************************************************************************)
(* What the interpreter registry of CppInterOp.cpp promises its clients.   *)
(*                                                                         *)
(* The registered interpreters form a stack: a new interpreter goes on     *)
(* top, ActivateInterpreter moves one to the top and leaves the others in  *)
(* their order, DeleteInterpreter removes one.  The top is the active      *)
(* interpreter.  An interpreter the library created is freed exactly when  *)
(* it is removed; an external one is never freed.                          *)
(*                                                                         *)
(* The stack is given by its members and the relation "is below", so that  *)
(* nothing is said about where the entries are stored.                     *)
(***************************************************************************)
CONSTANTS Owned,    \* interpreters CreateInterpreter can return
          External  \* interpreters a client may pass to UseExternalInterpreter

VARIABLES members,  \* the registered interpreters
          below,    \* <<i, j>> \in below : i is under j in the stack
          freed     \* the interpreters that have been deleted

stackVars == <<members, below, freed>>

Interps == Owned \cup External

StackInit == members = {} /\ below = {} /\ freed = {}

Push(i) ==
  /\ i \in Interps \ (members \cup freed)
  /\ i \in External => members = {}
  /\ members' = members \cup {i}
  /\ below' = below \cup {<<j, i>> : j \in members}
  /\ freed' = freed

MoveToTop(i) ==
  /\ i \in members
  /\ below' = {p \in below : i \notin {p[1], p[2]}}
                \cup {<<j, i>> : j \in members \ {i}}
  /\ UNCHANGED <<members, freed>>

Remove(i) ==
  /\ i \in members
  /\ members' = members \ {i}
  /\ below' = {p \in below : i \notin {p[1], p[2]}}
  /\ freed' = freed \cup ({i} \cap Owned)

\* Process exit: the registry goes away.  The owned interpreters are freed
\* with it, or left to the operating system.
Drop ==
  /\ members' = {}
  /\ below' = {}
  /\ freed' \in {freed, freed \cup (members \cap Owned)}

StackNext ==
  \/ \E i \in Interps : Push(i) \/ MoveToTop(i) \/ Remove(i)
  \/ Drop

StackSpec == StackInit /\ [][StackNext]_stackVars
=============================================================================
