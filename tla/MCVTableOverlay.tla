-------------------------- MODULE MCVTableOverlay --------------------------
(* An object of a plain polymorphic class, and perhaps one of a class with *)
(* two polymorphic bases.  Slot 3 is a virtual no client replaces; -1 is a *)
(* method that is not virtual, 4 one of a larger class.                    *)
EXTENDS VTableOverlay, TLC

CONSTANTS plain, multi, a, b

MCClassOf ==
    [o \in Objects |->
        [polymorphic |-> TRUE, vbases |-> 0,
         polybases |-> IF o = multi THEN 2 ELSE 1, slots |-> 4]]

MCMethodSlots == {-1, 2, 4}
=============================================================================
