--------------------------------- MODULE Boxes ---------------------------------
(***************************************************************************)
(* Cpp::Box, the value Evaluate returns: a fundamental value inside the    *)
(* box, or a reference to a counted payload (ValueRefCount) that boxes in  *)
(* any thread may share.  A box variable is either dead (Null) or a        *)
(* record; releasing takes two steps, the decrement of the count and, by   *)
(* the thread whose decrement reached zero, the deletion.                  *)
(***************************************************************************)
EXTENDS Naturals, Sequences, FiniteSets

CONSTANTS BoxNames,     \* the box variables of the client's threads
          Payloads,     \* bound: the objects that are ever boxed
          Null

VARIABLES box,       \* BoxNames -> a Box or Null
          rc,        \* Payloads -> the count of a payload, Null: no such object
          doomed     \* payloads whose count reached zero and that are being deleted

boxVars == <<box, rc, doomed>>

-----------------------------------------------------------------------------
(* Kinds *)

BuiltinKinds == {"Bool", "Char_S", "Char_U", "SChar", "UChar", "Short", "UShort", "Int",
                 "UInt", "Long", "ULong", "LongLong", "ULongLong", "Float", "Double", "LongDouble"}

\* Char_U shares the storage of unsigned char; all that is no builtin is an object.
classifyByQualType(type) ==
  IF type \in BuiltinKinds THEN IF type = "Char_U" THEN "UChar" ELSE type ELSE "PtrOrObj"

BoxKinds == (BuiltinKinds \ {"Char_U"}) \cup {"PtrOrObj", "Unspecified"}

BoxValues == [kind : BoxKinds, ptr : Payloads \cup {Null}]

ASSUME BoxesAssumption ==
  /\ IsFiniteSet(BoxNames)
  /\ Null \notin Payloads /\ Null \notin Nat /\ Null \notin BoxValues

Unspecified == [kind |-> "Unspecified", ptr |-> Null]

Create(kind) == [kind |-> kind, ptr |-> Null]
AdoptObject(p) == [kind |-> "PtrOrObj", ptr |-> p]

\* A box whose destruction and copies concern the payload.
Counted(b) == b.kind = "PtrOrObj" /\ b.ptr # Null

-----------------------------------------------------------------------------
(* The count: steps on it are atomic, and touching a deleted payload leaves *)
(* no defined count.                                                        *)

retain(counts, b) ==
  IF Counted(b) /\ counts[b.ptr] # Null THEN [counts EXCEPT ![b.ptr] = @ + 1] ELSE counts

release(counts, b) ==
  IF Counted(b) /\ counts[b.ptr] # Null /\ counts[b.ptr] > 0
  THEN [counts EXCEPT ![b.ptr] = @ - 1] ELSE counts

Released(counts, b) ==
  IF Counted(b) /\ counts[b.ptr] = 1 THEN doomed \cup {b.ptr} ELSE doomed

BoxesInit ==
  /\ box = [b \in BoxNames |-> Null]
  /\ rc = [p \in Payloads |-> Null]
  /\ doomed = {}

Live(b) == box[b] # Null

\* What Evaluate puts into the box: nothing on failure or without a value.
MakeValueBox(b, p) ==
  /\ ~Live(b)
  /\ rc[p] = Null
  /\ box' = [box EXCEPT ![b] = AdoptObject(p)]
  /\ rc' = [rc EXCEPT ![p] = 1]
  /\ UNCHANGED doomed

MakePlainBox(b, value) ==
  /\ ~Live(b)
  /\ box' = [box EXCEPT ![b] = value]
  /\ UNCHANGED <<rc, doomed>>

\* Box(const Box&)
CopyConstruct(b, o) ==
  /\ ~Live(b)
  /\ Live(o)
  /\ box' = [box EXCEPT ![b] = box[o]]
  /\ rc' = retain(rc, box[o])
  /\ UNCHANGED doomed

\* A bug: no test for assignment to itself.
CopyAssignUnguarded(b, o) ==
  /\ Live(b)
  /\ Live(o)
  /\ box' = [box EXCEPT ![b] = box[o]]
  /\ doomed' = Released(rc, box[b])
  /\ rc' = retain(release(rc, box[b]), box[o])

\* operator=(const Box&): ~Box(), the fields, retain.
CopyAssign(b, o) ==
  /\ Live(b)
  /\ Live(o)
  /\ IF b = o THEN UNCHANGED boxVars
     ELSE /\ box' = [box EXCEPT ![b] = box[o]]
          /\ doomed' = Released(rc, box[b])
          /\ rc' = retain(release(rc, box[b]), box[o])

\* A moved-from box keeps its storage and forgets its kind.
MovedFrom(o) == [box[o] EXCEPT !.kind = "Unspecified"]

MoveConstruct(b, o) ==
  /\ ~Live(b)
  /\ Live(o)
  /\ box' = [box EXCEPT ![b] = box[o], ![o] = MovedFrom(o)]
  /\ UNCHANGED <<rc, doomed>>

MoveAssign(b, o) ==
  /\ Live(b)
  /\ Live(o)
  /\ IF b = o THEN UNCHANGED boxVars
     ELSE /\ box' = [box EXCEPT ![b] = box[o], ![o] = MovedFrom(o)]
          /\ doomed' = Released(rc, box[b])
          /\ rc' = release(rc, box[b])

Destroy(b) ==
  /\ Live(b)
  /\ box' = [box EXCEPT ![b] = Null]
  /\ doomed' = Released(rc, box[b])
  /\ rc' = release(rc, box[b])

\* delete rc: the thread that took the last reference gets to it.
Delete(p) ==
  /\ p \in doomed
  /\ doomed' = doomed \ {p}
  /\ rc' = [rc EXCEPT ![p] = Null]
  /\ UNCHANGED box

-----------------------------------------------------------------------------
Holders(p) == {b \in BoxNames : Live(b) /\ Counted(box[b]) /\ box[b].ptr = p}

(* The count of a payload is the number of boxes that share it, over any   *)
(* copies, moves, assignments (to itself too) and destructions: it is      *)
(* deleted, once, exactly when the last of them is gone, and no box is     *)
(* left with a payload that is.                                            *)
BoxCountExact ==
  \A p \in Payloads :
    /\ rc[p] = Null => Holders(p) = {} /\ p \notin doomed
    /\ rc[p] # Null => rc[p] = Cardinality(Holders(p)) /\ (rc[p] = 0 <=> p \in doomed)
=============================================================================
